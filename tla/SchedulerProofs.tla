-------------------------- MODULE SchedulerProofs --------------------------
(***************************************************************************)
(* Proofs about Scheduler for any set of tasks, of pairs and of workers,   *)
(* and any number of runs and slots.                                       *)
(***************************************************************************)
EXTENDS Scheduler, TLAPS

(* Rows as the table, the file and the copies on their way to it have them;*)
(* runs, of which only those of a bisync pair are resyncs; and the rest.   *)
SoundRows == {x \in Rows : (x.enabled => x.exists) /\ (x.next # 0 => x.enabled)}
Tables == [Schedules -> SoundRows]
RunLabels == Phases \cup {"unused", "ended"}
Futures == {x \in [at : RunLabels, sched : Schedules, pair : Pairs, resync : BOOLEAN,
                   slot : Nat, tick : BOOLEAN, status : Verdicts \cup {"running"}] :
               x.resync => x.pair \in Bisync}
DeskLabels == {"idle", "clone", "save", "record", "spawn", "close", "release"}
AfterSave == {"idle", "record", "release"}
DesksOf == [at : DeskLabels, snap : Tables, run : Nat, then : AfterSave]
Marks == [status : Verdicts \cup {"none", "running"}, job : BOOLEAN]

Types ==
    /\ task \in Tables /\ file \in Tables
    /\ running \subseteq Schedules
    /\ run \in [Runs -> Futures]
    /\ record \in [Runs -> Marks]
    /\ job \in [Runs -> {"none", "live", "completed", "failed", "canceled", "gone"}]
    /\ listed \subseteq Bisync /\ landed \subseteq Runs
    /\ ready \in BOOLEAN /\ todo \subseteq Schedules /\ clock \in Nat
    /\ desk \in [Actors -> DesksOf]

(* An actor that has a run to record or to spawn, and the loop when it has *)
(* a run to release.                                                       *)
Starts(a) == desk[a].at \in {"record", "spawn"} \/ desk[a].then = "record"
Releases(a) == desk[a].at = "release" \/ desk[a].then = "release"

(* SingleFlight, element by element.                                       *)
OneLive == \A q, r \in Runs : IsLive(q) /\ IsLive(r) /\ run[q].sched = run[r].sched => q = r
Marked ==
    /\ \A r \in Runs : IsLive(r) => run[r].sched \in running
    /\ \A s \in running : \E r \in Runs : IsLive(r) /\ run[r].sched = s

(* An actor that starts a run is the only one and the run is claimed; the  *)
(* loop alone releases, a run that has its verdict.                        *)
DeskOf(a) ==
    /\ desk[a].at \in {"idle", "record", "spawn", "release"} => desk[a].then = "idle"
    /\ desk[a].at = "close" => desk[a].then # "record"
    /\ Starts(a) => desk[a].run \in Runs /\ RunAt(desk[a].run, "claimed")
    /\ Releases(a) => a = Loop /\ desk[a].run \in Runs /\ RunAt(desk[a].run, "closing")
    /\ On(a, "close") => /\ desk[a].run \in Runs
                         /\ run[desk[a].run].at \in {"closing", "ended"}
                         /\ run[desk[a].run].status # "running"

Desks ==
    /\ \A a \in Actors : DeskOf(a)
    /\ \A a, b \in Actors : Starts(a) /\ Starts(b) /\ desk[a].run = desk[b].run => a = b

(* A slot that has fired is behind: of the next one, and of the clock when *)
(* the task is about to be claimed again.                                  *)
Slots ==
    \A r \in Runs : run[r].tick =>
        /\ run[r].slot <= clock
        /\ task[run[r].sched].next = 0 \/ run[r].slot < task[run[r].sched].next
        /\ run[r].sched \in todo => run[r].slot < clock

(* A record that is running has a live run or one to be closed, and not    *)
(* one that is only to be released.                                        *)
Records ==
    /\ \A r \in Runs : RunAt(r, "unused") => record[r].status = "none"
    /\ \A r \in Runs : RunAt(r, "watch") => record[r] = [status |-> "running", job |-> TRUE]
    /\ \A a \in Actors : Releases(a) /\ ~On(a, "close") => record[desk[a].run].status # "running"

(* Success is claimed for runs whose job has completed.                    *)
Landed ==
    /\ \A r \in Runs : job[r] = "completed" => r \in landed
    /\ \A r \in Runs : run[r].at \in {"stamp", "hooks"} \/ run[r].status = "success" => r \in landed

(* Run ids are used in order, and a live run is the last of its task.      *)
InOrder ==
    /\ \A q, r \in Runs : q < r /\ RunAt(q, "unused") => RunAt(r, "unused")
    /\ \A q, r \in Runs :
          IsLive(r) /\ ~RunAt(q, "unused") /\ run[q].sched = run[r].sched => q <= r

(* What each part needs of the others.                                     *)
Inv == /\ Types /\ Desks /\ OneLive /\ Marked /\ OncePerSlot /\ Slots
       /\ Records /\ RunningIsLive /\ Landed /\ SuccessIsReal /\ InOrder

-----------------------------------------------------------------------------
(* The shapes of a step, field by field.                                   *)
DeskIs(a, at, r, then) ==
    /\ desk' \in [Actors -> DesksOf]
    /\ desk'[a].at = at /\ desk'[a].run = r /\ desk'[a].then = then
    /\ \A b \in Actors \ {a} : desk'[b] = desk[b]

RunIs(r, at, status) ==
    /\ run' \in [Runs -> Futures]
    /\ run'[r].at = at /\ run'[r].status = status
    /\ run'[r].sched = run[r].sched /\ run'[r].pair = run[r].pair
    /\ run'[r].resync = run[r].resync
    /\ run'[r].slot = run[r].slot /\ run'[r].tick = run[r].tick
    /\ \A q \in Runs \ {r} : run'[q] = run[q]

(* The constants of the initial state are of their types.                  *)
LEMMA Defaults ==
    /\ Absent \in SoundRows /\ Absent.next = 0 /\ ~Absent.enabled
    /\ NoFile \in Tables
    /\ Free \in DesksOf /\ Free.at = "idle" /\ Free.then = "idle" /\ Free.run = 0
    /\ Unused \in Futures /\ Unused.at = "unused" /\ ~Unused.tick /\ Unused.status = "running"
<1>1. (CHOOSE p \in Pairs : TRUE) \in Pairs
  BY SchedulerAssumption
<1>2. (CHOOSE s \in Schedules : TRUE) \in Schedules
  BY SchedulerAssumption
<1>3. Absent \in SoundRows /\ Absent.next = 0 /\ ~Absent.enabled
  BY <1>1 DEF Absent, SoundRows, Rows
<1>4. NoFile \in Tables
  BY <1>3 DEF NoFile, Tables
<1>5. Free \in DesksOf /\ Free.at = "idle" /\ Free.then = "idle" /\ Free.run = 0
  BY <1>4 DEF Free, DesksOf, DeskLabels, AfterSave
<1>6. Unused \in Futures /\ Unused.at = "unused" /\ ~Unused.tick /\ Unused.status = "running"
  BY <1>1, <1>2 DEF Unused, Futures, RunLabels, Absent
<1> QED BY <1>3, <1>4, <1>5, <1>6

(* A desk with a new record on it.                                         *)
LEMMA PutsDesk ==
    ASSUME Types, NEW a \in Actors, NEW d \in DesksOf, Puts(a, d)
    PROVE  DeskIs(a, d.at, d.run, d.then)
BY DEF Types, Puts, DeskIs

(* The records that are put on desks.                                      *)
LEMMA FreeRecord ==
    ASSUME NEW at \in DeskLabels, NEW r \in Nat
    PROVE  LET d == [Free EXCEPT !.at = at, !.run = r]
           IN  d \in DesksOf /\ d.at = at /\ d.run = r /\ d.then = "idle"
BY Defaults DEF DesksOf

LEMMA PersistingRecord ==
    ASSUME NEW r \in Nat, NEW then \in AfterSave
    PROVE  LET d == Persisting(then, r)
           IN  d \in DesksOf /\ d.at = "clone" /\ d.run = r /\ d.then = then
BY Defaults DEF DesksOf, Persisting, DeskLabels

LEMMA PutsPersisting ==
    ASSUME Types, NEW a \in Actors, NEW r \in Nat, NEW then \in AfterSave,
           Puts(a, Persisting(then, r))
    PROVE  DeskIs(a, "clone", r, then)
<1> DEFINE d == Persisting(then, r)
<1>1. d \in DesksOf /\ d.at = "clone" /\ d.run = r /\ d.then = then
  BY PersistingRecord
<1>2. Puts(a, d)
  OBVIOUS
<1> HIDE DEF d
<1>3. DeskIs(a, d.at, d.run, d.then)
  BY <1>1, <1>2, PutsDesk
<1> QED BY <1>1, <1>3

LEMMA PutsFree ==
    ASSUME Types, NEW a \in Actors, Puts(a, Free)
    PROVE  DeskIs(a, "idle", 0, "idle")
BY PutsDesk, Defaults

(* A run with a new label.                                                 *)
LEMMA MovesRun ==
    ASSUME Types, NEW r \in Runs, NEW at \in RunLabels, Moves(r, at)
    PROVE  RunIs(r, at, run[r].status)
BY DEF Types, Moves, RunIs, Futures

(* A run with a new label and a verdict.                                   *)
LEMMA JudgesRun ==
    ASSUME Types, NEW r \in Runs, NEW at \in RunLabels, NEW v \in Verdicts,
           run' = [run EXCEPT ![r].at = at, ![r].status = v]
    PROVE  RunIs(r, at, v)
BY DEF Types, RunIs, Futures

(* What each handler does to its desk and to the runs.                     *)
LEMMA TableEffect ==
    ASSUME Types, NEW w \in Workers, NEW s \in Schedules, NEW p \in Pairs,
           NEW e \in BOOLEAN, NEW c \in BOOLEAN,
           Create(w, s, p, e) \/ Update(w, s, p, e, c)
    PROVE  /\ DeskIs(w, "clone", 0, "idle")
           /\ task' \in Tables
           /\ \A t \in Schedules \ {s} : task'[t] = task[t]
           /\ task'[s].next \in {0, task[s].next, clock + 1}
<1>1. w \in Actors /\ 0 \in Nat /\ "idle" \in AfterSave /\ clock \in Nat
  BY DEF Actors, AfterSave, Types
<1>2. Puts(w, Persisting("idle", 0))
  BY DEF Create, Update
<1>3. DeskIs(w, "clone", 0, "idle")
  BY <1>1, <1>2, PutsPersisting
<1>4. task \in [Schedules -> SoundRows]
  BY DEF Types, Tables
<1>5. task[s] \in SoundRows
  BY <1>4
<1>6. PICK x \in SoundRows : task' = [task EXCEPT ![s] = x]
                              /\ x.next \in {0, task[s].next, clock + 1}
  <2>1. CASE Create(w, s, p, e)
    <3> DEFINE x == [exists |-> TRUE, enabled |-> e, next |-> FirstSlot(e), pair |-> p, stamp |-> FALSE]
    <3>1. FirstSlot(e) \in {0, clock + 1} /\ (FirstSlot(e) # 0 => e)
      BY <1>1 DEF FirstSlot
    <3>2. x \in SoundRows /\ x.next = FirstSlot(e)
      BY <3>1, <1>1 DEF SoundRows, Rows
    <3>3. task' = [task EXCEPT ![s] = x]
      BY <2>1 DEF Create
    <3> HIDE DEF x
    <3> QED BY <3>1, <3>2, <3>3
  <2>2. CASE Update(w, s, p, e, c)
    <3> DEFINE x == [exists |-> TRUE, enabled |-> e, pair |-> p,
                     next |-> IF e # task[s].enabled \/ c THEN FirstSlot(e) ELSE task[s].next,
                     stamp |-> task[s].stamp /\ p = task[s].pair]
    <3>1. FirstSlot(e) \in {0, clock + 1} /\ (FirstSlot(e) # 0 => e)
      BY <1>1 DEF FirstSlot
    <3>2. task[s].next \in Nat /\ task[s].enabled \in BOOLEAN
          /\ (task[s].next # 0 => task[s].enabled)
      BY <1>5 DEF SoundRows, Rows
    <3>3. (task[s].stamp /\ p = task[s].pair) \in BOOLEAN
      OBVIOUS
    <3>4. x \in SoundRows /\ x.next \in {0, task[s].next, clock + 1}
      BY <3>1, <3>2, <3>3, <1>1 DEF SoundRows, Rows
    <3>5. task' = [task EXCEPT ![s] = x]
      BY <2>2 DEF Update
    <3> HIDE DEF x
    <3> QED BY <3>4, <3>5
  <2> QED BY <2>1, <2>2
<1>7. task' \in Tables /\ task'[s] = x /\ \A t \in Schedules \ {s} : task'[t] = task[t]
  BY <1>4, <1>6 DEF Tables
<1> QED BY <1>3, <1>6, <1>7

LEMMA DeleteEffect ==
    ASSUME Types, NEW w \in Workers, NEW s \in Schedules, Delete(w, s)
    PROVE  /\ DeskIs(w, "clone", 0, "idle")
           /\ task' \in Tables
           /\ \A t \in Schedules \ {s} : task'[t] = task[t]
           /\ task'[s].next = 0
<1>1. w \in Actors /\ 0 \in Nat /\ "idle" \in AfterSave
  BY DEF Actors, AfterSave
<1>2. DeskIs(w, "clone", 0, "idle")
  BY <1>1, PutsPersisting DEF Delete
<1> QED BY <1>2, Defaults DEF Delete, Types, Tables

LEMMA CloneEffect ==
    ASSUME Types, NEW a \in Actors, Clone(a)
    PROVE  DeskIs(a, "save", desk[a].run, desk[a].then)
BY DEF Types, Clone, Puts, DeskIs, DesksOf, DeskLabels

LEMMA SaveEffect ==
    ASSUME Types, NEW a \in Actors, Save(a)
    PROVE  /\ IF desk[a].then = "idle" THEN DeskIs(a, "idle", 0, "idle")
              ELSE DeskIs(a, desk[a].then, desk[a].run, "idle")
           /\ file' \in Tables
<1>1. desk[a] \in DesksOf
  BY DEF Types
<1>2. desk[a].then \in AfterSave /\ desk[a].then \in DeskLabels /\ desk[a].run \in Nat
      /\ desk[a].snap \in Tables
  BY <1>1 DEF DesksOf, AfterSave, DeskLabels
<1>3. file' \in Tables
  BY <1>2 DEF Save, Types
<1>4. CASE desk[a].then = "idle"
  BY <1>3, <1>4, PutsFree DEF Save
<1>5. CASE desk[a].then # "idle"
  <2> DEFINE d == [Free EXCEPT !.at = desk[a].then, !.run = desk[a].run]
  <2>1. d \in DesksOf /\ d.at = desk[a].then /\ d.run = desk[a].run /\ d.then = "idle"
    BY ZenonT(60), <1>2, FreeRecord
  <2>2. Puts(a, d)
    BY <1>5 DEF Save
  <2> HIDE DEF d
  <2>3. DeskIs(a, d.at, d.run, d.then)
    BY <2>1, <2>2, PutsDesk
  <2> QED BY <1>3, <1>5, <2>1, <2>3
<1> QED BY <1>4, <1>5

(* A run that is claimed.                                                  *)
ClaimIs(r, s, tick) ==
    /\ run' \in [Runs -> Futures]
    /\ run'[r].at = "claimed" /\ run'[r].sched = s
    /\ run'[r].slot = clock /\ run'[r].tick = tick
    /\ run'[r].status = "running"
    /\ \A q \in Runs \ {r} : run'[q] = run[q]

LEMMA ClaimEffect ==
    ASSUME Types, NEW a \in Actors, NEW s \in Schedules, NEW r \in Runs, NEW tick \in BOOLEAN,
           Claim(a, s, r, tick)
    PROVE  /\ ClaimIs(r, s, tick)
           /\ IF tick THEN DeskIs(a, "clone", r, "record") ELSE DeskIs(a, "record", r, "idle")
           /\ task' \in Tables
           /\ IF tick THEN /\ task'[s].next = clock + 1
                           /\ \A t \in Schedules \ {s} : task'[t] = task[t]
              ELSE task' = task
<1>1. task[s] \in SoundRows /\ clock \in Nat /\ r \in Nat
  BY DEF Types, Tables, Runs
<1>2. ClaimIs(r, s, tick)
  <2> DEFINE x == [at |-> "claimed", sched |-> s, pair |-> task[s].pair,
                   resync |-> task[s].pair \in Bisync /\ ~task[s].stamp,
                   slot |-> clock, tick |-> tick, status |-> "running"]
  <2>1. x \in Futures
    BY <1>1 DEF Futures, SoundRows, Rows, RunLabels, Phases
  <2>2. run' = [run EXCEPT ![r] = x]
    BY DEF Claim
  <2> QED BY <2>1, <2>2 DEF ClaimIs, Types
<1>3. CASE tick
  <2>1. Puts(a, Persisting("record", r))
        /\ task' = [task EXCEPT ![s].next = clock + 1] /\ task[s].enabled
    BY <1>3 DEF Claim, NextSlot
  <2>2. DeskIs(a, "clone", r, "record")
    BY <1>1, <2>1, PutsPersisting DEF AfterSave
  <2>3. [task[s] EXCEPT !.next = clock + 1] \in SoundRows
    BY <1>1, <2>1 DEF SoundRows, Rows
  <2>4. task' \in Tables /\ task'[s].next = clock + 1
        /\ \A t \in Schedules \ {s} : task'[t] = task[t]
    BY <1>1, <2>1, <2>3 DEF Tables, Types, SoundRows, Rows
  <2> QED BY <1>2, <1>3, <2>2, <2>4
<1>4. CASE ~tick
  <2> DEFINE d == [Free EXCEPT !.at = "record", !.run = r]
  <2>1. d \in DesksOf /\ d.at = "record" /\ d.run = r /\ d.then = "idle"
    BY <1>1, FreeRecord DEF DeskLabels
  <2>2. Puts(a, d) /\ task' = task
    BY <1>4 DEF Claim
  <2> HIDE DEF d
  <2>3. DeskIs(a, d.at, d.run, d.then)
    BY <2>1, <2>2, PutsDesk
  <2> QED BY <1>2, <1>4, <2>1, <2>2, <2>3 DEF Types
<1> QED BY <1>3, <1>4

LEMMA RunNowEffect ==
    ASSUME Types, NEW w \in Workers, NEW s \in Schedules, NEW r \in Runs, RunNow(w, s, r)
    PROVE  ClaimIs(r, s, FALSE) /\ DeskIs(w, "record", r, "idle") /\ task' = task
<1>1. w \in Actors /\ Claim(w, s, r, FALSE)
  BY DEF RunNow, Actors
<1> QED BY <1>1, ClaimEffect

LEMMA TickClaimsEffect ==
    ASSUME Types, NEW s \in Schedules, NEW r \in Runs, TickClaims(s, r)
    PROVE  /\ ClaimIs(r, s, TRUE) /\ DeskIs(Loop, "clone", r, "record")
           /\ task' \in Tables
           /\ task'[s].next = clock + 1
           /\ \A t \in Schedules \ {s} : task'[t] = task[t]
<1>1. Loop \in Actors /\ Claim(Loop, s, r, TRUE)
  BY DEF TickClaims, Actors
<1> QED BY <1>1, ClaimEffect

LEMMA RecordClaimEffect ==
    ASSUME Types, NEW a \in Actors, desk[a].run \in Runs, RecordClaim(a)
    PROVE  /\ DeskIs(a, "spawn", desk[a].run, desk[a].then)
           /\ record' \in [Runs -> Marks]
<1>1. desk[a] \in DesksOf /\ "spawn" \in DeskLabels
  BY DEF Types, DeskLabels
<1>2. Puts(a, [desk[a] EXCEPT !.at = "spawn"])
  BY DEF RecordClaim
<1>3. DeskIs(a, "spawn", desk[a].run, desk[a].then)
  BY <1>1, <1>2 DEF Types, Puts, DeskIs, DesksOf
<1>4. [status |-> "running", job |-> FALSE] \in Marks
  BY DEF Marks
<1> QED BY <1>3, <1>4 DEF RecordClaim, Types

LEMMA SpawnEffect ==
    ASSUME Types, NEW a \in Actors, desk[a].run \in Runs, Spawn(a)
    PROVE  /\ DeskIs(a, "idle", 0, "idle")
           /\ RunIs(desk[a].run, "gate", run[desk[a].run].status)
BY PutsFree, MovesRun DEF Spawn, RunLabels, Phases

LEMMA SpawnDroppedEffect ==
    ASSUME Types, NEW a \in Actors, desk[a].run \in Runs, SpawnDropped(a)
    PROVE  /\ DeskIs(a, "close", desk[a].run, desk[a].then)
           /\ RunIs(desk[a].run, "ended", "failed")
<1>1. desk[a] \in DesksOf /\ "close" \in DeskLabels
  BY DEF Types, DeskLabels
<1>2. Puts(a, [desk[a] EXCEPT !.at = "close"])
  BY DEF SpawnDropped
<1>3. DeskIs(a, "close", desk[a].run, desk[a].then)
  BY <1>1, <1>2 DEF Types, Puts, DeskIs, DesksOf
<1>4. RunIs(desk[a].run, "ended", "failed")
  BY JudgesRun DEF SpawnDropped, RunLabels, Verdicts
<1> QED BY <1>3, <1>4

(* What a step of a run does.                                              *)
LEMMA PassGateEffect ==
    ASSUME Types, NEW r \in Runs, PassGate(r)
    PROVE  RunIs(r, "check", run[r].status)
BY MovesRun DEF PassGate, RunLabels, Phases

(* The five ways in which drive_run comes to an end.                       *)
RunEnds(r, v) ==
    /\ Alone
    /\ run[r].at \in {"check", "watch", "hooks"}
    /\ v = "success" => RunAt(r, "hooks")
    /\ Ends(r, v)

LEMMA EndSteps ==
    ASSUME NEW r \in Runs, Skip(r) \/ StartFails(r) \/ WatchEnds(r) \/ WatchTimesOut(r) \/ Hooks(r)
    PROVE  \E v \in Verdicts : RunEnds(r, v)
<1>1. CASE Skip(r)
  BY <1>1 DEF Skip, RunEnds, RunAt, Verdicts
<1>2. CASE StartFails(r)
  BY <1>2 DEF StartFails, RunEnds, RunAt, Verdicts
<1>3. CASE WatchEnds(r)
  <2>1. Verdict(r) \in {"failed", "canceled"}
    BY <1>3 DEF WatchEnds, Verdict
  <2> QED BY <1>3, <2>1 DEF WatchEnds, RunEnds, RunAt, Verdicts
<1>4. CASE WatchTimesOut(r)
  BY <1>4 DEF WatchTimesOut, RunEnds, RunAt, Verdicts
<1>5. CASE Hooks(r)
  BY <1>5 DEF Hooks, RunEnds, RunAt, Verdicts
<1> QED BY <1>1, <1>2, <1>3, <1>4, <1>5

LEMMA EndsEffect ==
    ASSUME Types, NEW r \in Runs, NEW v \in Verdicts, RunEnds(r, v)
    PROVE  RunIs(r, "closing", v) /\ DeskIs(Loop, "close", r, "release")
<1>1. RunIs(r, "closing", v)
  BY JudgesRun DEF RunEnds, Ends, RunLabels, Phases
<1> DEFINE d == [Free EXCEPT !.at = "close", !.run = r, !.then = "release"]
<1>2. d \in DesksOf /\ d.at = "close" /\ d.run = r /\ d.then = "release"
  <2>1. r \in Nat
    BY DEF Runs
  <2> QED BY <2>1, Defaults DEF DesksOf, DeskLabels, AfterSave
<1>3. Puts(Loop, d) /\ Loop \in Actors
  BY DEF RunEnds, Ends, Actors
<1> HIDE DEF d
<1>4. DeskIs(Loop, d.at, d.run, d.then)
  BY <1>2, <1>3, PutsDesk
<1> QED BY <1>1, <1>2, <1>4

LEMMA StartJobEffect ==
    ASSUME Types, NEW r \in Runs, StartJob(r)
    PROVE  RunIs(r, "watch", run[r].status) /\ record' \in [Runs -> Marks]
<1>1. [status |-> "running", job |-> TRUE] \in Marks
  BY DEF Marks
<1> QED BY <1>1, MovesRun DEF StartJob, RunLabels, Phases, Types

LEMMA WatchSucceedsEffect ==
    ASSUME Types, NEW r \in Runs, WatchSucceeds(r)
    PROVE  RunIs(r, "stamp", "success") \/ RunIs(r, "hooks", "success")
<1>1. {"stamp", "hooks"} \subseteq RunLabels /\ "success" \in Verdicts
  BY DEF RunLabels, Phases, Verdicts
<1>2. CASE run[r].resync
  BY <1>1, <1>2, JudgesRun DEF WatchSucceeds
<1>3. CASE ~run[r].resync
  BY <1>1, <1>3, JudgesRun DEF WatchSucceeds
<1> QED BY <1>2, <1>3

LEMMA StampEffect ==
    ASSUME Types, NEW r \in Runs, Stamp(r)
    PROVE  /\ RunIs(r, "hooks", run[r].status)
           /\ DeskIs(Loop, "clone", 0, "idle")
           /\ task' \in Tables
           /\ \A s \in Schedules : task'[s].next = task[s].next
<1>1. RunIs(r, "hooks", run[r].status)
  BY MovesRun DEF Stamp, RunLabels, Phases
<1>2. DeskIs(Loop, "clone", 0, "idle")
  BY PutsPersisting DEF Stamp, AfterSave, Actors
<1>3. run[r].sched \in Schedules
  BY DEF Types, Futures
<1>4. \A s \in Schedules : [task[s] EXCEPT !.stamp = TRUE] \in SoundRows
                           /\ [task[s] EXCEPT !.stamp = TRUE].next = task[s].next
  BY ZenonT(60) DEF Types, Tables, SoundRows, Rows
<1>5. task' \in Tables /\ \A s \in Schedules : task'[s].next = task[s].next
  BY <1>3, <1>4 DEF Stamp, Types, Tables
<1> QED BY <1>1, <1>2, <1>5

LEMMA CloseEffect ==
    ASSUME Types, Desks, NEW a \in Actors, Close(a)
    PROVE  /\ desk[a].run \in Runs
           /\ record' \in [Runs -> Marks]
           /\ record'[desk[a].run].status = run[desk[a].run].status
           /\ \A q \in Runs : q # desk[a].run => record'[q] = record[q]
           /\ IF desk[a].then = "release" THEN DeskIs(a, "clone", desk[a].run, "release")
              ELSE DeskIs(a, "idle", 0, "idle")
<1>1. desk[a].run \in Runs /\ run[desk[a].run].status # "running"
  BY DEF Desks, DeskOf, On, Close
<1>2. run[desk[a].run].status \in Verdicts
  BY <1>1 DEF Types, Futures
<1>3. IF desk[a].then = "release" THEN DeskIs(a, "clone", desk[a].run, "release")
      ELSE DeskIs(a, "idle", 0, "idle")
  <2>1. desk[a].run \in Nat /\ "release" \in AfterSave
    BY <1>1 DEF Runs, AfterSave
  <2> QED BY <2>1, PutsPersisting, PutsFree DEF Close
<1>4. [record[desk[a].run] EXCEPT !.status = run[desk[a].run].status] \in Marks
  BY <1>1, <1>2 DEF Types, Marks
<1>5. record' = [record EXCEPT ![desk[a].run].status = run[desk[a].run].status]
  BY DEF Close
<1> QED BY <1>1, <1>3, <1>4, <1>5 DEF Types, Marks

LEMMA ReleaseEffect ==
    ASSUME Types, Desks, Release
    PROVE  /\ desk[Loop].run \in Runs /\ RunAt(desk[Loop].run, "closing")
           /\ RunIs(desk[Loop].run, "ended", run[desk[Loop].run].status)
           /\ DeskIs(Loop, "idle", 0, "idle")
<1>1. Loop \in Actors
  BY DEF Actors
<1>2. desk[Loop].run \in Runs /\ RunAt(desk[Loop].run, "closing")
  BY <1>1 DEF Desks, DeskOf, Releases, Release, On
<1> QED BY <1>1, <1>2, MovesRun, PutsFree DEF Release, RunLabels

LEMMA HydrateEffect ==
    ASSUME Types, Hydrate
    PROVE  /\ run' \in [Runs -> Futures]
           /\ \A r \in Runs : IF RunAt(r, "unused") THEN run'[r] = run[r]
                              ELSE /\ run'[r].at = "ended" /\ run'[r].status = run[r].status
                                   /\ run'[r].sched = run[r].sched
                                   /\ run'[r].slot = run[r].slot /\ run'[r].tick = run[r].tick
           /\ desk' \in [Actors -> DesksOf]
           /\ \A a \in Actors : desk'[a] = Free
           /\ task' \in Tables /\ file' \in Tables
           /\ \A s \in Schedules : task'[s].next \in {0, clock + 1}
           /\ record' \in [Runs -> Marks]
           /\ \A r \in Runs : record'[r].status =
                 IF record[r].status = "running" THEN "failed" ELSE record[r].status
           /\ \A r \in Runs : RunAt(r, "unused") => record'[r].job = record[r].job
<1>1. \A r \in Runs : LET x == [run[r] EXCEPT !.at = "ended"] IN
        /\ x \in Futures
        /\ x.at = "ended" /\ x.status = run[r].status
        /\ x.sched = run[r].sched /\ x.slot = run[r].slot /\ x.tick = run[r].tick
  BY DEF Types, Futures, RunLabels
<1>2. run' = [r \in Runs |-> IF RunAt(r, "unused") THEN run[r] ELSE [run[r] EXCEPT !.at = "ended"]]
  BY DEF Hydrate
<1>3. \A r \in Runs : run'[r] = IF RunAt(r, "unused") THEN run[r] ELSE [run[r] EXCEPT !.at = "ended"]
  BY <1>2
<1>4. \A r \in Runs : run'[r] \in Futures
  BY <1>1, <1>3 DEF Types
<1>5. run' \in [Runs -> Futures]
  BY <1>2, <1>4
<1>6. desk' \in [Actors -> DesksOf] /\ \A a \in Actors : desk'[a] = Free
  BY Defaults DEF Hydrate
<1>7. \A s \in Schedules : LET x == [file[s] EXCEPT !.next = FirstSlot(file[s].enabled)] IN
        x \in SoundRows /\ x.next \in {0, clock + 1}
  BY DEF Types, Tables, SoundRows, Rows, FirstSlot
<1>8. task' \in Tables /\ file' \in Tables /\ \A s \in Schedules : task'[s].next \in {0, clock + 1}
  BY <1>7 DEF Hydrate, Tables
<1>9. \A r \in Runs : LET x == [record[r] EXCEPT !.status = "failed"] IN
        x \in Marks /\ x.status = "failed" /\ x.job = record[r].job
  BY DEF Types, Marks, Verdicts
<1>10. record' = [r \in Runs |-> IF record[r].status = "running"
                                 THEN [record[r] EXCEPT !.status = "failed"] ELSE record[r]]
  BY DEF Hydrate, Settled
<1>11. /\ record' \in [Runs -> Marks]
       /\ \A r \in Runs : record'[r].status =
             IF record[r].status = "running" THEN "failed" ELSE record[r].status
       /\ \A r \in Runs : RunAt(r, "unused") => record'[r].job = record[r].job
  BY <1>9, <1>10 DEF Types
<1> QED BY <1>1, <1>3, <1>5, <1>6, <1>8, <1>11

(* The steps, without the grouping of Next.                                *)
LEMMA Steps ==
    ASSUME [Next]_vars
    PROVE  \/ \E w \in Workers, s \in Schedules :
                 \/ \E p \in Pairs, e \in BOOLEAN :
                       Create(w, s, p, e) \/ \E c \in BOOLEAN : Update(w, s, p, e, c)
                 \/ Delete(w, s)
                 \/ \E r \in Runs : RunNow(w, s, r)
           \/ \E a \in Actors : \/ Clone(a) \/ Save(a) \/ RecordClaim(a)
                                \/ Spawn(a) \/ SpawnDropped(a) \/ Close(a)
           \/ \E s \in Schedules : TickPasses(s) \/ \E r \in Runs : TickClaims(s, r)
           \/ LoopStarts \/ TickCollects \/ Release
           \/ \E r \in Runs : \/ PassGate(r) \/ StartJob(r) \/ WatchSucceeds(r) \/ Stamp(r)
                              \/ \E v \in Verdicts : RunEnds(r, v)
                              \/ JobRemoved(r)
                              \/ \E h \in {"completed", "failed", "canceled"} : JobEnds(r, h)
           \/ Tock \/ Hydrate \/ UNCHANGED vars
<1>1. CASE LoopStep
  <2>1. Loop \in Actors
    BY DEF Actors
  <2> QED BY <1>1, <2>1 DEF LoopStep, DeskStep
<1>2. CASE \E r \in Runs : RunStep(r)
  <2>1. PICK r \in Runs : RunStep(r)
    BY <1>2
  <2>2. CASE Skip(r) \/ StartFails(r) \/ WatchEnds(r) \/ WatchTimesOut(r) \/ Hooks(r)
    <3>1. \E v \in Verdicts : RunEnds(r, v)
      BY <2>2, EndSteps
    <3> QED BY <3>1
  <2> QED BY <2>1, <2>2 DEF RunStep
<1>3. CASE \E w \in Workers : DeskStep(w)
  <2>1. Workers \subseteq Actors
    BY DEF Actors
  <2> QED BY <1>3, <2>1 DEF DeskStep
<1>4. CASE \E w \in Workers : Request(w)
  BY <1>4 DEF Request
<1>5. CASE World
  BY <1>5 DEF World
<1> QED BY <1>1, <1>2, <1>3, <1>4, <1>5 DEF Next

(* Every action keeps the types.                                           *)
LEMMA TypesStep ==
    Types /\ Desks /\ [Next]_vars => Types'
<1> SUFFICES ASSUME Types, Desks, [Next]_vars PROVE Types'
    OBVIOUS
<1> USE DEF DeskIs, RunIs, ClaimIs, memory, outside, Types
<1>1. ASSUME NEW w \in Workers, NEW s \in Schedules, NEW p \in Pairs,
             NEW e \in BOOLEAN, Create(w, s, p, e)
      PROVE  Types'
  BY <1>1, TableEffect DEF Create
<1>2. ASSUME NEW w \in Workers, NEW s \in Schedules, NEW p \in Pairs,
             NEW e \in BOOLEAN, NEW c \in BOOLEAN, Update(w, s, p, e, c)
      PROVE  Types'
  BY <1>2, TableEffect DEF Update
<1>3. ASSUME NEW w \in Workers, NEW s \in Schedules, Delete(w, s) PROVE Types'
  BY <1>3, DeleteEffect DEF Delete
<1>4. ASSUME NEW a \in Actors, Clone(a) PROVE Types'
  BY <1>4, CloneEffect DEF Clone
<1>5. ASSUME NEW a \in Actors, Save(a) PROVE Types'
  BY <1>5, SaveEffect DEF Save
<1>6. ASSUME NEW w \in Workers, NEW s \in Schedules, NEW r \in Runs, RunNow(w, s, r)
      PROVE  Types'
  <2>1. /\ running' = running \cup {s}
        /\ UNCHANGED <<file, record, ready, job, listed, landed, clock, todo>>
    BY <1>6 DEF RunNow, Claim
  <2>2. run' \in [Runs -> Futures] /\ desk' \in [Actors -> DesksOf] /\ task' = task
    BY <1>6, RunNowEffect
  <2> QED BY <2>1, <2>2
<1>7. ASSUME NEW s \in Schedules, NEW r \in Runs, TickClaims(s, r) PROVE Types'
  <2>1. /\ running' = running \cup {s} /\ todo' = todo \ {s}
        /\ UNCHANGED <<file, record, ready, job, listed, landed, clock>>
    BY <1>7 DEF TickClaims, Claim
  <2>2. run' \in [Runs -> Futures] /\ desk' \in [Actors -> DesksOf] /\ task' \in Tables
    BY <1>7, TickClaimsEffect
  <2> QED BY <2>1, <2>2
<1>8. ASSUME NEW a \in Actors, RecordClaim(a) PROVE Types'
  BY <1>8, RecordClaimEffect DEF RecordClaim, Desks, DeskOf, Starts, On
<1>9. ASSUME NEW a \in Actors, Spawn(a) PROVE Types'
  BY <1>9, SpawnEffect DEF Spawn, Desks, DeskOf, Starts, On
<1>10. ASSUME NEW a \in Actors, SpawnDropped(a) PROVE Types'
  BY <1>10, SpawnDroppedEffect DEF SpawnDropped, Desks, DeskOf, Starts, On
<1>11. ASSUME LoopStarts PROVE Types'
  BY <1>11 DEF LoopStarts
<1>12. ASSUME TickCollects PROVE Types'
  BY <1>12 DEF TickCollects
<1>13. ASSUME NEW s \in Schedules, TickPasses(s) PROVE Types'
  BY <1>13 DEF TickPasses
<1>14. ASSUME NEW r \in Runs, PassGate(r) PROVE Types'
  BY <1>14, PassGateEffect DEF PassGate
<1>15. ASSUME NEW r \in Runs, NEW v \in Verdicts, RunEnds(r, v) PROVE Types'
  BY <1>15, EndsEffect DEF RunEnds, Ends
<1>16. ASSUME NEW r \in Runs, StartJob(r) PROVE Types'
  BY <1>16, StartJobEffect DEF StartJob
<1>17. ASSUME NEW r \in Runs, WatchSucceeds(r) PROVE Types'
  BY <1>17, WatchSucceedsEffect DEF WatchSucceeds
<1>18. ASSUME NEW r \in Runs, Stamp(r) PROVE Types'
  BY <1>18, StampEffect DEF Stamp
<1>19. ASSUME NEW a \in Actors, Close(a) PROVE Types'
  BY <1>19, CloseEffect DEF Close
<1>20. ASSUME Release PROVE Types'
  BY <1>20, ReleaseEffect DEF Release, DropMarker
<1>21. ASSUME NEW r \in Runs, NEW h \in {"completed", "failed", "canceled"}, JobEnds(r, h)
      PROVE  Types'
  BY <1>21 DEF JobEnds, Futures
<1>22. ASSUME NEW r \in Runs, JobRemoved(r) PROVE Types'
  BY <1>22 DEF JobRemoved
<1>23. ASSUME Tock PROVE Types'
  BY <1>23 DEF Tock
<1>24. ASSUME Hydrate PROVE Types'
  BY <1>24, HydrateEffect DEF Hydrate
<1>25. ASSUME UNCHANGED vars PROVE Types'
  BY <1>25 DEF vars
<1> QED BY <1>1, <1>2, <1>3, <1>4, <1>5, <1>6, <1>7, <1>8, <1>9, <1>10, <1>11, <1>12,
     <1>13, <1>14, <1>15, <1>16, <1>17, <1>18, <1>19, <1>20, <1>21, <1>22, <1>23, <1>24,
     <1>25, Steps

(* A step of an actor alone.                                               *)
LEMMA DeskMoves ==
    ASSUME Desks, NEW a \in Actors, NEW at, NEW r, NEW then,
           DeskIs(a, at, r, then), run' = run,
           at \in {"idle", "record", "spawn", "release"} => then = "idle",
           at = "close" => then # "record" /\ On(a, "close") /\ r = desk[a].run,
           at \in {"record", "spawn"} \/ then = "record" => Starts(a) /\ r = desk[a].run,
           at = "release" \/ then = "release" => Releases(a) /\ r = desk[a].run
    PROVE  Desks'
<1>1. \A b \in Actors \ {a} : DeskOf(b)'
  BY DEF Desks, DeskOf, DeskIs, Starts, Releases, On, RunAt
<1>2. DeskOf(a)'
  BY DEF Desks, DeskOf, DeskIs, Starts, Releases, On, RunAt
<1>3. \A b \in Actors : Starts(b)' => Starts(b) /\ desk'[b].run = desk[b].run
  BY DEF DeskIs, Starts
<1> QED BY <1>1, <1>2, <1>3 DEF Desks

(* A step of a run alone.                                                  *)
LEMMA RunMoves ==
    ASSUME Desks, NEW r \in Runs, NEW at, NEW status,
           RunIs(r, at, status), desk' = desk,
           run[r].at \notin {"claimed", "closing", "ended"}
    PROVE  Desks'
<1>1. \A b \in Actors : DeskOf(b)'
  BY DEF Desks, DeskOf, RunIs, Starts, Releases, On, RunAt
<1>2. \A b \in Actors : Starts(b)' <=> Starts(b)
  BY DEF Starts
<1> QED BY <1>1, <1>2 DEF Desks

(* A live run goes on, or gives its marker back.                           *)
LEMMA LiveMoves ==
    ASSUME OneLive, Marked, NEW r \in Runs, NEW at \in Phases, NEW status,
           RunIs(r, at, status), IsLive(r), running' = running
    PROVE  OneLive' /\ Marked'
<1>1. \A q \in Runs : (IsLive(q)' <=> IsLive(q)) /\ run'[q].sched = run[q].sched
  BY DEF RunIs, IsLive
<1>2. OneLive'
  BY <1>1 DEF OneLive
<1>3. Marked'
  BY <1>1 DEF Marked
<1> QED BY <1>2, <1>3

LEMMA LiveEnds ==
    ASSUME OneLive, Marked, NEW r \in Runs, NEW status,
           RunIs(r, "ended", status), IsLive(r), running' = running \ {run[r].sched}
    PROVE  OneLive' /\ Marked'
<1>1. \A q \in Runs : IsLive(q)' <=> IsLive(q) /\ q # r
  BY DEF RunIs, IsLive, Phases
<1>2. \A q \in Runs : run'[q].sched = run[q].sched
  BY DEF RunIs
<1>3. OneLive'
  BY <1>1, <1>2 DEF OneLive
<1>4. Marked'
  <2>1. ASSUME NEW q \in Runs, IsLive(q)' PROVE run'[q].sched \in running'
    BY <1>1, <1>2, <2>1 DEF Marked, OneLive
  <2>2. ASSUME NEW s \in running' PROVE \E q \in Runs : IsLive(q)' /\ run'[q].sched = s
    <3>1. PICK q \in Runs : IsLive(q) /\ run[q].sched = s
      BY <2>2 DEF Marked
    <3>2. q # r
      BY <3>1
    <3> QED BY <1>1, <1>2, <3>1, <3>2
  <2> QED BY <2>1, <2>2 DEF Marked
<1> QED BY <1>3, <1>4

LEMMA LiveStarts ==
    ASSUME OneLive, Marked, NEW r \in Runs, NEW s \in Schedules, NEW tick,
           ClaimIs(r, s, tick), RunAt(r, "unused"), s \notin running, running' = running \cup {s}
    PROVE  OneLive' /\ Marked'
<1>1. /\ \A q \in Runs : IsLive(q)' <=> IsLive(q) \/ q = r
      /\ \A q \in Runs \ {r} : run'[q].sched = run[q].sched
      /\ run'[r].sched = s /\ ~IsLive(r)
  BY DEF ClaimIs, IsLive, Phases, RunAt
<1>2. \A q \in Runs : IsLive(q) => run[q].sched # s
  BY DEF Marked
<1>3. OneLive'
  BY <1>1, <1>2 DEF OneLive
<1>4. Marked'
  <2>1. ASSUME NEW q \in Runs, IsLive(q)' PROVE run'[q].sched \in running'
    BY <1>1, <2>1 DEF Marked
  <2>2. ASSUME NEW t \in running' PROVE \E q \in Runs : IsLive(q)' /\ run'[q].sched = t
    BY <1>1, <2>2 DEF Marked
  <2> QED BY <2>1, <2>2 DEF Marked
<1> QED BY <1>3, <1>4

(* Every action keeps what is on the desks.                                *)
LEMMA DesksStep ==
    Types /\ Desks /\ [Next]_vars => Desks'
<1> SUFFICES ASSUME Types, Desks, [Next]_vars PROVE Desks'
    OBVIOUS
<1>1. ASSUME NEW w \in Workers, NEW s \in Schedules, NEW p \in Pairs,
             NEW e \in BOOLEAN, Create(w, s, p, e)
      PROVE  Desks'
  <2>1. run' = run
    BY <1>1 DEF Create, memory
  <2> QED BY <1>1, <2>1, TableEffect, DeskMoves DEF Create, Idle, On, Starts, Releases, Actors
<1>2. ASSUME NEW w \in Workers, NEW s \in Schedules, NEW p \in Pairs,
             NEW e \in BOOLEAN, NEW c \in BOOLEAN, Update(w, s, p, e, c)
      PROVE  Desks'
  <2>1. run' = run
    BY <1>2 DEF Update, memory
  <2> QED BY <1>2, <2>1, TableEffect, DeskMoves DEF Update, Idle, On, Starts, Releases, Actors
<1>3. ASSUME NEW w \in Workers, NEW s \in Schedules, Delete(w, s) PROVE Desks'
  <2>1. run' = run
    BY <1>3 DEF Delete, memory
  <2> QED BY <1>3, <2>1, DeleteEffect, DeskMoves DEF Delete, Idle, On, Starts, Releases, Actors
<1>4. ASSUME NEW a \in Actors, Clone(a) PROVE Desks'
  <2>1. run' = run
    BY <1>4 DEF Clone, memory
  <2> QED BY <1>4, <2>1, CloneEffect, DeskMoves DEF Clone, On, Starts, Releases, Actors
<1>5. ASSUME NEW a \in Actors, Save(a) PROVE Desks'
  <2>1. run' = run /\ desk[a].then \in AfterSave
    BY <1>5 DEF Save, memory, Types, DesksOf
  <2>2. CASE desk[a].then = "idle"
    BY <1>5, <2>1, <2>2, SaveEffect, DeskMoves
  <2>3. CASE desk[a].then # "idle"
    <3>1. DeskIs(a, desk[a].then, desk[a].run, "idle") /\ desk[a].then \in {"record", "release"}
      BY <1>5, <2>1, <2>3, SaveEffect DEF AfterSave
    <3> QED BY <2>1, <3>1, DeskMoves DEF Starts, Releases
  <2> QED BY <2>2, <2>3
<1>6. ASSUME NEW w \in Workers, NEW s \in Schedules, NEW r \in Runs, RunNow(w, s, r)
      PROVE  Desks'
  <2>1. w \in Actors /\ RunAt(r, "unused") /\ ClaimIs(r, s, FALSE)
        /\ DeskIs(w, "record", r, "idle")
    BY <1>6, RunNowEffect DEF RunNow, Claim, Actors
  <2>2. \A b \in Actors \ {w} : DeskOf(b)'
    BY <2>1 DEF ClaimIs, Desks, DeskOf, DeskIs, RunIs, Starts, Releases, On, RunAt
  <2>3. DeskOf(w)'
    BY <2>1 DEF ClaimIs, Desks, DeskOf, DeskIs, RunIs, Starts, Releases, On, RunAt
  <2>4. \A b \in Actors \ {w} : Starts(b)' =>
          Starts(b) /\ desk'[b].run = desk[b].run /\ desk[b].run # r
    BY <2>1 DEF Desks, DeskOf, DeskIs, RunIs, Starts, Releases, On, RunAt
  <2>5. desk'[w].run = r
    BY <2>1 DEF DeskIs
  <2> QED BY <2>2, <2>3, <2>4, <2>5 DEF Desks
<1>7. ASSUME NEW s \in Schedules, NEW r \in Runs, TickClaims(s, r) PROVE Desks'
  <2>1. Loop \in Actors /\ RunAt(r, "unused") /\ ClaimIs(r, s, TRUE)
        /\ DeskIs(Loop, "clone", r, "record")
    BY <1>7, TickClaimsEffect DEF TickClaims, Claim, Actors
  <2>2. \A b \in Actors \ {Loop} : DeskOf(b)'
    BY <2>1 DEF ClaimIs, Desks, DeskOf, DeskIs, RunIs, Starts, Releases, On, RunAt
  <2>3. DeskOf(Loop)'
    BY <2>1 DEF ClaimIs, Desks, DeskOf, DeskIs, RunIs, Starts, Releases, On, RunAt
  <2>4. \A b \in Actors \ {Loop} : Starts(b)' =>
          Starts(b) /\ desk'[b].run = desk[b].run /\ desk[b].run # r
    BY <2>1 DEF Desks, DeskOf, DeskIs, RunIs, Starts, Releases, On, RunAt
  <2>5. desk'[Loop].run = r
    BY <2>1 DEF DeskIs
  <2> QED BY <2>2, <2>3, <2>4, <2>5 DEF Desks
<1>8. ASSUME NEW a \in Actors, RecordClaim(a) PROVE Desks'
  <2>1. run' = run /\ Starts(a) /\ desk[a].run \in Runs /\ desk[a].then = "idle"
    BY <1>8 DEF RecordClaim, memory, Starts, On, Desks, DeskOf
  <2> QED BY <1>8, <2>1, RecordClaimEffect, DeskMoves
<1>9. ASSUME NEW a \in Actors, Spawn(a) PROVE Desks'
  <2>1. Starts(a) /\ desk[a].run \in Runs /\ RunAt(desk[a].run, "claimed")
    BY <1>9 DEF Spawn, Desks, DeskOf, Starts, On
  <2>2. RunIs(desk[a].run, "gate", run[desk[a].run].status) /\ DeskIs(a, "idle", 0, "idle")
    BY <1>9, <2>1, SpawnEffect
  <2>3. \A b \in Actors \ {a} : Starts(b) => desk[b].run # desk[a].run
    BY <2>1 DEF Desks
  <2>4. \A b \in Actors \ {a} : DeskOf(b)'
    BY SMTT(60), <2>1, <2>2, <2>3 DEF Desks, DeskOf, DeskIs, RunIs, Starts, Releases, On, RunAt
  <2>5. DeskOf(a)'
    BY <2>2 DEF Desks, DeskOf, DeskIs, RunIs, Starts, Releases, On, RunAt
  <2>6. \A b \in Actors : Starts(b)' => Starts(b) /\ desk'[b].run = desk[b].run
    BY <2>2 DEF DeskIs, Starts
  <2> QED BY <2>4, <2>5, <2>6 DEF Desks
<1>10. ASSUME NEW a \in Actors, SpawnDropped(a) PROVE Desks'
  <2>1. Starts(a) /\ desk[a].run \in Runs /\ RunAt(desk[a].run, "claimed")
    BY <1>10 DEF SpawnDropped, Desks, DeskOf, Starts, On
  <2>2. RunIs(desk[a].run, "ended", "failed") /\ DeskIs(a, "close", desk[a].run, desk[a].then)
        /\ desk[a].then = "idle"
    BY <1>10, <2>1, SpawnDroppedEffect DEF SpawnDropped, Desks, DeskOf, On
  <2>3. \A b \in Actors \ {a} : Starts(b) => desk[b].run # desk[a].run
    BY <2>1 DEF Desks
  <2>4. \A b \in Actors \ {a} : DeskOf(b)'
    BY SMTT(60), <2>1, <2>2, <2>3 DEF Desks, DeskOf, DeskIs, RunIs, Starts, Releases, On, RunAt
  <2>5. DeskOf(a)'
    BY <2>1, <2>2 DEF Desks, DeskOf, DeskIs, RunIs, Starts, Releases, On, RunAt
  <2>6. \A b \in Actors : Starts(b)' => Starts(b) /\ desk'[b].run = desk[b].run
    BY <2>2 DEF DeskIs, Starts
  <2> QED BY <2>4, <2>5, <2>6 DEF Desks
<1>11. ASSUME NEW r \in Runs, PassGate(r) PROVE Desks'
  <2>1. desk' = desk /\ run[r].at \notin {"claimed", "closing", "ended"}
    BY <1>11 DEF PassGate, RunAt
  <2> QED BY <1>11, <2>1, PassGateEffect, RunMoves
<1>12. ASSUME NEW r \in Runs, NEW v \in Verdicts, RunEnds(r, v) PROVE Desks'
  <2>1. /\ RunIs(r, "closing", v) /\ DeskIs(Loop, "close", r, "release") /\ v # "running"
        /\ run[r].at \in {"check", "watch", "hooks"} /\ Loop \in Actors /\ desk[Loop].at = "idle"
    BY ZenonT(60), <1>12, EndsEffect
      DEF Desks, DeskOf, DeskIs, RunIs, Starts, Releases, On, RunAt, RunEnds, Ends, Alone,
          Idle, Verdicts, Actors
  <2>2. \A b \in Actors : DeskOf(b)'
    BY <2>1 DEF Desks, DeskOf, DeskIs, RunIs, Starts, Releases, On, RunAt
  <2>3. \A b \in Actors : Starts(b)' => Starts(b) /\ desk'[b].run = desk[b].run
    BY <2>1 DEF Desks, DeskOf, DeskIs, RunIs, Starts, Releases, On, RunAt
  <2> QED BY <2>2, <2>3 DEF Desks
<1>13. ASSUME NEW r \in Runs, StartJob(r) PROVE Desks'
  <2>1. desk' = desk /\ run[r].at \notin {"claimed", "closing", "ended"}
    BY <1>13 DEF StartJob, RunAt
  <2> QED BY <1>13, <2>1, StartJobEffect, RunMoves
<1>14. ASSUME NEW r \in Runs, WatchSucceeds(r) PROVE Desks'
  <2>1. desk' = desk /\ run[r].at \notin {"claimed", "closing", "ended"}
    BY <1>14 DEF WatchSucceeds, RunAt
  <2> QED BY <1>14, <2>1, WatchSucceedsEffect, RunMoves
<1>15. ASSUME NEW r \in Runs, Stamp(r) PROVE Desks'
  <2>1. /\ RunIs(r, "hooks", run[r].status) /\ DeskIs(Loop, "clone", 0, "idle")
        /\ RunAt(r, "stamp") /\ Loop \in Actors
    BY <1>15, StampEffect
      DEF Desks, DeskOf, DeskIs, RunIs, Starts, Releases, On, RunAt, Stamp, Actors
  <2>2. \A b \in Actors : DeskOf(b)'
    BY <2>1 DEF Desks, DeskOf, DeskIs, RunIs, Starts, Releases, On, RunAt
  <2>3. \A b \in Actors : Starts(b)' => Starts(b) /\ desk'[b].run = desk[b].run
    BY <2>1 DEF Desks, DeskOf, DeskIs, RunIs, Starts, Releases, On, RunAt
  <2> QED BY <2>2, <2>3 DEF Desks
<1>16. ASSUME NEW a \in Actors, Close(a) PROVE Desks'
  <2>1. run' = run /\ On(a, "close")
    BY <1>16 DEF Close, memory
  <2> QED BY <1>16, <2>1, CloseEffect, DeskMoves DEF Releases
<1>17. ASSUME Release PROVE Desks'
  <2>1. /\ desk[Loop].run \in Runs /\ RunAt(desk[Loop].run, "closing") /\ Loop \in Actors
        /\ RunIs(desk[Loop].run, "ended", run[desk[Loop].run].status) /\ DeskIs(Loop, "idle", 0, "idle")
    BY <1>17, ReleaseEffect
      DEF Desks, DeskOf, DeskIs, RunIs, Starts, Releases, On, RunAt, Release, Actors
  <2>2. \A b \in Actors : DeskOf(b)'
    BY SMTT(60), <2>1 DEF Desks, DeskOf, DeskIs, RunIs, Starts, Releases, On, RunAt
  <2>3. \A b \in Actors : Starts(b)' => Starts(b) /\ desk'[b].run = desk[b].run
    BY <2>1 DEF Desks, DeskOf, DeskIs, RunIs, Starts, Releases, On, RunAt
  <2> QED BY <2>2, <2>3 DEF Desks
<1>18. ASSUME Hydrate PROVE Desks'
  <2>1. \A a \in Actors : desk'[a].at = "idle" /\ desk'[a].then = "idle"
    BY <1>18, HydrateEffect, Defaults
  <2> QED BY <2>1 DEF Desks, DeskOf, Starts, Releases, On
<1>19. ASSUME UNCHANGED <<run, desk>> PROVE Desks'
  BY <1>19 DEF Desks, DeskOf, Starts, Releases, On, RunAt
<1>20. ASSUME NEW s \in Schedules, TickPasses(s) PROVE Desks'
  BY <1>20, <1>19 DEF TickPasses, memory, outside
<1>21. ASSUME NEW r \in Runs,
            \/ \E h \in {"completed", "failed", "canceled"} : JobEnds(r, h)
            \/ JobRemoved(r)
      PROVE  Desks'
  BY <1>21, <1>19 DEF JobEnds, JobRemoved, memory, outside
<1>22. ASSUME 
            \/ LoopStarts
            \/ TickCollects
            \/ Tock
      PROVE  Desks'
  BY <1>22, <1>19 DEF LoopStarts, TickCollects, Tock, memory, outside
<1>23. ASSUME UNCHANGED vars PROVE Desks'
  BY <1>23, <1>19 DEF vars
<1> QED BY <1>1, <1>2, <1>3, <1>4, <1>5, <1>6, <1>7, <1>8, <1>9, <1>10, <1>11, <1>12,
     <1>13, <1>14, <1>15, <1>16, <1>17, <1>18, <1>20, <1>21, <1>22, <1>23, Steps

(* Every action keeps one live run to a marker.                            *)
LEMMA FlightStep ==
    Types /\ Desks /\ OneLive /\ Marked /\ [Next]_vars => OneLive' /\ Marked'
<1> SUFFICES ASSUME Types, Desks, OneLive, Marked, [Next]_vars PROVE OneLive' /\ Marked'
    OBVIOUS
<1>1. ASSUME NEW w \in Workers, NEW s \in Schedules, NEW r \in Runs, RunNow(w, s, r)
      PROVE  OneLive' /\ Marked'
  <2>1. RunAt(r, "unused") /\ s \notin running /\ running' = running \cup {s}
    BY <1>1 DEF RunNow, Claim, Claimable
  <2> QED BY <1>1, <2>1, RunNowEffect, LiveStarts
<1>2. ASSUME NEW s \in Schedules, NEW r \in Runs, TickClaims(s, r)
      PROVE  OneLive' /\ Marked'
  <2>1. RunAt(r, "unused") /\ s \notin running /\ running' = running \cup {s}
    BY <1>2 DEF TickClaims, Claim, Claimable
  <2> QED BY <1>2, <2>1, TickClaimsEffect, LiveStarts
<1>3. ASSUME NEW a \in Actors, Spawn(a) PROVE OneLive' /\ Marked'
  <2>1. desk[a].run \in Runs /\ RunAt(desk[a].run, "claimed") /\ running' = running
    BY <1>3 DEF Spawn, Desks, DeskOf, Starts, On
  <2>2. IsLive(desk[a].run) /\ "gate" \in Phases
    BY <2>1 DEF IsLive, RunAt, Phases
  <2> QED BY <1>3, <2>1, <2>2, SpawnEffect, LiveMoves
<1>4. ASSUME NEW a \in Actors, SpawnDropped(a) PROVE OneLive' /\ Marked'
  <2>1. /\ desk[a].run \in Runs /\ RunAt(desk[a].run, "claimed")
        /\ running' = running \ {run[desk[a].run].sched}
    BY <1>4 DEF SpawnDropped, Desks, DeskOf, Starts, On
  <2>2. IsLive(desk[a].run)
    BY <2>1 DEF IsLive, RunAt, Phases
  <2> QED BY <1>4, <2>1, <2>2, SpawnDroppedEffect, LiveEnds
<1>5. ASSUME NEW r \in Runs, PassGate(r) PROVE OneLive' /\ Marked'
  <2>1. IsLive(r) /\ running' = running /\ {"check"} \subseteq Phases
    BY <1>5 DEF PassGate, memory, IsLive, Phases, RunAt
  <2> QED BY <1>5, <2>1, PassGateEffect, LiveMoves
<1>6. ASSUME NEW r \in Runs, NEW v \in Verdicts, RunEnds(r, v) PROVE OneLive' /\ Marked'
  <2>1. IsLive(r) /\ running' = running /\ {"closing"} \subseteq Phases
    BY <1>6 DEF RunEnds, Ends, memory, IsLive, Phases, RunAt
  <2> QED BY <1>6, <2>1, EndsEffect, LiveMoves
<1>7. ASSUME NEW r \in Runs, StartJob(r) PROVE OneLive' /\ Marked'
  <2>1. IsLive(r) /\ running' = running /\ {"watch"} \subseteq Phases
    BY <1>7 DEF StartJob, memory, IsLive, Phases, RunAt
  <2> QED BY <1>7, <2>1, StartJobEffect, LiveMoves
<1>8. ASSUME NEW r \in Runs, WatchSucceeds(r) PROVE OneLive' /\ Marked'
  <2>1. IsLive(r) /\ running' = running /\ {"stamp", "hooks"} \subseteq Phases
    BY <1>8 DEF WatchSucceeds, memory, IsLive, Phases, RunAt
  <2> QED BY <1>8, <2>1, WatchSucceedsEffect, LiveMoves
<1>9. ASSUME NEW r \in Runs, Stamp(r) PROVE OneLive' /\ Marked'
  <2>1. IsLive(r) /\ running' = running /\ {"hooks"} \subseteq Phases
    BY <1>9 DEF Stamp, memory, IsLive, Phases, RunAt
  <2> QED BY <1>9, <2>1, StampEffect, LiveMoves
<1>10. ASSUME Release PROVE OneLive' /\ Marked'
  <2>1. running' = running \ {run[desk[Loop].run].sched}
    BY <1>10 DEF Release, DropMarker
  <2>2. desk[Loop].run \in Runs /\ IsLive(desk[Loop].run)
    BY <1>10, ReleaseEffect DEF IsLive, RunAt, Phases
  <2> QED BY <1>10, <2>1, <2>2, ReleaseEffect, LiveEnds
<1>11. ASSUME Hydrate PROVE OneLive' /\ Marked'
  <2>1. running' = {} /\ \A r \in Runs : ~IsLive(r)'
    BY <1>11, HydrateEffect DEF Hydrate, IsLive, Phases, RunAt
  <2> QED BY <2>1 DEF OneLive, Marked
<1>12. ASSUME UNCHANGED <<run, running>> PROVE OneLive' /\ Marked'
  BY <1>12 DEF OneLive, Marked, IsLive
<1>13. ASSUME NEW w \in Workers, NEW s \in Schedules,
            \/ \E p \in Pairs, e \in BOOLEAN : Create(w, s, p, e)
            \/ \E p \in Pairs, e \in BOOLEAN, c \in BOOLEAN : Update(w, s, p, e, c)
            \/ Delete(w, s)
      PROVE  OneLive' /\ Marked'
  BY <1>13, <1>12 DEF Create, Update, Delete, memory, outside
<1>14. ASSUME NEW a \in Actors,
            \/ Clone(a)
            \/ Save(a)
            \/ RecordClaim(a)
            \/ Close(a)
      PROVE  OneLive' /\ Marked'
  BY <1>14, <1>12 DEF Clone, Save, RecordClaim, Close, memory, outside
<1>15. ASSUME NEW s \in Schedules, TickPasses(s) PROVE OneLive' /\ Marked'
  BY <1>15, <1>12 DEF TickPasses, memory, outside
<1>16. ASSUME NEW r \in Runs,
            \/ \E h \in {"completed", "failed", "canceled"} : JobEnds(r, h)
            \/ JobRemoved(r)
      PROVE  OneLive' /\ Marked'
  BY <1>16, <1>12 DEF JobEnds, JobRemoved, memory, outside
<1>17. ASSUME 
            \/ LoopStarts
            \/ TickCollects
            \/ Tock
      PROVE  OneLive' /\ Marked'
  BY <1>17, <1>12 DEF LoopStarts, TickCollects, Tock, memory, outside
<1>18. ASSUME UNCHANGED vars PROVE OneLive' /\ Marked'
  BY <1>18, <1>12 DEF vars
<1> QED BY <1>1, <1>2, <1>3, <1>4, <1>5, <1>6, <1>7, <1>8, <1>9, <1>10, <1>11, <1>13,
     <1>14, <1>15, <1>16, <1>17, <1>18, Steps

(* The slots of the runs and of the rows as numbers.                       *)
LEMMA SlotTypes ==
    ASSUME Types
    PROVE  /\ clock \in Nat
           /\ \A r \in Runs : run[r].slot \in Nat /\ run[r].tick \in BOOLEAN /\ run[r].sched \in Schedules
           /\ \A s \in Schedules : task[s].next \in Nat
BY DEF Types, Futures, Tables, SoundRows, Rows

(* The slots are kept by what starts no run and lets no task be due again. *)
LEMMA SlotsKept ==
    ASSUME Types, OncePerSlot, Slots,
           \A r \in Runs : /\ run'[r].tick = run[r].tick /\ run'[r].slot = run[r].slot
                           /\ run'[r].sched = run[r].sched,
           \A s \in Schedules : task'[s].next \in {0, task[s].next, clock + 1},
           todo' \subseteq todo, clock' \in {clock, clock + 1}
    PROVE  OncePerSlot' /\ Slots'
<1>1. OncePerSlot'
  BY DEF OncePerSlot
<1>2. Slots'
  BY SlotTypes DEF Slots
<1> QED BY <1>1, <1>2

(* Every action keeps a slot to one run.                                   *)
LEMMA SlotsStep ==
    Types /\ Desks /\ OncePerSlot /\ Slots /\ [Next]_vars => OncePerSlot' /\ Slots'
<1> SUFFICES ASSUME Types, Desks, OncePerSlot, Slots, [Next]_vars PROVE OncePerSlot' /\ Slots'
    OBVIOUS
<1>1. ASSUME NEW w \in Workers, NEW s \in Schedules, NEW p \in Pairs,
             NEW e \in BOOLEAN, Create(w, s, p, e)
      PROVE  OncePerSlot' /\ Slots'
  <2>1. /\ \A q \in Runs : /\ run'[q].tick = run[q].tick /\ run'[q].slot = run[q].slot
                           /\ run'[q].sched = run[q].sched
        /\ \A t \in Schedules : task'[t].next \in {0, task[t].next, clock + 1}
        /\ todo' \subseteq todo /\ clock' = clock
    BY ZenonT(60), <1>1, TableEffect DEF RunIs, Create, memory, outside
  <2> QED BY <2>1, SlotsKept
<1>2. ASSUME NEW w \in Workers, NEW s \in Schedules, NEW p \in Pairs,
             NEW e \in BOOLEAN, NEW c \in BOOLEAN, Update(w, s, p, e, c)
      PROVE  OncePerSlot' /\ Slots'
  <2>1. /\ \A q \in Runs : /\ run'[q].tick = run[q].tick /\ run'[q].slot = run[q].slot
                           /\ run'[q].sched = run[q].sched
        /\ \A t \in Schedules : task'[t].next \in {0, task[t].next, clock + 1}
        /\ todo' \subseteq todo /\ clock' = clock
    BY <1>2, TableEffect DEF RunIs, Update, memory, outside
  <2> QED BY <2>1, SlotsKept
<1>3. ASSUME NEW w \in Workers, NEW s \in Schedules, Delete(w, s)
      PROVE  OncePerSlot' /\ Slots'
  <2>1. /\ \A q \in Runs : /\ run'[q].tick = run[q].tick /\ run'[q].slot = run[q].slot
                           /\ run'[q].sched = run[q].sched
        /\ \A t \in Schedules : task'[t].next \in {0, task[t].next, clock + 1}
        /\ todo' \subseteq todo /\ clock' = clock
    BY <1>3, DeleteEffect DEF RunIs, Delete, memory, outside
  <2> QED BY <2>1, SlotsKept
<1>4. ASSUME NEW w \in Workers, NEW s \in Schedules, NEW r \in Runs, RunNow(w, s, r)
      PROVE  OncePerSlot' /\ Slots'
  <2>1. ClaimIs(r, s, FALSE) /\ task' = task /\ todo' = todo /\ clock' = clock
    BY <1>4, RunNowEffect DEF RunNow, Claim, outside
  <2>2. \A q \in Runs : run'[q].tick => q # r /\ run'[q] = run[q]
    BY <2>1 DEF ClaimIs
  <2> QED BY <2>1, <2>2 DEF OncePerSlot, Slots
<1>5. ASSUME NEW s \in Schedules, NEW r \in Runs, TickClaims(s, r)
      PROVE  OncePerSlot' /\ Slots'
  <2>1. /\ ClaimIs(r, s, TRUE) /\ task'[s].next = clock + 1
        /\ \A t \in Schedules \ {s} : task'[t] = task[t]
        /\ s \in todo /\ todo' = todo \ {s} /\ clock' = clock
    BY <1>5, TickClaimsEffect DEF TickClaims, Claim, outside
  <2>2. \A q \in Runs \ {r} : run'[q] = run[q]
    BY <2>1 DEF ClaimIs
  <2>3. run'[r].slot = clock /\ run'[r].sched = s /\ run'[r].tick
    BY <2>1 DEF ClaimIs
  <2>4. \A q \in Runs \ {r} : run[q].tick /\ run[q].sched = s => run[q].slot < clock
    BY <2>1 DEF Slots
  <2>5. OncePerSlot'
    <3> SUFFICES ASSUME NEW p \in Runs, NEW q \in Runs, run'[p].tick, run'[q].tick,
                        run'[p].sched = run'[q].sched, run'[p].slot = run'[q].slot
                 PROVE  p = q
      BY DEF OncePerSlot
    <3>1. CASE p = r
      BY <2>2, <2>3, <2>4, <3>1, SlotTypes
    <3>2. CASE q = r
      BY <2>2, <2>3, <2>4, <3>2, SlotTypes
    <3>3. CASE p # r /\ q # r
      BY <2>2, <3>3 DEF OncePerSlot
    <3> QED BY <3>1, <3>2, <3>3
  <2>6. Slots'
    BY <2>1, <2>2, <2>3, <2>4, SlotTypes DEF Slots
  <2> QED BY <2>5, <2>6
<1>6. ASSUME NEW a \in Actors, Spawn(a) PROVE OncePerSlot' /\ Slots'
  <2>0. desk[a].run \in Runs
    BY <1>6 DEF Spawn, Desks, DeskOf, Starts, On
  <2>1. /\ \A q \in Runs : /\ run'[q].tick = run[q].tick /\ run'[q].slot = run[q].slot
                           /\ run'[q].sched = run[q].sched
        /\ \A t \in Schedules : task'[t].next \in {0, task[t].next, clock + 1}
        /\ todo' \subseteq todo /\ clock' = clock
    BY <1>6, <2>0, SpawnEffect DEF RunIs, Spawn, memory, outside
  <2> QED BY <2>1, SlotsKept
<1>7. ASSUME NEW a \in Actors, SpawnDropped(a) PROVE OncePerSlot' /\ Slots'
  <2>0. desk[a].run \in Runs
    BY <1>7 DEF SpawnDropped, Desks, DeskOf, Starts, On
  <2>1. /\ \A q \in Runs : /\ run'[q].tick = run[q].tick /\ run'[q].slot = run[q].slot
                           /\ run'[q].sched = run[q].sched
        /\ \A t \in Schedules : task'[t].next \in {0, task[t].next, clock + 1}
        /\ todo' \subseteq todo /\ clock' = clock
    BY <1>7, <2>0, SpawnDroppedEffect DEF RunIs, SpawnDropped, memory, outside
  <2> QED BY <2>1, SlotsKept
<1>8. ASSUME TickCollects PROVE OncePerSlot' /\ Slots'
  <2>1. /\ todo' = {s \in Schedules : Due(s)}
        /\ UNCHANGED <<task, run, clock>>
    BY <1>8 DEF TickCollects, outside
  <2>2. \A s \in todo' : task[s].next # 0 /\ task[s].next <= clock
    BY <2>1, SlotTypes DEF Due
  <2>3. Slots'
    BY <2>1, <2>2, SlotTypes DEF Slots
  <2> QED BY <2>1, <2>3 DEF OncePerSlot
<1>9. ASSUME NEW s \in Schedules, TickPasses(s) PROVE OncePerSlot' /\ Slots'
  BY <1>9, SlotsKept DEF TickPasses, outside
<1>10. ASSUME NEW r \in Runs, PassGate(r) PROVE OncePerSlot' /\ Slots'
  <2>1. /\ \A q \in Runs : /\ run'[q].tick = run[q].tick /\ run'[q].slot = run[q].slot
                           /\ run'[q].sched = run[q].sched
        /\ \A t \in Schedules : task'[t].next \in {0, task[t].next, clock + 1}
        /\ todo' \subseteq todo /\ clock' = clock
    BY <1>10, PassGateEffect DEF RunIs, PassGate, memory, outside
  <2> QED BY <2>1, SlotsKept
<1>11. ASSUME NEW r \in Runs, NEW v \in Verdicts, RunEnds(r, v)
      PROVE  OncePerSlot' /\ Slots'
  <2>1. /\ \A q \in Runs : /\ run'[q].tick = run[q].tick /\ run'[q].slot = run[q].slot
                           /\ run'[q].sched = run[q].sched
        /\ \A t \in Schedules : task'[t].next \in {0, task[t].next, clock + 1}
        /\ todo' \subseteq todo /\ clock' = clock
    BY <1>11, EndsEffect DEF RunIs, RunEnds, Ends, memory, outside
  <2> QED BY <2>1, SlotsKept
<1>12. ASSUME NEW r \in Runs, StartJob(r) PROVE OncePerSlot' /\ Slots'
  <2>1. /\ \A q \in Runs : /\ run'[q].tick = run[q].tick /\ run'[q].slot = run[q].slot
                           /\ run'[q].sched = run[q].sched
        /\ \A t \in Schedules : task'[t].next \in {0, task[t].next, clock + 1}
        /\ todo' \subseteq todo /\ clock' = clock
    BY <1>12, StartJobEffect DEF RunIs, StartJob, memory, outside
  <2> QED BY <2>1, SlotsKept
<1>13. ASSUME NEW r \in Runs, WatchSucceeds(r) PROVE OncePerSlot' /\ Slots'
  <2>1. /\ \A q \in Runs : /\ run'[q].tick = run[q].tick /\ run'[q].slot = run[q].slot
                           /\ run'[q].sched = run[q].sched
        /\ \A t \in Schedules : task'[t].next \in {0, task[t].next, clock + 1}
        /\ todo' \subseteq todo /\ clock' = clock
    BY <1>13, WatchSucceedsEffect DEF RunIs, WatchSucceeds, memory, outside
  <2> QED BY <2>1, SlotsKept
<1>14. ASSUME NEW r \in Runs, Stamp(r) PROVE OncePerSlot' /\ Slots'
  <2>1. /\ \A q \in Runs : /\ run'[q].tick = run[q].tick /\ run'[q].slot = run[q].slot
                           /\ run'[q].sched = run[q].sched
        /\ \A t \in Schedules : task'[t].next \in {0, task[t].next, clock + 1}
        /\ todo' \subseteq todo /\ clock' = clock
    BY <1>14, StampEffect DEF RunIs, Stamp, memory, outside
  <2> QED BY <2>1, SlotsKept
<1>15. ASSUME Release PROVE OncePerSlot' /\ Slots'
  <2>1. /\ \A q \in Runs : /\ run'[q].tick = run[q].tick /\ run'[q].slot = run[q].slot
                           /\ run'[q].sched = run[q].sched
        /\ \A t \in Schedules : task'[t].next \in {0, task[t].next, clock + 1}
        /\ todo' \subseteq todo /\ clock' = clock
    BY <1>15, ReleaseEffect DEF RunIs, Release, memory, outside
  <2> QED BY <2>1, SlotsKept
<1>16. ASSUME Tock PROVE OncePerSlot' /\ Slots'
  BY <1>16, SlotsKept DEF Tock, memory
<1>17. ASSUME Hydrate PROVE OncePerSlot' /\ Slots'
  <2>1. /\ \A q \in Runs : /\ run'[q].tick = run[q].tick /\ run'[q].slot = run[q].slot
                           /\ run'[q].sched = run[q].sched
        /\ \A t \in Schedules : task'[t].next \in {0, task[t].next, clock + 1}
        /\ todo' \subseteq todo /\ clock' = clock
    BY <1>17, HydrateEffect DEF Hydrate
  <2> QED BY <2>1, SlotsKept
<1>18. ASSUME UNCHANGED <<run, task, todo, clock>> PROVE OncePerSlot' /\ Slots'
  BY <1>18 DEF OncePerSlot, Slots
<1>19. ASSUME NEW a \in Actors,
            \/ Clone(a)
            \/ Save(a)
            \/ RecordClaim(a)
            \/ Close(a)
      PROVE  OncePerSlot' /\ Slots'
  BY <1>19, <1>18 DEF Clone, Save, RecordClaim, Close, memory, outside
<1>20. ASSUME NEW r \in Runs,
            \/ \E h \in {"completed", "failed", "canceled"} : JobEnds(r, h)
            \/ JobRemoved(r)
      PROVE  OncePerSlot' /\ Slots'
  BY <1>20, <1>18 DEF JobEnds, JobRemoved, memory, outside
<1>21. ASSUME LoopStarts PROVE OncePerSlot' /\ Slots'
  BY <1>21, <1>18 DEF LoopStarts, memory, outside
<1>22. ASSUME UNCHANGED vars PROVE OncePerSlot' /\ Slots'
  BY <1>22, <1>18 DEF vars
<1> QED BY <1>1, <1>2, <1>3, <1>4, <1>5, <1>6, <1>7, <1>8, <1>9, <1>10, <1>11, <1>12,
     <1>13, <1>14, <1>15, <1>16, <1>17, <1>19, <1>20, <1>21, <1>22, Steps

(* A claim takes the first unused run id, for a task without a live run.   *)
LEMMA OrderClaims ==
    ASSUME Types, Marked, InOrder, NEW r \in Runs, NEW s \in Schedules, NEW tick,
           ClaimIs(r, s, tick), s \notin running,
           RunAt(r, "unused"), \A q \in 1..(r - 1) : ~RunAt(q, "unused")
    PROVE  InOrder'
<1>1. /\ \A q \in Runs \ {r} : run'[q] = run[q]
      /\ run'[r].at = "claimed" /\ run'[r].sched = s
  BY DEF ClaimIs
<1>2. \A q \in Runs : q < r => ~RunAt(q, "unused")
  BY SchedulerAssumption DEF Runs
<1>3. \A q \in Runs : IsLive(q) => run[q].sched # s
  BY DEF Marked
<1>4. \A q \in Runs : r < q => RunAt(q, "unused")
  BY DEF InOrder
<1>5. Runs \subseteq Nat
  BY DEF Runs
<1>6. \A p, q \in Runs : p < q /\ RunAt(p, "unused")' => RunAt(q, "unused")'
  BY <1>1, <1>2, <1>5 DEF InOrder, RunAt
<1>7. ASSUME NEW q \in Runs, NEW t \in Runs, IsLive(t)', ~RunAt(q, "unused")',
             run'[q].sched = run'[t].sched
      PROVE  q <= t
  <2>1. CASE t = r
    BY <1>1, <1>4, <1>5, <1>7, <2>1 DEF RunAt
  <2>2. CASE t # r
    BY <1>1, <1>3, <1>7, <2>2 DEF RunAt, IsLive, InOrder
  <2> QED BY <2>1, <2>2
<1> QED BY <1>6, <1>7 DEF InOrder

(* Every action keeps the order of the runs.                               *)
LEMMA OrderStep ==
    Types /\ Desks /\ Marked /\ InOrder /\ [Next]_vars => InOrder'
<1> SUFFICES ASSUME Types, Desks, Marked, InOrder, [Next]_vars PROVE InOrder'
    OBVIOUS
<1>1. ASSUME NEW w \in Workers, NEW s \in Schedules, NEW r \in Runs, RunNow(w, s, r)
      PROVE  InOrder'
  <2>1. /\ ClaimIs(r, s, FALSE) /\ s \notin running
        /\ RunAt(r, "unused") /\ \A q \in 1..(r - 1) : ~RunAt(q, "unused")
    BY <1>1, RunNowEffect DEF RunNow, Claim, Claimable
  <2> QED BY <2>1, OrderClaims
<1>2. ASSUME NEW s \in Schedules, NEW r \in Runs, TickClaims(s, r) PROVE InOrder'
  <2>1. /\ ClaimIs(r, s, TRUE) /\ s \notin running
        /\ RunAt(r, "unused") /\ \A q \in 1..(r - 1) : ~RunAt(q, "unused")
    BY <1>2, TickClaimsEffect DEF TickClaims, Claim, Claimable
  <2> QED BY <2>1, OrderClaims
<1>3. ASSUME NEW a \in Actors, Spawn(a) PROVE InOrder'
  <2>1. \A q \in Runs : (RunAt(q, "unused")' <=> RunAt(q, "unused")) /\ (IsLive(q)' => IsLive(q))
                       /\ run'[q].sched = run[q].sched
    BY <1>3, SpawnEffect DEF RunIs, RunAt, IsLive, Phases, Spawn, Desks, DeskOf, Starts, On
  <2> QED BY <2>1 DEF InOrder
<1>4. ASSUME NEW a \in Actors, SpawnDropped(a) PROVE InOrder'
  <2>1. \A q \in Runs : (RunAt(q, "unused")' <=> RunAt(q, "unused")) /\ (IsLive(q)' => IsLive(q))
                       /\ run'[q].sched = run[q].sched
    <3> DEFINE o == desk[a].run
    <3>1. o \in Runs /\ RunAt(o, "claimed")
      BY <1>4 DEF SpawnDropped, Desks, DeskOf, Starts, On
    <3>2. RunIs(o, "ended", "failed")
      BY <1>4, <3>1, SpawnDroppedEffect
    <3> HIDE DEF o
    <3> QED BY <3>1, <3>2 DEF RunIs, RunAt, IsLive, Phases
  <2> QED BY <2>1 DEF InOrder
<1>5. ASSUME NEW r \in Runs, PassGate(r) PROVE InOrder'
  <2>1. \A q \in Runs : (RunAt(q, "unused")' <=> RunAt(q, "unused")) /\ (IsLive(q)' => IsLive(q))
                       /\ run'[q].sched = run[q].sched
    BY <1>5, PassGateEffect DEF RunIs, RunAt, IsLive, Phases, PassGate
  <2> QED BY <2>1 DEF InOrder
<1>6. ASSUME NEW r \in Runs, NEW v \in Verdicts, RunEnds(r, v) PROVE InOrder'
  <2>1. \A q \in Runs : (RunAt(q, "unused")' <=> RunAt(q, "unused")) /\ (IsLive(q)' => IsLive(q))
                       /\ run'[q].sched = run[q].sched
    BY ZenonT(60), <1>6, EndsEffect DEF RunIs, RunAt, IsLive, Phases, RunEnds, Ends
  <2> QED BY <2>1 DEF InOrder
<1>7. ASSUME NEW r \in Runs, StartJob(r) PROVE InOrder'
  <2>1. \A q \in Runs : (RunAt(q, "unused")' <=> RunAt(q, "unused")) /\ (IsLive(q)' => IsLive(q))
                       /\ run'[q].sched = run[q].sched
    BY <1>7, StartJobEffect DEF RunIs, RunAt, IsLive, Phases, StartJob
  <2> QED BY <2>1 DEF InOrder
<1>8. ASSUME NEW r \in Runs, WatchSucceeds(r) PROVE InOrder'
  <2>1. \A q \in Runs : (RunAt(q, "unused")' <=> RunAt(q, "unused")) /\ (IsLive(q)' => IsLive(q))
                       /\ run'[q].sched = run[q].sched
    BY <1>8, WatchSucceedsEffect DEF RunIs, RunAt, IsLive, Phases, WatchSucceeds
  <2> QED BY <2>1 DEF InOrder
<1>9. ASSUME NEW r \in Runs, Stamp(r) PROVE InOrder'
  <2>1. \A q \in Runs : (RunAt(q, "unused")' <=> RunAt(q, "unused")) /\ (IsLive(q)' => IsLive(q))
                       /\ run'[q].sched = run[q].sched
    BY <1>9, StampEffect DEF RunIs, RunAt, IsLive, Phases, Stamp
  <2> QED BY <2>1 DEF InOrder
<1>10. ASSUME Release PROVE InOrder'
  <2>1. \A q \in Runs : (RunAt(q, "unused")' <=> RunAt(q, "unused")) /\ (IsLive(q)' => IsLive(q))
                       /\ run'[q].sched = run[q].sched
    BY <1>10, ReleaseEffect DEF RunIs, RunAt, IsLive, Phases, Release
  <2> QED BY <2>1 DEF InOrder
<1>11. ASSUME Hydrate PROVE InOrder'
  <2>1. \A q \in Runs : (RunAt(q, "unused")' <=> RunAt(q, "unused")) /\ ~IsLive(q)'
    BY <1>11, HydrateEffect DEF RunAt, IsLive, Phases
  <2> QED BY <2>1 DEF InOrder
<1>12. ASSUME UNCHANGED run PROVE InOrder'
  BY <1>12 DEF InOrder, IsLive, RunAt
<1>13. ASSUME NEW w \in Workers, NEW s \in Schedules,
            \/ \E p \in Pairs, e \in BOOLEAN : Create(w, s, p, e)
            \/ \E p \in Pairs, e \in BOOLEAN, c \in BOOLEAN : Update(w, s, p, e, c)
            \/ Delete(w, s)
      PROVE  InOrder'
  BY <1>13, <1>12 DEF Create, Update, Delete, memory, outside
<1>14. ASSUME NEW a \in Actors,
            \/ Clone(a)
            \/ Save(a)
            \/ RecordClaim(a)
            \/ Close(a)
      PROVE  InOrder'
  BY <1>14, <1>12 DEF Clone, Save, RecordClaim, Close, memory, outside
<1>15. ASSUME NEW s \in Schedules, TickPasses(s) PROVE InOrder'
  BY <1>15, <1>12 DEF TickPasses, memory, outside
<1>16. ASSUME NEW r \in Runs,
            \/ \E h \in {"completed", "failed", "canceled"} : JobEnds(r, h)
            \/ JobRemoved(r)
      PROVE  InOrder'
  BY <1>16, <1>12 DEF JobEnds, JobRemoved, memory, outside
<1>17. ASSUME 
            \/ LoopStarts
            \/ TickCollects
            \/ Tock
      PROVE  InOrder'
  BY <1>17, <1>12 DEF LoopStarts, TickCollects, Tock, memory, outside
<1>18. ASSUME UNCHANGED vars PROVE InOrder'
  BY <1>18, <1>12 DEF vars
<1> QED BY <1>1, <1>2, <1>3, <1>4, <1>5, <1>6, <1>7, <1>8, <1>9, <1>10, <1>11, <1>13,
     <1>14, <1>15, <1>16, <1>17, <1>18, Steps

(* Runs move on, and records and desks are as they were, except for desks  *)
(* that neither close nor release.                                         *)
LEMMA RecordsKept ==
    ASSUME Records, RunningIsLive, record' = record,
           \A r \in Runs : /\ RunAt(r, "unused")' => RunAt(r, "unused")
                           /\ RunAt(r, "watch")' => RunAt(r, "watch")
                           /\ IsLive(r) => IsLive(r)',
           \A a \in Actors : \/ desk'[a] = desk[a]
                             \/ ~On(a, "close") /\ ~On(a, "close")'
                                /\ (Releases(a)' => Releases(a) /\ desk'[a].run = desk[a].run)
    PROVE  Records' /\ RunningIsLive'
<1>1. \A a \in Actors : Releases(a)' /\ ~On(a, "close")' =>
          Releases(a) /\ ~On(a, "close") /\ desk'[a].run = desk[a].run
  BY DEF Releases, On
<1>2. \A a \in Actors : On(a, "close") => On(a, "close")' /\ desk'[a].run = desk[a].run
  BY DEF On
<1>3. Records'
  BY <1>1 DEF Records
<1>4. RunningIsLive'
  BY <1>2 DEF RunningIsLive
<1> QED BY <1>3, <1>4

(* Every action keeps the records to their runs.                           *)
LEMMA RecordsStep ==
    Types /\ Desks /\ Records /\ RunningIsLive /\ [Next]_vars => Records' /\ RunningIsLive'
<1> SUFFICES ASSUME Types, Desks, Records, RunningIsLive, [Next]_vars
             PROVE  Records' /\ RunningIsLive'
    OBVIOUS
<1>1. ASSUME NEW w \in Workers, NEW s \in Schedules, NEW p \in Pairs,
             NEW e \in BOOLEAN, Create(w, s, p, e)
      PROVE  Records' /\ RunningIsLive'
  <2>1. /\ record' = record /\ run' = run
        /\ \A b \in Actors : \/ desk'[b] = desk[b]
                             \/ ~On(b, "close") /\ ~On(b, "close")'
                                /\ (Releases(b)' => Releases(b) /\ desk'[b].run = desk[b].run)
    BY <1>1, TableEffect DEF Create, memory, Idle, On, Releases, DeskIs
  <2> QED BY <2>1, RecordsKept DEF RunAt, IsLive
<1>2. ASSUME NEW w \in Workers, NEW s \in Schedules, NEW p \in Pairs,
             NEW e \in BOOLEAN, NEW c \in BOOLEAN, Update(w, s, p, e, c)
      PROVE  Records' /\ RunningIsLive'
  <2>1. /\ record' = record /\ run' = run
        /\ \A b \in Actors : \/ desk'[b] = desk[b]
                             \/ ~On(b, "close") /\ ~On(b, "close")'
                                /\ (Releases(b)' => Releases(b) /\ desk'[b].run = desk[b].run)
    BY ZenonT(60), <1>2, TableEffect DEF Update, memory, Idle, On, Releases, DeskIs
  <2> QED BY <2>1, RecordsKept DEF RunAt, IsLive
<1>3. ASSUME NEW w \in Workers, NEW s \in Schedules, Delete(w, s)
      PROVE  Records' /\ RunningIsLive'
  <2>1. /\ record' = record /\ run' = run
        /\ \A b \in Actors : \/ desk'[b] = desk[b]
                             \/ ~On(b, "close") /\ ~On(b, "close")'
                                /\ (Releases(b)' => Releases(b) /\ desk'[b].run = desk[b].run)
    BY <1>3, DeleteEffect DEF Delete, memory, Idle, On, Releases, DeskIs
  <2> QED BY <2>1, RecordsKept DEF RunAt, IsLive
<1>4. ASSUME NEW a \in Actors, Clone(a) PROVE Records' /\ RunningIsLive'
  <2>1. /\ record' = record /\ run' = run
        /\ \A b \in Actors : \/ desk'[b] = desk[b]
                             \/ ~On(b, "close") /\ ~On(b, "close")'
                                /\ (Releases(b)' => Releases(b) /\ desk'[b].run = desk[b].run)
    BY <1>4, CloneEffect DEF Clone, memory, On, Releases, DeskIs
  <2> QED BY <2>1, RecordsKept DEF RunAt, IsLive
<1>5. ASSUME NEW a \in Actors, Save(a) PROVE Records' /\ RunningIsLive'
  <2>1. record' = record /\ run' = run /\ ~On(a, "close")
    BY <1>5 DEF Save, memory, On
  <2>2. ~On(a, "close")' /\ (Releases(a)' => Releases(a) /\ desk'[a].run = desk[a].run)
    BY <1>5, SaveEffect DEF On, Releases, DeskIs, Types, DesksOf, AfterSave
  <2>3. \A b \in Actors \ {a} : desk'[b] = desk[b]
    BY <1>5, SaveEffect DEF DeskIs
  <2> QED BY <2>1, <2>2, <2>3, RecordsKept DEF RunAt, IsLive
<1>6. ASSUME NEW w \in Workers, NEW s \in Schedules, NEW r \in Runs, RunNow(w, s, r)
      PROVE  Records' /\ RunningIsLive'
  <2>1. /\ ClaimIs(r, s, FALSE) /\ DeskIs(w, "record", r, "idle") /\ record' = record
        /\ RunAt(r, "unused") /\ ~On(w, "close")
    BY <1>6, RunNowEffect DEF RunNow, Claim, Idle, On
  <2>2. \A q \in Runs : /\ RunAt(q, "unused")' => RunAt(q, "unused")
                        /\ RunAt(q, "watch")' => RunAt(q, "watch")
                        /\ IsLive(q) => IsLive(q)'
    BY <2>1 DEF ClaimIs, RunAt, IsLive, Phases
  <2>3. ~On(w, "close")' /\ ~Releases(w)' /\ \A b \in Actors \ {w} : desk'[b] = desk[b]
    BY <2>1 DEF DeskIs, On, Releases
  <2>4. \A b \in Actors : \/ desk'[b] = desk[b]
                          \/ ~On(b, "close") /\ ~On(b, "close")'
                             /\ (Releases(b)' => Releases(b) /\ desk'[b].run = desk[b].run)
    BY <2>1, <2>3
  <2> QED BY <2>1, <2>2, <2>4, RecordsKept
<1>7. ASSUME NEW s \in Schedules, NEW r \in Runs, TickClaims(s, r)
      PROVE  Records' /\ RunningIsLive'
  <2>1. /\ ClaimIs(r, s, TRUE) /\ DeskIs(Loop, "clone", r, "record") /\ record' = record
        /\ RunAt(r, "unused") /\ ~On(Loop, "close")
    BY <1>7, TickClaimsEffect DEF TickClaims, Claim, Idle, On
  <2>2. \A q \in Runs : /\ RunAt(q, "unused")' => RunAt(q, "unused")
                        /\ RunAt(q, "watch")' => RunAt(q, "watch")
                        /\ IsLive(q) => IsLive(q)'
    BY <2>1 DEF ClaimIs, RunAt, IsLive, Phases
  <2>3. ~On(Loop, "close")' /\ ~Releases(Loop)' /\ \A b \in Actors \ {Loop} : desk'[b] = desk[b]
    BY <2>1 DEF DeskIs, On, Releases
  <2>4. \A b \in Actors : \/ desk'[b] = desk[b]
                          \/ ~On(b, "close") /\ ~On(b, "close")'
                             /\ (Releases(b)' => Releases(b) /\ desk'[b].run = desk[b].run)
    BY <2>1, <2>3
  <2> QED BY <2>1, <2>2, <2>4, RecordsKept
<1>8. ASSUME NEW a \in Actors, RecordClaim(a) PROVE Records' /\ RunningIsLive'
  <2>1. /\ desk[a].run \in Runs /\ RunAt(desk[a].run, "claimed")
        /\ desk[a].at = "record" /\ desk[a].then = "idle" /\ run' = run
    BY <1>8 DEF RecordClaim, memory, Desks, DeskOf, Starts, On
  <2>2. /\ record'[desk[a].run].status = "running"
        /\ \A q \in Runs : q # desk[a].run => record'[q] = record[q]
    BY <1>8, <2>1 DEF RecordClaim, Types
  <2>3. DeskIs(a, "spawn", desk[a].run, "idle")
    BY <1>8, <2>1, RecordClaimEffect
  <2>4. \A b \in Actors : Releases(b)' => Releases(b) /\ desk'[b] = desk[b] /\ desk[b].run \in Runs
                                        /\ desk[b].run # desk[a].run
    BY <2>1, <2>3 DEF Releases, DeskIs, Desks, DeskOf, RunAt
  <2>5. \A b \in Actors : On(b, "close") => On(b, "close")' /\ desk'[b].run = desk[b].run
    BY <2>1, <2>3 DEF On, DeskIs
  <2>6. Records'
    BY <2>1, <2>2, <2>4 DEF Records, RunAt, On
  <2>7. RunningIsLive'
    BY <2>1, <2>2, <2>5 DEF RunningIsLive, IsLive, RunAt, Phases
  <2> QED BY <2>6, <2>7
<1>9. ASSUME NEW a \in Actors, Spawn(a) PROVE Records' /\ RunningIsLive'
  <2>1. /\ record' = record
        /\ \A q \in Runs : /\ RunAt(q, "unused")' => RunAt(q, "unused")
                           /\ RunAt(q, "watch")' => RunAt(q, "watch")
                           /\ IsLive(q) => IsLive(q)'
        /\ \A b \in Actors : \/ desk'[b] = desk[b]
                             \/ ~On(b, "close") /\ ~On(b, "close")'
                                /\ (Releases(b)' => Releases(b) /\ desk'[b].run = desk[b].run)
    BY <1>9, SpawnEffect
      DEF RunIs, ClaimIs, RunAt, IsLive, Phases, Spawn, Desks, DeskOf, Starts, On, Releases,
          DeskIs
  <2> QED BY <2>1, RecordsKept
<1>10. ASSUME NEW a \in Actors, SpawnDropped(a) PROVE Records' /\ RunningIsLive'
  <2>1. /\ desk[a].run \in Runs /\ RunAt(desk[a].run, "claimed")
        /\ desk[a].at = "spawn" /\ desk[a].then = "idle" /\ record' = record
    BY <1>10 DEF SpawnDropped, Desks, DeskOf, Starts, On
  <2>2. DeskIs(a, "close", desk[a].run, "idle") /\ RunIs(desk[a].run, "ended", "failed")
    BY <1>10, <2>1, SpawnDroppedEffect
  <2>3. \A b \in Actors : Releases(b)' => Releases(b) /\ desk'[b] = desk[b]
    BY <2>2 DEF Releases, DeskIs
  <2>4. \A b \in Actors : On(b, "close") => On(b, "close")' /\ desk'[b].run = desk[b].run
    BY <2>1, <2>2 DEF On, DeskIs
  <2>5. On(a, "close")' /\ desk'[a].run = desk[a].run
    BY <2>2 DEF On, DeskIs
  <2>6. Records'
    BY SMTT(60), <2>1, <2>2, <2>3 DEF Records, RunAt, RunIs, On
  <2>7. RunningIsLive'
    BY <2>1, <2>2, <2>4, <2>5 DEF RunningIsLive, IsLive, RunIs
  <2> QED BY <2>6, <2>7
<1>11. ASSUME NEW r \in Runs, PassGate(r) PROVE Records' /\ RunningIsLive'
  <2>1. /\ record' = record
        /\ \A q \in Runs : /\ RunAt(q, "unused")' => RunAt(q, "unused")
                           /\ RunAt(q, "watch")' => RunAt(q, "watch")
                           /\ IsLive(q) => IsLive(q)'
        /\ \A b \in Actors : \/ desk'[b] = desk[b]
                             \/ ~On(b, "close") /\ ~On(b, "close")'
                                /\ (Releases(b)' => Releases(b) /\ desk'[b].run = desk[b].run)
    BY <1>11, PassGateEffect
      DEF RunIs, ClaimIs, RunAt, IsLive, Phases, PassGate, On, Releases, DeskIs
  <2> QED BY <2>1, RecordsKept
<1>12. ASSUME NEW r \in Runs, NEW v \in Verdicts, RunEnds(r, v)
      PROVE  Records' /\ RunningIsLive'
  <2>1. /\ desk[Loop].at = "idle" /\ Loop \in Actors /\ record' = record
        /\ run[r].at \in {"check", "watch", "hooks"}
    BY <1>12 DEF RunEnds, Ends, Alone, Idle, On, Actors
  <2>2. RunIs(r, "closing", v) /\ DeskIs(Loop, "close", r, "release")
    BY <1>12, EndsEffect
  <2>3. \A b \in Actors : Releases(b)' /\ ~On(b, "close")' => Releases(b) /\ desk'[b] = desk[b]
    BY <2>2 DEF Releases, DeskIs, On
  <2>4. \A b \in Actors : On(b, "close") => On(b, "close")' /\ desk'[b].run = desk[b].run
    BY <2>1, <2>2 DEF On, DeskIs
  <2>5. Records'
    BY <2>1, <2>2, <2>3 DEF Records, RunAt, RunIs, On
  <2>6. RunningIsLive'
    BY <2>1, <2>2, <2>4 DEF RunningIsLive, IsLive, RunIs, Phases
  <2> QED BY <2>5, <2>6
<1>13. ASSUME NEW r \in Runs, StartJob(r) PROVE Records' /\ RunningIsLive'
  <2>1. RunAt(r, "check") /\ desk' = desk /\ RunIs(r, "watch", run[r].status)
    BY <1>13, StartJobEffect DEF StartJob
  <2>2. /\ record'[r] = [status |-> "running", job |-> TRUE]
        /\ \A q \in Runs : q # r => record'[q] = record[q]
    BY <1>13 DEF StartJob, Types
  <2>3. \A b \in Actors : Releases(b) => desk[b].run \in Runs /\ desk[b].run # r
    BY <2>1 DEF Desks, DeskOf, RunAt
  <2>4. Records'
    BY <2>1, <2>2, <2>3 DEF Records, RunAt, RunIs, Releases, On
  <2>5. RunningIsLive'
    BY <2>1, <2>2 DEF RunningIsLive, IsLive, RunIs, On, Phases
  <2> QED BY <2>4, <2>5
<1>14. ASSUME NEW r \in Runs, WatchSucceeds(r) PROVE Records' /\ RunningIsLive'
  <2>1. /\ record' = record
        /\ \A q \in Runs : /\ RunAt(q, "unused")' => RunAt(q, "unused")
                           /\ RunAt(q, "watch")' => RunAt(q, "watch")
                           /\ IsLive(q) => IsLive(q)'
        /\ \A b \in Actors : \/ desk'[b] = desk[b]
                             \/ ~On(b, "close") /\ ~On(b, "close")'
                                /\ (Releases(b)' => Releases(b) /\ desk'[b].run = desk[b].run)
    BY <1>14, WatchSucceedsEffect
      DEF RunIs, ClaimIs, RunAt, IsLive, Phases, WatchSucceeds, On, Releases, DeskIs
  <2> QED BY <2>1, RecordsKept
<1>15. ASSUME NEW r \in Runs, Stamp(r) PROVE Records' /\ RunningIsLive'
  <2>1. /\ record' = record
        /\ \A q \in Runs : /\ RunAt(q, "unused")' => RunAt(q, "unused")
                           /\ RunAt(q, "watch")' => RunAt(q, "watch")
                           /\ IsLive(q) => IsLive(q)'
        /\ \A b \in Actors : \/ desk'[b] = desk[b]
                             \/ ~On(b, "close") /\ ~On(b, "close")'
                                /\ (Releases(b)' => Releases(b) /\ desk'[b].run = desk[b].run)
    BY <1>15, StampEffect
      DEF RunIs, ClaimIs, RunAt, IsLive, Phases, Stamp, Alone, Idle, On, Releases, DeskIs
  <2> QED BY <2>1, RecordsKept
<1>16. ASSUME NEW a \in Actors, Close(a) PROVE Records' /\ RunningIsLive'
  <2> DEFINE r == desk[a].run
  <2>1. /\ r \in Runs /\ run[r].at \in {"closing", "ended"} /\ run[r].status # "running"
        /\ On(a, "close") /\ run' = run
    BY <1>16 DEF Close, memory, Desks, DeskOf, On
  <2>2. /\ record'[r].status = run[r].status
        /\ \A q \in Runs : q # r => record'[q] = record[q]
    BY <1>16, CloseEffect
  <2>3. \A b \in Actors \ {a} : desk'[b] = desk[b]
    BY <1>16, CloseEffect DEF DeskIs
  <2>4. Releases(a)' => desk'[a].run = r
    BY <1>16, CloseEffect DEF DeskIs, Releases
  <2> HIDE DEF r
  <2>5. \A b \in Actors : Releases(b)' /\ ~On(b, "close")' =>
          record'[desk'[b].run].status # "running"
    <3> SUFFICES ASSUME NEW b \in Actors, Releases(b)', ~On(b, "close")'
                 PROVE  record'[desk'[b].run].status # "running"
      OBVIOUS
    <3>1. CASE b = a
      BY <2>1, <2>2, <2>4, <3>1
    <3>2. CASE b # a
      <4>1. Releases(b) /\ ~On(b, "close") /\ desk'[b].run = desk[b].run
        BY <2>3, <3>2 DEF Releases, On
      <4>2. desk[b].run \in Runs /\ record[desk[b].run].status # "running"
        BY <4>1 DEF Records, Desks, DeskOf
      <4> QED BY <2>1, <2>2, <4>1, <4>2
    <3> QED BY <3>1, <3>2
  <2>6. Records'
    BY <2>1, <2>2, <2>5 DEF Records, RunAt
  <2>7. \A b \in Actors : On(b, "close") /\ desk[b].run # r =>
          On(b, "close")' /\ desk'[b].run = desk[b].run
    BY <2>3 DEF On, r
  <2>8. RunningIsLive'
    BY <2>1, <2>2, <2>7 DEF RunningIsLive, IsLive
  <2> QED BY <2>6, <2>8
<1>17. ASSUME Release PROVE Records' /\ RunningIsLive'
  <2>1. /\ desk[Loop].run \in Runs /\ RunAt(desk[Loop].run, "closing") /\ Loop \in Actors
        /\ RunIs(desk[Loop].run, "ended", run[desk[Loop].run].status)
        /\ DeskIs(Loop, "idle", 0, "idle") /\ record' = record /\ desk[Loop].at = "release"
    BY <1>17, ReleaseEffect DEF Release, Actors, On
  <2>2. record[desk[Loop].run].status # "running"
    BY <2>1 DEF Records, Releases, On
  <2>3. \A b \in Actors : Releases(b)' => Releases(b) /\ desk'[b] = desk[b]
    BY <2>1 DEF Releases, DeskIs
  <2>4. \A b \in Actors : On(b, "close") => On(b, "close")' /\ desk'[b].run = desk[b].run
    BY <2>1 DEF On, DeskIs
  <2>5. Records'
    BY SMTT(60), <2>1, <2>3 DEF Records, RunAt, RunIs, On
  <2>6. RunningIsLive'
    BY <2>1, <2>2, <2>4 DEF RunningIsLive, IsLive, RunIs
  <2> QED BY <2>5, <2>6
<1>18. ASSUME Hydrate PROVE Records' /\ RunningIsLive'
  <2>1. \A q \in Runs : record'[q].status # "running"
    BY <1>18, HydrateEffect
  <2>2. \A q \in Runs : RunAt(q, "unused")' => RunAt(q, "unused")
    BY <1>18, HydrateEffect DEF RunAt
  <2>3. \A q \in Runs : RunAt(q, "unused") => record'[q].status = record[q].status
    BY <1>18, HydrateEffect DEF Records
  <2>4. \A q \in Runs : ~RunAt(q, "watch")'
    BY <1>18, HydrateEffect DEF RunAt
  <2>5. \A b \in Actors : ~Releases(b)'
    BY <1>18, HydrateEffect, Defaults DEF Releases
  <2> QED BY <2>1, <2>2, <2>3, <2>4, <2>5 DEF Records, RunningIsLive
<1>19. ASSUME UNCHANGED <<run, record, desk>> PROVE Records' /\ RunningIsLive'
  BY <1>19 DEF Records, RunningIsLive, IsLive, RunAt, Releases, On
<1>20. ASSUME NEW s \in Schedules, TickPasses(s) PROVE Records' /\ RunningIsLive'
  BY <1>20, <1>19 DEF TickPasses, memory, outside
<1>21. ASSUME NEW r \in Runs,
            \/ \E h \in {"completed", "failed", "canceled"} : JobEnds(r, h)
            \/ JobRemoved(r)
      PROVE  Records' /\ RunningIsLive'
  BY <1>21, <1>19 DEF JobEnds, JobRemoved, memory, outside
<1>22. ASSUME 
            \/ LoopStarts
            \/ TickCollects
            \/ Tock
      PROVE  Records' /\ RunningIsLive'
  BY <1>22, <1>19 DEF LoopStarts, TickCollects, Tock, memory, outside
<1>23. ASSUME UNCHANGED vars PROVE Records' /\ RunningIsLive'
  BY <1>23, <1>19 DEF vars
<1> QED BY <1>1, <1>2, <1>3, <1>4, <1>5, <1>6, <1>7, <1>8, <1>9, <1>10, <1>11, <1>12,
     <1>13, <1>14, <1>15, <1>16, <1>17, <1>18, <1>20, <1>21, <1>22, <1>23, Steps

(* Every action keeps success to completed jobs.                           *)
LEMMA LandedStep ==
    Types /\ Desks /\ Landed /\ SuccessIsReal /\ [Next]_vars => Landed' /\ SuccessIsReal'
<1> SUFFICES ASSUME Types, Desks, Landed, SuccessIsReal, [Next]_vars PROVE Landed' /\ SuccessIsReal'
    OBVIOUS
<1>1. ASSUME NEW w \in Workers, NEW s \in Schedules, NEW r \in Runs, RunNow(w, s, r)
      PROVE  Landed' /\ SuccessIsReal'
  <2>1. /\ ClaimIs(r, s, FALSE)
        /\ record' = record /\ job' = job /\ landed' = landed
    BY <1>1, RunNowEffect DEF RunNow, Claim, outside
  <2> QED BY <2>1 DEF ClaimIs, Landed, SuccessIsReal
<1>2. ASSUME NEW s \in Schedules, NEW r \in Runs, TickClaims(s, r)
      PROVE  Landed' /\ SuccessIsReal'
  <2>1. /\ ClaimIs(r, s, TRUE)
        /\ record' = record /\ job' = job /\ landed' = landed
    BY <1>2, TickClaimsEffect DEF TickClaims, Claim, outside
  <2> QED BY <2>1 DEF ClaimIs, Landed, SuccessIsReal
<1>3. ASSUME NEW a \in Actors, RecordClaim(a) PROVE Landed' /\ SuccessIsReal'
  <2>1. /\ UNCHANGED <<run, job, landed>>
        /\ \A q \in Runs : record'[q].status = "success" => record[q].status = "success"
    BY <1>3 DEF RecordClaim, Types, memory, outside
  <2> QED BY <2>1 DEF Landed, SuccessIsReal
<1>4. ASSUME NEW a \in Actors, Spawn(a) PROVE Landed' /\ SuccessIsReal'
  <2>0. desk[a].run \in Runs
    BY <1>4 DEF Spawn, Desks, DeskOf, Starts, On
  <2>1. /\ record' = record /\ job' = job /\ landed' = landed
        /\ \A q \in Runs : run'[q].at \in {"stamp", "hooks"} \/ run'[q].status = "success" =>
              run[q].at \in {"stamp", "hooks"} \/ run[q].status = "success"
    BY <1>4, <2>0, SpawnEffect DEF RunIs, Spawn, outside
  <2> QED BY <2>1 DEF Landed, SuccessIsReal
<1>5. ASSUME NEW a \in Actors, SpawnDropped(a) PROVE Landed' /\ SuccessIsReal'
  <2>0. desk[a].run \in Runs
    BY <1>5 DEF SpawnDropped, Desks, DeskOf, Starts, On
  <2>1. /\ record' = record /\ job' = job /\ landed' = landed
        /\ \A q \in Runs : run'[q].at \in {"stamp", "hooks"} \/ run'[q].status = "success" =>
              run[q].at \in {"stamp", "hooks"} \/ run[q].status = "success"
    BY <1>5, <2>0, SpawnDroppedEffect DEF RunIs, SpawnDropped, outside
  <2> QED BY <2>1 DEF Landed, SuccessIsReal
<1>6. ASSUME NEW r \in Runs, PassGate(r) PROVE Landed' /\ SuccessIsReal'
  <2>1. /\ record' = record /\ job' = job /\ landed' = landed
        /\ \A q \in Runs : run'[q].at \in {"stamp", "hooks"} \/ run'[q].status = "success" =>
              run[q].at \in {"stamp", "hooks"} \/ run[q].status = "success"
    BY <1>6, PassGateEffect DEF RunIs, PassGate, outside
  <2> QED BY <2>1 DEF Landed, SuccessIsReal
<1>7. ASSUME NEW r \in Runs, NEW v \in Verdicts, RunEnds(r, v)
      PROVE  Landed' /\ SuccessIsReal'
  <2>1. /\ record' = record /\ job' = job /\ landed' = landed
        /\ \A q \in Runs : run'[q].at \in {"stamp", "hooks"} \/ run'[q].status = "success" =>
              run[q].at \in {"stamp", "hooks"} \/ run[q].status = "success"
    <3>1. /\ record' = record /\ job' = job /\ landed' = landed
          /\ v # "success" \/ run[r].at = "stamp" \/ run[r].at = "hooks"
      BY <1>7 DEF RunEnds, Ends, RunAt, outside
    <3>2. RunIs(r, "closing", v)
      BY <1>7, EndsEffect
    <3> QED BY <3>1, <3>2 DEF RunIs
  <2> QED BY <2>1 DEF Landed, SuccessIsReal
<1>8. ASSUME NEW r \in Runs, StartJob(r) PROVE Landed' /\ SuccessIsReal'
  <2>1. /\ RunIs(r, "watch", run[r].status) /\ landed' = landed
        /\ \A q \in Runs : record'[q].status = "success" => record[q].status = "success"
        /\ \A q \in Runs : job'[q] = "completed" => job[q] = "completed"
    BY <1>8, StartJobEffect DEF StartJob, Types
  <2> QED BY <2>1 DEF RunIs, Landed, SuccessIsReal
<1>9. ASSUME NEW r \in Runs, WatchSucceeds(r) PROVE Landed' /\ SuccessIsReal'
  <2>1. /\ job[r] = "completed" /\ record' = record /\ job' = job /\ landed' = landed
        /\ \A q \in Runs \ {r} : run'[q] = run[q]
    BY <1>9, WatchSucceedsEffect DEF WatchSucceeds, RunIs, outside
  <2> QED BY <2>1 DEF Landed, SuccessIsReal
<1>10. ASSUME NEW r \in Runs, Stamp(r) PROVE Landed' /\ SuccessIsReal'
  <2>1. /\ record' = record /\ job' = job /\ landed' = landed
        /\ \A q \in Runs : run'[q].at \in {"stamp", "hooks"} \/ run'[q].status = "success" =>
              run[q].at \in {"stamp", "hooks"} \/ run[q].status = "success"
    BY <1>10, StampEffect DEF RunIs, Stamp, RunAt, outside
  <2> QED BY <2>1 DEF Landed, SuccessIsReal
<1>11. ASSUME NEW a \in Actors, Close(a) PROVE Landed' /\ SuccessIsReal'
  <2>1. desk[a].run \in Runs /\ UNCHANGED <<run, job, landed>>
    BY <1>11, CloseEffect DEF Close, memory, outside
  <2>2. \A q \in Runs : record'[q].status = "success" =>
          record[q].status = "success" \/ run[q].status = "success"
    BY <1>11, CloseEffect
  <2> QED BY <2>1, <2>2 DEF Landed, SuccessIsReal
<1>12. ASSUME Release PROVE Landed' /\ SuccessIsReal'
  <2>1. /\ record' = record /\ job' = job /\ landed' = landed
        /\ \A q \in Runs : run'[q].at \in {"stamp", "hooks"} \/ run'[q].status = "success" =>
              run[q].at \in {"stamp", "hooks"} \/ run[q].status = "success"
    BY <1>12, ReleaseEffect DEF RunIs, Release, outside
  <2> QED BY <2>1 DEF Landed, SuccessIsReal
<1>13. ASSUME NEW r \in Runs, NEW h \in {"completed", "failed", "canceled"}, JobEnds(r, h)
      PROVE  Landed' /\ SuccessIsReal'
  <2>1. /\ run' = run /\ record' = record /\ landed \subseteq landed'
        /\ \A q \in Runs : job'[q] = "completed" => job[q] = "completed" \/ q \in landed'
    BY <1>13 DEF JobEnds, Types, memory
  <2> QED BY <2>1 DEF Landed, SuccessIsReal
<1>14. ASSUME NEW r \in Runs, JobRemoved(r) PROVE Landed' /\ SuccessIsReal'
  <2>1. /\ run' = run /\ record' = record /\ landed' = landed
        /\ \A q \in Runs : job'[q] = "completed" => job[q] = "completed"
    BY <1>14 DEF JobRemoved, Types, memory
  <2> QED BY <2>1 DEF Landed, SuccessIsReal
<1>15. ASSUME Hydrate PROVE Landed' /\ SuccessIsReal'
  <2>1. landed' = landed /\ \A q \in Runs : job'[q] # "completed"
    BY <1>15 DEF Hydrate
  <2>2. \A q \in Runs : record'[q].status = "success" => record[q].status = "success"
    BY <1>15, HydrateEffect
  <2>3. \A q \in Runs : run'[q].at \in {"stamp", "hooks"} \/ run'[q].status = "success" =>
          run[q].at \in {"stamp", "hooks"} \/ run[q].status = "success"
    BY <1>15, HydrateEffect
  <2> QED BY <2>1, <2>2, <2>3 DEF Landed, SuccessIsReal
<1>16. ASSUME UNCHANGED <<run, record, job, landed>> PROVE Landed' /\ SuccessIsReal'
  BY <1>16 DEF Landed, SuccessIsReal
<1>17. ASSUME NEW w \in Workers, NEW s \in Schedules,
            \/ \E p \in Pairs, e \in BOOLEAN : Create(w, s, p, e)
            \/ \E p \in Pairs, e \in BOOLEAN, c \in BOOLEAN : Update(w, s, p, e, c)
            \/ Delete(w, s)
      PROVE  Landed' /\ SuccessIsReal'
  BY <1>17, <1>16 DEF Create, Update, Delete, memory, outside
<1>18. ASSUME NEW a \in Actors,
            \/ Clone(a)
            \/ Save(a)
      PROVE  Landed' /\ SuccessIsReal'
  BY <1>18, <1>16 DEF Clone, Save, memory, outside
<1>19. ASSUME NEW s \in Schedules, TickPasses(s) PROVE Landed' /\ SuccessIsReal'
  BY <1>19, <1>16 DEF TickPasses, memory, outside
<1>20. ASSUME 
            \/ LoopStarts
            \/ TickCollects
            \/ Tock
      PROVE  Landed' /\ SuccessIsReal'
  BY <1>20, <1>16 DEF LoopStarts, TickCollects, Tock, memory, outside
<1>21. ASSUME UNCHANGED vars PROVE Landed' /\ SuccessIsReal'
  BY <1>21, <1>16 DEF vars
<1> QED BY <1>1, <1>2, <1>3, <1>4, <1>5, <1>6, <1>7, <1>8, <1>9, <1>10, <1>11, <1>12,
     <1>13, <1>14, <1>15, <1>17, <1>18, <1>19, <1>20, <1>21, Steps

-----------------------------------------------------------------------------
LEMMA InitInv ==
    Init => Inv
<1> SUFFICES ASSUME Init PROVE Inv
    OBVIOUS
<1>1. /\ \A r \in Runs : run[r].at = "unused" /\ ~run[r].tick /\ run[r].status = "running"
      /\ \A a \in Actors : desk[a].at = "idle" /\ desk[a].then = "idle"
      /\ \A r \in Runs : record[r].status = "none" /\ job[r] = "none"
      /\ running = {} /\ todo = {}
  BY Defaults DEF Init
<1>2. Types
  BY Defaults DEF Init, Types, Marks
<1>3. Desks
  BY <1>1 DEF Desks, DeskOf, Starts, Releases, On
<1>4. OneLive /\ Marked
  BY <1>1 DEF OneLive, Marked, IsLive, Phases
<1>5. OncePerSlot /\ Slots
  BY <1>1 DEF OncePerSlot, Slots
<1>6. Records /\ RunningIsLive
  BY <1>1 DEF Records, RunningIsLive, RunAt, Releases
<1>7. Landed /\ SuccessIsReal
  BY <1>1 DEF Landed, SuccessIsReal
<1>8. InOrder
  BY <1>1 DEF InOrder, RunAt, IsLive, Phases
<1> QED BY <1>2, <1>3, <1>4, <1>5, <1>6, <1>7, <1>8 DEF Inv

THEOREM SchedulerInv ==
    Spec => []Inv
<1>1. Inv /\ [Next]_vars => Inv'
  <2> SUFFICES ASSUME Inv, [Next]_vars PROVE Inv'
    OBVIOUS
  <2>1. /\ Types /\ Desks /\ OneLive /\ Marked /\ OncePerSlot /\ Slots
        /\ Records /\ RunningIsLive /\ Landed /\ SuccessIsReal /\ InOrder
    BY DEF Inv
  <2>2. Types' /\ Desks'
    BY <2>1, TypesStep, DesksStep
  <2>3. OneLive' /\ Marked' /\ InOrder'
    BY <2>1, FlightStep, OrderStep
  <2>4. OncePerSlot' /\ Slots'
    BY <2>1, SlotsStep
  <2>5. Records' /\ RunningIsLive' /\ Landed' /\ SuccessIsReal'
    BY <2>1, RecordsStep, LandedStep
  <2> QED BY <2>2, <2>3, <2>4, <2>5 DEF Inv
<1> QED BY <1>1, InitInv, PTL DEF Spec

(* The type invariant: every variable keeps its type, and no row that is   *)
(* absent or disabled is ever due.                                         *)
THEOREM SchedulerTypes ==
    Spec => []TypeOK
<1>1. Inv => TypeOK
  <2> SUFFICES ASSUME Types PROVE TypeOK
    BY DEF Inv
  <2>1. SoundRows \subseteq Rows
    BY DEF SoundRows
  <2>2. task \in [Schedules -> Rows] /\ file \in [Schedules -> Rows]
    BY <2>1 DEF Types, Tables
  <2>3. \A s \in Schedules : (task[s].enabled => task[s].exists) /\ (task[s].next # 0 => task[s].enabled)
    BY DEF Types, Tables, SoundRows
  <2>4. run \in [Runs -> [at : Phases \cup {"unused", "ended"}, sched : Schedules,
                          pair : Pairs, resync : BOOLEAN, slot : Nat, tick : BOOLEAN,
                          status : Verdicts \cup {"running"}]]
    BY DEF Types, Futures, RunLabels
  <2>5. desk \in [Actors -> [at : {"idle", "clone", "save", "record", "spawn", "close", "release"},
                             snap : [Schedules -> Rows], run : Nat,
                             then : {"idle", "record", "release"}]]
    <3>1. Tables \subseteq [Schedules -> Rows]
      BY <2>1 DEF Tables
    <3>2. DesksOf \subseteq [at : DeskLabels, snap : [Schedules -> Rows], run : Nat, then : AfterSave]
      BY <3>1 DEF DesksOf
    <3> QED BY <3>2 DEF Types, DeskLabels, AfterSave
  <2> QED BY <2>2, <2>3, <2>4, <2>5 DEF Types, TypeOK, Marks
<1> QED BY <1>1, SchedulerInv, PTL

(* Whatever ticks, manual runs, dropped spawns and restarts do, a task has *)
(* at most one live run, and the markers are exactly those of live runs.   *)
THEOREM SchedulerSingleFlight ==
    Spec => []SingleFlight
<1>1. Inv => SingleFlight
  <2> SUFFICES ASSUME Types, OneLive, Marked PROVE SingleFlight
    BY DEF Inv
  <2>1. running = {run[r].sched : r \in {q \in Runs : IsLive(q)}}
    BY DEF Marked
  <2> QED BY <2>1 DEF SingleFlight, OneLive
<1> QED BY <1>1, SchedulerInv, PTL

(* One cron slot fires a task at most once, with any number of ticks in it *)
(* and restarts between them.                                              *)
THEOREM SchedulerOncePerSlot ==
    Spec => []OncePerSlot
<1>1. Inv => OncePerSlot
  BY DEF Inv
<1> QED BY <1>1, SchedulerInv, PTL

(* A run that the history shows as running has a live future or an actor   *)
(* that is about to close its record.                                      *)
THEOREM SchedulerRunningIsLive ==
    Spec => []RunningIsLive
<1>1. Inv => RunningIsLive
  BY DEF Inv
<1> QED BY <1>1, SchedulerInv, PTL

(* A run is recorded as a success only if its job has completed.           *)
THEOREM SchedulerSuccessIsReal ==
    Spec => []SuccessIsReal
<1>1. Inv => SuccessIsReal
  BY DEF Inv
<1> QED BY <1>1, SchedulerInv, PTL

(* While a run watches its job, a cancel of the task finds that job: no    *)
(* other record of the task is newer.                                      *)
THEOREM SchedulerCancelFindsJob ==
    Spec => []CancelFindsJob
<1>1. Inv => CancelFindsJob
  <2> SUFFICES ASSUME Inv, NEW r \in Runs, RunAt(r, "watch")
               PROVE  /\ Newest(run[r].sched) = {r}
                      /\ record[r] = [status |-> "running", job |-> TRUE]
    BY DEF CancelFindsJob
  <2>1. record[r] = [status |-> "running", job |-> TRUE]
    BY DEF Inv, Records
  <2>2. \A q \in Runs : run[q].sched = run[r].sched /\ record[q].status # "none" => q <= r
    <3> SUFFICES ASSUME NEW q \in Runs, run[q].sched = run[r].sched, record[q].status # "none"
                 PROVE  q <= r
      OBVIOUS
    <3>1. ~RunAt(q, "unused")
      BY DEF Inv, Records
    <3>2. IsLive(r)
      BY DEF IsLive, RunAt, Phases
    <3> QED BY <3>1, <3>2 DEF Inv, InOrder
  <2>3. r \in Newest(run[r].sched)
    BY <2>1, <2>2 DEF Newest
  <2>4. ASSUME NEW x \in Newest(run[r].sched) PROVE x = r
    <3>1. x \in Runs /\ x <= r /\ r <= x
      BY <2>1, <2>2 DEF Newest
    <3> QED BY <3>1 DEF Runs
  <2> QED BY <2>1, <2>3, <2>4
<1> QED BY <1>1, SchedulerInv, PTL

(* What the history of the runs says is true: of runs that go on, of jobs  *)
(* that completed, and of the job that a cancel would stop.                *)
THEOREM SchedulerRecordsAreTrue ==
    Spec => []RecordsAreTrue
<1>1. RunningIsLive /\ SuccessIsReal /\ CancelFindsJob => RecordsAreTrue
  BY DEF RecordsAreTrue
<1> QED
  BY <1>1, SchedulerRunningIsLive, SchedulerSuccessIsReal, SchedulerCancelFindsJob, PTL
=============================================================================
