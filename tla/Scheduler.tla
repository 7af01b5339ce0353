----------------------------- MODULE Scheduler -----------------------------
(***************************************************************************)
(* The scheduler of files/schedule/*: tasks with a cron expression, the    *)
(* tick loop that fires them, manual runs, and the run records.            *)
(*                                                                         *)
(* Two kinds of actors share the task table.  Workers serve the requests.  *)
(* The scheduler thread drives the tick loop and every run future on one   *)
(* current-thread runtime, so between two awaits it is alone among those.  *)
(* Handlers and futures hold a lock only for one critical section; what an *)
(* actor still has to do before it is free again is on its desk.           *)
(*                                                                         *)
(* Time is the number of the cron slot; a task fires in every slot.  A     *)
(* pair stands for kind, connections and paths of a task.  Writes of       *)
(* runs.json are taken to succeed.                                         *)
(***************************************************************************)
EXTENDS Naturals, FiniteSets

CONSTANTS
    Schedules,      \* task ids
    Pairs, Bisync,  \* what tasks can move; the pairs that are bisync ones
    Workers, Loop,  \* the actors
    MaxRun,         \* bound: run ids are 1..MaxRun
    MaxClock,       \* bound: the last cron slot
    MaxConcurrent   \* MAX_CONCURRENT_RUNS

ASSUME SchedulerAssumption ==
    /\ Schedules # {}
    /\ Pairs # {} /\ Bisync \subseteq Pairs
    /\ Loop \notin Workers
    /\ MaxRun \in Nat /\ MaxClock \in Nat

Runs == 1..MaxRun
Actors == Workers \cup {Loop}

VARIABLES
    task,     \* the task table
    file,     \* schedules.json
    running,  \* the single-flight markers
    run,      \* the run futures
    record,   \* runs.json: the status of a run, and if it has a job id yet
    job,      \* the dir job of a run in the transfer mirror
    listed,   \* the bisync pairs that have been resynced
    landed,   \* the runs whose job has completed
    ready,    \* the scheduler thread has published its runtime
    todo,     \* the due ids process_due has still to claim
    desk,     \* what an actor is in the middle of
    clock

vars == <<task, file, running, run, record, job, listed, landed, ready, todo, desk, clock>>
memory == <<running, run, ready, todo>>
outside == <<job, listed, landed, clock>>

(* next is the slot of next_run_at, 0 for none.                            *)
Absent == [exists |-> FALSE, enabled |-> FALSE, next |-> 0,
           pair |-> CHOOSE p \in Pairs : TRUE, stamp |-> FALSE]
NoFile == [s \in Schedules |-> Absent]

Free == [at |-> "idle", snap |-> NoFile, run |-> 0, then |-> "idle"]
Unused == [at |-> "unused", sched |-> CHOOSE s \in Schedules : TRUE,
           pair |-> Absent.pair, resync |-> FALSE, slot |-> 0,
           tick |-> FALSE, status |-> "running"]

Init ==
    /\ task = NoFile
    /\ file = NoFile
    /\ running = {}
    /\ run = [r \in Runs |-> Unused]
    /\ record = [r \in Runs |-> [status |-> "none", job |-> FALSE]]
    /\ job = [r \in Runs |-> "none"]
    /\ listed = {}
    /\ landed = {}
    /\ ready = FALSE
    /\ todo = {}
    /\ desk = [a \in Actors |-> Free]
    /\ clock = 1

Puts(a, d) == desk' = [desk EXCEPT ![a] = d]
On(a, label) == desk[a].at = label
Idle(a) == On(a, "idle")
Moves(r, label) == run' = [run EXCEPT ![r].at = label]
RunAt(r, label) == run[r].at = label
Persisting(then, r) == [Free EXCEPT !.at = "clone", !.then = then, !.run = r]

(* Mistake: a disabled task is given a slot.                               *)
AnySlot(enabled) == clock + 1
FirstSlot(enabled) == IF enabled THEN clock + 1 ELSE 0

-----------------------------------------------------------------------------
(* create, update and delete: the table under its lock, then persist_tasks.*)
Create(w, s, p, enabled) ==
    /\ Idle(w)
    /\ ~task[s].exists /\ \A r \in Runs : run[r].at # "unused" => run[r].sched # s
    /\ task' = [task EXCEPT ![s] = [exists |-> TRUE, enabled |-> enabled,
                                    next |-> FirstSlot(enabled), pair |-> p,
                                    stamp |-> FALSE]]
    /\ Puts(w, Persisting("idle", 0))
    /\ UNCHANGED <<file, record, memory, outside>>

Update(w, s, p, enabled, recron) ==
    LET t == task[s] IN
    /\ Idle(w)
    /\ t.exists
    /\ task' = [task EXCEPT ![s] =
         [exists |-> TRUE, enabled |-> enabled, pair |-> p,
          next |-> IF enabled # t.enabled \/ recron THEN FirstSlot(enabled) ELSE t.next,
          stamp |-> t.stamp /\ p = t.pair]]
    /\ Puts(w, Persisting("idle", 0))
    /\ UNCHANGED <<file, record, memory, outside>>

Delete(w, s) ==
    /\ Idle(w)
    /\ task[s].exists
    /\ task' = [task EXCEPT ![s] = Absent]
    /\ Puts(w, Persisting("idle", 0))
    /\ UNCHANGED <<file, record, memory, outside>>

(* persist_tasks: a copy of the table under its lock, then the file; a     *)
(* failed write is logged.                                                 *)
Clone(a) ==
    /\ On(a, "clone")
    /\ Puts(a, [desk[a] EXCEPT !.at = "save", !.snap = task])
    /\ UNCHANGED <<task, file, record, memory, outside>>

Save(a) ==
    /\ On(a, "save")
    /\ file' \in {file, desk[a].snap}
    /\ Puts(a, IF desk[a].then = "idle" THEN Free
               ELSE [Free EXCEPT !.at = desk[a].then, !.run = desk[a].run])
    /\ UNCHANGED <<task, record, memory, outside>>

-----------------------------------------------------------------------------
(* claim: the marker and, on a tick, the next slot; then the file, the run *)
(* record and the spawn.                                                   *)
(* Mistake: the marker is only looked at when the tick collects.           *)
Unmarked(s) == TRUE
Claimable(s) == s \notin running
(* Mistake: a fired slot stays due.                                        *)
SameSlot(s) == task
NextSlot(s) == [task EXCEPT ![s].next = clock + 1]

Claim(a, s, r, tick) ==
    /\ task[s].exists
    /\ Claimable(s)
    /\ tick => task[s].enabled
    /\ RunAt(r, "unused") /\ \A q \in 1..(r - 1) : ~RunAt(q, "unused")
    /\ running' = running \cup {s}
    /\ task' = IF tick THEN NextSlot(s) ELSE task
    /\ run' = [run EXCEPT ![r] =
         [at |-> "claimed", sched |-> s, pair |-> task[s].pair,
          resync |-> task[s].pair \in Bisync /\ ~task[s].stamp,
          slot |-> clock, tick |-> tick, status |-> "running"]]
    /\ Puts(a, IF tick THEN Persisting("record", r)
               ELSE [Free EXCEPT !.at = "record", !.run = r])
    /\ UNCHANGED <<file, record, ready, outside>>

RunNow(w, s, r) ==
    /\ Idle(w)
    /\ Claim(w, s, r, FALSE)
    /\ UNCHANGED todo

RecordClaim(a) ==
    /\ On(a, "record")
    /\ record' = [record EXCEPT ![desk[a].run] = [status |-> "running", job |-> FALSE]]
    /\ Puts(a, [desk[a] EXCEPT !.at = "spawn"])
    /\ UNCHANGED <<task, file, memory, outside>>

Spawn(a) ==
    /\ On(a, "spawn")
    /\ ready
    /\ Moves(desk[a].run, "gate")
    /\ Puts(a, Free)
    /\ UNCHANGED <<task, file, record, running, ready, todo, outside>>

(* No runtime yet: the run is dropped and its record closed.               *)
SpawnDropped(a) ==
    LET r == desk[a].run IN
    /\ On(a, "spawn")
    /\ ~ready
    /\ running' = running \ {run[r].sched}
    /\ run' = [run EXCEPT ![r].at = "ended", ![r].status = "failed"]
    /\ Puts(a, [desk[a] EXCEPT !.at = "close"])
    /\ UNCHANGED <<task, file, record, ready, todo, outside>>

-----------------------------------------------------------------------------
(* The scheduler thread.                                                   *)
Alone == ready /\ Idle(Loop) /\ todo = {}

LoopStarts ==
    /\ ~ready
    /\ ready' = TRUE
    /\ UNCHANGED <<task, file, record, running, run, todo, desk, outside>>

(* process_due: the due ids under the locks, then one claim after another. *)
Due(s) ==
    /\ task[s].enabled
    /\ task[s].next \in 1..clock
    /\ s \notin running

TickCollects ==
    /\ Alone
    /\ \E s \in Schedules : Due(s)
    /\ \E r \in Runs : RunAt(r, "unused")
    /\ todo' = {s \in Schedules : Due(s)}
    /\ UNCHANGED <<task, file, record, running, run, ready, desk, outside>>

TickClaims(s, r) ==
    /\ Idle(Loop)
    /\ s \in todo
    /\ Claim(Loop, s, r, TRUE)
    /\ todo' = todo \ {s}

(* The claim refuses what has changed since; also when run ids run out.    *)
TickPasses(s) ==
    /\ Idle(Loop)
    /\ s \in todo
    /\ \/ ~task[s].enabled
       \/ s \in running
       \/ \A r \in Runs : ~RunAt(r, "unused")
    /\ todo' = todo \ {s}
    /\ UNCHANGED <<task, file, record, running, run, ready, desk, outside>>

-----------------------------------------------------------------------------
(* execute_run.  The permit of the gate is a temporary of the condition it *)
(* is awaited in, so it is back before the run goes on: all are free here. *)
PassGate(r) ==
    /\ Alone
    /\ RunAt(r, "gate")
    /\ Moves(r, "check")
    /\ UNCHANGED <<task, file, record, running, ready, todo, desk, outside>>

(* The end of drive_run: its verdict goes into the record.                 *)
Ends(r, verdict) ==
    /\ run' = [run EXCEPT ![r].at = "closing", ![r].status = verdict]
    /\ Puts(Loop, [Free EXCEPT !.at = "close", !.run = r, !.then = "release"])
    /\ UNCHANGED <<task, file, record, running, ready, todo, outside>>

(* An unregistered connection skips the run.                               *)
Skip(r) ==
    /\ Alone
    /\ RunAt(r, "check")
    /\ Ends(r, "skipped")

StartJob(r) ==
    /\ Alone
    /\ RunAt(r, "check")
    /\ job' = [job EXCEPT ![r] = "live"]
    /\ record' = [record EXCEPT ![r] = [status |-> "running", job |-> TRUE]]
    /\ Moves(r, "watch")
    /\ UNCHANGED <<task, file, running, ready, todo, desk, listed, landed, clock>>

StartFails(r) ==
    /\ Alone
    /\ RunAt(r, "check")
    /\ Ends(r, "failed")

(* await_job_terminal: the job as the mirror has it at a poll; a job that  *)
(* is missing at two polls, and one that outlives MAX_RUN_DURATION, fail   *)
(* the run.                                                                *)
WatchSucceeds(r) ==
    /\ Alone
    /\ RunAt(r, "watch")
    /\ job[r] = "completed"
    /\ run' = [run EXCEPT ![r].at = IF run[r].resync THEN "stamp" ELSE "hooks",
                          ![r].status = "success"]
    /\ UNCHANGED <<task, file, record, running, ready, todo, desk, outside>>

(* Mistake: a missing job is taken for one that is done and cleared.       *)
VanishedSucceeds(r) == IF job[r] = "gone" THEN "success" ELSE job[r]
Verdict(r) == IF job[r] = "gone" THEN "failed" ELSE job[r]
WatchEnds(r) ==
    /\ Alone
    /\ RunAt(r, "watch")
    /\ job[r] \in {"failed", "canceled", "gone"}
    /\ Ends(r, Verdict(r))

(* Mistake: the watch has no deadline.                                     *)
WatchNeverTimesOut(r) == FALSE
WatchTimesOut(r) ==
    /\ Alone
    /\ RunAt(r, "watch")
    /\ job[r] = "live"
    /\ Ends(r, "failed")

(* The first bisync of a pair is a resync; its success stamps the row that *)
(* has the id of the task by now.                                          *)
Stamp(r) ==
    LET s == run[r].sched IN
    /\ Alone
    /\ RunAt(r, "stamp")
    /\ task' = IF task[s].exists THEN [task EXCEPT ![s].stamp = TRUE] ELSE task
    /\ Moves(r, "hooks")
    /\ Puts(Loop, Persisting("idle", 0))
    /\ UNCHANGED <<file, record, running, ready, todo, outside>>

(* Verification and retention can only add a warning.                      *)
Hooks(r) ==
    /\ Alone
    /\ RunAt(r, "hooks")
    /\ Ends(r, "success")

(* The final record; then last_run_* of the row (not modelled) and the     *)
(* file; then the marker, which the guard of the run drops.                *)
Close(a) ==
    LET r == desk[a].run IN
    /\ On(a, "close")
    /\ record' = [record EXCEPT ![r].status = run[r].status]
    /\ Puts(a, IF desk[a].then = "release" THEN Persisting("release", r) ELSE Free)
    /\ UNCHANGED <<task, file, memory, outside>>

(* Mistake: the marker outlives the run.                                   *)
KeepMarker(s) == running
DropMarker(s) == running \ {s}
Release ==
    LET r == desk[Loop].run IN
    /\ On(Loop, "release")
    /\ running' = DropMarker(run[r].sched)
    /\ Moves(r, "ended")
    /\ Puts(Loop, Free)
    /\ UNCHANGED <<task, file, record, ready, todo, outside>>

-----------------------------------------------------------------------------
(* The world: a job ends or leaves the mirror, time passes, the sidecar    *)
(* dies and hydrates.  rclone refuses a plain bisync of an unlisted pair.  *)
JobEnds(r, how) ==
    /\ job[r] = "live"
    /\ how = "completed" /\ run[r].pair \in Bisync => run[r].resync \/ run[r].pair \in listed
    /\ job' = [job EXCEPT ![r] = how]
    /\ landed' = IF how = "completed" THEN landed \cup {r} ELSE landed
    /\ listed' = IF how = "completed" /\ run[r].resync THEN listed \cup {run[r].pair} ELSE listed
    /\ UNCHANGED <<task, file, record, memory, desk, clock>>

JobRemoved(r) ==
    /\ job[r] \in {"completed", "failed", "canceled"}
    /\ job' = [job EXCEPT ![r] = "gone"]
    /\ UNCHANGED <<task, file, record, memory, desk, listed, landed, clock>>

Tock ==
    /\ clock < MaxClock
    /\ clock' = clock + 1
    /\ UNCHANGED <<task, file, record, memory, desk, job, listed, landed>>

(* Mistake: the records of the runs that died are left.                    *)
Unsettled == record
Settled ==
    [r \in Runs |-> IF record[r].status = "running" THEN [record[r] EXCEPT !.status = "failed"]
                    ELSE record[r]]

Hydrate ==
    LET fresh == [s \in Schedules |-> [file[s] EXCEPT !.next = FirstSlot(file[s].enabled)]] IN
    /\ task' = fresh
    /\ file' = fresh
    /\ record' = Settled
    /\ running' = {}
    /\ ready' = FALSE
    /\ todo' = {}
    /\ run' = [r \in Runs |-> IF RunAt(r, "unused") THEN run[r] ELSE [run[r] EXCEPT !.at = "ended"]]
    /\ desk' = [a \in Actors |-> Free]
    /\ job' = [r \in Runs |-> IF job[r] = "none" THEN "none" ELSE "gone"]
    /\ UNCHANGED <<listed, landed, clock>>

-----------------------------------------------------------------------------
DeskStep(a) == Clone(a) \/ Save(a) \/ RecordClaim(a) \/ Spawn(a) \/ SpawnDropped(a) \/ Close(a)

LoopStep ==
    \/ DeskStep(Loop)
    \/ Release
    \/ TickCollects
    \/ \E s \in Schedules : TickPasses(s) \/ \E r \in Runs : TickClaims(s, r)

RunStep(r) ==
    \/ PassGate(r)
    \/ Skip(r)
    \/ StartJob(r)
    \/ StartFails(r)
    \/ WatchSucceeds(r)
    \/ WatchEnds(r)
    \/ WatchTimesOut(r)
    \/ Stamp(r)
    \/ Hooks(r)

Request(w) ==
    \E s \in Schedules :
        \/ \E p \in Pairs, enabled \in BOOLEAN :
              \/ Create(w, s, p, enabled)
              \/ \E recron \in BOOLEAN : Update(w, s, p, enabled, recron)
        \/ Delete(w, s)
        \/ \E r \in Runs : RunNow(w, s, r)

World ==
    \/ \E r \in Runs :
          \/ \E how \in {"completed", "failed", "canceled"} : JobEnds(r, how)
          \/ JobRemoved(r)
    \/ Tock
    \/ Hydrate

Next ==
    \/ LoopStarts
    \/ LoopStep
    \/ \E r \in Runs : RunStep(r)
    \/ \E w \in Workers : DeskStep(w) \/ Request(w)
    \/ World

Spec == Init /\ [][Next]_vars

(* Handlers run to their end, and the scheduler thread goes on as long as  *)
(* the loop or a future has a step to take.  Jobs need not end, requests   *)
(* need not come, and the thread need not start.                           *)
FairSpec ==
    /\ Spec
    /\ WF_vars(LoopStep \/ \E r \in Runs : RunStep(r))
    /\ \A w \in Workers : WF_vars(DeskStep(w))

-----------------------------------------------------------------------------
Rows == [exists : BOOLEAN, enabled : BOOLEAN, next : Nat, pair : Pairs, stamp : BOOLEAN]
Phases == {"claimed", "gate", "check", "watch", "stamp", "hooks", "closing"}
Verdicts == {"success", "failed", "canceled", "skipped"}

(* The types, and a task without a row or disabled is never due.           *)
TypeOK ==
    /\ task \in [Schedules -> Rows] /\ file \in [Schedules -> Rows]
    /\ \A s \in Schedules :
          /\ task[s].enabled => task[s].exists
          /\ task[s].next # 0 => task[s].enabled
    /\ running \subseteq Schedules
    /\ run \in [Runs -> [at : Phases \cup {"unused", "ended"}, sched : Schedules,
                         pair : Pairs, resync : BOOLEAN, slot : Nat, tick : BOOLEAN,
                         status : Verdicts \cup {"running"}]]
    /\ record \in [Runs -> [status : Verdicts \cup {"none", "running"}, job : BOOLEAN]]
    /\ job \in [Runs -> {"none", "live", "completed", "failed", "canceled", "gone"}]
    /\ listed \subseteq Bisync /\ landed \subseteq Runs
    /\ ready \in BOOLEAN /\ todo \subseteq Schedules /\ clock \in Nat
    /\ desk \in [Actors -> [at : {"idle", "clone", "save", "record", "spawn", "close", "release"},
                            snap : [Schedules -> Rows], run : Nat,
                            then : {"idle", "record", "release"}]]

IsLive(r) == run[r].at \in Phases

(* Ticks and manual runs never run one task twice at a time, and a task    *)
(* whose run is over can be run again: the markers are those of live runs. *)
SingleFlight ==
    /\ \A q, r \in Runs : IsLive(q) /\ IsLive(r) /\ run[q].sched = run[r].sched => q = r
    /\ running = {run[r].sched : r \in {q \in Runs : IsLive(q)}}

(* One slot fires a task at most once.                                     *)
OncePerSlot ==
    \A q, r \in Runs :
        run[q].tick /\ run[r].tick /\ run[q].sched = run[r].sched /\ run[q].slot = run[r].slot
           => q = r

(* A run that the history shows as running is running, or its record is    *)
(* about to be closed; a restart included.                                 *)
RunningIsLive ==
    \A r \in Runs : record[r].status = "running" =>
        IsLive(r) \/ \E a \in Actors : On(a, "close") /\ desk[a].run = r

(* A successful record stands for a job that did complete.                 *)
SuccessIsReal == \A r \in Runs : record[r].status = "success" => r \in landed

(* A cancel finds the job of a run: the newest record of the task, by the  *)
(* time of its claim, is that of the run, with the job.                    *)
Newest(s) == {r \in Runs : /\ run[r].sched = s /\ record[r].status # "none"
                           /\ \A q \in Runs : run[q].sched = s /\ record[q].status # "none" => q <= r}
CancelFindsJob ==
    \A r \in Runs : RunAt(r, "watch") =>
        Newest(run[r].sched) = {r} /\ record[r] = [status |-> "running", job |-> TRUE]

(* What the history of the runs says is true, in all three of these ways.  *)
RecordsAreTrue == RunningIsLive /\ SuccessIsReal /\ CancelFindsJob

(* Every run gives its marker back, even if its job never ends.            *)
RunsEnd == \A r \in Runs : IsLive(r) ~> ~IsLive(r)

-----------------------------------------------------------------------------
(* "Global cap on concurrent scheduled/manual runs across all tasks."      *)
GlobalCap ==
    Cardinality({r \in Runs : run[r].at \in Phases \ {"claimed", "gate"}}) <= MaxConcurrent

(* The stamp resets with the pair, so that a stamped task has a listing on *)
(* its pair and its plain bisync runs are not rejected.                    *)
StampIsOfPair ==
    \A s \in Schedules : task[s].exists /\ task[s].stamp => task[s].pair \in listed
=============================================================================
