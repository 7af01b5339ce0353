-------------------------- MODULE JobsProofs --------------------------
(***************************************************************************)
(* The mirror of directory jobs is true of rclone, for any numbers of      *)
(* jobs, workers, crashes and failing calls.                               *)
(*                                                                         *)
(* Executions of tasks, for any numbers of workers, runs and jobs: the run *)
(* registry has no ghosts, an answer is true of the job, and the jobs keep *)
(* what SyncJobs promises with executions among their callers.  And the    *)
(* whole of MCJobs, where requests, readings, plans and connections stand  *)
(* beside them.  For the latter, what a form tells, where it leads and its *)
(* root are worked out protocol by protocol (MeantIsTold, MeantLeads and   *)
(* MeantRoots), and calls carry it to the registry (MeantInv).             *)
(***************************************************************************)
EXTENDS MCJobs, FilesProofs

(* Settling a job sets the verdict if the job is live, and nothing else.   *)
LEMMA CompleteEffect ==
    ASSUME status \in [Tasks -> Statuses],
           NEW t \in Tasks, NEW o \in Terminal, Complete(t, o)
    PROVE  /\ status' \in [Tasks -> Statuses]
           /\ \A u \in Tasks : u # t => status'[u] = status[u]
           /\ Accepts(t) => status[t] \in Live /\ status'[t] = o
           /\ ~Accepts(t) => status[t] \notin Live /\ status'[t] = status[t]
BY DEF Complete, Accepts, Statuses

CallRecords == [at : Labels, task : Tasks \cup {NoTask}, as : Terminal, offset : Nat,
                ids : SUBSET Tasks]
RemoteRecords == [state : {"none", "running", "succeeded", "failed", "expired"}, rcd : 0..rcd,
                  id : Nat, good : BOOLEAN]
PollRecords == [at : {"off", "sleep", "stats", "status", "ending", "purge", "over"},
                errors : 0..(MaxErrors - 1), verdict : Terminal]

------------------------------------------------------------------------------
(* Types.  What a worker goes on with is well typed.                       *)
LEMMA GoTypes ==
    ASSUME call \in [Workers -> CallRecords],
           \A v \in Workers : Task(v) = NoTask => call[v].at \in {"idle", "drop"},
           NEW w \in Workers, NEW c \in CallRecords, Go(w, c),
           c.task = NoTask => c.at \in {"idle", "drop"}
    PROVE  /\ call' \in [Workers -> CallRecords]
           /\ (\A v \in Workers : Task(v) = NoTask => call[v].at \in {"idle", "drop"})'
           /\ call'[w] = c /\ \A v \in Workers \ {w} : call'[v] = call[v]
BY DEF Go, Task

LEMMA CallTyped ==
    ASSUME NEW label \in Labels, NEW t \in Tasks
    PROVE  /\ Call(label, t) \in CallRecords /\ Call(label, t).at = label
           /\ Call(label, t).task = t /\ Call(label, t).task # NoTask
BY NoTaskAssumption DEF Call, CallRecords, Labels, Terminal

LEMMA SettlingTyped ==
    ASSUME NEW t \in Tasks
    PROVE  LET c == Settling(t, "canceled") IN
           /\ c \in CallRecords /\ c.at = "settle" /\ c.as = "canceled"
           /\ c.task = t /\ c.task # NoTask
BY NoTaskAssumption DEF Settling, Call, CallRecords, Labels, Terminal

LEMMA IdleTyped == Idle \in CallRecords /\ Idle.at = "idle" /\ Idle.task = NoTask
BY DEF Idle, Call, CallRecords, Labels, Terminal

(* Of the tables, the handlers change no more than their own entries.      *)
TablesTyped ==
    /\ record \in [Tasks -> {"none", "bare", "handled"}]
    /\ marked \subseteq Tasks
    /\ client \in [Workers -> 0..rcd]
    /\ faults \in 0..MaxFaults

LEMMA HopTypes ==
    ASSUME TypeOK, NEW w \in Workers, NEW c \in CallRecords, Go(w, c),
           c.task = NoTask => c.at \in {"idle", "drop"},
           UNCHANGED <<status, history, kind, remote, poll, source, rcd>>, TablesTyped'
    PROVE  TypeOK'
<1>1. call \in [Workers -> CallRecords]
  BY DEF TypeOK, JobsTypeOK, CallRecords
<1>2. \A v \in Workers : Task(v) = NoTask => call[v].at \in {"idle", "drop"}
  BY DEF TypeOK, JobsTypeOK
<1>3. call' \in [Workers -> CallRecords]
  BY <1>1, <1>2, GoTypes
<1>4. (\A v \in Workers : Task(v) = NoTask => call[v].at \in {"idle", "drop"})'
  BY <1>1, <1>2, GoTypes
<1>5. JobsTypeOK(Labels)'
  BY <1>3, <1>4 DEF TypeOK, JobsTypeOK, CallRecords
<1> QED
  BY <1>5 DEF TypeOK, TablesTyped

LEMMA TablesKept ==
    ASSUME TypeOK, UNCHANGED <<record, marked, client, rcd, faults>>
    PROVE  TablesTyped'
BY DEF TypeOK, TablesTyped

(* Where a worker that serves a task is, the task is one.                  *)
LEMMA ServedTask ==
    ASSUME TypeOK, NEW w \in Workers, call[w].at \notin {"idle", "drop"}
    PROVE  Task(w) \in Tasks
BY DEF TypeOK, JobsTypeOK, Task

LEMMA FaultTyped ==
    ASSUME TypeOK, Fault \/ UNCHANGED faults
    PROVE  faults' \in 0..MaxFaults
BY SyncAssumption DEF TypeOK, Fault

------------------------------------------------------------------------------
(* The invariant.  A job is unsent until rclone has taken it, then sent.   *)
Early == {"mkdir", "list"}
Late == {"file", "dial", "submit"}
After == {"handle", "client", "mark", "stop", "settle"}
Sent(t) == remote[t].state # "none"

(* A starter is alone with its job, which is unsent.                       *)
Starters ==
    /\ \A w \in Workers : call[w].at \in Early => status[Task(w)] = "new"
    /\ \A w \in Workers : call[w].at \in Late => status[Task(w)] = "queued" /\ ~Sent(Task(w))
    /\ \A v, w \in Workers :
          call[v].at \in Early \cup Late /\ call[w].at \in Early \cup Late /\ Task(v) = Task(w)
          => v = w

(* Whoever cancels or clears a job has a sent one.                         *)
Callers ==
    /\ \A w \in Workers : call[w].at \in After => Sent(Task(w))
    /\ \A w \in Workers : call[w].at = "settle" => call[w].as = "canceled"
    /\ \A w \in Workers : call[w].at = "drop" =>
          \A t \in call[w].ids : Sent(t) /\ status[t] \in Terminal \cup {"gone"}
    /\ \A t \in Tasks : record[t] = "handled" => Sent(t)

(* A job that is unsent has nothing but its place in the mirror.           *)
Unsent ==
    \A t \in Tasks :
        /\ ~Sent(t) => /\ status[t] \in {"new", "queued", "gone"}
                       /\ poll[t].at = "off" /\ ~remote[t].good /\ source[t]
        /\ Sent(t) => status[t] # "new" /\ poll[t].at # "off"

(* What poller and mirror bring forth comes from an end that was good.     *)
Truth ==
    \A t \in Tasks :
        /\ remote[t].good => remote[t].state \in {"succeeded", "expired"}
        /\ remote[t].state = "succeeded" => remote[t].good
        /\ poll[t].verdict = "completed" => remote[t].good
        /\ poll[t].at = "purge" => remote[t].good /\ kind[t] = "move"

(* Directory jobs leave no rows.                                           *)
Rowless == \A t \in Tasks : history[t] = <<>>

Inv == TypeOK /\ Starters /\ Callers /\ Unsent /\ Truth /\ MirrorIsTrue /\ Rowless

(* A call that a worker may go on with.                                    *)
Fits(w, c) ==
    /\ c \in CallRecords
    /\ c.task = NoTask => c.at \in {"idle", "drop"}
    /\ c.at \in Early =>
          /\ status[c.task] = "new"
          /\ \/ call[w].at \in Early /\ Task(w) = c.task
             \/ \A v \in Workers : Task(v) # c.task
    /\ c.at \in Late => call[w].at \in Late /\ Task(w) = c.task
    /\ c.at \in After => Sent(c.task)
    /\ c.at = "settle" => c.as = "canceled"
    /\ c.at = "drop" => \A t \in c.ids : Sent(t) /\ status[t] \in Terminal \cup {"gone"}

(* A step of a handler that leaves the job where it is.                    *)
Hop(w, c) ==
    /\ Go(w, c)
    /\ UNCHANGED <<status, history, kind, remote, poll, source, rcd>>
    /\ TablesTyped'
    /\ \A t \in Tasks : record'[t] = "handled" => Sent(t)

LEMMA HopKeeps ==
    ASSUME Inv, NEW w \in Workers, NEW c, Fits(w, c), Hop(w, c)
    PROVE  Inv'
<1> USE DEF Inv
<1>1. TypeOK'
  BY HopTypes DEF Fits, Hop
<1>2. call'[w] = c /\ \A v \in Workers \ {w} : call'[v] = call[v]
  BY DEF Hop, Go, TypeOK, JobsTypeOK
<1>3. /\ \A t \in Tasks : Sent(t)' = Sent(t)
      /\ \A t \in call[w].ids \cup c.ids : Sent(t)' = Sent(t)
  BY DEF Hop, Sent
<1>4. UNCHANGED <<status, history, kind, remote, poll, source, rcd>>
  BY DEF Hop
<1>5. Starters'
  <2>1. \A v \in Workers : call'[v].at \in Early => status'[call'[v].task] = "new"
    BY <1>2, <1>4 DEF Starters, Fits, Task
  <2>2. \A v \in Workers : call'[v].at \in Late =>
          status'[call'[v].task] = "queued" /\ remote'[call'[v].task].state = "none"
    BY <1>2, <1>4 DEF Starters, Fits, Task, Sent
  <2>3. \A u, v \in Workers :
          /\ call'[u].at \in Early \cup Late /\ call'[v].at \in Early \cup Late
          /\ call'[u].task = call'[v].task
          => u = v
    BY <1>2 DEF Starters, Fits, Task, Early, Late
  <2> QED
    BY <2>1, <2>2, <2>3 DEF Starters, Task, Sent
<1>6. Callers'
  BY <1>2, <1>4 DEF Callers, Fits, Task, Sent, Hop
<1>7. Unsent' /\ Truth' /\ MirrorIsTrue' /\ Rowless'
  BY <1>4 DEF Unsent, Truth, MirrorIsTrue, Rowless, Sent
<1> QED
  BY <1>1, <1>5, <1>6, <1>7

(* The steps of handlers that are hops.                                    *)
LEMMA HandledKept ==
    ASSUME Inv, UNCHANGED record
    PROVE  \A t \in Tasks : record'[t] = "handled" => Sent(t)
BY DEF Inv, Callers

LEMMA IdleKeeps ==
    ASSUME Inv, NEW w \in Workers, Go(w, Idle), UNCHANGED <<status, history, kind, remote, poll,
               record, marked, source, client, rcd>>, Fault \/ UNCHANGED faults
    PROVE  Inv'
<1>1. Fits(w, Idle)
  BY IdleTyped DEF Fits, Early, Late, After
<1>2. TablesTyped'
  BY FaultTyped DEF TablesTyped, Inv, TypeOK
<1> QED
  BY <1>1, <1>2, HopKeeps, HandledKept DEF Hop

LEMMA ServesFits ==
    ASSUME Inv, NEW w \in Workers, NEW label \in Labels, Task(w) \in Tasks,
           \/ label \in Early /\ call[w].at \in Early
           \/ label \in Late /\ call[w].at \in Late
           \/ label \in After \ {"settle"} /\ call[w].at \in After
           \/ label = "unfile"
    PROVE  Fits(w, Call(label, Task(w)))
<1> DEFINE c == Call(label, Task(w))
<1>1. c \in CallRecords /\ c.at = label /\ c.task = Task(w) /\ c.task # NoTask
  BY CallTyped
<1>2. label \in Early => status[Task(w)] = "new"
  BY DEF Inv, Starters, Early, Late, After
<1>3. label \in After => Sent(Task(w))
  BY DEF Inv, Callers, Early, Late, After
<1> HIDE DEF c
<1>4. Fits(w, c)
  BY <1>1, <1>2, <1>3 DEF Fits, Early, Late, After
<1> QED
  BY <1>4 DEF c

LEMMA FilesKeeps ==
    ASSUME Inv, NEW w \in Workers, MakesTarget(w) \/ Files(w) \/ Dials(w)
    PROVE  Inv'
<1>1. Task(w) \in Tasks
  BY ServedTask DEF Inv, MakesTarget, Files, Dials, At
<1>2. CASE MakesTarget(w)
  <2>1. Fits(w, Call("list", Task(w)))
    BY <1>1, <1>2, ServesFits DEF MakesTarget, At, Early, Labels
  <2>2. Hop(w, Call("list", Task(w)))
    BY <1>2, TablesKept, HandledKept DEF MakesTarget, Hop, syncVars, Inv
  <2> QED
    BY <2>1, <2>2, HopKeeps
<1>3. CASE Files(w)
  <2>1. Fits(w, Call("dial", Task(w)))
    BY <1>1, <1>3, ServesFits DEF Files, At, Late, Labels
  <2>2. record' = [record EXCEPT ![Task(w)] = "bare"]
    BY <1>3 DEF Files
  <2>3. TablesTyped'
    BY <1>3, <2>2 DEF Files, TablesTyped, Inv, TypeOK
  <2>4. \A t \in Tasks : record'[t] = "handled" => Sent(t)
    BY <1>1, <2>2 DEF Inv, Callers, TypeOK
  <2>5. Hop(w, Call("dial", Task(w)))
    BY <1>3, <2>3, <2>4 DEF Files, Hop
  <2> QED
    BY <2>1, <2>5, HopKeeps
<1>4. CASE Dials(w)
  <2>1. Fits(w, Call("submit", Task(w)))
    BY <1>1, <1>4, ServesFits DEF Dials, At, Late, Labels
  <2>2. TablesTyped'
    BY <1>4, SyncAssumption DEF Dials, Gets, TablesTyped, Inv, TypeOK
  <2>3. Hop(w, Call("submit", Task(w)))
    BY <1>4, <2>2, HandledKept DEF Dials, Hop
  <2> QED
    BY <2>1, <2>3, HopKeeps
<1> QED
  BY <1>2, <1>3, <1>4

LEMMA GivesUpKeeps ==
    ASSUME Inv, NEW w \in Workers, MakesNoTarget(w) \/ DialFails(w)
    PROVE  Inv'
BY IdleKeeps DEF MakesNoTarget, DialFails

LEMMA HandlesKeeps ==
    ASSUME Inv, NEW w \in Workers, Unfiles(w) \/ Handles(w)
    PROVE  Inv'
<1>1. Task(w) \in Tasks
  BY ServedTask DEF Inv, Unfiles, Handles, At
<1>2. Fits(w, Idle)
  BY IdleTyped DEF Fits, Early, Late, After
<1>3. /\ record' \in [Tasks -> {"none", "bare", "handled"}]
      /\ \A t \in Tasks : record'[t] = "handled" => record[t] = "handled" \/ At(w, "handle")
      /\ \A t \in Tasks : record'[t] = "handled" => record[t] = "handled" \/ t = Task(w)
  BY <1>1 DEF Unfiles, Handles, Inv, TypeOK
<1>4. At(w, "handle") => Sent(Task(w))
  BY DEF At, After, Inv, Callers
<1>5. TablesTyped'
  BY <1>3 DEF Unfiles, Handles, TablesTyped, Inv, TypeOK
<1>6. Hop(w, Idle)
  BY <1>3, <1>4, <1>5 DEF Unfiles, Handles, Hop, Inv, Callers
<1> QED
  BY <1>2, <1>6, HopKeeps

(* Cancel, and clear, up to where they change the job.                     *)
LEMMA AsksKeeps ==
    ASSUME Inv, NEW w \in Workers, NEW t \in Tasks, record[t] = "handled" \/ Sent(t),
           NEW c \in {Call("client", t), Settling(t, "canceled")},
           Go(w, c), UNCHANGED <<status, history, syncVars>>
    PROVE  Inv'
<1>1. Sent(t)
  BY DEF Inv, Callers
<1>2. c \in CallRecords /\ c.at \in {"client", "settle"} /\ c.task = t /\ c.task # NoTask
      /\ (c.at = "settle" => c.as = "canceled")
  BY CallTyped, SettlingTyped DEF Labels
<1>3. Fits(w, c)
  BY <1>1, <1>2 DEF Fits, Early, Late, After
<1>4. Hop(w, c)
  BY TablesKept, HandledKept DEF Hop, Inv, syncVars
<1> QED
  BY <1>3, <1>4, HopKeeps

LEMMA FindsClientKeeps ==
    ASSUME Inv, NEW w \in Workers, FindsClient(w) \/ Marks(w)
    PROVE  Inv'
<1>1. Task(w) \in Tasks
  BY ServedTask DEF Inv, FindsClient, Marks, At
<1>2. CASE FindsClient(w)
  <2>1. Fits(w, Call("mark", Task(w)))
    BY <1>1, <1>2, ServesFits DEF FindsClient, At, After, Labels
  <2>2. TablesTyped'
    BY <1>2 DEF FindsClient, Gets, TablesTyped, Inv, TypeOK
  <2> QED
    BY <1>2, <2>1, <2>2, HandledKept, HopKeeps DEF FindsClient, Hop
<1>3. CASE Marks(w)
  <2>1. Fits(w, Call("stop", Task(w)))
    BY <1>1, <1>3, ServesFits DEF Marks, At, After, Labels
  <2>2. TablesTyped'
    BY <1>1, <1>3 DEF Marks, TablesTyped, Inv, TypeOK
  <2> QED
    BY <1>3, <2>1, <2>2, HandledKept, HopKeeps DEF Marks, Hop
<1> QED
  BY <1>2, <1>3

LEMMA MissesClientKeeps ==
    ASSUME Inv, NEW w \in Workers, NEW c, MissesClient(w, c),
           c = Idle \/ \E t \in Tasks : Sent(t) /\ c = Settling(t, "canceled")
    PROVE  Inv'
<1>1. CASE c = Idle
  BY <1>1, IdleKeeps DEF MissesClient
<1>2. ASSUME NEW t \in Tasks, Sent(t), c = Settling(t, "canceled")
      PROVE  Inv'
  <2>1. Fits(w, c)
    BY <1>2, SettlingTyped DEF Fits, Early, Late, After
  <2>2. TablesTyped'
    BY FaultTyped DEF MissesClient, TablesTyped, Inv, TypeOK
  <2> QED
    BY <2>1, <2>2, HandledKept, HopKeeps DEF MissesClient, Hop
<1> QED
  BY <1>1, <1>2

LEMMA CollectsKeeps ==
    ASSUME Inv, NEW w \in Workers, Collects(w)
    PROVE  Inv'
<1> DEFINE ended == {t \in Tasks : status[t] \in Terminal}
           c == [Call("drop", NoTask) EXCEPT !.ids = ended]
<1>1. Go(w, c) /\ UNCHANGED <<status, history, syncVars>>
  BY DEF Collects, ClearCollect
<1>2. \A t \in ended : Sent(t)
  BY DEF Inv, Unsent, Terminal
<1>3. c \in CallRecords /\ c.at = "drop" /\ c.ids = ended
  BY DEF CallRecords, Call, Labels, Terminal
<1>4. Fits(w, c)
  BY <1>2, <1>3 DEF Fits, Early, Late, After
<1>5. Hop(w, c)
  BY <1>1, TablesKept, HandledKept DEF Hop, Inv, syncVars
<1> QED
  BY <1>4, <1>5, HopKeeps

------------------------------------------------------------------------------
(* Starting a job.                                                         *)
LEMMA CallsTyped ==
    ASSUME TypeOK, NEW w \in Workers, NEW c \in CallRecords, Go(w, c),
           c.task = NoTask => c.at \in {"idle", "drop"},
           status' \in [Tasks -> Statuses], history' \in [Tasks -> Seq(Terminal)]
    PROVE  JobsTypeOK(Labels)' /\ call'[w] = c /\ \A v \in Workers \ {w} : call'[v] = call[v]
BY GoTypes DEF TypeOK, JobsTypeOK, CallRecords

LEMMA StartsKeeps ==
    ASSUME Inv, NEW w \in Workers, NEW t \in Tasks, NEW k \in AllKinds, Starts(w, t, k)
    PROVE  Inv'
<1> DEFINE c == Call(IF k \in DirKinds THEN "mkdir" ELSE "list", t)
<1>1. /\ c \in CallRecords /\ c.at \in Early /\ c.task = t /\ c.task # NoTask
  BY CallTyped DEF Labels, Early
<1>2. /\ Go(w, c) /\ kind' = [kind EXCEPT ![t] = k] /\ status[t] = "new"
      /\ \A v \in Workers : Task(v) # t
      /\ UNCHANGED <<status, history, record, remote, poll, marked, source, client, rcd, faults>>
  BY DEF Starts
<1> HIDE DEF c
<1>3. /\ JobsTypeOK(Labels)' /\ call'[w] = c
      /\ \A v \in Workers \ {w} : call'[v] = call[v]
  <2>1. status' \in [Tasks -> Statuses] /\ history' \in [Tasks -> Seq(Terminal)]
    BY <1>2 DEF Inv, TypeOK, JobsTypeOK
  <2> QED
    BY <1>1, <1>2, <2>1, CallsTyped DEF Inv
<1>4. TypeOK'
  BY <1>2, <1>3 DEF Inv, TypeOK
<1>5. Starters'
  <2>1. \A v \in Workers : call'[v].at \in Early => status'[call'[v].task] = "new"
    BY <1>1, <1>2, <1>3 DEF Inv, Starters, Task
  <2>2. \A v \in Workers : call'[v].at \in Late =>
          status'[call'[v].task] = "queued" /\ remote'[call'[v].task].state = "none"
    BY <1>1, <1>2, <1>3 DEF Inv, Starters, Task, Sent, Early, Late
  <2>3. \A u, v \in Workers :
          /\ call'[u].at \in Early \cup Late /\ call'[v].at \in Early \cup Late
          /\ call'[u].task = call'[v].task
          => u = v
    BY <1>1, <1>2, <1>3 DEF Inv, Starters, Task
  <2> QED
    BY <2>1, <2>2, <2>3 DEF Starters, Task, Sent
<1>6. Callers'
  BY <1>1, <1>2, <1>3 DEF Inv, Callers, Task, Sent, Early, After
<1>7. Unsent' /\ Rowless'
  BY <1>2 DEF Inv, Unsent, Rowless, Sent
<1>8. ~remote[t].good /\ source[t]
  BY <1>2 DEF Inv, Unsent
<1>9. \A u \in Tasks \ {t} : kind'[u] = kind[u]
  BY <1>2 DEF Inv, TypeOK
<1>10. Truth' /\ MirrorIsTrue'
  BY <1>2, <1>8, <1>9 DEF Inv, Truth, MirrorIsTrue
<1> QED
  BY <1>4, <1>5, <1>6, <1>7, <1>10 DEF Inv

LEMMA ListsKeeps ==
    ASSUME Inv, NEW w \in Workers, Lists(w)
    PROVE  Inv'
<1> DEFINE t == Task(w)
           c == Call("file", Task(w))
<1>1. t \in Tasks
  BY ServedTask DEF Inv, Lists, At
<1>2. c \in CallRecords /\ c.at = "file" /\ c.task = t /\ c.task # NoTask
  BY <1>1, CallTyped DEF Labels
<1>3. /\ Go(w, c) /\ status' = [status EXCEPT ![t] = "queued"] /\ call[w].at = "list"
      /\ UNCHANGED <<history, kind, record, remote, poll, marked, source, client, rcd, faults>>
  BY DEF Lists, At, syncVars
<1>4. status[t] = "new" /\ ~Sent(t)
  BY <1>1, <1>3 DEF Inv, Starters, Early, Unsent
<1> HIDE DEF c
<1>5. /\ status' \in [Tasks -> Statuses] /\ status'[t] = "queued"
      /\ \A u \in Tasks \ {t} : status'[u] = status[u]
  BY <1>1, <1>3 DEF Inv, TypeOK, JobsTypeOK, Statuses, Live
<1>6. /\ JobsTypeOK(Labels)' /\ call'[w] = c
      /\ \A v \in Workers \ {w} : call'[v] = call[v]
  <2>1. history' \in [Tasks -> Seq(Terminal)]
    BY <1>3 DEF Inv, TypeOK, JobsTypeOK
  <2> QED
    BY <1>2, <1>3, <1>5, <2>1, CallsTyped DEF Inv
<1>7. TypeOK'
  BY <1>3, <1>6 DEF Inv, TypeOK
<1>8. \A v \in Workers \ {w} : call[v].at \in Early \cup Late => Task(v) # t
  BY <1>3 DEF Inv, Starters, Early
<1>9. Starters'
  <2>1. \A v \in Workers : call'[v].at \in Early => v # w
    BY <1>2, <1>6 DEF Early
  <2>2. \A v \in Workers : call'[v].at \in Early => status'[call'[v].task] = "new"
    <3> SUFFICES ASSUME NEW v \in Workers, call'[v].at \in Early
                 PROVE  status'[call'[v].task] = "new"
      OBVIOUS
    <3>1. v # w /\ call'[v] = call[v]
      BY <1>6, <2>1
    <3>2. Task(v) \in Tasks /\ status[Task(v)] = "new" /\ Task(v) # t
      BY <1>8, <3>1, ServedTask DEF Inv, Starters, Early
    <3> QED
      BY <1>5, <3>1, <3>2 DEF Task
  <2>3. \A v \in Workers : call'[v].at \in Late =>
          status'[call'[v].task] = "queued" /\ remote'[call'[v].task].state = "none"
    <3> SUFFICES ASSUME NEW v \in Workers, call'[v].at \in Late
                 PROVE  status'[call'[v].task] = "queued" /\ remote'[call'[v].task].state = "none"
      OBVIOUS
    <3>1. CASE v = w
      BY <1>2, <1>3, <1>4, <1>5, <1>6, <3>1 DEF Sent
    <3>2. CASE v # w
      <4>1. call'[v] = call[v]
        BY <1>6, <3>2
      <4>2. Task(v) \in Tasks /\ status[Task(v)] = "queued" /\ ~Sent(Task(v)) /\ Task(v) # t
        BY <1>8, <3>2, <4>1, ServedTask DEF Inv, Starters, Late
      <4> QED
        BY <1>3, <1>5, <4>1, <4>2 DEF Task, Sent
    <3> QED
      BY <3>1, <3>2
  <2>4. \A u, v \in Workers :
          /\ call'[u].at \in Early \cup Late /\ call'[v].at \in Early \cup Late
          /\ call'[u].task = call'[v].task
          => u = v
    BY <1>2, <1>6, <1>8 DEF Inv, Starters, Task
  <2> QED
    BY <2>2, <2>3, <2>4 DEF Starters, Task, Sent
<1>10. Callers'
  <2>1. \A v \in Workers : call'[v].at \in After \cup {"drop"} => v # w /\ call'[v] = call[v]
    BY <1>2, <1>6 DEF After
  <2>2. \A v \in Workers : call[v].at = "drop" => call[v].ids \subseteq Tasks \ {t}
    BY <1>4 DEF Inv, TypeOK, JobsTypeOK, Callers
  <2> QED
    BY <1>3, <1>5, <2>1, <2>2 DEF Inv, Callers, Task, Sent, After
<1>11. Unsent' /\ Rowless'
  BY <1>3, <1>4, <1>5 DEF Inv, Unsent, Rowless, Sent
<1>12. Truth' /\ MirrorIsTrue'
  BY <1>3, <1>5 DEF Inv, Truth, MirrorIsTrue
<1> QED
  BY <1>7, <1>9, <1>10, <1>11, <1>12 DEF Inv

------------------------------------------------------------------------------
(* Steps on jobs that are sent: no unsent job is touched, nobody starts.   *)
Quiet ==
    /\ \A t \in Tasks : Sent(t)' = Sent(t)
    /\ \A t \in Tasks : ~Sent(t) =>
          UNCHANGED <<status[t], poll[t].at, remote[t].good, source[t]>>
    /\ \A t \in Tasks : Sent(t) => status'[t] # "new" /\ poll'[t].at # "off"
    /\ \A t \in Tasks :
          status[t] \in Terminal \cup {"gone"} => status'[t] \in Terminal \cup {"gone"}
    /\ \A t \in Tasks : record'[t] = "handled" => record[t] = "handled"
    /\ \A t \in Tasks : history'[t] = <<>>
    /\ \A v \in Workers :
          \/ call'[v] = call[v]
          \/ call'[v].at = "idle"
          \/ call'[v].at = "settle" /\ call'[v].as = "canceled" /\ Sent(call'[v].task)
             /\ call'[v].task \in Tasks

LEMMA QuietKeeps ==
    ASSUME Inv, TypeOK', Quiet
    PROVE  Starters' /\ Callers' /\ Unsent' /\ Rowless'
<1>1. \A v \in Workers : call'[v].at \in Early \cup Late =>
        /\ call'[v] = call[v]
        /\ Task(v) \in Tasks /\ ~Sent(Task(v))
  <2> SUFFICES ASSUME NEW v \in Workers, call'[v].at \in Early \cup Late
               PROVE  call'[v] = call[v] /\ Task(v) \in Tasks /\ ~Sent(Task(v))
    OBVIOUS
  <2>1. call'[v] = call[v]
    BY DEF Quiet, Early, Late
  <2>2. Task(v) \in Tasks
    BY <2>1, ServedTask DEF Inv, Early, Late
  <2> QED
    BY <2>1, <2>2 DEF Inv, Starters, Unsent
<1>2. Starters'
  <2>1. \A v \in Workers : call'[v].at \in Early => status'[call'[v].task] = "new"
    BY <1>1 DEF Inv, Starters, Quiet, Task
  <2>2. \A v \in Workers : call'[v].at \in Late => status'[call'[v].task] = "queued"
    BY <1>1 DEF Inv, Starters, Quiet, Task
  <2>3. \A v \in Workers : call'[v].at \in Late => remote'[call'[v].task].state = "none"
    BY <1>1 DEF Quiet, Task, Sent
  <2>4. \A u, v \in Workers :
          /\ call'[u].at \in Early \cup Late /\ call'[v].at \in Early \cup Late
          /\ call'[u].task = call'[v].task
          => u = v
    BY <1>1 DEF Inv, Starters, Task
  <2> QED
    BY <2>1, <2>2, <2>3, <2>4 DEF Starters, Task, Sent
<1>3. Callers'
  <2>1. \A v \in Workers : call'[v].at \in After => remote'[call'[v].task].state # "none"
    <3> SUFFICES ASSUME NEW v \in Workers, call'[v].at \in After
                 PROVE  remote'[call'[v].task].state # "none"
      OBVIOUS
    <3>1. call'[v].task \in Tasks
      <4>1. call'[v] = call[v] => Task(v) \in Tasks
        BY ServedTask DEF Inv, After
      <4> QED
        BY <4>1 DEF Quiet, Task, After
    <3>2. Sent(call'[v].task)
      BY DEF Quiet, Inv, Callers, Task, After
    <3> QED
      BY <3>1, <3>2 DEF Quiet, Sent
  <2>2. \A v \in Workers : call'[v].at = "settle" => call'[v].as = "canceled"
    BY DEF Quiet, Inv, Callers
  <2>3. \A v \in Workers : call'[v].at = "drop" =>
          \A t \in call'[v].ids : Sent(t)' /\ status'[t] \in Terminal \cup {"gone"}
    <3> SUFFICES ASSUME NEW v \in Workers, call'[v].at = "drop", NEW t \in call'[v].ids
                 PROVE  Sent(t)' /\ status'[t] \in Terminal \cup {"gone"}
      OBVIOUS
    <3>1. call'[v] = call[v]
      BY DEF Quiet
    <3>2. t \in Tasks
      BY <3>1 DEF Inv, TypeOK, JobsTypeOK
    <3> QED
      BY <3>1, <3>2 DEF Quiet, Inv, Callers
  <2>4. \A t \in Tasks : record'[t] = "handled" => Sent(t)'
    BY DEF Quiet, Inv, Callers
  <2> QED
    BY <2>1, <2>2, <2>3, <2>4 DEF Callers, Task, Sent
<1>4. Unsent'
  <2>1. \A t \in Tasks : ~Sent(t)' =>
          /\ status'[t] \in {"new", "queued", "gone"}
          /\ poll'[t].at = "off" /\ ~remote'[t].good /\ source'[t]
    BY DEF Inv, Unsent, Quiet
  <2>2. \A t \in Tasks : Sent(t)' => status'[t] # "new" /\ poll'[t].at # "off"
    BY DEF Quiet
  <2> QED
    BY <2>1, <2>2 DEF Unsent, Sent
<1>5. Rowless'
  BY DEF Quiet, Rowless
<1> QED
  BY <1>2, <1>3, <1>4, <1>5

LEMMA PollTypes ==
    ASSUME TypeOK, NEW t \in Tasks,
           \/ \E label \in {"sleep", "stats", "status", "purge"} : PollTo(t, label)
           \/ PollOver(t)
           \/ \E verdict \in Terminal : PollEnds(t, verdict)
           \/ poll' = [poll EXCEPT ![t].at = "sleep", ![t].errors = 0]
           \/ /\ poll' = [poll EXCEPT ![t].at = "sleep", ![t].errors = @ + 1]
              /\ ~TooMany(poll[t].errors + 1)
    PROVE  /\ poll' \in [Tasks -> PollRecords]
           /\ poll'[t].at # "off"
           /\ \A u \in Tasks \ {t} : poll'[u] = poll[u]
<1>1. poll \in [Tasks -> PollRecords]
  BY DEF TypeOK, PollRecords
<1>2. 0 \in 0..(MaxErrors - 1) /\ "failed" \in Terminal
  BY SyncAssumption DEF Terminal
<1>3. CASE \E label \in {"sleep", "stats", "status", "purge"} : PollTo(t, label)
  BY <1>1, <1>3 DEF PollTo, PollRecords
<1>4. CASE PollOver(t)
  BY <1>1, <1>2, <1>4 DEF PollOver, NotPolled, PollRecords
<1>5. CASE \E verdict \in Terminal : PollEnds(t, verdict)
  BY <1>1, <1>2, <1>5 DEF PollEnds, PollRecords
<1>6. CASE poll' = [poll EXCEPT ![t].at = "sleep", ![t].errors = 0]
  BY <1>1, <1>2, <1>6 DEF PollRecords
<1>7. CASE /\ poll' = [poll EXCEPT ![t].at = "sleep", ![t].errors = @ + 1]
           /\ ~TooMany(poll[t].errors + 1)
  <2>1. poll[t].errors + 1 \in 0..(MaxErrors - 1)
    BY <1>1, <1>7, SyncAssumption DEF PollRecords, TooMany
  <2> QED
    BY <1>1, <1>7, <2>1 DEF PollRecords
<1> QED
  BY <1>3, <1>4, <1>5, <1>6, <1>7

(* A poller has a job that is sent.                                        *)
LEMMA PolledIsSent ==
    ASSUME Inv, NEW t \in Tasks, poll[t].at # "off"
    PROVE  Sent(t)
BY DEF Inv, Unsent

(* A step of a poller that leaves the mirror alone.                        *)
LEMMA PollKeeps ==
    ASSUME Inv, NEW t \in Tasks, poll[t].at # "off",
           poll' \in [Tasks -> PollRecords], poll'[t].at # "off",
           \A u \in Tasks \ {t} : poll'[u] = poll[u],
           UNCHANGED <<history, call, kind, record, remote, source, client, rcd>>,
           status' \in [Tasks -> Statuses], \A u \in Tasks \ {t} : status'[u] = status[u],
           status'[t] = status[t] \/ (status[t] \in Live /\ status'[t] \in Live \cup Terminal),
           status'[t] = "completed" => remote[t].good,
           marked' \subseteq Tasks, faults' \in 0..MaxFaults,
           poll'[t].verdict = "completed" => remote[t].good,
           poll'[t].at = "purge" => remote[t].good /\ kind[t] = "move"
    PROVE  Inv'
<1>1. TypeOK'
  BY DEF Inv, TypeOK, JobsTypeOK, PollRecords, Task
<1>2. Sent(t) /\ status[t] # "new"
  BY PolledIsSent DEF Inv, Unsent
<1>3. \A u \in Tasks : Sent(u)' = Sent(u)
  BY DEF Sent
<1>4. Quiet
  BY <1>2, <1>3 DEF Quiet, Inv, Unsent, Rowless, Live, Terminal
<1>5. Truth'
  BY DEF Inv, Truth
<1>6. MirrorIsTrue'
  BY DEF Inv, MirrorIsTrue
<1> QED
  BY <1>1, <1>4, <1>5, <1>6, QuietKeeps DEF Inv

LEMMA WakesKeeps ==
    ASSUME Inv, NEW t \in Tasks, Wakes(t)
    PROVE  Inv'
<1>1. CASE t \in marked
  <2>1. PollEnds(t, "canceled")
    BY <1>1 DEF Wakes
  <2>2. poll'[t].verdict = "canceled" /\ poll'[t].at = "ending"
    BY <2>1 DEF PollEnds, Inv, TypeOK
  <2> QED
    BY <2>1, <2>2, PollTypes, PollKeeps 
    DEF Wakes, Inv, TypeOK, JobsTypeOK, MirrorIsTrue, jobVars, Terminal
<1>2. CASE t \notin marked
  <2>1. PollTo(t, "stats")
    BY <1>2 DEF Wakes
  <2>2. poll'[t].verdict = poll[t].verdict /\ poll'[t].at = "stats"
    BY <2>1 DEF PollTo, Inv, TypeOK
  <2>3. poll'[t].verdict = "completed" => remote[t].good
    BY <2>2 DEF Inv, Truth
  <2> QED
    BY <2>1, <2>2, <2>3, PollTypes, PollKeeps
    DEF Wakes, Inv, TypeOK, JobsTypeOK, MirrorIsTrue, jobVars
<1> QED
  BY <1>1, <1>2

LEMMA ReadsStatsKeeps ==
    ASSUME Inv, NEW t \in Tasks, ReadsStats(t)
    PROVE  Inv'
<1>1. PollTo(t, "status")
  BY DEF ReadsStats
<1>2. poll'[t].verdict = poll[t].verdict /\ poll'[t].at = "status"
  BY <1>1 DEF PollTo, Inv, TypeOK
<1>3. poll'[t].verdict = "completed" => remote[t].good
  BY <1>2 DEF Inv, Truth
<1>4. /\ status' \in [Tasks -> Statuses] /\ \A u \in Tasks \ {t} : status'[u] = status[u]
      /\ status'[t] = status[t] \/ (status[t] = "queued" /\ status'[t] = "running")
  BY DEF ReadsStats, Progresses, MarkRunning, Inv, TypeOK, JobsTypeOK, Statuses, Live
<1>5. status'[t] = "completed" => remote[t].good
  BY <1>4 DEF Inv, MirrorIsTrue
<1> QED
  BY <1>1, <1>2, <1>3, <1>4, <1>5, PollTypes, PollKeeps DEF ReadsStats, Inv, TypeOK, Live, Terminal

LEMMA ReadsStatusKeeps ==
    ASSUME Inv, NEW t \in Tasks, ReadsStatus(t)
    PROVE  Inv'
<1> USE DEF jobVars
<1>1. CASE Runs(t)
  <2>1. poll' = [poll EXCEPT ![t].at = "sleep", ![t].errors = 0]
    BY <1>1 DEF ReadsStatus
  <2>2. poll'[t].verdict = poll[t].verdict /\ poll'[t].at = "sleep"
    BY <2>1 DEF Inv, TypeOK
  <2>3. poll'[t].verdict = "completed" => remote[t].good
    BY <2>2 DEF Inv, Truth
  <2> QED
    BY <2>1, <2>2, <2>3, PollTypes, PollKeeps
    DEF ReadsStatus, Inv, TypeOK, JobsTypeOK, MirrorIsTrue
<1>2. CASE ~Runs(t)
  <2>1. PollEnds(t, Found(remote[t].state)) /\ Found(remote[t].state) \in Terminal
    BY <1>2 DEF ReadsStatus, Found, Terminal
  <2>2. poll'[t].verdict = Found(remote[t].state) /\ poll'[t].at = "ending"
    BY <2>1 DEF PollEnds, Inv, TypeOK
  <2>3. poll'[t].verdict = "completed" => remote[t].good
    BY <2>2 DEF Inv, Truth, Found
  <2> QED
    BY <2>1, <2>2, <2>3, PollTypes, PollKeeps
    DEF ReadsStatus, Inv, TypeOK, JobsTypeOK, MirrorIsTrue
<1> QED
  BY <1>1, <1>2

LEMMA PollFailsKeeps ==
    ASSUME Inv, NEW t \in Tasks, PollFails(t)
    PROVE  Inv'
<1> USE DEF jobVars
<1>1. faults' \in 0..MaxFaults
  BY FaultTyped DEF PollFails, Inv
<1>2. CASE /\ poll' = [poll EXCEPT ![t].at = "sleep", ![t].errors = @ + 1]
           /\ ~TooMany(poll[t].errors + 1)
  <2>1. poll'[t].verdict = poll[t].verdict /\ poll'[t].at = "sleep"
    BY <1>2 DEF Inv, TypeOK
  <2>2. poll'[t].verdict = "completed" => remote[t].good
    BY <2>1 DEF Inv, Truth
  <2> QED
    BY <1>1, <1>2, <2>1, <2>2, PollTypes, PollKeeps
    DEF PollFails, Inv, TypeOK, JobsTypeOK, MirrorIsTrue
<1>3. CASE PollEnds(t, "failed")
  <2>1. poll'[t].verdict = "failed" /\ poll'[t].at = "ending"
    BY <1>3 DEF PollEnds, Inv, TypeOK
  <2> QED
    BY ZenonT(60), <1>1, <1>3, <2>1, PollTypes, PollKeeps
    DEF PollFails, Inv, TypeOK, JobsTypeOK, MirrorIsTrue, Terminal
<1> QED
  BY <1>2, <1>3 DEF PollFails

LEMMA EmitsKeeps ==
    ASSUME Inv, NEW t \in Tasks, Emits(t)
    PROVE  Inv'
<1>1. poll[t].verdict \in Terminal /\ Complete(t, poll[t].verdict)
  BY DEF Emits, Inv, TypeOK
<1>2. /\ status' \in [Tasks -> Statuses] /\ \A u \in Tasks \ {t} : status'[u] = status[u]
      /\ status'[t] = status[t] \/ (status[t] \in Live /\ status'[t] = poll[t].verdict)
  BY <1>1, CompleteEffect DEF Inv, TypeOK, JobsTypeOK
<1>3. status'[t] = "completed" => remote[t].good
  BY <1>2 DEF Inv, Truth, MirrorIsTrue
<1>4. CASE kind[t] = "move" /\ poll[t].verdict = "completed"
  <2>1. PollTo(t, "purge")
    BY <1>4 DEF Emits
  <2>2. poll'[t].verdict = poll[t].verdict /\ poll'[t].at = "purge"
    BY <2>1 DEF PollTo, Inv, TypeOK
  <2>3. remote[t].good
    BY <1>4 DEF Inv, Truth
  <2> QED
    BY <1>1, <1>2, <1>3, <1>4, <2>1, <2>2, <2>3, PollTypes, PollKeeps DEF Emits, Inv, TypeOK
<1>5. CASE ~(kind[t] = "move" /\ poll[t].verdict = "completed")
  <2>1. PollOver(t)
    BY <1>5 DEF Emits
  <2>2. poll'[t].verdict = "failed" /\ poll'[t].at = "over"
    BY <2>1 DEF PollOver, NotPolled, Inv, TypeOK
  <2> QED
    BY <1>1, <1>2, <1>3, <2>1, <2>2, PollTypes, PollKeeps DEF Emits, Inv, TypeOK
<1> QED
  BY <1>4, <1>5

(* The source of a move goes when rclone has moved all of it.              *)
LEMMA PurgesKeeps ==
    ASSUME Inv, NEW t \in Tasks, Purges(t)
    PROVE  Inv'
<1>1. /\ poll[t].at = "purge" /\ PollOver(t)
      /\ UNCHANGED <<jobVars, kind, record, remote, marked, client, rcd>>
      /\ source' = [source EXCEPT ![t] = FALSE] \/ UNCHANGED source
  BY DEF Purges
<1>2. Sent(t) /\ remote[t].good /\ kind[t] = "move"
  BY <1>1, PolledIsSent DEF Inv, Truth
<1>3. /\ poll' \in [Tasks -> PollRecords] /\ poll'[t].at = "over" /\ poll'[t].verdict = "failed"
      /\ \A u \in Tasks \ {t} : poll'[u] = poll[u]
  BY <1>1, PollTypes DEF PollOver, NotPolled, Inv, TypeOK
<1>4. source' \in [Tasks -> BOOLEAN] /\ \A u \in Tasks \ {t} : source'[u] = source[u]
  BY <1>1 DEF Inv, TypeOK
<1>5. faults' \in 0..MaxFaults
  BY FaultTyped DEF Purges, Inv
<1>6. TypeOK'
  BY <1>1, <1>3, <1>4, <1>5 DEF Inv, TypeOK, JobsTypeOK, PollRecords, jobVars, Task
<1>7. \A u \in Tasks : Sent(u)' = Sent(u)
  BY <1>1 DEF Sent
<1>8. Quiet
  BY <1>1, <1>2, <1>3, <1>4, <1>7 DEF Quiet, Inv, Unsent, Rowless, jobVars
<1>9. Truth'
  BY <1>1, <1>3 DEF Inv, Truth
<1>10. MirrorIsTrue'
  BY <1>1, <1>2, <1>4 DEF Inv, MirrorIsTrue, jobVars
<1> QED
  BY <1>6, <1>8, <1>9, <1>10, QuietKeeps DEF Inv

------------------------------------------------------------------------------
(* What rclone does to its jobs, and a handler that stops one.             *)
LEMMA RemoteKeeps ==
    ASSUME Inv, remote' \in [Tasks -> RemoteRecords], rcd' = rcd,
           \A t \in Tasks :
              \/ remote'[t] = remote[t]
              \/ /\ remote[t].state = "running" \/ remote'[t].state = "expired"
                 /\ remote[t].state \in {"running", "succeeded", "failed"}
                 /\ remote'[t].state # "none"
                 /\ remote[t].good => remote'[t].good
                 /\ remote'[t].good => remote'[t].state \in {"succeeded", "expired"}
                 /\ remote'[t].state = "succeeded" => remote'[t].good,
           UNCHANGED <<status, history, kind, record, poll, marked, source>>,
           JobsTypeOK(Labels)', client' \in [Workers -> 0..rcd], faults' \in 0..MaxFaults,
           \A v \in Workers :
              \/ call'[v] = call[v]
              \/ /\ call'[v].at = "settle" /\ call'[v].as = "canceled"
                 /\ Sent(call'[v].task) /\ call'[v].task \in Tasks
    PROVE  Inv'
<1>1. TypeOK'
  BY DEF Inv, TypeOK, RemoteRecords
<1>2. /\ \A t \in Tasks : Sent(t)' = Sent(t)
      /\ \A t \in Tasks : ~Sent(t) => remote'[t] = remote[t]
  BY DEF Sent
<1>3. Quiet
  BY <1>2 DEF Quiet, Inv, Unsent, Rowless
<1>4. Truth'
  BY DEF Inv, Truth
<1>5. MirrorIsTrue'
  BY DEF Inv, MirrorIsTrue, Truth
<1> QED
  BY <1>1, <1>3, <1>4, <1>5, QuietKeeps DEF Inv

LEMMA RemoteEndsKeeps ==
    ASSUME Inv, NEW t \in Tasks, RemoteEnds(t)
    PROVE  Inv'
<1>1. PICK good \in BOOLEAN :
        remote' = [remote EXCEPT ![t].good = good,
                                 ![t].state = IF good THEN "succeeded" ELSE "failed"]
  BY DEF RemoteEnds
<1>2. /\ remote' \in [Tasks -> RemoteRecords] /\ remote'[t].good = good
      /\ remote'[t].state = IF good THEN "succeeded" ELSE "failed"
      /\ \A u \in Tasks \ {t} : remote'[u] = remote[u]
  BY ZenonT(60), <1>1 DEF Inv, TypeOK, RemoteRecords
<1>3. remote[t].state = "running" /\ ~remote[t].good
  BY DEF RemoteEnds, Runs, Inv, Truth
<1>4. /\ UNCHANGED <<status, history, call, kind, record, poll, marked, source, client, rcd, faults>>
  BY DEF RemoteEnds, jobVars
<1>5. /\ JobsTypeOK(Labels)' /\ client' \in [Workers -> 0..rcd] /\ faults' \in 0..MaxFaults
  BY <1>4 DEF Inv, TypeOK, JobsTypeOK, Task
<1> QED
  BY <1>2, <1>3, <1>4, <1>5, RemoteKeeps

LEMMA RemoteExpiresKeeps ==
    ASSUME Inv, NEW t \in Tasks, RemoteExpires(t)
    PROVE  Inv'
<1>1. /\ remote' = [remote EXCEPT ![t].state = "expired"]
      /\ remote[t].state \in {"succeeded", "failed"}
      /\ UNCHANGED <<status, history, call, kind, record, poll, marked, source, client, rcd>>
  BY DEF RemoteExpires, jobVars
<1>2. /\ remote' \in [Tasks -> RemoteRecords] /\ remote'[t].good = remote[t].good
      /\ remote'[t].state = "expired"
      /\ \A u \in Tasks \ {t} : remote'[u] = remote[u]
  BY SMTT(40), <1>1 DEF Inv, TypeOK, RemoteRecords
<1>3. /\ JobsTypeOK(Labels)' /\ client' \in [Workers -> 0..rcd] /\ faults' \in 0..MaxFaults
  BY <1>1, FaultTyped DEF RemoteExpires, Inv, TypeOK, JobsTypeOK, Task
<1> QED
  BY <1>1, <1>2, <1>3, RemoteKeeps

LEMMA StopsKeeps ==
    ASSUME Inv, NEW w \in Workers, Stops(w)
    PROVE  Inv'
<1>1. Task(w) \in Tasks /\ Sent(Task(w))
  BY ServedTask DEF Stops, At, Inv, Callers, After
<1> DEFINE c == Settling(Task(w), "canceled")
<1>2. c \in CallRecords /\ c.at = "settle" /\ c.as = "canceled" /\ c.task = Task(w) /\ c.task # NoTask
  BY <1>1, SettlingTyped
<1>3. /\ Go(w, c) /\ LetsGo(w)
      /\ UNCHANGED <<status, history, kind, record, poll, marked, source, rcd>>
  BY DEF Stops
<1> HIDE DEF c
<1>4. /\ JobsTypeOK(Labels)' /\ call'[w] = c
      /\ \A v \in Workers \ {w} : call'[v] = call[v]
  <2>1. status' \in [Tasks -> Statuses] /\ history' \in [Tasks -> Seq(Terminal)]
    BY <1>3 DEF Inv, TypeOK, JobsTypeOK
  <2> QED
    BY <1>2, <1>3, <2>1, CallsTyped DEF Inv
<1>5. client' \in [Workers -> 0..rcd]
  BY <1>3 DEF LetsGo, Inv, TypeOK
<1>6. faults' \in 0..MaxFaults
  BY FaultTyped DEF Stops, Inv
<1>7. /\ remote' \in [Tasks -> RemoteRecords]
      /\ \A t \in Tasks :
            \/ remote'[t] = remote[t]
            \/ remote[t].state = "running" /\ remote'[t].state = "failed"
               /\ remote'[t].good = remote[t].good
  <2>1. remote \in [Tasks -> RemoteRecords]
    BY DEF Inv, TypeOK, RemoteRecords
  <2>2. CASE UNCHANGED remote
    BY <2>1, <2>2 DEF RemoteRecords
  <2>3. CASE remote' = [s \in Tasks |-> IF Stopped(w, s) THEN [remote[s] EXCEPT !.state = "failed"]
                                        ELSE remote[s]]
    BY <2>1, <2>3 DEF RemoteRecords, Stopped, Runs
  <2> QED
    BY <2>2, <2>3 DEF Stops
<1>8. \A t \in Tasks : remote[t].state = "running" => ~remote[t].good
  BY DEF Inv, Truth
<1> QED
  BY <1>1, <1>2, <1>3, <1>4, <1>5, <1>6, <1>7, <1>8, RemoteKeeps

LEMMA CrashesKeeps ==
    ASSUME Inv, Crashes
    PROVE  Inv'
<1>1. UNCHANGED <<status, history, call, kind, record, remote, poll, marked, source, client>>
      /\ rcd' = rcd + 1
  BY DEF Crashes, jobVars
<1>2. faults' \in 0..MaxFaults
  BY FaultTyped DEF Crashes, Inv
<1>3. rcd \in Nat \ {0} /\ rcd' \in Nat \ {0} /\ 0..rcd \subseteq 0..rcd'
  BY <1>1 DEF Inv, TypeOK
<1>4. TypeOK'
  BY <1>1, <1>2, <1>3 DEF Inv, TypeOK, JobsTypeOK, Task
<1>5. \A t \in Tasks : Sent(t)' = Sent(t)
  BY <1>1 DEF Sent
<1>6. Quiet
  BY <1>1, <1>5 DEF Quiet, Inv, Unsent, Rowless
<1>7. Truth' /\ MirrorIsTrue'
  BY <1>1 DEF Inv, Truth, MirrorIsTrue
<1> QED
  BY <1>4, <1>6, <1>7, QuietKeeps DEF Inv

------------------------------------------------------------------------------
(* Settling by a cancel, and removal, change the mirror of sent jobs.      *)
LEMMA MirrorKeeps ==
    ASSUME Inv, JobsTypeOK(Labels)', record' \in [Tasks -> {"none", "bare", "handled"}],
           UNCHANGED <<kind, remote, poll, marked, source, client, rcd, faults>>,
           \A t \in Tasks :
              \/ status'[t] = status[t]
              \/ Sent(t) /\ status[t] # "gone" /\ status'[t] \in {"canceled", "gone"},
           \A t \in Tasks : record'[t] = "handled" => record[t] = "handled",
           \A t \in Tasks : history'[t] = <<>>,
           \A v \in Workers : call'[v] = call[v] \/ call'[v].at = "idle"
    PROVE  Inv'
<1>1. TypeOK'
  BY DEF Inv, TypeOK
<1>2. \A t \in Tasks : Sent(t)' = Sent(t)
  BY DEF Sent
<1>3. Quiet
  BY <1>2 DEF Quiet, Inv, Unsent, Terminal
<1>4. Truth' /\ MirrorIsTrue'
  BY DEF Inv, Truth, MirrorIsTrue
<1> QED
  BY <1>1, <1>3, <1>4, QuietKeeps DEF Inv

LEMMA SettlesSyncKeeps ==
    ASSUME Inv, NEW w \in Workers, SettlesSync(w)
    PROVE  Inv'
<1>1. Task(w) \in Tasks /\ Sent(Task(w)) /\ call[w].as = "canceled"
  BY ServedTask DEF SettlesSync, At, Inv, Callers, After
<1>2. Complete(Task(w), "canceled") /\ Go(w, Idle) /\ UNCHANGED <<history, syncVars>>
  BY <1>1 DEF SettlesSync
<1>3. /\ status' \in [Tasks -> Statuses]
      /\ \A t \in Tasks \ {Task(w)} : status'[t] = status[t]
      /\ \/ status'[Task(w)] = status[Task(w)]
         \/ status[Task(w)] \in Live /\ status'[Task(w)] = "canceled"
  BY <1>1, <1>2, CompleteEffect DEF Inv, TypeOK, JobsTypeOK, Terminal
<1>4. /\ JobsTypeOK(Labels)' /\ call'[w] = Idle
      /\ \A v \in Workers \ {w} : call'[v] = call[v]
  <2>1. history' \in [Tasks -> Seq(Terminal)]
    BY <1>2 DEF Inv, TypeOK, JobsTypeOK
  <2> QED
    BY <1>2, <1>3, <2>1, IdleTyped, CallsTyped DEF Inv
<1>5. \A v \in Workers : call'[v] = call[v] \/ call'[v].at = "idle"
  BY <1>4, IdleTyped
<1>6. \A t \in Tasks :
        \/ status'[t] = status[t]
        \/ Sent(t) /\ status[t] # "gone" /\ status'[t] \in {"canceled", "gone"}
  BY <1>1, <1>3 DEF Live
<1> QED
  BY <1>2, <1>4, <1>5, <1>6, MirrorKeeps DEF syncVars, Inv, TypeOK, Rowless

LEMMA RemoveEffect ==
    ASSUME Inv, NEW ids \in SUBSET Tasks, Remove(ids)
    PROVE  /\ status' \in [Tasks -> Statuses] /\ history' \in [Tasks -> Seq(Terminal)]
           /\ \A t \in Tasks : status'[t] = IF t \in ids THEN "gone" ELSE status[t]
           /\ \A t \in Tasks : history'[t] = <<>>
<1>1. PICK stuck \in SUBSET ids :
        /\ status' = [t \in Tasks |-> IF t \in ids THEN "gone" ELSE status[t]]
        /\ history' = [t \in Tasks |->
                         IF t \in ids \ stuck /\ status[t] # "gone" THEN <<>> ELSE history[t]]
  BY DEF Remove
<1>2. \A t \in Tasks : history'[t] = <<>>
  BY <1>1 DEF Inv, Rowless
<1>3. history' \in [Tasks -> Seq(Terminal)]
  <2>1. <<>> \in Seq(Terminal)
    OBVIOUS
  <2>2. history' = [t \in Tasks |-> <<>>]
    BY <1>1 DEF Inv, Rowless
  <2> QED
    BY <2>1, <2>2
<1> QED
  BY <1>1, <1>2, <1>3 DEF Inv, TypeOK, JobsTypeOK, Statuses

LEMMA ClearsKeeps ==
    ASSUME Inv, NEW w \in Workers, Clears(w)
    PROVE  Inv'
<1>1. /\ call[w].at = "drop" /\ Remove(call[w].ids) /\ Go(w, Idle)
      /\ Drops(call[w].ids) /\ Rest
  BY DEF Clears, ClearDrop, At
<1>2. call[w].ids \in SUBSET Tasks
  BY DEF Inv, TypeOK, JobsTypeOK
<1>3. /\ status' \in [Tasks -> Statuses] /\ history' \in [Tasks -> Seq(Terminal)]
      /\ \A t \in Tasks : status'[t] = IF t \in call[w].ids THEN "gone" ELSE status[t]
      /\ \A t \in Tasks : history'[t] = <<>>
  BY <1>1, <1>2, RemoveEffect
<1>4. /\ JobsTypeOK(Labels)' /\ call'[w] = Idle
      /\ \A v \in Workers \ {w} : call'[v] = call[v]
  BY <1>1, <1>3, IdleTyped, CallsTyped DEF Inv
<1>5. \A t \in Tasks :
        \/ status'[t] = status[t]
        \/ Sent(t) /\ status[t] # "gone" /\ status'[t] \in {"canceled", "gone"}
  BY <1>1, <1>3 DEF Inv, Callers
<1>6. record' \in [Tasks -> {"none", "bare", "handled"}]
      /\ \A t \in Tasks : record'[t] = "handled" => record[t] = "handled"
  BY <1>1 DEF Drops, Inv, TypeOK
<1> QED
  BY <1>1, <1>3, <1>4, <1>5, <1>6, IdleTyped, MirrorKeeps DEF Rest

LEMMA DeletesKeeps ==
    ASSUME Inv, NEW w \in Workers, NEW t \in Tasks, Deletes(w, t)
    PROVE  Inv'
<1>1. /\ status[t] \in Terminal /\ Remove({t}) /\ UNCHANGED call /\ Drops({t}) /\ Rest
  BY DEF Deletes, Delete
<1>2. /\ status' \in [Tasks -> Statuses] /\ history' \in [Tasks -> Seq(Terminal)]
      /\ \A u \in Tasks : status'[u] = IF u \in {t} THEN "gone" ELSE status[u]
      /\ \A u \in Tasks : history'[u] = <<>>
  BY <1>1, RemoveEffect
<1>3. JobsTypeOK(Labels)'
  BY <1>1, <1>2 DEF Inv, TypeOK, JobsTypeOK, Task
<1>4. Sent(t) /\ status[t] # "gone"
  BY <1>1 DEF Inv, Unsent, Terminal
<1>5. \A u \in Tasks :
        \/ status'[u] = status[u]
        \/ Sent(u) /\ status[u] # "gone" /\ status'[u] \in {"canceled", "gone"}
  BY <1>2, <1>4
<1>6. record' \in [Tasks -> {"none", "bare", "handled"}]
      /\ \A u \in Tasks : record'[u] = "handled" => record[u] = "handled"
  BY <1>1 DEF Drops, Inv, TypeOK
<1> QED
  BY <1>1, <1>2, <1>3, <1>5, <1>6, MirrorKeeps DEF Rest

------------------------------------------------------------------------------
(* rclone takes the job of a starter, or refuses it.                       *)
LEMMA StarterLeaves ==
    ASSUME Inv, NEW w \in Workers, call[w].at = "submit", NEW t \in Tasks, t = Task(w),
           \A v \in Workers \ {w} : call'[v] = call[v],
           call'[w].at \in {"handle", "unfile"}, call'[w].task = t,
           \A u \in Tasks \ {t} : status'[u] = status[u] /\ remote'[u] = remote[u]
    PROVE  /\ Starters'
           /\ \A v \in Workers : call'[v].at \in After /\ v # w => Task(v) # t /\ Task(v) \in Tasks
           /\ \A v \in Workers : call'[v].at = "drop" =>
                 call'[v] = call[v] /\ call[v].ids \subseteq Tasks \ {t}
<1>1. ~Sent(t)
  BY DEF Inv, Starters, Late
<1>2. \A v \in Workers : call'[v].at \in Early \cup Late =>
        v # w /\ call'[v] = call[v] /\ Task(v) \in Tasks \ {t}
  <2> SUFFICES ASSUME NEW v \in Workers, call'[v].at \in Early \cup Late
               PROVE  v # w /\ call'[v] = call[v] /\ Task(v) \in Tasks \ {t}
    OBVIOUS
  <2>1. v # w /\ call'[v] = call[v]
    BY DEF Early, Late
  <2>2. Task(v) \in Tasks
    BY <2>1, ServedTask DEF Inv, Early, Late
  <2>3. Task(v) # t
    BY <2>1 DEF Inv, Starters, Late
  <2> QED
    BY <2>1, <2>2, <2>3
<1>3. Starters'
  <2>1. \A v \in Workers : call'[v].at \in Early => status'[call'[v].task] = "new"
    BY <1>2 DEF Inv, Starters, Task
  <2>2. \A v \in Workers : call'[v].at \in Late =>
          status'[call'[v].task] = "queued" /\ remote'[call'[v].task].state = "none"
    BY <1>2 DEF Inv, Starters, Task, Sent
  <2>3. \A u, v \in Workers :
          /\ call'[u].at \in Early \cup Late /\ call'[v].at \in Early \cup Late
          /\ call'[u].task = call'[v].task
          => u = v
    BY <1>2 DEF Inv, Starters, Task
  <2> QED
    BY <2>1, <2>2, <2>3 DEF Starters, Task, Sent
<1>4. ASSUME NEW v \in Workers, call'[v].at \in After, v # w
      PROVE  Task(v) # t /\ Task(v) \in Tasks
  <2>1. call'[v] = call[v]
    BY <1>4
  <2>2. Task(v) \in Tasks
    BY <1>4, <2>1, ServedTask DEF Inv, After
  <2> QED
    BY <1>1, <1>4, <2>1, <2>2 DEF Inv, Callers, After
<1>5. ASSUME NEW v \in Workers, call'[v].at = "drop"
      PROVE  call'[v] = call[v] /\ call[v].ids \subseteq Tasks \ {t}
  <2>1. call'[v] = call[v]
    BY <1>5
  <2> QED
    BY <1>1, <1>5, <2>1 DEF Inv, Callers, TypeOK, JobsTypeOK
<1> QED
  BY <1>3, <1>4, <1>5

LEMMA SubmitsKeeps ==
    ASSUME Inv, NEW w \in Workers, Submits(w)
    PROVE  Inv'
<1> DEFINE t == Task(w)
           c == Call("handle", Task(w))
<1>1. t \in Tasks /\ call[w].at = "submit"
  BY ServedTask DEF Inv, Submits, At
<1>2. c \in CallRecords /\ c.at = "handle" /\ c.task = t /\ c.task # NoTask
  BY <1>1, CallTyped DEF Labels
<1>3. PICK id \in 1..Cardinality(Tasks) :
        remote' = [remote EXCEPT ![t] = [NotSubmitted EXCEPT !.state = "running", !.rcd = rcd,
                                                             !.id = id]]
  BY DEF Submits
<1>4. /\ Go(w, c) /\ poll' = [poll EXCEPT ![t].at = "sleep"] /\ LetsGo(w)
      /\ marked' = marked \ {t}
      /\ UNCHANGED <<status, history, kind, record, source, rcd, faults>>
  BY DEF Submits
<1>5. status[t] = "queued" /\ ~Sent(t) /\ source[t] /\ ~remote[t].good
  BY <1>1 DEF Inv, Starters, Late, Unsent
<1> HIDE DEF c
<1>6. /\ remote' \in [Tasks -> RemoteRecords]
      /\ remote'[t].state = "running" /\ ~remote'[t].good
      /\ \A u \in Tasks \ {t} : remote'[u] = remote[u]
  <2>1. id \in Nat /\ rcd \in 0..rcd /\ rcd' = rcd
    BY <1>4 DEF Inv, TypeOK
  <2> QED
    BY <1>1, <1>3, <2>1 DEF Inv, TypeOK, RemoteRecords, NotSubmitted
<1>7. /\ poll' \in [Tasks -> PollRecords] /\ poll'[t].at = "sleep"
      /\ poll'[t].verdict = poll[t].verdict
      /\ \A u \in Tasks \ {t} : poll'[u] = poll[u]
  BY <1>1, <1>4 DEF Inv, TypeOK, PollRecords
<1>8. /\ JobsTypeOK(Labels)' /\ call'[w] = c
      /\ \A v \in Workers \ {w} : call'[v] = call[v]
  <2>1. status' \in [Tasks -> Statuses] /\ history' \in [Tasks -> Seq(Terminal)]
    BY <1>4 DEF Inv, TypeOK, JobsTypeOK
  <2> QED
    BY <1>2, <1>4, <2>1, CallsTyped DEF Inv
<1>9. client' \in [Workers -> 0..rcd]
  BY <1>4 DEF LetsGo, Inv, TypeOK
<1>10. TypeOK'
  BY <1>4, <1>6, <1>7, <1>8, <1>9 DEF Inv, TypeOK, RemoteRecords, PollRecords
<1>11. /\ Starters'
       /\ \A v \in Workers : call'[v].at \in After /\ v # w => Task(v) # t /\ Task(v) \in Tasks
       /\ \A v \in Workers : call'[v].at = "drop" =>
             call'[v] = call[v] /\ call[v].ids \subseteq Tasks \ {t}
  BY <1>1, <1>2, <1>4, <1>6, <1>8, StarterLeaves
<1>12. Callers'
  <2>1. \A v \in Workers : call'[v].at \in After => remote'[call'[v].task].state # "none"
    BY <1>2, <1>6, <1>8, <1>11 DEF Inv, Callers, Task, Sent
  <2>2. \A v \in Workers : call'[v].at = "settle" => call'[v].as = "canceled"
    BY <1>2, <1>8 DEF Inv, Callers
  <2>3. \A v \in Workers : call'[v].at = "drop" =>
          \A u \in call'[v].ids : remote'[u].state # "none" /\ status'[u] \in Terminal \cup {"gone"}
    BY <1>4, <1>6, <1>11 DEF Inv, Callers, Sent
  <2>4. \A u \in Tasks : record'[u] = "handled" => remote'[u].state # "none"
    BY <1>4, <1>6 DEF Inv, Callers, Sent
  <2> QED
    BY <2>1, <2>2, <2>3, <2>4 DEF Callers, Task, Sent
<1>13. Unsent'
  BY <1>4, <1>5, <1>6, <1>7 DEF Inv, Unsent, Sent
<1>14. Truth'
  BY <1>4, <1>5, <1>6, <1>7 DEF Inv, Truth
<1>15. MirrorIsTrue' /\ Rowless'
  BY <1>4, <1>5, <1>6 DEF Inv, MirrorIsTrue, Rowless
<1> QED
  BY <1>10, <1>11, <1>12, <1>13, <1>14, <1>15 DEF Inv

LEMMA SubmitFailsKeeps ==
    ASSUME Inv, NEW w \in Workers, SubmitFails(w)
    PROVE  Inv'
<1> DEFINE t == Task(w)
           c == Call("unfile", Task(w))
<1>1. t \in Tasks /\ call[w].at = "submit"
  BY ServedTask DEF Inv, SubmitFails, At
<1>2. c \in CallRecords /\ c.at = "unfile" /\ c.task = t /\ c.task # NoTask
  BY <1>1, CallTyped DEF Labels
<1>3. /\ Go(w, c) /\ status' = [status EXCEPT ![t] = "gone"] /\ LetsGo(w)
      /\ UNCHANGED <<history, kind, record, remote, poll, marked, source, rcd>>
  BY DEF SubmitFails
<1>4. status[t] = "queued" /\ ~Sent(t)
  BY <1>1 DEF Inv, Starters, Late
<1> HIDE DEF c
<1>5. /\ status' \in [Tasks -> Statuses] /\ status'[t] = "gone"
      /\ \A u \in Tasks \ {t} : status'[u] = status[u]
  BY <1>1, <1>3 DEF Inv, TypeOK, JobsTypeOK, Statuses
<1>6. /\ JobsTypeOK(Labels)' /\ call'[w] = c
      /\ \A v \in Workers \ {w} : call'[v] = call[v]
  <2>1. history' \in [Tasks -> Seq(Terminal)]
    BY <1>3 DEF Inv, TypeOK, JobsTypeOK
  <2> QED
    BY <1>2, <1>3, <1>5, <2>1, CallsTyped DEF Inv
<1>7. client' \in [Workers -> 0..rcd] /\ faults' \in 0..MaxFaults
  BY <1>3, FaultTyped DEF LetsGo, SubmitFails, Inv, TypeOK
<1>8. TypeOK'
  BY <1>3, <1>6, <1>7 DEF Inv, TypeOK
<1>9. /\ Starters'
      /\ \A v \in Workers : call'[v].at \in After /\ v # w => Task(v) # t /\ Task(v) \in Tasks
      /\ \A v \in Workers : call'[v].at = "drop" =>
            call'[v] = call[v] /\ call[v].ids \subseteq Tasks \ {t}
  BY <1>1, <1>2, <1>3, <1>5, <1>6, StarterLeaves
<1>10. Callers'
  <2>1. \A v \in Workers : call'[v].at \in After \cup {"drop"} => v # w
    BY <1>2, <1>6 DEF After
  <2>2. \A v \in Workers : call'[v].at = "drop" =>
          \A u \in call'[v].ids : Sent(u) /\ status'[u] \in Terminal \cup {"gone"}
    BY <1>5, <1>9 DEF Inv, Callers
  <2> QED
    BY <1>3, <1>6, <2>1, <2>2 DEF Inv, Callers, Task, Sent, After
<1>11. Unsent' /\ Truth' /\ MirrorIsTrue' /\ Rowless'
  BY <1>3, <1>4, <1>5 DEF Inv, Unsent, Truth, MirrorIsTrue, Rowless, Sent
<1> QED
  BY <1>8, <1>9, <1>10, <1>11 DEF Inv

------------------------------------------------------------------------------
LEMMA ServesKeeps ==
    ASSUME Inv, NEW w \in Workers, Serves(w)
    PROVE  Inv'
BY FilesKeeps, GivesUpKeeps, ListsKeeps, SubmitsKeeps, SubmitFailsKeeps, HandlesKeeps,
   FindsClientKeeps, StopsKeeps, SettlesSyncKeeps, ClearsKeeps DEF Serves

LEMMA FindsNoClientKeeps ==
    ASSUME Inv, NEW w \in Workers, FindsNoClient(w)
    PROVE  Inv'
BY MissesClientKeeps DEF FindsNoClient

LEMMA BeginsKeeps ==
    ASSUME Inv, NEW w \in Workers, Begins(w)
    PROVE  Inv'
<1>1. ASSUME NEW t \in Tasks, AsksCancel(w, t)
      PROVE  Inv'
  BY <1>1, AsksKeeps DEF AsksCancel, Cancelable
<1> QED
  BY <1>1, DeletesKeeps, StartsKeeps, CollectsKeeps, SyncAssumption DEF Begins

LEMMA PollsKeeps ==
    ASSUME Inv, NEW t \in Tasks, Polls(t)
    PROVE  Inv'
BY WakesKeeps, ReadsStatsKeeps, ReadsStatusKeeps, PollFailsKeeps, EmitsKeeps, PurgesKeeps DEF Polls

LEMMA OutsideKeeps ==
    ASSUME Inv, Outside
    PROVE  Inv'
BY CrashesKeeps, RemoteEndsKeeps, RemoteExpiresKeeps DEF Outside

LEMMA StillKeeps ==
    ASSUME Inv, UNCHANGED vars
    PROVE  Inv'
BY DEF Inv, vars, jobVars, syncVars, TypeOK, JobsTypeOK, Starters, Callers, Unsent, Truth,
   MirrorIsTrue, Rowless, Task, Sent

LEMMA InitHolds == Init => Inv
<1>1. Init => TypeOK
  BY SyncAssumption DEF Init, JobsInit, TypeOK, JobsTypeOK, Idle, Call, Labels, Statuses, Terminal,
     NotSubmitted, NotPolled, AllKinds, DirKinds, Task
<1>2. Init => Starters /\ Callers /\ Unsent /\ Truth /\ MirrorIsTrue /\ Rowless
  BY DEF Init, JobsInit, Starters, Callers, Unsent, Truth, MirrorIsTrue, Rowless, Idle, Call,
     NotSubmitted, NotPolled, Early, Late, After, Sent
<1> QED
  BY <1>1, <1>2 DEF Inv

LEMMA SyncStep ==
    ASSUME Inv, [Next]_vars
    PROVE  Inv'
BY ServesKeeps, FindsNoClientKeeps, BeginsKeeps, PollsKeeps, OutsideKeeps, StillKeeps
DEF Next, Continues

------------------------------------------------------------------------------
(* The lifecycle.  What it sees of a job is its place in the mirror once   *)
(* it is sent, and that only.                                              *)
Shown == [t \in Tasks |-> IF Submitted(t) THEN status[t] ELSE "new"]
Logged == <<Shown, history>>

LEMMA ShownIs ==
    ASSUME Inv
    PROVE  \A t \in Tasks : Shown[t] = IF Sent(t) THEN status[t] ELSE "new"
BY DEF Inv, Unsent, Shown, Submitted, Sent

LEMMA NothingLogged ==
    ASSUME Inv, Inv'
    PROVE  history' = history /\ history = [t \in Tasks |-> <<>>]
<1>1. history = [t \in Tasks |-> <<>>]
  BY DEF Inv, Rowless, TypeOK, JobsTypeOK
<1>2. history' = [t \in Tasks |-> <<>>]
  BY DEF Inv, Rowless, TypeOK, JobsTypeOK
<1> QED
  BY <1>1, <1>2

LEMMA ShownStays ==
    ASSUME Inv, Inv', \A t \in Tasks : Sent(t)' = Sent(t),
           \A t \in Tasks : Sent(t) => status'[t] = status[t]
    PROVE  UNCHANGED Logged
<1>1. \A t \in Tasks : Shown[t] = IF Sent(t) THEN status[t] ELSE "new"
  BY ShownIs
<1>2. \A t \in Tasks : Shown'[t] = IF Sent(t)' THEN status'[t] ELSE "new"
  BY DEF Inv, Unsent, Shown, Submitted, Sent
<1>3. Shown' = Shown
  <2>1. \A t \in Tasks : Shown'[t] = Shown[t]
    BY <1>1, <1>2
  <2> QED
    BY <2>1 DEF Shown
<1> QED
  BY <1>3, NothingLogged DEF Logged

(* One job moves.                                                          *)
LEMMA ShownMoves ==
    ASSUME Inv, Inv', NEW t \in Tasks,
           \A u \in Tasks \ {t} : Sent(u)' = Sent(u) /\ status'[u] = status[u],
           Sent(t)',
           \/ ~Sent(t) /\ status'[t] = "queued"
           \/ Sent(t) /\ status[t] = "queued" /\ status'[t] = "running"
           \/ Sent(t) /\ status[t] \in Live /\ status'[t] \in Terminal
    PROVE  Lifecycle!Next
<1>1. /\ \A u \in Tasks : Shown[u] = IF Sent(u) THEN status[u] ELSE "new"
      /\ \A u \in Tasks : Shown'[u] = IF Sent(u)' THEN status'[u] ELSE "new"
  BY ShownIs DEF Inv, Unsent, Shown, Submitted, Sent
<1>2. Shown' = [Shown EXCEPT ![t] = status'[t]]
  <2>1. \A u \in Tasks : Shown'[u] = [Shown EXCEPT ![t] = status'[t]][u]
    BY <1>1 DEF Shown
  <2> QED
    BY <2>1 DEF Shown
<1>3. CASE ~Sent(t) /\ status'[t] = "queued"
  <2>1. Lifecycle!Begin(t)
    BY <1>1, <1>2, <1>3, NothingLogged DEF Lifecycle!Begin, Shown
  <2> QED
    BY <2>1 DEF Lifecycle!Next
<1>4. CASE Sent(t) /\ status[t] = "queued" /\ status'[t] = "running"
  <2>1. Lifecycle!Run(t)
    BY <1>1, <1>2, <1>4, NothingLogged DEF Lifecycle!Run, Shown
  <2> QED
    BY <2>1 DEF Lifecycle!Next
<1>5. CASE Sent(t) /\ status[t] \in Live /\ status'[t] \in Terminal
  <2>1. PICK outcome \in Terminal : status'[t] = outcome
    BY <1>5
  <2>2. Lifecycle!End(t, outcome)
    BY <1>1, <1>2, <1>5, <2>1, NothingLogged
    DEF Lifecycle!End, Lifecycle!Active, Live, Shown
  <2> QED
    BY <2>2 DEF Lifecycle!Next, Lifecycle!Ended, Terminal
<1> QED
  BY <1>3, <1>4, <1>5

(* Settled jobs are removed.                                               *)
LEMMA ShownGoes ==
    ASSUME Inv, Inv', NEW ids \in SUBSET Tasks,
           \A t \in ids : Sent(t) /\ status[t] \in Terminal \cup {"gone"},
           \A t \in Tasks : Sent(t)' = Sent(t),
           \A t \in Tasks : status'[t] = IF t \in ids THEN "gone" ELSE status[t]
    PROVE  Lifecycle!Next
<1> DEFINE S == {t \in ids : status[t] # "gone"}
<1>1. /\ \A u \in Tasks : Shown[u] = IF Sent(u) THEN status[u] ELSE "new"
      /\ \A u \in Tasks : Shown'[u] = IF Sent(u)' THEN status'[u] ELSE "new"
  BY ShownIs DEF Inv, Unsent, Shown, Submitted, Sent
<1>2. Shown' = [t \in Tasks |-> IF t \in S THEN "gone" ELSE Shown[t]]
  <2>1. \A t \in Tasks : Shown'[t] = IF t \in S THEN "gone" ELSE Shown[t]
    BY <1>1
  <2> QED
    BY <2>1 DEF Shown
<1>3. \A t \in S : Shown[t] \in Terminal
  BY <1>1
<1>4. history' = [t \in Tasks |-> IF t \in S \ {} THEN <<>> ELSE history[t]]
  BY NothingLogged
<1>5. Lifecycle!Forget(S, {})
  BY <1>2, <1>3, <1>4 DEF Lifecycle!Forget, Lifecycle!Ended, Terminal, Shown
<1>6. S \in SUBSET Tasks /\ {} \in SUBSET Tasks
  OBVIOUS
<1> QED
  BY <1>5, <1>6 DEF Lifecycle!Next

LEMMA MarkOrSettle ==
    ASSUME Inv, Inv', NEW t \in Tasks, Sent(t), UNCHANGED remote,
           \/ MarkRunning(t) \/ UNCHANGED status
           \/ \E verdict \in Terminal : Complete(t, verdict)
    PROVE  Lifecycle!Next \/ UNCHANGED Logged
<1>1. status \in [Tasks -> Statuses] /\ \A u \in Tasks : Sent(u)' = Sent(u)
  BY DEF Inv, TypeOK, JobsTypeOK, Sent
<1>2. CASE UNCHANGED status
  BY <1>1, <1>2, ShownStays
<1>3. CASE MarkRunning(t)
  <2>1. /\ \A u \in Tasks \ {t} : status'[u] = status[u]
        /\ status'[t] = IF status[t] = "queued" THEN "running" ELSE status[t]
    BY <1>1, <1>3 DEF MarkRunning
  <2>2. CASE status[t] = "queued"
    BY <1>1, <2>1, <2>2, ShownMoves
  <2>3. CASE status[t] # "queued"
    BY <1>1, <2>1, <2>3, ShownStays
  <2> QED
    BY <2>2, <2>3
<1>4. ASSUME NEW verdict \in Terminal, Complete(t, verdict)
      PROVE  Lifecycle!Next \/ UNCHANGED Logged
  <2>1. /\ \A u \in Tasks \ {t} : status'[u] = status[u]
        /\ status'[t] = IF Accepts(t) THEN verdict ELSE status[t]
    BY <1>1, <1>4 DEF Complete
  <2>2. CASE Accepts(t)
    BY <1>1, <1>4, <2>1, <2>2, ShownMoves DEF Accepts
  <2>3. CASE ~Accepts(t)
    BY <1>1, <2>1, <2>3, ShownStays
  <2> QED
    BY <2>2, <2>3
<1> QED
  BY <1>2, <1>3, <1>4

LEMMA HandlerShown ==
    ASSUME Inv, Inv', NEW w \in Workers, Continues(w)
    PROVE  Lifecycle!Next \/ UNCHANGED Logged
<1>types. status \in [Tasks -> Statuses]
  BY DEF Inv, TypeOK, JobsTypeOK
<1>still. ASSUME UNCHANGED <<status, remote>>
          PROVE  UNCHANGED Logged
  BY <1>still, ShownStays DEF Sent
<1>1. CASE \/ MakesTarget(w) \/ MakesNoTarget(w) \/ Files(w) \/ Dials(w) \/ DialFails(w)
           \/ Unfiles(w) \/ Handles(w) \/ FindsClient(w) \/ Marks(w) \/ FindsNoClient(w)
  BY <1>1, <1>still DEF MakesTarget, MakesNoTarget, Files, Dials, DialFails, Unfiles, Handles,
     FindsClient, Marks, FindsNoClient, MissesClient, syncVars
<1>2. CASE Lists(w) \/ SubmitFails(w)
  <2>1. Task(w) \in Tasks /\ ~Sent(Task(w))
    BY <1>2, ServedTask DEF Lists, SubmitFails, At, Inv, Starters, Early, Late, Unsent
  <2>2. UNCHANGED remote /\ \A u \in Tasks \ {Task(w)} : status'[u] = status[u]
    BY <1>2, <1>types DEF Lists, SubmitFails, syncVars
  <2> QED
    BY <2>1, <2>2, ShownStays DEF Sent
<1>3. CASE Submits(w)
  <2>1. PICK t \in Tasks : t = Task(w)
    BY <1>3, ServedTask DEF Submits, At, Inv
  <2>2. ~Sent(t) /\ status[t] = "queued" /\ UNCHANGED status
    BY <1>3, <2>1 DEF Submits, At, Inv, Starters, Late
  <2>3. Sent(t)' /\ \A u \in Tasks \ {t} : Sent(u)' = Sent(u)
    BY <1>3, <2>1 DEF Submits, Inv, TypeOK, Sent, NotSubmitted
  <2> QED
    BY <2>2, <2>3, ShownMoves
<1>4. CASE Stops(w)
  <2>1. UNCHANGED status
    BY <1>4 DEF Stops
  <2>2. \A u \in Tasks : Sent(u)' = Sent(u)
    BY <1>4 DEF Stops, Stopped, Runs, Inv, TypeOK, Sent
  <2> QED
    BY <2>1, <2>2, ShownStays
<1>5. CASE SettlesSync(w)
  <2>1. Task(w) \in Tasks /\ Sent(Task(w)) /\ call[w].as \in Terminal
    BY <1>5, ServedTask DEF SettlesSync, At, Inv, Callers, After, TypeOK, JobsTypeOK
  <2> QED
    BY <1>5, <2>1, MarkOrSettle DEF SettlesSync, syncVars
<1>6. CASE Clears(w)
  <2>1. /\ call[w].at = "drop" /\ Remove(call[w].ids) /\ UNCHANGED remote
    BY <1>6 DEF Clears, ClearDrop, At, Rest
  <2>2. call[w].ids \in SUBSET Tasks
        /\ \A t \in call[w].ids : Sent(t) /\ status[t] \in Terminal \cup {"gone"}
    BY <2>1 DEF Inv, Callers, TypeOK, JobsTypeOK
  <2>3. \A t \in Tasks : Sent(t)' = Sent(t)
    BY <2>1 DEF Sent
  <2> QED
    BY <2>1, <2>2, <2>3, RemoveEffect, ShownGoes
<1> QED
  BY <1>1, <1>2, <1>3, <1>4, <1>5, <1>6 DEF Continues, Serves

LEMMA LifecycleStep ==
    ASSUME Inv, Inv', [Next]_vars
    PROVE  Lifecycle!Next \/ UNCHANGED Logged
<1>still. ASSUME UNCHANGED <<status, remote>>
          PROVE  UNCHANGED Logged
  BY <1>still, ShownStays DEF Sent
<1>1. ASSUME NEW w \in Workers, Begins(w)
      PROVE  Lifecycle!Next \/ UNCHANGED Logged
  <2>1. CASE \/ \E t \in Tasks : AsksCancel(w, t)
             \/ \E t \in Tasks, k \in Kinds : Starts(w, t, k)
             \/ Collects(w)
    BY <1>still, <2>1 DEF AsksCancel, Starts, Collects, ClearCollect, syncVars
  <2>2. ASSUME NEW t \in Tasks, Deletes(w, t)
        PROVE  Lifecycle!Next
    <3>1. status[t] \in Terminal /\ Remove({t}) /\ UNCHANGED remote
      BY <2>2 DEF Deletes, Delete, Rest
    <3>2. {t} \in SUBSET Tasks /\ Sent(t)
      BY <3>1 DEF Inv, Unsent, Terminal
    <3>3. \A u \in Tasks : Sent(u)' = Sent(u)
      BY <3>1 DEF Sent
    <3> QED
      BY <3>1, <3>2, <3>3, RemoveEffect, ShownGoes
  <2> QED
    BY <1>1, <2>1, <2>2 DEF Begins
<1>2. ASSUME NEW t \in Tasks, Polls(t)
      PROVE  Lifecycle!Next \/ UNCHANGED Logged
  <2>1. CASE Wakes(t) \/ ReadsStatus(t) \/ PollFails(t) \/ Purges(t)
    BY <1>still, <2>1 DEF Wakes, ReadsStatus, PollFails, Purges, jobVars
  <2>2. CASE ReadsStats(t)
    BY <2>2, PolledIsSent, MarkOrSettle DEF ReadsStats, Progresses
  <2>3. CASE Emits(t)
    <3>1. poll[t].verdict \in Terminal
      BY DEF Inv, TypeOK
    <3> QED
      BY <2>3, <3>1, PolledIsSent, MarkOrSettle DEF Emits
  <2> QED
    BY <1>2, <2>1, <2>2, <2>3 DEF Polls
<1>3. CASE Outside
  <2>1. UNCHANGED status
    BY <1>3 DEF Outside, Crashes, RemoteEnds, RemoteExpires, jobVars
  <2>2. \A u \in Tasks : Sent(u)' = Sent(u)
    <3>1. CASE Crashes
      BY <3>1 DEF Crashes, Sent
    <3>2. ASSUME NEW t \in Tasks, RemoteEnds(t)
          PROVE  \A u \in Tasks : Sent(u)' = Sent(u)
      BY <3>2 DEF RemoteEnds, Runs, Inv, TypeOK, Sent
    <3>3. ASSUME NEW t \in Tasks, RemoteExpires(t)
          PROVE  \A u \in Tasks : Sent(u)' = Sent(u)
      BY <3>3 DEF RemoteExpires, Inv, TypeOK, Sent
    <3> QED
      BY <1>3, <3>1, <3>2, <3>3 DEF Outside
  <2> QED
    BY <2>1, <2>2, ShownStays
<1>4. CASE UNCHANGED vars
  BY <1>4, <1>still DEF vars, jobVars, syncVars
<1> QED
  BY <1>1, <1>2, <1>3, <1>4, HandlerShown DEF Next

------------------------------------------------------------------------------

Executions == [at : DeskLabels, run : RunIds \cup {NoRun}, task : Tasks \cup {NoTask},
               landed : BOOLEAN, as : {"invalid", "failed", "cancelled", "success"}]
Entries == [live : BOOLEAN, task : Tasks \cup {NoTask}, cancelled : BOOLEAN]
RegistryTypes == desk \in [Workers -> Executions] /\ active \in [RunIds -> Entries]

(* A worker that is free has no run, any other has one of its own.         *)
Seats ==
    /\ \A w \in Workers : desk[w].at = "free" <=> desk[w].run = NoRun
    /\ \A v, w \in Workers : desk[v].run = desk[w].run => v = w \/ desk[v].run = NoRun

RegistryInv == RegistryTypes /\ Seats /\ NoGhostRun

(* What most steps do to desks and registry: nobody sits down or gets up.  *)
Sitting ==
    /\ \A w \in Workers : desk'[w].run = desk[w].run
    /\ \A w \in Workers : desk'[w].at = "free" <=> desk[w].at = "free"
    /\ \A r \in RunIds : active'[r].live = active[r].live

LEMMA SittingKeeps ==
    ASSUME RegistryInv, RegistryTypes', Sitting
    PROVE  RegistryInv'
BY DEF RegistryInv, Seats, NoGhostRun, Sitting

------------------------------------------------------------------------------
(* The steps of an execution keep its desk and its entry.                  *)
LEMMA RestSits ==
    ASSUME RegistryTypes, UNCHANGED runVars
    PROVE  RegistryTypes' /\ Sitting
BY DEF RegistryTypes, Sitting, runVars

LEMMA MoveSits ==
    ASSUME RegistryTypes, NEW w \in Workers, NEW label \in DeskLabels \ {"free"},
           desk[w].at # "free", Moves(w, label), UNCHANGED active
    PROVE  RegistryTypes' /\ Sitting
BY DEF RegistryTypes, Executions, Sitting, Moves

LEMMA ConcludeSits ==
    ASSUME RegistryTypes, NEW w \in Workers, desk[w].at # "free",
           NEW verdict \in {"invalid", "failed", "cancelled", "success"}, Concludes(w, verdict)
    PROVE  RegistryTypes' /\ Sitting
<1>1. desk' \in [Workers -> Executions]
  BY ZenonT(60) DEF RegistryTypes, Executions, DeskLabels, Concludes
<1>2. \A v \in Workers : desk'[v].run = desk[v].run
  BY DEF RegistryTypes, Executions, Concludes
<1>3. \A v \in Workers : desk'[v].at = "free" <=> desk[v].at = "free"
  BY DEF RegistryTypes, Executions, Concludes
<1> QED
  BY <1>1, <1>2, <1>3 DEF RegistryTypes, Sitting, Concludes

LEMMA ExecutionSits ==
    ASSUME RegistryInv, NEW w \in Workers, Execution(w), ~Answers(w)
    PROVE  RegistryTypes' /\ Sitting
<1> USE DEF RegistryInv
<1>1. CASE Stats(w)
  <2>1. desk[w].at # "free"
    BY <1>1 DEF Stats, Sits
  <2> QED
    BY <1>1, <2>1, ConcludeSits, MoveSits DEF Stats, DeskLabels
<1>2. CASE Copies(w)
  <2>1. desk[w].at # "free"
    BY <1>2 DEF Copies, Sits
  <2> QED
    BY <1>2, <2>1, ConcludeSits, MoveSits DEF Copies, DeskLabels
<1>3. CASE CopyFails(w) \/ RefusesJob(w) \/ Canceled(w)
  BY <1>3, ConcludeSits DEF CopyFails, RefusesJob, Canceled, Sits
<1>4. CASE CopyLands(w)
  BY ZenonT(60), <1>4 DEF CopyLands, Sits, RegistryTypes, Executions, DeskLabels, Sitting
<1>5. CASE Reports(w)
  BY <1>5, ConcludeSits DEF Reports, Sits
<1>6. ASSUME NEW t \in Tasks, StartsJob(w, t)
      PROVE  RegistryTypes' /\ Sitting
  BY ZenonT(60), <1>6 DEF StartsJob, Sits, RegistryTypes, Executions, DeskLabels, Sitting
<1>7. CASE Attaches(w)
  <2>1. desk[w].at = "starting"
    BY <1>7 DEF Attaches, Sits
  <2>2. CASE ~Submitted(desk[w].task)
    BY <1>7, <2>1, <2>2, ConcludeSits DEF Attaches
  <2>3. CASE Submitted(desk[w].task)
    <3>1. /\ active' = [active EXCEPT ![desk[w].run].task = desk[w].task]
          /\ Moves(w, "watch")
      BY <1>7, <2>3 DEF Attaches
    <3>2. desk[w].run \in RunIds /\ desk[w].task \in Tasks \cup {NoTask}
      BY <2>1 DEF RegistryTypes, Executions, Seats
    <3>3. active' \in [RunIds -> Entries] /\ \A r \in RunIds : active'[r].live = active[r].live
      BY <3>1, <3>2 DEF RegistryTypes, Entries
    <3>4. /\ desk' \in [Workers -> Executions]
          /\ \A v \in Workers : desk'[v].run = desk[v].run
          /\ \A v \in Workers : desk'[v].at = "free" <=> desk[v].at = "free"
      BY <2>1, <3>1 DEF RegistryTypes, Executions, DeskLabels, Moves
    <3> QED
      BY <3>3, <3>4 DEF RegistryTypes, Sitting
  <2> QED
    BY <2>2, <2>3
<1>8. CASE Watches(w)
  <2>1. desk[w].at # "free"
    BY <1>8 DEF Watches, Sits
  <2>2. Concludes(w, Verdict(status[desk[w].task])) \/ (Moves(w, "cancel") /\ UNCHANGED active)
    BY <1>8 DEF Watches
  <2> QED
    BY <2>1, <2>2, ConcludeSits, MoveSits DEF Verdict, DeskLabels
<1>9. CASE CancelsJob(w)
  BY <1>9, MoveSits DEF CancelsJob, Sits, DeskLabels
<1>10. CASE LacksClient(w)
  BY <1>10, RestSits DEF LacksClient
<1> QED
  BY <1>1, <1>2, <1>3, <1>4, <1>5, <1>6, <1>7, <1>8, <1>9, <1>10 DEF Execution

------------------------------------------------------------------------------
(* The steps by which an execution sits down, and gets up.                 *)
LEMMA ExecutesKeeps ==
    ASSUME RegistryInv, NEW w \in Workers, NEW r \in RunIds, Executes(w, r)
    PROVE  RegistryInv'
<1>1. PICK label \in {"answer", "start", "stat"} :
        desk' = [desk EXCEPT ![w] = [Free EXCEPT !.at = label, !.run = r, !.as = "invalid"]]
  BY DEF Executes
<1>2. active' = [active EXCEPT ![r] = [Absent EXCEPT !.live = TRUE]] /\ ~active[r].live
  BY DEF Executes
<1>3. desk[w].run = NoRun
  BY DEF Executes, Sits, RegistryInv, Seats
<1>4. \A v \in Workers : desk[v].run # r
  BY <1>2 DEF RegistryInv, NoGhostRun
<1>5. RegistryTypes'
  BY <1>1, <1>2 DEF RegistryInv, RegistryTypes, Executions, Entries, Free, Absent, DeskLabels
<1>6. /\ desk'[w].run = r /\ desk'[w].at # "free" /\ active'[r].live
      /\ \A v \in Workers \ {w} : desk'[v] = desk[v]
      /\ \A q \in RunIds \ {r} : active'[q] = active[q]
  BY <1>1, <1>2 DEF RegistryInv, RegistryTypes, Executions, Entries, Free, Absent
<1>7. Seats'
  BY <1>4, <1>6, NoRunAssumption DEF RegistryInv, Seats
<1>8. NoGhostRun'
  BY <1>3, <1>4, <1>6, NoRunAssumption DEF RegistryInv, NoGhostRun
<1> QED
  BY <1>5, <1>7, <1>8 DEF RegistryInv

LEMMA AnswersKeeps ==
    ASSUME RegistryInv, NEW w \in Workers, Answers(w)
    PROVE  RegistryInv'
<1>1. desk[w].run \in RunIds
  BY DEF Answers, Sits, RegistryInv, RegistryTypes, Executions, Seats
<1>2. desk' = [desk EXCEPT ![w] = Free] /\ active' = [active EXCEPT ![desk[w].run] = Absent]
  BY DEF Answers, Forgets
<1>3. RegistryTypes'
  BY <1>1, <1>2 DEF RegistryInv, RegistryTypes, Executions, Entries, Free, Absent, DeskLabels
<1>4. /\ desk'[w].run = NoRun /\ desk'[w].at = "free" /\ ~active'[desk[w].run].live
      /\ \A v \in Workers \ {w} : desk'[v] = desk[v]
      /\ \A q \in RunIds \ {desk[w].run} : active'[q] = active[q]
  BY <1>1, <1>2 DEF RegistryInv, RegistryTypes, Executions, Entries, Free, Absent
<1>5. Seats'
  BY <1>4 DEF RegistryInv, Seats
<1>6. NoGhostRun'
  BY <1>1, <1>4, NoRunAssumption DEF RegistryInv, NoGhostRun, Seats
<1> QED
  BY <1>3, <1>5, <1>6 DEF RegistryInv

LEMMA StopsRunKeeps ==
    ASSUME RegistryInv, NEW w \in Workers, NEW r \in RunIds, StopsRun(w, r)
    PROVE  RegistryInv'
<1>1. active' = [active EXCEPT ![r].cancelled = TRUE] /\ desk' = desk
  BY DEF StopsRun
<1>2. RegistryTypes' /\ Sitting
  BY <1>1 DEF RegistryInv, RegistryTypes, Entries, Sitting
<1> QED
  BY <1>2, SittingKeeps

LEMMA TimesOutKeeps ==
    ASSUME RegistryInv, NEW w \in Workers, TimesOut(w)
    PROVE  RegistryInv'
BY ConcludeSits, SittingKeeps DEF TimesOut, Sits, RegistryInv

------------------------------------------------------------------------------
LEMMA RunsStep ==
    ASSUME RegistryInv, [RunsNext]_taskVars
    PROVE  RegistryInv'
<1>1. CASE UNCHANGED runVars
  BY <1>1, RestSits, SittingKeeps DEF RegistryInv
<1>2. ASSUME NEW w \in Workers, Works(w)
      PROVE  RegistryInv'
  <2>1. CASE Handler(w)
    BY <1>1, <2>1 DEF Handler
  <2>2. CASE Answers(w)
    BY <2>2, AnswersKeeps
  <2>3. CASE Execution(w) /\ ~Answers(w)
    BY <2>3, ExecutionSits, SittingKeeps
  <2> QED
    BY <1>2, <2>1, <2>2, <2>3 DEF Works
<1> QED
  BY <1>1, <1>2, ExecutesKeeps, StopsRunKeeps, TimesOutKeeps
  DEF RunsNext, Workbench, Polling, taskVars

(* What a step of the jobs never takes back.                               *)
Grows ==
    \A t \in Tasks : Sent(t) =>
        /\ Sent(t)'
        /\ remote[t].good => remote'[t].good
        /\ status[t] \notin Live => status'[t] \notin Live

LEMMA GoodStays ==
    ASSUME Inv, [Next]_vars
    PROVE  \A t \in Tasks : remote[t].good => remote'[t].good
<1> SUFFICES ASSUME NEW t \in Tasks, remote[t].good
             PROVE  remote'[t].good
  OBVIOUS
<1> USE DEF Inv, TypeOK
<1>1. remote[t].state \in {"succeeded", "expired"}
  BY DEF Truth
<1>2. ASSUME NEW w \in Workers, Submits(w)
      PROVE  remote'[t].good
  <2>1. Task(w) # t
    BY <1>1, <1>2 DEF Submits, At, Starters, Late, Sent
  <2> QED
    BY <1>2, <2>1 DEF Submits
<1>3. ASSUME NEW w \in Workers, Stops(w)
      PROVE  remote'[t].good
  BY <1>3 DEF Stops
<1>4. ASSUME NEW u \in Tasks, RemoteEnds(u) \/ RemoteExpires(u)
      PROVE  remote'[t].good
  BY <1>1, <1>4 DEF RemoteEnds, RemoteExpires, Runs
<1>5. ASSUME NEW w \in Workers, Continues(w), ~Submits(w), ~Stops(w)
      PROVE  remote' = remote
  BY <1>5 DEF Continues, Serves, MakesTarget, MakesNoTarget, Lists, Files, Dials, DialFails,
     SubmitFails, Unfiles, Handles, FindsClient, Marks, SettlesSync, Clears, FindsNoClient,
     MissesClient, Rest, syncVars
<1>6. ASSUME NEW w \in Workers, Begins(w)
      PROVE  remote' = remote
  BY <1>6 DEF Begins, AsksCancel, Deletes, Starts, Collects, Rest, syncVars
<1>7. ASSUME NEW u \in Tasks, Polls(u)
      PROVE  remote' = remote
  BY <1>7 DEF Polls, Wakes, ReadsStats, ReadsStatus, PollFails, Emits, Purges
<1>8. CASE Crashes \/ UNCHANGED vars
  BY <1>8 DEF Crashes, vars, syncVars
<1> QED
  BY <1>2, <1>3, <1>4, <1>5, <1>6, <1>7, <1>8 DEF Next, Outside

(* What has been seen to be over stays so, as in every lifecycle.          *)
LEMMA JobsGrow ==
    ASSUME Inv, [Next]_vars
    PROVE  Inv' /\ Grows /\ (Lifecycle!Next \/ UNCHANGED Logged)
<1>1. Inv'
  BY SyncStep
<1>2. Lifecycle!Next \/ UNCHANGED Logged
  BY <1>1, LifecycleStep
<1>3. /\ \A t \in Tasks : Shown[t] = IF Sent(t) THEN status[t] ELSE "new"
      /\ \A t \in Tasks : Shown'[t] = IF Sent(t)' THEN status'[t] ELSE "new"
  BY <1>1, ShownIs DEF Inv, Unsent, Shown, Submitted, Sent
<1>4. \A t \in Tasks : Sent(t) => Shown[t] # "new"
  BY <1>3 DEF Inv, Unsent
<1>5. \A t \in Tasks : Shown[t] # "new" =>
        Shown'[t] # "new" /\ (Shown[t] \notin Live => Shown'[t] \notin Live)
  <2> SUFFICES ASSUME NEW t \in Tasks, Shown[t] # "new"
               PROVE  Shown'[t] # "new" /\ (Shown[t] \notin Live => Shown'[t] \notin Live)
    OBVIOUS
  <2>1. CASE UNCHANGED Logged
    BY <2>1 DEF Logged
  <2>2. ASSUME NEW u \in Tasks,
               \/ Lifecycle!Begin(u) \/ Lifecycle!Run(u)
               \/ \E o \in Lifecycle!Ended : Lifecycle!End(u, o) \/ Lifecycle!Write(u, o)
        PROVE  Shown'[t] # "new" /\ (Shown[t] \notin Live => Shown'[t] \notin Live)
    BY <2>2 DEF Lifecycle!Begin, Lifecycle!Run, Lifecycle!End, Lifecycle!Write, Lifecycle!Ended,
       Lifecycle!Active, Live, Shown
  <2>3. ASSUME NEW S, NEW kept, Lifecycle!Forget(S, kept)
        PROVE  Shown'[t] # "new" /\ (Shown[t] \notin Live => Shown'[t] \notin Live)
    BY <2>3 DEF Lifecycle!Forget, Live, Shown
  <2> QED
    BY <1>2, <2>1, <2>2, <2>3 DEF Lifecycle!Next
<1>6. Grows
  BY <1>3, <1>4, <1>5, GoodStays DEF Grows
<1> QED
  BY <1>1, <1>2, <1>6

LEMMA HopGrows ==
    ASSUME Inv, Inv', UNCHANGED <<status, remote>>
    PROVE  Grows /\ UNCHANGED Logged
BY ShownStays DEF Grows, Sent

------------------------------------------------------------------------------
(* What an execution knows of its job, at each point of it.                *)
Before == {"free", "stat", "copy", "copying", "copied", "start"}
With == {"starting", "watch", "cancel", "canceling"}

DeskOf(w) ==
    /\ desk[w].at \in Before => desk[w].task = NoTask
    /\ desk[w].at = "copied" => desk[w].landed
    /\ desk[w].at \in With => desk[w].task \in Tasks
    /\ desk[w].at \in With \ {"starting"} => Sent(desk[w].task)
    /\ desk[w].at = "canceling" =>
          \/ call[w] = Idle /\ status[desk[w].task] \notin Live
          \/ call[w].at \in After \ {"handle"} /\ Task(w) = desk[w].task
    /\ desk[w].at = "answer" /\ desk[w].as = "success" =>
          IF desk[w].task = NoTask THEN desk[w].landed
          ELSE Sent(desk[w].task) /\ remote[desk[w].task].good
    /\ desk[w].at = "answer" /\ desk[w].as = "cancelled" /\ desk[w].task # NoTask =>
          Sent(desk[w].task) /\ status[desk[w].task] \notin Live

RunsInv == Inv /\ RegistryInv /\ \A w \in Workers : DeskOf(w)

(* The steps of others leave an execution what it knows.                   *)
LEMMA DeskStays ==
    ASSUME RunsInv, Grows, NEW w \in Workers, UNCHANGED <<desk[w], call[w]>>
    PROVE  DeskOf(w)'
<1>1. desk[w].task \in Tasks \cup {NoTask}
  BY DEF RunsInv, RegistryInv, RegistryTypes, Executions
<1>2. desk[w].task \in Tasks /\ Sent(desk[w].task) =>
        /\ remote'[desk[w].task].state # "none"
        /\ remote[desk[w].task].good => remote'[desk[w].task].good
        /\ status[desk[w].task] \notin Live => status'[desk[w].task] \notin Live
  BY DEF Grows, Sent
<1>3. desk[w].at \in With => desk[w].task \in Tasks
  BY DEF RunsInv, DeskOf
<1> QED
  BY <1>1, <1>2, <1>3 DEF RunsInv, DeskOf, With, Task, Sent

(* The handler that serves an execution.                                   *)
LEMMA HandlerDesk ==
    ASSUME RunsInv, Inv', Grows, NEW w \in Workers, Handler(w)
    PROVE  \A v \in Workers : DeskOf(v)'
<1>1. desk' = desk
  BY DEF Handler, runVars
<1>2. Continues(w)
  BY DEF Handler, Continues
<1>3. \A v \in Workers \ {w} : call'[v] = call[v]
  BY ZenonT(60), <1>2
  DEF Continues, Serves, MakesTarget, MakesNoTarget, Lists, Files, Dials, DialFails,
     Submits, SubmitFails, Unfiles, Handles, FindsClient, Marks, Stops, SettlesSync, Clears,
     ClearDrop, FindsNoClient, MissesClient, Go, RunsInv, Inv, TypeOK, JobsTypeOK
<1>4. \A v \in Workers \ {w} : DeskOf(v)'
  BY <1>1, <1>3, DeskStays
<1>5. DeskOf(w)'
  <2>1. CASE desk[w].at # "canceling"
    <3>1. desk[w].task \in Tasks \cup {NoTask}
      BY DEF RunsInv, RegistryInv, RegistryTypes, Executions
    <3>2. desk[w].task \in Tasks /\ Sent(desk[w].task) =>
            /\ remote'[desk[w].task].state # "none"
            /\ remote[desk[w].task].good => remote'[desk[w].task].good
            /\ status[desk[w].task] \notin Live => status'[desk[w].task] \notin Live
      BY DEF Grows, Sent
    <3>3. desk[w].at \in With => desk[w].task \in Tasks
      BY DEF RunsInv, DeskOf
    <3> QED
      BY <1>1, <2>1, <3>1, <3>2, <3>3 DEF RunsInv, DeskOf, With, Task, Sent
  <2>2. CASE desk[w].at = "canceling"
    <3>1. PICK t \in Tasks : t = desk[w].task
      BY <2>2 DEF RunsInv, DeskOf, With
    <3>2. Sent(t) /\ remote'[t].state # "none"
      BY <2>2, <3>1 DEF RunsInv, DeskOf, With, Grows, Sent
    <3>3. Serves(w)
      BY <2>2 DEF Handler
    <3>4. call[w].at \in After \ {"handle"} /\ Task(w) = t
      <4>1. call[w].at # "idle"
        BY <3>3 DEF Serves, MakesTarget, MakesNoTarget, Lists, Files, Dials, DialFails, Submits,
           SubmitFails, Unfiles, Handles, FindsClient, Marks, Stops, SettlesSync, Clears,
           ClearDrop, At
      <4>2. call[w] # Idle
        BY <4>1, IdleTyped
      <4> QED
        BY <2>2, <3>1, <4>2 DEF RunsInv, DeskOf
    <3>5. FindsClient(w) \/ Marks(w) \/ Stops(w) \/ SettlesSync(w)
      BY <3>3, <3>4 DEF After, Serves, MakesTarget, MakesNoTarget, Lists, Files, Dials, DialFails,
         Submits, SubmitFails, Unfiles, Handles, Clears, ClearDrop, At
    <3>6. CASE FindsClient(w) \/ Marks(w) \/ Stops(w)
      <4>1. call'[w].at \in {"mark", "stop", "settle"} /\ call'[w].task = t
        BY <3>4, <3>6, CallTyped, SettlingTyped
        DEF FindsClient, Marks, Stops, Go, RunsInv, Inv, TypeOK, JobsTypeOK, Call, Settling
      <4> QED
        BY <1>1, <2>2, <3>1, <3>2, <4>1 DEF DeskOf, After, With, Before, Task, Sent
    <3>7. CASE SettlesSync(w)
      <4>1. call'[w] = Idle
        BY <3>7 DEF SettlesSync, Go, RunsInv, Inv, TypeOK, JobsTypeOK
      <4>2. call[w].as = "canceled" /\ Complete(t, call[w].as)
        BY <3>4, <3>7 DEF SettlesSync, At, RunsInv, Inv, Callers
      <4>3. status'[t] \notin Live
        BY <4>2 DEF Complete, Accepts, Live, RunsInv, Inv, TypeOK, JobsTypeOK
      <4> QED
        BY <1>1, <2>2, <3>1, <3>2, <4>1, <4>3 DEF DeskOf, With, Before, Sent
    <3> QED
      BY <3>5, <3>6, <3>7
  <2> QED
    BY <2>1, <2>2
<1> QED
  BY <1>4, <1>5

(* An execution concludes what it has seen.                                *)
LEMMA ConcludeDesk ==
    ASSUME RunsInv, NEW w \in Workers, UNCHANGED vars,
           NEW verdict \in {"invalid", "failed", "cancelled", "success"}, Concludes(w, verdict),
           verdict = "success" => IF desk[w].task = NoTask THEN desk[w].landed
                                  ELSE Sent(desk[w].task) /\ remote[desk[w].task].good,
           verdict = "cancelled" /\ desk[w].task # NoTask =>
                Sent(desk[w].task) /\ status[desk[w].task] \notin Live
    PROVE  \A v \in Workers : DeskOf(v)'
<1>1. UNCHANGED <<status, remote, call>>
  BY DEF vars, jobVars, syncVars
<1>2. /\ \A v \in Workers \ {w} : desk'[v] = desk[v]
      /\ desk'[w].at = "answer" /\ desk'[w].as = verdict
      /\ desk'[w].task = desk[w].task /\ desk'[w].landed = desk[w].landed
  BY DEF Concludes, RunsInv, RegistryInv, RegistryTypes, Executions
<1>3. Grows
  BY <1>1 DEF Grows, Sent
<1>4. DeskOf(w)'
  BY <1>1, <1>2 DEF DeskOf, Before, With, Sent
<1>5. \A v \in Workers \ {w} : DeskOf(v)'
  BY <1>1, <1>2, <1>3, DeskStays
<1> QED
  BY <1>4, <1>5

(* An execution goes on.                                                   *)
LEMMA MoveDesk ==
    ASSUME RunsInv, NEW w \in Workers, UNCHANGED vars,
           NEW label \in {"copy", "copying", "start", "watch", "cancel"}, Moves(w, label),
           label \in Before => desk[w].at \in Before,
           label \in With => desk[w].task \in Tasks /\ Sent(desk[w].task)
    PROVE  \A v \in Workers : DeskOf(v)'
<1>1. UNCHANGED <<status, remote, call>>
  BY DEF vars, jobVars, syncVars
<1>2. /\ \A v \in Workers \ {w} : desk'[v] = desk[v]
      /\ desk'[w].at = label
      /\ desk'[w].task = desk[w].task /\ desk'[w].landed = desk[w].landed
  BY DEF Moves, RunsInv, RegistryInv, RegistryTypes, Executions
<1>3. Grows
  BY <1>1 DEF Grows, Sent
<1>4. DeskOf(w)'
  BY <1>1, <1>2 DEF RunsInv, DeskOf, Before, With, Sent
<1>5. \A v \in Workers \ {w} : DeskOf(v)'
  BY <1>1, <1>2, <1>3, DeskStays
<1> QED
  BY <1>4, <1>5

LEMMA WatchDesk ==
    ASSUME RunsInv, NEW w \in Workers, Attaches(w) \/ Watches(w) \/ TimesOut(w)
    PROVE  \A v \in Workers : DeskOf(v)'
<1>1. UNCHANGED vars
  BY DEF Attaches, Watches, TimesOut
<1>2. desk[w].at \in With /\ desk[w].task \in Tasks
  BY DEF Attaches, Watches, TimesOut, Sits, RunsInv, DeskOf, With
<1>3. PICK t \in Tasks : t = desk[w].task
  BY <1>2
<1>4. t # NoTask
  BY NoTaskAssumption
<1>5. CASE Attaches(w)
  <2>1. Submitted(t) => Sent(t)
    BY DEF Submitted, Sent, RunsInv, Inv, Unsent
  <2>2. (Submitted(t) /\ Moves(w, "watch")) \/ Concludes(w, "failed")
    BY <1>3, <1>5 DEF Attaches
  <2> QED
    BY <1>1, <1>2, <1>3, <2>1, <2>2, ConcludeDesk, MoveDesk DEF Before
<1>6. CASE Watches(w)
  <2>1. Sent(t)
    BY <1>3, <1>6 DEF Watches, Sits, RunsInv, DeskOf, With
  <2>2. \/ Concludes(w, Verdict(status[t]))
        \/ Moves(w, "cancel")
    BY <1>3, <1>6 DEF Watches
  <2>3. Verdict(status[t]) \in {"success", "failed"}
        /\ (Verdict(status[t]) = "success" => remote[t].good)
    BY DEF Verdict, RunsInv, Inv, MirrorIsTrue
  <2> QED
    BY <1>1, <1>2, <1>3, <1>4, <2>1, <2>2, <2>3, ConcludeDesk, MoveDesk DEF Before
<1>7. CASE TimesOut(w)
  BY <1>1, <1>7, ConcludeDesk DEF TimesOut
<1> QED
  BY <1>5, <1>6, <1>7

LEMMA CopyDesk ==
    ASSUME RunsInv, NEW w \in Workers,
           Stats(w) \/ Copies(w) \/ CopyFails(w) \/ RefusesJob(w) \/ Reports(w)
    PROVE  \A v \in Workers : DeskOf(v)'
<1>1. UNCHANGED vars
  BY DEF Stats, Copies, CopyFails, RefusesJob, Reports
<1>2. desk[w].at \in Before /\ desk[w].task = NoTask
  BY DEF Stats, Copies, CopyFails, RefusesJob, Reports, Sits, Before, RunsInv, DeskOf
<1>3. desk[w].at = "copied" => desk[w].landed
  BY DEF RunsInv, DeskOf
<1>4. \/ Concludes(w, "failed") \/ Concludes(w, "cancelled")
      \/ desk[w].at = "copied" /\ Concludes(w, "success")
      \/ \E label \in {"copy", "copying", "start"} : Moves(w, label)
  BY DEF Stats, Copies, CopyFails, RefusesJob, Reports, Sits
<1> QED
  BY <1>1, <1>2, <1>3, <1>4, ConcludeDesk, MoveDesk DEF With

LEMMA SeatDesk ==
    ASSUME RunsInv, NEW w \in Workers,
           CopyLands(w) \/ Answers(w) \/ Canceled(w) \/ \E r \in RunIds : Executes(w, r)
    PROVE  \A v \in Workers : DeskOf(v)'
<1>1. UNCHANGED vars
  BY DEF CopyLands, Answers, Canceled, Executes
<1>2. UNCHANGED <<status, remote, call>>
  BY <1>1 DEF vars, jobVars, syncVars
<1>3. Grows
  BY <1>2 DEF Grows, Sent
<1>4. CASE Canceled(w)
  <2>1. call[w] = Idle /\ desk[w].at = "canceling" /\ Concludes(w, "cancelled")
    BY <1>4 DEF Canceled, Sits
  <2>2. status[desk[w].task] \notin Live /\ Sent(desk[w].task)
    BY <2>1, IdleTyped DEF RunsInv, DeskOf, After, With
  <2> QED
    BY <1>1, <2>1, <2>2, ConcludeDesk
<1>5. CASE CopyLands(w)
  <2>1. /\ desk[w].task = NoTask
        /\ \A v \in Workers \ {w} : desk'[v] = desk[v]
        /\ desk'[w].at = "copied" /\ desk'[w].task = NoTask /\ desk'[w].landed
    BY <1>5 DEF CopyLands, Sits, Before, RunsInv, DeskOf, RegistryInv, RegistryTypes, Executions
  <2>2. DeskOf(w)'
    BY <2>1 DEF DeskOf, With
  <2> QED
    BY <1>2, <1>3, <2>1, <2>2, DeskStays
<1>6. CASE Answers(w)
  <2>1. /\ \A v \in Workers \ {w} : desk'[v] = desk[v]
        /\ desk'[w].at = "free" /\ desk'[w].task = NoTask
    BY <1>6 DEF Answers, Free, RunsInv, RegistryInv, RegistryTypes
  <2>2. DeskOf(w)'
    BY <2>1 DEF DeskOf, With
  <2> QED
    BY <1>2, <1>3, <2>1, <2>2, DeskStays
<1>7. ASSUME NEW r \in RunIds, Executes(w, r)
      PROVE  \A v \in Workers : DeskOf(v)'
  <2>1. /\ \A v \in Workers \ {w} : desk'[v] = desk[v]
        /\ desk'[w].at \in {"answer", "start", "stat"} /\ desk'[w].task = NoTask
        /\ desk'[w].as = "invalid"
    <3>1. PICK label \in {"answer", "start", "stat"} :
             desk' = [desk EXCEPT ![w] = [Free EXCEPT !.at = label, !.run = r, !.as = "invalid"]]
      BY <1>7 DEF Executes
    <3> DEFINE new == [Free EXCEPT !.at = label, !.run = r, !.as = "invalid"]
    <3>2. new.at = label /\ new.task = NoTask /\ new.as = "invalid"
      BY DEF Free
    <3>3. desk \in [Workers -> Executions] /\ desk' = [desk EXCEPT ![w] = new]
      BY <3>1 DEF RunsInv, RegistryInv, RegistryTypes
    <3> HIDE DEF new
    <3> QED BY <3>2, <3>3
  <2>2. DeskOf(w)'
    BY <2>1 DEF DeskOf, With
  <2> QED
    BY <1>2, <1>3, <2>1, <2>2, DeskStays
<1> QED
  BY SMTT(40), <1>4, <1>5, <1>6, <1>7

(* A starter begins, and a cancel: the handlers an execution goes through. *)
LEMMA StartsJobDesk ==
    ASSUME RunsInv, Inv', Grows, NEW w \in Workers, NEW t \in Tasks, StartsJob(w, t)
    PROVE  \A v \in Workers : DeskOf(v)'
<1>1. /\ \A v \in Workers \ {w} : desk'[v] = desk[v] /\ call'[v] = call[v]
      /\ desk'[w].at = "starting" /\ desk'[w].task = t
  BY DEF StartsJob, Starts, Go, RunsInv, RegistryInv, RegistryTypes, Executions, Inv, TypeOK,
     JobsTypeOK
<1>2. DeskOf(w)'
  BY <1>1 DEF DeskOf, Before, With
<1> QED
  BY <1>1, <1>2, DeskStays

LEMMA CancelsJobDesk ==
    ASSUME RunsInv, NEW w \in Workers, CancelsJob(w) \/ LacksClient(w)
    PROVE  \A v \in Workers : DeskOf(v)'
<1>1. UNCHANGED <<status, remote>>
  BY DEF CancelsJob, LacksClient, MissesClient, syncVars
<1>2. Grows
  BY <1>1 DEF Grows, Sent
<1>3. PICK t \in Tasks : t = desk[w].task
  BY DEF CancelsJob, LacksClient, Sits, RunsInv, DeskOf, With
<1>4. Sent(t)
  BY <1>3 DEF CancelsJob, LacksClient, Sits, RunsInv, DeskOf, With
<1>5. /\ \A v \in Workers \ {w} : desk'[v] = desk[v]
      /\ desk'[w].at = "canceling" /\ desk'[w].task = t
  BY <1>3 DEF CancelsJob, LacksClient, Moves, runVars, RunsInv, RegistryInv, RegistryTypes,
     Executions
<1>6. Go(w, Call("client", t)) \/ Go(w, Settling(t, "canceled"))
  BY <1>3 DEF CancelsJob, LacksClient, MissesClient
<1>7. /\ \A v \in Workers \ {w} : call'[v] = call[v]
      /\ call'[w].at \in {"client", "settle"} /\ call'[w].task = t
  BY <1>6, CallTyped, SettlingTyped DEF Go, RunsInv, Inv, TypeOK, JobsTypeOK, Call, Settling
<1>8. DeskOf(w)'
  BY <1>1, <1>4, <1>5, <1>7 DEF DeskOf, Before, With, After, Task, Sent
<1> QED
  BY <1>2, <1>5, <1>7, <1>8, DeskStays

------------------------------------------------------------------------------
(* To the jobs, executions are callers like the workbench.                 *)
LEMMA RunsJobs ==
    ASSUME RunsInv, [RunsNext]_taskVars
    PROVE  Inv' /\ Grows /\ (Lifecycle!Next \/ UNCHANGED Logged)
<1> USE DEF RunsInv
<1>hop. ASSUME Inv', UNCHANGED <<status, remote>>
        PROVE  Inv' /\ Grows /\ (Lifecycle!Next \/ UNCHANGED Logged)
  BY <1>hop, HopGrows
<1>1. CASE [Next]_vars
  BY <1>1, JobsGrow
<1>2. ASSUME NEW w \in Workers, NEW t \in Tasks, StartsJob(w, t)
      PROVE  Inv' /\ Grows /\ (Lifecycle!Next \/ UNCHANGED Logged)
  <2>1. Starts(w, t, "dir") /\ "dir" \in AllKinds
    BY <1>2 DEF StartsJob, AllKinds, DirKinds
  <2>2. Inv' /\ UNCHANGED <<status, remote>>
    BY <2>1, StartsKeeps DEF Starts
  <2> QED
    BY <2>2, <1>hop
<1>3. ASSUME NEW w \in Workers, CancelsJob(w) \/ LacksClient(w)
      PROVE  Inv' /\ Grows /\ (Lifecycle!Next \/ UNCHANGED Logged)
  <2>1. PICK t \in Tasks : t = desk[w].task /\ Sent(t)
    BY <1>3 DEF CancelsJob, LacksClient, Sits, DeskOf, With
  <2>2. Inv'
    BY <1>3, <2>1, AsksKeeps, MissesClientKeeps DEF CancelsJob, LacksClient
  <2> QED
    BY <1>3, <2>2, <1>hop DEF CancelsJob, LacksClient, MissesClient, syncVars
<1>4. ASSUME NEW w \in Workers, NEW r \in RunIds, StopsRun(w, r)
      PROVE  Inv' /\ Grows /\ (Lifecycle!Next \/ UNCHANGED Logged)
  <2>1. PICK t \in Tasks \cup {NoTask} : t = active[r].task
    BY DEF RegistryInv, RegistryTypes, Entries
  <2>2. UNCHANGED <<status, history, syncVars>>
    BY <1>4 DEF StopsRun
  <2>3. CASE t # NoTask /\ record[t] = "handled" /\ status[t] \in Live
    <3>1. t \in Tasks /\ Go(w, Call("client", t))
      BY <1>4, <2>1, <2>3 DEF StopsRun
    <3> QED
      BY <2>2, <2>3, <3>1, <1>hop, AsksKeeps DEF syncVars
  <2>4. CASE ~(t # NoTask /\ record[t] = "handled" /\ status[t] \in Live)
    <3>1. Go(w, Idle)
      BY <1>4, <2>1, <2>4 DEF StopsRun
    <3> QED
      BY <2>2, <3>1, <1>hop, IdleKeeps DEF syncVars
  <2> QED
    BY <2>3, <2>4
<1>5. ASSUME NEW w \in Workers, Workbench(w) \/ Handler(w)
      PROVE  [Next]_vars
  BY SMTT(40), <1>5 DEF Workbench, Handler, Next, Continues
<1>6. ASSUME NEW w \in Workers,
             \/ Stats(w) \/ Copies(w) \/ CopyFails(w) \/ CopyLands(w) \/ Reports(w)
             \/ RefusesJob(w) \/ Attaches(w) \/ Watches(w) \/ Canceled(w) \/ Answers(w)
             \/ TimesOut(w) \/ \E r \in RunIds : Executes(w, r)
      PROVE  [Next]_vars
  BY <1>6 DEF Stats, Copies, CopyFails, CopyLands, Reports, RefusesJob, Attaches, Watches,
     Canceled, Answers, TimesOut, Executes
<1>7. CASE (\E t \in Tasks : Polling(t)) \/ (Outside /\ UNCHANGED runVars) \/ UNCHANGED taskVars
  BY <1>1, <1>7 DEF Polling, Next, taskVars
<1> QED
  BY <1>1, <1>2, <1>3, <1>4, <1>5, <1>6, <1>7 DEF RunsNext, Works, Execution

LEMMA RunsDesks ==
    ASSUME RunsInv, Inv', Grows, [RunsNext]_taskVars
    PROVE  \A w \in Workers : DeskOf(w)'
<1>1. CASE UNCHANGED <<desk, call>>
  BY <1>1, DeskStays
<1>2. ASSUME NEW w \in Workers, Workbench(w)
      PROVE  \A v \in Workers : DeskOf(v)'
  <2>1. desk' = desk /\ desk[w] = Free
    BY <1>2 DEF Workbench, runVars
  <2>2. \A v \in Workers \ {w} : call'[v] = call[v]
    BY <1>2 DEF Workbench, Begins, AsksCancel, Deletes, Delete, Starts, Collects, ClearCollect, Go,
       RunsInv, Inv, TypeOK, JobsTypeOK
  <2>3. DeskOf(w)'
    BY <2>1 DEF DeskOf, Free, With
  <2> QED
    BY <2>1, <2>2, <2>3, DeskStays
<1>3. ASSUME NEW w \in Workers, NEW r \in RunIds, StopsRun(w, r)
      PROVE  \A v \in Workers : DeskOf(v)'
  <2>1. desk' = desk /\ desk[w].at = "free" /\ desk[w].task = NoTask
    BY <1>3 DEF StopsRun, Sits, RunsInv, DeskOf, Before
  <2>2. \A v \in Workers \ {w} : call'[v] = call[v]
    BY <1>3 DEF StopsRun, Go, RunsInv, Inv, TypeOK, JobsTypeOK
  <2>3. DeskOf(w)'
    BY <2>1 DEF DeskOf, With
  <2> QED
    BY <2>1, <2>2, <2>3, DeskStays
<1>4. ASSUME NEW t \in Tasks, Polling(t)
      PROVE  UNCHANGED <<desk, call>>
  BY <1>4 DEF Polling, Polls, Wakes, ReadsStats, ReadsStatus, PollFails, Emits, Purges, jobVars,
     runVars
<1>5. CASE (Outside /\ UNCHANGED runVars) \/ UNCHANGED taskVars
  BY <1>1, <1>5 DEF Outside, Crashes, RemoteEnds, RemoteExpires, jobVars, runVars, taskVars, vars
<1>6. ASSUME NEW w \in Workers, Execution(w)
      PROVE  \A v \in Workers : DeskOf(v)'
  BY <1>6, CopyDesk, SeatDesk, WatchDesk, StartsJobDesk, CancelsJobDesk DEF Execution
<1> QED
  BY <1>1, <1>2, <1>3, <1>4, <1>5, <1>6, HandlerDesk, SeatDesk, WatchDesk DEF RunsNext, Works

LEMMA RunsKeeps ==
    ASSUME RunsInv, [RunsNext]_taskVars
    PROVE  RunsInv' /\ (Lifecycle!Next \/ UNCHANGED Logged)
BY RunsJobs, RunsDesks, RunsStep DEF RunsInv

LEMMA RunsInitially == RunsInit => RunsInv
<1> SUFFICES ASSUME RunsInit
             PROVE  RunsInv
  OBVIOUS
<1>1. Inv
  BY InitHolds DEF RunsInit
<1>2. RegistryInv
  BY NoRunAssumption DEF RunsInit, RegistryInv, RegistryTypes, Executions, Entries, Free, Absent,
     DeskLabels, Seats, NoGhostRun
<1>3. \A w \in Workers : DeskOf(w)
  BY DEF RunsInit, DeskOf, Free, With
<1> QED
  BY <1>1, <1>2, <1>3 DEF RunsInv

------------------------------------------------------------------------------
(* Type correctness of jobs, pollers, handlers and executions.             *)
THEOREM RunsTypes == RunsSpec => []RunsTypeOK
<1>1. RunsInv => RunsTypeOK
  BY DEF RunsInv, RunsTypeOK, Inv, RegistryInv, RegistryTypes, Executions, Entries
<1> QED
  BY <1>1, RunsInitially, RunsKeeps, PTL DEF RunsSpec

(* The run registry has an entry for each execution that is under way and  *)
(* no other: every way out of execute takes its own back, and no other.    *)
THEOREM RunsNoGhost == RunsSpec => []NoGhostRun
<1>1. RunsInv => NoGhostRun
  BY DEF RunsInv, RegistryInv
<1> QED
  BY <1>1, RunsInitially, RunsKeeps, PTL DEF RunsSpec

(* A job that the mirror shows as completed is one that rclone has finished*)
(* without an error, and a source that is gone had been moved.             *)
THEOREM RunsMirrorIsTrue == RunsSpec => []MirrorIsTrue
<1>1. RunsInv => MirrorIsTrue
  BY DEF RunsInv, Inv
<1> QED
  BY <1>1, RunsInitially, RunsKeeps, PTL DEF RunsSpec

(* An execution answers success for what rclone has done, and cancelled    *)
(* when the panel shows no live job of it any more.                        *)
THEOREM RunsAnswersAreTrue == RunsSpec => []AnswersAreTrue
<1>1. RunsInv => AnswersAreTrue
  BY DEF RunsInv, DeskOf, AnswersAreTrue, Answering
<1> QED
  BY <1>1, RunsInitially, RunsKeeps, PTL DEF RunsSpec

(* Neither the panel nor the host is told of an outcome a job did not have. *)
THEOREM RunsOutcomesAreTrue == RunsSpec => []OutcomesAreTrue
<1>1. MirrorIsTrue /\ AnswersAreTrue => OutcomesAreTrue
  BY DEF OutcomesAreTrue
<1> QED
  BY <1>1, RunsMirrorIsTrue, RunsAnswersAreTrue, PTL

(* Directory jobs live the lifecycle of the mirror, whoever starts, stops, *)
(* polls or loses them.                                                    *)
THEOREM RunsKeepLifecycle == RunsSpec => KeepsLifecycle
<1>1. RunsInit => Lifecycle!Init
  BY DEF RunsInit, Init, JobsInit, Lifecycle!Init, Submitted, NotPolled, NotSubmitted
<1>2. RunsInv /\ [RunsNext]_taskVars => [Lifecycle!Next]_(Lifecycle!vars)
  BY RunsKeeps DEF Lifecycle!vars, Logged, Shown
<1> QED
  BY <1>1, <1>2, RunsInitially, RunsKeeps, PTL DEF RunsSpec, KeepsLifecycle, Lifecycle!Spec

------------------------------------------------------------------------------
(* What a form means, and what is told to rclone of it.                    *)
(* What an option of rclone is about, and that a secret is for one that is *)
(* obscured.                                                               *)
Suits(x, option) ==
    x \in R!About(option) /\ (x \in R!Secrets => option \in R!PasswordKeys)
LEMMA AboutIs ==
    /\ Suits("access_key_id", "access_key_id") /\ Suits("secret_id", "access_key_id")
    /\ Suits("secret_access_key", "secret_access_key")
    /\ Suits("secret_key", "secret_access_key")
    /\ Suits("security_token", "session_token")
    /\ Suits("endpoint", "endpoint") /\ Suits("endpoint", "url")
    /\ Suits("endpoint", "host") /\ Suits("endpoint", "hostname")
    /\ Suits("account_name", "account") /\ Suits("access_key_id", "account")
    /\ Suits("username", "account")
    /\ Suits("account_key", "key") /\ Suits("secret_access_key", "key")
    /\ Suits("user", "user") /\ Suits("username", "user") /\ Suits("email", "user")
    /\ Suits("username", "email") /\ Suits("password", "pass")
    /\ Suits("key", "key_file") /\ Suits("known_hosts_strategy", "known_hosts_file")
    /\ Suits("access_token", "token") /\ Suits("refresh_token", "token")
    /\ Suits("token", "api_key") /\ Suits("share", "share_name")
    /\ Suits("repo_name", "library") /\ Suits("adc", "env_auth")
    /\ Suits("enable_virtual_host_style", "force_path_style")
    /\ Suits("credential", "service_account_credentials")
    /\ Suits("region", "region") /\ Suits("domain", "domain")
    /\ Suits("client_id", "client_id") /\ Suits("client_secret", "client_secret")
    /\ Suits("username", "username") /\ Suits("password", "password")
BY DEF R!About, Suits, R!PasswordKeys, R!Secrets

(* What a protocol shows, and what of it goes into the root.               *)
LEMMA FieldsShown ==
    ASSUME NEW f
    PROVE  /\ f.protocol = "s3" =>
                 R!Shown(f) = {"access_key_id", "secret_access_key", "bucket", "endpoint", "region",
                               "enable_virtual_host_style"}
           /\ f.protocol = "cos" =>
                 R!Shown(f) = {"bucket", "endpoint", "secret_id", "secret_key", "security_token"}
           /\ f.protocol \in R!Vendors \ {"cos"} =>
                 R!Shown(f) = {"access_key_id", "secret_access_key", "bucket", "endpoint"}
           /\ f.protocol = "gcs" =>
                 R!Shown(f) = {"bucket", "endpoint",
                               IF "adc" \in f.fields THEN "adc" ELSE "credential"}
           /\ f.protocol = "azblob" =>
                 R!Shown(f) = {"container", "account_name", "account_key", "endpoint"}
           /\ f.protocol = "webdav" => R!Shown(f) = {"username", "password", "endpoint"}
           /\ f.protocol = "ftp" => R!Shown(f) = {"user", "password", "endpoint"}
           /\ f.protocol = "sftp" =>
                 R!Shown(f) = {"user", "key", "known_hosts_strategy", "endpoint"}
           /\ f.protocol = "sftp-native" =>
                 R!Shown(f) = {"user", "password", "key", "known_hosts_strategy", "endpoint"}
           /\ f.protocol = "smb" =>
                 R!Shown(f) = {"share", "username", "domain", "password", "endpoint"}
           /\ f.protocol \in R!Drives =>
                 R!Shown(f) = {"access_token", "refresh_token", "client_id", "client_secret"}
           /\ f.protocol = "yandex-disk" => R!Shown(f) = {"access_token"}
           /\ f.protocol = "koofr" => R!Shown(f) = {"email", "password", "endpoint"}
           /\ f.protocol = "pcloud" => R!Shown(f) = {"username", "password", "endpoint"}
           /\ f.protocol = "seafile" =>
                 R!Shown(f) = {"repo_name", "username", "password", "endpoint"}
           /\ f.protocol = "azurefiles" =>
                 R!Shown(f) = {"access_key_id", "secret_access_key", "endpoint", "share",
                               "username"}
           /\ f.protocol = "b2" => R!Shown(f) = {"access_key_id", "secret_access_key"}
           /\ f.protocol = "crypt" => R!Shown(f) = {"password"}
           /\ f.protocol = "filen" => R!Shown(f) = {"username", "password", "token"}
           /\ f.protocol \in {"memory", "fs", "rclone-custom", "aliyun-drive"} => R!Shown(f) = {}
BY DEF R!Shown, R!Vendors, R!Keys, R!Drives

LEMMA InRootIs ==
    ASSUME NEW f
    PROVE  /\ f.protocol \in R!S3Family \cup {"gcs"} => R!InRoot(f) = {"bucket"}
           /\ f.protocol = "azblob" => R!InRoot(f) = {"container"}
           /\ f.protocol = "smb" => R!InRoot(f) = {"none", "share"}
           /\ f.protocol \notin R!S3Family \cup {"gcs", "azblob", "smb"} => R!InRoot(f) = {"none"}
BY DEF R!InRoot, R!BucketField, R!S3Family, R!Vendors

(* The endpoint that is told to rclone is there if that of the form is.    *)
AsTold(f, e) == e = R!NoEndpoint <=> R!Declared(f) = R!NoEndpoint
Suited(f, e, told) == told[1] \in R!Filled(f, e) \cap R!Shown(f) /\ Suits(told[1], told[2])
Covers(f, e, x, options) ==
    x \in R!Filled(f, e) => \E told \in options : told[1] = x /\ x \in R!About(told[2])
Own(f, told) == told[1] \in OwnValues \ {"endpoint"} \/ told[1] = f.endpoint.user
Tidy(f, e, options) ==
    /\ \A x \in R!Shown(f) \ R!InRoot(f) : Covers(f, e, x, options)
    /\ \A told \in options : Own(f, told) \/ Suited(f, e, told)
Row(told, x, option) == told[1] = x /\ told[2] = option

LEMMA RowCovers ==
    ASSUME NEW f, NEW e, NEW options, NEW x, NEW option, Suits(x, option),
           x \in R!Filled(f, e) => <<x, option>> \in options
    PROVE  Covers(f, e, x, options)
BY DEF Covers, Suits

LEMMA S3Tells ==
    ASSUME NEW f, NEW e, IsConnection(f), f.protocol \in R!S3Family, AsTold(f, e)
    PROVE  Tidy(f, e, R!S3Options(f, e).options)
<1> DEFINE opts == R!S3Options(f, e).options
           has(x) == x \in R!Filled(f, e)
<1>1. opts = R!Told(f, e, R!S3Rows(f)) \cup {<<R!S3Provider(f, e), "provider">>}
           \cup R!When(f.protocol = "r2", "auto", "region")
           \cup R!When(f.protocol = "s3", R!OrElse(f, "region", "us-east-1"), "region")
           \cup R!When(f.protocol = "s3", R!OrElse(f, "enable_virtual_host_style", "true"),
                     "force_path_style")
  BY DEF R!S3Options, R!Says
<1> HIDE DEF opts
<1>2. R!S3Provider(f, e) \in OwnValues \ {"endpoint"}
  BY DEF R!S3Provider, OwnValues, R!Vendors
<1>3. ASSUME NEW x, NEW v, v \in OwnValues \ {"endpoint"}
      PROVE  R!OrElse(f, x, v) \in OwnValues \ {"endpoint"} \/ (R!OrElse(f, x, v) = x /\ has(x))
  BY <1>3 DEF R!OrElse, R!Filled
<1>4. ASSUME NEW told \in opts
      PROVE  \/ Own(f, told)
             \/ told \in R!S3Rows(f) /\ has(told[1])
             \/ f.protocol = "s3" /\ Row(told, "region", "region") /\ has("region")
             \/ /\ f.protocol = "s3"
                /\ Row(told, "enable_virtual_host_style", "force_path_style")
                /\ has("enable_virtual_host_style")
  <2>1. {"us-east-1", "true", "auto"} \subseteq OwnValues \ {"endpoint"}
    BY DEF OwnValues
  <2>2. /\ R!OrElse(f, "region", "us-east-1") \in OwnValues \ {"endpoint"}
           \/ (R!OrElse(f, "region", "us-east-1") = "region" /\ has("region"))
        /\ R!OrElse(f, "enable_virtual_host_style", "true") \in OwnValues \ {"endpoint"}
           \/ (/\ R!OrElse(f, "enable_virtual_host_style", "true") = "enable_virtual_host_style"
               /\ has("enable_virtual_host_style"))
    BY <1>3, <2>1
  <2> QED BY <1>1, <1>2, <2>1, <2>2 DEF R!Told, R!When, Own, Row
<1>5. \A row \in R!S3Rows(f) : has(row[1]) => row \in opts
  BY <1>1 DEF R!Told
<1>6. f.protocol = "s3" =>
          /\ has("region") /\ "region" \in f.fields => <<"region", "region">> \in opts
          /\ has("enable_virtual_host_style") /\ "enable_virtual_host_style" \in f.fields =>
                <<"enable_virtual_host_style", "force_path_style">> \in opts
  BY <1>1 DEF R!OrElse, R!When
<1>7. has("region") => "region" \in f.fields
  BY DEF R!Filled
<1>8. has("enable_virtual_host_style") => "enable_virtual_host_style" \in f.fields
  BY DEF R!Filled
<1>9. R!InRoot(f) = {"bucket"}
  BY InRootIs
<1>10. CASE f.protocol = "cos"
  <2>1. R!S3Rows(f) = {<<"secret_id", "access_key_id">>, <<"secret_key", "secret_access_key">>,
                       <<"security_token", "session_token">>, <<"endpoint", "endpoint">>}
    BY <1>10 DEF R!S3Rows
  <2>2. /\ Covers(f, e, "secret_id", opts) /\ Covers(f, e, "secret_key", opts)
        /\ Covers(f, e, "security_token", opts) /\ Covers(f, e, "endpoint", opts)
    BY <1>5, <2>1, RowCovers, AboutIs
  <2>3. ASSUME NEW told \in opts PROVE Own(f, told) \/ Suited(f, e, told)
    BY <1>4, <1>10, <2>1, FieldsShown, AboutIs DEF Suited
  <2> QED BY <1>9, <1>10, <2>2, <2>3, FieldsShown DEF Tidy, opts
<1>11. CASE f.protocol # "cos"
  <2>1. R!S3Rows(f) = {<<"access_key_id", "access_key_id">>,
                       <<"secret_access_key", "secret_access_key">>, <<"endpoint", "endpoint">>}
    BY <1>11 DEF R!S3Rows
  <2>2. /\ Covers(f, e, "access_key_id", opts) /\ Covers(f, e, "secret_access_key", opts)
        /\ Covers(f, e, "endpoint", opts)
    BY <1>5, <2>1, RowCovers, AboutIs
  <2>3. f.protocol = "s3" => /\ Covers(f, e, "region", opts)
                             /\ Covers(f, e, "enable_virtual_host_style", opts)
    BY <1>6, <1>7, <1>8, RowCovers, AboutIs
  <2>4. ASSUME NEW told \in opts PROVE Own(f, told) \/ Suited(f, e, told)
    BY <1>4, <1>11, <2>1, FieldsShown, AboutIs DEF Suited, Row, R!S3Family
  <2> QED BY <1>9, <1>11, <2>2, <2>3, <2>4, FieldsShown DEF Tidy, opts, R!S3Family
<1> QED BY <1>10, <1>11

LEMMA ToldIs ==
    ASSUME NEW f, NEW e, NEW rows
    PROVE  /\ \A row \in rows : row[1] \in R!Filled(f, e) => row \in R!Told(f, e, rows)
           /\ \A told \in R!Told(f, e, rows) : told \in rows /\ told[1] \in R!Filled(f, e)
BY DEF R!Told

LEMMA OrElseIs ==
    ASSUME NEW f, NEW e, NEW x, NEW v, v \in OwnValues \ {"endpoint"}
    PROVE  \/ R!OrElse(f, x, v) \in OwnValues \ {"endpoint"} /\ x \notin f.fields
           \/ R!OrElse(f, x, v) = x /\ x \in f.fields /\ x \in R!Filled(f, e)
BY DEF R!OrElse, R!Filled

LEMMA FieldIs ==
    ASSUME NEW f, NEW e, NEW x
    PROVE  /\ x \in R!Filled(f, e) /\ x # "endpoint" => x \in f.fields
           /\ x \in f.fields => x \in R!Filled(f, e)
BY DEF R!Filled

LEMMA GcsTells ==
    ASSUME NEW f, NEW e, f.protocol = "gcs", R!GcsOptions(f, e).ok
    PROVE  Tidy(f, e, R!GcsOptions(f, e).options)
<1> DEFINE opts == R!GcsOptions(f, e).options
           rows == {<<"endpoint", "endpoint">>}
           way == IF "adc" \in f.fields THEN <<"adc", "env_auth">>
                  ELSE <<"credential", "service_account_credentials">>
<1>1. opts = R!Told(f, e, rows) \cup {way} /\ {"adc", "credential"} \cap f.fields # {}
  BY DEF R!GcsOptions, R!Says
<1>2. Suited(f, e, way) /\ way[1] = IF "adc" \in f.fields THEN "adc" ELSE "credential"
  BY <1>1, FieldsShown, AboutIs, FieldIs DEF Suited
<1>r. \A row \in rows : row[1] \in R!Filled(f, e) => row \in opts
  BY <1>1, ToldIs
<1> HIDE DEF opts
<1>3. Covers(f, e, "endpoint", opts)
  BY <1>r, RowCovers, AboutIs
<1>4. Covers(f, e, IF "adc" \in f.fields THEN "adc" ELSE "credential", opts)
  BY <1>1, <1>2 DEF Covers, Suited, Suits
<1>5. ASSUME NEW told \in opts PROVE Suited(f, e, told)
  BY <1>1, <1>2, ToldIs, FieldsShown, AboutIs DEF Suited
<1> QED BY <1>3, <1>4, <1>5, FieldsShown, InRootIs DEF Tidy, opts

LEMMA AzblobTells ==
    ASSUME NEW f, NEW e, f.protocol = "azblob"
    PROVE  Tidy(f, e, R!AzblobOptions(f, e).options)
<1> DEFINE opts == R!AzblobOptions(f, e).options
           rows == {<<"account_name", "account">>, <<"account_key", "key">>,
                    <<"endpoint", "endpoint">>}
<1>1. opts = R!Told(f, e, rows)
  BY DEF R!AzblobOptions, R!Says
<1>r. \A row \in rows : row[1] \in R!Filled(f, e) => row \in opts
  BY <1>1, ToldIs
<1> HIDE DEF opts
<1>2. /\ Covers(f, e, "account_name", opts) /\ Covers(f, e, "account_key", opts)
      /\ Covers(f, e, "endpoint", opts)
  BY <1>r, RowCovers, AboutIs
<1>3. ASSUME NEW told \in opts PROVE Suited(f, e, told)
  BY <1>1, ToldIs, FieldsShown, AboutIs DEF Suited
<1> QED BY <1>2, <1>3, FieldsShown, InRootIs DEF Tidy, opts

LEMMA WebdavTells ==
    ASSUME NEW f, NEW e, f.protocol = "webdav"
    PROVE  Tidy(f, e, R!WebdavOptions(f, e).options)
<1> DEFINE opts == R!WebdavOptions(f, e).options
           rows == {<<"endpoint", "url">>, <<"username", "user">>, <<"password", "pass">>}
<1>1. opts = R!Told(f, e, rows) \cup {<<"other", "vendor">>}
  BY DEF R!WebdavOptions, R!Says
<1>r. \A row \in rows : row[1] \in R!Filled(f, e) => row \in opts
  BY <1>1, ToldIs
<1> HIDE DEF opts
<1>2. /\ Covers(f, e, "endpoint", opts) /\ Covers(f, e, "username", opts)
      /\ Covers(f, e, "password", opts)
  BY <1>r, RowCovers, AboutIs
<1>3. ASSUME NEW told \in opts PROVE Own(f, told) \/ Suited(f, e, told)
  BY <1>1, ToldIs, FieldsShown, AboutIs DEF Suited, Own, OwnValues
<1> QED BY <1>2, <1>3, FieldsShown DEF Tidy, opts

LEMMA FtpTells ==
    ASSUME NEW f, NEW e, f.protocol = "ftp"
    PROVE  Tidy(f, e, R!FtpOptions(f, e).options)
<1> DEFINE opts == R!FtpOptions(f, e).options
           rows == {<<"endpoint", "host">>, <<"password", "pass">>}
           user == R!OrElse(f, "user", "anonymous")
<1>1. opts = R!Told(f, e, rows) \cup {<<user, "user">>} \cup R!When(e.scheme = "ftps", "true", "tls")
  BY DEF R!FtpOptions, R!Says
<1>2. "anonymous" \in OwnValues \ {"endpoint"} /\ "true" \in OwnValues \ {"endpoint"}
  BY DEF OwnValues
<1>3. \/ user \in OwnValues \ {"endpoint"} /\ "user" \notin f.fields
      \/ user = "user" /\ "user" \in R!Filled(f, e)
  BY <1>2, OrElseIs
<1>r. \A row \in rows : row[1] \in R!Filled(f, e) => row \in opts
  BY <1>1, ToldIs
<1> HIDE DEF opts, user
<1>4. /\ Covers(f, e, "endpoint", opts) /\ Covers(f, e, "password", opts)
  BY <1>r, RowCovers, AboutIs
<1>5. Covers(f, e, "user", opts)
  BY <1>1, <1>3, RowCovers, AboutIs, FieldIs
<1>6. ASSUME NEW told \in opts PROVE Own(f, told) \/ Suited(f, e, told)
  <2>1. CASE told = <<user, "user">>
    BY <2>1, <1>3, FieldsShown, AboutIs DEF Suited, Own
  <2>2. CASE told = <<"true", "tls">>
    BY <2>2, <1>2 DEF Own
  <2>3. CASE told \in R!Told(f, e, rows)
    BY <2>3, ToldIs, FieldsShown, AboutIs DEF Suited
  <2> QED BY <1>1, <2>1, <2>2, <2>3 DEF R!When
<1> QED BY <1>4, <1>5, <1>6, FieldsShown DEF Tidy, opts

LEMMA SmbTells ==
    ASSUME NEW f, NEW e, f.protocol = "smb"
    PROVE  Tidy(f, e, R!SmbOptions(f, e).options)
<1> DEFINE opts == R!SmbOptions(f, e).options
           rows == {<<"endpoint", "host">>, <<"username", "user">>, <<"password", "pass">>,
                    <<"domain", "domain">>}
<1>1. opts = R!Told(f, e, rows)
  BY DEF R!SmbOptions, R!Says
<1>r. \A row \in rows : row[1] \in R!Filled(f, e) => row \in opts
  BY <1>1, ToldIs
<1> HIDE DEF opts
<1>2. /\ Covers(f, e, "endpoint", opts) /\ Covers(f, e, "username", opts)
      /\ Covers(f, e, "password", opts) /\ Covers(f, e, "domain", opts)
  BY <1>r, RowCovers, AboutIs
<1>3. ASSUME NEW told \in opts PROVE Suited(f, e, told)
  BY <1>1, ToldIs, FieldsShown, AboutIs DEF Suited
<1> QED BY <1>2, <1>3, FieldsShown, InRootIs DEF Tidy, opts

LEMMA TokensAre ==
    ASSUME NEW f
    PROVE  /\ \A x \in {"access_token", "refresh_token"} :
                  x \in f.fields => <<x, "token">> \in R!TokenOf(f)
           /\ \A told \in R!TokenOf(f) :
                  /\ told[1] \in {"access_token", "refresh_token"} \cap f.fields
                  /\ told[2] = "token"
BY DEF R!TokenOf, R!Tokens

LEMMA OauthTells ==
    ASSUME NEW f, NEW e, f.protocol \in R!Drives
    PROVE  Tidy(f, e, R!OauthOptions(f).options)
<1> DEFINE opts == R!OauthOptions(f).options
           rows == {<<"client_id", "client_id">>, <<"client_secret", "client_secret">>}
<1>1. opts = R!Told(f, R!NoEndpoint, rows) \cup R!TokenOf(f)
  BY DEF R!OauthOptions, R!Says
<1>r. \A row \in rows : row[1] \in R!Filled(f, R!NoEndpoint) => row \in opts
  BY <1>1, ToldIs
<1> HIDE DEF opts
<1>2. \A x : x # "endpoint" => (x \in R!Filled(f, e) <=> x \in R!Filled(f, R!NoEndpoint))
  BY FieldIs
<1>3. /\ Covers(f, e, "client_id", opts) /\ Covers(f, e, "client_secret", opts)
  BY <1>r, <1>2, RowCovers, AboutIs
<1>4. /\ Covers(f, e, "access_token", opts) /\ Covers(f, e, "refresh_token", opts)
  BY <1>1, RowCovers, AboutIs, FieldIs, TokensAre
<1>5. ASSUME NEW told \in opts PROVE Suited(f, e, told)
  <2>1. CASE told \in R!TokenOf(f)
    BY <2>1, TokensAre, FieldsShown, AboutIs, FieldIs DEF Suited
  <2>2. CASE told \in R!Told(f, R!NoEndpoint, rows)
    BY <1>2, <2>2, ToldIs, FieldsShown, AboutIs DEF Suited
  <2> QED BY <1>1, <2>1, <2>2
<1> QED BY <1>3, <1>4, <1>5, FieldsShown DEF Tidy, opts

LEMMA YandexTells ==
    ASSUME NEW f, NEW e, f.protocol = "yandex-disk", R!YandexOptions(f).ok
    PROVE  Tidy(f, e, R!YandexOptions(f).options)
<1> DEFINE opts == R!YandexOptions(f).options
<1>1. opts = {<<"access_token", "token">>} /\ "access_token" \in f.fields
  BY DEF R!YandexOptions, R!Says
<1> HIDE DEF opts
<1>2. Covers(f, e, "access_token", opts)
  BY <1>1, RowCovers, AboutIs
<1>3. ASSUME NEW told \in opts PROVE Suited(f, e, told)
  BY <1>1, FieldsShown, AboutIs, FieldIs DEF Suited
<1> QED BY <1>2, <1>3, FieldsShown DEF Tidy, opts

LEMMA SeafileTells ==
    ASSUME NEW f, NEW e, f.protocol = "seafile"
    PROVE  Tidy(f, e, R!SeafileOptions(f, e).options)
<1> DEFINE opts == R!SeafileOptions(f, e).options
           rows == {<<"endpoint", "url">>, <<"username", "user">>, <<"password", "pass">>,
                    <<"repo_name", "library">>}
<1>1. opts = R!Told(f, e, rows)
  BY DEF R!SeafileOptions, R!Says
<1>r. \A row \in rows : row[1] \in R!Filled(f, e) => row \in opts
  BY <1>1, ToldIs
<1> HIDE DEF opts
<1>2. /\ Covers(f, e, "endpoint", opts) /\ Covers(f, e, "username", opts)
      /\ Covers(f, e, "password", opts) /\ Covers(f, e, "repo_name", opts)
  BY <1>r, RowCovers, AboutIs
<1>3. ASSUME NEW told \in opts PROVE Suited(f, e, told)
  BY <1>1, ToldIs, FieldsShown, AboutIs DEF Suited
<1> QED BY <1>2, <1>3, FieldsShown DEF Tidy, opts

LEMMA KoofrTells ==
    ASSUME NEW f, NEW e, f.protocol = "koofr"
    PROVE  Tidy(f, e, R!KoofrOptions(f, e).options)
<1> DEFINE opts == R!KoofrOptions(f, e).options
           rows == {<<"endpoint", "endpoint">>, <<"email", "user">>, <<"password", "password">>}
<1>1. opts = R!Told(f, e, rows)
  BY DEF R!KoofrOptions, R!Says
<1>r. \A row \in rows : row[1] \in R!Filled(f, e) => row \in opts
  BY <1>1, ToldIs
<1> HIDE DEF opts
<1>2. /\ Covers(f, e, "endpoint", opts) /\ Covers(f, e, "email", opts)
      /\ Covers(f, e, "password", opts)
  BY <1>r, RowCovers, AboutIs
<1>3. ASSUME NEW told \in opts PROVE Suited(f, e, told)
  BY <1>1, ToldIs, FieldsShown, AboutIs DEF Suited
<1> QED BY <1>2, <1>3, FieldsShown DEF Tidy, opts

LEMMA PcloudTells ==
    ASSUME NEW f, NEW e, f.protocol = "pcloud", f.fields \subseteq R!Shown(f) \cup {"pem"}
    PROVE  Tidy(f, e, R!PcloudOptions(f, e).options)
<1> DEFINE opts == R!PcloudOptions(f, e).options
           rows == {<<"username", "username">>, <<"password", "password">>,
                    <<"endpoint", "hostname">>}
<1>1. opts = R!Told(f, e, rows) \cup R!TokenOf(f)
  BY DEF R!PcloudOptions, R!Says
<1>r. \A row \in rows : row[1] \in R!Filled(f, e) => row \in opts
  BY <1>1, ToldIs
<1> HIDE DEF opts
<1>2. R!TokenOf(f) = {}
  <2>1. {"access_token", "refresh_token"} \cap f.fields = {}
    BY FieldsShown
  <2> QED BY <2>1, TokensAre
<1>3. /\ Covers(f, e, "endpoint", opts) /\ Covers(f, e, "username", opts)
      /\ Covers(f, e, "password", opts)
  BY <1>r, RowCovers, AboutIs
<1>4. ASSUME NEW told \in opts PROVE Suited(f, e, told)
  BY <1>1, <1>2, ToldIs, FieldsShown, AboutIs DEF Suited
<1> QED BY <1>3, <1>4, FieldsShown DEF Tidy, opts

(* Of an endpoint the user is let go or kept.                              *)
UserLeft(f, e) ==
    e.user \in {"", f.endpoint.user} /\ (e.user # "" => "user" \notin f.fields)
LEMMA UserIs ==
    ASSUME NEW f, NEW e, UserLeft(f, e), NEW told, told[1] = e.user
    PROVE  e.user # "" => Own(f, told) /\ "user" \notin f.fields
BY DEF UserLeft, Own
LEMMA SftpTells ==
    ASSUME NEW f, NEW e, f.protocol \in R!Sftp, R!SftpOptions(f, e).ok,
           UserLeft(f, e),
           f.fields \subseteq R!Shown(f) \cup {"pem"}
    PROVE  Tidy(f, e, R!SftpOptions(f, e).options)
<1> DEFINE opts == R!SftpOptions(f, e).options
           rows == {<<"endpoint", "host">>, <<"password", "pass">>, <<"key", "key_file">>,
                    <<"known_hosts_strategy", "known_hosts_file">>}
           name == R!OrElse(f, "user", "username")
           user == IF e.user # "" THEN {<<e.user, "user">>} ELSE R!Told(f, e, {<<name, "user">>})
<1>1. opts = R!Told(f, e, rows) \cup user /\ "pem" \notin f.fields
  BY DEF R!SftpOptions, R!SftpRows, R!Says
<1>2. f.fields \subseteq R!Shown(f)
  BY <1>1
<1>3. f.protocol \in {"sftp", "sftp-native"}
  BY DEF R!Sftp
<1>4. "username" \notin f.fields
  BY <1>2, <1>3, FieldsShown
<1>5. \A x : x \in R!Filled(f, e) => x \in R!Shown(f)
  <2>1. "endpoint" \in R!Shown(f)
    BY <1>3, FieldsShown
  <2>2. \A x : x \in R!Filled(f, e) => x \in f.fields \cup {"endpoint"}
    BY DEF R!Filled
  <2> QED BY <1>2, <2>1, <2>2
<1>6. "user" \in f.fields => name = "user"
  BY DEF R!OrElse
<1>7. "user" \notin f.fields => name = "username"
  BY DEF R!OrElse
<1>8. \A told \in user : Own(f, told) \/ Suited(f, e, told)
  <2>1. CASE e.user # ""
    <3>1. user = {<<e.user, "user">>}
      BY <2>1
    <3> HIDE DEF user
    <3>2. \A told \in user : told[1] = e.user
      BY <3>1
    <3> QED BY <2>1, <3>2, UserIs
  <2>2. CASE e.user = ""
    <3>1. user = R!Told(f, e, {<<name, "user">>})
      BY <2>2
    <3> HIDE DEF user, name
    <3>2. ASSUME NEW told \in user PROVE told = <<name, "user">> /\ name \in R!Filled(f, e)
      BY <3>1, ToldIs
    <3>3. name \in {"user", "username"} /\ "username" \notin R!Filled(f, e)
      BY <1>4, <1>6, <1>7, FieldIs
    <3>4. ASSUME NEW told \in user PROVE Suited(f, e, told)
      <4>1. told = <<"user", "user">> /\ "user" \in R!Filled(f, e)
        BY <3>2, <3>3
      <4> QED BY <4>1, <1>5, AboutIs DEF Suited
    <3> QED BY <3>4
  <2> QED BY <2>1, <2>2
<1>9. "user" \in R!Filled(f, e) => <<"user", "user">> \in user
  BY <1>6, FieldIs, ToldIs DEF UserLeft
<1> HIDE DEF opts, user, name
<1>r. \A row \in rows : row[1] \in R!Filled(f, e) => row \in opts
  BY <1>1, ToldIs
<1>10. /\ Covers(f, e, "endpoint", opts) /\ Covers(f, e, "password", opts)
       /\ Covers(f, e, "key", opts) /\ Covers(f, e, "known_hosts_strategy", opts)
       /\ Covers(f, e, "user", opts)
  BY <1>r, <1>1, <1>9, RowCovers, AboutIs
<1>11. ASSUME NEW told \in opts PROVE Own(f, told) \/ Suited(f, e, told)
  <2>1. CASE told \in R!Told(f, e, rows)
    <3>1. told \in rows /\ told[1] \in R!Filled(f, e)
      BY <2>1, ToldIs
    <3>2. Suits(told[1], told[2])
      BY <3>1, AboutIs
    <3> QED BY <3>1, <3>2, <1>5 DEF Suited
  <2> QED BY <1>1, <1>8, <2>1
<1> QED BY <1>3, <1>10, <1>11, FieldsShown DEF Tidy, opts

(* What the JSON says stays unless a field says it.                        *)
LEMMA JsonIs ==
    ASSUME NEW names
    PROVE  /\ \A told \in R!Json(names) : told[1] = "config"
           /\ R!Names(R!Json(names)) = names
<1>1. \A o \in names : <<"config", o>> \in R!Json(names)
  BY DEF R!Json
<1>2. \A told \in R!Json(names) : told[1] = "config" /\ told[2] \in names
  BY DEF R!Json
<1>3. \A o \in names : <<"config", o>>[2] = o
  OBVIOUS
<1>4. names \subseteq R!Names(R!Json(names))
  BY <1>1, <1>3 DEF R!Names
<1>5. R!Names(R!Json(names)) \subseteq names
  BY <1>2 DEF R!Names
<1> QED BY <1>2, <1>4, <1>5

LEMMA NamesJoin ==
    ASSUME NEW options, NEW others
    PROVE  /\ R!Names(options \cup others) = R!Names(options) \cup R!Names(others)
           /\ \A told \in options : told[2] \in R!Names(options)
BY DEF R!Names

GenericTold(f, e) == R!Told(f, e, R!GenericRows(f))
LEMMA GenericIs ==
    ASSUME NEW f, NEW e
    PROVE  /\ R!GenericOptions(f, e).options =
                 GenericTold(f, e) \cup R!Json(f.json.options \ R!Names(GenericTold(f, e)))
           /\ R!GenericOptions(f, e).dials =
                 IF "endpoint" \in R!Names(GenericTold(f, e)) THEN e ELSE R!NoEndpoint
BY DEF R!GenericOptions, R!Says, GenericTold

LEMMA GenericJson ==
    ASSUME NEW f, NEW e
    PROVE  f.json.options \subseteq R!Names(R!GenericOptions(f, e).options)
<1> DEFINE rows == GenericTold(f, e)
           json == R!Json(f.json.options \ R!Names(rows))
<1>1. R!Names(R!GenericOptions(f, e).options) = R!Names(rows) \cup R!Names(json)
  BY GenericIs, NamesJoin
<1>2. R!Names(json) = f.json.options \ R!Names(rows)
  BY JsonIs
<1> QED BY <1>1, <1>2

LEMMA GenericRowsAre ==
    ASSUME NEW f
    PROVE  /\ f.protocol = "azurefiles" =>
                 R!GenericRows(f) =
                     {<<"endpoint", "endpoint">>, <<"share", "share_name">>,
                      <<"secret_access_key", "key">>,
                      <<R!OrElse(f, "access_key_id", "username"), "account">>}
           /\ f.protocol = "b2" =>
                 R!GenericRows(f) =
                     {<<"access_key_id", "account">>, <<"secret_access_key", "key">>}
           /\ f.protocol = "crypt" => R!GenericRows(f) = {<<"password", "password">>}
           /\ f.protocol = "filen" =>
                 R!GenericRows(f) =
                     {<<"username", "email">>, <<"password", "password">>, <<"token", "api_key">>}
           /\ f.protocol = "memory" => R!GenericRows(f) = {}
BY DEF R!GenericRows

LEMMA GenericTells ==
    ASSUME NEW f, NEW e, f.protocol \in R!Generic,
           f.protocol = "azurefiles" => ~({"username", "access_key_id"} \subseteq f.fields)
    PROVE  Tidy(f, e, R!GenericOptions(f, e).options)
<1> DEFINE opts == R!GenericOptions(f, e).options
           rows == R!GenericRows(f)
           json == R!Json(f.json.options \ R!Names(GenericTold(f, e)))
           name == R!OrElse(f, "access_key_id", "username")
<1>1. opts = GenericTold(f, e) \cup json
  BY GenericIs
<1>2. \A told \in json : Own(f, told)
  BY JsonIs DEF Own, OwnValues
<1>3. \A told \in GenericTold(f, e) : told \in rows /\ told[1] \in R!Filled(f, e)
  BY ToldIs DEF GenericTold
<1>4. \A row \in rows : row[1] \in R!Filled(f, e) => row \in opts
  BY <1>1, ToldIs DEF GenericTold
<1>5. f.protocol \in {"azurefiles", "b2", "crypt", "filen", "memory"}
  BY DEF R!Generic
<1> HIDE DEF opts, rows, json
<1>6. \/ name = "access_key_id" /\ "access_key_id" \in f.fields
      \/ name = "username" /\ "access_key_id" \notin f.fields
  BY DEF R!OrElse
<1> HIDE DEF name
<1>7. CASE f.protocol = "azurefiles"
  <2>1. rows = {<<"endpoint", "endpoint">>, <<"share", "share_name">>,
                <<"secret_access_key", "key">>, <<name, "account">>}
    BY <1>7, GenericRowsAre DEF rows, name
  <2>2. /\ Covers(f, e, "endpoint", opts) /\ Covers(f, e, "share", opts)
        /\ Covers(f, e, "secret_access_key", opts)
    BY <1>4, <2>1, RowCovers, AboutIs
  <2>3. Covers(f, e, "access_key_id", opts)
    BY <1>4, <1>6, <2>1, RowCovers, AboutIs, FieldIs
  <2>4. Covers(f, e, "username", opts)
    <3>1. "username" \in R!Filled(f, e) => name = "username"
      BY <1>6, <1>7, FieldIs
    <3> QED BY <1>4, <2>1, <3>1, RowCovers, AboutIs
  <2>5. ASSUME NEW told \in rows, told[1] \in R!Filled(f, e) PROVE Suited(f, e, told)
    BY <1>6, <1>7, <2>1, <2>5, FieldsShown, AboutIs DEF Suited
  <2> QED BY <1>1, <1>2, <1>3, <1>7, <2>2, <2>3, <2>4, <2>5, FieldsShown DEF Tidy, opts
<1>8. CASE f.protocol = "b2"
  <2>1. rows = {<<"access_key_id", "account">>, <<"secret_access_key", "key">>}
    BY <1>8, GenericRowsAre DEF rows
  <2>2. Covers(f, e, "access_key_id", opts) /\ Covers(f, e, "secret_access_key", opts)
    BY <1>4, <2>1, RowCovers, AboutIs
  <2>3. ASSUME NEW told \in rows, told[1] \in R!Filled(f, e) PROVE Suited(f, e, told)
    BY <1>8, <2>1, <2>3, FieldsShown, AboutIs DEF Suited
  <2> QED BY <1>1, <1>2, <1>3, <1>8, <2>2, <2>3, FieldsShown DEF Tidy, opts
<1>9. CASE f.protocol = "crypt"
  <2>1. rows = {<<"password", "password">>}
    BY <1>9, GenericRowsAre DEF rows
  <2>2. Covers(f, e, "password", opts)
    BY <1>4, <2>1, RowCovers, AboutIs
  <2>3. ASSUME NEW told \in rows, told[1] \in R!Filled(f, e) PROVE Suited(f, e, told)
    BY <1>9, <2>1, <2>3, FieldsShown, AboutIs DEF Suited
  <2> QED BY <1>1, <1>2, <1>3, <1>9, <2>2, <2>3, FieldsShown DEF Tidy, opts
<1>10. CASE f.protocol = "filen"
  <2>1. rows = {<<"username", "email">>, <<"password", "password">>, <<"token", "api_key">>}
    BY <1>10, GenericRowsAre DEF rows
  <2>2. /\ Covers(f, e, "username", opts) /\ Covers(f, e, "password", opts)
        /\ Covers(f, e, "token", opts)
    BY <1>4, <2>1, RowCovers, AboutIs
  <2>3. ASSUME NEW told \in rows, told[1] \in R!Filled(f, e) PROVE Suited(f, e, told)
    BY <1>10, <2>1, <2>3, FieldsShown, AboutIs DEF Suited
  <2> QED BY <1>1, <1>2, <1>3, <1>10, <2>2, <2>3, FieldsShown DEF Tidy, opts
<1>11. CASE f.protocol = "memory"
  <2>1. rows = {}
    BY <1>11, GenericRowsAre DEF rows
  <2> QED BY <1>1, <1>2, <1>3, <1>11, <2>1, FieldsShown DEF Tidy, opts
<1> QED BY <1>5, <1>7, <1>8, <1>9, <1>10, <1>11

LEMMA CustomTells ==
    ASSUME NEW f, NEW e, f.protocol = "rclone-custom"
    PROVE  /\ Tidy(f, e, R!CustomOptions(f).options)
           /\ f.json.options = R!Names(R!CustomOptions(f).options)
<1>1. R!CustomOptions(f).options = R!Json(f.json.options)
  BY DEF R!CustomOptions, R!Says
<1>2. \A told \in R!Json(f.json.options) : Own(f, told)
  BY JsonIs DEF Own, OwnValues
<1> QED BY <1>1, <1>2, JsonIs, FieldsShown DEF Tidy

(* params_for, of those that can be told of.                               *)
LEMMA FamilyIs ==
    ASSUME NEW f, NEW e
    PROVE  /\ f.protocol = "fs" => R!FamilyOptions(f, e) = R!Says(TRUE, R!NoEndpoint, {})
           /\ f.protocol \in R!S3Family => R!FamilyOptions(f, e) = R!S3Options(f, e)
           /\ f.protocol = "gcs" => R!FamilyOptions(f, e) = R!GcsOptions(f, e)
           /\ f.protocol = "azblob" => R!FamilyOptions(f, e) = R!AzblobOptions(f, e)
           /\ f.protocol = "webdav" => R!FamilyOptions(f, e) = R!WebdavOptions(f, e)
           /\ f.protocol = "ftp" => R!FamilyOptions(f, e) = R!FtpOptions(f, e)
           /\ f.protocol \in R!Sftp => R!FamilyOptions(f, e) = R!SftpOptions(f, e)
           /\ f.protocol = "smb" => R!FamilyOptions(f, e) = R!SmbOptions(f, e)
           /\ f.protocol \in R!Drives => R!FamilyOptions(f, e) = R!OauthOptions(f)
           /\ f.protocol = "yandex-disk" => R!FamilyOptions(f, e) = R!YandexOptions(f)
           /\ f.protocol = "seafile" => R!FamilyOptions(f, e) = R!SeafileOptions(f, e)
           /\ f.protocol = "koofr" => R!FamilyOptions(f, e) = R!KoofrOptions(f, e)
           /\ f.protocol = "pcloud" => R!FamilyOptions(f, e) = R!PcloudOptions(f, e)
           /\ f.protocol \in R!Generic => R!FamilyOptions(f, e) = R!GenericOptions(f, e)
           /\ f.protocol = "rclone-custom" => R!FamilyOptions(f, e) = R!CustomOptions(f)
           /\ f.protocol = "aliyun-drive" =>
                 R!FamilyOptions(f, e) = R!Says(FALSE, R!NoEndpoint, {})
BY DEF R!FamilyOptions, R!S3Family, R!Vendors, R!Sftp, R!Drives, R!Generic

LEMMA SecretsAre == R!Secrets \cap OwnValues = {} /\ "endpoint" \in OwnValues
BY DEF R!Secrets, OwnValues, R!Vendors

LEMMA TellsSo ==
    ASSUME NEW f, NEW e, NEW options, IsConnection(f), AsTold(f, e), Tidy(f, e, options),
           R!FamilyOptions(f, e).options = options,
           R!Custom(f) => f.json.options \subseteq R!Names(options)
    PROVE  R!Tells(f, R!SectionOf(f, e))
<1> DEFINE s == R!SectionOf(f, e)
           more == R!ProxyOption(f)
<1>1. s.options = more \cup options /\ s.obscure = R!Obscures(f, options)
  BY DEF R!SectionOf
<1>2. \A told \in more : told[1] = "proxy"
  <2>1. PICK option : option = IF R!ProxyOf(f) = "http" THEN "http_proxy" ELSE "socks_proxy"
    OBVIOUS
  <2>2. more \subseteq {<<"proxy", option>>}
    BY <2>1 DEF R!ProxyOption, R!When
  <2> QED BY <2>2
<1>3. \A told \in more : Own(f, told)
  BY <1>2 DEF Own, OwnValues
<1> HIDE DEF s, more
<1>4. \A x : x \in R!Filling(f) <=> x \in R!Shown(f) /\ x \in R!Filled(f, e)
  BY DEF R!Filling, AsTold, R!Filled
<1>5. \A x \in R!Filling(f) \ R!InRoot(f) :
          \E told \in s.options : told[1] = x /\ x \in R!About(told[2])
  BY <1>1, <1>4 DEF Tidy, Covers
<1>6. \A told \in s.options : Own(f, told) \/ (Suited(f, e, told) /\ told \in options)
  BY <1>1, <1>3 DEF Tidy
<1>7. ASSUME NEW told \in s.options, Own(f, told)
      PROVE  told[1] \notin f.fields \cup {"endpoint"} \cup R!Secrets
  BY <1>7, SecretsAre DEF Own, IsConnection
<1>8. ASSUME NEW told \in s.options, told[1] \in f.fields \cup {"endpoint"}
      PROVE  told[1] \in R!Filling(f) \cap R!About(told[2])
  BY <1>4, <1>6, <1>7, <1>8 DEF Suited, Suits
<1>9. R!Custom(f) => f.json.options \subseteq R!Names(s.options)
  BY <1>1, NamesJoin
<1>10. ASSUME R!FilledFrom(s) \cap R!Secrets # {} PROVE s.obscure
  <2>1. PICK told \in s.options : told[1] \in R!Secrets
    BY <1>10 DEF R!FilledFrom
  <2>2. told[2] \in R!PasswordKeys /\ told \in options
    BY <1>6, <1>7, <2>1 DEF Suited, Suits
  <2>3. told[2] \in R!Names(options)
    BY <2>2 DEF R!Names
  <2> QED BY <1>1, <2>2, <2>3 DEF R!Obscures
<1> QED BY <1>5, <1>8, <1>9, <1>10 DEF R!Tells, s

------------------------------------------------------------------------------
(* The endpoint of a form, as it goes through the host's tunnel and ours.  *)
IsEndpoint(e) ==
    e = [scheme |-> e.scheme, user |-> e.user, host |-> e.host, port |-> e.port, path |-> e.path]
EndpointOK(f, e) ==
    IsEndpoint(e) /\ e.user \in {"", f.endpoint.user} /\ e.host \notin {"live", "test"}
HasPort(e) == e.port \in Nat

(* The provers know of no number next to a text that is empty: what is     *)
(* about ports is told apart.                                              *)
Consists(e, scheme, user, host, path) ==
    IsEndpoint(e) /\ e.scheme = scheme /\ e.user = user /\ e.host = host /\ e.path = path
Ported(e, port) == e.port = port
LEMMA NoEndpointIs == Consists(R!NoEndpoint, "", "", "", "")
BY DEF Consists, IsEndpoint, R!NoEndpoint

LEMMA NoPort == Ported(R!NoEndpoint, 0)
BY DEF Ported, R!NoEndpoint

EndpointOf(e, scheme, host, port) == [e EXCEPT !.scheme = scheme, !.host = host, !.port = port]
LEMMA EndpointOfIs ==
    ASSUME NEW e, IsEndpoint(e), NEW scheme, NEW host, NEW port, NEW y,
           y = EndpointOf(e, scheme, host, port)
    PROVE  Consists(y, scheme, e.user, host, e.path) /\ Ported(y, port)
<1>1. y = [e EXCEPT !.scheme = scheme, !.host = host, !.port = port]
  BY DEF EndpointOf
<1>2. y = [scheme |-> scheme, user |-> e.user, host |-> host, port |-> port, path |-> e.path]
  BY <1>1 DEF IsEndpoint
<1> QED BY <1>2 DEF Consists, Ported, IsEndpoint

AddressOf(e, host, port) == [e EXCEPT !.host = host, !.port = port]
LEMMA AddressOfIs ==
    ASSUME NEW e, IsEndpoint(e), NEW host, NEW port, NEW y, y = AddressOf(e, host, port)
    PROVE  Consists(y, e.scheme, e.user, host, e.path) /\ Ported(y, port)
<1>1. y = [e EXCEPT !.host = host, !.port = port]
  BY DEF AddressOf
<1>2. y = [scheme |-> e.scheme, user |-> e.user, host |-> host, port |-> port, path |-> e.path]
  BY <1>1 DEF IsEndpoint
<1> QED BY <1>2 DEF Consists, Ported, IsEndpoint

LEMMA NoneWith ==
    ASSUME NEW y, NEW scheme, NEW host, NEW port, y = EndpointOf(R!NoEndpoint, scheme, host, port)
    PROVE  Consists(y, scheme, "", host, "") /\ Ported(y, port)
<1>1. IsEndpoint(R!NoEndpoint) /\ R!NoEndpoint.user = "" /\ R!NoEndpoint.path = ""
  BY NoEndpointIs DEF Consists
<1>2. Consists(y, scheme, R!NoEndpoint.user, host, R!NoEndpoint.path) /\ Ported(y, port)
  BY <1>1, EndpointOfIs
<1> QED BY <1>1, <1>2

LEMMA NoneAt ==
    ASSUME NEW y, NEW host, NEW port, y = AddressOf(R!NoEndpoint, host, port)
    PROVE  Consists(y, "", "", host, "") /\ Ported(y, port)
<1>1. /\ IsEndpoint(R!NoEndpoint) /\ R!NoEndpoint.user = "" /\ R!NoEndpoint.path = ""
      /\ R!NoEndpoint.scheme = ""
  BY NoEndpointIs DEF Consists
<1>2. /\ Consists(y, R!NoEndpoint.scheme, R!NoEndpoint.user, host, R!NoEndpoint.path)
      /\ Ported(y, port)
  BY <1>1, AddressOfIs
<1> QED BY <1>1, <1>2

LEMMA DeclaredIs ==
    ASSUME NEW f, IsConnection(f)
    PROVE  EndpointOK(f, R!Declared(f)) /\ HasPort(R!Declared(f))
<1>1. PICK y : y = R!Declared(f)
  OBVIOUS
<1>2. CASE y = f.endpoint
  <2>1. EndpointOK(f, y)
    BY <1>2 DEF IsConnection, EndpointOK, IsEndpoint
  <2>2. HasPort(y)
    BY <1>2 DEF IsConnection, HasPort
  <2> QED BY <1>1, <2>1, <2>2
<1>3. CASE y = R!NoEndpoint
  <2>1. EndpointOK(f, y)
    BY <1>3, NoEndpointIs DEF EndpointOK, Consists
  <2>2. HasPort(y)
    BY <1>3, NoPort DEF HasPort, Ported
  <2> QED BY <1>1, <2>1, <2>2
<1>4. CASE y = EndpointOf(R!NoEndpoint, R!Scheme(f), f.host, f.port)
  <2>2. Consists(y, R!Scheme(f), "", f.host, "") /\ Ported(y, f.port)
    BY <1>4, NoneWith
  <2>3. EndpointOK(f, y)
    BY <2>2 DEF EndpointOK, Consists, IsConnection
  <2>4. HasPort(y)
    BY <2>2 DEF HasPort, Ported, IsConnection
  <2> QED BY <1>1, <2>3, <2>4
<1> QED BY <1>1, <1>2, <1>3, <1>4 DEF R!Declared, EndpointOf

LEMMA RedialedIs ==
    ASSUME NEW e, IsEndpoint(e)
    PROVE  /\ Consists(R!Redialed(e), e.scheme, IF e.scheme = "" THEN "" ELSE e.user, "runtime",
                       IF e.scheme = "" THEN "" ELSE e.path)
           /\ Ported(R!Redialed(e), 1)
<1>1. PICK y, one : y = R!Redialed(e) /\ one = 1
  OBVIOUS
<1>2. CASE e.scheme = ""
  <2>1. y = AddressOf(R!NoEndpoint, "runtime", one)
    BY <1>1, <1>2 DEF R!Redialed, AddressOf
  <2>2. Consists(y, "", "", "runtime", "") /\ Ported(y, one)
    BY <2>1, NoneAt
  <2> QED BY <1>1, <1>2, <2>2
<1>3. CASE e.scheme # ""
  <2>1. y = AddressOf(e, "runtime", one)
    BY <1>1, <1>3 DEF R!Redialed, AddressOf
  <2>2. Consists(y, e.scheme, e.user, "runtime", e.path) /\ Ported(y, one)
    BY <2>1, AddressOfIs
  <2> QED BY <1>1, <1>3, <2>2
<1> QED BY <1>2, <1>3

LEMMA EndpointForIs ==
    ASSUME NEW f, IsConnection(f)
    PROVE  /\ EndpointOK(f, R!EndpointFor(f)) /\ AsTold(f, R!EndpointFor(f))
           /\ R!EndpointFor(f).scheme = R!Declared(f).scheme
           /\ HasPort(R!EndpointFor(f))
<1>1. PICK d, e : d = R!Declared(f) /\ e = R!EndpointFor(f)
  OBVIOUS
<1>2. EndpointOK(f, d) /\ HasPort(d)
  BY <1>1, DeclaredIs
<1>3. e = IF f.layers /\ d # R!NoEndpoint THEN R!Redialed(d) ELSE d
  BY <1>1 DEF R!EndpointFor
<1>4. CASE e = d /\ ~(f.layers /\ d # R!NoEndpoint)
  BY <1>1, <1>2, <1>4 DEF AsTold
<1>5. CASE e = R!Redialed(d) /\ d # R!NoEndpoint
  <2>1. /\ Consists(e, d.scheme, IF d.scheme = "" THEN "" ELSE d.user, "runtime",
                    IF d.scheme = "" THEN "" ELSE d.path)
        /\ Ported(e, 1)
    BY <1>2, <1>5, RedialedIs DEF EndpointOK
  <2>2. Consists(R!NoEndpoint, "", "", "", "")
    BY NoEndpointIs
  <2>3. e # R!NoEndpoint
    BY <2>1, <2>2 DEF Consists
  <2>4. EndpointOK(f, e) /\ e.scheme = d.scheme
    BY <1>2, <2>1 DEF EndpointOK, Consists
  <2>5. Ported(e, 1)
    BY <1>2, <1>5, RedialedIs DEF EndpointOK
  <2>6. HasPort(e)
    BY <2>5 DEF HasPort, Ported
  <2> QED BY <1>1, <1>5, <2>3, <2>4, <2>6 DEF AsTold
<1> QED BY <1>3, <1>4, <1>5

LEMMA RewrittenIs ==
    ASSUME NEW e, NEW key, NEW n
    PROVE  Consists(R!Rewritten(e, key, n), e.scheme, "", key, "") /\ Ported(R!Rewritten(e, key, n), n)
<1>1. PICK y : y = R!Rewritten(e, key, n)
  OBVIOUS
<1>2. y = EndpointOf(R!NoEndpoint, e.scheme, key, n)
  BY <1>1 DEF R!Rewritten, EndpointOf
<1> QED BY <1>1, <1>2, NoneWith

(* The endpoint of a next that goes on.                                    *)
Direct(f, e) == R!TunnelOf(f) = "" /\ e = R!EndpointFor(f)
Chained(f) == R!TunnelOf(f) # "" /\ R!HasTarget(f, R!EndpointFor(f))
Forwarded(f, e, key, n) ==
    /\ Chained(f)
    /\ key \in {"live", "test"} /\ n \in 1..R!MaxPort
    /\ e = R!Rewritten(R!EndpointFor(f), key, n)
Ready(f, e, key, n) == Direct(f, e) \/ Forwarded(f, e, key, n)

LEMMA ReadyIs ==
    ASSUME NEW f, NEW e, NEW key, NEW n, IsConnection(f), Ready(f, e, key, n)
    PROVE  AsTold(f, e) /\ e.user \in {"", f.endpoint.user}
<1> DEFINE d == R!EndpointFor(f)
<1>1. EndpointOK(f, d) /\ AsTold(f, d)
  BY EndpointForIs
<1>2. CASE e = d
  BY <1>1, <1>2 DEF EndpointOK
<1>3. CASE Forwarded(f, e, key, n)
  <2>1. Chained(f) /\ e = R!Rewritten(d, key, n) /\ key \in {"live", "test"}
    BY <1>3 DEF Forwarded
  <2>2. Consists(e, d.scheme, "", key, "")
    BY <2>1, RewrittenIs
  <2>3. e # R!NoEndpoint
    BY <2>1, <2>2, NoEndpointIs DEF Consists
  <2>4. d.host # ""
    BY <2>1 DEF Chained, R!HasTarget
  <2>5. d # R!NoEndpoint
    BY <2>4, NoEndpointIs DEF Consists
  <2> QED BY <1>1, <2>2, <2>3, <2>5 DEF AsTold, Consists
<1> QED BY <1>2, <1>3 DEF Ready, Direct

(* Whatever a form is meant to have is told.                               *)
LEMMA MeantIsTold ==
    ASSUME NEW f, NEW e, NEW key, NEW n, IsConnection(f), R!Parses(f), Ready(f, e, key, n),
           R!HasSection(f, e), ~R!Unmeant(f)
    PROVE  R!Tells(f, R!SectionOf(f, e))
<1> DEFINE o == R!FamilyOptions(f, e)
<1>1. AsTold(f, e) /\ o.ok
  BY ReadyIs DEF R!HasSection
<1>2. /\ f.protocol = "azurefiles" => ~({"username", "access_key_id"} \subseteq f.fields)
      /\ f.protocol \in R!Sftp \cup {"pcloud"} => f.fields \subseteq R!Shown(f) \cup {"pem"}
  BY DEF R!Unmeant
<1>3. f.protocol \in R!Sftp => UserLeft(f, e)
  <2>1. f.protocol \in R!Sftp => ~(R!Declared(f).user # "" /\ "user" \in f.fields)
    BY DEF R!Unmeant
  <2>2. e.user # "" => R!Declared(f).user # ""
    <3>1. CASE Forwarded(f, e, key, n)
      <4>1. e = R!Rewritten(R!EndpointFor(f), key, n)
        BY <3>1 DEF Forwarded
      <4>2. Consists(e, R!EndpointFor(f).scheme, "", key, "")
        BY <4>1, RewrittenIs
      <4> QED BY <4>2 DEF Consists
    <3>2. CASE e = R!EndpointFor(f)
      <4>1. CASE e = R!Declared(f)
        BY <4>1
      <4>2. CASE e = R!Redialed(R!Declared(f))
        BY <4>2, DeclaredIs, RedialedIs DEF EndpointOK, Consists
      <4> QED BY <3>2, <4>1, <4>2 DEF R!EndpointFor
    <3> QED BY <3>1, <3>2 DEF Ready, Direct
  <2> QED BY <2>1, <2>2, ReadyIs DEF UserLeft
<1>4. f.protocol # "aliyun-drive"
  BY <1>1, FamilyIs DEF R!Says
<1>5. f.protocol \in R!Protocols
  BY DEF R!Parses
<1> HIDE DEF o
<1>6. Tidy(f, e, o.options)
  <2>1. CASE f.protocol = "fs"
    <3>1. o.options = {}
      BY <2>1, FamilyIs DEF R!Says, o
    <3> QED BY <2>1, <3>1, FieldsShown DEF Tidy
  <2>2. CASE f.protocol \in R!S3Family
    BY <1>1, <2>2, FamilyIs, S3Tells DEF o
  <2>3. CASE f.protocol \in {"gcs", "azblob", "webdav", "ftp", "smb"}
    <3>1. CASE f.protocol = "gcs"
      BY <1>1, <3>1, FamilyIs, GcsTells DEF o
    <3>2. CASE f.protocol = "azblob"
      BY <3>2, FamilyIs, AzblobTells DEF o
    <3>3. CASE f.protocol = "webdav"
      BY <3>3, FamilyIs, WebdavTells DEF o
    <3>4. CASE f.protocol = "ftp"
      BY <3>4, FamilyIs, FtpTells DEF o
    <3>5. CASE f.protocol = "smb"
      BY <3>5, FamilyIs, SmbTells DEF o
    <3> QED BY <2>3, <3>1, <3>2, <3>3, <3>4, <3>5
  <2>4. CASE f.protocol \in R!Sftp
    BY <1>1, <1>2, <1>3, <2>4, FamilyIs, SftpTells DEF o
  <2>5. CASE f.protocol \in R!Drives \cup {"yandex-disk", "seafile", "koofr", "rclone-custom"}
    <3>1. CASE f.protocol \in R!Drives
      BY <3>1, FamilyIs, OauthTells DEF o
    <3>2. CASE f.protocol = "yandex-disk"
      BY <1>1, <3>2, FamilyIs, YandexTells DEF o
    <3>3. CASE f.protocol = "seafile"
      BY <3>3, FamilyIs, SeafileTells DEF o
    <3>4. CASE f.protocol = "koofr"
      BY <3>4, FamilyIs, KoofrTells DEF o
    <3>5. CASE f.protocol = "rclone-custom"
      BY <3>5, FamilyIs, CustomTells DEF o
    <3> QED BY <2>5, <3>1, <3>2, <3>3, <3>4, <3>5
  <2>6. CASE f.protocol = "pcloud"
    BY <1>1, <1>2, <2>6, FamilyIs, PcloudTells DEF o
  <2>7. CASE f.protocol \in R!Generic
    BY <1>2, <2>7, FamilyIs, GenericTells DEF o
  <2> QED
    BY <1>4, <1>5, <2>1, <2>2, <2>3, <2>4, <2>5, <2>6, <2>7 DEF R!Protocols, R!Single
<1>7. R!Custom(f) => f.json.options \subseteq R!Names(o.options)
  BY ZenonT(60), FamilyIs, GenericJson, CustomTells DEF R!Custom, o
<1> QED BY <1>1, <1>6, <1>7, TellsSo DEF o

------------------------------------------------------------------------------
(* Where a section leads.                                                  *)
PortOr(e, port) == IF e.port = 0 THEN port ELSE e.port
Usual(f, e) == R!DefaultPort(R!Type(f), e.scheme)

LEMMA LeadsNowhere ==
    ASSUME NEW s, s.dials = R!NoEndpoint
    PROVE  R!Leads(s) = [R!Nowhere EXCEPT !.host = s.type]
BY DEF R!Leads

LEMMA LeadsFar ==
    ASSUME NEW s, s.dials # R!NoEndpoint, s.dials.host \notin DOMAIN forwards
    PROVE  R!Leads(s) =
               [host |-> s.dials.host, port |-> PortOr(s.dials, R!DefaultPort(s.type, s.dials.scheme)),
                path |-> s.dials.path]
BY DEF R!Leads, PortOr

LEMMA LeadsNear ==
    ASSUME NEW s, s.dials # R!NoEndpoint, s.dials.host \in DOMAIN forwards,
           forwards[s.dials.host] # R!NoForwarder, forwards[s.dials.host].n = s.dials.port
    PROVE  R!Leads(s) = [host |-> forwards[s.dials.host].target.host,
                         port |-> forwards[s.dials.host].target.port, path |-> s.dials.path]
BY DEF R!Leads

LEMMA AddressNowhere ==
    ASSUME NEW f, "endpoint" \notin R!Shown(f) \/ R!Declared(f) = R!NoEndpoint
    PROVE  R!Address(f) = [R!Nowhere EXCEPT !.host = R!Type(f)]
BY DEF R!Address

PathFor(f, e) == IF R!Type(f) \in R!Urls THEN e.path ELSE ""
LEMMA AddressIs ==
    ASSUME NEW f, NEW d, d = R!Declared(f), "endpoint" \in R!Shown(f), d # R!NoEndpoint
    PROVE  R!Address(f) = [host |-> IF f.layers THEN "runtime" ELSE d.host,
                           port |-> IF f.layers THEN 1 ELSE PortOr(d, Usual(f, d)),
                           path |-> PathFor(f, d)]
BY Zenon DEF R!Address, PortOr, Usual, PathFor

(* The port that is taken where there is none.                             *)
LEMMA SchemesAre ==
    /\ DOMAIN R!SchemePort = {"https", "http", "ftp", "sftp", "smb"}
    /\ R!SchemePort["https"] = 443 /\ R!SchemePort["http"] = 80 /\ R!SchemePort["ftp"] = 21
    /\ R!SchemePort["sftp"] = 22 /\ R!SchemePort["smb"] = 445
    /\ DOMAIN R!ProtocolPort = {"sftp", "sftp-native", "ftp", "smb"}
    /\ R!ProtocolPort["ftp"] = 21 /\ R!ProtocolPort["smb"] = 445
    /\ R!ProtocolPort["sftp"] = 22 /\ R!ProtocolPort["sftp-native"] = 22
BY DEF R!SchemePort, R!ProtocolPort, R!Sftp

LEMMA DefaultsAre ==
    ASSUME NEW scheme
    PROVE  /\ R!DefaultPort("ftp", scheme) = 21 /\ R!DefaultPort("sftp", scheme) = 22
           /\ R!DefaultPort("smb", scheme) = 445
           /\ \A type : type \notin {"ftp", "sftp", "smb"} =>
                 R!DefaultPort(type, scheme) = IF scheme = "http" THEN 80 ELSE 443
BY DEF R!DefaultPort

LEMMA TypesAre ==
    ASSUME NEW f
    PROVE  /\ f.protocol \in R!S3Family => R!Type(f) = "s3"
           /\ f.protocol = "azblob" => R!Type(f) = "azureblob"
           /\ f.protocol \in {"gcs", "webdav", "seafile", "koofr", "azurefiles", "ftp", "smb",
                              "pcloud"} =>
                 R!Type(f) = f.protocol
           /\ f.protocol \in R!Sftp => R!Type(f) = "sftp"
BY DEF R!Type, R!S3Family, R!Vendors, R!Sftp

(* Those with an address, of each shape.                                   *)
Addressed == {"gcs", "azblob", "webdav", "seafile", "koofr", "azurefiles"} \cup R!S3Family
Bare == {"ftp", "smb"} \cup R!Sftp
BareSchemes(f) ==
    IF f.protocol = "ftp" THEN {"ftp", "ftps"} ELSE IF f.protocol = "smb" THEN {"smb"} ELSE {"ssh"}
DefaultTarget(f, e) ==
    IF e.scheme \in DOMAIN R!SchemePort THEN R!SchemePort[e.scheme] ELSE R!ProtocolPort[f.protocol]

LEMMA TargetPortIs ==
    ASSUME NEW f, NEW e
    PROVE  R!TargetPort(f, e) = PortOr(e, DefaultTarget(f, e))
BY DEF R!TargetPort, PortOr, DefaultTarget

LEMMA AddressedIs ==
    ASSUME NEW f, f.protocol \in Addressed
    PROVE  /\ R!Type(f) \in R!Urls /\ R!Type(f) \notin {"ftp", "sftp", "smb"}
           /\ "endpoint" \in R!Shown(f) /\ f.protocol \notin DOMAIN R!ProtocolPort
<1>1. R!Type(f) \in R!Urls /\ R!Type(f) \notin {"ftp", "sftp", "smb"}
  BY TypesAre DEF Addressed, R!Urls
<1>2. "endpoint" \in R!Shown(f)
  <2>1. CASE f.protocol \in R!S3Family
    BY <2>1, FieldsShown DEF R!S3Family
  <2> QED BY <2>1, FieldsShown DEF Addressed
<1>3. f.protocol \notin DOMAIN R!ProtocolPort
  BY SchemesAre DEF Addressed, R!S3Family, R!Vendors
<1> QED BY <1>1, <1>2, <1>3

LEMMA BareIs ==
    ASSUME NEW f, f.protocol \in Bare
    PROVE  /\ R!Type(f) = IF f.protocol = "sftp-native" THEN "sftp" ELSE f.protocol
           /\ R!Type(f) \in {"ftp", "sftp", "smb"} /\ R!Type(f) \notin R!Urls
           /\ "endpoint" \in R!Shown(f)
           /\ f.protocol \in {"ftp", "smb", "sftp", "sftp-native"}
<1>1. f.protocol \in {"ftp", "smb", "sftp", "sftp-native"}
  BY DEF Bare, R!Sftp
<1>2. R!Type(f) = IF f.protocol = "sftp-native" THEN "sftp" ELSE f.protocol
  BY <1>1, TypesAre DEF R!Sftp
<1>3. "endpoint" \in R!Shown(f)
  BY <1>1, FieldsShown
<1> QED BY <1>1, <1>2, <1>3 DEF R!Urls

LEMMA WholePort ==
    ASSUME NEW f, NEW e, f.protocol \in Addressed, e.scheme \in {"http", "https"}
    PROVE  DefaultTarget(f, e) = Usual(f, e)
BY AddressedIs, SchemesAre, DefaultsAre DEF DefaultTarget, Usual

LEMMA BarePort ==
    ASSUME NEW f, NEW e, f.protocol \in Bare,
           e.scheme \in BareSchemes(f) \/ e.scheme \notin DOMAIN R!SchemePort
    PROVE  DefaultTarget(f, e) = Usual(f, e)
<1>1. e.scheme \in DOMAIN R!SchemePort => R!SchemePort[e.scheme] = Usual(f, e)
  BY BareIs, SchemesAre, DefaultsAre DEF BareSchemes, Usual
<1>2. R!ProtocolPort[f.protocol] = Usual(f, e)
  BY BareIs, SchemesAre, DefaultsAre DEF Usual
<1> QED BY <1>1, <1>2 DEF DefaultTarget

LEMMA HostPortIs ==
    ASSUME NEW e, IsEndpoint(e), NEW k, NEW y, y = R!HostPort(e, k)
    PROVE  Consists(y, e.scheme, e.user, e.host, "") /\ Ported(y, PortOr(e, k))
<1>1. PICK none, port : none = "" /\ port = PortOr(e, k)
  OBVIOUS
<1>2. y = [e EXCEPT !.path = none, !.port = port]
  BY <1>1, Zenon DEF R!HostPort, PortOr
<1>3. y = [scheme |-> e.scheme, user |-> e.user, host |-> e.host, port |-> port, path |-> none]
  BY <1>2 DEF IsEndpoint
<1>4. Consists(y, e.scheme, e.user, e.host, none) /\ Ported(y, port)
  BY <1>3 DEF Consists, Ported, IsEndpoint
<1> QED BY <1>1, <1>4

SchemeOf(e, scheme, port) == [e EXCEPT !.scheme = scheme, !.port = port]
LEMMA SchemeOfIs ==
    ASSUME NEW e, IsEndpoint(e), NEW scheme, NEW port, NEW y, y = SchemeOf(e, scheme, port)
    PROVE  Consists(y, scheme, e.user, e.host, e.path) /\ Ported(y, port)
<1>1. y = [e EXCEPT !.scheme = scheme, !.port = port]
  BY DEF SchemeOf
<1>2. y = [scheme |-> scheme, user |-> e.user, host |-> e.host, port |-> port, path |-> e.path]
  BY <1>1 DEF IsEndpoint
<1> QED BY <1>2 DEF Consists, Ported, IsEndpoint

LEMMA PcloudIs ==
    ASSUME NEW e, IsEndpoint(e), NEW y,
           y = [R!HostPort(e, 443) EXCEPT !.scheme = "https", !.port = 443]
    PROVE  Consists(y, "https", e.user, e.host, "") /\ Ported(y, 443)
<1>1. PICK z : z = R!HostPort(e, 443)
  OBVIOUS
<1>2. Consists(z, e.scheme, e.user, e.host, "")
  BY <1>1, HostPortIs
<1>3. IsEndpoint(z) /\ z.user = e.user /\ z.host = e.host /\ z.path = ""
  BY <1>2 DEF Consists
<1>4. PICK port, scheme : port = 443 /\ scheme = "https"
  OBVIOUS
<1>5. y = SchemeOf(z, scheme, port)
  BY <1>1, <1>4 DEF SchemeOf
<1>6. Consists(y, scheme, z.user, z.host, z.path) /\ Ported(y, port)
  BY <1>3, <1>5, SchemeOfIs
<1> QED BY <1>3, <1>4, <1>6

Standard(f) == R!DefaultPort(R!Type(f), "ssh")
PcloudAt(e) ==
    IF e = R!NoEndpoint THEN e ELSE [R!HostPort(e, 443) EXCEPT !.scheme = "https", !.port = 443]

(* What the options of a protocol lead to, and what they take.             *)
LEMMA OptionsDial ==
    ASSUME NEW f, NEW e
    PROVE  /\ R!S3Options(f, e).dials = e
           /\ R!GcsOptions(f, e).dials = e /\ R!AzblobOptions(f, e).dials = e
           /\ R!WebdavOptions(f, e).dials = e /\ R!SeafileOptions(f, e).dials = e
           /\ R!KoofrOptions(f, e).dials = e
           /\ R!FtpOptions(f, e).dials = R!HostPort(e, 21)
           /\ R!SftpOptions(f, e).dials = R!HostPort(e, 22)
           /\ R!SmbOptions(f, e).dials = R!HostPort(e, 445)
           /\ R!PcloudOptions(f, e).dials = PcloudAt(e)
           /\ R!OauthOptions(f).dials = R!NoEndpoint
           /\ R!YandexOptions(f).dials = R!NoEndpoint
           /\ R!CustomOptions(f).dials = R!NoEndpoint
<1>1. /\ R!S3Options(f, e).dials = e
      /\ R!GcsOptions(f, e).dials = e /\ R!AzblobOptions(f, e).dials = e
      /\ R!WebdavOptions(f, e).dials = e /\ R!SeafileOptions(f, e).dials = e
      /\ R!KoofrOptions(f, e).dials = e
  BY Zenon DEF R!S3Options, R!GcsOptions, R!AzblobOptions, R!WebdavOptions, R!SeafileOptions,
               R!KoofrOptions, R!Says
<1>2. /\ R!FtpOptions(f, e).dials = R!HostPort(e, 21)
      /\ R!SftpOptions(f, e).dials = R!HostPort(e, 22)
      /\ R!SmbOptions(f, e).dials = R!HostPort(e, 445)
  BY Zenon DEF R!FtpOptions, R!SftpOptions, R!SmbOptions, R!Says
<1>3. R!PcloudOptions(f, e).dials = PcloudAt(e)
  BY Zenon DEF R!PcloudOptions, R!Says, PcloudAt
<1>4. /\ R!OauthOptions(f).dials = R!NoEndpoint /\ R!YandexOptions(f).dials = R!NoEndpoint
      /\ R!CustomOptions(f).dials = R!NoEndpoint
  BY Zenon DEF R!OauthOptions, R!YandexOptions, R!CustomOptions, R!Says
<1> QED BY <1>1, <1>2, <1>3, <1>4

LEMMA OptionsTake ==
    ASSUME NEW f, NEW e
    PROVE  /\ R!FtpOptions(f, e).ok => R!IsHostPort(e, {"ftp", "ftps"})
           /\ R!SftpOptions(f, e).ok => R!IsHostPort(e, {"ssh"})
           /\ R!SmbOptions(f, e).ok => R!IsHostPort(e, {"smb"})
BY Zenon DEF R!FtpOptions, R!SftpOptions, R!SmbOptions, R!Says

LEMMA NothingDials ==
    /\ ~R!Says(FALSE, R!NoEndpoint, {}).ok
    /\ R!Says(TRUE, R!NoEndpoint, {}).dials = R!NoEndpoint
BY Zenon DEF R!Says

LEMMA FamilyDials ==
    ASSUME NEW f, NEW e
    PROVE  LET d == R!FamilyOptions(f, e).dials
           IN /\ f.protocol \in R!S3Family \cup {"gcs", "azblob", "webdav", "seafile", "koofr"} =>
                    d = e
              /\ f.protocol = "pcloud" => d = PcloudAt(e)
              /\ f.protocol \in R!Drives \cup {"yandex-disk", "rclone-custom"} => d = R!NoEndpoint
<1>1. ASSUME f.protocol \in R!S3Family PROVE R!FamilyOptions(f, e).dials = e
  <2>1. R!FamilyOptions(f, e) = R!S3Options(f, e)
    BY <1>1, FamilyIs
  <2>2. R!S3Options(f, e).dials = e
    BY OptionsDial
  <2> QED BY <2>1, <2>2
<1>2. ASSUME f.protocol = "gcs" PROVE R!FamilyOptions(f, e).dials = e
  <2>1. R!FamilyOptions(f, e) = R!GcsOptions(f, e)
    BY <1>2, FamilyIs
  <2>2. R!GcsOptions(f, e).dials = e
    BY OptionsDial
  <2> QED BY <2>1, <2>2
<1>3. ASSUME f.protocol = "azblob" PROVE R!FamilyOptions(f, e).dials = e
  <2>1. R!FamilyOptions(f, e) = R!AzblobOptions(f, e)
    BY <1>3, FamilyIs
  <2>2. R!AzblobOptions(f, e).dials = e
    BY OptionsDial
  <2> QED BY <2>1, <2>2
<1>4. ASSUME f.protocol = "webdav" PROVE R!FamilyOptions(f, e).dials = e
  <2>1. R!FamilyOptions(f, e) = R!WebdavOptions(f, e)
    BY <1>4, FamilyIs
  <2>2. R!WebdavOptions(f, e).dials = e
    BY OptionsDial
  <2> QED BY <2>1, <2>2
<1>5. ASSUME f.protocol = "seafile" PROVE R!FamilyOptions(f, e).dials = e
  <2>1. R!FamilyOptions(f, e) = R!SeafileOptions(f, e)
    BY <1>5, FamilyIs
  <2>2. R!SeafileOptions(f, e).dials = e
    BY OptionsDial
  <2> QED BY <2>1, <2>2
<1>6. ASSUME f.protocol = "koofr" PROVE R!FamilyOptions(f, e).dials = e
  <2>1. R!FamilyOptions(f, e) = R!KoofrOptions(f, e)
    BY <1>6, FamilyIs
  <2>2. R!KoofrOptions(f, e).dials = e
    BY OptionsDial
  <2> QED BY <2>1, <2>2
<1>7. ASSUME f.protocol = "pcloud" PROVE R!FamilyOptions(f, e).dials = PcloudAt(e)
  <2>1. R!FamilyOptions(f, e) = R!PcloudOptions(f, e)
    BY <1>7, FamilyIs
  <2>2. R!PcloudOptions(f, e).dials = PcloudAt(e)
    BY OptionsDial
  <2> QED BY <2>1, <2>2
<1>8. ASSUME f.protocol \in R!Drives PROVE R!FamilyOptions(f, e).dials = R!NoEndpoint
  <2>1. R!FamilyOptions(f, e) = R!OauthOptions(f)
    BY <1>8, FamilyIs
  <2>2. R!OauthOptions(f).dials = R!NoEndpoint
    BY OptionsDial
  <2> QED BY <2>1, <2>2
<1>9. ASSUME f.protocol = "yandex-disk" PROVE R!FamilyOptions(f, e).dials = R!NoEndpoint
  <2>1. R!FamilyOptions(f, e) = R!YandexOptions(f)
    BY <1>9, FamilyIs
  <2>2. R!YandexOptions(f).dials = R!NoEndpoint
    BY OptionsDial
  <2> QED BY <2>1, <2>2
<1>10. ASSUME f.protocol = "rclone-custom" PROVE R!FamilyOptions(f, e).dials = R!NoEndpoint
  <2>1. R!FamilyOptions(f, e) = R!CustomOptions(f)
    BY <1>10, FamilyIs
  <2>2. R!CustomOptions(f).dials = R!NoEndpoint
    BY OptionsDial
  <2> QED BY <2>1, <2>2
<1> QED BY <1>1, <1>2, <1>3, <1>4, <1>5, <1>6, <1>7, <1>8, <1>9, <1>10

LEMMA DialsAre ==
    ASSUME NEW f, NEW e, IsConnection(f), AsTold(f, e), R!HasSection(f, e), R!Parses(f)
    PROVE  LET d == R!FamilyOptions(f, e).dials
           IN /\ f.protocol \in Addressed => d = e
              /\ f.protocol \in Bare => /\ d = R!HostPort(e, Standard(f))
                                        /\ R!IsHostPort(e, BareSchemes(f))
              /\ f.protocol = "pcloud" => d = PcloudAt(e)
              /\ f.protocol \notin Addressed \cup Bare \cup {"pcloud"} =>
                    d = R!NoEndpoint /\ "endpoint" \notin R!Shown(f)
<1> DEFINE o == R!FamilyOptions(f, e)
<1>1. ASSUME f.protocol \in Addressed PROVE o.dials = e
  <2>1. CASE f.protocol \in R!S3Family
    BY <2>1, FamilyDials
  <2>2. CASE f.protocol = "azurefiles"
    <3>1. o = R!GenericOptions(f, e)
      BY <2>2, FamilyIs DEF R!Generic
    <3>2. o.dials = IF "endpoint" \in R!Names(GenericTold(f, e)) THEN e ELSE R!NoEndpoint
      BY <3>1, GenericIs
    <3>3. <<"endpoint", "endpoint">> \in R!GenericRows(f)
      BY <2>2, GenericRowsAre
    <3>4. CASE e = R!NoEndpoint
      BY <3>2, <3>4
    <3>5. CASE e # R!NoEndpoint
      <4>1. "endpoint" \in R!Filled(f, e)
        BY <3>5 DEF R!Filled
      <4>2. <<"endpoint", "endpoint">> \in GenericTold(f, e)
        BY <3>3, <4>1, ToldIs DEF GenericTold
      <4>3. "endpoint" \in R!Names(GenericTold(f, e))
        BY <4>2, NamesJoin
      <4> QED BY <3>2, <4>3
    <3> QED BY <3>4, <3>5
  <2>3. CASE f.protocol \in {"gcs", "azblob"}
    BY <2>3, FamilyDials
  <2>4. CASE f.protocol \in {"webdav", "seafile", "koofr"}
    BY <2>4, FamilyDials
  <2> QED BY <1>1, <2>1, <2>2, <2>3, <2>4 DEF Addressed
<1>2. ASSUME f.protocol \in Bare
      PROVE  o.dials = R!HostPort(e, Standard(f)) /\ R!IsHostPort(e, BareSchemes(f))
  <2>1. f.protocol \in R!Sftp <=> f.protocol \in {"sftp", "sftp-native"}
    BY DEF R!Sftp
  <2>2. /\ f.protocol = "ftp" => Standard(f) = 21 /\ BareSchemes(f) = {"ftp", "ftps"}
        /\ f.protocol = "smb" => Standard(f) = 445 /\ BareSchemes(f) = {"smb"}
        /\ f.protocol \in R!Sftp => Standard(f) = 22 /\ BareSchemes(f) = {"ssh"}
    BY <2>1, TypesAre, DefaultsAre DEF Standard, BareSchemes
  <2>3. CASE f.protocol = "ftp"
    <3>1. o = R!FtpOptions(f, e) /\ o.ok
      BY <2>3, FamilyIs DEF R!HasSection
    <3>2. R!FtpOptions(f, e).dials = R!HostPort(e, 21)
      BY OptionsDial
    <3>3. R!IsHostPort(e, {"ftp", "ftps"})
      BY <3>1, OptionsTake
    <3> QED BY <2>2, <2>3, <3>1, <3>2, <3>3
  <2>4. CASE f.protocol = "smb"
    <3>1. o = R!SmbOptions(f, e) /\ o.ok
      BY <2>4, FamilyIs DEF R!HasSection
    <3>2. R!SmbOptions(f, e).dials = R!HostPort(e, 445)
      BY OptionsDial
    <3>3. R!IsHostPort(e, {"smb"})
      BY <3>1, OptionsTake
    <3> QED BY <2>2, <2>4, <3>1, <3>2, <3>3
  <2>5. CASE f.protocol \in R!Sftp
    <3>1. o = R!SftpOptions(f, e) /\ o.ok
      BY <2>5, FamilyIs DEF R!HasSection
    <3>2. R!SftpOptions(f, e).dials = R!HostPort(e, 22)
      BY OptionsDial
    <3>3. R!IsHostPort(e, {"ssh"})
      BY <3>1, OptionsTake
    <3> QED BY <2>2, <2>5, <3>1, <3>2, <3>3
  <2> QED BY <1>2, <2>3, <2>4, <2>5 DEF Bare
<1>3. f.protocol = "pcloud" => o.dials = PcloudAt(e)
  BY FamilyDials
<1>4. ASSUME f.protocol \notin Addressed \cup Bare \cup {"pcloud"}
      PROVE  o.dials = R!NoEndpoint /\ "endpoint" \notin R!Shown(f)
  <2>1. f.protocol # "aliyun-drive" /\ f.protocol \in R!Protocols
    <3>1. o.ok
      BY DEF R!HasSection
    <3>2. f.protocol = "aliyun-drive" => o = R!Says(FALSE, R!NoEndpoint, {})
      BY FamilyIs
    <3>3. f.protocol # "aliyun-drive"
      BY <3>1, <3>2, NothingDials
    <3> QED BY <3>3 DEF R!Parses
  <2>2. CASE f.protocol \in R!Drives \cup {"yandex-disk", "rclone-custom", "fs"}
    <3>1. "endpoint" \notin R!Shown(f)
      BY <2>2, FieldsShown
    <3>2. o.dials = R!NoEndpoint
      <4>1. f.protocol = "fs" => o = R!Says(TRUE, R!NoEndpoint, {})
        BY FamilyIs
      <4>2. f.protocol = "fs" => o.dials = R!NoEndpoint
        BY <4>1, NothingDials
      <4> QED BY <2>2, <4>2, FamilyDials
    <3> QED BY <3>1, <3>2
  <2>3. CASE f.protocol \in R!Generic \ {"azurefiles"}
    <3>1. f.protocol \in {"b2", "crypt", "filen", "memory"}
      BY <2>3 DEF R!Generic
    <3>2. "endpoint" \notin R!Shown(f)
      BY <3>1, FieldsShown
    <3>3. \A row \in R!GenericRows(f) : row[2] # "endpoint"
      BY <3>1, GenericRowsAre
    <3>4. "endpoint" \notin R!Names(GenericTold(f, e))
      BY <3>3, ToldIs DEF GenericTold, R!Names
    <3>5. o = R!GenericOptions(f, e)
      BY <2>3, FamilyIs
    <3>6. o.dials = IF "endpoint" \in R!Names(GenericTold(f, e)) THEN e ELSE R!NoEndpoint
      BY <3>5, GenericIs
    <3> QED BY <3>2, <3>4, <3>6
  <2> QED BY <1>4, <2>1, <2>2, <2>3 DEF R!Protocols, R!Single, Addressed, Bare
<1> QED BY <1>1, <1>2, <1>3, <1>4, Zenon

(* What a section dials has the host of the endpoint, and its port.        *)
Dialled(f, e, y) ==
    /\ y.host = e.host /\ y.path = PathFor(f, e) /\ y # R!NoEndpoint
    /\ PortOr(y, R!DefaultPort(R!Type(f), y.scheme)) = PortOr(e, Usual(f, e))
    /\ e.port # 0 => y.port = e.port

LEMMA WholeDialled ==
    ASSUME NEW f, NEW e, f.protocol \in Addressed, e # R!NoEndpoint
    PROVE  Dialled(f, e, e)
BY AddressedIs DEF Dialled, PathFor, Usual

LEMMA PortsDiffer ==
    ASSUME NEW y, NEW port, port # 0, Ported(y, port)
    PROVE  y # R!NoEndpoint
BY NoPort DEF Ported

LEMMA BareDialled ==
    ASSUME NEW f, NEW e, f.protocol \in Bare, IsEndpoint(e), NEW y, y = R!HostPort(e, Standard(f))
    PROVE  Dialled(f, e, y)
<1>1. Consists(y, e.scheme, e.user, e.host, "") /\ Ported(y, PortOr(e, Standard(f)))
  BY HostPortIs
<1>2. y.host = e.host /\ y.path = PathFor(f, e) /\ y.scheme = e.scheme
  BY <1>1, BareIs DEF Consists, PathFor
<1>3. y.port = PortOr(e, Standard(f))
  BY <1>1 DEF Ported
<1>4. /\ Usual(f, e) = Standard(f) /\ Standard(f) \in {21, 22, 445}
      /\ R!DefaultPort(R!Type(f), y.scheme) = Standard(f)
  BY BareIs, DefaultsAre DEF Usual, Standard
<1>5. y.port # 0
  BY <1>3, <1>4 DEF PortOr
<1>6. y # R!NoEndpoint
  BY <1>5, PortsDiffer DEF Ported
<1>7. PortOr(y, R!DefaultPort(R!Type(f), y.scheme)) = PortOr(e, Usual(f, e))
  BY <1>3, <1>4 DEF PortOr
<1>8. e.port # 0 => y.port = e.port
  BY <1>3 DEF PortOr
<1> QED BY <1>2, <1>6, <1>7, <1>8 DEF Dialled

LEMMA PcloudDialled ==
    ASSUME NEW f, NEW e, f.protocol = "pcloud", IsEndpoint(e), e # R!NoEndpoint, e.port = 0,
           e.scheme # "http", NEW y, y = PcloudAt(e)
    PROVE  Dialled(f, e, y)
<1>1. y = [R!HostPort(e, 443) EXCEPT !.scheme = "https", !.port = 443]
  BY DEF PcloudAt
<1>2. Consists(y, "https", e.user, e.host, "") /\ Ported(y, 443)
  BY ZenonT(60), <1>1, PcloudIs
<1>3. R!Type(f) = "pcloud"
  BY TypesAre
<1>4. R!Type(f) \notin R!Urls
  BY <1>3 DEF R!Urls
<1>5. y.host = e.host /\ y.path = PathFor(f, e)
  BY <1>2, <1>4 DEF Consists, PathFor
<1>6. y.port = 443
  BY <1>2 DEF Ported
<1>7. y # R!NoEndpoint
  BY <1>6, PortsDiffer DEF Ported
<1>8. Usual(f, e) = 443
  BY SMTT(40), <1>3, DefaultsAre DEF Usual
<1>9. PortOr(y, R!DefaultPort(R!Type(f), y.scheme)) = PortOr(e, Usual(f, e))
  BY <1>6, <1>8 DEF PortOr
<1> QED BY <1>5, <1>7, <1>9 DEF Dialled

LEMMA HasDialled ==
    ASSUME NEW f, NEW e, IsConnection(f), AsTold(f, e), R!HasSection(f, e), R!Parses(f),
           IsEndpoint(e), e # R!NoEndpoint, f.protocol \in Addressed \cup Bare \cup {"pcloud"},
           f.protocol = "pcloud" => e.port = 0 /\ e.scheme # "http"
    PROVE  Dialled(f, e, R!FamilyOptions(f, e).dials)
<1>1. PICK y : y = R!FamilyOptions(f, e).dials
  OBVIOUS
<1>2. CASE f.protocol \in Addressed
  BY <1>1, <1>2, DialsAre, WholeDialled
<1>3. CASE f.protocol \in Bare
  BY <1>1, <1>3, DialsAre, BareDialled
<1>4. CASE f.protocol = "pcloud"
  BY <1>1, <1>4, DialsAre, PcloudDialled
<1> QED BY <1>2, <1>3, <1>4

(* The address of a form, as an endpoint leads there.                      *)
Place(f, e) == [host |-> e.host, port |-> PortOr(e, Usual(f, e)), path |-> PathFor(f, e)]
LEMMA PlaceIs ==
    ASSUME NEW f, IsConnection(f), ~R!Unmeant(f), R!Declared(f) # R!NoEndpoint,
           "endpoint" \in R!Shown(f)
    PROVE  R!Address(f) = Place(f, R!EndpointFor(f))
<1>1. PICK d, g : d = R!Declared(f) /\ g = R!EndpointFor(f)
  OBVIOUS
<1>2. R!Address(f) = [host |-> IF f.layers THEN "runtime" ELSE d.host,
                      port |-> IF f.layers THEN 1 ELSE PortOr(d, Usual(f, d)),
                      path |-> PathFor(f, d)]
  BY <1>1, AddressIs
<1>3. CASE ~f.layers
  <2>1. g = d
    BY <1>1, <1>3 DEF R!EndpointFor
  <2> QED BY <1>1, <1>2, <1>3, <2>1 DEF Place
<1>4. CASE f.layers
  <2>1. g = R!Redialed(d)
    BY <1>1, <1>4 DEF R!EndpointFor
  <2>2. /\ Consists(g, d.scheme, IF d.scheme = "" THEN "" ELSE d.user, "runtime",
                    IF d.scheme = "" THEN "" ELSE d.path)
        /\ Ported(g, 1)
    BY <1>1, <2>1, DeclaredIs, RedialedIs DEF EndpointOK
  <2>3. d.scheme = "" => d.path = ""
    BY <1>1, <1>4, Zenon DEF R!Unmeant
  <2>4. g.host = "runtime" /\ g.path = d.path
    BY <2>2, <2>3 DEF Consists
  <2>5. g.port = 1
    BY <2>2 DEF Ported
  <2>6. PathFor(f, g) = PathFor(f, d)
    BY <2>4 DEF PathFor
  <2>7. PortOr(g, Usual(f, g)) = 1
    BY <2>5 DEF PortOr
  <2> QED BY <1>1, <1>2, <1>4, <2>4, <2>6, <2>7 DEF Place
<1> QED BY <1>3, <1>4

(* Where there is no scheme there is no port of it.                        *)
Blank(text) == text = ""
LEMMA BlankIs == \A text : Blank(text) => text \notin {"https", "http", "ftp", "sftp", "smb"}
BY Zenon DEF Blank

LEMMA TargetIs ==
    ASSUME NEW f, NEW g, IsConnection(f), R!HasTarget(f, g), f.protocol \in Addressed \cup Bare,
           f.protocol \in Addressed => Blank(g.scheme) \/ g.scheme \in {"http", "https"},
           f.protocol \in Bare => Blank(g.scheme) \/ g.scheme \in BareSchemes(f)
    PROVE  R!TargetPort(f, g) = PortOr(g, Usual(f, g))
<1>1. Blank(g.scheme) => g.scheme \notin DOMAIN R!SchemePort
  BY BlankIs, SchemesAre
<1>2. g.port = 0 => g.scheme \in DOMAIN R!SchemePort \/ f.protocol \in DOMAIN R!ProtocolPort
  BY DEF R!HasTarget
<1>3. R!TargetPort(f, g) = PortOr(g, DefaultTarget(f, g))
  BY TargetPortIs
<1>4. CASE g.port # 0
  BY <1>3, <1>4 DEF PortOr
<1>5. CASE g.port = 0 /\ f.protocol \in Addressed
  <2>1. g.scheme \in {"http", "https"}
    BY <1>1, <1>2, <1>5, AddressedIs
  <2> QED BY <1>3, <1>5, <2>1, WholePort
<1>6. CASE f.protocol \in Bare
  BY <1>1, <1>3, <1>6, BarePort
<1> QED BY <1>4, <1>5, <1>6

(* A form is led to its address, through its forwarder if it has one.      *)
Carried(f, key, n) ==
    /\ DOMAIN forwards = {"live", "test"}
    /\ forwards[key] = [target |-> R!TunnelTarget(f, R!EndpointFor(f)), n |-> n]

LEMMA NearLeads ==
    ASSUME NEW f, NEW e, NEW key, NEW n, NEW s, IsConnection(f), ~R!Unmeant(f),
           Forwarded(f, e, key, n), Carried(f, key, n), Dialled(f, e, s.dials),
           f.protocol \in Addressed => Blank(e.scheme) \/ e.scheme \in {"http", "https"},
           f.protocol \in Bare => Blank(e.scheme) \/ e.scheme \in BareSchemes(f),
           f.protocol \in Addressed \cup Bare
    PROVE  R!Leads(s) = Place(f, R!EndpointFor(f)) /\ s.dials.host = key
<1>1. PICK g, y : g = R!EndpointFor(f) /\ y = s.dials
  OBVIOUS
<1>2. /\ R!TunnelOf(f) # "" /\ R!HasTarget(f, g) /\ key \in {"live", "test"}
      /\ e = R!Rewritten(g, key, n)
  BY <1>1 DEF Forwarded, Chained
<1>3. n # 0
  BY DEF Forwarded
<1>4. Consists(e, g.scheme, "", key, "") /\ Ported(e, n)
  BY <1>2, RewrittenIs
<1>5. e.scheme = g.scheme /\ e.host = key /\ e.path = ""
  BY <1>4 DEF Consists
<1>6. e.port = n
  BY <1>4 DEF Ported
<1>7. y.host = key /\ y # R!NoEndpoint /\ y.path = PathFor(f, e)
  BY <1>1, <1>5 DEF Dialled
<1>8. y.port = n
  BY <1>1, <1>3, <1>6 DEF Dialled
<1>9. forwards[key] = [target |-> R!TunnelTarget(f, g), n |-> n]
  BY <1>1 DEF Carried
<1>10. forwards[key].n = n /\ forwards[key].target = R!TunnelTarget(f, g)
  BY <1>9
<1>11. forwards[key] # R!NoForwarder
  <2>1. R!NoForwarder.n = 0
    BY DEF R!NoForwarder
  <2> QED BY <1>3, <1>10, <2>1
<1>12. R!Leads(s) = [host |-> forwards[y.host].target.host, port |-> forwards[y.host].target.port,
                     path |-> y.path]
  BY <1>1, <1>2, <1>7, <1>8, <1>10, <1>11, LeadsNear DEF Carried
<1>13. g.path = ""
  <2>1. R!Declared(f).path = ""
    BY <1>2, Zenon DEF R!Unmeant
  <2>2. g = R!Declared(f) \/ g = R!Redialed(R!Declared(f))
    BY <1>1 DEF R!EndpointFor
  <2>3. g = R!Redialed(R!Declared(f)) => g.path = ""
    BY <2>1, DeclaredIs, RedialedIs DEF EndpointOK, Consists
  <2> QED BY <2>1, <2>2, <2>3
<1>14. R!TunnelTarget(f, g).host = g.host /\ R!TunnelTarget(f, g).port = R!TargetPort(f, g)
  BY <1>13, Zenon DEF R!TunnelTarget
<1>15. R!TargetPort(f, g) = PortOr(g, Usual(f, g))
  BY <1>2, <1>5, TargetIs
<1>16. PathFor(f, e) = PathFor(f, g)
  BY <1>5, <1>13 DEF PathFor
<1> QED BY <1>1, <1>7, <1>10, <1>12, <1>14, <1>15, <1>16 DEF Place

LEMMA FarLeads ==
    ASSUME NEW f, NEW s, IsConnection(f), Dialled(f, R!EndpointFor(f), s.dials),
           s.type = R!Type(f), DOMAIN forwards = {"live", "test"}
    PROVE  R!Leads(s) = Place(f, R!EndpointFor(f)) /\ s.dials.host \notin {"live", "test"}
<1>1. PICK g, y : g = R!EndpointFor(f) /\ y = s.dials
  OBVIOUS
<1>2. g.host \notin {"live", "test"}
  BY <1>1, EndpointForIs DEF EndpointOK
<1>3. y.host = g.host /\ y.path = PathFor(f, g) /\ y # R!NoEndpoint
  BY <1>1 DEF Dialled
<1>4. PortOr(y, R!DefaultPort(s.type, y.scheme)) = PortOr(g, Usual(f, g))
  BY <1>1 DEF Dialled
<1>5. R!Leads(s) = [host |-> y.host, port |-> PortOr(y, R!DefaultPort(s.type, y.scheme)),
                    path |-> y.path]
  BY <1>1, <1>2, <1>3, LeadsFar
<1> QED BY <1>1, <1>2, <1>3, <1>4, <1>5 DEF Place

Keyed(f, e, key, n, s) ==
    s.dials.host \in {"live", "test"} => Forwarded(f, e, key, n) /\ s.dials.host = key
LEMMA NowhereLeads ==
    ASSUME NEW f, NEW s, s.dials = R!NoEndpoint, s.type = R!Type(f),
           "endpoint" \notin R!Shown(f) \/ R!Declared(f) = R!NoEndpoint
    PROVE  R!Leads(s) = R!Address(f) /\ s.dials.host \notin {"live", "test"}
<1>1. s.dials.host \notin {"live", "test"}
  BY NoEndpointIs, Zenon DEF Consists
<1>2. R!Leads(s) = [R!Nowhere EXCEPT !.host = s.type]
  BY LeadsNowhere
<1>3. R!Address(f) = [R!Nowhere EXCEPT !.host = R!Type(f)]
  BY AddressNowhere
<1> QED BY <1>1, <1>2, <1>3

LEMMA MeantLeads ==
    ASSUME NEW f, NEW e, NEW key, NEW n, IsConnection(f), R!Parses(f), Ready(f, e, key, n),
           R!HasSection(f, e), ~R!Unmeant(f), DOMAIN forwards = {"live", "test"},
           Forwarded(f, e, key, n) => Carried(f, key, n)
    PROVE  /\ R!Leads(R!SectionOf(f, e)) = R!Address(f)
           /\ Keyed(f, e, key, n, R!SectionOf(f, e))
<1>1. PICK s, d, g : s = R!SectionOf(f, e) /\ d = R!Declared(f) /\ g = R!EndpointFor(f)
  OBVIOUS
<1>2. s.type = R!Type(f) /\ s.dials = R!FamilyOptions(f, e).dials
  BY <1>1 DEF R!SectionOf
<1>3. AsTold(f, e) /\ AsTold(f, g) /\ IsEndpoint(g) /\ g.scheme = d.scheme
  BY <1>1, ReadyIs, EndpointForIs DEF EndpointOK
<1>4. CASE f.protocol \notin Addressed \cup Bare \cup {"pcloud"}
  BY <1>1, <1>2, <1>3, <1>4, DialsAre, NowhereLeads DEF Keyed
<1>5. CASE f.protocol \in Addressed \cup Bare \cup {"pcloud"} /\ d = R!NoEndpoint
  <2>1. e = R!NoEndpoint
    BY <1>1, <1>3, <1>5 DEF AsTold
  <2>2. f.protocol \notin Bare
    <3>1. f.protocol \in Bare => R!IsHostPort(e, BareSchemes(f))
      BY <1>3, DialsAre
    <3>2. ~R!IsHostPort(e, BareSchemes(f))
      BY <2>1, NoEndpointIs, Zenon DEF R!IsHostPort, Consists
    <3> QED BY <3>1, <3>2
  <2>3. s.dials = R!NoEndpoint
    BY ZenonT(60), <1>2, <1>3, <1>5, <2>1, <2>2, DialsAre DEF PcloudAt
  <2> QED BY <1>1, <1>2, <1>5, <2>3, NowhereLeads DEF Keyed
<1>6. CASE f.protocol \in Addressed \cup Bare \cup {"pcloud"} /\ d # R!NoEndpoint
  <2>1. "endpoint" \in R!Shown(f)
    BY <1>6, AddressedIs, BareIs, FieldsShown
  <2>2. R!Address(f) = Place(f, g)
    BY <1>1, <1>6, <2>1, PlaceIs
  <2>3. e # R!NoEndpoint
    BY <1>1, <1>3, <1>6 DEF AsTold
  <2>4. CASE Direct(f, e)
    <3>1. e = g
      BY <1>1, <2>4 DEF Direct
    <3>2. f.protocol = "pcloud" => e.port = 0 /\ e.scheme # "http"
      <4>1. f.protocol = "pcloud" => d.port = 0 /\ d.scheme # "http" /\ ~f.layers
        BY <1>1 DEF R!Unmeant
      <4>2. ~f.layers => g = d
        BY <1>1 DEF R!EndpointFor
      <4> QED BY <3>1, <4>1, <4>2
    <3>3. Dialled(f, e, s.dials)
      BY <1>2, <1>3, <1>6, <2>3, <3>1, <3>2, HasDialled
    <3> QED BY <1>1, <1>2, <2>2, <3>1, <3>3, FarLeads DEF Keyed
  <2>5. CASE Forwarded(f, e, key, n)
    <3>1. R!TunnelOf(f) # "" /\ e = R!Rewritten(g, key, n)
      BY <1>1, <2>5 DEF Forwarded, Chained
    <3>2. Consists(e, g.scheme, "", key, "")
      BY <3>1, RewrittenIs
    <3>3. IsEndpoint(e) /\ e.scheme = d.scheme
      BY <1>3, <3>2 DEF Consists
    <3>4. f.protocol # "pcloud"
      BY <3>1 DEF R!Unmeant
    <3>5. Dialled(f, e, s.dials)
      BY <1>2, <1>3, <1>6, <2>3, <3>3, <3>4, HasDialled
    <3>6. f.protocol \in Addressed => Blank(e.scheme) \/ e.scheme \in {"http", "https"}
      <4>1. f.protocol \in Addressed => R!Type(f) \in R!Urls
        BY AddressedIs
      <4>2. R!Type(f) \in R!Urls => Blank(d.scheme) \/ d.scheme \in {"http", "https"}
        BY <1>1, Zenon DEF R!Unmeant, Blank
      <4> QED BY <3>3, <4>1, <4>2
    <3>7. f.protocol \in Bare => Blank(e.scheme) \/ e.scheme \in BareSchemes(f)
      <4>1. f.protocol \in Bare => R!IsHostPort(e, BareSchemes(f))
        BY <1>3, DialsAre
      <4>2. R!IsHostPort(e, BareSchemes(f)) => Blank(e.scheme) \/ e.scheme \in BareSchemes(f)
        BY Zenon DEF R!IsHostPort, Blank
      <4> QED BY <4>1, <4>2
    <3>8. R!Leads(s) = Place(f, g) /\ s.dials.host = key
      BY <1>1, <1>6, <2>5, <3>4, <3>5, <3>6, <3>7, NearLeads
    <3> QED BY <1>1, <2>2, <2>5, <3>8 DEF Keyed
  <2> QED BY <2>4, <2>5 DEF Ready
<1> QED BY <1>4, <1>5, <1>6

(* The root of a connection has its bucket, or its share, first.           *)
LEMMA MeantRoots ==
    ASSUME NEW f, IsConnection(f), ~R!Unmeant(f)
    PROVE  R!BindingRoot(f).parts = R!MeantRoot(f)
<1> DEFINE filled == R!InRoot(f) \cap R!Filling(f)
           b == R!BucketField(f)
<1>1. "none" \notin f.fields /\ "endpoint" \notin f.fields
  BY DEF IsConnection, OwnValues
<1>2. \A x : x \in R!Filling(f) <=> x \in R!Shown(f) /\ x \in R!Filled(f, R!Declared(f))
  BY DEF R!Filling
<1>3. \A x : x # "endpoint" => (x \in R!Filled(f, R!Declared(f)) <=> x \in f.fields)
  BY DEF R!Filled
<1>4. b \in {"none", "bucket", "container"} /\ (b # "none" => b \in R!Shown(f))
  BY FieldsShown DEF R!BucketField, R!S3Family, R!Vendors
<1>5. f.protocol = "smb" => b = "none" /\ "share" \in R!Shown(f)
  BY FieldsShown DEF R!BucketField, R!S3Family, R!Vendors
<1>6. R!InRoot(f) = IF f.protocol = "smb" THEN {b, "share"} ELSE {b}
  BY DEF R!InRoot
<1>7. R!MeantRoot(f) = IF filled = {} THEN f.root.parts
                       ELSE <<CHOOSE x \in filled : TRUE>> \o f.root.parts
  BY DEF R!MeantRoot
<1>8. \A y : (CHOOSE x \in {y} : TRUE) = y
  OBVIOUS
<1>9. R!ComposedRoot(f) = IF b \in f.fields THEN [slash |-> TRUE, parts |-> <<b>> \o f.root.parts]
                          ELSE f.root
  BY DEF R!ComposedRoot, R!InBucket
<1>10. CASE f.protocol # "smb"
  <2>1. R!BindingRoot(f) = R!ComposedRoot(f)
    BY <1>10 DEF R!BindingRoot
  <2>2. CASE b \in f.fields
    <3>1. filled = {b}
      BY <1>1, <1>2, <1>3, <1>4, <1>6, <1>10, <2>2
    <3>2. R!MeantRoot(f) = <<b>> \o f.root.parts
      BY <1>7, <1>8, <3>1
    <3> QED BY <1>9, <2>1, <2>2, <3>2
  <2>3. CASE b \notin f.fields
    <3>1. filled = {}
      BY <1>1, <1>2, <1>3, <1>4, <1>6, <1>10, <2>3
    <3> QED BY <1>7, <1>9, <2>1, <2>3, <3>1
  <2> QED BY <2>2, <2>3
<1>11. CASE f.protocol = "smb"
  <2>1. R!ComposedRoot(f) = f.root
    BY <1>1, <1>5, <1>9, <1>11
  <2>2. CASE "share" \in f.fields
    <3>1. filled = {"share"}
      BY <1>1, <1>2, <1>3, <1>5, <1>6, <1>11, <2>2
    <3>2. R!MeantRoot(f) = <<"share">> \o f.root.parts
      BY <1>7, <1>8, <3>1
    <3>3. f.root.slash \/ f.root.parts = <<>>
      BY <1>11, <2>2 DEF R!Unmeant
    <3>4. R!BindingRoot(f) = [slash |-> TRUE, parts |-> <<"share">> \o f.root.parts]
      BY <1>11, <2>1, <2>2, <3>3, Zenon DEF R!BindingRoot
    <3> QED BY <3>2, <3>4
  <2>3. CASE "share" \notin f.fields
    <3>1. filled = {}
      BY <1>1, <1>2, <1>3, <1>5, <1>6, <1>11, <2>3
    <3>2. R!BindingRoot(f) = R!ComposedRoot(f)
      BY <2>3 DEF R!BindingRoot
    <3> QED BY <1>7, <2>1, <3>1, <3>2
  <2> QED BY <2>2, <2>3
<1> QED BY <1>10, <1>11

------------------------------------------------------------------------------
(* A connection that is registered is what its form says.                  *)
(* A section is what its form is meant to have, and leads there.  A call   *)
(* carries one from clear to insert, and the entry has one until a call    *)
(* that registers has come to the forwarders.                              *)
IsSection(s) ==
    s = [type |-> s.type, dials |-> s.dials, options |-> s.options, obscure |-> s.obscure]
Meant(f, s) ==
    /\ IsConnection(f) /\ IsSection(s)
    /\ ~R!Unmeant(f) =>
          R!Tells(f, s) /\ R!Leads(s) = R!Address(f) /\ s.dials.host # "test"
StillEarly == {"predelete", "forward", "delete"}
Carries(x) ==
    x.kind = "connect" /\ x.at \in {"clear", "create", "probe", "heal", "recreate", "insert"}
CallMeant(x) == Carries(x) => Meant(x.form, x.section)
EntryMeant == Meant(entry.form, entry.section)
Unmoved == \A c \in Threads : Registers(calls[c]) => calls[c].at \in StillEarly
MeantInv ==
    /\ R!Registered => entry.root = R!BindingRoot(entry.form)
    /\ spoiled = "met" \/
          /\ \A c \in Threads : CallMeant(calls[c])
          /\ spoiled = "no" /\ R!Registered /\ Unmoved => EntryMeant

LEMMA LeadsStay ==
    ASSUME DOMAIN forwards = {"live", "test"}, DOMAIN forwards' = DOMAIN forwards,
           forwards'["live"] = forwards["live"], NEW s, s.dials.host # "test"
    PROVE  R!Leads(s)' = R!Leads(s)
<1>1. PICK d : d = s.dials
  OBVIOUS
<1>2. d.host \in DOMAIN forwards => forwards'[d.host] = forwards[d.host]
  BY <1>1
<1> QED BY <1>1, <1>2, Zenon DEF R!Leads

LEMMA MeantStays ==
    ASSUME DOMAIN forwards = {"live", "test"}, DOMAIN forwards' = DOMAIN forwards,
           forwards'["live"] = forwards["live"], NEW f, NEW s, Meant(f, s)
    PROVE  Meant(f, s)'
BY LeadsStay DEF Meant

(* One more option of its own does not change what a section tells.        *)
Healed(s) == [s EXCEPT !.options = @ \cup {<<"true", "disable_mlsd">>}]
LEMMA HealedIs ==
    ASSUME NEW f, NEW s, Meant(f, s), NEW healed, healed = Healed(s)
    PROVE  Meant(f, healed)
<1>1. PICK more : more = s.options \cup {<<"true", "disable_mlsd">>}
  OBVIOUS
<1>2. healed = [s EXCEPT !.options = more]
  BY <1>1 DEF Healed
<1>3. healed = [type |-> s.type, dials |-> s.dials, options |-> more, obscure |-> s.obscure]
  BY <1>2 DEF Meant, IsSection
<1>4. /\ IsSection(healed) /\ healed.dials = s.dials /\ healed.type = s.type
      /\ healed.options = more /\ healed.obscure = s.obscure
  BY <1>3 DEF IsSection
<1>5. "true" \notin f.fields \cup {"endpoint"} \cup R!Secrets
  BY DEF Meant, IsConnection, OwnValues, R!Secrets
<1>6. R!Leads(healed) = R!Leads(s)
  BY <1>4 DEF R!Leads
<1>7. ASSUME R!Tells(f, s) PROVE R!Tells(f, healed)
  <2>1. \A told \in more : told \in s.options \/ told[1] = "true"
    BY <1>1
  <2>2. s.options \subseteq more
    BY <1>1
  <2>3. \A x \in R!Filling(f) \ R!InRoot(f) :
            \E told \in more : told[1] = x /\ x \in R!About(told[2])
    BY <1>7, <2>2 DEF R!Tells
  <2>4. \A told \in more :
            told[1] \in f.fields \cup {"endpoint"} => told[1] \in R!Filling(f) \cap R!About(told[2])
    BY <1>5, <1>7, <2>1 DEF R!Tells
  <2>5. R!Custom(f) => f.json.options \subseteq R!Names(more)
    BY <1>7, <2>2 DEF R!Tells, R!Names
  <2>6. R!FilledFrom(healed) \cap R!Secrets # {} => s.obscure
    BY <1>4, <1>5, <1>7, <2>1 DEF R!Tells, R!FilledFrom
  <2> QED BY <1>4, <2>3, <2>4, <2>5, <2>6 DEF R!Tells
<1> QED BY <1>4, <1>6, <1>7 DEF Meant

(* A call that leaves the entry and the forwarder of it alone.             *)
LEMMA MeantKeeps ==
    ASSUME ConnInv, MeantInv, NEW c, NEW x, NEW y, Moved(c, x, y),
           DOMAIN forwards' = DOMAIN forwards, forwards'["live"] = forwards["live"],
           entry' = entry, spoiled' # "met" => spoiled # "met",
           Carries(y) => /\ Carries(x) /\ y.form = x.form
                         /\ y.section = x.section \/ y.section = Healed(x.section),
           spoiled' = "no" /\ R!Registered /\ (Registers(y) => y.at \in StillEarly) =>
               spoiled = "no" /\ (Registers(x) => x.at \in StillEarly)
    PROVE  MeantInv'
<1>1. RemShape /\ DOMAIN forwards = {"live", "test"} /\ R!Registered' = R!Registered
  BY DEF ConnInv, RemShape, R!Registered
<1>2. /\ c \in Threads /\ x = calls[c] /\ calls'[c] = y
      /\ \A d \in Threads \ {c} : calls'[d] = calls[d]
  BY <1>1, MovedIs DEF Moved
<1>3. (R!Registered => entry.root = R!BindingRoot(entry.form))'
  BY <1>1 DEF MeantInv
<1> SUFFICES ASSUME spoiled' # "met"
             PROVE  /\ (\A d \in Threads : CallMeant(calls[d]))'
                    /\ (spoiled = "no" /\ R!Registered /\ Unmoved => EntryMeant)'
  BY <1>3 DEF MeantInv
<1>4. /\ \A d \in Threads : CallMeant(calls[d])
      /\ spoiled = "no" /\ R!Registered /\ Unmoved => EntryMeant
  BY DEF MeantInv
<1>5. \A z : CallMeant(z) => CallMeant(z)'
  BY <1>1, MeantStays DEF CallMeant, Carries
<1>6. CallMeant(y)
  BY <1>2, <1>4, HealedIs DEF CallMeant
<1>7. \A d \in Threads : \A z : z = calls'[d] => CallMeant(z)'
  BY <1>2, <1>4, <1>5, <1>6
<1>8. ASSUME (spoiled = "no" /\ R!Registered /\ Unmoved)' PROVE EntryMeant'
  <2>1. Registers(y) => y.at \in StillEarly
    BY <1>2, <1>8 DEF Unmoved
  <2>2. spoiled = "no" /\ (Registers(x) => x.at \in StillEarly)
    BY <1>1, <1>8, <2>1
  <2>3. \A d \in Threads : Registers(calls[d]) => calls[d].at \in StillEarly
    BY <1>2, <1>8, <2>2 DEF Unmoved
  <2>4. EntryMeant
    BY <1>1, <1>4, <1>8, <2>2, <2>3 DEF Unmoved
  <2>5. PICK f, s : f = entry.form /\ s = entry.section
    OBVIOUS
  <2>6. Meant(f, s)'
    BY <1>1, <2>4, <2>5, MeantStays DEF EntryMeant
  <2> QED BY <2>5, <2>6 DEF EntryMeant
<1> QED BY <1>7, <1>8

(* A call that changes them, and is alone.                                 *)
LEMMA MeantTurns ==
    ASSUME ConnInv, MeantInv, NEW c, NEW x, NEW y, Moved(c, x, y), Registers(x),
           (R!Registered => entry.root = R!BindingRoot(entry.form))',
           spoiled' # "met" =>
               /\ spoiled # "met" /\ CallMeant(y)'
               /\ (spoiled' = "no" /\ R!Registered' /\ (Registers(y) => y.at \in StillEarly) =>
                      EntryMeant')
    PROVE  MeantInv'
<1>1. /\ c \in Threads /\ x = calls[c] /\ calls'[c] = y
      /\ \A d \in Threads \ {c} : calls'[d] = calls[d]
  BY MovedIs DEF Moved, ConnInv
<1> SUFFICES ASSUME spoiled' # "met"
             PROVE  /\ (\A d \in Threads : CallMeant(calls[d]))'
                    /\ (spoiled = "no" /\ R!Registered /\ Unmoved => EntryMeant)'
  BY DEF MeantInv
<1>2. \A d \in Threads \ {c} : ~Registers(calls[d])
  BY <1>1 DEF ConnInv, Apart
<1>3. \A z : ~Registers(z) => CallMeant(z)'
  BY DEF CallMeant, Carries, Registers, Resting
<1>4. \A d \in Threads : \A z : z = calls'[d] => CallMeant(z)'
  BY <1>1, <1>2, <1>3
<1>5. ASSUME (spoiled = "no" /\ R!Registered /\ Unmoved)' PROVE EntryMeant'
  BY <1>1, <1>5 DEF Unmoved
<1> QED BY <1>4, <1>5

LEMMA MeantStart == R!RemoteInit => MeantInv
<1> SUFFICES ASSUME R!RemoteInit PROVE MeantInv
  OBVIOUS
<1>1. entry = R!NoEntry /\ calls = [c \in Threads |-> R!NoCall]
  BY DEF R!RemoteInit
<1>2. ~R!Registered
  BY <1>1 DEF R!Registered, R!NoEntry
<1>3. R!NoCall.at = "idle"
  BY NoCallIs
<1>4. \A c \in Threads : CallMeant(calls[c])
  BY <1>1, <1>3 DEF CallMeant, Carries
<1> QED BY <1>2, <1>4 DEF MeantInv

LEMMA MeantRests == ASSUME ConnInv, MeantInv, UNCHANGED remotes PROVE MeantInv'
<1>1. UNCHANGED <<forwards, entry, calls, spoiled>> /\ DOMAIN forwards = {"live", "test"}
  BY DEF remotes, ConnInv, RemShape
<1>2. \A z : CallMeant(z) => CallMeant(z)'
  BY <1>1, MeantStays DEF CallMeant, Carries
<1>3. EntryMeant => EntryMeant'
  <2>1. PICK f, s : f = entry.form /\ s = entry.section
    OBVIOUS
  <2>2. Meant(f, s) => Meant(f, s)'
    BY <1>1, MeantStays
  <2> QED BY <1>1, <2>1, <2>2 DEF EntryMeant
<1>4. (\A c \in Threads : CallMeant(calls[c])) => (\A c \in Threads : CallMeant(calls[c]))'
  <2>1. \A c \in Threads : \A z : z = calls[c] => (CallMeant(z) => CallMeant(z)')
    BY <1>2
  <2> QED BY <1>1, <2>1
<1> QED BY <1>1, <1>3, <1>4 DEF MeantInv, R!Registered, Unmoved

(* Calls that begin.                                                       *)
LEMMA MeantBegins ==
    ASSUME ConnInv, MeantInv, NEW c, NEW x, NEW y, Moved(c, x, y), x.at \in Resting,
           UNCHANGED <<forwards, entry>>, ~Carries(y),
           spoiled' = spoiled \/ R!Meets
    PROVE  MeantInv'
<1>1. ~Registers(x)
  BY DEF Registers, Resting
<1>2. spoiled' # "met" => spoiled # "met"
  BY DEF R!Meets
<1>3. spoiled' = "no" => spoiled = "no"
  BY DEF R!Meets
<1> QED BY <1>1, <1>2, <1>3, MeantKeeps

LEMMA BeginsMeant == ASSUME ConnInv, MeantInv, NEW c \in Threads, R!Begins(c) PROVE MeantInv'
<1>1. PICK f \in offered.forms, way \in {"test", "connect"} :
          LET went == [R!NoCall EXCEPT !.kind = way, !.form = f, !.n = begun + 1]
          IN \/ R!Goes(c, R!Answer(went, FALSE)) /\ UNCHANGED spoiled
             \/ R!Goes(c, [went EXCEPT !.at = "forward"]) /\ UNCHANGED spoiled
             \/ /\ R!Goes(c, [went EXCEPT !.at = "predelete", !.old = entry.group])
                /\ R!Meets
  BY DEF R!Begins
<1>2. PICK n, g, went : /\ n = begun + 1 /\ g = entry.group
                        /\ went = [R!NoCall EXCEPT !.kind = way, !.form = f, !.n = n]
  OBVIOUS
<1>3. CallIs(went)
  <2>1. PICK none : none = R!NoCall /\ CallIs(none)
    BY NoCallIs
  <2>2. went = [none EXCEPT !.kind = way, !.form = f, !.n = n]
    BY <1>2, <2>1
  <2>3. went = [at |-> none.at, kind |-> way, form |-> f, n |-> n, old |-> none.old,
                section |-> none.section, verdict |-> none.verdict, own |-> none.own,
                troubled |-> none.troubled, lost |-> none.lost]
    BY <2>1, <2>2 DEF CallIs
  <2> QED BY <2>3 DEF CallIs
<1>4. PICK y : /\ calls' = [calls EXCEPT ![c] = y] /\ (spoiled' = spoiled \/ R!Meets)
               /\ \/ y = R!Answer(went, FALSE)
                  \/ y = [went EXCEPT !.at = "forward"]
                  \/ y = [went EXCEPT !.at = "predelete", !.old = g]
  BY <1>1, <1>2 DEF R!Goes
<1>5. y = R!Answer(went, FALSE) => y.at = "answered"
  BY <1>3, AnswerIs DEF Turned
<1>6. y = [went EXCEPT !.at = "forward"] => y.at = "forward"
  BY <1>3, TurnsTo DEF Turned
<1>7. y = [went EXCEPT !.at = "predelete", !.old = g] => y.at = "predelete"
  BY <1>3 DEF CallIs
<1>8. ~Carries(y)
  BY <1>4, <1>5, <1>6, <1>7 DEF Carries
<1>9. PICK x : x = calls[c] /\ Moved(c, x, y)
  BY <1>4 DEF Moved
<1>10. x.at \in Resting /\ UNCHANGED <<forwards, entry>>
  BY <1>9 DEF R!Begins, R!Busy, Resting
<1> QED BY <1>4, <1>8, <1>9, <1>10, MeantBegins

LEMMA DisconnectsMeant ==
    ASSUME ConnInv, MeantInv, NEW c \in Threads, R!Disconnects(c) PROVE MeantInv'
<1>1. PICK n, g, went : /\ n = begun + 1 /\ g = entry.group
                        /\ went = [R!NoCall EXCEPT !.kind = "disconnect", !.n = n]
  OBVIOUS
<1>2. CallIs(went) /\ went.kind = "disconnect"
  <2>1. PICK none : none = R!NoCall /\ CallIs(none)
    BY NoCallIs
  <2>2. went = [none EXCEPT !.kind = "disconnect", !.n = n]
    BY <1>1, <2>1
  <2>3. went = [at |-> none.at, kind |-> "disconnect", form |-> none.form, n |-> n,
                old |-> none.old, section |-> none.section, verdict |-> none.verdict,
                own |-> none.own, troubled |-> none.troubled, lost |-> none.lost]
    BY <2>1, <2>2 DEF CallIs
  <2> QED BY <2>3 DEF CallIs
<1>3. PICK y : /\ calls' = [calls EXCEPT ![c] = y]
               /\ \/ y = R!Answer(went, TRUE) /\ spoiled' = spoiled
                  \/ R!Meets /\ y = [went EXCEPT !.at = "delete", !.old = g]
  BY <1>1 DEF R!Disconnects, R!Goes
<1>4. y = R!Answer(went, TRUE) => y.at = "answered"
  BY <1>2, AnswerIs DEF Turned
<1>5. y = [went EXCEPT !.at = "delete", !.old = g] => y.at = "delete"
  BY <1>2 DEF CallIs
<1>6. ~Carries(y)
  BY <1>3, <1>4, <1>5 DEF Carries
<1>7. PICK x : x = calls[c] /\ Moved(c, x, y)
  BY <1>3 DEF Moved
<1>8. x.at \in Resting /\ UNCHANGED <<forwards, entry>>
  BY <1>7 DEF R!Disconnects, R!Busy, Resting
<1> QED BY <1>3, <1>6, <1>7, <1>8, MeantBegins

(* A call goes on with the section it has, or without one.                 *)
LEMMA MeantOn ==
    ASSUME ConnInv, MeantInv, NEW c, NEW x, NEW y, Moved(c, x, y), Same(x, y),
           UNCHANGED <<forwards, entry, spoiled>>,
           Carries(y) => /\ Carries(x)
                         /\ y.section = x.section \/ y.section = Healed(x.section),
           Registers(x) /\ (Registers(y) => y.at \in StillEarly) => x.at \in StillEarly
    PROVE  MeantInv'
BY MeantKeeps DEF Same

LEMMA TestsMeant ==
    ASSUME ConnInv, MeantInv, NEW c, NEW x, NEW y, Moved(c, x, y), Same(x, y), x.kind = "test",
           DOMAIN forwards' = DOMAIN forwards, forwards'["live"] = forwards["live"],
           UNCHANGED <<entry, spoiled>>
    PROVE  MeantInv'
<1>1. ~Carries(y) /\ ~Registers(x)
  BY DEF Carries, Registers, Same
<1> QED BY <1>1, MeantKeeps

LEMMA PredeletesMeant ==
    ASSUME ConnInv, MeantInv, NEW c \in Threads, R!Predeletes(c) PROVE MeantInv'
<1>1. PICK x, went : x = calls[c] /\ went = [x EXCEPT !.at = "forward"]
  OBVIOUS
<1>2. x.at = "predelete" /\ CallIs(x) /\ RemShape
  BY <1>1, CallAt DEF R!Predeletes, R!At, ConnInv
<1>3. \E y \in {went, R!Troubled(went)} : calls' = [calls EXCEPT ![c] = y]
  <2>1. \/ R!Goes(c, went) \/ \E name : R!Deletes(c, name, went)
    BY <1>1 DEF R!Predeletes, R!Bypasses, R!To
  <2> QED BY <1>2, <2>1, DeletesSo DEF R!Goes
<1>4. PICK y \in {went, R!Troubled(went)} : Moved(c, x, y)
  BY <1>1, <1>3 DEF Moved
<1>5. Turned(x, y, "forward")
  BY <1>1, <1>2, <1>4, TurnsTroubled
<1>6. UNCHANGED <<forwards, entry, spoiled>>
  BY DEF R!Predeletes
<1> QED BY <1>2, <1>4, <1>5, <1>6, MeantOn DEF Turned, Carries, StillEarly

LEMMA ClearsMeant == ASSUME ConnInv, MeantInv, NEW c \in Threads, R!Clears(c) PROVE MeantInv'
<1>1. PICK x, went : x = calls[c] /\ went = [x EXCEPT !.at = "create"]
  OBVIOUS
<1>2. x.at = "clear" /\ x.kind = "connect" /\ CallIs(x) /\ RemShape
  BY <1>1, CallAt DEF R!Clears, R!At, ConnInv
<1>3. \E y \in {went, R!Troubled(went)} : calls' = [calls EXCEPT ![c] = y]
  <2>1. \/ R!Goes(c, went) \/ \E name : R!Deletes(c, name, went)
    BY <1>1 DEF R!Clears, R!Bypasses, R!To
  <2> QED BY <1>2, <2>1, DeletesSo DEF R!Goes
<1>4. PICK y \in {went, R!Troubled(went)} : Moved(c, x, y)
  BY <1>1, <1>3 DEF Moved
<1>5. Turned(x, y, "create")
  BY <1>1, <1>2, <1>4, TurnsTroubled
<1>6. UNCHANGED <<forwards, entry, spoiled>>
  BY DEF R!Clears
<1> QED BY <1>2, <1>4, <1>5, <1>6, MeantOn DEF Turned, Same, Carries, StillEarly, Registers, Resting

LEMMA CreatesMeant == ASSUME ConnInv, MeantInv, NEW c \in Threads, R!Creates(c) PROVE MeantInv'
<1>1. PICK x, after : /\ x = calls[c]
                     /\ after = IF x.kind = "test" THEN "look"
                               ELSE IF x.section.type = "ftp" THEN "probe" ELSE "insert"
  OBVIOUS
<1>2. x.at = "create" /\ x.kind \in {"test", "connect"} /\ CallIs(x)
  BY <1>1, CallAt DEF R!Creates, R!At
<1>3. PICK y : /\ Moved(c, x, y)
               /\ \/ y = [x EXCEPT !.at = after]
                  \/ y = R!Troubled([x EXCEPT !.at = "sweep"])
  BY <1>1 DEF R!Creates, R!To, R!Goes, Moved
<1>4. PICK a \in {after, "sweep"} : Turned(x, y, a)
  BY <1>2, <1>3, TurnsTo, TurnsTroubled
<1>5. UNCHANGED <<forwards, entry, spoiled>>
  BY DEF R!Creates
<1>6. CASE x.kind = "test"
  BY <1>3, <1>4, <1>5, <1>6, TestsMeant DEF Turned
<1>7. CASE x.kind = "connect"
  <2>1. a \in {"sweep", "probe", "insert"}
    BY <1>1, <1>4, <1>7
  <2> QED
    BY <1>2, <1>3, <1>4, <1>5, <1>7, <2>1, MeantOn
    DEF Turned, Same, Carries, StillEarly, Registers, Resting
<1> QED BY <1>2, <1>6, <1>7

LEMMA SweepsMeant == ASSUME ConnInv, MeantInv, NEW c \in Threads, R!Sweeps(c) PROVE MeantInv'
<1>1. PICK x, went :
          /\ x = calls[c]
          /\ went = IF x.kind = "test" THEN R!Answer(x, FALSE) ELSE [x EXCEPT !.at = "fail"]
  OBVIOUS
<1>2. x.at = "sweep" /\ x.kind \in {"test", "connect"} /\ CallIs(x) /\ RemShape
  BY <1>1, CallAt DEF R!Sweeps, R!At, ConnInv
<1>3. R!Deletes(c, R!NameOf(x), went)
  BY <1>1 DEF R!Sweeps
<1>4. PICK y \in {went, R!Troubled(went)} : Moved(c, x, y)
  BY <1>1, <1>2, <1>3, DeletesSo DEF Moved
<1>5. /\ Same(x, y)
      /\ x.kind = "connect" => Turned(x, y, "fail")
  <2>1. CASE x.kind = "test"
    <3>1. y \in {R!Answer(x, FALSE), R!Troubled(R!Answer(x, FALSE))}
      BY <1>1, <1>4, <2>1
    <3> QED BY <1>2, <2>1, <3>1, AnswersTroubled DEF Turned
  <2>2. CASE x.kind = "connect"
    <3>1. y \in {[x EXCEPT !.at = "fail"], R!Troubled([x EXCEPT !.at = "fail"])}
      BY <1>1, <1>4, <2>2
    <3>2. Turned(x, y, "fail")
      BY <1>2, <3>1, TurnsTroubled
    <3> QED BY <2>2, <3>2 DEF Turned
  <2> QED BY <1>2, <2>1, <2>2
<1>6. UNCHANGED <<forwards, entry, spoiled>> /\ Moved(c, x, y)
  BY <1>4 DEF R!Sweeps
<1>7. CASE x.kind = "test"
  BY <1>5, <1>6, <1>7, TestsMeant
<1>8. CASE x.kind = "connect"
  BY <1>2, <1>5, <1>6, <1>8, MeantOn
  DEF Turned, Same, Carries, StillEarly, Registers, Resting
<1> QED BY <1>2, <1>7, <1>8

(* A call of a test that has looked.                                       *)
Looked(x, y) ==
    \/ \E ok, own : y = [x EXCEPT !.verdict = ok, !.own = own, !.at = "clean"]
    \/ y = R!Troubled([x EXCEPT !.verdict = FALSE, !.at = "clean"])
LEMMA LooksSo ==
    ASSUME NEW x, CallIs(x), NEW y, Looked(x, y)
    PROVE  Same(x, y) /\ y.at = "clean"
<1>1. ASSUME NEW ok, NEW own, y = [x EXCEPT !.verdict = ok, !.own = own, !.at = "clean"]
      PROVE  Same(x, y) /\ y.at = "clean"
  <2>1. y = [at |-> "clean", kind |-> x.kind, form |-> x.form, n |-> x.n, old |-> x.old,
             section |-> x.section, verdict |-> ok, own |-> own, troubled |-> x.troubled,
             lost |-> x.lost]
    BY <1>1 DEF CallIs
  <2> QED BY <2>1 DEF Same, CallIs
<1>2. ASSUME y = R!Troubled([x EXCEPT !.verdict = FALSE, !.at = "clean"])
      PROVE  Same(x, y) /\ y.at = "clean"
  <2>1. PICK z, v : v = FALSE /\ z = [x EXCEPT !.verdict = v, !.at = "clean"]
    OBVIOUS
  <2>2. z = [at |-> "clean", kind |-> x.kind, form |-> x.form, n |-> x.n, old |-> x.old,
             section |-> x.section, verdict |-> v, own |-> x.own, troubled |-> x.troubled,
             lost |-> x.lost]
    BY <2>1 DEF CallIs
  <2>3. Same(x, z) /\ z.at = "clean"
    BY <2>2 DEF Same, CallIs
  <2>4. Turned(z, y, "clean")
    BY <1>2, <2>1, <2>3, TroubledIs DEF Same
  <2> QED BY <2>3, <2>4 DEF Turned, Same
<1> QED BY <1>1, <1>2 DEF Looked

LEMMA LooksMeant == ASSUME ConnInv, MeantInv, NEW c \in Threads, R!Looks(c) PROVE MeantInv'
<1>1. PICK x : x = calls[c]
  OBVIOUS
<1>2. x.at = "look" /\ x.kind = "test" /\ CallIs(x)
  BY <1>1, CallAt DEF R!Looks, R!At
<1>3. UNCHANGED <<forwards, entry, spoiled>>
  BY DEF R!Looks
<1>4. \E ok, own :
          \/ R!Goes(c, [x EXCEPT !.verdict = ok, !.own = own, !.at = "clean"])
          \/ R!Goes(c, R!Troubled([x EXCEPT !.verdict = FALSE, !.at = "clean"]))
  BY <1>1 DEF R!Looks
<1>5. \E y : calls' = [calls EXCEPT ![c] = y] /\ Looked(x, y)
  <2>1. PICK ok, own :
            \/ R!Goes(c, [x EXCEPT !.verdict = ok, !.own = own, !.at = "clean"])
            \/ R!Goes(c, R!Troubled([x EXCEPT !.verdict = FALSE, !.at = "clean"]))
    BY <1>4
  <2>2. PICK y, z : /\ y = [x EXCEPT !.verdict = ok, !.own = own, !.at = "clean"]
                    /\ z = R!Troubled([x EXCEPT !.verdict = FALSE, !.at = "clean"])
    OBVIOUS
  <2>3. Looked(x, y) /\ Looked(x, z)
    BY <2>2 DEF Looked
  <2> QED BY <2>1, <2>2, <2>3 DEF R!Goes
<1>6. PICK y : Moved(c, x, y) /\ Looked(x, y)
  BY <1>1, <1>5 DEF Moved
<1>7. Same(x, y)
  BY <1>2, <1>6, LooksSo
<1> QED BY <1>2, <1>3, <1>6, <1>7, TestsMeant

LEMMA CleansMeant == ASSUME ConnInv, MeantInv, NEW c \in Threads, R!Cleans(c) PROVE MeantInv'
<1>1. PICK x, ok : x = calls[c] /\ ok = x.verdict
  OBVIOUS
<1>2. x.at = "clean" /\ x.kind = "test" /\ CallIs(x)
  BY <1>1, CallAt DEF R!Cleans, R!At
<1>3. UNCHANGED <<forwards, entry, spoiled>>
  BY DEF R!Cleans
<1>4. PICK y : /\ calls' = [calls EXCEPT ![c] = y]
               /\ y = R!Answer(x, ok) \/ y = R!Troubled(R!Answer(x, FALSE))
  BY <1>1 DEF R!Cleans, R!Answers, R!Goes
<1>5. Same(x, y)
  BY <1>2, <1>4, AnswerIs, AnswersTroubled DEF Turned
<1> QED BY <1>1, <1>2, <1>3, <1>4, <1>5, TestsMeant DEF Moved

LEMMA ProbesMeant == ASSUME ConnInv, MeantInv, NEW c \in Threads, R!Probes(c) PROVE MeantInv'
<1>1. PICK x : x = calls[c]
  OBVIOUS
<1>2. x.at = "probe" /\ x.kind = "connect" /\ CallIs(x)
  BY <1>1, CallAt DEF R!Probes, R!At
<1>3. UNCHANGED <<forwards, entry, spoiled>>
  BY DEF R!Probes
<1>4. PICK a, y : /\ a \in {"heal", "insert"} /\ Moved(c, x, y)
                  /\ \/ y = [x EXCEPT !.at = a]
                     \/ y = R!Troubled([x EXCEPT !.at = "insert"])
  BY <1>1 DEF R!Probes, R!To, R!Goes, Moved
<1>5. Turned(x, y, a) \/ Turned(x, y, "insert")
  BY <1>2, <1>4, TurnsTo, TurnsTroubled
<1>6. Same(x, y) /\ y.section = x.section /\ y.at \in {"heal", "insert"} /\ Moved(c, x, y)
  BY <1>4, <1>5 DEF Turned
<1> QED BY <1>2, <1>3, <1>6, MeantOn DEF Same, Carries, StillEarly, Registers, Resting

LEMMA HealsMeant == ASSUME ConnInv, MeantInv, NEW c \in Threads, R!Heals(c) PROVE MeantInv'
<1>1. PICK x, went : x = calls[c] /\ went = [x EXCEPT !.at = "recreate"]
  OBVIOUS
<1>2. x.at = "heal" /\ x.kind = "connect" /\ CallIs(x) /\ RemShape
  BY <1>1, CallAt DEF R!Heals, R!At, ConnInv
<1>3. \E name : R!Deletes(c, name, went)
  BY <1>1 DEF R!Heals
<1>4. PICK y \in {went, R!Troubled(went)} : Moved(c, x, y)
  BY <1>1, <1>2, <1>3, DeletesSo DEF Moved
<1>5. Turned(x, y, "recreate")
  BY <1>1, <1>2, <1>4, TurnsTroubled
<1>6. UNCHANGED <<forwards, entry, spoiled>>
  BY DEF R!Heals
<1> QED BY <1>2, <1>4, <1>5, <1>6, MeantOn DEF Turned, Same, Carries, StillEarly, Registers, Resting

LEMMA RecreatesMeant == ASSUME ConnInv, MeantInv, NEW c \in Threads, R!Recreates(c) PROVE MeantInv'
<1>1. PICK x, healed, yes : x = calls[c] /\ healed = Healed(x.section) /\ yes = TRUE
  OBVIOUS
<1>2. x.at = "recreate" /\ x.kind = "connect" /\ CallIs(x)
  BY <1>1, CallAt DEF R!Recreates, R!At
<1>3. UNCHANGED <<forwards, entry, spoiled>>
  BY DEF R!Recreates
<1>4. PICK y, z :
          /\ Moved(c, x, y)
          /\ \/ y = [x EXCEPT !.section = healed, !.at = "insert"]
             \/ y = R!Troubled(z) /\ z = [x EXCEPT !.lost = yes, !.at = "insert"]
  BY <1>1 DEF R!Recreates, R!Goes, Moved, Healed
<1>5. ASSUME y = [x EXCEPT !.section = healed, !.at = "insert"]
      PROVE  Same(x, y) /\ y.at = "insert" /\ y.section = healed
  <2>1. y = [at |-> "insert", kind |-> x.kind, form |-> x.form, n |-> x.n, old |-> x.old,
             section |-> healed, verdict |-> x.verdict, own |-> x.own, troubled |-> x.troubled,
             lost |-> x.lost]
    BY <1>2, <1>5 DEF CallIs
  <2> QED BY <2>1 DEF Same, CallIs
<1>6. ASSUME y = R!Troubled(z), z = [x EXCEPT !.lost = yes, !.at = "insert"]
      PROVE  Same(x, y) /\ y.at = "insert" /\ y.section = x.section
  <2>1. z = [at |-> "insert", kind |-> x.kind, form |-> x.form, n |-> x.n, old |-> x.old,
             section |-> x.section, verdict |-> x.verdict, own |-> x.own,
             troubled |-> x.troubled, lost |-> yes]
    BY <1>2, <1>6 DEF CallIs
  <2>2. Same(x, z) /\ z.at = "insert" /\ z.section = x.section
    BY <2>1 DEF Same, CallIs
  <2>3. Turned(z, y, "insert")
    BY <1>6, <2>2, TroubledIs DEF Same
  <2> QED BY <2>2, <2>3 DEF Turned, Same
<1>7. /\ Same(x, y) /\ y.at = "insert" /\ Moved(c, x, y)
      /\ y.section = x.section \/ y.section = Healed(x.section)
  BY <1>1, <1>4, <1>5, <1>6
<1> QED BY <1>2, <1>3, <1>7, MeantOn DEF Same, Carries, StillEarly, Registers, Resting

LEMMA DropsMeant == ASSUME ConnInv, MeantInv, NEW c \in Threads, R!Drops(c) PROVE MeantInv'
<1>1. PICK x, went : x = calls[c] /\ went = [x EXCEPT !.at = "remove"]
  OBVIOUS
<1>2. x.at = "delete" /\ x.kind = "disconnect" /\ CallIs(x) /\ RemShape
  BY <1>1, CallAt DEF R!Drops, R!At, ConnInv, DropAt
<1>3. UNCHANGED <<forwards, entry, spoiled>>
  BY DEF R!Drops
<1>4. \E y : /\ calls' = [calls EXCEPT ![c] = y]
             /\ \/ y = [x EXCEPT !.at = "release"]
                \/ y \in {went, R!Troubled(went)}
                \/ y = R!Troubled(R!Answer(x, FALSE))
  <2>1. \/ R!Goes(c, [x EXCEPT !.at = "release"])
        \/ \E name : R!Deletes(c, name, went)
        \/ R!Goes(c, R!Troubled(R!Answer(x, FALSE)))
    BY <1>1 DEF R!Drops, R!Bypasses, R!To
  <2> QED BY <1>2, <2>1, DeletesSo DEF R!Goes
<1>5. PICK y : /\ Moved(c, x, y)
               /\ \/ y = [x EXCEPT !.at = "release"]
                  \/ y \in {went, R!Troubled(went)}
                  \/ y = R!Troubled(R!Answer(x, FALSE))
  BY <1>1, <1>4 DEF Moved
<1>6. Turned(x, y, "release") \/ Turned(x, y, "remove") \/ Turned(x, y, "answered")
  BY ZenonT(60), <1>1, <1>2, <1>5, TurnsTo, TurnsTroubled, AnswersTroubled
<1>7. Same(x, y) /\ Moved(c, x, y)
  BY <1>5, <1>6 DEF Turned
<1> QED BY <1>2, <1>3, <1>7, MeantOn DEF Same, Carries, StillEarly

(* A call that goes on from the forwarders has the section that is meant.  *)
LeadsMeant ==
    \A f, e, key, n :
        /\ IsConnection(f) /\ R!Parses(f) /\ Ready(f, e, key, n) /\ R!HasSection(f, e)
        /\ ~R!Unmeant(f) /\ DOMAIN forwards = {"live", "test"}
        /\ Forwarded(f, e, key, n) => Carried(f, key, n)
        => R!Leads(R!SectionOf(f, e)) = R!Address(f) /\ Keyed(f, e, key, n, R!SectionOf(f, e))
LEMMA SectionsLead == LeadsMeant
BY MeantLeads DEF LeadsMeant

LEMMA SectionsMeant ==
    ASSUME NEW f, NEW e, NEW n, IsConnection(f), R!Parses(f), Ready(f, e, "live", n),
           R!HasSection(f, e), (DOMAIN forwards = {"live", "test"})',
           Forwarded(f, e, "live", n) => Carried(f, "live", n)',
           NEW s, s = R!SectionOf(f, e)
    PROVE  Meant(f, s)'
<1>1. IsSection(s)
  <2>1. PICK o, p, ob, t : /\ o = R!FamilyOptions(f, e).dials /\ t = R!Type(f)
                           /\ p = R!ProxyOption(f) \cup R!FamilyOptions(f, e).options
                           /\ ob = R!Obscures(f, R!FamilyOptions(f, e).options)
    OBVIOUS
  <2>2. s = [type |-> t, dials |-> o, options |-> p, obscure |-> ob]
    BY <2>1 DEF R!SectionOf
  <2> QED BY <2>2 DEF IsSection
<1>2. LeadsMeant'
  BY SectionsLead, PTL
<1>3. PICK key : key = "live"
  OBVIOUS
<1>4. ASSUME ~R!Unmeant(f)
      PROVE  R!Tells(f, s) /\ R!Leads(s)' = R!Address(f) /\ s.dials.host # "test"
  <2>1. R!Tells(f, s)
    BY <1>4, MeantIsTold
  <2>2. /\ R!Leads(R!SectionOf(f, e))' = R!Address(f)
        /\ Keyed(f, e, key, n, R!SectionOf(f, e))
    BY <1>2, <1>3, <1>4 DEF LeadsMeant
  <2>3. Keyed(f, e, key, n, s)
    BY <2>2
  <2>4. s.dials.host # "test"
    BY <1>3, <2>3 DEF Keyed
  <2> QED BY <2>1, <2>2, <2>4
<1> QED BY <1>1, <1>4 DEF Meant

LEMMA DialsHave ==
    ASSUME NEW c \in Threads, NEW x, x = calls[c], CallIs(x), NEW e, R!Dials(c, e)
    PROVE  \E y : /\ calls' = [calls EXCEPT ![c] = y] /\ Same(x, y)
                  /\ \/ y.at = IF x.kind = "test" THEN "answered" ELSE "fail"
                     \/ /\ y.at = IF x.kind = "test" THEN "create" ELSE "clear"
                        /\ R!HasSection(x.form, e) /\ y.section = R!SectionOf(x.form, e)
<1>1. PICK s, a, b :
          /\ s = R!SectionOf(x.form, e)
          /\ a = IF x.kind = "test" THEN "create" ELSE "clear"
          /\ b = IF x.kind = "test" THEN "answered" ELSE "fail"
  OBVIOUS
<1>2. PICK y : /\ calls' = [calls EXCEPT ![c] = y]
               /\ \/ \E went \in {x, R!Troubled(x)} :
                        y = IF went.kind = "test" THEN R!Answer(went, FALSE)
                            ELSE [went EXCEPT !.at = "fail"]
                  \/ R!HasSection(x.form, e) /\ y = [x EXCEPT !.section = s, !.at = a]
  BY <1>1 DEF R!Dials, R!Refuses, R!Goes
<1>3. ASSUME y = [x EXCEPT !.section = s, !.at = a]
      PROVE  Same(x, y) /\ y.at = a /\ y.section = s
  <2>1. y = [at |-> a, kind |-> x.kind, form |-> x.form, n |-> x.n, old |-> x.old,
             section |-> s, verdict |-> x.verdict, own |-> x.own, troubled |-> x.troubled,
             lost |-> x.lost]
    BY <1>3 DEF CallIs
  <2> QED BY <2>1 DEF Same, CallIs
<1>4. ASSUME NEW went \in {x, R!Troubled(x)},
             y = IF went.kind = "test" THEN R!Answer(went, FALSE) ELSE [went EXCEPT !.at = "fail"]
      PROVE  Same(x, y) /\ y.at = b
  <2>1. Turned(x, y, b)
    BY <1>1, <1>4, RefusedIs
  <2> QED BY <2>1 DEF Turned
<1>5. /\ Same(x, y)
      /\ y.at = b \/ (y.at = a /\ R!HasSection(x.form, e) /\ y.section = s)
  BY <1>2, <1>3, <1>4
<1> QED BY <1>1, <1>2, <1>5

(* Of a call that registers, what the forwarders of it come to.            *)
LEMMA DialsMeant ==
    ASSUME ConnInv, MeantInv, NEW c \in Threads, NEW x, x = calls[c], x.at = "forward",
           x.kind = "connect", NEW e, R!Dials(c, e), Ready(x.form, e, "live", x.n),
           Forwarded(x.form, e, "live", x.n) => Carried(x.form, "live", x.n)',
           DOMAIN forwards' = DOMAIN forwards, UNCHANGED <<entry, spoiled>>
    PROVE  MeantInv'
<1>1. CallIs(x) /\ Registers(x) /\ Accepted(x.form) /\ IsConnection(x.form)
  <2>1. CallOK(x) /\ offered \in Offers
    BY DEF ConnInv, RemShape
  <2>2. CallIs(x) /\ Registers(x) /\ Accepted(x.form)
    BY <2>1 DEF CallOK, Bounds, Registers, Resting
  <2> QED BY <2>1, <2>2, RemoteAssumption DEF Accepted
<1>2. PICK y : /\ Moved(c, x, y) /\ Same(x, y)
               /\ \/ y.at = "fail"
                  \/ /\ y.at = "clear"
                     /\ R!HasSection(x.form, e) /\ y.section = R!SectionOf(x.form, e)
  BY <1>1, DialsHave DEF Moved
<1>3. Carries(y) => Meant(y.form, y.section)'
  <2> SUFFICES ASSUME Carries(y) PROVE Meant(y.form, y.section)'
    OBVIOUS
  <2>1. R!HasSection(x.form, e) /\ y.section = R!SectionOf(x.form, e) /\ y.form = x.form
    BY <1>2 DEF Carries, Same
  <2>2. (DOMAIN forwards = {"live", "test"})'
    BY DEF ConnInv, RemShape
  <2>3. R!Parses(x.form)
    BY <1>1 DEF Accepted
  <2> QED BY <1>1, <2>1, <2>2, <2>3, SectionsMeant
<1>4. CallMeant(y)'
  BY <1>3 DEF CallMeant, Carries
<1>5. Registers(y) /\ y.at \notin StillEarly
  BY <1>2 DEF Registers, StillEarly, Resting, Same
<1>6. (R!Registered => entry.root = R!BindingRoot(entry.form))'
  BY DEF MeantInv, R!Registered
<1> QED BY <1>1, <1>2, <1>4, <1>5, <1>6, MeantTurns

(* A connect that ends without its forwarder.                              *)
LEMMA FailedMeant ==
    ASSUME ConnInv, MeantInv, NEW c, NEW x, NEW y, Moved(c, x, y), x.kind = "connect",
           x.at \notin Resting, Turned(x, y, "answered"), entry' = entry, R!Spoils("failed")
    PROVE  MeantInv'
<1>1. Registers(x)
  BY DEF Registers
<1>2. /\ spoiled' # "met" => spoiled # "met"
      /\ spoiled' = "no" => ~R!Registered'
  BY DEF R!Spoils, R!Registered
<1>3. CallMeant(y)'
  BY DEF CallMeant, Carries, Turned
<1>4. (R!Registered => entry.root = R!BindingRoot(entry.form))'
  BY DEF MeantInv, R!Registered
<1> QED BY <1>1, <1>2, <1>3, <1>4, MeantTurns

LEMMA ForwardsMeant == ASSUME ConnInv, MeantInv, NEW c \in Threads, R!Forwards(c) PROVE MeantInv'
<1>1. PICK x, f, e, key :
          x = calls[c] /\ f = x.form /\ e = R!EndpointFor(f) /\ key = R!KeyOf(x)
  OBVIOUS
<1>2. /\ x.at = "forward" /\ x.kind \in {"test", "connect"} /\ CallOK(x) /\ CallIs(x) /\ RemShape
      /\ entry' = entry /\ DOMAIN forwards' = DOMAIN forwards
  BY <1>1, CallAt DEF R!Forwards, R!At, ConnInv
<1>3. key = IF x.kind = "test" THEN "test" ELSE "live"
  BY <1>1 DEF R!KeyOf
<1>4. PICK target : target = [target |-> R!TunnelTarget(f, e), n |-> x.n]
  OBVIOUS
<1>5. \/ R!TunnelOf(f) = "" /\ R!Dials(c, e) /\ UNCHANGED <<forwards, spoiled>>
      \/ /\ R!Goes(c, R!Answer(x, FALSE))
         /\ spoiled' = spoiled \/ R!Spoils("failed")
         /\ UNCHANGED forwards
      \/ /\ R!TunnelOf(f) # "" /\ R!HasTarget(f, e)
         /\ forwards' = [forwards EXCEPT ![key] = target]
         /\ R!Dials(c, R!Rewritten(e, key, x.n)) /\ spoiled' = spoiled
      \/ /\ forwards' = [forwards EXCEPT ![key] = R!NoForwarder]
         /\ R!Goes(c, R!Troubled(R!Answer(x, FALSE)))
         /\ IF key = "live" THEN R!Spoils("failed") ELSE spoiled' = spoiled
  BY <1>1, <1>4 DEF R!Forwards, R!Answers
<1>6. CASE x.kind = "test"
  <2>1. forwards'["live"] = forwards["live"]
    BY <1>2, <1>3, <1>5, <1>6 DEF RemShape
  <2>3. x.old = "none" /\ key # "live"
    BY <1>2, <1>3, <1>6 DEF CallOK, Bounds, Resting
  <2>4. spoiled' = spoiled
    BY <1>1, <2>3 DEF R!Forwards
  <2>2. \E y : Moved(c, x, y) /\ Same(x, y)
    <3>1. \A d : R!Dials(c, d) => \E y : calls' = [calls EXCEPT ![c] = y] /\ Same(x, y)
      BY <1>1, <1>2, DialsHave
    <3>2. R!Goes(c, R!Answer(x, FALSE)) => \E y : calls' = [calls EXCEPT ![c] = y] /\ Same(x, y)
      BY <1>2, AnswersTroubled DEF R!Goes, Turned
    <3>3. R!Goes(c, R!Troubled(R!Answer(x, FALSE))) =>
              \E y : calls' = [calls EXCEPT ![c] = y] /\ Same(x, y)
      BY <1>2, AnswersTroubled DEF R!Goes, Turned
    <3> QED BY <1>1, <1>5, <3>1, <3>2, <3>3 DEF Moved
  <2> QED BY <1>2, <1>6, <2>1, <2>2, <2>4, TestsMeant
<1>7. CASE x.kind = "connect" /\ R!TunnelOf(f) = "" /\ R!Dials(c, e) /\ UNCHANGED <<forwards, spoiled>>
  <2>1. Ready(x.form, e, "live", x.n) /\ ~Forwarded(x.form, e, "live", x.n)
    BY <1>1, <1>7 DEF Ready, Direct, Forwarded, Chained
  <2> QED BY <1>1, <1>2, <1>7, <2>1, DialsMeant
<1>8. CASE /\ x.kind = "connect" /\ R!Goes(c, R!Answer(x, FALSE))
           /\ spoiled' = spoiled \/ R!Spoils("failed")
           /\ UNCHANGED forwards
  <2>1. PICK y : y = R!Answer(x, FALSE) /\ Moved(c, x, y)
    BY <1>1, <1>8 DEF R!Goes, Moved
  <2>2. Turned(x, y, "answered")
    BY <1>2, <2>1, AnswerIs
  <2>3. ~Carries(y)
    BY <2>2 DEF Turned, Carries
  <2>4. /\ spoiled' # "met" => spoiled # "met"
        /\ spoiled' = "no" => spoiled = "no"
    BY <1>8 DEF R!Spoils
  <2>5. x.at \in StillEarly
    BY <1>2 DEF StillEarly
  <2>6. forwards'["live"] = forwards["live"]
    BY <1>8
  <2>7. Moved(c, x, y)
    BY <2>1
  <2> QED BY <1>2, <2>3, <2>4, <2>5, <2>6, <2>7, MeantKeeps
<1>9. CASE /\ x.kind = "connect" /\ R!TunnelOf(f) # "" /\ R!HasTarget(f, e)
           /\ forwards' = [forwards EXCEPT ![key] = target]
           /\ R!Dials(c, R!Rewritten(e, key, x.n)) /\ spoiled' = spoiled
  <2>1. PICK d : d = R!Rewritten(e, "live", x.n)
    OBVIOUS
  <2>2. x.n \in 1..R!MaxPort
    <3>1. offered.calls \in 0..R!MaxPort /\ begun \in 0..offered.calls
      BY <1>2, RemoteAssumption DEF RemShape
    <3>2. x.n \in 0..begun /\ x.n # 0
      BY <1>2 DEF CallOK, Bounds, Resting
    <3>3. R!MaxPort \in Nat
      BY DEF R!MaxPort
    <3>4. PICK most : most = R!MaxPort
      OBVIOUS
    <3> QED BY <3>1, <3>2, <3>3, <3>4
  <2>3. key = "live" /\ R!Dials(c, d)
    BY <1>3, <1>9, <2>1
  <2>4. Forwarded(x.form, d, "live", x.n)
    BY <1>1, <1>9, <2>1, <2>2 DEF Forwarded, Chained
  <2>5. Carried(x.form, "live", x.n)'
    <3>1. DOMAIN forwards = {"live", "test"}
      BY <1>2 DEF RemShape
    <3>2. DOMAIN forwards' = {"live", "test"} /\ forwards'["live"] = target
      BY <1>2, <1>9, <2>3, <3>1
    <3>3. target = [target |-> R!TunnelTarget(x.form, R!EndpointFor(x.form)), n |-> x.n]
      BY <1>1, <1>4
    <3> QED BY <3>2, <3>3 DEF Carried
  <2> QED BY <1>1, <1>2, <1>9, <2>3, <2>4, <2>5, DialsMeant DEF Ready
<1>10. CASE /\ x.kind = "connect" /\ forwards' = [forwards EXCEPT ![key] = R!NoForwarder]
            /\ R!Goes(c, R!Troubled(R!Answer(x, FALSE)))
            /\ IF key = "live" THEN R!Spoils("failed") ELSE spoiled' = spoiled
  <2>1. R!Spoils("failed")
    BY <1>3, <1>10
  <2>2. PICK y : y = R!Troubled(R!Answer(x, FALSE)) /\ calls' = [calls EXCEPT ![c] = y]
    BY <1>10 DEF R!Goes
  <2>3. Turned(x, y, "answered") /\ Moved(c, x, y)
    BY <1>1, <1>2, <2>2, AnswersTroubled DEF Moved
  <2> QED BY <1>2, <1>10, <2>1, <2>3, FailedMeant DEF Resting
<1> QED BY <1>2, <1>5, <1>6, <1>7, <1>8, <1>9, <1>10

(* What becomes of the entry.                                              *)
LEMMA FailsMeant == ASSUME ConnInv, MeantInv, NEW c \in Threads, R!Fails(c) PROVE MeantInv'
<1>1. PICK x : x = calls[c]
  OBVIOUS
<1>2. x.at = "fail" /\ x.kind = "connect" /\ CallIs(x) /\ entry' = entry /\ R!Spoils("failed")
  BY <1>1, CallAt DEF R!Fails, R!At
<1>3. PICK y : y = R!Answer(x, FALSE) /\ Moved(c, x, y)
  BY <1>1 DEF R!Fails, R!Answers, R!Goes, Moved
<1>4. Turned(x, y, "answered")
  BY <1>2, <1>3, AnswerIs
<1>5. Moved(c, x, y)
  BY <1>3
<1> QED BY <1>2, <1>4, <1>5, FailedMeant DEF Resting

LEMMA InsertsMeant == ASSUME ConnInv, MeantInv, NEW c \in Threads, R!Inserts(c) PROVE MeantInv'
<1>1. PICK x, f, s : x = calls[c] /\ f = x.form /\ s = x.section
  OBVIOUS
<1>2. x.at = "insert" /\ x.kind = "connect" /\ CallIs(x) /\ Registers(x)
  BY <1>1, CallAt DEF R!Inserts, R!At, Resting
<1>3. PICK root : root = R!BindingRoot(f)
  OBVIOUS
<1>4. entry'.root = root /\ entry'.form = f /\ entry'.section = s
  BY <1>1, <1>3 DEF R!Inserts
<1>5. /\ UNCHANGED forwards /\ DOMAIN forwards = {"live", "test"}
      /\ spoiled' # "met" => spoiled # "met"
  BY <1>1 DEF R!Inserts, ConnInv, RemShape
<1>6. PICK y : y = R!Answer(x, TRUE) /\ Moved(c, x, y)
  BY <1>1 DEF R!Inserts, R!Answers, R!Goes, Moved
<1>7. Turned(x, y, "answered") /\ Moved(c, x, y)
  BY <1>2, <1>6, AnswerIs
<1>8. CallMeant(y)'
  BY <1>7 DEF CallMeant, Carries, Turned
<1>9. spoiled' # "met" => EntryMeant'
  <2> SUFFICES ASSUME spoiled' # "met" PROVE EntryMeant'
    OBVIOUS
  <2>1. CallMeant(calls[c])
    BY <1>5 DEF MeantInv
  <2>2. Meant(f, s)
    BY <1>1, <1>2, <2>1 DEF CallMeant, Carries
  <2>3. Meant(f, s)'
    BY <1>5, <2>2, MeantStays
  <2> QED BY <1>4, <2>3 DEF EntryMeant
<1>10. (R!Registered => entry.root = R!BindingRoot(entry.form))'
  BY <1>3, <1>4
<1> QED BY <1>2, <1>5, <1>7, <1>8, <1>9, <1>10, MeantTurns

LEMMA RemovesMeant == ASSUME ConnInv, MeantInv, NEW c \in Threads, R!Removes(c) PROVE MeantInv'
<1>1. PICK x : x = calls[c]
  OBVIOUS
<1>2. x.at = "remove" /\ x.kind = "disconnect" /\ CallIs(x) /\ Registers(x)
  BY <1>1, CallAt DEF R!Removes, R!At, DropAt, Resting
<1>3. PICK y : y = [x EXCEPT !.at = "release"] /\ Moved(c, x, y)
  BY <1>1 DEF R!Removes, R!To, R!Goes, Moved
<1>4. Turned(x, y, "release") /\ Moved(c, x, y)
  BY <1>2, <1>3, TurnsTo
<1>5. ~R!Registered' /\ (spoiled' # "met" => spoiled # "met")
  BY DEF R!Removes, R!Registered, R!NoEntry
<1>6. CallMeant(y)'
  BY <1>4 DEF CallMeant, Carries, Turned
<1> QED BY <1>2, <1>4, <1>5, <1>6, MeantTurns

LEMMA ReleasesMeant == ASSUME ConnInv, MeantInv, NEW c \in Threads, R!Releases(c) PROVE MeantInv'
<1>1. PICK x, ok : x = calls[c] /\ ok = TRUE
  OBVIOUS
<1>2. /\ x.at = "release" /\ x.kind = "disconnect" /\ CallIs(x) /\ Registers(x)
      /\ UNCHANGED <<entry, spoiled>>
  BY <1>1, CallAt DEF R!Releases, R!At, DropAt, Resting
<1>3. PICK y : y = R!Answer(x, ok) /\ Moved(c, x, y)
  BY <1>1 DEF R!Releases, R!Answers, R!Goes, Moved
<1>4. Turned(x, y, "answered") /\ Moved(c, x, y)
  BY <1>2, <1>3, AnswerIs
<1>5. CallMeant(y)'
  BY <1>4 DEF CallMeant, Carries, Turned
<1>6. spoiled' # "met" => ~R!Registered'
  <2>1. spoiled # "met" => Focus(x)
    BY <1>1, <1>2 DEF ConnInv, Apart
  <2> QED BY <1>2, <2>1 DEF Focus, Stands, R!Registered
<1>7. (R!Registered => entry.root = R!BindingRoot(entry.form))'
  BY <1>2 DEF MeantInv, R!Registered
<1> QED BY <1>2, <1>4, <1>5, <1>6, <1>7, MeantTurns

LEMMA MeantStep == ASSUME ConnInv, MeantInv, R!RemoteNext PROVE MeantInv'
<1>1. PICK c \in Threads :
          \/ R!Begins(c) \/ R!Disconnects(c) \/ R!Predeletes(c) \/ R!Forwards(c) \/ R!Clears(c)
          \/ R!Creates(c) \/ R!Sweeps(c) \/ R!Looks(c) \/ R!Cleans(c) \/ R!Probes(c) \/ R!Heals(c)
          \/ R!Recreates(c) \/ R!Inserts(c) \/ R!Fails(c) \/ R!Drops(c) \/ R!Removes(c)
          \/ R!Releases(c)
  BY DEF R!RemoteNext
<1> QED
  BY <1>1, BeginsMeant, DisconnectsMeant, PredeletesMeant, ForwardsMeant,
     ClearsMeant, CreatesMeant, SweepsMeant, LooksMeant, CleansMeant,
     ProbesMeant, HealsMeant, RecreatesMeant, InsertsMeant, FailsMeant,
     DropsMeant, RemovesMeant, ReleasesMeant

LEMMA MeantMeans == ConnInv /\ MeantInv => R!RegisteredIsMeant
<1> SUFFICES ASSUME ConnInv, MeantInv, R!Quiet, ~R!Unmeant(entry.form)
             PROVE  /\ R!Tells(entry.form, entry.section)
                    /\ R!Leads(entry.section) = R!Address(entry.form)
                    /\ entry.root.parts = R!MeantRoot(entry.form)
  BY DEF R!RegisteredIsMeant
<1>1. R!Registered /\ spoiled = "no" /\ \A c \in Threads : ~Registers(calls[c])
  BY DEF R!Quiet, R!Registering, R!Busy, Registers, Resting
<1>2. EntryMeant
  BY <1>1 DEF MeantInv, Unmoved
<1>3. entry.root = R!BindingRoot(entry.form)
  BY <1>1 DEF MeantInv
<1>4. IsConnection(entry.form)
  BY <1>2 DEF EntryMeant, Meant
<1>5. R!BindingRoot(entry.form).parts = R!MeantRoot(entry.form)
  BY <1>4, MeantRoots
<1> QED BY <1>2, <1>3, <1>5 DEF EntryMeant, Meant

------------------------------------------------------------------------------
(* The jobs beside what is done with single files: of the two one is at    *)
(* rest.                                                                   *)
LEMMA RunsRest == ASSUME RunsInv, UNCHANGED taskVars PROVE RunsInv' /\ UNCHANGED Logged
<1>1. RunsInv'
  BY RunsKeeps
<1>2. Shown' = Shown /\ history' = history
  BY DEF taskVars, syncVars, vars, jobVars, Shown, Submitted
<1> QED BY <1>1, <1>2 DEF Logged

JobsInv == RunsInv /\ FilesInv /\ MeantInv
JobsKeptUp == Lifecycle!Next \/ UNCHANGED Logged

LEMMA JobsStart == MCJobsInit => JobsInv
BY RunsInitially, FilesStart, MeantStart DEF MCJobsInit, JobsInv, FilesInit

LEMMA FilesGoOn ==
    ASSUME FilesInv, MeantInv, [FilesNext]_filesVars
    PROVE  FilesInv' /\ MeantInv'
<1>1. ConnInv /\ (R!RemoteNext \/ UNCHANGED remotes)
  BY DEF FilesInv, FilesNext, filesVars
<1> QED BY <1>1, FilesStep, MeantStep, MeantRests

LEMMA JobsStep == ASSUME JobsInv, [MCJobsNext]_jobsVars PROVE JobsInv' /\ JobsKeptUp
<1>1. CASE RunsNext /\ UNCHANGED filesVars
  BY <1>1, RunsKeeps, FilesGoOn DEF JobsInv, JobsKeptUp
<1>2. CASE FilesNext /\ UNCHANGED taskVars
  BY <1>2, RunsRest, FilesGoOn DEF JobsInv, JobsKeptUp
<1>3. CASE UNCHANGED jobsVars
  <2>1. UNCHANGED taskVars /\ UNCHANGED filesVars
    BY <1>3 DEF jobsVars
  <2> QED BY <2>1, RunsRest, FilesGoOn DEF JobsInv, JobsKeptUp
<1> QED BY <1>1, <1>2, <1>3 DEF MCJobsNext

LEMMA JobsMean ==
    ASSUME JobsInv
    PROVE  /\ RunsTypeOK /\ NoGhostRun /\ OutcomesAreTrue
           /\ Q!RequestTypeOK /\ ChangesAreAllowed
           /\ D!ReadTypeOK /\ WindowsAreWhole
           /\ P!PlanTypeOK /\ PlansAreKept
           /\ A!ArchiveTypeOK /\ G!GzipTypeOK
           /\ R!RemoteTypeOK /\ R!RegisteredIsThere /\ R!NothingLeft
           /\ R!RegisteredIsMeant
<1>1. RunsTypeOK
  BY DEF JobsInv, RunsInv, RunsTypeOK, Inv, RegistryInv, RegistryTypes, Executions, Entries
<1>2. NoGhostRun
  BY DEF JobsInv, RunsInv, RegistryInv
<1>3. OutcomesAreTrue
  BY DEF JobsInv, RunsInv, Inv, DeskOf, OutcomesAreTrue, AnswersAreTrue, Answering
<1> QED BY <1>1, <1>2, <1>3, FilesMean, MeantMeans DEF JobsInv, FilesInv

(* A request changes only what its binding lets it, below the root, tells  *)
(* of what it removed, and leaves no stale listing.                        *)
THEOREM RequestsAreAllowed == MCJobsSpec => []ChangesAreAllowed
BY JobsMean, JobsStart, JobsStep, PTL DEF MCJobsSpec

(* Pages and windows put together are all of what holds still, in order    *)
(* and each once, and what is cut short is its beginning and says so.      *)
THEOREM ReadingsAreWhole == MCJobsSpec => []WindowsAreWhole
BY JobsMean, JobsStart, JobsStep, PTL DEF MCJobsSpec

(* A job on directories changes nothing but what its form names, loses no  *)
(* more than it says, keeps what it is to keep, copies all that it is to,  *)
(* and finds the same what is the same: for any forms, bindings and files, *)
(* whatever the connections are bound to meanwhile.                        *)
THEOREM JobsKeepPlans == MCJobsSpec => []PlansAreKept
BY JobsMean, JobsStart, JobsStep, PTL DEF MCJobsSpec

(* What is registered of a connection has its section, as it was made, in  *)
(* the rcd of its proxy; and an rcd keeps no section but that one, those   *)
(* that a call is at and those whose deletion failed.  However the connects*)
(* tests and disconnects of a connection interleave, whatever of rclone    *)
(* and ssh fails, unless a reconnect failed or two calls for it met.       *)
THEOREM ConnectionsAreTidy == MCJobsSpec => [](R!RegisteredIsThere /\ R!NothingLeft)
BY JobsMean, JobsStart, JobsStep, PTL DEF MCJobsSpec

(* And what is registered is what its form says, of each protocol: rclone  *)
(* is told what was filled in and nothing else, a secret to be obscured,   *)
(* the section leads to the address of the form, by the tunnel if there is *)
(* one, and the root has the bucket or the share of the form first; unless *)
(* the form has what the code drops (Unmeant).                             *)
THEOREM ConnectionsAreMeant == MCJobsSpec => []R!RegisteredIsMeant
BY JobsMean, JobsStart, JobsStep, PTL DEF MCJobsSpec

(* All that is kept by directory jobs and of the files has its type.       *)
THEOREM JobsTypes == MCJobsSpec => []MCJobsTypeOK
<1>1. JobsInv => MCJobsTypeOK
  BY JobsMean DEF MCJobsTypeOK, FilesTypeOK
<1> QED BY <1>1, JobsStart, JobsStep, PTL DEF MCJobsSpec

(* What directory jobs, requests, readings, plans and connections promise  *)
(* they promise side by side, whichever of them moves.                     *)
JobsAreRight ==
    /\ RunsTypeOK /\ NoGhostRun /\ OutcomesAreTrue
    /\ Q!RequestTypeOK /\ ChangesAreAllowed
    /\ D!ReadTypeOK /\ WindowsAreWhole
    /\ P!PlanTypeOK /\ PlansAreKept
    /\ A!ArchiveTypeOK /\ G!GzipTypeOK
    /\ R!RemoteTypeOK /\ R!RegisteredIsThere /\ R!NothingLeft
    /\ R!RegisteredIsMeant

THEOREM JobsAreSafe == MCJobsSpec => []JobsAreRight /\ KeepsLifecycle
<1>1. MCJobsInit => Lifecycle!Init
  BY DEF MCJobsInit, RunsInit, Init, JobsInit, Lifecycle!Init, Submitted, NotPolled, NotSubmitted
<1>2. JobsKeptUp => [Lifecycle!Next]_(Lifecycle!vars)
  BY DEF JobsKeptUp, Lifecycle!vars, Logged, Shown
<1>3. JobsInv => JobsAreRight
  BY JobsMean DEF JobsAreRight
<1> QED
  BY <1>1, <1>2, <1>3, JobsStart, JobsStep, PTL DEF MCJobsSpec, KeepsLifecycle, Lifecycle!Spec
=============================================================================
