------------------------------ MODULE SyncJobs ------------------------------
(***************************************************************************)
(* Directory jobs: copy and mirror, move, check and bisync run inside      *)
(* rclone; the sidecar submits them, polls them, and projects them into    *)
(* the job mirror it shares with the transfers.  A job that the sidecar    *)
(* knows lives in three places, the mirror, the table of records and the   *)
(* rcd, each changed on its own.                                           *)
(*                                                                         *)
(* The rcd may crash and is replaced; a client reaches only the rcd it was *)
(* made for.  Job ids are those of one rcd.                                *)
(***************************************************************************)
EXTENDS TransferJobs

CONSTANTS Kinds,      \* what is started, of dir, move, check and bisync
          MaxFaults,  \* bound: crashes and failing calls
          MaxErrors   \* failing polls in a row that end a job

VARIABLES
    kind,    \* what the job of a task is
    record,  \* its entry in sync_jobs: none, without a handle, or with it
    remote,  \* the job in rclone, [state, rcd, id] and whether it succeeded
    poll,    \* its poller, [at, errors, verdict]
    marked,  \* the tasks marked stopped
    source,  \* whether the source tree of the job is still there
    client,  \* the rcd that a worker's client was made for
    rcd,     \* the running rcd, counted
    faults   \* crashes and failures so far

syncVars == <<kind, record, remote, poll, marked, source, client, rcd, faults>>
vars == <<jobVars, syncVars>>

DirKinds == {"dir", "move"}
AllKinds == DirKinds \cup {"check", "bisync"}

ASSUME SyncAssumption ==
    /\ IsFiniteSet(Tasks)
    /\ Kinds \subseteq AllKinds
    /\ MaxFaults \in Nat /\ MaxErrors \in Nat \ {0}

NotSubmitted == [state |-> "none", rcd |-> 0, id |-> 0, good |-> FALSE]
NotPolled == [at |-> "off", errors |-> 0, verdict |-> "failed"]

Init ==
    /\ JobsInit
    /\ kind = [t \in Tasks |-> "dir"]
    /\ record = [t \in Tasks |-> "none"]
    /\ remote = [t \in Tasks |-> NotSubmitted]
    /\ poll = [t \in Tasks |-> NotPolled]
    /\ marked = {}
    /\ source = [t \in Tasks |-> TRUE]
    /\ client = [w \in Workers |-> 0]
    /\ rcd = 1
    /\ faults = 0

Fault == faults < MaxFaults /\ faults' = faults + 1
Runs(t) == remote[t].state = "running" /\ remote[t].rcd = rcd
Submitted(t) == poll[t].at # "off" \/ remote[t].state # "none"

------------------------------------------------------------------------------
(* rclone_start_dir_job and its twins for check and bisync, after their    *)
(* gates.  A directory job makes its target directory first.               *)
Starts(w, t, k) ==
    /\ call[w] = Idle
    /\ status[t] = "new"
    /\ \A v \in Workers : Task(v) # t
    /\ kind' = [kind EXCEPT ![t] = k]
    /\ Go(w, Call(IF k \in DirKinds THEN "mkdir" ELSE "list", t))
    /\ UNCHANGED <<status, history, record, remote, poll, marked, source, client, rcd, faults>>

MakesTarget(w) ==
    /\ At(w, "mkdir")
    /\ Go(w, Call("list", Task(w)))
    /\ UNCHANGED <<status, history, syncVars>>

(* The client of the target's group is not to be had: nothing was listed.  *)
MakesNoTarget(w) ==
    /\ At(w, "mkdir")
    /\ Fault
    /\ Go(w, Idle)
    /\ UNCHANGED <<status, history, kind, record, remote, poll, marked, source, client, rcd>>

Lists(w) ==
    /\ At(w, "list")
    /\ status' = [status EXCEPT ![Task(w)] = "queued"]
    /\ Go(w, Call("file", Task(w)))
    /\ UNCHANGED <<history, syncVars>>

Files(w) ==
    /\ At(w, "file")
    /\ record' = [record EXCEPT ![Task(w)] = "bare"]
    /\ Go(w, Call("dial", Task(w)))
    /\ UNCHANGED <<status, history, kind, remote, poll, marked, source, client, rcd, faults>>

(* client_for_binding: the rcd of the group, respawned if need be.         *)
Gets(w) == client' = [client EXCEPT ![w] = rcd]
LetsGo(w) == client' = [client EXCEPT ![w] = 0]

Dials(w) ==
    /\ At(w, "dial")
    /\ Gets(w)
    /\ Go(w, Call("submit", Task(w)))
    /\ UNCHANGED <<status, history, kind, record, remote, poll, marked, source, rcd, faults>>

(* No client: the error goes to the caller, the entries stay.              *)
DialFails(w) ==
    /\ At(w, "dial")
    /\ Fault
    /\ Go(w, Idle)
    /\ UNCHANGED <<status, history, kind, record, remote, poll, marked, source, client, rcd>>

(* start_job: rclone takes the job, a stale mark of its id is cleared, and *)
(* its poller starts.                                                      *)
Submits(w) ==
    LET t == Task(w) IN
    /\ At(w, "submit")
    /\ client[w] = rcd
    /\ \E id \in 1..Cardinality(Tasks) :
          /\ \A s \in Tasks : remote[s].rcd = rcd => remote[s].id # id
          /\ remote' = [remote EXCEPT ![t] = [NotSubmitted EXCEPT !.state = "running", !.rcd = rcd,
                                                                  !.id = id]]
    /\ marked' = marked \ {t}
    /\ poll' = [poll EXCEPT ![t].at = "sleep"]
    /\ LetsGo(w)
    /\ Go(w, Call("handle", t))
    /\ UNCHANGED <<status, history, kind, record, source, rcd, faults>>

(* rclone refuses, or does not answer: the entries are taken back, the     *)
(* mirror first.                                                           *)
SubmitFails(w) ==
    /\ At(w, "submit")
    /\ IF client[w] = rcd THEN Fault ELSE UNCHANGED faults
    /\ status' = [status EXCEPT ![Task(w)] = "gone"]
    /\ LetsGo(w)
    /\ Go(w, Call("unfile", Task(w)))
    /\ UNCHANGED <<history, kind, record, remote, poll, marked, source, rcd>>

Unfiles(w) ==
    /\ At(w, "unfile")
    /\ record' = [record EXCEPT ![Task(w)] = "none"]
    /\ Go(w, Idle)
    /\ UNCHANGED <<status, history, kind, remote, poll, marked, source, client, rcd, faults>>

Handles(w) ==
    /\ At(w, "handle")
    /\ record' = [record EXCEPT ![Task(w)] = IF @ = "none" THEN @ ELSE "handled"]
    /\ Go(w, Idle)
    /\ UNCHANGED <<status, history, kind, remote, poll, marked, source, client, rcd, faults>>

------------------------------------------------------------------------------
(* poll_job: a mark is looked for right after the sleep.                   *)
PollTo(t, label) == poll' = [poll EXCEPT ![t].at = label]
PollOver(t) == poll' = [poll EXCEPT ![t] = [NotPolled EXCEPT !.at = "over"]]
(* Mistake: the loop is left without an event.                             *)
PollEndsQuietly(t, verdict) == PollOver(t)
PollEnds(t, verdict) ==
    poll' = [poll EXCEPT ![t] = [at |-> "ending", errors |-> 0, verdict |-> verdict]]

Wakes(t) ==
    /\ poll[t].at = "sleep"
    /\ IF t \in marked THEN PollEnds(t, "canceled") ELSE PollTo(t, "stats")
    /\ marked' = marked \ {t}
    /\ UNCHANGED <<jobVars, kind, record, remote, source, client, rcd, faults>>

(* Progress: the throttle may hold it back; check and bisync ignore it.    *)
(* Mistake: any job is set running.                                        *)
RunsAlways(t) == MarkRunningAlways(t)
Progresses(t) == IF kind[t] \in DirKinds THEN MarkRunning(t) ELSE UNCHANGED status

ReadsStats(t) ==
    /\ poll[t].at = "stats"
    /\ PollTo(t, "status")
    /\ Progresses(t) \/ UNCHANGED status
    /\ UNCHANGED <<history, call, kind, record, remote, marked, source, client, rcd, faults>>

(* job/status answers of a job that is not finished, of one that is, or    *)
(* that it knows no such job any more.                                     *)
(* Mistake: a job whose record is gone has been done.                      *)
FoundLax(state) == IF state = "failed" THEN "failed" ELSE "completed"
Found(state) == IF state = "succeeded" THEN "completed" ELSE "failed"

ReadsStatus(t) ==
    /\ poll[t].at = "status"
    /\ remote[t].rcd = rcd
    /\ IF Runs(t)
       THEN poll' = [poll EXCEPT ![t].at = "sleep", ![t].errors = 0]
       ELSE PollEnds(t, Found(remote[t].state))
    /\ UNCHANGED <<jobVars, kind, record, remote, marked, source, client, rcd, faults>>

(* A call that fails: a wedged or dead rcd, or an error answer.  So many   *)
(* in a row end the job; an error answer ends a bisync at once.            *)
(* Mistake: the failure that makes them too many is not counted.           *)
TooManyLate(failures) == failures > MaxErrors
TooMany(failures) == failures >= MaxErrors

PollFails(t) ==
    /\ poll[t].at = "status"
    /\ IF remote[t].rcd = rcd THEN Fault ELSE UNCHANGED faults
    /\ \/ /\ ~TooMany(poll[t].errors + 1)
          /\ poll' = [poll EXCEPT ![t].at = "sleep", ![t].errors = @ + 1]
       \/ /\ TooMany(poll[t].errors + 1) \/ (kind[t] = "bisync" /\ remote[t].rcd = rcd)
          /\ PollEnds(t, "failed")
    /\ UNCHANGED <<jobVars, kind, record, remote, marked, source, client, rcd>>

(* The event reaches the handler of the job, which settles it once, and    *)
(* cleans up after a move that is completed; the poller is over.           *)
Emits(t) ==
    LET verdict == poll[t].verdict
        purges == kind[t] = "move" /\ verdict = "completed"
    IN
    /\ poll[t].at = "ending"
    /\ Complete(t, verdict)
    /\ IF purges THEN PollTo(t, "purge") ELSE PollOver(t)
    /\ UNCHANGED <<history, call, kind, record, remote, marked, source, client, rcd, faults>>

Purges(t) ==
    /\ poll[t].at = "purge"
    /\ \/ remote[t].rcd = rcd /\ source' = [source EXCEPT ![t] = FALSE] /\ UNCHANGED faults
       \/ (IF remote[t].rcd = rcd THEN Fault ELSE UNCHANGED faults) /\ UNCHANGED source
    /\ PollOver(t)
    /\ UNCHANGED <<jobVars, kind, record, remote, marked, client, rcd>>

------------------------------------------------------------------------------
(* files/transfer/cancel of a directory job: not-found for a settled one,  *)
(* an error for one whose handle is not there yet.                         *)
Cancelable(t) == record[t] = "handled" /\ status[t] \notin Terminal

AsksCancel(w, t) ==
    /\ call[w] = Idle
    /\ Cancelable(t)
    /\ Go(w, Call("client", t))
    /\ UNCHANGED <<status, history, syncVars>>

FindsClient(w) ==
    /\ At(w, "client")
    /\ Gets(w)
    /\ Go(w, Call("mark", Task(w)))
    /\ UNCHANGED <<status, history, kind, record, remote, poll, marked, source, rcd, faults>>

MissesClient(w, next) ==
    /\ At(w, "client")
    /\ Fault
    /\ Go(w, next)
    /\ UNCHANGED <<status, history, kind, record, remote, poll, marked, source, client, rcd>>
FindsNoClient(w) == MissesClient(w, Idle)

(* stop_job: the mark before the call, so that the poller cannot miss it.  *)
Marks(w) ==
    /\ At(w, "mark")
    /\ marked' = marked \cup {Task(w)}
    /\ Go(w, Call("stop", Task(w)))
    /\ UNCHANGED <<status, history, kind, record, remote, poll, source, client, rcd, faults>>

(* job/stop ends the job that has the id on the rcd the client is of; its  *)
(* failure is ignored, for the mark is there.                              *)
Stopped(w, s) ==
    client[w] = rcd /\ Runs(s) /\ remote[s].id = remote[Task(w)].id

Stops(w) ==
    /\ At(w, "stop")
    /\ \/ /\ remote' = [s \in Tasks |-> IF Stopped(w, s) THEN [remote[s] EXCEPT !.state = "failed"]
                                        ELSE remote[s]]
          /\ UNCHANGED faults
       \/ Fault /\ UNCHANGED remote
    /\ LetsGo(w)
    /\ Go(w, Settling(Task(w), "canceled"))
    /\ UNCHANGED <<status, history, kind, record, poll, marked, source, rcd>>

(* rclone_sync_terminal: the job settles once, no row is written.          *)
SettlesSync(w) ==
    /\ At(w, "settle")
    /\ Complete(Task(w), call[w].as)
    /\ Go(w, Idle)
    /\ UNCHANGED <<history, syncVars>>

(* Clear and delete take the records of their jobs with them.              *)
Drops(ids) == record' = [t \in Tasks |-> IF t \in ids THEN "none" ELSE record[t]]
Rest == UNCHANGED <<kind, remote, poll, marked, source, client, rcd, faults>>

Collects(w) == ClearCollect(w) /\ UNCHANGED syncVars
Clears(w) == ClearDrop(w) /\ Drops(call[w].ids) /\ Rest
Deletes(w, t) == Delete(w, t) /\ Drops({t}) /\ Rest

------------------------------------------------------------------------------
(* rclone.                                                                 *)
RemoteEnds(t) ==
    /\ Runs(t)
    /\ \E good \in BOOLEAN :
          remote' = [remote EXCEPT ![t].good = good, ![t].state = IF good THEN "succeeded" ELSE "failed"]
    /\ UNCHANGED <<jobVars, kind, record, poll, marked, source, client, rcd, faults>>

(* A finished job is forgotten after a minute.                             *)
RemoteExpires(t) ==
    /\ remote[t].state \in {"succeeded", "failed"}
    /\ remote[t].rcd = rcd
    /\ Fault
    /\ remote' = [remote EXCEPT ![t].state = "expired"]
    /\ UNCHANGED <<jobVars, kind, record, poll, marked, source, client, rcd>>

Crashes ==
    /\ Fault
    /\ rcd' = rcd + 1
    /\ UNCHANGED <<jobVars, kind, record, remote, poll, marked, source, client>>

------------------------------------------------------------------------------
Serves(w) ==
    \/ MakesTarget(w) \/ MakesNoTarget(w) \/ Lists(w) \/ Files(w)
    \/ Dials(w) \/ DialFails(w) \/ Submits(w) \/ SubmitFails(w) \/ Unfiles(w) \/ Handles(w)
    \/ FindsClient(w) \/ Marks(w) \/ Stops(w) \/ SettlesSync(w) \/ Clears(w)
Continues(w) == Serves(w) \/ FindsNoClient(w)

Begins(w) ==
    \/ \E t \in Tasks : AsksCancel(w, t) \/ Deletes(w, t)
    \/ \E t \in Tasks, k \in Kinds : Starts(w, t, k)
    \/ Collects(w)

Polls(t) ==
    Wakes(t) \/ ReadsStats(t) \/ ReadsStatus(t) \/ PollFails(t) \/ Emits(t) \/ Purges(t)

Outside == Crashes \/ \E t \in Tasks : RemoteEnds(t) \/ RemoteExpires(t)

Next ==
    \/ \E w \in Workers : Begins(w) \/ Continues(w)
    \/ \E t \in Tasks : Polls(t)
    \/ Outside

(* Handlers and pollers go on: their calls have a time limit.              *)
Fairness ==
    /\ \A w \in Workers : WF_vars(Continues(w))
    /\ \A t \in Tasks : WF_vars(Polls(t))

Spec == Init /\ [][Next]_vars /\ Fairness

------------------------------------------------------------------------------
Labels == {"idle", "mkdir", "list", "file", "dial", "submit", "unfile", "handle", "client",
           "mark", "stop", "settle", "drop"}

TypeOK ==
    /\ JobsTypeOK(Labels)
    /\ kind \in [Tasks -> AllKinds]
    /\ record \in [Tasks -> {"none", "bare", "handled"}]
    /\ remote \in [Tasks -> [state : {"none", "running", "succeeded", "failed", "expired"},
                             rcd : 0..rcd, id : Nat, good : BOOLEAN]]
    /\ poll \in [Tasks -> [at : {"off", "sleep", "stats", "status", "ending", "purge", "over"},
                           errors : 0..(MaxErrors - 1), verdict : Terminal]]
    /\ marked \subseteq Tasks
    /\ source \in [Tasks -> BOOLEAN]
    /\ client \in [Workers -> 0..rcd]
    /\ rcd \in Nat \ {0} /\ faults \in 0..MaxFaults

(* What the mirror shows of a directory job is true of rclone: completed   *)
(* is a job that rclone has finished without an error, and the source of a *)
(* move goes only after that, however cancels, crashes and expired records *)
(* come between.                                                           *)
MirrorIsTrue ==
    \A t \in Tasks :
        /\ status[t] = "completed" => remote[t].good
        /\ ~source[t] => remote[t].good /\ kind[t] = "move"

(* A submitted job lives the life of any job of the mirror: it settles     *)
(* once, whoever settles it, stays settled until it is removed, and leaves *)
(* no row.  Before rclone has taken it, it may be withdrawn.               *)
Lifecycle == INSTANCE JobLifecycle
    WITH state <- [t \in Tasks |-> IF Submitted(t) THEN status[t] ELSE "new"], log <- history
KeepsLifecycle == Lifecycle!Spec
================================================================================
