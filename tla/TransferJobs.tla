---------------------------- MODULE TransferJobs ----------------------------
(***************************************************************************)
(* The transfer job mirror of the rclone engine and the persisted transfer *)
(* history, as every transfer path of the sidecar shares them.             *)
(*                                                                         *)
(* status[t] is the entry of t in RcloneEngine.jobs: "new" before the      *)
(* start request hands the task id out, "gone" once the entry has left the *)
(* map.  history[t] is what transfers.json holds of t, oldest row first.   *)
(* The ring cap of that file (200 rows) is not reached in these models.    *)
(*                                                                         *)
(* call[w] is what worker thread w of the plugin server is doing.  The SDK *)
(* gives the requests and the binary frames of the host to a pool of       *)
(* threads, so the handlers interleave between any two critical sections.  *)
(* A handler that has nothing left but its answer is over: call[w] = Idle. *)
(*                                                                         *)
(* Modules that extend this one add the tables of their transfer kind.     *)
(***************************************************************************)
EXTENDS Naturals, Sequences, FiniteSets

CONSTANTS
    Tasks,    \* the task ids (uuid v4) that start requests will hand out
    Workers,  \* the worker threads of the plugin server
    NoTask    \* the task of an idle worker

ASSUME NoTaskAssumption == NoTask \notin Tasks

VARIABLES
    status,   \* the job mirror
    history,  \* the rows of transfers.json
    call      \* the handler each worker is in

jobVars == <<status, history, call>>

Live == {"queued", "running"}
Terminal == {"completed", "failed", "canceled"}
Statuses == {"new", "gone"} \cup Live \cup Terminal

(* Where a worker is in its handler, the task it serves, the terminal      *)
(* state it is bringing to the job, the offset of the frame in hand, and   *)
(* the ids a clear has collected.                                          *)
Call(at, t) == [at |-> at, task |-> t, as |-> "failed", offset |-> 0, ids |-> {}]
Settling(t, verdict) == [Call("settle", t) EXCEPT !.as = verdict]
Recording(t, verdict) == [Call("record", t) EXCEPT !.as = verdict]
Idle == Call("idle", NoTask)

Go(w, c) == call' = [call EXCEPT ![w] = c]
At(w, label) == call[w].at = label
Task(w) == call[w].task

JobsInit ==
    /\ status = [t \in Tasks |-> "new"]
    /\ history = [t \in Tasks |-> <<>>]
    /\ call = [w \in Workers |-> Idle]

-----------------------------------------------------------------------------
(* rclone_complete_job: the critical section on the job map, then the row  *)
(* of the cloned job under the history lock.  A missing or settled job is  *)
(* left alone, and then no row is written.                                 *)

(* Mistake: only the presence of the job is checked, not its state.        *)
AcceptsAny(t) == status[t] \notin {"new", "gone"}
Accepts(t) == status[t] \in Live

Complete(t, verdict) ==
    status' = [status EXCEPT ![t] = IF Accepts(t) THEN verdict ELSE @]

(* Mistake: the row is built from the mirror, not from the clone.          *)
RecordRowLate(t, verdict) ==
    history' = [history EXCEPT ![t] = Append(@, status[t])]
RecordRow(t, verdict) ==
    history' = [history EXCEPT ![t] = Append(@, verdict)]

(* rclone_mark_running: a queued job starts running, any other is left.    *)
(* Mistake: the state is not looked at.                                    *)
MarkRunningAlways(t) ==
    status' = [status EXCEPT ![t] = IF @ = "gone" THEN @ ELSE "running"]
MarkRunning(t) ==
    status' = [status EXCEPT ![t] = IF @ = "queued" THEN "running" ELSE @]

Settle(w) ==
    /\ At(w, "settle")
    /\ Complete(Task(w), call[w].as)
    /\ Go(w, IF Accepts(Task(w)) THEN Recording(Task(w), call[w].as) ELSE Idle)
    /\ UNCHANGED history

Record(w) ==
    /\ At(w, "record")
    /\ RecordRow(Task(w), call[w].as)
    /\ Go(w, Idle)
    /\ UNCHANGED status

(* Writing transfers.json is best effort: an error is logged and dropped.  *)
RecordFails(w) ==
    /\ At(w, "record")
    /\ Go(w, Idle)
    /\ UNCHANGED <<status, history>>

-----------------------------------------------------------------------------
(* files/transfers/clear (without a connection filter): the ids of the     *)
(* settled jobs under the job lock; later, under the history lock, those   *)
(* jobs and their rows.                                                    *)

(* The write that drops a row is best effort: a stuck row stays behind.    *)
Remove(ids) ==
    \E stuck \in SUBSET ids :
        /\ status' = [t \in Tasks |-> IF t \in ids THEN "gone" ELSE status[t]]
        /\ history' = [t \in Tasks |->
                         IF t \in ids \ stuck /\ status[t] # "gone" THEN <<>> ELSE history[t]]

ClearCollect(w) ==
    /\ call[w] = Idle
    /\ \E t \in Tasks : status[t] \in Terminal
    /\ Go(w, [Call("drop", NoTask) EXCEPT
                 !.ids = {t \in Tasks : status[t] \in Terminal}])
    /\ UNCHANGED <<status, history>>

ClearDrop(w) ==
    /\ At(w, "drop")
    /\ Remove(call[w].ids)
    /\ Go(w, Idle)

(* files/transfers/delete holds both locks throughout.                     *)
Delete(w, t) ==
    /\ call[w] = Idle
    /\ status[t] \in Terminal
    /\ Remove({t})
    /\ UNCHANGED call

(* The sidecar dies and starts again: the mirror is hydrated from          *)
(* transfers.json, where the first row of a task id wins.                  *)
Hydrate ==
    /\ status' = [t \in Tasks |->
                    CASE history[t] # <<>> -> Head(history[t])
                      [] history[t] = <<>> /\ status[t] = "new" -> "new"
                      [] OTHER -> "gone"]
    /\ call' = [w \in Workers |-> Idle]
    /\ UNCHANGED history

-----------------------------------------------------------------------------
(* How the job of t ended, wherever that is written down.                  *)
Outcomes(t) ==
    {history[t][i] : i \in 1..Len(history[t])} \cup ({status[t]} \cap Terminal)

JobsTypeOK(labels) ==
    /\ status \in [Tasks -> Statuses]
    /\ history \in [Tasks -> Seq(Terminal)]
    /\ call \in [Workers -> [at : labels, task : Tasks \cup {NoTask},
                            as : Terminal, offset : Nat, ids : SUBSET Tasks]]
    /\ \A w \in Workers : Task(w) = NoTask => call[w].at \in {"idle", "drop"}
=============================================================================
