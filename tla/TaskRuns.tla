------------------------------ MODULE TaskRuns ------------------------------
(***************************************************************************)
(* The task provider: the host's scheduler executes a task as one blocking *)
(* request, which starts a directory job like the workbench does, or lets  *)
(* rclone copy one file, watches it in the mirror and answers.  task/stop  *)
(* flags the run, and cancels its job once there is one.  The host gives a *)
(* run id to one execution at a time.                                      *)
(***************************************************************************)
EXTENDS SyncJobs

CONSTANTS RunIds, \* the run ids the host gives out
          NoRun

ASSUME NoRunAssumption == NoRun \notin RunIds

VARIABLES
    desk,    \* the execution a worker is in, with the answer it comes to
    active   \* the run registry, [live, task, cancelled]

runVars == <<desk, active>>
taskVars == <<vars, runVars>>

Free == [at |-> "free", run |-> NoRun, task |-> NoTask, landed |-> FALSE, as |-> "failed"]
Absent == [live |-> FALSE, task |-> NoTask, cancelled |-> FALSE]

RunsInit ==
    /\ Init
    /\ desk = [w \in Workers |-> Free]
    /\ active = [r \in RunIds |-> Absent]

Sits(w, label) == desk[w].at = label /\ call[w] = Idle
Moves(w, label) == desk' = [desk EXCEPT ![w].at = label]
Flagged(w) == active[desk[w].run].cancelled

Concludes(w, verdict) ==
    /\ desk' = [desk EXCEPT ![w].at = "answer", ![w].as = verdict]
    /\ UNCHANGED active

(* Every way out of execute unregisters the run.                           *)
(* Mistake: a configuration that is refused leaves the run registered.     *)
ForgetsInvalid(w) == active' = IF desk[w].as = "invalid" THEN active
                               ELSE [active EXCEPT ![desk[w].run] = Absent]
Forgets(w) == active' = [active EXCEPT ![desk[w].run] = Absent]

Answers(w) ==
    /\ Sits(w, "answer")
    /\ Forgets(w)
    /\ desk' = [desk EXCEPT ![w] = Free]
    /\ UNCHANGED vars

------------------------------------------------------------------------------
(* execute: the run is registered, then its configuration is validated; one *)
(* that the gates refuse is never retried, else the mode of the task decides. *)
Executes(w, r) ==
    /\ Sits(w, "free")
    /\ ~active[r].live
    /\ active' = [active EXCEPT ![r] = [Absent EXCEPT !.live = TRUE]]
    /\ \E label \in {"answer", "start", "stat"} :
          desk' = [desk EXCEPT ![w] = [Free EXCEPT !.at = label, !.run = r, !.as = "invalid"]]
    /\ UNCHANGED vars

(* run_file_copy: a directory degrades to a directory job, a missing       *)
(* source, no client or a target that must not be replaced is a failure.   *)
Stats(w) ==
    /\ Sits(w, "stat")
    /\ \/ Concludes(w, "failed")
       \/ (Moves(w, "start") \/ Moves(w, "copy")) /\ UNCHANGED active
    /\ UNCHANGED vars

(* A stop is looked for before the one call, and after it.                 *)
Copies(w) ==
    /\ Sits(w, "copy")
    /\ IF Flagged(w) THEN Concludes(w, "cancelled")
                     ELSE Moves(w, "copying") /\ UNCHANGED active
    /\ UNCHANGED vars

CopyFails(w) ==
    /\ Sits(w, "copying")
    /\ Concludes(w, "failed")
    /\ UNCHANGED vars

CopyLands(w) ==
    /\ Sits(w, "copying")
    /\ desk' = [desk EXCEPT ![w].at = "copied", ![w].landed = TRUE]
    /\ UNCHANGED <<vars, active>>

Reports(w) ==
    /\ Sits(w, "copied")
    /\ Concludes(w, IF Flagged(w) THEN "cancelled" ELSE "success")
    /\ UNCHANGED vars

------------------------------------------------------------------------------
(* run_dir_job: the starter of the workbench, then the watch.              *)
StartsJob(w, t) ==
    /\ Sits(w, "start")
    /\ Starts(w, t, "dir")
    /\ desk' = [desk EXCEPT ![w].at = "starting", ![w].task = t]
    /\ UNCHANGED active

(* The gates of the starter are asked again, and may refuse by now.        *)
RefusesJob(w) ==
    /\ Sits(w, "start")
    /\ Concludes(w, "failed")
    /\ UNCHANGED vars

Attaches(w) ==
    /\ Sits(w, "starting")
    /\ IF Submitted(desk[w].task)
       THEN /\ active' = [active EXCEPT ![desk[w].run].task = desk[w].task]
            /\ Moves(w, "watch")
       ELSE Concludes(w, "failed")
    /\ UNCHANGED vars

(* watch_job: the state of the job comes first, then the flag.             *)
(* Mistakes: a job that has left the mirror is taken for done; the watch   *)
(* leaves a stop to the call that asked for it.                            *)
VerdictLax(state) == IF state = "failed" THEN "failed" ELSE "success"
Verdict(state) == IF state = "completed" THEN "success" ELSE "failed"

GivesUpLax(w, state) == state = "canceled"
GivesUp(w, state) == state = "canceled" \/ (state \in Live /\ Flagged(w))

Watches(w) ==
    LET state == status[desk[w].task] IN
    /\ Sits(w, "watch")
    /\ \/ state \in {"completed", "failed", "gone"} /\ Concludes(w, Verdict(state))
       \/ GivesUp(w, state) /\ Moves(w, "cancel") /\ UNCHANGED active
    /\ UNCHANGED vars

(* The run is given up after a day; the job may go on.                     *)
TimesOut(w) ==
    /\ Sits(w, "watch")
    /\ status[desk[w].task] \in Live
    /\ ~Flagged(w)
    /\ Concludes(w, "failed")
    /\ UNCHANGED vars

(* cancel_dir_job: like the panel's cancel, but the mirror is settled      *)
(* even if there is no client to stop the job with.                        *)
CancelsJob(w) ==
    /\ Sits(w, "cancel")
    /\ Go(w, IF record[desk[w].task] = "handled" THEN Call("client", desk[w].task)
             ELSE Settling(desk[w].task, "canceled"))
    /\ Moves(w, "canceling")
    /\ UNCHANGED <<status, history, syncVars, active>>

LacksClient(w) ==
    /\ desk[w].at = "canceling"
    /\ MissesClient(w, Settling(desk[w].task, "canceled"))
    /\ UNCHANGED runVars

Canceled(w) ==
    /\ Sits(w, "canceling")
    /\ Concludes(w, "cancelled")
    /\ UNCHANGED vars

(* task/stop: the flag first; a job with a handle is canceled as well, by  *)
(* the handler of the panel, which looks again.                            *)
StopsRun(w, r) ==
    LET t == active[r].task IN
    /\ Sits(w, "free")
    /\ active[r].live
    /\ active' = [active EXCEPT ![r].cancelled = TRUE]
    /\ Go(w, IF t # NoTask /\ record[t] = "handled" /\ status[t] \in Live
             THEN Call("client", t) ELSE Idle)
    /\ UNCHANGED <<status, history, syncVars, desk>>

------------------------------------------------------------------------------
(* The workbench's handlers keep to workers that are not in an execution.  *)
Workbench(w) == desk[w] = Free /\ Begins(w) /\ UNCHANGED runVars
Handler(w) ==
    /\ Serves(w) \/ (desk[w].at # "canceling" /\ FindsNoClient(w))
    /\ UNCHANGED runVars

Execution(w) ==
    \/ Stats(w) \/ Copies(w) \/ CopyFails(w) \/ CopyLands(w) \/ Reports(w)
    \/ \E t \in Tasks : StartsJob(w, t)
    \/ RefusesJob(w) \/ Attaches(w) \/ Watches(w)
    \/ CancelsJob(w) \/ LacksClient(w) \/ Canceled(w) \/ Answers(w)

Works(w) == Handler(w) \/ Execution(w)
Polling(t) == Polls(t) /\ UNCHANGED runVars

RunsNext ==
    \/ \E w \in Workers : Workbench(w) \/ Works(w) \/ TimesOut(w)
    \/ \E w \in Workers, r \in RunIds : Executes(w, r) \/ StopsRun(w, r)
    \/ \E t \in Tasks : Polling(t)
    \/ Outside /\ UNCHANGED runVars

(* The day-long limit of a run is not counted on.                          *)
RunsFairness ==
    /\ \A w \in Workers : WF_taskVars(Works(w))
    /\ \A t \in Tasks : WF_taskVars(Polling(t))
RunsSpec == RunsInit /\ [][RunsNext]_taskVars /\ RunsFairness

------------------------------------------------------------------------------
DeskLabels == {"free", "stat", "copy", "copying", "copied", "start", "starting",
               "watch", "cancel", "canceling", "answer"}
RunsTypeOK ==
    /\ TypeOK
    /\ desk \in [Workers -> [at : DeskLabels, run : RunIds \cup {NoRun},
                             task : Tasks \cup {NoTask}, landed : BOOLEAN,
                             as : {"invalid", "failed", "cancelled", "success"}]]
    /\ active \in [RunIds -> [live : BOOLEAN, task : Tasks \cup {NoTask}, cancelled : BOOLEAN]]

(* What execute answers is true: a success is a job that rclone has done   *)
(* or a file it has copied, and a cancelled run leaves no job that the     *)
(* panel shows as live, even if rclone could not be told.                  *)
Answering(w, verdict) == desk[w].at = "answer" /\ desk[w].as = verdict
AnswersAreTrue ==
    \A w \in Workers :
        LET t == desk[w].task IN
        /\ Answering(w, "success") => IF t = NoTask THEN desk[w].landed ELSE remote[t].good
        /\ Answering(w, "cancelled") /\ t # NoTask => status[t] \notin Live

(* Neither the panel nor the host is told of an outcome that a job did not *)
(* have.                                                                   *)
OutcomesAreTrue == MirrorIsTrue /\ AnswersAreTrue

(* The registry holds the runs that are being executed and no other, so    *)
(* status and stop never meet a ghost: however execute ends.               *)
NoGhostRun ==
    \A r \in RunIds : active[r].live <=> \E w \in Workers : desk[w].run = r

(* Every directory job that rclone no longer runs, for it is over, lost or *)
(* stopped, settles; and a stop that meets a live run ends it, whether its *)
(* job is not started, starting, running or lost, long before the run is   *)
(* given up.                                                               *)
JobsEnd ==
    [](/\ \A t \in Tasks : Submitted(t) /\ ~Runs(t) => <>(status[t] \notin Live)
       /\ \A r \in RunIds : active[r].cancelled => <>(~active[r].live))
==============================================================================
