------------------------------- MODULE MCJobs -------------------------------
(* The runs of the task provider, and beside them what is done with single *)
(* files: a behaviour is one of either, with the other at rest.            *)
EXTENDS TaskRuns, MCFiles

jobsVars == <<taskVars, filesVars>>

MCJobsInit == RunsInit /\ FilesInit
MCJobsNext ==
    \/ files = "none" /\ RunsNext /\ UNCHANGED filesVars
    \/ files # "none" /\ FilesNext /\ UNCHANGED taskVars

(* Fairness as in TaskRuns; nothing of it can be done with single files.   *)
MCJobsFairness ==
    /\ \A w \in Workers : WF_taskVars(files = "none" /\ Works(w))
    /\ \A t \in Tasks : WF_taskVars(files = "none" /\ Polling(t))
MCJobsSpec == MCJobsInit /\ [][MCJobsNext]_jobsVars /\ MCJobsFairness

MCJobsTypeOK == (files = "none" => RunsTypeOK) /\ FilesTypeOK
=============================================================================
