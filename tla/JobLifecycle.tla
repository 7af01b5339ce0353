---------------------------- MODULE JobLifecycle ----------------------------
(***************************************************************************)
(* What the job mirror promises of a transfer, whatever moves the bytes:   *)
(* a job is queued, runs, and settles once; its outcome goes into the      *)
(* history at most once and as it was; only a settled job can be removed,  *)
(* and its row with it if that can be written.                             *)
(***************************************************************************)
EXTENDS Sequences

CONSTANT Tasks

VARIABLES state, log

vars == <<state, log>>

Active == {"queued", "running"}
Ended == {"completed", "failed", "canceled"}

Init ==
    /\ state = [t \in Tasks |-> "new"]
    /\ log = [t \in Tasks |-> <<>>]

Begin(t) ==
    /\ state[t] = "new"
    /\ state' = [state EXCEPT ![t] = "queued"]
    /\ UNCHANGED log

Run(t) ==
    /\ state[t] = "queued"
    /\ state' = [state EXCEPT ![t] = "running"]
    /\ UNCHANGED log

End(t, outcome) ==
    /\ state[t] \in Active
    /\ state' = [state EXCEPT ![t] = outcome]
    /\ UNCHANGED log

(* The row follows the end of the job, and may even follow its removal.    *)
Write(t, outcome) ==
    /\ state[t] \in {outcome, "gone"}
    /\ log[t] = <<>>
    /\ log' = [log EXCEPT ![t] = <<outcome>>]
    /\ UNCHANGED state

(* The rows of kept could not be dropped.                                  *)
Forget(S, kept) ==
    /\ \A t \in S : state[t] \in Ended
    /\ state' = [t \in Tasks |-> IF t \in S THEN "gone" ELSE state[t]]
    /\ log' = [t \in Tasks |-> IF t \in S \ kept THEN <<>> ELSE log[t]]

Next ==
    \/ \E t \in Tasks :
          \/ Begin(t)
          \/ Run(t)
          \/ \E outcome \in Ended : End(t, outcome) \/ Write(t, outcome)
    \/ \E S, kept \in SUBSET Tasks : Forget(S, kept)

Spec == Init /\ [][Next]_vars
=============================================================================
