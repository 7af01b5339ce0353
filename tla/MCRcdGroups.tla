---------------------------- MODULE MCRcdGroups ----------------------------
(* RcdGroups from its start and from the states in which every connection  *)
(* is registered in the direct group, whose rcd runs or has crashed since: *)
(* connecting them one after the other leads there.  So few requests and   *)
(* faults are needed for a disconnect to race a reconnect, or a replay to  *)
(* find two connections and fail.                                          *)
EXTENDS RcdGroups

Connected ==
    /\ \E state \in {"up", "exited"} :
          rcd = [g \in Groups |-> IF g = Direct THEN state ELSE "none"]
    /\ config = [g \in Groups |-> IF g = Direct THEN Conns ELSE {}]
    /\ entry = [c \in Conns |-> Direct]
    /\ work = [g \in Groups |-> 0]
    /\ forwarders = Tunneled
    /\ op = [a \in Actors |-> Idle]
    /\ sweep = {}
    /\ owed = [g \in Groups |-> {}]
    /\ faults = 0
    /\ requests = 0

MCSpec == (Init \/ Connected) /\ [][Next]_vars /\ Fairness
=============================================================================
