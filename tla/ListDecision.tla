---------------------------- MODULE ListDecision ----------------------------
(***************************************************************************)
(* The memory of directory sizes that lets a listing skip the fast path.   *)
(* The map and its eviction order are one sequence here, oldest first, of  *)
(* [key, count]; a key is a connection and a path relative to its root.    *)
(***************************************************************************)
EXTENDS Integers, SequencesExt, Picks

CONSTANTS Capacity,  \* remembered directories
          Threshold  \* entries from which a directory is huge

Root == <<>>

(* The parent of a path of one name is "/", which no listing is keyed by:  *)
(* a listing of the root has the empty path.                               *)
Slash == <<"">>
ParentOf(path) == IF Len(path) <= 1 THEN Slash ELSE Front(path)

Remembered(memory) == {memory[i].key : i \in DOMAIN memory}
Recall(memory, key) == CHOOSE m \in ToSet(memory) : m.key = key
Forget(memory, key) == Picked(memory, {m \in ToSet(memory) : m.key # key})
Touch(memory, key) == Append(Forget(memory, key), Recall(memory, key))
EvictOldest(memory) == IF Len(memory) > Capacity THEN Tail(memory) ELSE memory

Record(memory, key, count) ==
    EvictOldest(Append(Forget(memory, key), [key |-> key, count |-> count]))
EscalateHint(memory, key) ==
    key \in Remembered(memory) /\ Recall(memory, key).count >= Threshold
AfterHint(memory, key) ==
    IF key \in Remembered(memory) THEN Touch(memory, key) ELSE memory
InvalidateAround(memory, connection, path) ==
    Forget(Forget(memory, <<connection, path>>), <<connection, ParentOf(path)>>)
=============================================================================
