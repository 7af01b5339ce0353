-------------------------------- MODULE Picks --------------------------------
(* The elements of a sequence that are in a set, in their order: SelectSeq, *)
(* written as a recursive function.                                        *)
EXTENDS Naturals, Sequences

Picked(seq, set) ==
    LET kept[i \in 0..Len(seq)] ==
            IF i = 0 THEN <<>>
            ELSE IF seq[i] \in set THEN Append(kept[i - 1], seq[i]) ELSE kept[i - 1]
    IN kept[Len(seq)]
==============================================================================
