-------------------------------- MODULE Lists -------------------------------
(***************************************************************************)
(* What the parts of MCFiles need of sequences and functions.  Each part   *)
(* is an instance there and brings a copy of all that it extends, which    *)
(* the prover carries in every step: these few stand for SequencesExt and  *)
(* Functions, by the same names.                                           *)
(***************************************************************************)
EXTENDS Naturals, Sequences, FiniteSets

ToSet(s) == {s[i] : i \in DOMAIN s}
Front(s) == SubSeq(s, 1, Len(s) - 1)
Last(s) == s[Len(s)]
IsPrefix(s, t) == Len(s) <= Len(t) /\ SubSeq(s, 1, Len(s)) = SubSeq(t, 1, Len(s))
Restrict(f, S) == [x \in S |-> f[x]]

FoldLeft(op(_, _), base, s) ==
    LET upto[n \in 0..Len(s)] == IF n = 0 THEN base ELSE op(upto[n - 1], s[n])
    IN upto[Len(s)]
FlattenSeq(seqs) == FoldLeft(LAMBDA all, s : all \o s, <<>>, seqs)
SetToSortSeq(S, before(_, _)) ==
    [i \in 1..Cardinality(S) |->
        CHOOSE x \in S : Cardinality({y \in S : before(y, x)}) = i - 1]
=============================================================================
