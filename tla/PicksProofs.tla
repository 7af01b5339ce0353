----------------------------- MODULE PicksProofs -----------------------------
(* What is picked from a sequence.  The proofs are by induction on the     *)
(* length, for which SetInduction has the form that needs no operator.     *)
EXTENDS Picks, WellFoundedInduction, TLAPS

LEMMA SetInduction ==
    ASSUME NEW S \in SUBSET Nat, 0 \in S, \A n \in S : n + 1 \in S
    PROVE  S = Nat
<1> SUFFICES ASSUME S # Nat PROVE FALSE
    OBVIOUS
<1> DEFINE T == Nat \ S
<1>1. T # {} /\ T \subseteq Nat
  OBVIOUS
<1>2. PICK x \in T : \A y \in T : ~ (<<y, x>> \in OpToRel(<, Nat))
  <2> HIDE DEF T
  <2> QED BY <1>1, NatLessThanWellFounded, WFMin
<1>3. x # 0 /\ x - 1 \in Nat
  OBVIOUS
<1>4. x - 1 \in S
  <2> SUFFICES ASSUME x - 1 \in T PROVE FALSE
    BY <1>3
  <2>1. <<x - 1, x>> \in OpToRel(<, Nat)
    BY <1>3 DEF OpToRel
  <2> QED BY <2>1, <1>2
<1> QED BY <1>3, <1>4

(* A function of the numbers up to N that is defined step by step is one.  *)
Builds(g, N, T, base, Fn) ==
    /\ g \in [0..N -> T]
    /\ g[0] = base
    /\ \A i \in 1..N : g[i] = Fn[<<i, g[i - 1]>>]

LEMMA Recurses ==
    ASSUME NEW N \in Nat, NEW T, NEW base \in T, NEW Fn \in [(1..N) \X T -> T]
    PROVE  \E g : Builds(g, N, T, base, Fn)
<1> DEFINE Goes(g, n) == g[0] = base /\ \A i \in 1..n : g[i] = Fn[<<i, g[i - 1]>>]
           S == {n \in Nat : n <= N => \E g \in [0..n -> T] : Goes(g, n)}
<1>1. 0 \in S
  <2>1. [i \in 0..0 |-> base] \in [0..0 -> T] /\ Goes([i \in 0..0 |-> base], 0)
    OBVIOUS
  <2> QED BY <2>1
<1>2. ASSUME NEW n \in S PROVE n + 1 \in S
  <2> HIDE DEF Goes
  <2> SUFFICES ASSUME n + 1 <= N PROVE \E g \in [0..(n + 1) -> T] : Goes(g, n + 1)
    OBVIOUS
  <2>1. PICK g \in [0..n -> T] : Goes(g, n)
    BY <1>2
  <2> DEFINE last == Fn[<<n + 1, g[n]>>]
             new == [i \in 0..(n + 1) |-> IF i = n + 1 THEN last ELSE g[i]]
  <2>2. last \in T
    OBVIOUS
  <2>3. new \in [0..(n + 1) -> T]
    <3> HIDE DEF last
    <3> QED BY <2>2
  <2>4. new[0] = base
    BY <2>1 DEF Goes
  <2>5. ASSUME NEW i \in 1..(n + 1) PROVE new[i] = Fn[<<i, new[i - 1]>>]
    <3>1. CASE i = n + 1
      <4>1. n \in Nat /\ n \in 0..(n + 1) /\ n # n + 1 /\ i - 1 = n
        BY <3>1
      <4>2. new[i] = last /\ new[i - 1] = g[n]
        <5> HIDE DEF last
        <5> QED BY <3>1, <4>1
      <4> QED BY <3>1, <4>1, <4>2
    <3>2. CASE i # n + 1
      <4>1. i \in 1..n /\ new[i] = g[i] /\ new[i - 1] = g[i - 1]
        BY <3>2
      <4> QED BY <2>1, <4>1 DEF Goes
    <3> QED BY <3>1, <3>2
  <2> HIDE DEF new
  <2>6. Goes(new, n + 1)
    BY <2>4, <2>5 DEF Goes
  <2> QED BY <2>3, <2>6
<1>3. S = Nat
  <2> HIDE DEF S
  <2>1. S \subseteq Nat
    BY DEF S
  <2> QED BY <1>1, <1>2, <2>1, SetInduction
<1>4. N \in S
  BY <1>3
<1> QED BY <1>4 DEF Builds

(* What holds at 0 and is handed on up to N holds up to there; and what is *)
(* not so at N, and would have stayed so, was never so.                    *)
LEMMA Through ==
    ASSUME NEW N \in Nat, NEW S, 0 \in S, \A i \in 1..N : i - 1 \in S => i \in S
    PROVE  0..N \subseteq S
<1> DEFINE T == {n \in Nat : n <= N => n \in S}
<1>1. 0 \in T
  OBVIOUS
<1>2. ASSUME NEW n \in T PROVE n + 1 \in T
  <2>1. n \in Nat /\ n + 1 \in Nat /\ (n <= N => n \in S)
    OBVIOUS
  <2>2. ASSUME n + 1 <= N PROVE n + 1 \in S
    <3>1. n + 1 \in 1..N /\ (n + 1) - 1 = n /\ n <= N
      BY <2>1, <2>2
    <3> QED BY <2>1, <3>1
  <2> QED BY <2>1, <2>2
<1>3. T = Nat
  <2> HIDE DEF T
  <2>1. T \in SUBSET Nat
    BY DEF T
  <2> QED BY <1>1, <1>2, <2>1, SetInduction
<1> QED BY <1>3

LEMMA NeverSo ==
    ASSUME NEW N \in Nat, NEW g, NEW X, g[N] # X, \A i \in 1..N : g[i - 1] = X => g[i] = X
    PROVE  \A i \in 0..N : g[i] # X
<1> DEFINE S == {n \in 0..N : g[N - n] # X}
<1>1. 0 \in S
  OBVIOUS
<1>2. ASSUME NEW n \in 1..N, n - 1 \in S PROVE n \in S
  <2>1. /\ N - n + 1 \in 1..N /\ (N - n + 1) - 1 = N - n /\ N - (n - 1) = N - n + 1
        /\ n \in 0..N
    OBVIOUS
  <2>2. g[N - n + 1] # X
    BY <1>2, <2>1
  <2> QED BY <2>1, <2>2
<1>3. 0..N \subseteq S
  <2> HIDE DEF S
  <2> QED BY <1>1, <1>2, Through
<1>4. ASSUME NEW i \in 0..N PROVE g[i] # X
  <2>1. N - i \in S /\ N - (N - i) = i
    BY <1>3
  <2> QED BY <2>1
<1> QED BY <1>4

(* g has what is picked from each beginning of seq.                        *)
Unfolds(g, T, seq, set) ==
    /\ g \in [0..Len(seq) -> Seq(T)]
    /\ g[0] = <<>>
    /\ \A i \in 1..Len(seq) :
          g[i] = IF seq[i] \in set THEN Append(g[i - 1], seq[i]) ELSE g[i - 1]
    /\ Picked(seq, set) = g[Len(seq)]

LEMMA PickedUnfolds ==
    ASSUME NEW T, NEW seq \in Seq(T), NEW set
    PROVE  \E g : Unfolds(g, T, seq, set)
<1> DEFINE Goes(g, n) ==
              /\ g[0] = <<>>
              /\ \A i \in 1..n :
                    g[i] = IF seq[i] \in set THEN Append(g[i - 1], seq[i]) ELSE g[i - 1]
           S == {n \in Nat : n <= Len(seq) => \E g \in [0..n -> Seq(T)] : Goes(g, n)}
<1>1. 0 \in S
  <2>1. [i \in 0..0 |-> <<>>] \in [0..0 -> Seq(T)]
    OBVIOUS
  <2>2. Goes([i \in 0..0 |-> <<>>], 0)
    OBVIOUS
  <2> QED BY <2>1, <2>2
<1>2. ASSUME NEW n \in S PROVE n + 1 \in S
  <2> HIDE DEF Goes
  <2> SUFFICES ASSUME n + 1 <= Len(seq) PROVE \E g \in [0..(n + 1) -> Seq(T)] : Goes(g, n + 1)
    OBVIOUS
  <2> USE DEF Goes
  <2>1. PICK g \in [0..n -> Seq(T)] : Goes(g, n)
    BY SMTT(30), <1>2
  <2> DEFINE last == IF seq[n + 1] \in set THEN Append(g[n], seq[n + 1]) ELSE g[n]
             new == [i \in 0..(n + 1) |-> IF i = n + 1 THEN last ELSE g[i]]
  <2>2. last \in Seq(T)
    OBVIOUS
  <2>3. new \in [0..(n + 1) -> Seq(T)]
    <3> HIDE DEF last
    <3> QED BY <2>2
  <2>4. new[0] = <<>>
    BY <2>1
  <2>5. ASSUME NEW i \in 1..(n + 1)
        PROVE  new[i] = IF seq[i] \in set THEN Append(new[i - 1], seq[i]) ELSE new[i - 1]
    <3>1. CASE i = n + 1
      BY <3>1
    <3>2. CASE i # n + 1
      <4>1. i \in 1..n /\ new[i] = g[i] /\ new[i - 1] = g[i - 1]
        BY <3>2
      <4> QED BY <2>1, <4>1
    <3> QED BY <3>1, <3>2
  <2> HIDE DEF new
  <2> QED BY <2>3, <2>4, <2>5
<1>3. S = Nat
  <2> HIDE DEF S
  <2>1. S \subseteq Nat
    BY DEF S
  <2> QED BY <1>1, <1>2, <2>1, SetInduction
<1>4. PICK g \in [0..Len(seq) -> Seq(T)] : Goes(g, Len(seq))
  <2> HIDE DEF Goes
  <2>1. Len(seq) \in S
    BY <1>3
  <2> QED BY <2>1
<1> DEFINE Kept(f) == [i \in 0..Len(seq) |->
              IF i = 0 THEN <<>>
              ELSE IF seq[i] \in set THEN Append(f[i - 1], seq[i]) ELSE f[i - 1]]
           kept == CHOOSE f : f = Kept(f)
<1>5. g = Kept(g)
  <2>1. g = [i \in 0..Len(seq) |-> g[i]]
    OBVIOUS
  <2>2. ASSUME NEW i \in 0..Len(seq)
        PROVE  g[i] = IF i = 0 THEN <<>>
                      ELSE IF seq[i] \in set THEN Append(g[i - 1], seq[i]) ELSE g[i - 1]
    <3>1. CASE i = 0
      BY <1>4, <3>1
    <3>2. CASE i # 0
      <4>1. i \in 1..Len(seq)
        BY <3>2
      <4> QED BY <1>4, <3>2, <4>1
    <3> QED BY <3>1, <3>2
  <2> QED BY <2>1, <2>2
<1>6. kept = Kept(kept)
  <2> HIDE DEF Kept
  <2> QED BY <1>5
<1>7. Picked(seq, set) = kept[Len(seq)]
  BY DEF Picked
<1> HIDE DEF kept
<1>8. /\ kept[0] = <<>>
      /\ \A i \in 1..Len(seq) :
            kept[i] = IF seq[i] \in set THEN Append(kept[i - 1], seq[i]) ELSE kept[i - 1]
  <2>1. \A i \in 0..Len(seq) : kept[i] = IF i = 0 THEN <<>>
              ELSE IF seq[i] \in set THEN Append(kept[i - 1], seq[i]) ELSE kept[i - 1]
    BY <1>6
  <2> QED BY <2>1
<1> DEFINE A == {n \in Nat : n <= Len(seq) => kept[n] \in Seq(T)}
<1>9. 0 \in A
  <2>1. <<>> \in Seq(T)
    OBVIOUS
  <2> QED BY <1>8, <2>1
<1>10. ASSUME NEW n \in A PROVE n + 1 \in A
  <2> SUFFICES ASSUME n + 1 <= Len(seq) PROVE kept[n + 1] \in Seq(T)
    OBVIOUS
  <2>1. kept[n] \in Seq(T) /\ n + 1 \in 1..Len(seq)
    OBVIOUS
  <2>2. kept[n + 1] = IF seq[n + 1] \in set THEN Append(kept[n], seq[n + 1]) ELSE kept[n]
    BY <1>8, <2>1
  <2> QED BY <2>1, <2>2
<1>11. A = Nat
  <2> HIDE DEF A
  <2>1. A \subseteq Nat
    BY DEF A
  <2> QED BY <1>9, <1>10, <2>1, SetInduction
<1>12. kept \in [0..Len(seq) -> Seq(T)]
  <2>1. kept = [i \in 0..Len(seq) |-> kept[i]]
    BY <1>6
  <2>2. \A i \in 0..Len(seq) : kept[i] \in Seq(T)
    BY <1>11
  <2> QED BY <2>1, <2>2
<1> QED BY <1>7, <1>8, <1>12 DEF Unfolds

(* What is picked: the elements that are in the set, each from a place of  *)
(* its own, in the order of the places, and no fewer than all unless one   *)
(* is left out.                                                            *)
LEMMA PickedPlaces ==
    ASSUME NEW T, NEW seq \in Seq(T), NEW set
    PROVE  /\ Picked(seq, set) \in Seq(T)
           /\ Len(Picked(seq, set)) <= Len(seq)
           /\ \A k \in 1..Len(seq) : seq[k] \notin set => Len(Picked(seq, set)) < Len(seq)
           /\ \E place \in [1..Len(Picked(seq, set)) -> 1..Len(seq)] :
                 /\ \A i \in 1..Len(Picked(seq, set)) :
                       Picked(seq, set)[i] = seq[place[i]] /\ seq[place[i]] \in set
                 /\ \A i, j \in 1..Len(Picked(seq, set)) : i < j => place[i] < place[j]
                 /\ \A k \in 1..Len(seq) : seq[k] \in set =>
                       \E i \in 1..Len(Picked(seq, set)) : place[i] = k
<1>0. PICK g : Unfolds(g, T, seq, set)
  BY PickedUnfolds
<1>1. /\ g \in [0..Len(seq) -> Seq(T)]
      /\ g[0] = <<>>
      /\ \A i \in 1..Len(seq) :
            g[i] = IF seq[i] \in set THEN Append(g[i - 1], seq[i]) ELSE g[i - 1]
      /\ Picked(seq, set) = g[Len(seq)]
  BY <1>0 DEF Unfolds
<1> DEFINE Placed(n, place) ==
              /\ \A i \in 1..Len(g[n]) : g[n][i] = seq[place[i]] /\ seq[place[i]] \in set
              /\ \A i, j \in 1..Len(g[n]) : i < j => place[i] < place[j]
              /\ \A k \in 1..n : seq[k] \in set => \E i \in 1..Len(g[n]) : place[i] = k
           Fits(n) == /\ Len(g[n]) <= n
                      /\ \A k \in 1..n : seq[k] \notin set => Len(g[n]) < n
           S == {n \in Nat : n <= Len(seq) =>
                    Fits(n) /\ \E place \in [1..Len(g[n]) -> 1..n] : Placed(n, place)}
<1>2. 0 \in S
  <2>1. Len(g[0]) = 0
    BY <1>1
  <2>2. <<>> \in [1..0 -> 1..0]
    OBVIOUS
  <2>3. Fits(0) /\ Placed(0, <<>>)
    BY <2>1
  <2> QED BY <2>1, <2>2, <2>3
<1>3. ASSUME NEW n \in S PROVE n + 1 \in S
  <2> HIDE DEF Placed, Fits
  <2> SUFFICES ASSUME n + 1 <= Len(seq)
               PROVE  Fits(n + 1) /\ \E place \in [1..Len(g[n + 1]) -> 1..(n + 1)] : Placed(n + 1, place)
    OBVIOUS
  <2>1. Fits(n) /\ n \in Nat
    OBVIOUS
  <2>2. PICK place \in [1..Len(g[n]) -> 1..n] : Placed(n, place)
    OBVIOUS
  <2>3. /\ g[n] \in Seq(T) /\ Len(g[n]) \in Nat /\ n + 1 \in 1..Len(seq) /\ seq[n + 1] \in T
        /\ g[n + 1] = IF seq[n + 1] \in set THEN Append(g[n], seq[n + 1]) ELSE g[n]
    BY <1>1, <2>1
  <2> HIDE DEF S
  <2>4. CASE seq[n + 1] \notin set
    <3>1. g[n + 1] = g[n]
      BY <2>3, <2>4
    <3>2. place \in [1..Len(g[n + 1]) -> 1..(n + 1)]
      BY <2>1, <3>1
    <3>3. \A k \in 1..(n + 1) : k \in 1..n \/ k = n + 1
      BY <2>1
    <3>4. Fits(n + 1)
      BY <2>1, <2>3, <2>4, <3>1 DEF Fits
    <3>5. Placed(n + 1, place)
      BY <2>2, <2>4, <3>1, <3>3 DEF Placed
    <3> QED BY <3>2, <3>4, <3>5
  <2>5. CASE seq[n + 1] \in set
    <3> DEFINE len == Len(g[n])
               new == [i \in 1..(len + 1) |-> IF i = len + 1 THEN n + 1 ELSE place[i]]
    <3>1. /\ Len(g[n + 1]) = len + 1 /\ g[n + 1][len + 1] = seq[n + 1]
          /\ \A i \in 1..len : g[n + 1][i] = g[n][i]
      BY <2>3, <2>5
    <3>2. len \in Nat
      BY <2>3
    <3> HIDE DEF len
    <3>3. /\ \A i \in 1..len : new[i] = place[i] /\ place[i] \in 1..n
          /\ new[len + 1] = n + 1
          /\ \A i \in 1..(len + 1) : i \in 1..len \/ i = len + 1
      BY <3>2 DEF len
    <3>4. new \in [1..Len(g[n + 1]) -> 1..(n + 1)]
      <4> HIDE DEF new
      <4>3. n + 1 \in 1..(n + 1) /\ \A k \in 1..n : k \in 1..(n + 1)
        BY <2>1
      <4>1. ASSUME NEW i \in 1..(len + 1) PROVE new[i] \in 1..(n + 1)
        <5>1. CASE i \in 1..len
          BY <3>3, <4>3, <5>1
        <5>2. CASE i = len + 1
          BY <3>3, <4>3, <5>2
        <5> QED BY <3>3, <5>1, <5>2
      <4> USE DEF new
      <4>2. new = [i \in 1..(len + 1) |-> new[i]]
        OBVIOUS
      <4> HIDE DEF new
      <4> QED BY <3>1, <4>1, <4>2
    <3> HIDE DEF new
    <3>5. \A k \in 1..(n + 1) : k \in 1..n \/ k = n + 1
      BY <2>1
    <3>6. Fits(n + 1)
      BY <2>1, <2>3, <2>5, <3>1, <3>5 DEF Fits, len
    <3>7. \A i \in 1..(len + 1) : g[n + 1][i] = seq[new[i]] /\ seq[new[i]] \in set
      BY <2>2, <2>5, <3>1, <3>2, <3>3 DEF Placed, len
    <3>8. \A i, j \in 1..(len + 1) : i < j => new[i] < new[j]
      <4> TAKE i, j \in 1..(len + 1)
      <4> HAVE i < j
      <4>1. i \in 1..len
        BY <3>2
      <4>2. CASE j = len + 1
        BY <2>1, <3>3, <4>1, <4>2
      <4>3. CASE j \in 1..len
        BY <2>2, <3>3, <4>1, <4>3 DEF Placed, len
      <4> QED BY <3>3, <4>2, <4>3
    <3>9. ASSUME NEW k \in 1..(n + 1), seq[k] \in set PROVE \E i \in 1..(len + 1) : new[i] = k
      <4>1. CASE k = n + 1
        BY <3>2, <3>3, <4>1
      <4>2. CASE k \in 1..n
        <5>1. PICK i \in 1..len : place[i] = k
          BY <2>2, <3>9, <4>2 DEF Placed, len
        <5>2. i \in 1..(len + 1)
          BY <3>2
        <5> QED BY <3>3, <5>1, <5>2
      <4> QED BY <3>5, <4>1, <4>2
    <3>10. Placed(n + 1, new)
      BY <3>1, <3>7, <3>8, <3>9 DEF Placed
    <3> QED BY <3>4, <3>6, <3>10
  <2> QED BY <2>4, <2>5
<1>4. S = Nat
  <2> HIDE DEF S
  <2>1. S \subseteq Nat
    BY DEF S
  <2> QED BY <1>2, <1>3, <2>1, SetInduction
<1>5. Fits(Len(seq)) /\ \E place \in [1..Len(g[Len(seq)]) -> 1..Len(seq)] : Placed(Len(seq), place)
  <2> HIDE DEF Placed, Fits
  <2>1. Len(seq) \in S
    BY <1>4
  <2> QED BY <2>1
<1>6. g[Len(seq)] \in Seq(T)
  BY <1>1
<1> DEFINE out == g[Len(seq)]
<1>7. out = Picked(seq, set)
  BY <1>1
<1>8. /\ out \in Seq(T) /\ Len(out) <= Len(seq)
      /\ \A k \in 1..Len(seq) : seq[k] \notin set => Len(out) < Len(seq)
      /\ \E place \in [1..Len(out) -> 1..Len(seq)] :
            /\ \A i \in 1..Len(out) : out[i] = seq[place[i]] /\ seq[place[i]] \in set
            /\ \A i, j \in 1..Len(out) : i < j => place[i] < place[j]
            /\ \A k \in 1..Len(seq) : seq[k] \in set => \E i \in 1..Len(out) : place[i] = k
  BY <1>5, <1>6
<1> HIDE DEF out
<1> QED BY <1>7, <1>8

(* All but one of them.                                                    *)
LEMMA PickedButOne ==
    ASSUME NEW T, NEW seq \in Seq(T), NEW set, NEW one \in 1..Len(seq), seq[one] \notin set,
           \A k \in 1..Len(seq) : k # one => seq[k] \in set
    PROVE  /\ Picked(seq, set) \in Seq(T)
           /\ Len(Picked(seq, set)) = Len(seq) - 1
           /\ \A i \in 1..(Len(seq) - 1) :
                 Picked(seq, set)[i] = IF i < one THEN seq[i] ELSE seq[i + 1]
<1>0. PICK g : Unfolds(g, T, seq, set)
  BY PickedUnfolds
<1>1. /\ g \in [0..Len(seq) -> Seq(T)]
      /\ g[0] = <<>>
      /\ \A i \in 1..Len(seq) :
            g[i] = IF seq[i] \in set THEN Append(g[i - 1], seq[i]) ELSE g[i - 1]
      /\ Picked(seq, set) = g[Len(seq)]
  BY <1>0 DEF Unfolds
<1>2. one \in Nat /\ 1 <= one /\ one <= Len(seq) /\ Len(seq) \in Nat
  OBVIOUS
<1> DEFINE Size(n) == IF n < one THEN n ELSE n - 1
           Holds(n) == /\ Len(g[n]) = Size(n)
                       /\ \A i \in 1..Size(n) : g[n][i] = IF i < one THEN seq[i] ELSE seq[i + 1]
           S == {n \in Nat : n <= Len(seq) => Holds(n)}
<1>3. 0 \in S
  BY <1>1, <1>2
<1>4. ASSUME NEW n \in S PROVE n + 1 \in S
  <2> HIDE DEF Holds
  <2> SUFFICES ASSUME n + 1 <= Len(seq) PROVE Holds(n + 1)
    OBVIOUS
  <2>1. Holds(n) /\ n \in Nat
    BY <1>2
  <2>2. /\ g[n] \in Seq(T) /\ n + 1 \in 1..Len(seq) /\ seq[n + 1] \in T
        /\ g[n + 1] = IF seq[n + 1] \in set THEN Append(g[n], seq[n + 1]) ELSE g[n]
    BY <1>1, <2>1
  <2> HIDE DEF S
  <2>3. CASE n + 1 = one
    <3>1. g[n + 1] = g[n] /\ Size(n + 1) = n /\ Size(n) = n
      BY <2>1, <2>2, <2>3
    <3> QED BY <2>1, <3>1 DEF Holds
  <2>4. CASE n + 1 # one
    <3> DEFINE m == Size(n)
    <3>1. m \in Nat /\ Size(n + 1) = m + 1
      BY <1>2, <2>1, <2>4
    <3>2. seq[n + 1] = IF m + 1 < one THEN seq[m + 1] ELSE seq[m + 1 + 1]
      BY <1>2, <2>1, <2>4
    <3>3. /\ Len(g[n]) = m
          /\ \A i \in 1..m : g[n][i] = IF i < one THEN seq[i] ELSE seq[i + 1]
      BY <2>1 DEF Holds
    <3> HIDE DEF m
    <3>4. /\ Len(g[n + 1]) = m + 1 /\ g[n + 1][m + 1] = seq[n + 1]
          /\ \A i \in 1..m : g[n + 1][i] = g[n][i]
      BY <2>2, <2>4, <3>1, <3>3
    <3>5. \A i \in 1..(m + 1) : i \in 1..m \/ i = m + 1
      BY <3>1
    <3> QED BY <3>1, <3>2, <3>3, <3>4, <3>5 DEF Holds
  <2> QED BY <2>3, <2>4
<1>5. S = Nat
  <2> HIDE DEF S
  <2>1. S \subseteq Nat
    BY DEF S
  <2> QED BY <1>3, <1>4, <2>1, SetInduction
<1>6. Holds(Len(seq))
  <2> HIDE DEF Holds
  <2>1. Len(seq) \in S
    BY <1>2, <1>5
  <2> QED BY <2>1
<1> DEFINE out == g[Len(seq)]
<1>7. /\ out \in Seq(T) /\ Len(out) = Len(seq) - 1
      /\ \A i \in 1..(Len(seq) - 1) : out[i] = IF i < one THEN seq[i] ELSE seq[i + 1]
  BY <1>1, <1>2, <1>6
<1>8. out = Picked(seq, set)
  BY <1>1
<1> HIDE DEF out
<1> QED BY <1>7, <1>8

(* What rises at every place rises by as much as there are places.         *)
LEMMA Climbs ==
    ASSUME NEW n \in Nat, NEW m \in Nat, NEW f \in [1..n -> 1..m],
           \A i, j \in 1..n : i < j => f[i] < f[j],
           NEW i \in 1..n
    PROVE  f[i] + (n - i) <= m
<1> DEFINE S == {d \in Nat : i + d <= n => f[i] + d <= f[i + d]}
<1>1. 0 \in S
  OBVIOUS
<1>2. ASSUME NEW d \in S PROVE d + 1 \in S
  <2> SUFFICES ASSUME i + (d + 1) <= n PROVE f[i] + (d + 1) <= f[i + (d + 1)]
    OBVIOUS
  <2>1. d \in Nat /\ i + d \in 1..n /\ i + (d + 1) \in 1..n /\ i + d < i + (d + 1) /\ i + d <= n
    OBVIOUS
  <2>2. f[i] + d <= f[i + d]
    BY <2>1
  <2>3. f[i + d] < f[i + (d + 1)]
    BY <2>1
  <2>4. f[i] \in Nat /\ f[i + d] \in Nat /\ f[i + (d + 1)] \in Nat
    BY <2>1
  <2> QED BY <2>1, <2>2, <2>3, <2>4
<1>3. S = Nat
  <2> HIDE DEF S
  <2>1. S \subseteq Nat
    BY DEF S
  <2> QED BY <1>1, <1>2, <2>1, SetInduction
<1>4. n - i \in S
  <2>1. n - i \in Nat
    OBVIOUS
  <2> QED BY <1>3, <2>1
<1>5. i + (n - i) = n /\ n \in 1..n
  OBVIOUS
<1>6. f[i] + (n - i) <= f[n]
  BY <1>4, <1>5
<1>7. f[n] <= m /\ f[n] \in Nat /\ f[i] \in Nat
  BY <1>5
<1> QED BY <1>6, <1>7
==============================================================================
