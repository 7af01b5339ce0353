---------------------------- MODULE FilesProofs -----------------------------
(***************************************************************************)
(* What is done with single files, for any numbers of connections, faults  *)
(* and other tools, and any paths, directories and widths: a request       *)
(* changes only what its binding lets it, and leaves no stale listing;     *)
(* pages and windows put together are all of what holds still; a job on    *)
(* directories does what its form says; and a connection that is           *)
(* registered has its section, and leaves no other behind.                 *)
(***************************************************************************)
EXTENDS MCFiles, PicksProofs, FiniteSetTheorems, FunctionTheorems, SequenceTheorems, TLAPS

(* What resolve works on.                                                  *)
Words == STRING \cup {"..", "~"}
Parts == Seq(Words)
Paths == Seq(Parts)

LEMMA PathsAre == /\ Paths = Seq(Parts)
                  /\ <<>> \in Paths /\ Q!Outside \in Paths
                  /\ \A path \in Paths : /\ Len(path) \in Nat /\ DOMAIN path = 1..Len(path)
                                         /\ path # <<>> => Len(path) # 0
                                         /\ \A i \in 1..Len(path) : path[i] \in Parts
<1>1. Paths = Seq(Parts)
  BY DEF Paths
<1>2. <<"..">> \in Parts
  BY DEF Parts, Words
<1>3. <<<<"..">>>> \in Seq(Parts)
  BY <1>2
<1>4. Q!Outside \in Seq(Parts)
  BY <1>3 DEF Q!Outside
<1>5. ASSUME NEW path \in Seq(Parts)
      PROVE  /\ Len(path) \in Nat /\ DOMAIN path = 1..Len(path)
             /\ path # <<>> => Len(path) # 0
             /\ \A i \in 1..Len(path) : path[i] \in Parts
  <2>1. Len(path) \in Nat /\ DOMAIN path = 1..Len(path)
    BY LenProperties
  <2>2. path # <<>> => Len(path) # 0
    BY EmptySeq
  <2>3. \A i \in 1..Len(path) : path[i] \in Parts
    BY ElementOfSeq
  <2> QED BY <2>1, <2>2, <2>3
<1>6. <<>> \in Seq(Parts)
  BY EmptySeq
<1> QED BY <1>1, <1>4, <1>5, <1>6

LEMMA FrontIs ==
    ASSUME NEW path \in Paths
    PROVE  /\ Q!Front(path) \in Paths
           /\ path # <<>> => Len(Q!Front(path)) = Len(path) - 1
<1> DEFINE n == Len(path) - 1
<1>1. Len(path) \in Nat /\ n \in Int /\ n <= Len(path)
      /\ \A i \in 1..n : path[i] \in Parts
  BY PathsAre
<1>2. Q!Front(path) = SubSeq(path, 1, n)
  BY DEF Q!Front
<1> HIDE DEF n
<1>3. /\ SubSeq(path, 1, n) \in Seq(Parts)
      /\ Len(SubSeq(path, 1, n)) = IF 1 <= n THEN n - 1 + 1 ELSE 0
  BY <1>1, SubSeqProperties
<1>4. path # <<>> => Len(path) # 0
  BY PathsAre
<1>5. Len(path) # 0 => (IF 1 <= n THEN n - 1 + 1 ELSE 0) = Len(path) - 1
  <2> DEFINE length == Len(path)
  <2>1. length \in Nat /\ n = length - 1
    BY <1>1 DEF n
  <2> HIDE DEF length
  <2>2. length # 0 => (IF 1 <= n THEN n - 1 + 1 ELSE 0) = length - 1
    BY <2>1
  <2> QED BY <2>2 DEF length
<1>6. Q!Front(path) \in Paths
  BY <1>2, <1>3, PathsAre
<1> QED BY <1>2, <1>3, <1>4, <1>5, <1>6

LEMMA FollowsTyped ==
    ASSUME NEW names \in Paths, NEW part \in Parts
    PROVE  /\ Q!Follows(names, part) \in Paths
           /\ Append(names, part) \in Paths
           /\ Len(Append(names, part)) = Len(names) + 1
<1>1. names \in Seq(Parts)
  BY PathsAre
<1>2. Append(names, part) \in Seq(Parts) /\ Len(Append(names, part)) = Len(names) + 1
  BY <1>1, AppendProperties
<1>3. Append(names, part) \in Paths
  BY <1>2, PathsAre
<1>4. Q!Follows(names, part) \in {names, Q!Outside, Q!Front(names), Append(names, part)}
  BY DEF Q!Follows
<1> QED BY <1>2, <1>3, <1>4, PathsAre, FrontIs

(* g has what a path comes to after each of its parts.                     *)
Unrolls(g, path) ==
    /\ g \in [0..Len(path) -> Paths]
    /\ g[0] = <<>>
    /\ \A i \in 1..Len(path) : g[i] = Q!Follows(g[i - 1], path[i])
    /\ Q!Normal(path) = g[Len(path)]

LEMMA NormalUnrolls ==
    ASSUME NEW path \in Paths
    PROVE  \E g : Unrolls(g, path)
<1> DEFINE N == Len(path)
           Fn == [p \in (1..N) \X Paths |-> Q!Follows(p[2], path[p[1]])]
           Steps(f) == [i \in 0..N |-> IF i = 0 THEN <<>> ELSE Q!Follows(f[i - 1], path[i])]
           upto == CHOOSE f : f = Steps(f)
<1>0. N \in Nat /\ \A i \in 1..N : path[i] \in Parts
  BY PathsAre
<1>1. Fn \in [(1..N) \X Paths -> Paths]
  BY <1>0, FollowsTyped
<1> HIDE DEF Fn, N
<1>1a. N \in Nat /\ <<>> \in Paths
  BY <1>0, PathsAre
<1>1b. PICK g : Builds(g, N, Paths, <<>>, Fn)
  BY <1>1, <1>1a, Recurses
<1>2. g \in [0..N -> Paths] /\ g[0] = <<>> /\ \A i \in 1..N : g[i] = Fn[<<i, g[i - 1]>>]
  BY <1>1b DEF Builds
<1>3. \A i \in 1..N : g[i] = Q!Follows(g[i - 1], path[i])
  <2> SUFFICES ASSUME NEW i \in 1..N PROVE g[i] = Q!Follows(g[i - 1], path[i])
    OBVIOUS
  <2>1. g[i - 1] \in Paths
    BY <1>0, <1>2
  <2> QED BY <1>2, <2>1 DEF Fn
<1>4. g = Steps(g)
  <2>1. g = [i \in 0..N |-> g[i]]
    BY <1>2
  <2>2. ASSUME NEW i \in 0..N
        PROVE  g[i] = IF i = 0 THEN <<>> ELSE Q!Follows(g[i - 1], path[i])
    <3>1. CASE i = 0
      BY <1>2, <3>1
    <3>2. CASE i # 0
      <4>1. i \in 1..N
        BY <1>0, <3>2
      <4> QED BY <1>3, <3>2, <4>1
    <3> QED BY <3>1, <3>2
  <2> QED BY <2>1, <2>2
<1>5. upto = Steps(upto)
  <2> HIDE DEF Steps
  <2> QED BY <1>4
<1>6. Q!Normal(path) = upto[N]
  BY DEF Q!Normal, N
<1> HIDE DEF upto
<1>7. /\ upto[0] = <<>>
      /\ \A i \in 1..N : upto[i] = Q!Follows(upto[i - 1], path[i])
  <2>1. \A i \in 0..N : upto[i] = IF i = 0 THEN <<>> ELSE Q!Follows(upto[i - 1], path[i])
    BY <1>5
  <2> QED BY <1>0, <2>1
<1> DEFINE Typed == {n \in 0..N : upto[n] \in Paths}
<1>8. 0 \in Typed
  <2>1. 0 \in 0..N
    BY <1>1a
  <2>2. upto[0] \in Paths
    BY <1>1a, <1>7
  <2> QED BY <2>1, <2>2
<1>9. ASSUME NEW n \in 1..N, n - 1 \in Typed PROVE n \in Typed
  <2>1. upto[n - 1] \in Paths /\ path[n] \in Parts
    BY <1>0, <1>9
  <2> QED BY <1>7, <2>1, FollowsTyped
<1>10. 0..N \subseteq Typed
  <2> HIDE DEF Typed
  <2> QED BY <1>0, <1>8, <1>9, Through
<1>11. upto \in [0..N -> Paths]
  <2>1. upto = [i \in 0..N |-> upto[i]]
    BY <1>5
  <2>2. \A i \in 0..N : upto[i] \in Paths
    BY <1>10
  <2> QED BY <2>1, <2>2
<1> QED BY <1>6, <1>7, <1>11 DEF Unrolls, N

(* A path that leads out is refused: as long as it is not, what it has come *)
(* to is as long as it has come down and not gone up again.                *)
Ups(path, n) == {j \in 1..n : path[j] = <<"..">>}
Downs(path, n) == {j \in 1..n : path[j] \notin {<<"">>, <<".">>}}

LEMMA CountOne ==
    ASSUME NEW n \in Nat, NEW S \in SUBSET (1..n)
    PROVE  /\ IsFiniteSet(S)
           /\ Cardinality(S) \in Nat
           /\ Cardinality(S \cup {n + 1}) = Cardinality(S) + 1
<1>1. IsFiniteSet(1..n)
  BY FS_Interval
<1>2. IsFiniteSet(S)
  BY <1>1, FS_Subset
<1>3. Cardinality(S) \in Nat
  BY <1>2, FS_CardinalityType
<1>4. n + 1 \notin S
  OBVIOUS
<1> QED BY <1>2, <1>3, <1>4, FS_AddElement

(* One part more.                                                          *)
LEMMA UpsGrow ==
    ASSUME NEW path \in Paths, NEW n \in 1..Len(path)
    PROVE  /\ Cardinality(Ups(path, n - 1)) \in Nat
           /\ Cardinality(Downs(path, n - 1)) \in Nat
           /\ path[n] = <<"..">> =>
                 Cardinality(Ups(path, n)) = Cardinality(Ups(path, n - 1)) + 1
           /\ path[n] # <<"..">> => Cardinality(Ups(path, n)) = Cardinality(Ups(path, n - 1))
           /\ path[n] \notin {<<"">>, <<".">>} =>
                 Cardinality(Downs(path, n)) = Cardinality(Downs(path, n - 1)) + 1
           /\ path[n] \in {<<"">>, <<".">>} =>
                 Cardinality(Downs(path, n)) = Cardinality(Downs(path, n - 1))
<1>0. n - 1 \in Nat /\ (n - 1) + 1 = n /\ 1..n = (1..(n - 1)) \cup {n}
  BY PathsAre
<1>1. Ups(path, n - 1) \in SUBSET (1..(n - 1)) /\ Downs(path, n - 1) \in SUBSET (1..(n - 1))
  BY DEF Ups, Downs
<1>2. path[n] = <<"..">> => Ups(path, n) = Ups(path, n - 1) \cup {n}
  BY <1>0 DEF Ups
<1>3. path[n] # <<"..">> => Ups(path, n) = Ups(path, n - 1)
  BY <1>0 DEF Ups
<1>4. path[n] \notin {<<"">>, <<".">>} => Downs(path, n) = Downs(path, n - 1) \cup {n}
  BY <1>0 DEF Downs
<1>5. path[n] \in {<<"">>, <<".">>} => Downs(path, n) = Downs(path, n - 1)
  BY <1>0 DEF Downs
<1>6. /\ Cardinality(Ups(path, n - 1)) \in Nat
      /\ Cardinality(Ups(path, n - 1) \cup {n}) = Cardinality(Ups(path, n - 1)) + 1
  BY <1>0, <1>1, CountOne
<1>7. /\ Cardinality(Downs(path, n - 1)) \in Nat
      /\ Cardinality(Downs(path, n - 1) \cup {n}) = Cardinality(Downs(path, n - 1)) + 1
  BY <1>0, <1>1, CountOne
<1> QED BY <1>2, <1>3, <1>4, <1>5, <1>6, <1>7

LEMMA Sums ==
    \A depth, ups, downs \in Nat : depth + 2 * ups = downs =>
        /\ (depth - 1) + 2 * (ups + 1) = downs + 1
        /\ (depth + 1) + 2 * ups = downs + 1
OBVIOUS

LEMMA NormalStaysIn ==
    ASSUME NEW path \in Paths, Q!Normal(path) # Q!Outside
    PROVE  ~Q!LeadsOut(path)
<1>0. PICK g : Unrolls(g, path)
  BY NormalUnrolls
<1> DEFINE N == Len(path)
<1>1. /\ N \in Nat /\ DOMAIN path = 1..N
      /\ g \in [0..N -> Paths] /\ g[0] = <<>> /\ g[N] # Q!Outside
      /\ \A i \in 1..N : g[i] = Q!Follows(g[i - 1], path[i]) /\ path[i] \in Parts
  BY <1>0, PathsAre DEF Unrolls
<1>2. \A i \in 1..N : g[i - 1] = Q!Outside => g[i] = Q!Outside
  BY <1>1 DEF Q!Follows
<1> HIDE DEF N
<1>3. \A i \in 0..N : g[i] # Q!Outside
  BY <1>1, <1>2, NeverSo
<1> DEFINE Deep == {n \in 0..N :
                       Len(g[n]) + 2 * Cardinality(Ups(path, n)) = Cardinality(Downs(path, n))}
<1>4. 0 \in Deep
  <2>1. Ups(path, 0) = {} /\ Downs(path, 0) = {}
    BY DEF Ups, Downs
  <2>2. Len(g[0]) = 0
    BY <1>1, EmptySeq
  <2>3. Cardinality(Ups(path, 0)) = 0 /\ Cardinality(Downs(path, 0)) = 0
    BY <2>1, FS_EmptySet
  <2> QED BY <1>1, <2>2, <2>3
<1>5. ASSUME NEW n \in 1..N, n - 1 \in Deep PROVE n \in Deep
  <2> DEFINE ups == Cardinality(Ups(path, n - 1))
             downs == Cardinality(Downs(path, n - 1))
             Ups1 == Cardinality(Ups(path, n))
             Downs1 == Cardinality(Downs(path, n))
             before == g[n - 1]
             deep == Len(before)
  <2>1. deep + 2 * ups = downs
    BY <1>5
  <2>2. /\ before \in Paths /\ before # Q!Outside /\ g[n] # Q!Outside
        /\ path[n] \in Parts /\ g[n] = Q!Follows(before, path[n])
    BY <1>1, <1>3
  <2>3. deep \in Nat
    BY <2>2, PathsAre
  <2>4. /\ ups \in Nat /\ downs \in Nat
        /\ path[n] = <<"..">> => Ups1 = ups + 1
        /\ path[n] # <<"..">> => Ups1 = ups
        /\ path[n] \notin {<<"">>, <<".">>} => Downs1 = downs + 1
        /\ path[n] \in {<<"">>, <<".">>} => Downs1 = downs
    BY UpsGrow DEF N
  <2>5. <<"..">> # <<"">> /\ <<"..">> # <<".">>
    OBVIOUS
  <2>6. n \in Deep <=> Len(g[n]) + 2 * Ups1 = Downs1
    BY <1>1
  <2> HIDE DEF Deep, ups, downs, Ups1, Downs1
  <2>7. CASE path[n] \in {<<"">>, <<".">>}
    <3>1. g[n] = before
      BY <2>2, <2>7 DEF Q!Follows
    <3>2. Len(g[n]) = deep
      BY <3>1
    <3> HIDE DEF deep, before
    <3>3. Ups1 = ups /\ Downs1 = downs
      BY <2>4, <2>5, <2>7
    <3> QED BY <2>1, <2>6, <3>2, <3>3
  <2>8. CASE path[n] = <<"..">>
    <3>1. before # <<>> /\ g[n] = Q!Front(before)
      BY <2>2, <2>5, <2>8 DEF Q!Follows
    <3>2. Len(g[n]) = deep - 1
      BY <2>2, <3>1, FrontIs
    <3> HIDE DEF deep, before
    <3>3. Ups1 = ups + 1 /\ Downs1 = downs + 1
      BY <2>4, <2>5, <2>8
    <3>4. (deep - 1) + 2 * (ups + 1) = downs + 1
      BY <2>1, <2>3, <2>4, Sums
    <3> QED BY <2>6, <3>2, <3>3, <3>4
  <2>9. CASE path[n] \notin {<<"">>, <<".">>, <<"..">>}
    <3>1. g[n] = Append(before, path[n])
      BY <2>2, <2>9 DEF Q!Follows
    <3>2. Len(g[n]) = deep + 1
      BY <2>2, <3>1, FollowsTyped
    <3> HIDE DEF deep, before
    <3>3. Ups1 = ups /\ Downs1 = downs + 1
      BY <2>4, <2>9
    <3>4. (deep + 1) + 2 * ups = downs + 1
      BY <2>1, <2>3, <2>4, Sums
    <3> QED BY <2>6, <3>2, <3>3, <3>4
  <2> QED BY <2>7, <2>8, <2>9
<1>6. 0..N \subseteq Deep
  <2> HIDE DEF Deep
  <2> QED BY <1>1, <1>4, <1>5, Through
<1>7. ASSUME NEW n \in 1..N
      PROVE  ~(2 * Cardinality(Ups(path, n)) > Cardinality(Downs(path, n)))
  <2> DEFINE ups == Cardinality(Ups(path, n))
             downs == Cardinality(Downs(path, n))
             deep == Len(g[n])
  <2>1. n \in 0..N /\ n \in Nat
    BY <1>1
  <2>2. deep + 2 * ups = downs
    BY <1>6, <2>1
  <2>3. deep \in Nat
    BY <1>1, <2>1, PathsAre
  <2>4. Ups(path, n) \in SUBSET (1..n) /\ Downs(path, n) \in SUBSET (1..n)
    BY DEF Ups, Downs
  <2>5. ups \in Nat /\ downs \in Nat
    BY <2>1, <2>4, CountOne
  <2> HIDE DEF ups, downs, deep
  <2>6. ~(2 * ups > downs)
    BY <2>2, <2>3, <2>5
  <2> QED BY <2>6 DEF ups, downs
<1>8. ~\E n \in DOMAIN path : 2 * Cardinality(Ups(path, n)) > Cardinality(Downs(path, n))
  BY <1>1, <1>7
<1>9. \A set : Q!Cardinality(set) = Cardinality(set)
  BY DEF Q!Cardinality, Cardinality
<1>10. Q!LeadsOut(path) <=>
         \E n \in DOMAIN path : 2 * Cardinality(Ups(path, n)) > Cardinality(Downs(path, n))
  BY <1>9 DEF Q!LeadsOut, Ups, Downs
<1> QED BY <1>8, <1>10

------------------------------------------------------------------------------
(* What a request that goes on was asked for, and by which path.           *)
Fields(r) ==
    r = [at |-> r.at, method |-> r.method, from |-> r.from, to |-> r.to, b |-> r.b, d |-> r.d,
         raw |-> r.raw, src |-> r.src, dst |-> r.dst, hint |-> r.hint,
         changes |-> r.changes, stale |-> r.stale, ok |-> r.ok]
Granted(r) ==
    /\ Q!Allowed(r.method, r.b, r.d)
    /\ ~Q!LeadsOut(r.raw)
    /\ Q!RootRefused(r.method) => r.src # <<>>
    /\ r.method \notin {"copy", "move"} => r.d = r.b
    /\ r.at \in {"mkdir", "placeholder"} => r.method = "mkdir"

RequestLabels ==
    {"idle", "mkdir", "placeholder", "stat", "list", "size", "hash", "job", "act", "drop",
     "answered"}

(* Where a directory is no file is, and the root is not among what is there.  *)
Clean(t) ==
    /\ t = [files |-> t.files, dirs |-> t.dirs]
    /\ <<>> \notin t.files \cup t.dirs
    /\ t.files \cap t.dirs = {}

Bound(r, how) == IF how = "adds" THEN r.d ELSE r.b
Honest(r) ==
    \A c \in r.changes :
        /\ ~Bound(r, c.how).readOnly
        /\ c.how = "takes" => Bound(r, c.how).allowDelete
                              /\ (c.path # <<>> \/ r.method = "rmdirs")

(* The inductive invariant: a request that goes on, or has changed         *)
(* something, has been granted; and until it answers what it has left      *)
(* behind in the listings is among what it is about to drop.               *)
ReqTypes ==
    /\ binding \in [Connections -> Bindings]
    /\ request.from \in Connections /\ request.to \in Connections
    /\ request.at \in RequestLabels
    /\ requestFaults \in 0..RequestFaults /\ strangers \in 0..Strangers
Places == DOMAIN tree = Connections /\ \A c \in Connections : Clean(tree[c])
Gated ==
    request.at # "idle" /\ (request.at = "answered" => request.changes # {}) => Granted(request)
Unchanged ==
    request.at \notin {"drop", "answered"} => request.changes = {} /\ request.stale = {}
Behind ==
    /\ request.at # "answered" =>
          ~request.ok /\ (request.method = "rmdirs" \/ request.stale \subseteq Q!Dropped)
    /\ request.at = "answered" /\ request.ok /\ request.method # "rmdirs" => request.stale = {}
ReqInv ==
    /\ Fields(request) /\ ReqTypes /\ Places
    /\ Gated /\ Honest(request) /\ Unchanged /\ Behind

(* What a step makes of the request.                                       *)
Alike(r, n) ==
    /\ Fields(n)
    /\ n.method = r.method /\ n.from = r.from /\ n.to = r.to /\ n.b = r.b /\ n.d = r.d
    /\ n.raw = r.raw /\ n.src = r.src

LEMMA Labelled ==
    ASSUME NEW r, Fields(r), NEW label, NEW n, n = [r EXCEPT !.at = label]
    PROVE  /\ Alike(r, n) /\ n.at = label
           /\ n.changes = r.changes /\ n.stale = r.stale /\ n.ok = r.ok
BY DEF Fields, Alike

LEMMA AnsweredOf ==
    ASSUME NEW r, Fields(r), NEW ok \in BOOLEAN, NEW n, n = [r EXCEPT !.at = "answered", !.ok = ok]
    PROVE  /\ Alike(r, n) /\ n.at = "answered"
           /\ n.changes = r.changes /\ n.stale = r.stale /\ n.ok = ok
<1>1. n = [at |-> "answered", method |-> r.method, from |-> r.from, to |-> r.to, b |-> r.b,
           d |-> r.d, raw |-> r.raw, src |-> r.src, dst |-> r.dst, hint |-> r.hint,
           changes |-> r.changes, stale |-> r.stale, ok |-> ok]
  BY DEF Fields
<1> QED BY <1>1 DEF Fields, Alike

LEMMA StaysGranted ==
    ASSUME NEW r, NEW n, Alike(r, n), Granted(r), n.at \in {"mkdir", "placeholder"} => n.method = "mkdir"
    PROVE  Granted(n)
BY DEF Alike, Granted

(* A tree stays clean.                                                     *)
LEMMA ParentsAre ==
    ASSUME NEW path
    PROVE  <<>> \notin Q!Parents(path) /\ path \notin Q!Parents(path)
<1> SUFFICES ASSUME NEW i \in 1..(Len(path) - 1)
             PROVE  SubSeq(path, 1, i) # <<>> /\ SubSeq(path, 1, i) # path
  BY DEF Q!Parents
<1> DEFINE S == {path[j] : j \in 1..i}
<1>1. i \in Int /\ 1 <= i /\ \A j \in 1..i : path[j] \in S
  OBVIOUS
<1> HIDE DEF S
<1>2. SubSeq(path, 1, i) \in Seq(S) /\ Len(SubSeq(path, 1, i)) = i
  <2>1. Len(SubSeq(path, 1, i)) = (IF 1 <= i THEN i - 1 + 1 ELSE 0)
        /\ SubSeq(path, 1, i) \in Seq(S)
    BY <1>1, SubSeqProperties
  <2>2. (IF 1 <= i THEN i - 1 + 1 ELSE 0) = i
    BY <1>1
  <2> QED BY <2>1, <2>2
<1>3. SubSeq(path, 1, i) # <<>>
  BY <1>1, <1>2, EmptySeq
<1>4. SubSeq(path, 1, i) # path
  <2> SUFFICES ASSUME SubSeq(path, 1, i) = path PROVE FALSE
    OBVIOUS
  <2>1. Len(path) = i
    BY <1>2
  <2>2. i \in 1..(i - 1)
    BY <2>1
  <2> QED BY <1>1, <2>2
<1> QED BY <1>3, <1>4

LEMMA PlusClean ==
    ASSUME NEW t, Clean(t), NEW b, NEW path, path # <<>>, path \notin t.dirs,
           Q!Parents(path) \cap t.files = {}
    PROVE  Clean(Q!Plus(b, t, path))
BY ParentsAre DEF Clean, Q!Plus

LEMMA MinusClean ==
    ASSUME NEW t, Clean(t), NEW b, NEW paths
    PROVE  Clean(Q!Minus(b, t, paths))
<1> DEFINE m == [files |-> t.files \ paths, dirs |-> t.dirs \ paths]
<1>1. Clean(m) /\ m = [files |-> m.files, dirs |-> m.dirs]
  BY DEF Clean
<1>2. Q!Minus(b, t, paths) = Q!Kept(b, m)
  BY DEF Q!Minus
<1> HIDE DEF m
<1> DEFINE kept == {d \in m.dirs : \E f \in m.files : Q!IsPrefix(d, f)}
           n == [m EXCEPT !.dirs = kept]
<1>3. kept \subseteq m.dirs
  OBVIOUS
<1>4. Q!Kept(b, m) = IF b.keeps THEN m ELSE n
  BY DEF Q!Kept
<1> HIDE DEF kept
<1>5. n = [files |-> m.files, dirs |-> kept]
  BY <1>1
<1>6. Clean(n)
  BY <1>1, <1>3, <1>5 DEF Clean
<1> QED BY <1>1, <1>2, <1>4, <1>6

(* FreeFor lets a file be put.                                             *)
LEMMA FreeIs ==
    ASSUME NEW c \in Connections, Clean(tree[c]), NEW path, Q!FreeFor(c, path)
    PROVE  path # <<>> /\ path \notin tree[c].dirs /\ Q!Parents(path) \cap tree[c].files = {}
BY DEF Q!FreeFor, Q!Kind, Clean

LEMMA PutPlaces ==
    ASSUME Places, NEW c \in Connections, NEW b, NEW path, Q!FreeFor(c, path),
           NEW t, t = [tree EXCEPT ![c] = Q!Plus(b, tree[c], path)]
    PROVE  DOMAIN t = Connections /\ \A x \in Connections : Clean(t[x])
<1>1. Clean(Q!Plus(b, tree[c], path))
  BY FreeIs, PlusClean DEF Places
<1> QED BY <1>1 DEF Places

LEMMA TakePlaces ==
    ASSUME NEW s, DOMAIN s = Connections, \A x \in Connections : Clean(s[x]),
           NEW c \in Connections, NEW b, NEW paths,
           NEW t, t = [s EXCEPT ![c] = Q!Minus(b, s[c], paths)]
    PROVE  DOMAIN t = Connections /\ \A x \in Connections : Clean(t[x])
<1>1. Clean(Q!Minus(b, s[c], paths))
  BY MinusClean
<1> QED BY <1>1

------------------------------------------------------------------------------
(* A request that goes on, one that is refused, and one that has changed   *)
(* something.                                                              *)
LEMMA GoesOn ==
    ASSUME ReqInv, NEW label \in RequestLabels \ {"idle", "answered", "mkdir"}, Q!To(label),
           request.at \notin {"idle", "drop", "answered"},
           label = "placeholder" => request.at = "mkdir"
    PROVE  ReqInv'
<1>1. /\ Fields(request) /\ ReqTypes /\ Places /\ Gated /\ Honest(request) /\ Unchanged /\ Behind
  BY DEF ReqInv
<1>2. /\ request' = [request EXCEPT !.at = label]
      /\ UNCHANGED <<binding, tree, remembered, asked, requestFaults, strangers>>
  BY DEF Q!To, Q!Goes, Q!Still
<1>3. /\ Alike(request, request') /\ request'.at = label
      /\ request'.changes = request.changes /\ request'.stale = request.stale
      /\ request'.ok = request.ok
  BY <1>1, <1>2, Labelled
<1>4. Granted(request) /\ request.changes = {} /\ request.stale = {} /\ ~request.ok
  BY <1>1 DEF Gated, Unchanged, Behind
<1>5. Granted(request')
  BY <1>3, <1>4, StaysGranted DEF Granted, Alike
<1>6. Fields(request') /\ ReqTypes' /\ Places'
  BY <1>1, <1>2, <1>3 DEF Alike, ReqTypes, Places, Clean
<1>7. Gated' /\ Honest(request)' /\ Unchanged' /\ Behind'
  BY <1>3, <1>4, <1>5 DEF Gated, Honest, Unchanged, Behind
<1> QED BY <1>6, <1>7 DEF ReqInv

LEMMA Refused ==
    ASSUME ReqInv, request' = Q!Answer(FALSE), request.at \notin {"idle", "drop", "answered"},
           UNCHANGED <<binding, tree, strangers>>, requestFaults' \in 0..RequestFaults
    PROVE  ReqInv'
<1>1. /\ Fields(request) /\ ReqTypes /\ Places /\ Gated /\ Honest(request) /\ Unchanged /\ Behind
  BY DEF ReqInv
<1>2. request' = [request EXCEPT !.at = "answered", !.ok = FALSE]
  BY DEF Q!Answer
<1>3. /\ Alike(request, request') /\ request'.at = "answered"
      /\ request'.changes = request.changes /\ request'.stale = request.stale
      /\ request'.ok = FALSE
  BY <1>1, <1>2, AnsweredOf
<1>4. request.changes = {} /\ request.stale = {}
  BY <1>1 DEF Unchanged
<1>6. Fields(request') /\ ReqTypes' /\ Places'
  BY <1>1, <1>3 DEF Alike, ReqTypes, RequestLabels, Places, Clean
<1>7. Gated' /\ Honest(request)' /\ Unchanged' /\ Behind'
  BY <1>3, <1>4 DEF Gated, Honest, Unchanged, Behind
<1> QED BY <1>6, <1>7 DEF ReqInv

LEMMA Refuses ==
    ASSUME ReqInv, Q!Refuses, request.at \notin {"idle", "drop", "answered"}
    PROVE  ReqInv'
<1>1. request' = Q!Answer(FALSE) /\ UNCHANGED <<binding, tree, requestFaults, strangers>>
  BY DEF Q!Refuses, Q!Goes, Q!Still
<1>2. requestFaults' \in 0..RequestFaults
  BY <1>1 DEF ReqInv, ReqTypes
<1> QED BY <1>1, <1>2, Refused

(* What a request takes is told by the methods that drop its directory.    *)
LEMMA TakenIsDropped ==
    ASSUME request.method \in {"rmdir", "delete", "purge", "copy", "move", "rename"}
    PROVE  Q!Listing(request.from, request.src) \subseteq Q!Dropped
<1>1. Q!Listing(request.from, request.src) \subseteq Q!Around(request.from, request.src)
  BY DEF Q!Listing, Q!Around, Q!ParentOf
<1>2. Q!Around(request.from, request.src) \subseteq Q!Dropped
  <2>1. CASE request.method \in {"rmdir", "delete", "purge"}
    BY <2>1 DEF Q!Dropped
  <2>2. CASE request.method \in {"copy", "move", "rename"}
    BY <2>2 DEF Q!Dropped
  <2> QED BY <2>1, <2>2
<1> QED BY <1>1, <1>2

LEMMA Did ==
    ASSUME ReqInv, request.at \in {"mkdir", "placeholder", "act"},
           NEW t, DOMAIN t = Connections, \A x \in Connections : Clean(t[x]),
           NEW changes,
           Q!Changed(t, changes, [request EXCEPT !.at = "drop"]),
           \A c \in changes :
              /\ ~Bound(request, c.how).readOnly
              /\ c.how = "takes" =>
                    /\ Bound(request, c.how).allowDelete
                    /\ c.path # <<>> \/ request.method = "rmdirs"
                    /\ request.method \in {"rmdir", "delete", "purge", "copy", "move", "rename",
                                           "rmdirs"}
    PROVE  ReqInv'
<1> DEFINE one == Q!Change(request.from, request.src, "takes")
           stale == IF one \in changes
                    THEN Q!Listing(request.from, request.src) \cap remembered ELSE {}
<1>1. /\ Fields(request) /\ ReqTypes /\ Places /\ Gated /\ Honest(request) /\ Unchanged /\ Behind
  BY DEF ReqInv
<1>2. Fields([request EXCEPT !.at = "drop"])
      /\ [request EXCEPT !.at = "drop"].from = request.from
      /\ [request EXCEPT !.at = "drop"].src = request.src
  <2> DEFINE n == [request EXCEPT !.at = "drop"]
  <2>1. Alike(request, n)
    BY <1>1, Labelled
  <2> QED BY <2>1 DEF Alike
<1>3. /\ request' = [[request EXCEPT !.at = "drop"] EXCEPT !.changes = changes, !.stale = stale]
      /\ tree' = t /\ UNCHANGED <<binding, remembered, asked, requestFaults, strangers>>
  BY <1>2 DEF Q!Changed, Q!Goes, Q!Still
<1>4. stale # {} => stale \subseteq Q!Listing(request.from, request.src) /\ one \in changes
  OBVIOUS
<1>5. one.how = "takes"
  BY DEF Q!Change
<1>6. request.method = "rmdirs" \/ stale \subseteq Q!Dropped
  BY <1>4, <1>5, TakenIsDropped
<1> HIDE DEF one, stale
<1>7. /\ Alike(request, request') /\ request'.at = "drop"
      /\ request'.changes = changes /\ request'.stale = stale
      /\ request'.ok = request.ok
  <2>1. request' =
          [at |-> "drop", method |-> request.method, from |-> request.from, to |-> request.to,
           b |-> request.b, d |-> request.d, raw |-> request.raw, src |-> request.src,
           dst |-> request.dst, hint |-> request.hint, changes |-> changes, stale |-> stale,
           ok |-> request.ok]
    BY <1>1, <1>3 DEF Fields
  <2> QED BY <2>1 DEF Fields, Alike
<1>8. Granted(request) /\ ~request.ok
  BY <1>1 DEF Gated, Behind
<1>9. Granted(request')
  BY <1>7, <1>8, StaysGranted
<1>10. Q!Dropped' = Q!Dropped
  BY <1>7 DEF Alike, Q!Dropped, Q!Around
<1>11. Fields(request') /\ ReqTypes' /\ Places'
  BY <1>1, <1>3, <1>7 DEF Alike, ReqTypes, RequestLabels, Places
<1>12. Honest(request)'
  BY <1>7 DEF Alike, Honest, Bound
<1>13. Gated' /\ Unchanged' /\ Behind'
  BY <1>6, <1>7, <1>8, <1>9, <1>10 DEF Gated, Unchanged, Behind, Alike
<1> QED BY <1>11, <1>12, <1>13 DEF ReqInv

------------------------------------------------------------------------------
(* The handlers.                                                           *)
Asked(method, to, path, target, hint) ==
    LET two == method \in {"copy", "move", "rename"}
        b == binding[Q!Home]
        d == binding[to]
        src == Q!Resolve(b.root, b.lock, path)
        dst == Q!Resolve(d.root, d.lock, Q!TargetOf(method, path, target))
        next == [Q!Rest EXCEPT !.at = Q!First(method), !.method = method, !.to = to,
                   !.b = b, !.d = d,
                   !.raw = path, !.src = src, !.dst = dst, !.hint = hint]
    IN /\ ~two => target = path
       /\ method \notin {"copy", "move"} => to = Q!Home
       /\ method # "rename" => hint = "none"
       /\ Q!Goes(IF /\ Q!Allowed(method, b, d)
                    /\ src # Q!Outside /\ dst # Q!Outside
                    /\ Q!RootRefused(method) => src # <<>>
                    /\ method = "purge" => Q!Bare(path) # Q!Bare(b.root)
                    /\ Q!PutsFile(method) => Q!Nested(d, dst)
                 THEN next ELSE [next EXCEPT !.at = "answered"])

LEMMA HomeIs == Q!Home \in Connections
BY RequestAssumption DEF Q!Home

LEMMA Spelled == Spellings \subseteq Paths
<1>1. Seq(STRING) \subseteq Parts
  BY SeqMonotonic DEF Parts, Words
<1>2. \A path \in Seq(Seq(STRING)) : path \in Seq(Parts)
  BY <1>1, SeqMonotonic
<1> QED BY <1>2, RequestAssumption DEF Paths

(* A path that is resolved does not lead out.                              *)
LEMMA ResolvedStaysIn ==
    ASSUME NEW root, NEW lock, NEW path \in Paths, Q!Resolve(root, lock, path) # Q!Outside
    PROVE  ~Q!LeadsOut(path)
<1>1. Q!Sanitize(path) # Q!Outside
  BY DEF Q!Resolve
<1>2. Q!Normal(path) # Q!Outside
  BY <1>1 DEF Q!Sanitize
<1> QED BY <1>2, NormalStaysIn

LEMMA FirstIs ==
    ASSUME NEW method
    PROVE  /\ Q!First(method) \in RequestLabels \ {"idle", "placeholder", "drop", "answered"}
           /\ Q!First(method) = "mkdir" => method = "mkdir"
<1>1. CASE method = "mkdir"
  BY <1>1 DEF Q!First, RequestLabels
<1>2. CASE method \in {"rmdir", "delete", "purge", "copy", "move", "rename"}
  BY <1>2 DEF Q!First, RequestLabels
<1>3. CASE method = "hashsum"
  BY <1>3 DEF Q!First, RequestLabels
<1>4. CASE method \notin {"mkdir", "rmdir", "delete", "purge", "copy", "move", "rename", "hashsum"}
  BY <1>4 DEF Q!First, RequestLabels
<1> QED BY <1>1, <1>2, <1>3, <1>4

LEMMA AsksKeepsReq == ASSUME ReqInv, Q!Asks PROVE ReqInv'
<1>1. PICK method \in Methods, to \in Connections, path \in Spellings, target \in Spellings,
           hint \in {"none", "file", "dir"} : Asked(method, to, path, target, hint)
  BY DEF Q!Asks, Asked
<1> DEFINE b == binding[Q!Home]
           d == binding[to]
           src == Q!Resolve(b.root, b.lock, path)
           dst == Q!Resolve(d.root, d.lock, Q!TargetOf(method, path, target))
           next == [at |-> Q!First(method), method |-> method, from |-> Q!Home, to |-> to,
                    b |-> b, d |-> d, raw |-> path, src |-> src, dst |-> dst, hint |-> hint,
                    changes |-> {}, stale |-> {}, ok |-> FALSE]
           granted == /\ Q!Allowed(method, b, d)
                      /\ src # Q!Outside /\ dst # Q!Outside
                      /\ Q!RootRefused(method) => src # <<>>
                      /\ method = "purge" => Q!Bare(path) # Q!Bare(b.root)
                      /\ Q!PutsFile(method) => Q!Nested(d, dst)
<1>2. ASSUME NEW n, n = [Q!Rest EXCEPT !.at = Q!First(method), !.method = method, !.to = to,
                           !.b = b, !.d = d, !.raw = path, !.src = src, !.dst = dst, !.hint = hint]
      PROVE  n = next
  <2> HIDE DEF b, d, src, dst
  <2> QED BY <1>2 DEF Q!Rest
<1>3. /\ request' = IF granted THEN next ELSE [next EXCEPT !.at = "answered"]
      /\ method \notin {"copy", "move"} => to = Q!Home
  BY <1>1, <1>2 DEF Asked, Q!Goes
<1>4. UNCHANGED <<binding, tree, remembered, requestFaults, strangers>>
  BY DEF Q!Asks
<1>5. ReqTypes /\ Places
  BY DEF ReqInv
<1>6. granted => ~Q!LeadsOut(path)
  <2>1. path \in Paths
    BY Spelled
  <2> QED BY <2>1, ResolvedStaysIn
<1>7. granted => Q!Allowed(method, b, d) /\ (Q!RootRefused(method) => src # <<>>)
  OBVIOUS
<1>8. method \notin {"copy", "move"} => d = b
  BY <1>3
<1> DEFINE label == IF granted THEN Q!First(method) ELSE "answered"
<1> HIDE DEF granted, src, dst, b, d
<1>9. request' =
                 [at |-> label, method |-> method, from |-> Q!Home, to |-> to,
                  b |-> b, d |-> d, raw |-> path, src |-> src, dst |-> dst, hint |-> hint,
                  changes |-> {}, stale |-> {}, ok |-> FALSE]
  BY <1>3
<1>10. /\ label \in RequestLabels \ {"idle", "drop"}
       /\ granted => label \in RequestLabels \ {"placeholder", "answered"}
       /\ label = "mkdir" => method = "mkdir"
       /\ label # "answered" => granted
       /\ label # "placeholder"
  BY FirstIs DEF RequestLabels
<1> HIDE DEF label
<1>11. Fields(request') /\ ReqTypes' /\ Places'
  BY <1>4, <1>5, <1>9, <1>10, HomeIs DEF Fields, ReqTypes, Places
<1>12. granted => Granted(request')
  BY <1>6, <1>7, <1>8, <1>9, <1>10 DEF Granted
<1>13. Gated' /\ Honest(request)' /\ Unchanged' /\ Behind'
  BY <1>9, <1>10, <1>12 DEF Gated, Honest, Unchanged, Behind
<1> QED BY SMTT(40), <1>11, <1>13 DEF ReqInv

(* What makes a directory, and the file that stands for it.                *)
LEMMA MkdirGranted ==
    ASSUME ReqInv, request.at \in {"mkdir", "placeholder"}
    PROVE  ~request.d.readOnly /\ request.src # <<>> /\ request.from \in Connections
<1>1. Granted(request) /\ request.method = "mkdir" /\ request.from \in Connections
  BY DEF ReqInv, Gated, Granted, ReqTypes
<1> QED BY <1>1 DEF Granted, Q!Allowed, Q!Writable, Q!RootRefused

LEMMA MakesDirKeeps == ASSUME ReqInv, Q!MakesDir PROVE ReqInv'
<1> DEFINE c == request.from
           path == request.src
           made == tree[c].dirs \cup Q!Parents(path) \cup {path}
           t == [tree EXCEPT ![c].dirs = made]
<1>1. request.at = "mkdir"
  BY DEF Q!MakesDir, Q!At
<1>2. c \in Connections /\ ~request.d.readOnly /\ path # <<>> /\ Places
  BY <1>1, MkdirGranted DEF ReqInv
<1>3. CASE Q!Refuses
  BY <1>1, <1>3, Refuses
<1>4. CASE Q!To("placeholder") \/ Q!To("drop")
  BY <1>1, <1>4, GoesOn DEF RequestLabels
<1>5. CASE /\ (Q!Parents(path) \cup {path}) \cap tree[c].files = {}
           /\ Q!Changed(t, {Q!Change(c, path, "adds")}, [request EXCEPT !.at = "drop"])
  <2>1. <<>> \notin made /\ made \cap tree[c].files = {}
    BY <1>2, <1>5, ParentsAre DEF Places, Clean
  <2> HIDE DEF made
  <2>2. DOMAIN t = Connections /\ \A x \in Connections \ {c} : t[x] = tree[x]
    BY <1>2 DEF Places
  <2>3. t[c] = [files |-> tree[c].files, dirs |-> made]
    BY <1>2 DEF Places, Clean
  <2>4. Clean(t[c])
    BY <1>2, <2>1, <2>3 DEF Places, Clean
  <2>5. \A x \in Connections : Clean(t[x])
    BY <1>2, <2>2, <2>4 DEF Places
  <2> DEFINE changes == {Q!Change(c, path, "adds")}
  <2>6. \A x \in changes : x.how = "adds" /\ ~Bound(request, x.how).readOnly
    BY <1>2 DEF Q!Change, Bound
  <2>7. Q!Changed(t, changes, [request EXCEPT !.at = "drop"])
    BY <1>5 DEF made
  <2> HIDE DEF t, changes
  <2> QED BY <1>1, <2>2, <2>5, <2>6, <2>7, Did
<1> QED BY <1>3, <1>4, <1>5 DEF Q!MakesDir

LEMMA PlaceholderKeeps == ASSUME ReqInv, Q!PutsPlaceholder PROVE ReqInv'
<1> DEFINE c == request.from
           path == Q!Placeholder(request.src)
           t == [tree EXCEPT ![c] = Q!Plus(request.b, tree[c], path)]
           changes == {Q!Change(c, path, "adds")}
<1>1. request.at = "placeholder"
  BY DEF Q!PutsPlaceholder, Q!At
<1>2. c \in Connections /\ ~request.d.readOnly /\ Places
  BY <1>1, MkdirGranted DEF ReqInv
<1>3. CASE Q!To("drop")
  BY <1>1, <1>3, GoesOn DEF RequestLabels
<1>4. CASE Q!FreeFor(c, path) /\ Q!Changed(t, changes, [request EXCEPT !.at = "drop"])
  <2>1. DOMAIN t = Connections /\ \A x \in Connections : Clean(t[x])
    BY <1>2, <1>4, PutPlaces
  <2>2. \A x \in changes : x.how = "adds" /\ ~Bound(request, x.how).readOnly
    BY <1>2 DEF Q!Change, Bound
  <2> HIDE DEF t, changes
  <2> QED BY <1>1, <1>4, <2>1, <2>2, Did
<1> QED BY <1>3, <1>4 DEF Q!PutsPlaceholder

(* What only looks, or asks.                                               *)
LEMMA LooksKeeps ==
    ASSUME ReqInv, Q!Stats \/ Q!ListsDir \/ Q!Sizes \/ Q!Hashes \/ Q!Submits
    PROVE  ReqInv'
<1>1. request.at \in {"stat", "list", "size", "hash", "job"}
  BY DEF Q!Stats, Q!ListsDir, Q!Sizes, Q!Hashes, Q!Submits, Q!At
<1>2. Q!Refuses \/ \E label \in {"drop", "list", "act", "job", "hash"} : Q!To(label)
  <2>1. CASE Q!Stats
    <3> DEFINE kind == Q!Kind(request.from, request.src)
               method == request.method
    <3>1. CASE kind = "none" /\ method \in {"delete", "purge"}
      BY <2>1, <3>1 DEF Q!Stats
    <3>2. CASE kind = "none" /\ method \notin {"delete", "purge"}
      BY <2>1, <3>2 DEF Q!Stats
    <3>3. CASE kind # "none" /\ method = "rmdir"
      BY <2>1, <3>3 DEF Q!Stats
    <3>4. CASE kind # "none" /\ method \in {"delete", "purge"}
      BY <2>1, <3>4 DEF Q!Stats
    <3>5. CASE kind # "none" /\ method \notin {"rmdir", "delete", "purge"}
      BY <2>1, <3>5 DEF Q!Stats
    <3> QED BY <3>1, <3>2, <3>3, <3>4, <3>5
  <2>2. CASE Q!ListsDir
    BY <2>2 DEF Q!ListsDir
  <2>3. CASE Q!Sizes
    BY <2>3 DEF Q!Sizes
  <2>4. CASE Q!Hashes
    BY <2>4 DEF Q!Hashes
  <2>5. CASE Q!Submits
    BY <2>5 DEF Q!Submits
  <2> QED BY <2>1, <2>2, <2>3, <2>4, <2>5
<1>3. CASE Q!Refuses
  BY <1>1, <1>3, Refuses
<1>4. ASSUME NEW label \in {"drop", "list", "act", "job", "hash"}, Q!To(label)
      PROVE  ReqInv'
  BY <1>1, <1>4, GoesOn DEF RequestLabels
<1> QED BY <1>2, <1>3, <1>4

(* What rclone does with a request that has been granted.                  *)
LEMMA ActGranted ==
    ASSUME ReqInv, Q!At("act")
    PROVE  /\ request.at = "act" /\ request.from \in Connections /\ request.to \in Connections
           /\ Places /\ Granted(request)
BY DEF ReqInv, Gated, ReqTypes, Q!At

LEMMA RemovesKeeps == ASSUME ReqInv, Q!At("act"), Q!Removes PROVE ReqInv'
<1> DEFINE c == request.from
           paths == Q!Below(c, request.src) \cup {request.src}
           t == [tree EXCEPT ![c] = Q!Minus(request.b, tree[c], paths)]
           changes == {Q!Change(c, p, "takes") : p \in paths}
<1>1. /\ request.at = "act" /\ c \in Connections /\ Places /\ Granted(request)
      /\ request.method \in {"rmdir", "delete", "purge"}
  BY ActGranted DEF Q!Removes
<1>2. CASE Q!Refuses
  BY <1>1, <1>2, Refuses
<1>3. CASE Q!Changed(t, changes, [request EXCEPT !.at = "drop"])
  <2>1. DOMAIN t = Connections /\ \A x \in Connections : Clean(t[x])
    BY <1>1, TakePlaces DEF Places
  <2>2. ~request.b.readOnly /\ request.b.allowDelete /\ request.src # <<>>
    BY <1>1 DEF Granted, Q!Allowed, Q!Deletable, Q!RootRefused
  <2>3. <<>> \notin paths
    BY <1>1, <2>2 DEF Q!Below, Places, Clean
  <2>4. \A x \in changes : x.how = "takes" /\ x.path # <<>>
    BY <2>3 DEF Q!Change
  <2>5. Bound(request, "takes") = request.b
    BY DEF Bound
  <2> HIDE DEF t, changes, paths
  <2>6. \A x \in changes : /\ ~Bound(request, x.how).readOnly
                           /\ Bound(request, x.how).allowDelete /\ x.path # <<>>
    BY <2>2, <2>4, <2>5
  <2> QED BY <1>1, <1>3, <2>1, <2>6, Did
<1> QED BY <1>2, <1>3 DEF Q!Removes, Q!Done

LEMMA TransfersKeeps == ASSUME ReqInv, Q!At("act"), Q!Transfers PROVE ReqInv'
<1> DEFINE source == Q!SourceOf
           took == IF request.method = "copy" THEN {} ELSE {source}
           put == [tree EXCEPT ![request.to] = Q!Plus(request.d, tree[request.to], request.dst)]
           t == [put EXCEPT ![request.from] = Q!Minus(request.b, put[request.from], took)]
           changes == {Q!Change(request.to, request.dst, "adds")}
                         \cup {Q!Change(request.from, p, "takes") : p \in took}
<1>1. /\ request.at = "act" /\ request.from \in Connections /\ request.to \in Connections
      /\ Places /\ Granted(request)
      /\ request.method \in {"copy", "move", "rename"}
  BY ActGranted DEF Q!Transfers
<1>2. CASE Q!Refuses
  BY <1>1, <1>2, Refuses
<1>3. CASE /\ Q!Kind(request.from, source) = "file"
           /\ Q!FreeFor(request.to, request.dst)
           /\ Q!Changed(t, changes, [request EXCEPT !.at = "drop"])
  <2>1. DOMAIN put = Connections /\ \A x \in Connections : Clean(put[x])
    BY <1>1, <1>3, PutPlaces
  <2>2. source \in tree[request.from].files
    BY <1>3 DEF Q!Kind
  <2>3. source # <<>>
    BY <1>1, <2>2 DEF Places, Clean
  <2>4. ~request.d.readOnly
    BY <1>1 DEF Granted, Q!Allowed, Q!Writable
  <2>5. request.method # "copy" => ~request.b.readOnly /\ request.b.allowDelete
    BY <1>1 DEF Granted, Q!Allowed, Q!Deletable
  <2>6. \A x \in changes : \/ x.how = "adds"
                           \/ x.how = "takes" /\ x.path # <<>> /\ request.method # "copy"
    BY <2>3 DEF Q!Change
  <2>7. Bound(request, "takes") = request.b /\ Bound(request, "adds") = request.d
    BY DEF Bound
  <2> HIDE DEF put
  <2>8. DOMAIN t = Connections /\ \A x \in Connections : Clean(t[x])
    BY <1>1, <2>1, TakePlaces
  <2> HIDE DEF t, changes
  <2>9. \A x \in changes :
           /\ ~Bound(request, x.how).readOnly
           /\ x.how = "takes" => Bound(request, x.how).allowDelete /\ x.path # <<>>
    BY <2>4, <2>5, <2>6, <2>7
  <2> QED BY <1>1, <1>3, <2>8, <2>9, Did
<1> QED BY <1>2, <1>3 DEF Q!Transfers, Q!Done

LEMMA PutsKeeps == ASSUME ReqInv, Q!At("act"), Q!Puts PROVE ReqInv'
<1> DEFINE t == [tree EXCEPT ![request.to] = Q!Plus(request.d, tree[request.to], request.dst)]
           changes == {Q!Change(request.to, request.dst, "adds")}
<1>1. /\ request.at = "act" /\ request.to \in Connections /\ Places /\ Granted(request)
      /\ request.method \in {"hashsum", "copyurl"}
  BY ActGranted DEF Q!Puts, Q!PutsFile
<1>2. CASE Q!Refuses
  BY <1>1, <1>2, Refuses
<1>3. CASE /\ Q!FreeFor(request.to, request.dst)
           /\ Q!Changed(t, changes, [request EXCEPT !.at = "drop"])
  <2>1. DOMAIN t = Connections /\ \A x \in Connections : Clean(t[x])
    BY <1>1, <1>3, PutPlaces
  <2>2. ~request.d.readOnly
    BY <1>1 DEF Granted, Q!Allowed, Q!Writable
  <2>3. \A x \in changes : x.how = "adds" /\ ~Bound(request, x.how).readOnly
    BY <2>2 DEF Q!Change, Bound
  <2> HIDE DEF t, changes
  <2> QED BY <1>1, <1>3, <2>1, <2>3, Did
<1> QED BY <1>2, <1>3 DEF Q!Puts, Q!Done

LEMMA SweepsKeeps == ASSUME ReqInv, Q!At("act"), Q!Sweeps PROVE ReqInv'
<1> DEFINE c == request.from
           paths == Q!EmptyDirs(c, request.src)
           t == [tree EXCEPT ![c] = Q!Minus(request.b, tree[c], paths)]
           changes == {Q!Change(c, p, "takes") : p \in paths}
<1>1. /\ request.at = "act" /\ c \in Connections /\ Places /\ Granted(request)
  BY ActGranted
<1>2. CASE Q!To("drop")
  BY <1>1, <1>2, GoesOn DEF RequestLabels
<1>3. CASE request.method = "rmdirs" /\ Q!Changed(t, changes, [request EXCEPT !.at = "drop"])
  <2>1. DOMAIN t = Connections /\ \A x \in Connections : Clean(t[x])
    BY <1>1, TakePlaces DEF Places
  <2>2. ~request.b.readOnly /\ request.b.allowDelete
    BY <1>1, <1>3 DEF Granted, Q!Allowed, Q!Deletable
  <2>3. \A x \in changes : x.how = "takes"
    BY DEF Q!Change
  <2>4. Bound(request, "takes") = request.b
    BY DEF Bound
  <2> HIDE DEF t, changes, paths
  <2>5. \A x \in changes : ~Bound(request, x.how).readOnly /\ Bound(request, x.how).allowDelete
    BY <2>2, <2>3, <2>4
  <2> QED BY <1>1, <1>3, <2>1, <2>5, Did
<1> QED BY <1>2, <1>3 DEF Q!Sweeps, Q!Done

LEMMA LosesKeeps == ASSUME ReqInv, Q!Loses PROVE ReqInv'
<1>1. /\ request.at \in {"mkdir", "stat", "list", "size", "hash", "job", "act"}
      /\ request' = Q!Answer(FALSE) /\ UNCHANGED <<binding, tree, strangers>>
  BY DEF Q!Loses, Q!Goes
<1>2. requestFaults' \in 0..RequestFaults
  BY RequestAssumption DEF ReqInv, ReqTypes, Q!Loses
<1> QED BY <1>1, <1>2, Refused

LEMMA DropsKeeps == ASSUME ReqInv, Q!Drops PROVE ReqInv'
<1> DEFINE stale == request.stale \ Q!Dropped
<1>1. /\ Fields(request) /\ ReqTypes /\ Places /\ Gated /\ Honest(request) /\ Behind
      /\ request.at = "drop"
  BY DEF ReqInv, Q!Drops, Q!At
<1>2. UNCHANGED <<binding, tree, asked, requestFaults, strangers>>
  BY DEF Q!Drops
<1>3. request' =
          [at |-> "answered", method |-> request.method, from |-> request.from,
           to |-> request.to, b |-> request.b, d |-> request.d, raw |-> request.raw,
           src |-> request.src, dst |-> request.dst, hint |-> request.hint,
           changes |-> request.changes, stale |-> stale, ok |-> TRUE]
  BY <1>1 DEF Q!Drops, Q!Goes, Q!Answer, Fields
<1>4. request.method = "rmdirs" \/ stale = {}
  BY <1>1 DEF Behind
<1> HIDE DEF stale
<1>5. /\ Alike(request, request') /\ request'.at = "answered"
      /\ request'.changes = request.changes /\ request'.stale = stale
  BY <1>3 DEF Fields, Alike
<1>6. Granted(request')
  BY <1>1, <1>5, StaysGranted DEF Gated
<1>7. Fields(request') /\ ReqTypes' /\ Places'
  BY <1>1, <1>2, <1>5 DEF Alike, ReqTypes, RequestLabels, Places, Clean
<1>8. Honest(request)'
  BY <1>1, <1>5 DEF Alike, Honest, Bound
<1>9. Gated' /\ Unchanged' /\ Behind'
  BY <1>4, <1>5, <1>6 DEF Gated, Unchanged, Behind, Alike
<1> QED BY <1>7, <1>8, <1>9 DEF ReqInv

(* Meanwhile.                                                              *)
LEMMA MeanwhileKeeps ==
    ASSUME ReqInv, Q!Rebinds \/ Q!Remembers \/ Q!Meddles
    PROVE  ReqInv'
<1>1. /\ Fields(request) /\ ReqTypes /\ Places /\ Gated /\ Honest(request) /\ Unchanged /\ Behind
  BY DEF ReqInv
<1>2. UNCHANGED <<request, asked, requestFaults>> /\ strangers' \in 0..Strangers
  BY <1>1, RequestAssumption
     DEF Q!Rebinds, Q!Remembers, Q!Meddles, Q!Meanwhile, ReqTypes
<1>3. binding' \in [Connections -> Bindings]
  BY <1>1 DEF Q!Rebinds, Q!Remembers, Q!Meddles, ReqTypes
<1>4. Places'
  <2>1. CASE UNCHANGED tree
    BY <1>1, <2>1 DEF Places, Clean
  <2>2. CASE Q!Meddles
    <3>1. PICK c \in Connections :
             \/ \E f \in tree[c].files :
                   tree' = [tree EXCEPT ![c] = Q!Minus(binding[c], tree[c], {f})]
             \/ \E d \in tree[c].dirs :
                   /\ Q!FreeFor(c, Append(d, <<"new">>))
                   /\ tree' = [tree EXCEPT ![c] = Q!Plus(binding[c], tree[c], Append(d, <<"new">>))]
      BY <2>2 DEF Q!Meddles
    <3>2. ASSUME NEW f, tree' = [tree EXCEPT ![c] = Q!Minus(binding[c], tree[c], {f})]
          PROVE  Places'
      <4>1. DOMAIN tree = Connections /\ \A x \in Connections : Clean(tree[x])
        BY <1>1 DEF Places
      <4>2. \A t : t = [tree EXCEPT ![c] = Q!Minus(binding[c], tree[c], {f})] =>
                      DOMAIN t = Connections /\ \A x \in Connections : Clean(t[x])
        BY <4>1, TakePlaces
      <4>3. DOMAIN tree' = Connections /\ \A x \in Connections : Clean(tree'[x])
        BY <3>2, <4>2
      <4> QED BY <4>3 DEF Places, Clean
    <3>3. ASSUME NEW path, Q!FreeFor(c, path),
                 tree' = [tree EXCEPT ![c] = Q!Plus(binding[c], tree[c], path)]
          PROVE  Places'
      BY <1>1, <3>3, PutPlaces DEF Places
    <3> QED BY <3>1, <3>2, <3>3
  <2> QED BY <2>1, <2>2 DEF Q!Rebinds, Q!Remembers
<1>5. ReqTypes' /\ Gated' /\ Honest(request)' /\ Unchanged' /\ Behind' /\ Fields(request)'
  <2>1. Q!Dropped' = Q!Dropped
    BY <1>2 DEF Q!Dropped, Q!Around
  <2> QED BY <1>1, <1>2, <1>3, <2>1
          DEF ReqTypes, Gated, Granted, Honest, Bound, Unchanged, Behind, Fields
<1> QED BY <1>4, <1>5 DEF ReqInv

LEMMA RequestStep == ASSUME ReqInv, Q!RequestNext PROVE ReqInv'
<1>1. CASE Q!Acts
  BY <1>1, RemovesKeeps, TransfersKeeps, PutsKeeps, SweepsKeeps DEF Q!Acts
<1> QED BY <1>1, AsksKeepsReq, MakesDirKeeps, PlaceholderKeeps, LooksKeeps, LosesKeeps, DropsKeeps,
           MeanwhileKeeps DEF Q!RequestNext

LEMMA RequestStart == Q!RequestInit => ReqInv
<1> SUFFICES ASSUME Q!RequestInit PROVE ReqInv
  OBVIOUS
<1>1. Fields(request) /\ request.at = "idle" /\ request.changes = {} /\ request.stale = {}
      /\ ~request.ok /\ request.from = Q!Home /\ request.to = Q!Home
  BY DEF Q!RequestInit, Q!Rest, Fields
<1>2. ReqTypes
  BY <1>1, HomeIs, RequestAssumption DEF Q!RequestInit, ReqTypes, RequestLabels
<1>3. Places
  BY RequestAssumption DEF Q!RequestInit, Places, Clean
<1>4. Gated /\ Honest(request) /\ Unchanged /\ Behind
  BY <1>1 DEF Gated, Honest, Unchanged, Behind
<1> QED BY <1>1, <1>2, <1>3, <1>4 DEF ReqInv

LEMMA RequestMeans == ReqInv => Q!RequestTypeOK /\ ChangesAreAllowed
<1> SUFFICES ASSUME ReqInv PROVE Q!RequestTypeOK /\ ChangesAreAllowed
  OBVIOUS
<1>1. Q!RequestTypeOK
  BY DEF ReqInv, ReqTypes, RequestLabels, Places, Clean, Q!RequestTypeOK
<1>2. request.changes # {} => ~Q!LeadsOut(request.raw)
  BY DEF ReqInv, Gated, Unchanged, Granted
<1>3. Q!At("answered") /\ request.ok /\ request.method # "rmdirs" => request.stale = {}
  BY DEF ReqInv, Behind, Q!At
<1>4. \A c \in request.changes :
          LET bound == IF c.how = "adds" THEN request.d ELSE request.b
          IN /\ ~bound.readOnly
             /\ c.how = "takes" =>
                   bound.allowDelete /\ (c.path # <<>> \/ request.method = "rmdirs")
  BY DEF ReqInv, Honest, Bound
<1>5. ChangesAreAllowed
  BY <1>2, <1>3, <1>4 DEF ChangesAreAllowed, Q!ChangesAreAllowed
<1> QED BY <1>1, <1>5

------------------------------------------------------------------------------
(* What is read.                                                           *)
ReadFields(r) ==
    r = [at |-> r.at, kind |-> r.kind, width |-> r.width, page |-> r.page, size |-> r.size,
         tries |-> r.tries, got |-> r.got, cut |-> r.cut]
ReadLabels == {"idle", "list", "scan", "stat", "get", "done", "failed"}
ReadKinds == {"page", "cap", "dirs", "range", "prefix", "search"}

(* The inductive invariant: of what holds still, the pages that have been  *)
(* listed are its first entries, up to where the next one begins; and the  *)
(* windows that have been read are the file up to where the next begins.   *)
ReadTypes ==
    /\ items \in Directories /\ content \in Bodies /\ disturbed \in BOOLEAN
    /\ readFaults \in 0..ReadFaults
    /\ reading.at \in ReadLabels /\ reading.kind \in ReadKinds
    /\ reading.width \in Nat /\ reading.page \in Nat \ {0}
    /\ reading.tries \in Nat /\ reading.tries < Attempts
ReadRoutes ==
    /\ reading.at \in {"idle", "list", "scan", "stat", "get"} => reading.cut = FALSE
    /\ reading.at \in {"list", "scan"} => reading.kind \notin {"range", "prefix"}
    /\ reading.at \in {"stat", "get"} => reading.kind \in {"range", "prefix"}
Wide == D!Most(reading.width, 1)
PagedSoFar ==
    LET start == (reading.page - 1) * Wide
    IN reading.at = "list" /\ reading.kind = "page" =>
          start \in 0..Len(D!Listing) /\ reading.got = SubSeq(D!Listing, 1, start)
ReadSoFar ==
    reading.at \in {"stat", "get"} =>
        /\ content # None /\ reading.kind = "range" =>
              \E n \in 0..Len(content) : reading.got = SubSeq(content, 1, n)
        /\ reading.at = "get" => content # None /\ reading.size = Len(content)
ReadInv ==
    /\ ReadFields(reading) /\ ReadTypes /\ ReadRoutes
    /\ ~disturbed => PagedSoFar /\ ReadSoFar
    /\ WindowsAreWhole

(* Sequences of whatever they hold.                                        *)
IsSeq(s) == s \in Seq({s[i] : i \in DOMAIN s})

LEMMA ReadLists ==
    ASSUME NEW n \in Nat, NEW s, s = [i \in 1..n |-> s[i]]
    PROVE  IsSeq(s) /\ Len(s) = n
<1> DEFINE S == {s[i] : i \in DOMAIN s}
<1>1. DOMAIN s = 1..n
  OBVIOUS
<1>2. \A i \in 1..n : s[i] \in S
  BY <1>1
<1> HIDE DEF S
<1>3. s \in [1..n -> S]
  BY <1>2
<1>4. s \in Seq(S)
  BY <1>3
<1>5. Len(s) = n
  BY <1>1, <1>4, LenProperties
<1> QED BY <1>4, <1>5 DEF IsSeq, S

LEMMA SeqIs ==
    ASSUME NEW s, IsSeq(s)
    PROVE  Len(s) \in Nat /\ DOMAIN s = 1..Len(s) /\ (s # <<>> => Len(s) # 0)
<1> DEFINE S == {s[i] : i \in DOMAIN s}
<1>1. s \in Seq(S)
  BY DEF IsSeq
<1> HIDE DEF S
<1> QED BY <1>1, LenProperties, EmptySeq

(* A beginning of a sequence, and what is added to one.                    *)
LEMMA Beginning ==
    ASSUME NEW s, IsSeq(s), NEW n \in 0..Len(s)
    PROVE  /\ Len(SubSeq(s, 1, n)) = n
           /\ D!IsPrefix(SubSeq(s, 1, n), s)
           /\ n = Len(s) => SubSeq(s, 1, n) = s
           /\ n # 0 => SubSeq(s, 1, n) # <<>>
           /\ IsSeq(SubSeq(s, 1, n))
<1> DEFINE S == {s[i] : i \in DOMAIN s}
           t == SubSeq(s, 1, n)
<1>1. s \in Seq(S) /\ Len(s) \in Nat /\ n \in Int /\ 0 <= n /\ n <= Len(s)
  BY SeqIs DEF IsSeq
<1> HIDE DEF S
<1>2. \A i \in 1..n : s[i] \in S
  BY <1>1, ElementOfSeq
<1>3. t \in Seq(S) /\ Len(t) = IF 1 <= n THEN n - 1 + 1 ELSE 0
  BY <1>1, <1>2, SubSeqProperties
<1>4. Len(t) = n
  <2> DEFINE length == Len(t)
  <2>1. length = IF 1 <= n THEN n - 1 + 1 ELSE 0
    BY <1>3
  <2> HIDE DEF length
  <2>2. length = n
    BY <1>1, <2>1
  <2> QED BY <2>2 DEF length
<1>5. SubSeq(t, 1, Len(t)) = t
  BY <1>3, SubSeqFull
<1>6. D!IsPrefix(t, s)
  BY <1>1, <1>4, <1>5 DEF D!IsPrefix
<1>7. n = Len(s) => t = s
  BY <1>1, SubSeqFull
<1>8. n # 0 => t # <<>>
  BY <1>4, EmptySeq
<1>9. IsSeq(t)
  <2>1. t = [i \in 1..n |-> t[i]]
    BY <1>3, <1>4, LenProperties
  <2>2. n \in Nat
    BY <1>1
  <2> HIDE DEF t
  <2> QED BY <2>1, <2>2, ReadLists
<1> QED BY <1>4, <1>6, <1>7, <1>8, <1>9

LEMMA Further ==
    ASSUME NEW s, IsSeq(s), NEW k \in 0..Len(s), NEW n \in k..Len(s)
    PROVE  SubSeq(s, 1, k) \o SubSeq(s, k + 1, n) = SubSeq(s, 1, n)
<1> DEFINE S == {s[i] : i \in DOMAIN s}
<1>1. s \in Seq(S) /\ Len(s) \in Nat
  BY SeqIs DEF IsSeq
<1> HIDE DEF S
<1>2. 1 \in 1..(Len(s) + 1) /\ k \in (1 - 1)..Len(s)
  BY <1>1
<1> QED BY <1>1, <1>2, ConcatAdjacentSubSeq

(* What is picked from a sequence is one.                                  *)
LEMMA PickedIs ==
    ASSUME NEW s, IsSeq(s), NEW set
    PROVE  IsSeq(D!Picked(s, set))
<1> DEFINE S == {s[i] : i \in DOMAIN s}
           t == Picked(s, set)
<1>1. s \in Seq(S)
  BY DEF IsSeq
<1> HIDE DEF S
<1>2. t \in Seq(S)
  BY <1>1, PickedPlaces
<1>3. Len(t) \in Nat /\ t = [i \in 1..Len(t) |-> t[i]]
  BY <1>2, LenProperties
<1>4. D!Picked(s, set) = t
  BY DEF D!Picked, Picked
<1> HIDE DEF t
<1> QED BY <1>3, <1>4, ReadLists

LEMMA ItemsAre == ASSUME items \in Directories PROVE IsSeq(items)
BY ReadAssumption DEF IsSeq

LEMMA ListingIs == ASSUME items \in Directories PROVE IsSeq(D!Listing)
<1> DEFINE named == D!Picked(items, {item \in D!ToSet(items) : item.path # 0})
           n == Len(named)
<1>1. IsSeq(named)
  BY ItemsAre, PickedIs
<1>2. n \in Nat /\ DOMAIN named = 1..n
  BY <1>1, SeqIs
<1> HIDE DEF n
<1>3. DOMAIN D!Entries = 1..n
  BY <1>2 DEF D!Entries
<1>4. D!Listing = [i \in 1..n |-> D!Listing[i]]
  BY <1>3 DEF D!Listing
<1> QED BY <1>2, <1>4, ReadLists

LEMMA FoundIs == ASSUME items \in Directories PROVE IsSeq(D!Found)
<1> DEFINE hits == D!Picked(items, {item \in D!ToSet(items) : ~item.dir})
           n == Len(hits)
<1>1. IsSeq(hits)
  BY ItemsAre, PickedIs
<1>2. n \in Nat /\ DOMAIN hits = 1..n
  BY <1>1, SeqIs
<1> HIDE DEF n
<1>3. D!Found = [i \in 1..n |-> D!Found[i]]
  BY <1>2 DEF D!Found
<1> QED BY <1>2, <1>3, ReadLists

LEMMA DirectsAre == ASSUME items \in Directories PROVE IsSeq(D!Directs(D!Listing))
BY ListingIs, PickedIs DEF D!Directs

(* A listing is cut where it has to be, but not before its first entry.    *)
LEMMA HeadIs ==
    ASSUME NEW entries, IsSeq(entries)
    PROVE  \E n \in 0..Len(entries) :
              D!Head_(entries) = SubSeq(entries, 1, n) /\ (entries # <<>> => n # 0)
<1> DEFINE N == Len(entries)
           S == {n \in 0..N : D!Fits(entries, n)}
           Cuts(n) == D!Fits(entries, n) /\ (n = N \/ ~D!Fits(entries, n + 1))
           at == CHOOSE n \in 0..N : Cuts(n)
<1>1. N \in Nat /\ (entries # <<>> => N # 0)
  BY SeqIs
<1>2. MaxListed \in Nat /\ MaxListed >= 1
  BY ReadAssumption
<1>3. D!Fits(entries, 0) /\ D!Fits(entries, 1)
  BY <1>2 DEF D!Fits
<1>4. D!Head_(entries) = SubSeq(entries, 1, at)
  BY DEF D!Head_
<1> HIDE DEF N
<1>5. \E n \in 0..N : Cuts(n)
  <2> SUFFICES ASSUME \A n \in 0..N : ~Cuts(n) PROVE FALSE
    OBVIOUS
  <2>1. 0 \in S
    BY <1>1, <1>3
  <2>2. ASSUME NEW n \in 1..N, n - 1 \in S PROVE n \in S
    <3>1. n - 1 \in 0..N /\ n - 1 # N /\ (n - 1) + 1 = n /\ n \in 0..N
      BY <1>1
    <3>2. D!Fits(entries, n - 1)
      BY <2>2
    <3>3. ~Cuts(n - 1)
      BY <3>1
    <3> QED BY <3>1, <3>2, <3>3
  <2>3. 0..N \subseteq S
    <3> HIDE DEF S
    <3> QED BY <1>1, <2>1, <2>2, Through
  <2>4. N \in 0..N /\ D!Fits(entries, N)
    BY <1>1, <2>3
  <2> QED BY <2>4
<1>6. at \in 0..N /\ Cuts(at)
  <2> HIDE DEF Cuts
  <2> QED BY <1>5
<1> HIDE DEF at
<1>7. entries # <<>> => at # 0
  <2>1. 0 + 1 = 1
    OBVIOUS
  <2> QED BY <1>1, <1>3, <1>6, <2>1
<1> QED BY <1>4, <1>6, <1>7 DEF N

------------------------------------------------------------------------------
(* What an answer is held against.                                         *)
AllOf(kind) ==
    CASE kind \in {"page", "cap"} -> D!Listing
      [] kind = "dirs" -> D!Directs(D!Listing)
      [] kind = "search" -> D!Found
      [] OTHER -> content
All == AllOf(reading.kind)
Right(kind, all, got, cut) ==
    /\ D!IsPrefix(got, all)
    /\ cut <=> Len(got) < Len(all)
    /\ kind \in {"page", "range"} => ~cut
    /\ all # <<>> => got # <<>>
IsWhole ==
    reading.at = "done" /\ ~disturbed => Right(reading.kind, All, reading.got, reading.cut)

LEMMA AllIs ==
    /\ AllOf("page") = D!Listing /\ AllOf("cap") = D!Listing
    /\ AllOf("dirs") = D!Directs(D!Listing)
    /\ AllOf("search") = D!Found
    /\ AllOf("range") = content /\ AllOf("prefix") = content
BY DEF AllOf

LEMMA WholeIs == WindowsAreWhole <=> IsWhole
<1> DEFINE all == CASE reading.kind \in {"page", "cap"} -> D!Listing
                    [] reading.kind = "dirs" -> D!Directs(D!Listing)
                    [] reading.kind = "search" -> D!Found
                    [] OTHER -> content
<1>1. all = All
  BY DEF All, AllOf
<1>2. WindowsAreWhole <=>
          (reading.at = "done" /\ ~disturbed =>
              /\ D!IsPrefix(reading.got, all)
              /\ reading.cut <=> Len(reading.got) < Len(all)
              /\ reading.kind \in {"page", "range"} => ~reading.cut
              /\ all # <<>> => reading.got # <<>>)
  BY DEF WindowsAreWhole, D!WindowsAreWhole
<1> HIDE DEF all
<1> QED BY <1>1, <1>2 DEF Right, IsWhole

LEMMA StillThere ==
    ASSUME UNCHANGED <<items, content>>
    PROVE  /\ D!Listing' = D!Listing
           /\ reading'.kind = reading.kind => All' = All
<1>1. D!Listing' = D!Listing /\ D!Found' = D!Found
  BY DEF D!Listing, D!Entries, D!Found
<1> QED BY <1>1 DEF All, AllOf, D!Directs

(* What a step makes of what is read.                                      *)
LEMMA ReadMoves ==
    ASSUME NEW r, ReadFields(r), NEW label, NEW n, n = [r EXCEPT !.at = label]
    PROVE  /\ ReadFields(n) /\ n.at = label /\ n.kind = r.kind /\ n.width = r.width
           /\ n.page = r.page /\ n.size = r.size /\ n.tries = r.tries /\ n.got = r.got
           /\ n.cut = r.cut
BY DEF ReadFields

LEMMA ReadFails ==
    ASSUME ReadInv, reading' = [reading EXCEPT !.at = "failed"],
           UNCHANGED <<items, content, disturbed>>, readFaults' \in 0..ReadFaults
    PROVE  ReadInv'
<1>1. ReadFields(reading) /\ ReadTypes
  BY DEF ReadInv
<1>2. /\ ReadFields(reading') /\ reading'.at = "failed" /\ reading'.kind = reading.kind
      /\ reading'.width = reading.width /\ reading'.page = reading.page
      /\ reading'.tries = reading.tries
  BY <1>1, ReadMoves
<1>3. ReadFields(reading)' /\ ReadTypes' /\ ReadRoutes'
  BY <1>1, <1>2 DEF ReadTypes, ReadRoutes, ReadFields, ReadLabels
<1>4. PagedSoFar' /\ ReadSoFar'
  BY <1>2 DEF PagedSoFar, ReadSoFar
<1>5. WindowsAreWhole'
  BY <1>2 DEF WindowsAreWhole, D!WindowsAreWhole
<1> QED BY <1>3, <1>4, <1>5 DEF ReadInv

LEMMA ReadRefuses == ASSUME ReadInv, D!Refuses PROVE ReadInv'
<1>1. /\ reading' = [reading EXCEPT !.at = "failed"]
      /\ UNCHANGED <<items, content, disturbed, readFaults>>
  BY DEF D!Refuses, D!Goes
<1>2. readFaults' \in 0..ReadFaults
  BY <1>1 DEF ReadInv, ReadTypes
<1> QED BY <1>1, <1>2, ReadFails

LEMMA ReadEnds ==
    ASSUME ReadInv, NEW got, NEW cut, D!Ends(got, cut),
           ~disturbed => Right(reading.kind, All, got, cut)
    PROVE  ReadInv'
<1>1. ReadFields(reading) /\ ReadTypes
  BY DEF ReadInv
<1>2. /\ reading' = [reading EXCEPT !.at = "done", !.got = got, !.cut = cut]
      /\ UNCHANGED <<items, content, disturbed, readFaults>>
  BY DEF D!Ends, D!Goes
<1>3. reading' = [at |-> "done", kind |-> reading.kind, width |-> reading.width,
                  page |-> reading.page, size |-> reading.size, tries |-> reading.tries,
                  got |-> got, cut |-> cut]
  BY <1>1, <1>2 DEF ReadFields
<1>4. ReadFields(reading)' /\ ReadTypes' /\ ReadRoutes'
  BY <1>1, <1>2, <1>3 DEF ReadTypes, ReadRoutes, ReadFields, ReadLabels
<1>5. PagedSoFar' /\ ReadSoFar'
  BY <1>3 DEF PagedSoFar, ReadSoFar
<1>6. IsWhole'
  BY <1>2, <1>3, StillThere DEF IsWhole
<1>7. WindowsAreWhole'
  BY <1>6, WholeIs, PTL
<1> QED BY <1>4, <1>5, <1>7 DEF ReadInv

------------------------------------------------------------------------------
(* The steps.                                                              *)
LEMMA NoPage == \A width \in Nat : (1 - 1) * width = 0
OBVIOUS

LEMMA ReadBeginsKeeps == ASSUME ReadInv, D!Begins PROVE ReadInv'
<1>1. PICK kind \in ReadKinds, width \in Widths :
         D!Goes([D!Calm EXCEPT !.at = IF kind \in {"range", "prefix"} THEN "stat"
                                      ELSE IF kind = "search" THEN "scan" ELSE "list",
                               !.kind = kind, !.width = width])
  BY DEF D!Begins, ReadKinds
<1> DEFINE label == IF kind \in {"range", "prefix"} THEN "stat"
                    ELSE IF kind = "search" THEN "scan" ELSE "list"
<1>2. UNCHANGED <<items, content, disturbed, readFaults>> /\ ReadTypes
  BY <1>1 DEF D!Goes, ReadInv
<1>3. reading' = [at |-> label, kind |-> kind, width |-> width, page |-> 1, size |-> 0,
                  tries |-> 0, got |-> <<>>, cut |-> FALSE]
  BY <1>1 DEF D!Goes, D!Calm
<1>4. /\ label \in {"stat", "scan", "list"}
      /\ label = "stat" => kind \in {"range", "prefix"}
      /\ label \in {"scan", "list"} => kind \notin {"range", "prefix"}
  OBVIOUS
<1> HIDE DEF label
<1>5. ReadFields(reading)' /\ ReadTypes' /\ ReadRoutes'
  BY <1>2, <1>3, <1>4, ReadAssumption DEF ReadTypes, ReadRoutes, ReadFields, ReadLabels
<1>6. PagedSoFar'
  <2>1. IsSeq(D!Listing)' /\ D!Listing' = D!Listing
    BY <1>2, ListingIs, StillThere DEF ReadTypes
  <2>2. Len(D!Listing) \in Nat /\ SubSeq(D!Listing, 1, 0) = <<>>
    <3>1. IsSeq(D!Listing)
      BY <1>2, ListingIs DEF ReadTypes
    <3> QED BY <3>1, SeqIs, SubSeqEmpty
  <2>3. Wide' \in Nat
    BY <1>3, ReadAssumption DEF Wide, D!Most
  <2>4. (1 - 1) * Wide' = 0
    BY <2>3, NoPage
  <2> QED BY <1>3, <2>1, <2>2, <2>4 DEF PagedSoFar
<1>7. ReadSoFar'
  <2>1. content # None => 0 \in 0..Len(content) /\ SubSeq(content, 1, 0) = <<>>
    <3>1. content # None => IsSeq(content)
      BY <1>2, ReadAssumption DEF ReadTypes, IsSeq
    <3> QED BY <3>1, SeqIs, SubSeqEmpty
  <2> QED BY <1>2, <1>3, <1>4, <2>1 DEF ReadSoFar
<1>8. WindowsAreWhole'
  BY <1>3, <1>4 DEF WindowsAreWhole, D!WindowsAreWhole
<1> QED BY <1>5, <1>6, <1>7, <1>8 DEF ReadInv

(* Pages.                                                                  *)
LEMMA NextPage ==
    \A page \in Nat \ {0}, width \in Nat \ {0} :
        /\ page - 1 \in Nat /\ (page - 1) * width \in Nat
        /\ (page - 1) * width + width = page * width
        /\ page * width \in Nat
        /\ (page + 1) - 1 = page
OBVIOUS

LEMMA ListsPageKeeps == ASSUME ReadInv, D!ListsPage PROVE ReadInv'
<1> DEFINE total == Len(D!Listing)
           start == (reading.page - 1) * Wide
           next == reading.page * Wide
           bounds == D!PageWindow(total, reading.page, reading.width)
           got == reading.got \o SubSeq(D!Listing, bounds[1], bounds[2])
<1>1. /\ reading.at = "list" /\ reading.kind = "page" /\ ReadFields(reading) /\ ReadTypes
      /\ ~disturbed => PagedSoFar
  BY DEF D!ListsPage, D!Is, ReadInv
<1>2. reading.page \in Nat \ {0} /\ Wide \in Nat \ {0}
  BY <1>1 DEF ReadTypes, Wide, D!Most
<1>3. /\ start \in Nat /\ start + Wide = next /\ next \in Nat
      /\ reading.page - 1 \in Nat
  BY <1>2, NextPage
<1>4. IsSeq(D!Listing)
  BY <1>1, ListingIs DEF ReadTypes
<1>5. total \in Nat
  BY <1>4, SeqIs
<1>6. bounds = <<D!Least(start, total) + 1, D!Least(D!Least(start, total) + Wide, total)>>
  <2>1. D!Most(reading.page - 1, 0) = reading.page - 1
    BY <1>3 DEF D!Most
  <2> QED BY <2>1 DEF D!PageWindow, Wide
<1>7. ~disturbed => start \in 0..total /\ reading.got = SubSeq(D!Listing, 1, start)
  BY <1>1 DEF PagedSoFar
<1> DEFINE end == D!Least(next, total)
<1> HIDE DEF total, start, next, bounds
<1>8. ASSUME ~disturbed
      PROVE  end \in start..total /\ got = SubSeq(D!Listing, 1, end)
  <2>1. D!Least(start, total) = start
    BY <1>5, <1>7, <1>8 DEF D!Least
  <2>2. bounds = <<start + 1, end>>
    BY <1>3, <1>6, <2>1
  <2>3. end \in start..total
    BY <1>2, <1>3, <1>5, <1>7, <1>8 DEF D!Least
  <2> HIDE DEF end
  <2>4. got = SubSeq(D!Listing, 1, start) \o SubSeq(D!Listing, start + 1, end)
    BY <1>7, <1>8, <2>2
  <2>5. start \in 0..Len(D!Listing) /\ end \in start..Len(D!Listing)
    BY <1>7, <1>8, <2>3 DEF total
  <2> QED BY <1>4, <2>3, <2>4, <2>5, Further
<1>9. CASE D!Refuses
  BY <1>9, ReadRefuses
<1>10. CASE next >= total /\ D!Ends(got, FALSE)
  <2>1. ASSUME ~disturbed PROVE Right(reading.kind, All, got, FALSE)
    <3>1. end = total
      BY <1>3, <1>5, <1>10 DEF D!Least
    <3>3. total \in 0..Len(D!Listing) /\ total = Len(D!Listing)
      BY <1>5 DEF total
    <3>7. got = SubSeq(D!Listing, 1, total)
      BY <1>8, <2>1, <3>1
    <3>2. got = D!Listing
      <4> HIDE DEF got
      <4> QED BY <1>4, <3>3, <3>7, Beginning
    <3>4. D!IsPrefix(D!Listing, D!Listing)
      BY <1>4, <3>3, Beginning DEF total
    <3>5. All = D!Listing
      BY <1>1, AllIs DEF All
    <3>6. ~(Len(D!Listing) < Len(D!Listing))
      BY <1>5 DEF total
    <3> HIDE DEF got
    <3> QED BY <1>1, <3>2, <3>4, <3>5, <3>6 DEF Right
  <2> HIDE DEF got
  <2> QED BY <1>10, <2>1, ReadEnds
<1>11. CASE /\ ~(next >= total)
            /\ D!Goes([reading EXCEPT !.page = reading.page + 1, !.got = got])
  <2>0. UNCHANGED <<items, content, disturbed, readFaults>>
    BY <1>11 DEF D!Goes
  <2> HIDE DEF got, end
  <2>1. reading' = [at |-> "list", kind |-> "page", width |-> reading.width,
                    page |-> reading.page + 1, size |-> reading.size, tries |-> reading.tries,
                    got |-> got, cut |-> reading.cut]
    BY <1>1, <1>11 DEF D!Goes, ReadFields
  <2>2. ReadFields(reading)' /\ ReadTypes' /\ ReadRoutes'
    BY <1>1, <1>2, <2>0, <2>1 DEF ReadInv, ReadTypes, ReadRoutes, ReadFields, ReadLabels
  <2>3. ~disturbed' => PagedSoFar'
    <3> SUFFICES ASSUME ~disturbed PROVE PagedSoFar'
      BY <2>0
    <3>1. end = next
      BY <1>3, <1>5, <1>11 DEF end, D!Least
    <3>2. next \in 0..total /\ got = SubSeq(D!Listing, 1, next)
      BY <1>3, <1>5, <1>8, <1>11, <3>1
    <3>3. D!Listing' = D!Listing /\ Wide' = Wide
      BY <2>0, <2>1, StillThere DEF Wide
    <3>4. (reading'.page - 1) * Wide' = next
      <4>1. reading'.page - 1 = reading.page
        BY <1>2, <2>1
      <4> QED BY <3>3, <4>1 DEF next
    <3> QED BY <2>1, <3>2, <3>3, <3>4 DEF PagedSoFar, total
  <2>4. ReadSoFar'
    BY <2>1 DEF ReadSoFar
  <2>5. WindowsAreWhole'
    BY <2>1 DEF WindowsAreWhole, D!WindowsAreWhole
  <2> QED BY <2>2, <2>3, <2>4, <2>5 DEF ReadInv
<1>12. \/ D!Refuses
       \/ next >= total /\ D!Ends(got, FALSE)
       \/ ~(next >= total) /\ D!Goes([reading EXCEPT !.page = reading.page + 1, !.got = got])
  BY DEF D!ListsPage, Wide, total, next, bounds
<1> QED BY <1>9, <1>10, <1>11, <1>12

(* Listings that are cut, and searches.                                    *)
LEMMA CappedIsRight ==
    ASSUME NEW entries, IsSeq(entries), NEW kind, kind \notin {"page", "range"}
    PROVE  Right(kind, entries, D!Head_(entries), Len(D!Head_(entries)) < Len(entries))
<1>1. PICK n \in 0..Len(entries) :
         D!Head_(entries) = SubSeq(entries, 1, n) /\ (entries # <<>> => n # 0)
  BY HeadIs
<1> DEFINE head == D!Head_(entries)
<1>2. /\ Len(head) = n /\ D!IsPrefix(head, entries)
      /\ n # 0 => head # <<>>
  <2>1. /\ Len(SubSeq(entries, 1, n)) = n /\ D!IsPrefix(SubSeq(entries, 1, n), entries)
        /\ n # 0 => SubSeq(entries, 1, n) # <<>>
    BY Beginning
  <2>2. head = SubSeq(entries, 1, n)
    BY <1>1
  <2> HIDE DEF head
  <2> QED BY <2>1, <2>2
<1>3. Len(entries) \in Nat
  BY SeqIs
<1> HIDE DEF head
<1>4. head # <<>> \/ entries = <<>>
  BY <1>1, <1>2
<1>5. Right(kind, entries, head, Len(head) < Len(entries))
  BY <1>2, <1>3, <1>4 DEF Right
<1> QED BY <1>5 DEF head

LEMMA ListsKeeps_ ==
    ASSUME ReadInv, D!ListsCapped \/ D!ListsDirs
    PROVE  ReadInv'
<1>0. ReadTypes
  BY DEF ReadInv
<1>1. CASE D!ListsCapped
  <2>1. reading.kind = "cap" /\ D!Ends(D!Head_(D!Listing), Len(D!Head_(D!Listing)) < Len(D!Listing))
    BY <1>1 DEF D!ListsCapped, D!Is, D!Capped
  <2>2. IsSeq(D!Listing) /\ All = D!Listing
    BY <1>0, <2>1, ListingIs, AllIs DEF All, ReadTypes
  <2>3. Right(reading.kind, All, D!Head_(D!Listing), Len(D!Head_(D!Listing)) < Len(D!Listing))
    BY <2>1, <2>2, CappedIsRight
  <2> QED BY <2>1, <2>3, ReadEnds
<1>2. CASE D!ListsDirs
  <2> DEFINE entries == D!Directs(D!Listing)
  <2>1. reading.kind = "dirs" /\ D!Ends(D!Head_(entries), Len(D!Head_(entries)) < Len(entries))
    BY <1>2 DEF D!ListsDirs, D!Is, D!Capped
  <2>2. IsSeq(entries) /\ All = entries
    BY <1>0, <2>1, DirectsAre, AllIs DEF All, ReadTypes
  <2> HIDE DEF entries
  <2>3. Right(reading.kind, All, D!Head_(entries), Len(D!Head_(entries)) < Len(entries))
    BY <2>1, <2>2, CappedIsRight
  <2> QED BY <2>1, <2>3, ReadEnds
<1> QED BY <1>1, <1>2

LEMMA ScansKeeps == ASSUME ReadInv, D!Scans PROVE ReadInv'
<1>1. /\ reading.at = "scan" /\ reading.kind = "search" /\ ReadFields(reading) /\ ReadTypes
      /\ ReadRoutes
  BY DEF D!Scans, D!Is, ReadInv
<1>2. CASE D!Refuses
  BY <1>2, ReadRefuses
<1>3. CASE D!Goes([reading EXCEPT !.at = "list"])
  <2>1. /\ reading' = [reading EXCEPT !.at = "list"]
        /\ UNCHANGED <<items, content, disturbed, readFaults>>
    BY <1>3 DEF D!Goes
  <2>2. /\ ReadFields(reading') /\ reading'.at = "list" /\ reading'.kind = "search"
        /\ reading'.width = reading.width /\ reading'.page = reading.page
        /\ reading'.tries = reading.tries /\ reading'.cut = reading.cut
    BY <1>1, <2>1, ReadMoves
  <2>3. ReadFields(reading)' /\ ReadTypes' /\ ReadRoutes'
    BY <1>1, <2>1, <2>2 DEF ReadTypes, ReadRoutes, ReadFields, ReadLabels
  <2>4. PagedSoFar' /\ ReadSoFar' /\ WindowsAreWhole'
    BY <2>2 DEF PagedSoFar, ReadSoFar, WindowsAreWhole, D!WindowsAreWhole
  <2> QED BY <2>3, <2>4 DEF ReadInv
<1> QED BY <1>2, <1>3 DEF D!Scans

LEMMA SearchesKeeps == ASSUME ReadInv, D!Searches PROVE ReadInv'
<1> DEFINE limit == D!Most(reading.width, 1)
           found == D!Found
           n == D!Least(limit, Len(found))
<1>1. /\ reading.kind = "search" /\ ReadTypes
      /\ D!Ends(SubSeq(found, 1, n), Len(found) > limit)
  BY DEF D!Searches, D!Is, ReadInv
<1>2. IsSeq(found) /\ All = found
  BY <1>1, FoundIs, AllIs DEF All, ReadTypes
<1>3. limit \in Nat \ {0}
  BY <1>1 DEF ReadTypes, D!Most
<1>4. Len(found) \in Nat /\ (found # <<>> => Len(found) # 0)
  BY <1>2, SeqIs
<1> HIDE DEF limit, found
<1>5. /\ n \in 0..Len(found)
      /\ Len(found) > limit <=> n < Len(found)
      /\ Len(found) # 0 => n # 0
  BY <1>3, <1>4 DEF D!Least
<1> HIDE DEF n
<1>6. /\ Len(SubSeq(found, 1, n)) = n /\ D!IsPrefix(SubSeq(found, 1, n), found)
      /\ n # 0 => SubSeq(found, 1, n) # <<>>
  BY <1>2, <1>5, Beginning
<1>7. Right(reading.kind, All, SubSeq(found, 1, n), Len(found) > limit)
  BY <1>1, <1>2, <1>4, <1>5, <1>6 DEF Right
<1> QED BY <1>1, <1>7, ReadEnds

------------------------------------------------------------------------------
(* Files.                                                                  *)
LEMMA ContentIs == ASSUME content \in Bodies, content # None PROVE IsSeq(content)
BY ReadAssumption DEF IsSeq

(* One that is read goes on where the last window ended.                   *)
LEMMA ReadContinues ==
    ASSUME ReadInv, NEW label \in {"stat", "get"}, NEW size, NEW tries, NEW got,
           reading.at \in {"stat", "get"},
           reading' = [at |-> label, kind |-> reading.kind, width |-> reading.width,
                       page |-> reading.page, size |-> size, tries |-> tries,
                       got |-> got, cut |-> FALSE],
           UNCHANGED <<items, content, disturbed>>, readFaults' \in 0..ReadFaults,
           tries \in Nat, tries < Attempts,
           ~disturbed /\ label = "get" => content # None /\ size = Len(content),
           ~disturbed /\ content # None /\ reading.kind = "range" =>
              \E k \in 0..Len(content) : got = SubSeq(content, 1, k)
    PROVE  ReadInv'
<1>1. ReadTypes /\ ReadRoutes
  BY DEF ReadInv
<1>2. ReadFields(reading)' /\ ReadTypes' /\ ReadRoutes'
  BY <1>1 DEF ReadTypes, ReadRoutes, ReadFields, ReadLabels
<1>3. PagedSoFar' /\ WindowsAreWhole'
  BY DEF PagedSoFar, WindowsAreWhole, D!WindowsAreWhole
<1>4. ~disturbed' => ReadSoFar'
  BY DEF ReadSoFar
<1> QED BY <1>2, <1>3, <1>4 DEF ReadInv

LEMMA AtFile ==
    ASSUME ReadInv, reading.at \in {"stat", "get"}
    PROVE  /\ ReadFields(reading) /\ ReadTypes /\ reading.cut = FALSE
           /\ reading.kind \in {"range", "prefix"} /\ (ReadSoFar \/ disturbed)
           /\ content # None => IsSeq(content) /\ Len(content) \in Nat
           /\ All = content
<1>1. /\ ReadFields(reading) /\ ReadTypes /\ reading.cut = FALSE
      /\ reading.kind \in {"range", "prefix"}
      /\ ReadSoFar \/ disturbed
  BY DEF ReadInv, ReadRoutes, ReadTypes
<1>2. content # None => IsSeq(content) /\ Len(content) \in Nat
  BY <1>1, ContentIs, SeqIs DEF ReadTypes
<1>3. All = content
  BY <1>1, AllIs DEF All
<1> QED BY <1>1, <1>2, <1>3

LEMMA MissesKeeps == ASSUME ReadInv, D!Misses PROVE ReadInv'
<1>1. reading.at = "stat" /\ UNCHANGED <<items, content, disturbed>>
  BY DEF D!Misses
<1>2. readFaults' \in 0..ReadFaults
  BY ReadAssumption DEF D!Misses, ReadInv, ReadTypes
<1>3. CASE reading' = [reading EXCEPT !.at = "failed"]
  BY <1>1, <1>2, <1>3, ReadFails
<1>4. CASE /\ reading.kind = "prefix" /\ reading.tries + 1 < Attempts
           /\ reading' = [reading EXCEPT !.tries = reading.tries + 1]
  <2>1. ReadFields(reading) /\ ReadTypes /\ reading.cut = FALSE
    BY <1>1, AtFile
  <2>2. reading' = [at |-> "stat", kind |-> reading.kind, width |-> reading.width,
                    page |-> reading.page, size |-> reading.size, tries |-> reading.tries + 1,
                    got |-> reading.got, cut |-> FALSE]
    BY <1>1, <1>4, <2>1 DEF ReadFields
  <2>3. reading.tries + 1 \in Nat
    BY <2>1 DEF ReadTypes
  <2>4. reading.tries + 1 < Attempts /\ reading.kind # "range" /\ "stat" # "get"
    BY <1>4
  <2> DEFINE tries == reading.tries + 1
             size == reading.size
             got == reading.got
  <2>5. /\ reading' = [at |-> "stat", kind |-> reading.kind, width |-> reading.width,
                       page |-> reading.page, size |-> size, tries |-> tries,
                       got |-> got, cut |-> FALSE]
        /\ tries \in Nat /\ tries < Attempts
    BY <2>2, <2>3, <2>4
  <2> HIDE DEF tries, size, got
  <2> QED BY <1>1, <1>2, <2>4, <2>5, ReadContinues
<1> QED BY <1>3, <1>4 DEF D!Misses

(* All of a file is read when as much of it is as there is.                *)
LEMMA AllIsRead ==
    ASSUME NEW all, IsSeq(all), NEW n \in 0..Len(all), n >= Len(all)
    PROVE  SubSeq(all, 1, n) = all /\ Right("range", all, SubSeq(all, 1, n), FALSE)
<1>1. Len(all) \in Nat /\ n = Len(all)
  BY SeqIs
<1>2. SubSeq(all, 1, n) = all /\ D!IsPrefix(SubSeq(all, 1, n), all)
  BY <1>1, Beginning
<1> QED BY <1>1, <1>2 DEF Right

LEMMA StatsKeeps == ASSUME ReadInv, D!StatsFile PROVE ReadInv'
<1>1. reading.at = "stat"
  BY DEF D!StatsFile
<1>2. /\ ReadFields(reading) /\ ReadTypes /\ reading.cut = FALSE
      /\ reading.kind \in {"range", "prefix"} /\ (ReadSoFar \/ disturbed)
      /\ content # None => IsSeq(content) /\ Len(content) \in Nat
      /\ All = content
  BY <1>1, AtFile
<1>3. CASE D!Refuses
  BY <1>3, ReadRefuses
<1>4. CASE /\ content # None /\ reading.kind = "range" /\ Len(reading.got) >= Len(content)
           /\ D!Ends(reading.got, FALSE)
  <2>1. ASSUME ~disturbed PROVE Right(reading.kind, All, reading.got, FALSE)
    <3>1. PICK n \in 0..Len(content) : reading.got = SubSeq(content, 1, n)
      BY <1>1, <1>2, <1>4, <2>1 DEF ReadSoFar
    <3>2. Len(reading.got) = n
      BY <1>2, <1>4, <3>1, Beginning
    <3>3. n >= Len(content)
      BY <1>4, <3>2
    <3> QED BY <1>2, <1>4, <3>1, <3>3, AllIsRead
  <2> QED BY <1>4, <2>1, ReadEnds
<1>5. CASE /\ content # None
           /\ D!Goes([reading EXCEPT !.at = "get", !.size = Len(content)])
  <2> DEFINE size == Len(content)
  <2>1. UNCHANGED <<items, content, disturbed, readFaults>> /\ readFaults' \in 0..ReadFaults
    BY <1>2, <1>5 DEF D!Goes, ReadTypes
  <2>2. reading' = [at |-> "get", kind |-> reading.kind, width |-> reading.width,
                    page |-> reading.page, size |-> size, tries |-> reading.tries,
                    got |-> reading.got, cut |-> FALSE]
    BY <1>2, <1>5 DEF D!Goes, ReadFields
  <2>3. ~disturbed /\ content # None /\ reading.kind = "range" =>
           \E k \in 0..Len(content) : reading.got = SubSeq(content, 1, k)
    BY <1>1, <1>2 DEF ReadSoFar
  <2>4. reading.tries \in Nat /\ reading.tries < Attempts
    BY <1>2 DEF ReadTypes
  <2>5. size = Len(content)
    OBVIOUS
  <2> HIDE DEF size
  <2> QED BY <1>1, <1>5, <2>1, <2>2, <2>3, <2>4, <2>5, ReadContinues
<1> QED BY <1>3, <1>4, <1>5 DEF D!StatsFile

LEMMA PrefixKeeps == ASSUME ReadInv, D!GetsPrefix PROVE ReadInv'
<1> DEFINE most == D!Least(D!Most(reading.width, 1), MaxPreview)
           size == Len(content)
           last == D!Least(most + 1, size)
           body == D!Bytes(0, most)
           n == D!Least(most, Len(body))
<1>1. reading.at = "get" /\ reading.kind = "prefix"
  BY DEF D!GetsPrefix, D!Is
<1>2. /\ ReadTypes /\ All = content
      /\ content # None => IsSeq(content) /\ size \in Nat
  BY <1>1, AtFile
<1>3. CASE D!Refuses
  BY <1>3, ReadRefuses
<1>4. CASE content # None /\ D!Ends(SubSeq(body, 1, n), Len(body) > most)
  <2>1. most \in Nat \ {0}
    BY <1>2, ReadAssumption DEF ReadTypes, D!Most, D!Least
  <2>2. body = SubSeq(content, 1, last)
    BY DEF D!Bytes
  <2> HIDE DEF most
  <2>3. last \in 0..size
    BY <1>2, <1>4, <2>1 DEF D!Least
  <2> HIDE DEF last, body
  <2>4. Len(body) = last /\ IsSeq(body)
    BY <1>2, <1>4, <2>2, <2>3, Beginning
  <2>5. n = D!Least(most, last) /\ n \in 0..last
    BY <1>2, <1>4, <2>1, <2>3, <2>4 DEF D!Least
  <2>6. last > most <=> n < size
    BY <1>2, <1>4, <2>1, <2>3, <2>5 DEF last, D!Least
  <2>7. size # 0 => n # 0
    BY <1>2, <1>4, <2>1, <2>3, <2>5 DEF last, D!Least
  <2>8. n \in 0..size
    BY <1>2, <1>4, <2>3, <2>5
  <2> HIDE DEF n
  <2>9. SubSeq(body, 1, n) = SubSeq(content, 1, n)
    <3>1. CASE n = 0
      BY <3>1, SubSeqEmpty
    <3>2. CASE n # 0
      <4> DEFINE S == {content[i] : i \in DOMAIN content}
      <4>1. content \in Seq(S)
        BY <1>2, <1>4 DEF IsSeq
      <4> HIDE DEF S
      <4>2. /\ 1 \in 1..Len(content) /\ last \in 1..Len(content)
            /\ 1 \in 1..(last - 1 + 1) /\ n \in 1..(last - 1 + 1)
            /\ 1 + 1 - 1 = 1 /\ 1 + n - 1 = n
        BY <1>2, <1>4, <2>3, <2>5, <3>2
      <4>3. SubSeq(SubSeq(content, 1, last), 1, n) = SubSeq(content, 1 + 1 - 1, 1 + n - 1)
        BY <4>1, <4>2, SubSeqOfSubSeq
      <4> QED BY <2>2, <4>2, <4>3
    <3> QED BY <3>1, <3>2
  <2> DEFINE got == SubSeq(content, 1, n)
  <2>10. Len(got) = n /\ D!IsPrefix(got, content) /\ (n # 0 => got # <<>>)
    BY <1>2, <1>4, <2>8, Beginning
  <2>11. content # <<>> => size # 0
    BY <1>2, <1>4, SeqIs
  <2> HIDE DEF got, size
  <2>12. Right(reading.kind, All, got, last > most)
    BY <1>1, <1>2, <2>6, <2>7, <2>10, <2>11 DEF Right, size
  <2>13. D!Ends(got, last > most)
    BY <1>4, <2>4, <2>9 DEF got
  <2> QED BY <2>12, <2>13, ReadEnds
<1> QED BY <1>3, <1>4 DEF D!GetsPrefix

(* A window.                                                               *)
LEMMA TakesKeeps ==
    ASSUME ReadInv, reading.at = "get", reading.kind = "range", NEW body, D!Takes(body),
           ~disturbed => \E k \in 0..Len(content) : reading.got \o body = SubSeq(content, 1, k)
    PROVE  ReadInv'
<1> DEFINE got == reading.got \o body
<1>1. /\ ReadFields(reading) /\ ReadTypes /\ reading.cut = FALSE
      /\ (ReadSoFar \/ disturbed)
      /\ content # None => IsSeq(content) /\ Len(content) \in Nat
      /\ All = content
  BY AtFile
<1>2. ~disturbed => content # None /\ reading.size = Len(content)
  BY <1>1 DEF ReadSoFar
<1>3. ~disturbed => \E k \in 0..Len(content) : got = SubSeq(content, 1, k)
  OBVIOUS
<1>4. CASE Len(got) >= reading.size /\ D!Ends(got, FALSE)
  <2>1. ASSUME ~disturbed PROVE Right(reading.kind, All, got, FALSE)
    <3>1. PICK k \in 0..Len(content) : got = SubSeq(content, 1, k)
      BY <1>3, <2>1
    <3>2. Len(got) = k
      BY <1>1, <1>2, <2>1, <3>1, Beginning
    <3>3. k >= Len(content)
      BY <1>2, <1>4, <2>1, <3>2
    <3> QED BY <1>1, <1>2, <2>1, <3>1, <3>3, AllIsRead
  <2> HIDE DEF got
  <2> QED BY <1>4, <2>1, ReadEnds
<1>5. CASE D!Goes([reading EXCEPT !.at = "stat", !.got = got])
  <2> HIDE DEF got
  <2>1. UNCHANGED <<items, content, disturbed, readFaults>> /\ readFaults' \in 0..ReadFaults
    BY <1>1, <1>5 DEF D!Goes, ReadTypes
  <2>2. reading' = [at |-> "stat", kind |-> reading.kind, width |-> reading.width,
                    page |-> reading.page, size |-> reading.size, tries |-> reading.tries,
                    got |-> got, cut |-> FALSE]
    BY <1>1, <1>5 DEF D!Goes, ReadFields
  <2>3. reading.tries \in Nat /\ reading.tries < Attempts
    BY <1>1 DEF ReadTypes
  <2> QED BY <1>3, <2>1, <2>2, <2>3, ReadContinues
<1> QED BY <1>4, <1>5 DEF D!Takes

LEMMA RangeKeeps == ASSUME ReadInv, D!GetsRange PROVE ReadInv'
<1> DEFINE offset == Len(reading.got)
           length == D!Least(reading.width, MaxPreview)
           size == Len(content)
           last == D!RangeEnd(offset, length, reading.size)
<1>1. reading.at = "get" /\ reading.kind = "range"
  BY DEF D!GetsRange, D!Is
<1>2. /\ ReadTypes /\ (ReadSoFar \/ disturbed)
      /\ content # None => IsSeq(content) /\ size \in Nat
  BY <1>1, AtFile
<1>3. ~disturbed =>
         /\ content # None /\ reading.size = size
         /\ offset \in 0..size /\ reading.got = SubSeq(content, 1, offset)
  <2> SUFFICES ASSUME ~disturbed
               PROVE  /\ content # None /\ reading.size = size
                      /\ offset \in 0..size /\ reading.got = SubSeq(content, 1, offset)
    OBVIOUS
  <2>1. content # None /\ reading.size = size
    BY <1>1, <1>2 DEF ReadSoFar
  <2>2. PICK k \in 0..size : reading.got = SubSeq(content, 1, k)
    BY <1>1, <1>2, <2>1 DEF ReadSoFar
  <2>3. offset = k
    BY <1>2, <2>1, <2>2, Beginning
  <2> QED BY <2>1, <2>2, <2>3
<1>4. CASE D!Refuses
  BY <1>4, ReadRefuses
<1>5. CASE D!Takes(<<>>)
  <2>1. ~disturbed => reading.got \o <<>> = SubSeq(content, 1, offset)
    <3> SUFFICES ASSUME ~disturbed PROVE reading.got \o <<>> = SubSeq(content, 1, offset)
      OBVIOUS
    <3> DEFINE got == SubSeq(content, 1, offset)
               S == {got[i] : i \in DOMAIN got}
    <3>1. got \in Seq(S)
      BY <1>2, <1>3, Beginning DEF IsSeq
    <3> HIDE DEF S
    <3>2. reading.got = got
      BY <1>3
    <3> HIDE DEF got
    <3>3. got \o <<>> = got
      BY <3>1, ConcatEmptySeq
    <3> QED BY <3>2, <3>3 DEF got
  <2> QED BY <1>1, <1>3, <1>5, <2>1, TakesKeeps
<1>6. CASE /\ length # 0 /\ content # None /\ ~(offset >= size)
           /\ D!Takes(D!Bytes(offset, last))
  <2> DEFINE end == D!Least(last + 1, size)
  <2>1. ASSUME ~disturbed
        PROVE  \E k \in 0..size : reading.got \o D!Bytes(offset, last) = SubSeq(content, 1, k)
    <3>1. length \in Nat \ {0}
      BY <1>2, <1>6, ReadAssumption DEF ReadTypes, D!Least
    <3>2. offset \in Nat /\ size \in Nat /\ reading.size = size /\ offset < size
      BY <1>2, <1>3, <1>6, <2>1
    <3> HIDE DEF length, offset, size
    <3>3. last \in offset..(size - 1)
      BY <3>1, <3>2 DEF D!RangeEnd, D!Least, D!Most
    <3> HIDE DEF last
    <3>4. end \in offset..size
      BY <3>2, <3>3 DEF D!Least
    <3>5. D!Bytes(offset, last) = SubSeq(content, offset + 1, end)
      BY DEF D!Bytes, size
    <3>6. reading.got = SubSeq(content, 1, offset) /\ IsSeq(content)
      BY <1>2, <1>3, <2>1
    <3> HIDE DEF end
    <3>7. offset \in 0..Len(content) /\ end \in offset..Len(content)
      BY <3>2, <3>4 DEF size
    <3>8. SubSeq(content, 1, offset) \o SubSeq(content, offset + 1, end) = SubSeq(content, 1, end)
      BY <3>6, <3>7, Further
    <3>9. end \in 0..size
      BY <3>2, <3>4
    <3> QED BY <3>5, <3>6, <3>8, <3>9
  <2> QED BY <1>1, <1>6, <2>1, TakesKeeps
<1> QED BY <1>4, <1>5, <1>6 DEF D!GetsRange

(* A remote that sends it all.                                             *)
LEMMA GetsAllKeeps == ASSUME ReadInv, D!GetsAll PROVE ReadInv'
<1> DEFINE length == D!Least(reading.width, MaxPreview)
           size == Len(content)
           n == D!Least(length, size)
           got == D!Bytes(0, length - 1)
<1>1. /\ reading.at = "get" /\ content # None /\ UNCHANGED <<items, content, disturbed>>
      /\ reading.kind = "range" => reading.width > 0
  BY DEF D!GetsAll
<1>2. /\ ReadFields(reading) /\ ReadTypes /\ reading.cut = FALSE
      /\ reading.kind \in {"range", "prefix"} /\ (ReadSoFar \/ disturbed)
      /\ IsSeq(content) /\ size \in Nat /\ All = content
  BY <1>1, AtFile
<1>3. readFaults' \in 0..ReadFaults
  BY <1>2, ReadAssumption DEF D!GetsAll, ReadTypes
<1>4. CASE reading' = [reading EXCEPT !.at = "failed"]
  BY <1>1, <1>3, <1>4, ReadFails
<1>5. CASE /\ reading.kind = "range"
           /\ reading' = [reading EXCEPT !.got = got,
                            !.at = IF n >= reading.size THEN "done" ELSE "stat"]
  <2>1. length \in Nat
    BY <1>2, ReadAssumption DEF ReadTypes, D!Least
  <2>2. got = SubSeq(content, 1, n)
    <3>1. (length - 1) + 1 = length /\ 0 + 1 = 1
      BY <2>1
    <3> QED BY <3>1 DEF D!Bytes
  <2> HIDE DEF length, got
  <2>3. n \in 0..size
    BY <1>2, <2>1 DEF D!Least
  <2> HIDE DEF n
  <2>4. ~disturbed => reading.size = size
    BY <1>1, <1>2 DEF ReadSoFar
  <2>5. reading.tries \in Nat /\ reading.tries < Attempts
    BY <1>2 DEF ReadTypes
  <2>6. CASE n >= reading.size
    <3>1. reading' = [at |-> "done", kind |-> reading.kind, width |-> reading.width,
                      page |-> reading.page, size |-> reading.size, tries |-> reading.tries,
                      got |-> got, cut |-> FALSE]
      BY <1>2, <1>5, <2>6 DEF ReadFields
    <3>2. ReadFields(reading)' /\ ReadTypes' /\ ReadRoutes'
      BY <1>1, <1>2, <1>3, <3>1 DEF ReadTypes, ReadRoutes, ReadFields, ReadLabels
    <3>3. PagedSoFar' /\ ReadSoFar'
      BY <3>1 DEF PagedSoFar, ReadSoFar
    <3>4. ~disturbed => Right("range", content, got, FALSE)
      BY <1>2, <2>2, <2>3, <2>4, <2>6, AllIsRead
    <3>5. All' = content
      BY <1>1, <1>2, <3>1, StillThere
    <3>6. IsWhole'
      <4>1. reading.kind = "range"
        BY <1>5
      <4>2. /\ reading'.kind = reading.kind /\ reading'.got = got /\ reading'.cut = FALSE
            /\ disturbed' = disturbed
        BY <1>1, <3>1
      <4> QED BY <3>4, <3>5, <4>1, <4>2 DEF IsWhole
    <3>7. WindowsAreWhole'
      BY <3>6, WholeIs, PTL
    <3> QED BY <3>2, <3>3, <3>7 DEF ReadInv
  <2>7. CASE ~(n >= reading.size)
    <3>1. reading' = [at |-> "stat", kind |-> reading.kind, width |-> reading.width,
                      page |-> reading.page, size |-> reading.size, tries |-> reading.tries,
                      got |-> got, cut |-> FALSE]
      BY <1>2, <1>5, <2>7 DEF ReadFields
    <3> QED BY <1>1, <1>3, <2>2, <2>3, <2>5, <3>1, ReadContinues
  <2> QED BY <2>6, <2>7
<1> QED BY <1>2, <1>4, <1>5 DEF D!GetsAll

LEMMA DisturbsKeeps == ASSUME ReadInv, D!Disturbs PROVE ReadInv'
<1>1. disturbed' = TRUE /\ UNCHANGED <<reading, readFaults>>
  BY DEF D!Disturbs
<1>2. items' \in Directories /\ content' \in Bodies
  BY DEF D!Disturbs, ReadInv, ReadTypes
<1>3. ReadFields(reading)' /\ ReadTypes' /\ ReadRoutes'
  BY <1>1, <1>2 DEF ReadInv, ReadTypes, ReadRoutes, ReadFields
<1>4. WindowsAreWhole'
  BY <1>1 DEF WindowsAreWhole, D!WindowsAreWhole
<1> QED BY <1>1, <1>3, <1>4 DEF ReadInv

LEMMA ReadStep == ASSUME ReadInv, D!ReadNext PROVE ReadInv'
BY ReadBeginsKeeps, ListsPageKeeps, ListsKeeps_, ScansKeeps, SearchesKeeps, MissesKeeps, StatsKeeps,
   PrefixKeeps, RangeKeeps, GetsAllKeeps, DisturbsKeeps DEF D!ReadNext

LEMMA ReadStart == D!ReadInit => ReadInv
<1> SUFFICES ASSUME D!ReadInit PROVE ReadInv
  OBVIOUS
<1>1. reading = [at |-> "idle", kind |-> "page", width |-> 1, page |-> 1, size |-> 0,
                 tries |-> 0, got |-> <<>>, cut |-> FALSE]
  BY DEF D!ReadInit, D!Calm
<1>2. ReadFields(reading) /\ ReadRoutes
  BY <1>1 DEF ReadFields, ReadRoutes
<1>4. Attempts \in Nat /\ Attempts # 0 /\ ReadFaults \in Nat
  BY ReadAssumption
<1>5. ReadTypes
  <2>1. items \in Directories /\ content \in Bodies /\ disturbed \in BOOLEAN /\ readFaults = 0
    BY DEF D!ReadInit
  <2>2. 0 \in 0..ReadFaults /\ 0 < Attempts /\ 1 \in Nat /\ 0 \in Nat /\ 1 \in Nat \ {0}
    BY <1>4
  <2>3. /\ reading.at \in ReadLabels /\ reading.kind \in ReadKinds /\ reading.width = 1
        /\ reading.page = 1 /\ reading.tries = 0
    BY <1>1 DEF ReadLabels, ReadKinds
  <2> QED BY <2>1, <2>2, <2>3 DEF ReadTypes
<1>3. PagedSoFar /\ ReadSoFar /\ WindowsAreWhole
  BY <1>1 DEF PagedSoFar, ReadSoFar, WindowsAreWhole, D!WindowsAreWhole
<1> QED BY <1>2, <1>3, <1>5 DEF ReadInv

LEMMA ReadMeans == ReadInv => D!ReadTypeOK /\ WindowsAreWhole
BY DEF ReadInv, ReadTypes, ReadLabels, D!ReadTypeOK

------------------------------------------------------------------------------
(* What is at rest stays as it is.                                         *)
LEMMA RequestRests == ASSUME ReqInv, UNCHANGED requests PROVE ReqInv'
<1>1. /\ Q!Dropped' = Q!Dropped
      /\ UNCHANGED <<binding, tree, request, requestFaults, strangers>>
  BY DEF requests, Q!Dropped, Q!Around
<1>2. ReqTypes' /\ Places' /\ Fields(request)'
  BY <1>1 DEF ReqInv, ReqTypes, Places, Clean, Fields
<1>3. Gated' /\ Honest(request)' /\ Unchanged' /\ Behind'
  BY <1>1 DEF ReqInv, Gated, Granted, Honest, Bound, Unchanged, Behind
<1> QED BY <1>2, <1>3 DEF ReqInv

LEMMA ReadRests == ASSUME ReadInv, UNCHANGED reads PROVE ReadInv'
<1>1. UNCHANGED <<items, content, reading, disturbed, readFaults>> /\ D!Listing' = D!Listing
  BY StillThere DEF reads
<1>2. ReadFields(reading)' /\ ReadTypes' /\ ReadRoutes'
  BY <1>1 DEF ReadInv, ReadFields, ReadTypes, ReadRoutes
<1>3. ~disturbed' => PagedSoFar' /\ ReadSoFar'
  BY <1>1 DEF ReadInv, PagedSoFar, ReadSoFar, Wide
<1>4. WindowsAreWhole'
  <2>1. IsWhole
    BY WholeIs DEF ReadInv
  <2>2. All' = All
    BY <1>1, StillThere
  <2>3. IsWhole'
    BY <1>1, <2>1, <2>2 DEF IsWhole
  <2> QED BY <2>3, WholeIs, PTL
<1> QED BY <1>2, <1>3, <1>4 DEF ReadInv

------------------------------------------------------------------------------
(* Paths below paths.                                                      *)
LEMMA SliceIs ==
    ASSUME NEW S, NEW s, NEW m \in Int, NEW n \in Int, \A i \in m..n : s[i] \in S,
           NEW k \in Nat, k = n - m + 1, NEW t, t = SubSeq(s, m, n)
    PROVE  t \in Seq(S) /\ Len(t) = k /\ \A i \in 1..k : t[i] = s[m + i - 1]
<1>1. /\ SubSeq(s, m, n) \in Seq(S)
      /\ Len(SubSeq(s, m, n)) = (IF m <= n THEN n - m + 1 ELSE 0)
      /\ \A i \in 1..n - m + 1 : SubSeq(s, m, n)[i] = s[m + i - 1]
  BY SubSeqProperties
<1>2. (IF m <= n THEN n - m + 1 ELSE 0) = k
  OBVIOUS
<1> QED BY <1>1, <1>2

LEMMA PrefixIs ==
    ASSUME NEW S, NEW a \in Seq(S), NEW p \in Seq(S)
    PROVE  P!IsPrefix(a, p) <=> Len(a) <= Len(p) /\ \A i \in 1..Len(a) : a[i] = p[i]
<1>1. Len(a) \in Nat /\ Len(p) \in Nat
  BY LenProperties
<1>2. SubSeq(a, 1, Len(a)) = a
  BY SubSeqFull
<1>3. ASSUME Len(a) <= Len(p)
      PROVE  SubSeq(p, 1, Len(a)) = a <=> \A i \in 1..Len(a) : a[i] = p[i]
  <2> DEFINE s == SubSeq(p, 1, Len(a))
             n == Len(a)
  <2>1. \A i \in 1..n : p[i] \in S
    BY <1>1, <1>3, ElementOfSeq
  <2>2. 1 \in Int /\ n \in Int
    BY <1>1
  <2>3. n \in Nat /\ n = n - 1 + 1
    <3>1. n \in Nat
      BY <1>1
    <3> HIDE DEF n
    <3> QED BY <3>1
  <2>4. s \in Seq(S) /\ Len(s) = n /\ \A i \in 1..n : s[i] = p[i]
    <3>1. s = SubSeq(p, 1, n)
      OBVIOUS
    <3> HIDE DEF s, n
    <3>2. s \in Seq(S) /\ Len(s) = n /\ \A i \in 1..n : s[i] = p[1 + i - 1]
      BY <2>1, <2>2, <2>3, <3>1, SliceIs
    <3>3. \A i \in 1..n : 1 + i - 1 = i
      BY <2>3
    <3> QED BY <3>2, <3>3
  <2>5. s = a <=> \A i \in 1..n : a[i] = p[i]
    <3> HIDE DEF s
    <3> QED BY <2>4, SeqEqual
  <2> QED BY <2>5
<1> QED BY <1>1, <1>2, <1>3 DEF P!IsPrefix

LEMMA BelowIs ==
    ASSUME NEW S, NEW a \in Seq(S), NEW p \in Seq(S), P!IsPrefix(a, p),
           NEW q, q = SubSeq(p, Len(a) + 1, Len(p))
    PROVE  q \in Seq(S) /\ p = a \o q /\ (p # a => q # <<>>)
<1> DEFINE n == Len(a)
           k == Len(p)
<1>1. n \in Nat /\ k \in Nat /\ n <= k /\ \A i \in 1..n : a[i] = p[i]
  BY LenProperties, PrefixIs
<1>2. \A i \in 1..k : p[i] \in S
  BY ElementOfSeq
<1> HIDE DEF n, k
<1>3. \A i \in (n + 1)..k : p[i] \in S
  BY <1>1, <1>2
<1>4. q = SubSeq(p, n + 1, k)
  BY DEF n, k
<1>5. n + 1 \in Int /\ k \in Int
  BY <1>1
<1>7. k - n \in Nat /\ k - n = k - (n + 1) + 1
  BY <1>1
<1>6. q \in Seq(S) /\ Len(q) = k - n /\ \A i \in 1..(k - n) : q[i] = p[(n + 1) + i - 1]
  <2> DEFINE m == n + 1
             j == k - n
  <2>1. m \in Int /\ k \in Int
    BY <1>5
  <2>3. \A i \in m..k : p[i] \in S
    BY <1>3
  <2>4. j \in Nat /\ j = k - m + 1
    BY <1>7
  <2>5. q = SubSeq(p, m, k)
    BY <1>4
  <2> HIDE DEF m, j
  <2>6. \A t : t = SubSeq(p, m, k) =>
                t \in Seq(S) /\ Len(t) = j /\ \A i \in 1..j : t[i] = p[m + i - 1]
    BY <2>1, <2>3, <2>4, SliceIs
  <2>2. q \in Seq(S) /\ Len(q) = j /\ \A i \in 1..j : q[i] = p[m + i - 1]
    BY <2>5, <2>6
  <2> QED BY <2>2 DEF m, j
<1>8. \A i \in 1..(k - n) : (n + 1) + i - 1 = n + i
  BY <1>1
<1>9. Len(q) = k - n /\ \A i \in 1..(k - n) : q[i] = p[n + i]
  BY <1>6, <1>8
<1>10. /\ a \o q \in Seq(S) /\ Len(a \o q) = n + Len(q)
       /\ \A i \in 1..(n + Len(q)) : (a \o q)[i] = IF i <= n THEN a[i] ELSE q[i - n]
  BY <1>6, ConcatProperties DEF n
<1>11. n + Len(q) = k
  BY <1>1, <1>9
<1>12. \A i \in 1..k : (a \o q)[i] = p[i]
  <2> TAKE i \in 1..k
  <2>1. CASE i <= n
    BY <1>1, <1>10, <1>11, <2>1
  <2>2. CASE ~(i <= n)
    <3>1. i - n \in 1..(k - n) /\ n + (i - n) = i
      BY <1>1, <2>2
    <3> QED BY <1>9, <1>10, <1>11, <2>2, <3>1
  <2> QED BY <2>1, <2>2
<1>13. p = a \o q
  BY <1>10, <1>11, <1>12, SeqEqual DEF k
<1>14. q = <<>> => p = a
  BY <1>13, ConcatEmptySeq
<1> QED BY <1>6, <1>13, <1>14

LEMMA JoinedIs ==
    ASSUME NEW S, NEW a \in Seq(S), NEW q \in Seq(S)
    PROVE  /\ a \o q \in Seq(S) /\ P!IsPrefix(a, a \o q)
           /\ SubSeq(a \o q, Len(a) + 1, Len(a \o q)) = q
           /\ a \o q = a => q = <<>>
<1> DEFINE p == a \o q
           s == SubSeq(p, Len(a) + 1, Len(p))
<1>1. /\ p \in Seq(S) /\ Len(p) = Len(a) + Len(q)
      /\ \A i \in 1..(Len(a) + Len(q)) : p[i] = IF i <= Len(a) THEN a[i] ELSE q[i - Len(a)]
  BY ConcatProperties
<1>2. Len(a) \in Nat /\ Len(q) \in Nat
  BY LenProperties
<1>3. Len(a) <= Len(p) /\ \A i \in 1..Len(a) : a[i] = p[i]
  <2> HIDE DEF p
  <2>1. \A i \in 1..Len(a) : i \in 1..(Len(a) + Len(q)) /\ i <= Len(a)
    BY <1>2
  <2> QED BY <1>1, <1>2, <2>1
<1>4. P!IsPrefix(a, p)
  BY <1>1, <1>3, PrefixIs
<1>5. s \in Seq(S) /\ p = a \o s
  BY <1>1, <1>4, BelowIs
<1>6. s = q
  BY <1>5, ConcatSimplifications
<1>7. p = a => q = <<>>
  BY ConcatSimplifications
<1> QED BY <1>1, <1>4, <1>6, <1>7

(* Of two paths above a third one is above the other.                      *)
LEMMA AboveIs ==
    ASSUME NEW S, NEW a \in Seq(S), NEW b \in Seq(S), NEW p \in Seq(S),
           P!IsPrefix(a, p), P!IsPrefix(b, p)
    PROVE  P!Overlap(a, b)
<1>1. Len(a) \in Nat /\ Len(b) \in Nat
  BY LenProperties
<1>2. \A i \in 1..Len(a) : a[i] = p[i]
  BY PrefixIs
<1>3. \A i \in 1..Len(b) : b[i] = p[i]
  BY PrefixIs
<1>4. CASE Len(a) <= Len(b)
  <2>1. \A i \in 1..Len(a) : i \in 1..Len(b)
    BY <1>1, <1>4
  <2>2. P!IsPrefix(a, b)
    BY <1>2, <1>3, <1>4, <2>1, PrefixIs
  <2> QED BY <2>2 DEF P!Overlap
<1>5. CASE Len(b) <= Len(a)
  <2>1. \A i \in 1..Len(b) : i \in 1..Len(a)
    BY <1>1, <1>5
  <2>2. P!IsPrefix(b, a)
    BY <1>2, <1>3, <1>5, <2>1, PrefixIs
  <2> QED BY <2>2 DEF P!Overlap
<1> QED BY <1>1, <1>4, <1>5

(* What overlaps below a root overlaps.                                    *)
LEMMA RootedOverlap ==
    ASSUME NEW S, NEW a \in Seq(S), NEW x \in Seq(S), NEW y \in Seq(S),
           P!IsPrefix(a \o x, a \o y)
    PROVE  P!IsPrefix(x, y)
<1> DEFINE n == Len(a)
<1>1. Len(x) \in Nat /\ Len(y) \in Nat /\ n \in Nat
  BY LenProperties
<1>2. /\ a \o x \in Seq(S) /\ Len(a \o x) = n + Len(x)
      /\ \A i \in 1..(n + Len(x)) : (a \o x)[i] = IF i <= n THEN a[i] ELSE x[i - n]
  BY ConcatProperties
<1>3. /\ a \o y \in Seq(S) /\ Len(a \o y) = n + Len(y)
      /\ \A i \in 1..(n + Len(y)) : (a \o y)[i] = IF i <= n THEN a[i] ELSE y[i - n]
  BY ConcatProperties
<1>4. n + Len(x) <= n + Len(y) /\ \A i \in 1..(n + Len(x)) : (a \o x)[i] = (a \o y)[i]
  <2> DEFINE u == a \o x
             v == a \o y
  <2>1. u \in Seq(S) /\ v \in Seq(S) /\ P!IsPrefix(u, v)
    BY <1>2, <1>3
  <2>2. Len(u) = n + Len(x) /\ Len(v) = n + Len(y)
    BY <1>2, <1>3
  <2> HIDE DEF u, v
  <2>3. Len(u) <= Len(v) /\ \A i \in 1..Len(u) : u[i] = v[i]
    BY <2>1, PrefixIs
  <2>4. n + Len(x) <= n + Len(y) /\ \A i \in 1..(n + Len(x)) : u[i] = v[i]
    BY <2>2, <2>3
  <2> QED BY <2>4 DEF u, v
<1> HIDE DEF n
<1>5. Len(x) <= Len(y)
  BY <1>1, <1>4
<1>6. ASSUME NEW i \in 1..Len(x)
      PROVE  x[i] = y[i]
  <2> DEFINE u == a \o x
             v == a \o y
             j == n + i
  <2>1. j \in 1..(n + Len(x)) /\ j \in 1..(n + Len(y)) /\ ~(j <= n) /\ j - n = i
    BY <1>1, <1>5
  <2>2. \A l \in 1..(n + Len(x)) : u[l] = IF l <= n THEN a[l] ELSE x[l - n]
    BY <1>2
  <2>3. \A l \in 1..(n + Len(y)) : v[l] = IF l <= n THEN a[l] ELSE y[l - n]
    BY <1>3
  <2>4. \A l \in 1..(n + Len(x)) : u[l] = v[l]
    BY <1>4
  <2> HIDE DEF u, v, j
  <2>5. u[j] = x[i] /\ v[j] = y[i] /\ u[j] = v[j]
    BY <2>1, <2>2, <2>3, <2>4
  <2> QED BY <2>5
<1> QED BY <1>5, <1>6, PrefixIs

------------------------------------------------------------------------------
(* Trees of files, and what is below a directory of them.                  *)
Mapped(trees) == DOMAIN trees = Connections /\ \A c \in Connections : DOMAIN trees[c] \subseteq Paths
IsFs(fs) == fs.on \in Connections /\ fs.path \in Paths
Relative == Paths \ {<<>>}
Spares(t, u, fs) ==
    \A c \in Connections, p \in Paths :
        \/ c = fs.on /\ P!IsPrefix(fs.path, p)
        \/ (p \in DOMAIN t[c] <=> p \in DOMAIN u[c]) /\ (p \in DOMAIN t[c] => t[c][p] = u[c][p])

LEMMA PathsInAre ==
    ASSUME NEW t, Mapped(t), NEW fs, IsFs(fs), NEW p \in P!PathsIn(t, fs)
    PROVE  /\ p \in DOMAIN t[fs.on] /\ p \in Paths /\ P!IsPrefix(fs.path, p)
           /\ P!Below(fs, p) \in Relative /\ p = fs.path \o P!Below(fs, p)
<1>1. p \in DOMAIN t[fs.on] /\ P!IsPrefix(fs.path, p) /\ p # fs.path
  BY DEF P!PathsIn
<1>2. p \in Paths /\ fs.path \in Paths
  BY <1>1 DEF Mapped, IsFs
<1>3. Paths = Seq(Parts)
  BY DEF Paths
<1> DEFINE q == SubSeq(p, Len(fs.path) + 1, Len(p))
<1> DEFINE a == fs.path
<1>6. a \in Seq(Parts) /\ p \in Seq(Parts) /\ P!IsPrefix(a, p) /\ p # a
  BY <1>1, <1>2, <1>3
<1> HIDE DEF a
<1>7. q = SubSeq(p, Len(a) + 1, Len(p))
  BY DEF a
<1>9. \A v : v = SubSeq(p, Len(a) + 1, Len(p)) =>
            v \in Seq(Parts) /\ p = a \o v /\ (p # a => v # <<>>)
  BY <1>6, BelowIs
<1> HIDE DEF q
<1>8. q \in Seq(Parts) /\ p = a \o q /\ q # <<>>
  BY <1>6, <1>7, <1>9
<1>4. q \in Seq(Parts) /\ p = fs.path \o q /\ q # <<>>
  BY <1>8 DEF a
<1>5. P!Below(fs, p) = q
  BY DEF P!Below, q
<1> QED BY <1>1, <1>2, <1>3, <1>4, <1>5 DEF Relative

LEMMA PutBelow ==
    ASSUME NEW t, NEW fs, IsFs(fs), NEW q \in Relative
    PROVE  /\ fs.path \o q \in Paths /\ P!IsPrefix(fs.path, fs.path \o q)
           /\ P!Below(fs, fs.path \o q) = q
           /\ fs.path \o q \in DOMAIN t[fs.on] => fs.path \o q \in P!PathsIn(t, fs)
<1>1. Paths = Seq(Parts)
  BY DEF Paths
<1>2. fs.path \in Seq(Parts) /\ q \in Seq(Parts) /\ q # <<>>
  BY <1>1 DEF IsFs, Relative
<1>3. /\ fs.path \o q \in Seq(Parts) /\ P!IsPrefix(fs.path, fs.path \o q)
      /\ SubSeq(fs.path \o q, Len(fs.path) + 1, Len(fs.path \o q)) = q
      /\ fs.path \o q = fs.path => q = <<>>
  BY <1>2, JoinedIs
<1> QED BY <1>1, <1>2, <1>3 DEF P!Below, P!PathsIn

LEMMA FilesAre ==
    ASSUME NEW t, Mapped(t), NEW fs, IsFs(fs), NEW held, held = P!Files(t, fs)
    PROVE  /\ DOMAIN held \subseteq Relative /\ held = [q \in DOMAIN held |-> held[q]]
           /\ \A q \in Relative : q \in DOMAIN held <=> fs.path \o q \in DOMAIN t[fs.on]
           /\ \A q \in DOMAIN held : held[q] = t[fs.on][fs.path \o q]
<1> DEFINE dom == {P!Below(fs, p) : p \in P!PathsIn(t, fs)}
<1>1. held = [q \in dom |-> t[fs.on][fs.path \o q]]
  BY DEF P!Files
<1>2. dom \subseteq Relative
  BY PathsInAre
<1>3. ASSUME NEW q \in dom
      PROVE  fs.path \o q \in DOMAIN t[fs.on]
  <2>1. PICK p \in P!PathsIn(t, fs) : q = P!Below(fs, p)
    OBVIOUS
  <2>2. p \in DOMAIN t[fs.on] /\ p = fs.path \o P!Below(fs, p)
    BY PathsInAre
  <2> QED BY <2>1, <2>2
<1>4. ASSUME NEW q \in Relative, fs.path \o q \in DOMAIN t[fs.on]
      PROVE  q \in dom
  BY <1>4, PutBelow
<1> HIDE DEF dom
<1> QED BY <1>1, <1>2, <1>3, <1>4

LEMMA SameFiles ==
    ASSUME NEW t, Mapped(t), NEW fs, IsFs(fs), NEW held, DOMAIN held \subseteq Relative,
           held = [q \in DOMAIN held |-> held[q]],
           \A q \in Relative : q \in DOMAIN held <=> fs.path \o q \in DOMAIN t[fs.on],
           \A q \in DOMAIN held : held[q] = t[fs.on][fs.path \o q]
    PROVE  P!Files(t, fs) = held
<1> DEFINE g == P!Files(t, fs)
<1>1. /\ DOMAIN g \subseteq Relative /\ g = [q \in DOMAIN g |-> g[q]]
      /\ \A q \in Relative : q \in DOMAIN g <=> fs.path \o q \in DOMAIN t[fs.on]
      /\ \A q \in DOMAIN g : g[q] = t[fs.on][fs.path \o q]
  BY FilesAre
<1> HIDE DEF g
<1>2. DOMAIN g = DOMAIN held
  BY <1>1
<1>3. \A q \in DOMAIN held : g[q] = held[q]
  BY <1>1, <1>2
<1>4. g = held
  BY <1>1, <1>2, <1>3
<1> QED BY <1>4 DEF g

(* What a change elsewhere leaves alone.                                   *)
LEMMA SparedFiles ==
    ASSUME NEW t, Mapped(t), NEW u, Mapped(u), NEW fs, IsFs(fs), NEW gs, IsFs(gs),
           Spares(t, u, fs), ~P!Together(fs, gs)
    PROVE  P!Files(u, gs) = P!Files(t, gs)
<1> DEFINE held == P!Files(t, gs)
<1>1. /\ DOMAIN held \subseteq Relative /\ held = [q \in DOMAIN held |-> held[q]]
      /\ \A q \in Relative : q \in DOMAIN held <=> gs.path \o q \in DOMAIN t[gs.on]
      /\ \A q \in DOMAIN held : held[q] = t[gs.on][gs.path \o q]
  BY FilesAre
<1>2. ASSUME NEW q \in Relative
      PROVE  /\ gs.path \o q \in DOMAIN t[gs.on] <=> gs.path \o q \in DOMAIN u[gs.on]
             /\ gs.path \o q \in DOMAIN t[gs.on] =>
                    t[gs.on][gs.path \o q] = u[gs.on][gs.path \o q]
  <2>1. gs.path \o q \in Paths /\ P!IsPrefix(gs.path, gs.path \o q)
    BY PutBelow
  <2>2. gs.on = fs.on => ~P!IsPrefix(fs.path, gs.path \o q)
    <3> SUFFICES ASSUME gs.on = fs.on, P!IsPrefix(fs.path, gs.path \o q) PROVE FALSE
      OBVIOUS
    <3>1. Paths = Seq(Parts)
      BY DEF Paths
    <3>2. fs.path \in Seq(Parts) /\ gs.path \in Seq(Parts) /\ gs.path \o q \in Seq(Parts)
      BY <2>1, <3>1 DEF IsFs
    <3>3. P!Overlap(fs.path, gs.path)
      BY <2>1, <3>2, AboveIs
    <3> QED BY <3>3 DEF P!Together
  <2>3. gs.on \in Connections
    BY DEF IsFs
  <2> QED BY <2>1, <2>2, <2>3 DEF Spares
<1> HIDE DEF held
<1>3. /\ \A q \in Relative : q \in DOMAIN held <=> gs.path \o q \in DOMAIN u[gs.on]
      /\ \A q \in DOMAIN held : held[q] = u[gs.on][gs.path \o q]
  BY <1>1, <1>2
<1>4. P!Files(u, gs) = held
  BY <1>1, <1>3, SameFiles
<1> QED BY <1>4 DEF held

LEMMA PlacedIs ==
    ASSUME NEW t, Mapped(t), NEW fs, IsFs(fs), NEW held, DOMAIN held \subseteq Relative,
           held = [q \in DOMAIN held |-> held[q]], NEW u, u = P!Placed(t, fs, held)
    PROVE  Mapped(u) /\ Spares(t, u, fs) /\ P!Files(u, fs) = held
<1> DEFINE new == [p \in {fs.path \o q : q \in DOMAIN held} |-> held[P!Below(fs, p)]]
           old == P!Restrict(t[fs.on], DOMAIN t[fs.on] \ P!PathsIn(t, fs))
           h == P!Over(new, old)
<1>1. u = [t EXCEPT ![fs.on] = h]
  BY DEF P!Placed
<1>2. fs.on \in Connections /\ DOMAIN t = Connections
  BY DEF Mapped, IsFs
<1>3. u[fs.on] = h /\ DOMAIN u = Connections /\ \A c \in Connections \ {fs.on} : u[c] = t[c]
  <2> HIDE DEF h
  <2> QED BY <1>1, <1>2
<1>4. \A q \in DOMAIN held : fs.path \o q \in DOMAIN new /\ new[fs.path \o q] = held[q]
  BY PutBelow
<1>5. \A p \in DOMAIN new : \E q \in DOMAIN held : p = fs.path \o q
  OBVIOUS
<1>6. /\ DOMAIN old = DOMAIN t[fs.on] \ P!PathsIn(t, fs)
      /\ \A p \in DOMAIN old : old[p] = t[fs.on][p]
  BY DEF P!Restrict
<1> HIDE DEF new, old
<1>7. /\ DOMAIN h = DOMAIN new \cup DOMAIN old
      /\ \A p \in DOMAIN new : h[p] = new[p]
      /\ \A p \in DOMAIN old \ DOMAIN new : h[p] = old[p]
  BY DEF P!Over
<1> HIDE DEF h
<1>8. ASSUME NEW p \in DOMAIN new
      PROVE  p \in Paths /\ P!IsPrefix(fs.path, p)
  <2>1. PICK q \in DOMAIN held : p = fs.path \o q
    BY <1>5
  <2>2. q \in Relative
    OBVIOUS
  <2>3. fs.path \o q \in Paths /\ P!IsPrefix(fs.path, fs.path \o q)
    BY <2>2, PutBelow
  <2> QED BY <2>1, <2>3
<1>9. Mapped(u)
  <2>1. DOMAIN h \subseteq Paths
    BY <1>2, <1>6, <1>7, <1>8 DEF Mapped
  <2> QED BY <1>2, <1>3, <2>1 DEF Mapped
<1>10. Spares(t, u, fs)
  <2> SUFFICES ASSUME NEW c \in Connections, NEW p \in Paths,
                      ~(c = fs.on /\ P!IsPrefix(fs.path, p))
               PROVE  /\ p \in DOMAIN t[c] <=> p \in DOMAIN u[c]
                      /\ p \in DOMAIN t[c] => t[c][p] = u[c][p]
    BY DEF Spares
  <2>1. CASE c # fs.on
    BY <1>3, <2>1
  <2>2. CASE c = fs.on
    <3>1. ~P!IsPrefix(fs.path, p)
      BY <2>2
    <3>2. p \notin DOMAIN new /\ p \notin P!PathsIn(t, fs)
      BY <1>8, <3>1, PathsInAre
    <3>3. p \in DOMAIN old <=> p \in DOMAIN t[fs.on]
      BY <1>6, <3>2
    <3> QED BY <1>3, <1>6, <1>7, <2>2, <3>2, <3>3
  <2> QED BY <2>1, <2>2
<1>11. ASSUME NEW q \in Relative
       PROVE  q \in DOMAIN held <=> fs.path \o q \in DOMAIN u[fs.on]
  <2>1. q \in DOMAIN held => fs.path \o q \in DOMAIN h
    BY <1>4, <1>7
  <2>2. fs.path \o q \in DOMAIN old => FALSE
    BY <1>6, PutBelow
  <2>3. ASSUME fs.path \o q \in DOMAIN new
        PROVE  q \in DOMAIN held
    <3>1. PICK x \in DOMAIN held : fs.path \o q = fs.path \o x
      BY <1>5, <2>3
    <3>2. P!Below(fs, fs.path \o q) = q /\ P!Below(fs, fs.path \o x) = x
      BY PutBelow
    <3> QED BY <3>1, <3>2
  <2> QED BY <1>3, <1>7, <2>1, <2>2, <2>3
<1>12. \A q \in DOMAIN held : held[q] = u[fs.on][fs.path \o q]
  BY <1>3, <1>4, <1>7
<1>13. P!Files(u, fs) = held
  BY <1>9, <1>11, <1>12, SameFiles
<1> QED BY <1>9, <1>10, <1>13

LEMMA WithoutIs ==
    ASSUME NEW t, Mapped(t), NEW fs, IsFs(fs), NEW gone \in SUBSET P!PathsIn(t, fs),
           NEW u, u = P!Without(t, fs, gone)
    PROVE  Mapped(u) /\ Spares(t, u, fs)
<1> DEFINE h == P!Restrict(t[fs.on], DOMAIN t[fs.on] \ gone)
<1>1. u = [t EXCEPT ![fs.on] = h]
  BY DEF P!Without
<1>2. fs.on \in Connections /\ DOMAIN t = Connections
  BY DEF Mapped, IsFs
<1>3. DOMAIN h = DOMAIN t[fs.on] \ gone /\ \A p \in DOMAIN h : h[p] = t[fs.on][p]
  BY DEF P!Restrict
<1> HIDE DEF h
<1>4. u[fs.on] = h /\ DOMAIN u = Connections /\ \A c \in Connections \ {fs.on} : u[c] = t[c]
  BY <1>1, <1>2
<1>5. \A p \in gone : P!IsPrefix(fs.path, p)
  BY PathsInAre
<1>6. Mapped(u)
  BY <1>2, <1>3, <1>4 DEF Mapped
<1>7. Spares(t, u, fs)
  BY <1>2, <1>3, <1>4, <1>5 DEF Spares
<1> QED BY <1>6, <1>7

(* What is changed is in some places.                                      *)
Within(t, u, places) ==
    \A c \in Connections, p \in Paths :
        \/ \E fs \in places : c = fs.on /\ P!IsPrefix(fs.path, p)
        \/ (p \in DOMAIN t[c] <=> p \in DOMAIN u[c]) /\ (p \in DOMAIN t[c] => t[c][p] = u[c][p])

LEMMA SparesWithin ==
    ASSUME NEW t, NEW u, NEW fs, Spares(t, u, fs), NEW places, fs \in places
    PROVE  Within(t, u, places)
BY DEF Spares, Within

LEMMA WithinTwice ==
    ASSUME NEW t, NEW u, NEW v, NEW places, Within(t, u, places), Within(u, v, places)
    PROVE  Within(t, v, places)
BY DEF Within

------------------------------------------------------------------------------
(* What becomes of a form.                                                 *)
LEMMA FormsAre ==
    ASSUME NEW f \in Forms
    PROVE  IsForm(f)
BY PlanAssumption

LEMMA KindsAre ==
    ASSUME NEW f \in Forms
    PROVE  \/ f.entry = "panel" /\ f.kind \in {"dir", "check", "sums", "bisync"}
           \/ f.entry = "schedule" /\ f.kind \in {"dir", "bisync"}
           \/ f.entry \in {"mcp", "task", "copy", "move"} /\ f.kind = "dir"
BY FormsAre DEF IsForm, EntryKinds

LEMMA RequestsAre ==
    ASSUME NEW f \in Forms
    PROVE  LET r == P!RequestOf(f)
           IN /\ r.entry = f.entry /\ r.kind = f.kind /\ r.from = f.from /\ r.to = f.to
              /\ r.source = f.source /\ r.target = f.target /\ r.blank = f.blank
              /\ r.maxDelete = f.maxDelete
              /\ r.sync <=> P!TaskMirrors(f)
              /\ r.backup \in {f.backup, <<>>}
              /\ f.entry \in {"panel", "schedule"} => r.backup = f.backup
              /\ f.entry \notin {"panel", "schedule"} => r.backup = <<>>
<1> DEFINE r == P!RequestOf(f)
<1>1. IsForm(f)
  BY FormsAre
<1>2. /\ f = [entry |-> f.entry, kind |-> f.kind, from |-> f.from, source |-> f.source,
              to |-> f.to, target |-> f.target, sync |-> f.sync, flags |-> f.flags,
              blank |-> f.blank, backup |-> f.backup, maxDelete |-> f.maxDelete,
              sums |-> f.sums, hash |-> f.hash, retain |-> f.retain]
      /\ f.entry \in {"copy", "move"} => ~f.sync
      /\ f.entry \in {"copy", "move", "task"} => f.maxDelete = Unlimited
  BY <1>1 DEF IsForm
<1>3. f.entry \in {"panel", "schedule", "mcp"} => "additive" \notin f.flags
  <2>1. f.flags \subseteq FieldsOf(f)
    BY <1>1 DEF IsForm
  <2>2. f.entry \in {"panel", "schedule", "mcp"} => "additive" \notin FieldsOf(f)
    BY KindsAre DEF FieldsOf, PanelFields, P!Common, P!Conditions, P!Patterns, P!Filters,
       P!CheckFlags,
       P!BisyncFlags, P!ScheduleFlags, P!ToolFlags
  <2> QED BY <2>1, <2>2
<1>4. CASE f.entry \in {"panel", "schedule"}
  <2>1. \E flags : r = [f EXCEPT !.sync = f.sync, !.flags = flags]
    BY <1>4 DEF P!RequestOf, P!PanelRequest, P!ScheduleRequest, P!Request
  <2> HIDE DEF r
  <2>2. /\ r.entry = f.entry /\ r.kind = f.kind /\ r.from = f.from /\ r.to = f.to
        /\ r.source = f.source /\ r.target = f.target /\ r.blank = f.blank
        /\ r.maxDelete = f.maxDelete /\ r.sync = f.sync /\ r.backup = f.backup
    BY <1>2, <2>1
  <2> QED BY <1>3, <1>4, <2>2 DEF P!TaskMirrors, r
<1>5. CASE f.entry = "mcp"
  <2>1. \E flags : r = [f EXCEPT !.sync = f.sync, !.flags = flags, !.backup = <<>>]
    BY <1>5 DEF P!RequestOf, P!ToolRequest, P!Plain, P!Absent
  <2> HIDE DEF r
  <2>2. /\ r.entry = f.entry /\ r.kind = f.kind /\ r.from = f.from /\ r.to = f.to
        /\ r.source = f.source /\ r.target = f.target /\ r.blank = f.blank
        /\ r.maxDelete = f.maxDelete /\ r.sync = f.sync /\ r.backup = <<>>
    BY <1>2, <2>1
  <2> QED BY <1>3, <1>5, <2>2 DEF P!TaskMirrors, r
<1>6. CASE f.entry = "task"
  <2>1. \E flags : r = [f EXCEPT !.sync = P!TaskMirrors(f), !.flags = flags, !.backup = <<>>,
                                 !.maxDelete = Unlimited]
    BY <1>6 DEF P!RequestOf, P!TaskRequest, P!Plain, P!Absent
  <2> HIDE DEF r
  <2>2. /\ r.entry = f.entry /\ r.kind = f.kind /\ r.from = f.from /\ r.to = f.to
        /\ r.source = f.source /\ r.target = f.target /\ r.blank = f.blank
        /\ r.maxDelete = f.maxDelete /\ r.sync = P!TaskMirrors(f) /\ r.backup = <<>>
    BY <1>2, <1>6, <2>1
  <2> QED BY <1>6, <2>2 DEF r
<1>7. CASE f.entry \in {"copy", "move"}
  <2>1. r = [f EXCEPT !.sync = FALSE, !.flags = {}, !.backup = <<>>, !.maxDelete = Unlimited]
    BY <1>7 DEF P!RequestOf, P!CopyRequest, P!Plain, P!Absent
  <2> HIDE DEF r
  <2>2. /\ r.entry = f.entry /\ r.kind = f.kind /\ r.from = f.from /\ r.to = f.to
        /\ r.source = f.source /\ r.target = f.target /\ r.blank = f.blank
        /\ r.maxDelete = f.maxDelete /\ ~r.sync /\ r.backup = <<>>
    BY <1>2, <1>7, <2>1
  <2> QED BY <1>2, <1>7, <2>2 DEF P!TaskMirrors, r
<1> QED BY KindsAre, <1>4, <1>5, <1>6, <1>7

(* Of what a form says of the files, what a body says.                     *)
LEMMA KeysAre ==
    ASSUME NEW f \in Forms, f.kind = "dir", NEW K, K = P!DirKeys(P!RequestOf(f))
    PROVE  /\ "dry_run" \in K <=> "dry_run" \in f.flags /\ f.entry \notin {"copy", "move"}
           /\ K \cap f.blank = {}
           /\ f.flags \cap {"spare", "ignore_existing", "immutable"} # {} <=>
                  "ignore_existing" \in K \/ "immutable" \in K
           /\ (f.flags \ f.blank) \cap (P!Patterns \cup P!Filters \cup {"shallow", "existing"}) = {}
                  => K \cap (P!Patterns \cup P!Filters) = {} /\ "existing" \notin K
           /\ K \cap {"checksum", "ignore_times", "afresh"} = {} =>
                  f.flags \cap {"checksum", "ignore_times", "afresh"} = {}
           /\ "update" \in K => "update" \in f.flags
           /\ "suffix" \in K => "suffix" \in f.flags
           /\ f.entry \in {"panel", "schedule"} =>
                  ("suffix" \in K <=> "suffix" \in f.flags \ f.blank)
           /\ K \subseteq P!Common \cup P!Conditions \cup {"dry_run"}
<1> DEFINE Vocabulary ==
        /\ P!Patterns = {"include", "exclude"}
        /\ P!Filters = {"min_size", "max_size", "min_age", "max_age"}
        /\ P!Common = {"include", "exclude", "suffix", "transfers", "checkers", "retries"}
        /\ P!Conditions = {"min_size", "max_size", "min_age", "max_age", "metadata", "update",
                           "existing", "immutable", "checksum", "ignore_existing", "ignore_times"}
<1>1. Vocabulary
  BY DEF P!Patterns, P!Filters, P!Common, P!Conditions
<1>2. f.blank \subseteq
          {"include", "exclude", "min_size", "max_size", "min_age", "max_age", "suffix"}
  BY FormsAre, <1>1 DEF IsForm
<1>3. f.flags \subseteq FieldsOf(f)
  BY FormsAre DEF IsForm
<1>4. f = [entry |-> f.entry, kind |-> f.kind, from |-> f.from, source |-> f.source,
           to |-> f.to, target |-> f.target, sync |-> f.sync, flags |-> f.flags,
           blank |-> f.blank, backup |-> f.backup, maxDelete |-> f.maxDelete,
           sums |-> f.sums, hash |-> f.hash, retain |-> f.retain]
  BY FormsAre DEF IsForm
<1> DEFINE r == P!RequestOf(f)
<1>5. K = ((r.flags \ r.blank) \cap (P!Common \cup P!Conditions)) \cup (r.flags \cap {"dry_run"})
  BY DEF P!DirKeys, P!NonBlank
<1>6. CASE f.entry \in {"panel", "schedule"}
  <2>1. /\ f.flags \subseteq P!Common \cup P!Conditions \cup {"dry_run"} \cup
            (IF f.entry = "schedule" THEN {"resync"} ELSE {})
        /\ f.entry = "schedule" => f.flags \cap {"checksum", "ignore_existing", "ignore_times"} = {}
    BY <1>1, <1>3, <1>6 DEF FieldsOf, PanelFields, P!ScheduleFlags, P!BisyncFlags
  <2>2. r.flags = (IF f.entry = "panel" THEN f.flags ELSE f.flags \cap P!ScheduleFlags)
        /\ r.blank = f.blank
    <3>1. r = [f EXCEPT !.sync = f.sync, !.flags = IF f.entry = "panel" THEN f.flags
                                                   ELSE f.flags \cap P!ScheduleFlags]
      BY <1>6 DEF P!RequestOf, P!PanelRequest, P!ScheduleRequest, P!Request
    <3> HIDE DEF r
    <3> QED BY <1>4, <3>1
  <2>3. P!ScheduleFlags = (P!Common \cup P!Conditions \cup {"dry_run"})
                              \ {"checksum", "ignore_existing", "ignore_times"}
    BY DEF P!ScheduleFlags
  <2> HIDE DEF r
  <2>4. \A k : k \in K <=> k \in f.flags /\ (k = "dry_run" \/ (k \notin f.blank /\
                                                k \in P!Common \cup P!Conditions))
    <3>1. "dry_run" \notin f.blank
      BY <1>2
    <3>2. \A k : k \in r.flags => k \in f.flags
      BY <2>2
    <3>3. \A k : k \in f.flags /\ (k = "dry_run" \/ k \in P!Common \cup P!Conditions)
                    => k \in r.flags
      <4> SUFFICES ASSUME NEW k \in f.flags, k = "dry_run" \/ k \in P!Common \cup P!Conditions
                   PROVE  k \in r.flags
        OBVIOUS
      <4>1. CASE f.entry = "panel"
        BY <2>2, <4>1
      <4>2. CASE f.entry = "schedule"
        <5>1. k \notin {"checksum", "ignore_existing", "ignore_times"}
          BY <2>1, <4>2
        <5>2. k \in P!ScheduleFlags
          BY <2>3, <5>1
        <5> QED BY <2>2, <4>2, <5>2
      <4> QED BY <1>6, <4>1, <4>2
    <3>4. r.blank = f.blank
      BY <2>2
    <3>5. \A k : k \in K <=> k \in r.flags /\ (k = "dry_run" \/ (k \notin r.blank /\
                                                k \in P!Common \cup P!Conditions))
      BY <1>5, <3>1, <3>4
    <3> QED BY <3>2, <3>3, <3>4, <3>5
  <2>5. "spare" \notin f.flags /\ "shallow" \notin f.flags /\ "afresh" \notin f.flags
    <3>1. f.flags \subseteq P!Common \cup P!Conditions \cup {"dry_run", "resync"}
      BY <2>1
    <3>2. {"spare", "shallow", "afresh"} \cap (P!Common \cup P!Conditions) = {}
      BY <1>1
    <3> QED BY <3>1, <3>2
  <2>6. /\ "dry_run" \in K <=> "dry_run" \in f.flags
        /\ K \cap f.blank = {}
        /\ "update" \in K => "update" \in f.flags
        /\ "suffix" \in K <=> "suffix" \in f.flags \ f.blank
    BY <1>1, <1>2, <2>4
  <2>7. f.flags \cap {"spare", "ignore_existing", "immutable"} # {} <=>
            "ignore_existing" \in K \/ "immutable" \in K
    BY <1>1, <1>2, <2>4, <2>5
  <2>8. (f.flags \ f.blank) \cap (P!Patterns \cup P!Filters \cup {"shallow", "existing"}) = {}
            => K \cap (P!Patterns \cup P!Filters) = {} /\ "existing" \notin K
    BY <1>1, <1>2, <2>4
  <2>9. K \cap {"checksum", "ignore_times", "afresh"} = {} =>
            f.flags \cap {"checksum", "ignore_times", "afresh"} = {}
    BY <1>1, <1>2, <2>4, <2>5
  <2>10. K \subseteq P!Common \cup P!Conditions \cup {"dry_run"}
    BY <2>4
  <2> QED BY <1>6, <2>6, <2>7, <2>8, <2>9, <2>10
<1>7. CASE f.entry = "mcp"
  <2>1. r = [f EXCEPT !.sync = f.sync, !.flags = f.flags \cap {"dry_run"}, !.backup = <<>>]
    BY <1>7 DEF P!RequestOf, P!ToolRequest, P!Plain, P!Absent, P!ToolFlags
  <2> HIDE DEF r
  <2>2. r.flags = f.flags \cap {"dry_run"} /\ r.blank = f.blank
    BY <1>4, <2>1
  <2>3. f.flags \subseteq {"dry_run"}
    BY <1>3, <1>7 DEF FieldsOf, P!ToolFlags
  <2>4. \A k : k \in K <=> k \in f.flags /\ k = "dry_run"
    BY <1>1, <1>5, <2>2
  <2> QED BY <1>1, <1>2, <1>7, <2>3, <2>4
<1>8. CASE f.entry = "task"
  <2>1. r = [f EXCEPT !.sync = P!TaskMirrors(f), !.flags = P!TaskFlags(f.flags), !.backup = <<>>,
                      !.maxDelete = Unlimited]
    BY <1>8 DEF P!RequestOf, P!TaskRequest, P!Plain, P!Absent
  <2> HIDE DEF r
  <2>2. r.flags = P!TaskFlags(f.flags) /\ r.blank = f.blank
    BY <1>4, <2>1
  <2>3. f.flags \subseteq TaskConfig /\ f.blank = {}
    <3>1. f.blank = {}
      BY <1>8, FormsAre DEF IsForm
    <3>2. FieldsOf(f) = TaskConfig
      BY <1>8 DEF FieldsOf
    <3> QED BY <1>3, <3>1, <3>2
  <2>4. \A k : k \in K <=> \/ k \in f.flags /\ k \in {"dry_run", "checksum", "transfers"}
                           \/ k = "ignore_existing" /\ "spare" \in f.flags
                           \/ k = "ignore_times" /\ "afresh" \in f.flags
                           \/ k = "include" /\ "shallow" \in f.flags
    <3>1. \A k : k \in r.flags <=> \/ k \in f.flags /\ k \in {"dry_run", "checksum", "transfers"}
                                   \/ k = "ignore_existing" /\ "spare" \in f.flags
                                   \/ k = "ignore_times" /\ "afresh" \in f.flags
                                   \/ k = "include" /\ "shallow" \in f.flags
      BY <2>2 DEF P!TaskFlags, P!TaskFlagsOf
    <3>2. \A k : k \in K <=> k \in r.flags /\ k \in P!Common \cup P!Conditions \cup {"dry_run"}
      BY <1>5, <2>2, <2>3
    <3> QED BY <1>1, <3>1, <3>2
  <2>5. f.flags \cap {"ignore_existing", "ignore_times", "immutable", "suffix", "existing",
                       "update"} = {}
    BY <2>3 DEF TaskConfig
  <2>6. f.flags \cap {"spare", "ignore_existing", "immutable"} # {} <=>
            "ignore_existing" \in K \/ "immutable" \in K
    BY <2>4, <2>5
  <2>7. (f.flags \ f.blank) \cap (P!Patterns \cup P!Filters \cup {"shallow", "existing"}) = {}
            => K \cap (P!Patterns \cup P!Filters) = {} /\ "existing" \notin K
    BY <1>1, <2>3, <2>4
  <2>8. K \cap {"checksum", "ignore_times", "afresh"} = {} =>
            f.flags \cap {"checksum", "ignore_times", "afresh"} = {}
    BY <2>4, <2>5
  <2>9. ("dry_run" \in K <=> "dry_run" \in f.flags) /\ K \cap f.blank = {} /\ "update" \notin K
        /\ "suffix" \notin K /\ K \subseteq P!Common \cup P!Conditions \cup {"dry_run"}
    BY <1>1, <2>3, <2>4
  <2> QED BY <1>8, <2>6, <2>7, <2>8, <2>9
<1>9. CASE f.entry \in {"copy", "move"}
  <2>1. r = [f EXCEPT !.sync = FALSE, !.flags = {}, !.backup = <<>>, !.maxDelete = Unlimited]
    BY <1>9 DEF P!RequestOf, P!CopyRequest, P!Plain, P!Absent
  <2> HIDE DEF r
  <2>2. r.flags = {} /\ f.flags = {}
    <3>1. FieldsOf(f) = {}
      BY <1>9 DEF FieldsOf
    <3>2. r.flags = {}
      BY <1>4, <2>1
    <3> QED BY <1>3, <3>1, <3>2
  <2>3. K = {}
    BY <1>5, <2>2
  <2> QED BY <1>9, <2>2, <2>3
<1> QED BY KindsAre, <1>6, <1>7, <1>8, <1>9

LEMMA BisyncKeysAre ==
    ASSUME NEW f \in Forms, f.kind = "bisync"
    PROVE  /\ "dry_run" \in P!BisyncKeys(P!RequestOf(f)) <=> "dry_run" \in f.flags
           /\ f.entry \in {"panel", "schedule"}
<1>1. f.entry \in {"panel", "schedule"}
  BY KindsAre
<1>2. f = [entry |-> f.entry, kind |-> f.kind, from |-> f.from, source |-> f.source,
           to |-> f.to, target |-> f.target, sync |-> f.sync, flags |-> f.flags,
           blank |-> f.blank, backup |-> f.backup, maxDelete |-> f.maxDelete,
           sums |-> f.sums, hash |-> f.hash, retain |-> f.retain]
  BY FormsAre DEF IsForm
<1> DEFINE r == P!RequestOf(f)
<1>3. r = [f EXCEPT !.sync = f.sync, !.flags = IF f.entry = "panel" THEN f.flags
                                               ELSE f.flags \cap P!BisyncFlags]
  BY <1>1 DEF P!RequestOf, P!PanelRequest, P!ScheduleRequest, P!Request
<1> HIDE DEF r
<1>4. r.flags = IF f.entry = "panel" THEN f.flags ELSE f.flags \cap P!BisyncFlags
  BY <1>2, <1>3
<1> QED BY <1>1, <1>4 DEF r, P!BisyncKeys, P!BisyncFlags

------------------------------------------------------------------------------
(* Where a job works.                                                      *)
Tie(b) == b.root \in Seq(Seq(STRING)) /\ P!FlattenSeq(b.root) \in Seq(STRING)

LEMMA WordsArePaths == Seq(Seq(STRING)) \subseteq Paths
<1>1. Seq(STRING) \subseteq Parts
  BY SeqMonotonic DEF Parts, Words
<1>2. \A path \in Seq(Seq(STRING)) : path \in Seq(Parts)
  BY <1>1, SeqMonotonic
<1> QED BY <1>2 DEF Paths

LEMMA SanitizeTyped ==
    ASSUME NEW path \in Paths
    PROVE  P!Sanitize(path) \in Paths
<1>1. P!Normal(path) = Q!Normal(path)
  BY DEF P!Normal, Q!Normal, P!Follows, Q!Follows, P!Front, Q!Front, P!Outside, Q!Outside
<1>2. PICK g : Unrolls(g, path)
  BY NormalUnrolls
<1>3. Len(path) \in Nat
  BY PathsAre
<1>4. Q!Normal(path) \in Paths
  BY <1>2, <1>3 DEF Unrolls
<1>5. P!Outside = Q!Outside
  BY DEF P!Outside, Q!Outside
<1> QED BY <1>1, <1>4, <1>5, PathsAre DEF P!Sanitize

LEMMA OutsideIs == P!Outside \in Paths /\ P!Outside # <<>> /\ Len(P!Outside) = 1
<1>1. P!Outside = Q!Outside
  BY DEF P!Outside, Q!Outside
<1>2. P!Outside = <<<<"..">>>>
  BY DEF P!Outside
<1> QED BY <1>1, <1>2, PathsAre

LEMMA RootTyped ==
    ASSUME NEW b, Tie(b)
    PROVE  P!CanonicalRoot(b.root) \in Paths /\ P!CanonicalRoot(b.root) # P!Outside
<1> DEFINE words == P!FlattenSeq(b.root)
           way == IF b.root[1][1] \in P!Drives THEN P!Slashed(b.root) ELSE b.root
<1>1. words \in Seq(STRING)
  BY DEF Tie
<1>2. P!Slashed(b.root) = [i \in DOMAIN words |-> <<words[i]>>]
  BY DEF P!Slashed
<1>3. P!Slashed(b.root) \in Seq(Seq(STRING))
  <2> HIDE DEF words
  <2>1. Len(words) \in Nat /\ DOMAIN words = 1..Len(words)
    BY <1>1, LenProperties
  <2>2. \A i \in 1..Len(words) : <<words[i]>> \in Seq(STRING)
    BY <1>1, ElementOfSeq
  <2>3. [i \in 1..Len(words) |-> <<words[i]>>] \in Seq(Seq(STRING))
    BY <2>1, <2>2, IsASeq
  <2> QED BY <1>2, <2>1, <2>3
<1>4. way \in Seq(Seq(STRING))
  BY <1>3 DEF Tie
<1>5. way \in Paths
  BY <1>4, WordsArePaths
<1> HIDE DEF way
<1>6. P!Sanitize(way) \in Paths
  BY <1>5, SanitizeTyped
<1>7. P!CanonicalRoot(b.root) = IF P!Sanitize(way) = P!Outside THEN <<>> ELSE P!Sanitize(way)
  BY DEF P!CanonicalRoot, way
<1> QED BY <1>6, <1>7, PathsAre, OutsideIs

LEMMA TailTyped ==
    ASSUME NEW path \in Paths, NEW top \in Paths
    PROVE  SubSeq(path, Len(top) + 1, Len(path)) \in Paths
<1> DEFINE n == Len(path)
           m == Len(top) + 1
<1>1. m \in Int /\ n \in Int /\ 1 <= m /\ \A i \in 1..n : path[i] \in Parts
  BY PathsAre
<1> HIDE DEF n, m
<1>2. \A i \in m..n : path[i] \in Parts
  BY <1>1
<1>3. SubSeq(path, m, n) \in Seq(Parts)
  BY <1>1, <1>2, SubSeqProperties
<1> QED BY <1>3 DEF n, m, Paths

LEMMA GateTyped ==
    ASSUME NEW b, Tie(b), NEW path \in Seq(Seq(STRING))
    PROVE  P!Gate(b, path) \in Paths
<1> DEFINE top == P!CanonicalRoot(b.root)
           clean == P!Sanitize(path)
<1>1. top \in Paths /\ clean \in Paths
  BY RootTyped, SanitizeTyped, WordsArePaths
<1>2. P!Gate(b, path) \in {clean, P!Sanitize(clean), SubSeq(clean, Len(top) + 1, Len(clean))}
  BY DEF P!Gate, P!Resolve
<1> HIDE DEF top, clean
<1> QED BY <1>1, <1>2, SanitizeTyped, TailTyped

LEMMA JoinTyped ==
    ASSUME NEW a \in Paths, NEW b \in Paths
    PROVE  /\ a \o b \in Paths
           /\ a # P!Outside /\ b # P!Outside => a \o b # P!Outside
<1>1. a \in Seq(Parts) /\ b \in Seq(Parts)
  BY DEF Paths
<1>2. a \o b \in Seq(Parts) /\ Len(a \o b) = Len(a) + Len(b)
  BY <1>1, ConcatProperties
<1>3. a = <<>> => a \o b = b
  BY <1>1, ConcatEmptySeq
<1>4. b = <<>> => a \o b = a
  BY <1>1, ConcatEmptySeq
<1>5. a # <<>> /\ b # <<>> => Len(a) \in Nat /\ Len(a) # 0 /\ Len(b) \in Nat /\ Len(b) # 0
  BY PathsAre
<1>6. a # <<>> /\ b # <<>> => Len(a \o b) # 1
  BY <1>2, <1>5
<1> QED BY <1>2, <1>3, <1>4, <1>6, OutsideIs DEF Paths

LEMMA FsIs ==
    ASSUME NEW c \in Connections, NEW b, Tie(b), NEW rel \in Paths
    PROVE  /\ IsFs(P!Fs(c, b, rel)) /\ P!Fs(c, b, rel).on = c
           /\ rel # P!Outside => P!Fs(c, b, rel) # P!NoFs
<1> DEFINE path == P!CanonicalRoot(b.root) \o rel
<1>1. path \in Paths /\ (rel # P!Outside => path # P!Outside)
  BY RootTyped, JoinTyped
<1>2. P!Fs(c, b, rel) = [on |-> c, path |-> path]
  BY DEF P!Fs
<1>3. P!NoFs = [on |-> P!AnyForm.from, path |-> P!Outside]
  BY DEF P!NoFs
<1> HIDE DEF path
<1>4. P!Fs(c, b, rel).path = path /\ P!NoFs.path = P!Outside /\ P!Fs(c, b, rel).on = c
  BY <1>2, <1>3
<1> QED BY <1>1, <1>4 DEF IsFs

(* Directories of one connection that overlap below its root.              *)
LEMMA FsOverlap ==
    ASSUME NEW c \in Connections, NEW b, Tie(b), NEW x \in Paths, NEW y \in Paths,
           P!Together(P!Fs(c, b, x), P!Fs(c, b, y))
    PROVE  P!Overlap(x, y)
<1> DEFINE top == P!CanonicalRoot(b.root)
<1>1. top \in Paths
  BY RootTyped
<1>2. P!Overlap(top \o x, top \o y)
  BY DEF P!Together, P!Fs
<1> HIDE DEF top
<1>3. top \in Seq(Parts) /\ x \in Seq(Parts) /\ y \in Seq(Parts)
  BY <1>1 DEF Paths
<1>4. P!IsPrefix(top \o x, top \o y) => P!IsPrefix(x, y)
  BY <1>3, RootedOverlap
<1>5. P!IsPrefix(top \o y, top \o x) => P!IsPrefix(y, x)
  BY <1>3, RootedOverlap
<1> QED BY <1>2, <1>4, <1>5 DEF P!Overlap

------------------------------------------------------------------------------
(* What is kept of what is replaced.                                       *)
LEMMA StartIs ==
    ASSUME NEW S, NEW q \in Seq(S), NEW n \in Nat, Len(q) = n + 1
    PROVE  /\ SubSeq(q, 1, n) \in Seq(S) /\ Len(SubSeq(q, 1, n)) = n
           /\ \A i \in 1..n : SubSeq(q, 1, n)[i] = q[i]
<1>1. \A i \in 1..n : q[i] \in S
  BY ElementOfSeq
<1>2. n = n - 1 + 1 /\ 1 \in Int /\ n \in Int
  OBVIOUS
<1>3. /\ SubSeq(q, 1, n) \in Seq(S) /\ Len(SubSeq(q, 1, n)) = n
      /\ \A i \in 1..n : SubSeq(q, 1, n)[i] = q[1 + i - 1]
  BY <1>1, <1>2, SliceIs
<1>4. \A i \in 1..n : 1 + i - 1 = i
  OBVIOUS
<1> QED BY <1>3, <1>4

LEMMA LastIs ==
    ASSUME NEW S, NEW s \in Seq(S), NEW e \in S, NEW q, q = Append(s, e)
    PROVE  q \in Seq(S) /\ q # <<>> /\ P!Last(q) = e /\ P!Front(q) = s
<1> DEFINE n == Len(s)
           t == SubSeq(q, 1, n)
<1>1. /\ q \in Seq(S) /\ q # <<>> /\ Len(q) = n + 1 /\ q[n + 1] = e
      /\ \A i \in 1..n : q[i] = s[i]
  BY AppendProperties
<1>2. n \in Nat
  BY LenProperties
<1>3. P!Last(q) = e
  BY <1>1 DEF P!Last
<1>4. s \in Seq(S) /\ Len(s) = n
  OBVIOUS
<1> HIDE DEF n
<1>5. t \in Seq(S) /\ Len(t) = n /\ \A i \in 1..n : t[i] = q[i]
  BY <1>1, <1>2, StartIs
<1>6. P!Front(q) = t
  <2>1. Len(q) - 1 = n
    BY <1>1, <1>2
  <2> QED BY <2>1 DEF P!Front
<1> HIDE DEF t
<1>7. t = s
  BY <1>1, <1>4, <1>5, SeqEqual
<1> QED BY <1>1, <1>3, <1>6, <1>7

LEMMA EndsIn ==
    ASSUME NEW q \in Relative
    PROVE  /\ P!Front(q) \in Paths /\ P!Last(q) \in Parts /\ q = Append(P!Front(q), P!Last(q))
<1>1. q \in Seq(Parts) /\ q # <<>>
  BY DEF Relative, Paths
<1>2. PICK s \in Seq(Parts), e \in Parts : q = Append(s, e)
  BY <1>1, SequenceEmptyOrAppend
<1>3. P!Last(q) = e /\ P!Front(q) = s
  BY <1>2, LastIs
<1> QED BY <1>2, <1>3 DEF Paths

LEMMA KeptIs ==
    ASSUME NEW keys, NEW q \in Relative
    PROVE  /\ P!KeptAt(keys, q) \in Relative
           /\ "suffix" \notin keys => P!KeptAt(keys, q) = q
           /\ "suffix" \in keys =>
                 LET k == P!KeptAt(keys, q)
                 IN /\ P!Last(k) # <<>> /\ P!Last(P!Last(k)) = "~"
                    /\ P!Front(k) = P!Front(q) /\ P!Front(P!Last(k)) = P!Last(q)
<1> DEFINE last == Append(P!Last(q), "~")
           k == Append(P!Front(q), last)
<1>1. P!Front(q) \in Seq(Parts) /\ P!Last(q) \in Seq(Words)
  BY EndsIn DEF Paths, Parts
<1>2. "~" \in Words
  BY DEF Words
<1>3. \A x : x = last =>
          x \in Seq(Words) /\ x # <<>> /\ P!Last(x) = "~" /\ P!Front(x) = P!Last(q)
  BY <1>1, <1>2, LastIs
<1>4. last \in Parts /\ last # <<>> /\ P!Last(last) = "~" /\ P!Front(last) = P!Last(q)
  BY <1>3 DEF Parts
<1> HIDE DEF last
<1>5. \A x : x = k => x \in Seq(Parts) /\ x # <<>> /\ P!Last(x) = last /\ P!Front(x) = P!Front(q)
  BY <1>1, <1>4, LastIs
<1>6. k \in Relative /\ P!Last(k) = last /\ P!Front(k) = P!Front(q)
  BY <1>5 DEF Relative, Paths
<1>7. "suffix" \in keys => P!KeptAt(keys, q) = k
  BY DEF P!KeptAt, last
<1> HIDE DEF k
<1>8. "suffix" \notin keys => P!KeptAt(keys, q) = q
  BY DEF P!KeptAt
<1> QED BY <1>4, <1>6, <1>7, <1>8

LEMMA KeptOnce ==
    ASSUME NEW keys, NEW q \in Relative, NEW x \in Relative, P!KeptAt(keys, q) = P!KeptAt(keys, x)
    PROVE  q = x
<1>1. CASE "suffix" \notin keys
  BY <1>1, KeptIs
<1>2. CASE "suffix" \in keys
  <2>1. P!Front(q) = P!Front(x) /\ P!Last(q) = P!Last(x)
    BY <1>2, KeptIs
  <2> QED BY <2>1, EndsIn
<1> QED BY <1>1, <1>2

LEMMA OldIs ==
    ASSUME NEW T, NEW gone, gone \subseteq Relative
    PROVE  LET old == P!Kept(T, gone)
               K(q) == P!KeptAt(plan.body.keys, q)
           IN /\ DOMAIN old \subseteq Relative
              /\ \A q \in gone : K(q) \in DOMAIN old /\ old[K(q)] = T[q]
              /\ \A k \in DOMAIN old : \E q \in gone : k = K(q)
<1> DEFINE K(q) == P!KeptAt(plan.body.keys, q)
           dom == {K(q) : q \in gone}
           old == P!Kept(T, gone)
<1>1. old = [k \in dom |-> T[CHOOSE q \in gone : K(q) = k]]
  BY DEF P!Kept
<1> HIDE DEF old
<1>2. DOMAIN old = dom
  BY <1>1
<1>3. \A q \in gone : K(q) \in Relative
  BY KeptIs
<1>4. ASSUME NEW q \in gone
      PROVE  old[K(q)] = T[q]
  <2> DEFINE x == CHOOSE y \in gone : K(y) = K(q)
  <2>1. x \in gone /\ K(x) = K(q)
    OBVIOUS
  <2>2. old[K(q)] = T[x]
    BY <1>1
  <2> HIDE DEF x
  <2>3. x = q
    BY <2>1, KeptOnce
  <2> QED BY <2>2, <2>3
<1> QED BY <1>2, <1>3, <1>4 DEF old

------------------------------------------------------------------------------
(* The forests at the start of a job.                                      *)
LEMMA ForestsAre ==
    ASSUME NEW t \in Forests
    PROVE  /\ Mapped(t)
           /\ \A c \in Connections : IsFiniteSet(DOMAIN t[c])
           /\ \A c \in Connections : \A p \in DOMAIN t[c] :
                 p # <<>> /\ P!Last(p) # <<>> => P!Last(P!Last(p)) # "~"
<1>1. IsForest(t)
  BY PlanAssumption
<1>2. Mapped(t)
  BY <1>1, WordsArePaths DEF IsForest, Mapped
<1> QED BY <1>1, <1>2 DEF IsForest

LEMMA BelowLast ==
    ASSUME NEW a \in Paths, NEW q \in Relative
    PROVE  P!Last(a \o q) = P!Last(q) /\ a \o q # <<>>
<1>1. a \in Seq(Parts) /\ q \in Seq(Parts) /\ q # <<>>
  BY DEF Relative, Paths
<1>2. /\ a \o q \in Seq(Parts) /\ Len(a \o q) = Len(a) + Len(q)
      /\ \A i \in 1..(Len(a) + Len(q)) : (a \o q)[i] = IF i <= Len(a) THEN a[i] ELSE q[i - Len(a)]
  BY <1>1, ConcatProperties
<1>3. Len(a) \in Nat /\ Len(q) \in Nat /\ Len(q) # 0
  BY <1>1, LenProperties, EmptySeq
<1> DEFINE n == Len(a) + Len(q)
<1>4. n \in 1..(Len(a) + Len(q)) /\ ~(n <= Len(a)) /\ n - Len(a) = Len(q) /\ n # 0
  BY <1>3
<1> HIDE DEF n
<1>5. (a \o q)[n] = q[Len(q)]
  BY <1>2, <1>4
<1>6. Len(a \o q) = n
  BY <1>2 DEF n
<1>7. a \o q # <<>>
  BY <1>2, <1>4, <1>6, EmptySeq
<1> QED BY <1>5, <1>6, <1>7 DEF P!Last

LEMMA FilesFresh ==
    ASSUME NEW t \in Forests, NEW fs, IsFs(fs)
    PROVE  /\ IsFiniteSet(DOMAIN P!Files(t, fs))
           /\ \A q \in DOMAIN P!Files(t, fs) : P!Last(q) # <<>> => P!Last(P!Last(q)) # "~"
<1> DEFINE held == P!Files(t, fs)
           ps == P!PathsIn(t, fs)
           f == [p \in ps |-> P!Below(fs, p)]
<1>1. Mapped(t) /\ fs.on \in Connections /\ fs.path \in Paths
  BY ForestsAre DEF IsFs
<1>2. ps \subseteq DOMAIN t[fs.on]
  BY DEF P!PathsIn
<1>3. IsFiniteSet(ps)
  BY <1>1, <1>2, ForestsAre, FS_Subset
<1>4. DOMAIN held = {P!Below(fs, p) : p \in ps}
  BY DEF P!Files
<1>5. f \in Surjection(ps, DOMAIN held)
  BY <1>4 DEF Surjection
<1>6. IsFiniteSet(DOMAIN held)
  <2> DEFINE dom == DOMAIN held
  <2>1. ExistsSurjection(ps, dom)
    BY <1>5 DEF ExistsSurjection
  <2>2. IsFiniteSet(ps)
    BY <1>3
  <2> HIDE DEF ps, dom
  <2>3. PICK g \in Surjection(ps, dom) : TRUE
    BY <2>1 DEF ExistsSurjection
  <2>4. IsFiniteSet(dom)
    BY <2>2, <2>3, FS_Surjection
  <2> QED BY <2>4 DEF dom
<1>7. ASSUME NEW q \in DOMAIN held, P!Last(q) # <<>>
      PROVE  P!Last(P!Last(q)) # "~"
  <2>1. q \in Relative /\ fs.path \o q \in DOMAIN t[fs.on]
    BY <1>1, FilesAre
  <2>2. P!Last(fs.path \o q) = P!Last(q) /\ fs.path \o q # <<>>
    BY <1>1, <2>1, BelowLast
  <2> DEFINE p == fs.path \o q
  <2>3. p \in DOMAIN t[fs.on] /\ p # <<>> /\ P!Last(p) # <<>>
    BY <1>7, <2>1, <2>2
  <2>4. P!Last(p) = P!Last(q)
    BY <2>2
  <2> HIDE DEF p
  <2>5. P!Last(P!Last(p)) # "~"
    BY <1>1, <2>3, ForestsAre
  <2> QED BY <2>4, <2>5
<1> QED BY <1>6, <1>7

------------------------------------------------------------------------------
(* What a copy leaves, below its target and its backup directory.          *)
NotKept(q) == P!Last(q) # <<>> => P!Last(P!Last(q)) # "~"

LEMMA TogetherIs ==
    ASSUME NEW fs, NEW gs
    PROVE  P!Together(fs, gs) <=> P!Together(gs, fs)
BY DEF P!Together, P!Overlap

Beside == {P!Target, plan.body.backup} \ {P!NoFs}

Landed(u, S, T, arrived, left) ==
    LET is == P!Files(u, P!Target)
        there == P!Files(u, plan.body.backup)
        K(q) == P!KeptAt(plan.body.keys, q)
    IN /\ Mapped(u) /\ Within(objects, u, Beside)
       /\ \A q \in arrived \cup (DOMAIN T \ left) : q \in DOMAIN is
       /\ plan.body.backup # P!NoFs \/ "suffix" \notin plan.body.keys =>
              DOMAIN is = arrived \cup (DOMAIN T \ left)
       /\ \A q \in DOMAIN is : NotKept(q) => q \in arrived \cup (DOMAIN T \ left)
       /\ \A q \in arrived : NotKept(q) => is[q] = S[q]
       /\ \A q \in DOMAIN T \ (arrived \cup left) : NotKept(q) => is[q] = T[q]
       /\ plan.body.backup # P!NoFs =>
              \A q \in (arrived \cap DOMAIN T) \cup left :
                  K(q) \in DOMAIN there /\ there[K(q)] = T[q]

LEMMA OutcomeIs ==
    ASSUME Mapped(objects), IsFs(P!Target), P!Target # P!NoFs,
           plan.body.backup # P!NoFs =>
               IsFs(plan.body.backup) /\ ~P!Together(plan.body.backup, P!Target),
           NEW S, DOMAIN S \subseteq Relative, NEW T, T = P!Files(objects, P!Target),
           NEW arrived \in SUBSET DOMAIN S, NEW left \in SUBSET DOMAIN T,
           NEW u, u = P!Outcome(S, T, arrived, left)
    PROVE  Landed(u, S, T, arrived, left)
<1> DEFINE gone == (arrived \cap DOMAIN T) \cup left
           K(q) == P!KeptAt(plan.body.keys, q)
           old == P!Kept(T, gone)
           came == [q \in arrived |-> S[q]]
           stayed == P!Restrict(T, DOMAIN T \ left)
           new == P!Over(came, stayed)
           trees == P!Placed(objects, P!Target, new)
           keeps == plan.body.backup
<1>1. DOMAIN T \subseteq Relative
  BY FilesAre
<1>2. gone \subseteq Relative
  BY <1>1
<1>3. /\ DOMAIN old \subseteq Relative
      /\ \A q \in gone : K(q) \in DOMAIN old /\ old[K(q)] = T[q]
      /\ \A k \in DOMAIN old : \E q \in gone : k = K(q)
  <2> HIDE DEF gone, old
  <2>1. /\ DOMAIN P!Kept(T, gone) \subseteq Relative
        /\ \A q \in gone : K(q) \in DOMAIN P!Kept(T, gone) /\ P!Kept(T, gone)[K(q)] = T[q]
        /\ \A k \in DOMAIN P!Kept(T, gone) : \E q \in gone : k = K(q)
    BY <1>2, OldIs
  <2> QED BY <2>1 DEF old
<1>4. /\ DOMAIN came = arrived /\ \A q \in arrived : came[q] = S[q]
      /\ DOMAIN stayed = DOMAIN T \ left /\ \A q \in DOMAIN T \ left : stayed[q] = T[q]
  BY DEF P!Restrict
<1> HIDE DEF came, stayed
<1>5. /\ DOMAIN new = arrived \cup (DOMAIN T \ left)
      /\ new = [q \in DOMAIN new |-> new[q]]
      /\ \A q \in arrived : new[q] = S[q]
      /\ \A q \in DOMAIN T \ (arrived \cup left) : new[q] = T[q]
  <2>1. DOMAIN new = DOMAIN came \cup DOMAIN stayed
    BY DEF P!Over
  <2>2. new = [q \in DOMAIN new |-> new[q]]
    BY DEF P!Over
  <2>3. \A q \in DOMAIN came : new[q] = came[q]
    BY DEF P!Over
  <2>4. \A q \in DOMAIN stayed \ DOMAIN came : new[q] = stayed[q]
    BY DEF P!Over
  <2> HIDE DEF new
  <2> QED BY <1>4, <2>1, <2>2, <2>3, <2>4
<1>6. DOMAIN new \subseteq Relative
  <2> HIDE DEF new
  <2> QED BY <1>1, <1>5
<1>7. ASSUME NEW q \in DOMAIN old, NotKept(q)
      PROVE  "suffix" \notin plan.body.keys
  <2> HIDE DEF old, gone
  <2>1. PICK x \in gone : q = K(x)
    BY <1>3
  <2>2. x \in Relative
    BY <1>2
  <2>3. "suffix" \in plan.body.keys => P!Last(K(x)) # <<>> /\ P!Last(P!Last(K(x))) = "~"
    BY <2>2, KeptIs
  <2> QED BY <1>7, <2>1, <2>3 DEF NotKept
<1>8. u = IF keeps # P!NoFs
          THEN P!Placed(trees, keeps, P!Over(old, P!Files(trees, keeps)))
          ELSE IF "suffix" \in plan.body.keys
               THEN P!Placed(objects, P!Target, P!Over(old, new)) ELSE trees
  BY DEF P!Outcome, P!Has, came, stayed
<1>9. Mapped(trees) /\ Spares(objects, trees, P!Target) /\ P!Files(trees, P!Target) = new
  <2> HIDE DEF new, trees
  <2>1. trees = P!Placed(objects, P!Target, new)
    BY DEF trees
  <2>2. new = [q \in DOMAIN new |-> new[q]]
    BY <1>5
  <2> QED BY <1>6, <2>1, <2>2, PlacedIs
<1> HIDE DEF new, trees, old, gone
<1>10. CASE keeps # P!NoFs
  <2> DEFINE was == P!Files(trees, keeps)
             both == P!Over(old, was)
  <2> HIDE DEF was
  <2>1. IsFs(keeps) /\ ~P!Together(keeps, P!Target)
    BY <1>10
  <2>2. DOMAIN was \subseteq Relative
    BY <1>9, <2>1, FilesAre DEF was
  <2>3. /\ DOMAIN both = DOMAIN old \cup DOMAIN was
        /\ both = [x \in DOMAIN both |-> both[x]]
        /\ \A x \in DOMAIN old : both[x] = old[x]
    BY DEF P!Over
  <2>4. u = P!Placed(trees, keeps, both)
    BY <1>8, <1>10 DEF was
  <2> HIDE DEF both
  <2>5. DOMAIN both \subseteq Relative
    BY <1>3, <2>2, <2>3
  <2>6. both = [x \in DOMAIN both |-> both[x]]
    BY <2>3
  <2>7. Mapped(u) /\ Spares(trees, u, keeps) /\ P!Files(u, keeps) = both
    BY <1>9, <2>1, <2>4, <2>5, <2>6, PlacedIs
  <2>8. P!Files(u, P!Target) = new
    BY <1>9, <2>1, <2>7, SparedFiles
  <2>9. Within(objects, u, Beside)
    <3>1. P!Target \in Beside /\ keeps \in Beside
      BY <1>10 DEF Beside
    <3>2. Within(objects, trees, Beside) /\ Within(trees, u, Beside)
      BY <1>9, <2>7, <3>1, SparesWithin
    <3> QED BY <3>2, WithinTwice
  <2>10. \A q \in gone : K(q) \in DOMAIN both /\ both[K(q)] = T[q]
    BY <1>3, <2>3
  <2> QED BY <1>5, <1>10, <2>7, <2>8, <2>9, <2>10 DEF gone, Landed
<1>11. CASE keeps = P!NoFs /\ "suffix" \in plan.body.keys
  <2> DEFINE both == P!Over(old, new)
  <2>1. /\ DOMAIN both = DOMAIN old \cup DOMAIN new
        /\ both = [x \in DOMAIN both |-> both[x]]
        /\ \A x \in DOMAIN new \ DOMAIN old : both[x] = new[x]
    BY DEF P!Over
  <2>2. u = P!Placed(objects, P!Target, both)
    BY <1>8, <1>11
  <2> HIDE DEF both
  <2>3. DOMAIN both \subseteq Relative
    BY <1>3, <1>6, <2>1
  <2>4. both = [x \in DOMAIN both |-> both[x]]
    BY <2>1
  <2>5. Mapped(u) /\ Spares(objects, u, P!Target) /\ P!Files(u, P!Target) = both
    BY <2>2, <2>3, <2>4, PlacedIs
  <2>6. Within(objects, u, Beside)
    BY <2>5, SparesWithin DEF Beside
  <2>7. \A q \in DOMAIN new : NotKept(q) => both[q] = new[q]
    BY <1>7, <1>11, <2>1
  <2>8. \A q \in DOMAIN both : NotKept(q) => q \in DOMAIN new
    BY <1>7, <1>11, <2>1
  <2> QED BY <1>5, <1>11, <2>1, <2>5, <2>6, <2>7, <2>8 DEF Landed
<1>12. CASE keeps = P!NoFs /\ "suffix" \notin plan.body.keys
  <2>1. u = trees
    BY <1>8, <1>12
  <2>2. Within(objects, u, Beside)
    BY <1>9, <2>1, SparesWithin DEF Beside
  <2> QED BY <1>5, <1>9, <1>12, <2>1, <2>2 DEF Landed
<1> QED BY <1>10, <1>11, <1>12

------------------------------------------------------------------------------
(* The inductive invariant of a job on directories.                        *)
PlanLabels == {"idle", "saved", "refused", "start", "probe", "running", "failed", "purge", "prune",
           "done"}
NotRun == {"idle", "saved", "refused", "start", "probe", "running"}
Started == {"probe", "running", "failed", "purge", "prune", "done"}
Compared == {"check", "sums"}
Written == {"dir", "bisync"}

PlanIs(p) ==
    p = [at |-> p.at, form |-> p.form, b |-> p.b, d |-> p.d, src |-> p.src, dst |-> p.dst,
         body |-> p.body, pruned |-> p.pruned, same |-> p.same]

Shaped ==
    /\ registry \in Registries /\ rebinds \in 0..MaxRebinds
    /\ plan.form \in Forms /\ plan.at \in PlanLabels /\ PlanIs(plan)
    /\ began \in Forests /\ Mapped(objects)

(* It was started with what its gates let by.                              *)
Request == P!RequestOf(plan.form)
Told(backup) ==
    /\ plan.body = P!Body(Request, plan.d, backup)
    /\ backup # P!Outside =>
          plan.form.kind = "dir" /\ Request.backup # <<>> /\ ~P!Overlap(backup, plan.dst)
Admitted ==
    plan.at \in Started =>
        /\ Tie(plan.b) /\ Tie(plan.d) /\ P!Gates(Request, plan.b, plan.d)
        /\ plan.form.kind \in Written => {plan.src, plan.dst} \subseteq Paths \ {P!Outside}
        /\ \E backup \in Paths : Told(backup)

(* Nothing is changed before it runs, and nothing at all by a comparison.  *)
Still == objects = began /\ plan.pruned = P!NoFs
Steady ==
    /\ plan.at \in NotRun => Still /\ ~plan.same
    /\ plan.form.kind \in Compared => Still /\ plan.at \notin {"purge", "prune"}
    /\ plan.form.kind \in Written => ~plan.same
    /\ plan.at \in {"purge", "prune", "failed"} => plan.pruned = P!NoFs
    /\ plan.at = "purge" => plan.form.entry = "move"
    /\ plan.form.kind = "sums" /\ plan.at \in {"running", "done"} => P!SumsThere

PlanInv == Shaped /\ Admitted /\ Steady /\ P!PlansAreKept

LEMMA CountIs == \A set : P!Cardinality(set) = Cardinality(set)
BY DEF P!Cardinality, Cardinality

LEMMA KindsApart ==
    ASSUME NEW f \in Forms
    PROVE  f.kind \in Compared \cup Written
BY KindsAre DEF Compared, Written

(* What an early or a comparing job leaves alone is as it should be.       *)
Unspoilt ==
    /\ Shaped /\ Still /\ P!ComparesTrue
    /\ plan.form.kind = "dir" /\ plan.at \in {"purge", "prune", "done"} => P!Dry
LEMMA StillIsKept == Unspoilt => P!PlansAreKept
<1> SUFFICES ASSUME Shaped, Still, P!ComparesTrue,
                    plan.form.kind = "dir" /\ plan.at \in {"purge", "prune", "done"} => P!Dry
             PROVE  P!PlansAreKept
  BY DEF Unspoilt
<1>1. P!Is = P!Was
  BY DEF Still, P!Is, P!Was
<1>2. P!StaysPut
  BY DEF Still, P!StaysPut
<1>3. P!LosesLittle
  <2> DEFINE gone == DOMAIN P!Was \ DOMAIN P!Is
  <2>1. gone = {}
    BY <1>1
  <2>2. plan.form.kind = "dir" => Cardinality(gone) <= plan.form.maxDelete
    <3>1. plan.form.maxDelete \in Nat
      BY FormsAre DEF IsForm, Shaped
    <3> QED BY <2>1, <3>1, FS_EmptySet
  <2>3. \A q \in DOMAIN P!Was \cap DOMAIN P!Is : P!Was[q] = P!Is[q]
    BY <1>1
  <2> QED BY <2>1, <2>2, <2>3, CountIs DEF P!LosesLittle, P!Form
<1>4. P!KeepsOld
  BY <1>1 DEF P!KeepsOld
<1>5. P!CopiesAll
  BY DEF P!CopiesAll, P!Form
<1> QED BY <1>2, <1>3, <1>4, <1>5 DEF P!PlansAreKept

LEMMA PlanStart == P!PlanInit => PlanInv
<1> SUFFICES ASSUME P!PlanInit PROVE PlanInv
  OBVIOUS
<1>1. P!AnyForm \in Forms
  BY PlanAssumption DEF P!AnyForm
<1>2. plan = [at |-> "idle", form |-> P!AnyForm, b |-> P!AnyBinding, d |-> P!AnyBinding,
              src |-> <<>>, dst |-> <<>>, body |-> P!NoBody, pruned |-> P!NoFs, same |-> FALSE]
  BY DEF P!PlanInit
<1>3. /\ plan.at = "idle" /\ plan.form = P!AnyForm /\ plan.pruned = P!NoFs /\ plan.same = FALSE
      /\ PlanIs(plan)
  BY <1>2 DEF PlanIs
<1>4. Shaped
  <2>1. objects \in Forests /\ began = objects /\ registry \in Registries /\ rebinds = 0
    BY DEF P!PlanInit
  <2>2. rebinds \in 0..MaxRebinds
    BY <2>1, PlanAssumption
  <2> QED BY <1>1, <1>3, <2>1, <2>2, ForestsAre DEF Shaped, PlanLabels
<1>5. Admitted
  BY <1>3 DEF Admitted, Started
<1>6. Still
  BY <1>3 DEF Still, P!PlanInit
<1>7. Steady
  BY <1>3, <1>6 DEF Steady
<1>8. P!PlansAreKept
  BY <1>3 DEF P!PlansAreKept, P!Ran
<1> QED BY <1>4, <1>5, <1>7, <1>8 DEF PlanInv

(* What is told to rclone of a job that was started.                       *)
Spots ==
    /\ IsFs(P!Source) /\ IsFs(P!Target) /\ P!NoFs \notin {P!Source, P!Target}
    /\ plan.body.backup # P!NoFs =>
          /\ plan.form.kind = "dir" /\ Request.backup # <<>>
          /\ IsFs(plan.body.backup) /\ ~P!Together(plan.body.backup, P!Target)
Running == Shaped /\ Admitted /\ plan.at \in Started

LEMMA SpotsAre == Running /\ plan.form.kind \in Written => Spots
<1> SUFFICES ASSUME Shaped, Admitted, plan.at \in Started, plan.form.kind \in Written
             PROVE  Spots
  BY DEF Running
<1>1. PICK backup \in Paths : Told(backup)
  BY DEF Admitted
<1>2. /\ Tie(plan.b) /\ Tie(plan.d) /\ plan.src \in Paths /\ plan.dst \in Paths
      /\ plan.src # P!Outside /\ plan.dst # P!Outside
  BY DEF Admitted
<1>3. plan.form \in Forms /\ plan.form.from \in Connections /\ plan.form.to \in Connections
  BY FormsAre DEF IsForm, Shaped
<1>4. P!Source = P!Fs(plan.form.from, plan.b, plan.src)
  BY DEF P!Source, Written
<1>5. P!Target = P!Fs(plan.form.to, plan.d, plan.dst)
  BY DEF P!Target
<1>6. IsFs(P!Source) /\ IsFs(P!Target) /\ P!NoFs \notin {P!Source, P!Target}
  BY <1>2, <1>3, <1>4, <1>5, FsIs
<1>7. plan.body.backup = IF backup = P!Outside THEN P!NoFs ELSE P!Fs(plan.form.to, plan.d, backup)
  <2>1. Request.to = plan.form.to
    BY <1>3, RequestsAre DEF Request
  <2>2. plan.body.backup = IF backup = P!Outside THEN P!NoFs ELSE P!Fs(Request.to, plan.d, backup)
    BY <1>1 DEF Told, P!Body
  <2> QED BY <2>1, <2>2
<1>8. ASSUME plan.body.backup # P!NoFs
      PROVE  /\ plan.form.kind = "dir" /\ Request.backup # <<>>
             /\ IsFs(plan.body.backup) /\ ~P!Together(plan.body.backup, P!Target)
  <2>1. backup # P!Outside
    BY <1>7, <1>8
  <2>2. plan.form.kind = "dir" /\ Request.backup # <<>> /\ ~P!Overlap(backup, plan.dst)
    BY <1>1, <2>1 DEF Told
  <2>3. plan.body.backup = P!Fs(plan.form.to, plan.d, backup)
    BY <1>7, <2>1
  <2>4. IsFs(plan.body.backup)
    BY <1>2, <1>3, <2>3, FsIs
  <2>5. ~P!Together(plan.body.backup, P!Target)
    BY <1>2, <1>3, <1>5, <2>2, <2>3, FsOverlap
  <2> QED BY <2>2, <2>4, <2>5
<1> QED BY <1>6, <1>8 DEF Spots

Says ==
    LET keys == plan.body.keys
        op == plan.body.op
    IN /\ plan.form.kind \in Compared => op = "operations/check"
       /\ plan.form.kind = "bisync" =>
             op = "sync/bisync" /\ keys = P!BisyncKeys(Request) /\ plan.d.allowDelete
       /\ plan.form.kind = "dir" =>
             /\ op \in {"sync/sync", "sync/copy"} /\ keys = P!DirKeys(Request)
             /\ op = "sync/sync" <=> P!TaskMirrors(plan.form)
             /\ op = "sync/sync" => plan.d.allowDelete
             /\ plan.body.maxDelete = plan.form.maxDelete
       /\ plan.form.kind \in Written => P!Writable(plan.d)

LEMMA BodyIs == Running => Says
<1> SUFFICES ASSUME Shaped, Admitted, plan.at \in Started PROVE Says
  BY DEF Running
<1>1. PICK backup \in Paths : plan.body = P!Body(Request, plan.d, backup)
  BY DEF Admitted, Told
<1>2. plan.form \in Forms
  BY DEF Shaped
<1>3. /\ Request.kind = plan.form.kind /\ Request.maxDelete = plan.form.maxDelete
      /\ Request.sync <=> P!TaskMirrors(plan.form)
  BY <1>2, RequestsAre DEF Request
<1>4. P!Gates(Request, plan.b, plan.d)
  BY DEF Admitted
<1> DEFINE r == Request
<1>5. /\ plan.body.op = P!Op(r)
      /\ plan.body.keys = CASE r.kind = "dir" -> P!DirKeys(r)
                            [] r.kind = "bisync" -> P!BisyncKeys(r)
                            [] OTHER -> P!CheckKeys(r)
      /\ plan.body.maxDelete = IF r.kind = "dir" THEN r.maxDelete ELSE Unlimited
  BY <1>1 DEF P!Body
<1>6. plan.form.kind = "dir" => P!DirGates(r, plan.b, plan.d)
  BY <1>3, <1>4 DEF P!Gates
<1>7. plan.form.kind = "bisync" => P!BisyncGates(r, plan.b, plan.d)
  BY <1>3, <1>4 DEF P!Gates
<1> HIDE DEF r
<1>8. CASE plan.form.kind = "dir"
  <2>1. plan.body.op = IF r.sync THEN "sync/sync" ELSE "sync/copy"
    BY <1>3, <1>5, <1>8 DEF P!Op, r
  <2>2. plan.body.keys = P!DirKeys(r) /\ plan.body.maxDelete = plan.form.maxDelete
    BY <1>3, <1>5, <1>8 DEF r
  <2>3. P!Writable(plan.d) /\ (r.sync => plan.d.allowDelete)
    BY <1>6, <1>8 DEF P!DirGates, P!Deletable
  <2> QED BY <1>3, <1>8, <2>1, <2>2, <2>3 DEF Says, Compared, r
<1>9. CASE plan.form.kind = "bisync"
  <2>1. plan.body.op = "sync/bisync" /\ plan.body.keys = P!BisyncKeys(r)
    BY <1>3, <1>5, <1>9 DEF P!Op, r
  <2>2. P!Writable(plan.d) /\ plan.d.allowDelete
    BY <1>7, <1>9 DEF P!BisyncGates, P!Deletable, P!Writable
  <2> QED BY <1>9, <2>1, <2>2 DEF Says, Compared, r
<1>10. CASE plan.form.kind \in Compared
  <2>1. plan.body.op = "operations/check"
    BY <1>3, <1>5, <1>10 DEF P!Op, r, Compared
  <2> QED BY <1>10, <2>1 DEF Says, Compared, Written
<1> QED BY <1>2, <1>8, <1>9, <1>10, KindsApart DEF Written

------------------------------------------------------------------------------
(* What a copy has left of what it came upon.                              *)
From == P!Files(began, P!Source)
Copied(arrived, left) ==
    LET there == P!Files(objects, plan.body.backup)
        K(q) == P!KeptAt(plan.body.keys, q)
    IN /\ plan.pruned = P!NoFs /\ "dry_run" \notin plan.body.keys
       /\ Within(began, objects, Beside)
       /\ arrived \subseteq DOMAIN From /\ left \subseteq DOMAIN P!Was \ DOMAIN From
       /\ \A q \in arrived : P!Travels(From, P!Was, q)
       /\ left # {} => plan.body.op = "sync/sync"
       /\ Cardinality(left) <= plan.body.maxDelete
       /\ \A q \in arrived \cup (DOMAIN P!Was \ left) : q \in DOMAIN P!Is
       /\ plan.body.backup # P!NoFs \/ "suffix" \notin plan.body.keys =>
              DOMAIN P!Is = arrived \cup (DOMAIN P!Was \ left)
       /\ \A q \in DOMAIN P!Is : NotKept(q) => q \in arrived \cup (DOMAIN P!Was \ left)
       /\ \A q \in arrived : NotKept(q) => P!Is[q] = From[q]
       /\ \A q \in DOMAIN P!Was \ (arrived \cup left) : NotKept(q) => P!Is[q] = P!Was[q]
       /\ plan.body.backup # P!NoFs =>
              \A q \in (arrived \cap DOMAIN P!Was) \cup left :
                  K(q) \in DOMAIN there /\ there[K(q)] = P!Was[q]

(* And when it came to its end.                                            *)
CopiedAll(arrived, left) ==
    plan.body.keys \cap (plan.form.blank \cup P!Patterns \cup P!Filters) = {} =>
        /\ \A q \in DOMAIN From \ arrived :
              \/ ~P!Travels(From, P!Was, q)
              \/ q \in DOMAIN P!Was /\ "update" \in plan.body.keys
        /\ plan.body.op = "sync/sync" => left = DOMAIN P!Was \ DOMAIN From

IsCopied ==
    \E arrived, left :
        /\ Copied(arrived, left)
        /\ plan.at \in {"purge", "prune", "done"} => CopiedAll(arrived, left)

LEMMA PlacesAre ==
    ASSUME Shaped, Within(began, objects, P!Places)
    PROVE  \A c \in DOMAIN objects : \A p \in DOMAIN objects[c] \cup DOMAIN began[c] :
              \/ p \in DOMAIN objects[c] \cap DOMAIN began[c] /\ objects[c][p] = began[c][p]
              \/ \E fs \in P!Places : fs.on = c /\ P!IsPrefix(fs.path, p)
<1>1. Mapped(began) /\ Mapped(objects)
  BY ForestsAre DEF Shaped
<1> SUFFICES ASSUME NEW c \in DOMAIN objects, NEW p \in DOMAIN objects[c] \cup DOMAIN began[c]
             PROVE  \/ p \in DOMAIN objects[c] \cap DOMAIN began[c] /\ objects[c][p] = began[c][p]
                    \/ \E fs \in P!Places : fs.on = c /\ P!IsPrefix(fs.path, p)
  OBVIOUS
<1>2. c \in Connections /\ p \in Paths
  BY <1>1 DEF Mapped
<1> QED BY <1>2 DEF Within

LEMMA WithinMore ==
    ASSUME NEW t, NEW u, NEW few, NEW places, few \subseteq places, Within(t, u, few)
    PROVE  Within(t, u, places)
BY DEF Within

AfterCopy == Running /\ plan.form.kind = "dir" /\ ~plan.same /\ IsCopied
LEMMA CopiedIsKept == AfterCopy => P!PlansAreKept
<1> SUFFICES ASSUME Running, plan.form.kind = "dir", ~plan.same, IsCopied PROVE P!PlansAreKept
  BY DEF AfterCopy
<1>1. PICK arrived, left :
          /\ Copied(arrived, left)
          /\ plan.at \in {"purge", "prune", "done"} => CopiedAll(arrived, left)
  BY DEF IsCopied
<1> DEFINE keys == plan.body.keys
           there == P!Files(objects, plan.body.backup)
           K(q) == P!KeptAt(keys, q)
           S == From
           T == P!Was
           is == P!Is
<1>2. /\ Shaped /\ plan.form \in Forms /\ began \in Forests
      /\ IsFs(P!Source) /\ IsFs(P!Target)
      /\ plan.body.backup # P!NoFs => Request.backup # <<>>
  BY SpotsAre DEF Running, Shaped, Spots, Written
<1>3. /\ keys = P!DirKeys(Request)
      /\ plan.body.op = "sync/sync" <=> P!TaskMirrors(plan.form)
      /\ plan.body.op = "sync/sync" => plan.d.allowDelete
      /\ plan.body.maxDelete = plan.form.maxDelete /\ P!Writable(plan.d)
  BY BodyIs DEF Says, Written
<1> DEFINE f == plan.form
<1>4. /\ "dry_run" \in keys <=> "dry_run" \in f.flags /\ f.entry \notin {"copy", "move"}
      /\ keys \cap f.blank = {}
      /\ f.flags \cap {"spare", "ignore_existing", "immutable"} # {} <=>
             "ignore_existing" \in keys \/ "immutable" \in keys
      /\ (f.flags \ f.blank) \cap (P!Patterns \cup P!Filters \cup {"shallow", "existing"}) = {}
             => keys \cap (P!Patterns \cup P!Filters) = {} /\ "existing" \notin keys
      /\ keys \cap {"checksum", "ignore_times", "afresh"} = {} =>
             f.flags \cap {"checksum", "ignore_times", "afresh"} = {}
      /\ "update" \in keys => "update" \in f.flags
      /\ "suffix" \in keys => "suffix" \in f.flags
      /\ f.entry \in {"panel", "schedule"} => ("suffix" \in keys <=> "suffix" \in f.flags \ f.blank)
  BY <1>2, <1>3, KeysAre DEF Request
<1> HIDE DEF keys
<1>5. /\ plan.pruned = P!NoFs /\ "dry_run" \notin keys
      /\ Within(began, objects, Beside)
      /\ arrived \subseteq DOMAIN S /\ left \subseteq DOMAIN T \ DOMAIN S
      /\ \A q \in arrived : P!Travels(S, T, q)
      /\ left # {} => plan.body.op = "sync/sync"
      /\ Cardinality(left) <= plan.form.maxDelete
      /\ \A q \in arrived \cup (DOMAIN T \ left) : q \in DOMAIN is
      /\ plan.body.backup # P!NoFs \/ "suffix" \notin keys =>
             DOMAIN is = arrived \cup (DOMAIN T \ left)
      /\ \A q \in DOMAIN is : NotKept(q) => q \in arrived \cup (DOMAIN T \ left)
      /\ \A q \in arrived : NotKept(q) => is[q] = S[q]
      /\ \A q \in DOMAIN T \ (arrived \cup left) : NotKept(q) => is[q] = T[q]
      /\ plan.body.backup # P!NoFs =>
             \A q \in (arrived \cap DOMAIN T) \cup left :
                 K(q) \in DOMAIN there /\ there[K(q)] = T[q]
  BY <1>1, <1>3 DEF Copied, keys
<1>6. IsFiniteSet(DOMAIN T) /\ \A q \in DOMAIN T : NotKept(q)
  BY <1>2, FilesFresh DEF P!Was, NotKept
<1>7. \A q \in DOMAIN S : NotKept(q)
  BY <1>2, FilesFresh DEF From, NotKept
<1>8. P!StaysPut
  <2>1. Within(began, objects, P!Places)
    BY <1>5, WithinMore DEF P!Places, Beside
  <2>2. ~P!Dry
    BY <1>4, <1>5 DEF P!Dry, P!Form
  <2> QED BY <1>2, <1>3, <1>5, <2>1, <2>2, PlacesAre DEF P!StaysPut
<1>9. P!LosesLittle
  <2> DEFINE gone == DOMAIN T \ DOMAIN is
  <2>1. gone \subseteq left
    BY <1>5
  <2>2. gone # {} => "mirror" \in P!FormKinds /\ plan.d.allowDelete
    <3>1. gone # {} => P!TaskMirrors(f) /\ plan.d.allowDelete
      BY <1>3, <1>5, <2>1
    <3> QED BY <3>1 DEF P!FormKinds, P!Form
  <2>3. Cardinality(gone) <= f.maxDelete
    <3>1. left \subseteq DOMAIN T
      BY <1>5
    <3>2. IsFiniteSet(left)
      BY <1>6, <3>1, FS_Subset
    <3>3. /\ Cardinality(gone) <= Cardinality(left) /\ Cardinality(left) \in Nat
          /\ Cardinality(gone) \in Nat
      <4> HIDE DEF gone
      <4>1. IsFiniteSet(gone) /\ Cardinality(gone) <= Cardinality(left)
        BY <2>1, <3>2, FS_Subset
      <4> QED BY <3>2, <4>1, FS_CardinalityType
    <3>4. f.maxDelete \in Nat /\ Cardinality(left) <= f.maxDelete
      BY <1>2, <1>5, FormsAre DEF IsForm
    <3> HIDE DEF gone, f
    <3> QED BY <3>3, <3>4
  <2>4. ASSUME P!Spared, NEW q \in DOMAIN T \cap DOMAIN is
        PROVE  T[q] = is[q]
    <3>1. "ignore_existing" \in keys \/ "immutable" \in keys
      BY <1>4, <2>4 DEF P!Spared, P!Form
    <3>2. q \notin arrived
      BY <1>5, <2>4, <3>1 DEF P!Travels, P!Has, keys
    <3>3. q \notin left
      BY <1>5, <1>6, <2>4, <3>2
    <3> QED BY <1>5, <1>6, <3>2, <3>3
  <2>5. gone # {} => P!FormKinds \cap {"mirror", "bisync"} # {} /\ plan.d.allowDelete
    BY <2>2
  <2>6. gone = DOMAIN P!Was \ DOMAIN P!Is
    OBVIOUS
  <2>7. P!Spared => \A q \in DOMAIN P!Was \cap DOMAIN P!Is : P!Was[q] = P!Is[q]
    BY <2>4
  <2> HIDE DEF gone, T, is
  <2> QED BY <2>3, <2>5, <2>6, <2>7, CountIs DEF P!LosesLittle, P!Form
<1>10. P!KeepsOld
  <2> DEFINE kept(q) == P!KeptAt(f.flags \ f.blank, q)
  <2> SUFFICES ASSUME f.backup # <<>>, plan.body.backup # P!NoFs, NEW q \in DOMAIN P!Was
               PROVE  \/ q \in DOMAIN P!Is /\ P!Is[q] = P!Was[q]
                      \/ /\ kept(q) \in DOMAIN P!Files(objects, plan.body.backup)
                         /\ P!Files(objects, plan.body.backup)[kept(q)] = P!Was[q]
    BY DEF P!KeepsOld, P!Form, P!Absent
  <2>1. f.entry \in {"panel", "schedule"}
    BY <1>2, RequestsAre DEF Request
  <2>2. P!KeptAt(f.flags \ f.blank, q) = K(q)
    BY <1>4, <2>1 DEF P!KeptAt
  <2>3. CASE q \in (arrived \cap DOMAIN T) \cup left
    BY <1>5, <2>2, <2>3
  <2>4. CASE q \notin (arrived \cap DOMAIN T) \cup left
    BY <1>5, <1>6, <2>4
  <2> QED BY <2>3, <2>4
<1>11. P!CopiesAll
  <2> SUFFICES ASSUME plan.at \in {"purge", "prune", "done"}, ~P!Dry, ~P!Sparse
               PROVE  /\ \A q \in DOMAIN S :
                            /\ q \in DOMAIN is
                            /\ \/ P!Seems(f.flags, S[q], is[q])
                               \/ q \in DOMAIN T /\ (P!Spared \/ "update" \in f.flags)
                      /\ "mirror" \in P!FormKinds /\ "suffix" \notin f.flags => DOMAIN is = DOMAIN S
    BY DEF P!CopiesAll, P!Form, From
  <2>1. keys \cap (f.blank \cup P!Patterns \cup P!Filters) = {} /\ "existing" \notin keys
    BY <1>4 DEF P!Sparse, P!Form
  <2>2. /\ \A q \in DOMAIN S \ arrived :
              \/ ~P!Travels(S, T, q)
              \/ q \in DOMAIN T /\ "update" \in keys
        /\ plan.body.op = "sync/sync" => left = DOMAIN T \ DOMAIN S
    BY <1>1, <2>1 DEF CopiedAll, keys
  <2>3. ASSUME NEW q \in DOMAIN S
        PROVE  /\ q \in DOMAIN is
               /\ \/ P!Seems(f.flags, S[q], is[q])
                  \/ q \in DOMAIN T /\ (P!Spared \/ "update" \in f.flags)
    <3>1. CASE q \in arrived
      <4>1. q \in DOMAIN is /\ is[q] = S[q]
        BY <1>5, <1>7, <3>1
      <4> QED BY <4>1 DEF P!Seems
    <3>2. CASE q \notin arrived
      <4>1. q \in DOMAIN T
        BY <2>1, <2>2, <3>2 DEF P!Travels, P!Has, keys
      <4>2. q \notin left
        BY <1>5
      <4>3. q \in DOMAIN is /\ is[q] = T[q]
        BY <1>5, <1>6, <3>2, <4>1, <4>2
      <4>4. CASE "update" \in keys
        BY <1>4, <4>1, <4>3, <4>4
      <4>5. CASE "ignore_existing" \in keys \/ "immutable" \in keys
        BY <1>4, <4>1, <4>3, <4>5 DEF P!Spared, P!Form
      <4>6. CASE P!Seems(keys, S[q], T[q])
        BY <1>4, <4>3, <4>6 DEF P!Seems
      <4>7. ~P!Travels(S, T, q) \/ "update" \in keys
        BY <2>2, <3>2
      <4>8. P!Travels(S, T, q) \/ "ignore_existing" \in keys \/ "immutable" \in keys
            \/ P!Seems(keys, S[q], T[q])
        BY <4>1 DEF P!Travels, P!Has, keys
      <4> QED BY <4>4, <4>5, <4>6, <4>7, <4>8
    <3> QED BY <3>1, <3>2
  <2>4. ASSUME "mirror" \in P!FormKinds, "suffix" \notin f.flags
        PROVE  DOMAIN is = DOMAIN S
    <3>1. P!TaskMirrors(f)
      <4>1. f.kind # "mirror" /\ f.entry # "mirror"
        BY <1>2, KindsAre
      <4> QED BY <2>4, <4>1 DEF P!FormKinds, P!Form
    <3>2. left = DOMAIN T \ DOMAIN S
      BY <1>3, <2>2, <3>1
    <3>3. DOMAIN is = arrived \cup (DOMAIN T \ left)
      BY <1>4, <1>5, <2>4
    <3>4. DOMAIN S \subseteq DOMAIN is
      BY <2>3
    <3> QED BY <1>5, <3>2, <3>3, <3>4
  <2> QED BY <2>3, <2>4
<1>12. P!ComparesTrue
  BY DEF P!ComparesTrue
<1> QED BY <1>8, <1>9, <1>10, <1>11, <1>12 DEF P!PlansAreKept

------------------------------------------------------------------------------
(* The steps of a job.                                                     *)
Follows ==
    /\ plan'.form = plan.form /\ plan'.b = plan.b /\ plan'.d = plan.d /\ plan'.src = plan.src
    /\ plan'.dst = plan.dst /\ plan'.body = plan.body /\ PlanIs(plan')
    /\ began' = began /\ plan'.at \in PlanLabels /\ plan.at \in Started

LEMMA Goes1 ==
    ASSUME PlanIs(plan), NEW label, plan' = [plan EXCEPT !.at = label]
    PROVE  /\ plan'.form = plan.form /\ plan'.b = plan.b /\ plan'.d = plan.d
           /\ plan'.src = plan.src /\ plan'.dst = plan.dst /\ plan'.body = plan.body
           /\ plan'.pruned = plan.pruned /\ plan'.same = plan.same
           /\ PlanIs(plan') /\ plan'.at = label
BY DEF PlanIs

LEMMA Frame ==
    ASSUME Follows
    PROVE  /\ P!Source' = P!Source /\ P!Target' = P!Target /\ P!Form' = P!Form
           /\ P!Was' = P!Was /\ From' = From /\ Request' = Request
           /\ P!Dry' = P!Dry /\ P!FormKinds' = P!FormKinds
<1>1. P!Source' = P!Source
  BY DEF Follows, P!Source
<1>2. P!Target' = P!Target
  BY DEF Follows, P!Target
<1>3. P!Form' = P!Form
  BY DEF Follows, P!Form
<1>4. P!Was' = P!Was
  BY <1>2 DEF Follows, P!Was
<1>5. From' = From
  BY <1>1 DEF Follows, From
<1>6. Request' = Request
  BY DEF Follows, Request
<1>7. P!Dry' = P!Dry
  BY <1>3 DEF P!Dry
<1>8. P!FormKinds' = P!FormKinds
  BY <1>3 DEF P!FormKinds
<1> QED BY <1>1, <1>2, <1>3, <1>4, <1>5, <1>6, <1>7, <1>8

LEMMA ShapedOn ==
    ASSUME Shaped, plan'.form \in Forms, plan'.at \in PlanLabels, PlanIs(plan'), began' = began,
           objects' = objects, registry' = registry, rebinds' = rebinds
    PROVE  Shaped'
BY DEF Shaped

LEMMA GatedOn ==
    ASSUME Admitted, Follows
    PROVE  Admitted'
<1>1. Request' = Request
  BY Frame
<1>2. PICK backup \in Paths : Told(backup)
  BY DEF Admitted, Follows
<1>3. Told(backup)'
  BY <1>1, <1>2 DEF Told, Follows
<1>4. /\ Tie(plan'.b) /\ Tie(plan'.d) /\ P!Gates(Request', plan'.b, plan'.d)
      /\ plan'.form.kind \in Written => {plan'.src, plan'.dst} \subseteq Paths \ {P!Outside}
  <2>1. /\ Tie(plan.b) /\ Tie(plan.d) /\ P!Gates(Request, plan.b, plan.d)
        /\ plan.form.kind \in Written => {plan.src, plan.dst} \subseteq Paths \ {P!Outside}
    BY DEF Admitted, Follows
  <2>2. /\ plan'.form = plan.form /\ plan'.b = plan.b /\ plan'.d = plan.d
        /\ plan'.src = plan.src /\ plan'.dst = plan.dst
    BY DEF Follows
  <2> QED BY <1>1, <2>1, <2>2
<1> QED BY <1>3, <1>4 DEF Admitted

(* Before it starts.                                                       *)
LEMMA NotRunKeeps ==
    ASSUME PlanInv, Shaped', plan.at \in {"idle", "saved", "start", "probe"},
           plan'.at \in {"saved", "refused", "start"}, objects' = objects, began' = began,
           plan'.pruned = plan.pruned, plan'.same = plan.same
    PROVE  PlanInv'
<1>1. Still /\ ~plan.same
  BY DEF PlanInv, Steady, NotRun
<1>2. Still' /\ ~plan'.same
  <2>1. P!NoFs' = P!NoFs
    BY DEF P!NoFs
  <2> QED BY <1>1, <2>1 DEF Still
<1>3. Admitted'
  BY DEF Admitted, Started
<1>4. Steady'
  BY <1>2 DEF Steady
<1>5. P!PlansAreKept'
  BY DEF P!PlansAreKept, P!Ran
<1> QED BY <1>3, <1>4, <1>5 DEF PlanInv

LEMMA AsksKeepsPlan == ASSUME PlanInv, P!Asks PROVE PlanInv'
<1>1. plan.at = "idle" /\ PlanIs(plan) /\ Shaped
  BY DEF P!Asks, P!At, PlanInv, Shaped
<1>2. PICK f \in Forms :
          /\ plan' = [plan EXCEPT !.form = f, !.at = IF P!Valid(f) THEN "saved" ELSE "refused"]
          /\ UNCHANGED <<registry, began, rebinds, objects>>
  BY DEF P!Asks, P!Goes
<1>3. /\ plan'.form = f /\ plan'.at \in {"saved", "refused"} /\ PlanIs(plan')
      /\ plan'.pruned = plan.pruned /\ plan'.same = plan.same
  BY <1>1, <1>2 DEF PlanIs
<1>4. Shaped'
  BY <1>1, <1>2, <1>3, ShapedOn DEF PlanLabels
<1> QED BY <1>1, <1>2, <1>3, <1>4, NotRunKeeps

LEMMA WakesKeepsPlan == ASSUME PlanInv, P!Wakes PROVE PlanInv'
<1>1. plan.at = "saved" /\ PlanIs(plan) /\ Shaped /\ plan.form \in Forms
  BY DEF P!Wakes, P!At, PlanInv, Shaped
<1>2. PICK label \in {"refused", "start"} :
          /\ plan' = [plan EXCEPT !.at = label]
          /\ UNCHANGED <<registry, began, rebinds, objects>>
  BY DEF P!Wakes, P!Refused, P!To, P!Goes
<1>3. /\ plan'.form = plan.form /\ plan'.at = label /\ PlanIs(plan')
      /\ plan'.pruned = plan.pruned /\ plan'.same = plan.same
  BY <1>1, <1>2, Goes1
<1>4. Shaped'
  BY <1>1, <1>2, <1>3, ShapedOn DEF PlanLabels
<1> QED BY <1>1, <1>2, <1>3, <1>4, NotRunKeeps

LEMMA RebindsKeepsPlan == ASSUME PlanInv, P!Rebinds PROVE PlanInv'
<1>1. /\ plan.at \in {"saved", "start", "running", "prune"}
      /\ registry' \in Registries /\ rebinds' = rebinds + 1 /\ rebinds < MaxRebinds
      /\ objects' = objects /\ began' = began /\ plan' = plan
  BY DEF P!Rebinds
<1>2. Shaped'
  <2>1. rebinds' \in 0..MaxRebinds
    BY <1>1, PlanAssumption DEF PlanInv, Shaped
  <2> QED BY <1>1, <2>1 DEF PlanInv, Shaped
<1>3. Admitted'
  <2>1. Request' = Request
    BY <1>1 DEF Request
  <2>2. \A backup : Told(backup)' <=> Told(backup)
    BY <1>1, <2>1 DEF Told
  <2> QED BY <1>1, <2>1, <2>2 DEF PlanInv, Admitted
<1>4. P!Source' = P!Source /\ P!Target' = P!Target
  BY <1>1 DEF P!Source, P!Target
<1>5. Steady'
  <2>1. P!SumsThere' <=> P!SumsThere
    BY <1>1, <1>4 DEF P!SumsThere
  <2> QED BY <1>1, <2>1 DEF PlanInv, Steady, Still
<1>6. plan.pruned = P!NoFs
  BY <1>1 DEF PlanInv, Steady, NotRun, Still
<1>7. P!PlansAreKept'
  <2>1. P!Is' = P!Is /\ P!Was' = P!Was /\ P!Form' = P!Form
    BY <1>1, <1>4 DEF P!Is, P!Was, P!Form
  <2>2. P!FormKinds' = P!FormKinds /\ (P!Dry' <=> P!Dry) /\ (P!Spared' <=> P!Spared)
        /\ (P!Sparse' <=> P!Sparse)
    BY <2>1 DEF P!FormKinds, P!Dry, P!Spared, P!Sparse
  <2>3. P!Places' = P!Places
    BY <1>1, <1>4, <2>2 DEF P!Places
  <2>4. P!StaysPut => P!StaysPut'
    BY <1>1, <1>6, <2>2, <2>3 DEF P!StaysPut
  <2>5. P!LosesLittle => P!LosesLittle'
    BY <1>1, <1>4, <2>1, <2>2 DEF P!LosesLittle, P!PrunedThere
  <2>6. P!KeepsOld => P!KeepsOld'
    BY <1>1, <2>1 DEF P!KeepsOld
  <2>7. P!CopiesAll => P!CopiesAll'
    BY <1>1, <1>4, <2>1, <2>2 DEF P!CopiesAll, P!PrunedThere
  <2>8. P!ComparesTrue => P!ComparesTrue'
    <3>1. P!SumsAgree(objects, P!Is)' <=> P!SumsAgree(objects, P!Is)
      BY <1>1, <1>4, <2>1 DEF P!SumsAgree
    <3>2. P!TreesAgree(P!Files(objects, P!Source), P!Is)' <=>
              P!TreesAgree(P!Files(objects, P!Source), P!Is)
      BY <1>1, <1>4, <2>1 DEF P!TreesAgree, P!Has
    <3> QED BY <1>1, <1>4, <2>1, <3>1, <3>2 DEF P!ComparesTrue
  <2> QED BY <1>1, <1>4, <2>1, <2>4, <2>5, <2>6, <2>7, <2>8 DEF PlanInv, P!PlansAreKept, P!Ran
<1> QED BY <1>2, <1>3, <1>5, <1>7 DEF PlanInv

LEMMA BindingsAre ==
    ASSUME registry \in Registries, NEW c \in Connections
    PROVE  Tie(registry[c])
BY PlanAssumption DEF Tie

(* It starts as its gates have it.                                         *)
LEMMA StartsKeepsPlan == ASSUME PlanInv, P!Starts PROVE PlanInv'
<1> DEFINE f == plan.form
           r == P!RequestOf(f)
           b == registry[r.from]
           d == registry[r.to]
           dst == P!Gate(d, IF r.kind = "sums" THEN P!DirOfSums(r.sums) ELSE r.target)
           src == IF r.kind = "sums" THEN P!Gate(d, r.sums) ELSE P!Gate(b, r.source)
           backup == IF r.kind = "dir" /\ r.backup # <<>> THEN P!Gate(d, r.backup) ELSE P!Outside
           label == IF r.kind = "sums" THEN "probe" ELSE "running"
<1>1. /\ plan.at = "start" /\ PlanIs(plan) /\ Shaped /\ f \in Forms /\ registry \in Registries
      /\ Still /\ ~plan.same
  BY DEF P!Starts, P!StartsWith, P!At, PlanInv, Shaped, Steady, NotRun
<1>2. \/ P!Refused
      \/ /\ P!Gates(r, b, d) /\ ~(backup # P!Outside /\ P!Overlap(backup, dst))
         /\ plan' = [plan EXCEPT !.b = b, !.d = d, !.dst = dst, !.src = src,
                                 !.body = P!Body(r, d, backup), !.at = label]
         /\ began' = objects /\ UNCHANGED <<registry, objects, rebinds>>
  BY DEF P!Starts, P!StartsWith, P!Absent
<1>3. CASE P!Refused
  <2>1. plan' = [plan EXCEPT !.at = "refused"] /\ UNCHANGED <<registry, began, rebinds, objects>>
    BY <1>3 DEF P!Refused, P!To, P!Goes
  <2>2. /\ plan'.form = f /\ plan'.at = "refused" /\ PlanIs(plan')
        /\ plan'.pruned = plan.pruned /\ plan'.same = plan.same
    BY <1>1, <2>1, Goes1
  <2>3. Shaped'
    BY <1>1, <2>1, <2>2, ShapedOn DEF PlanLabels
  <2> QED BY <1>1, <2>1, <2>2, <2>3, NotRunKeeps
<1>4. CASE /\ P!Gates(r, b, d) /\ ~(backup # P!Outside /\ P!Overlap(backup, dst))
           /\ plan' = [plan EXCEPT !.b = b, !.d = d, !.dst = dst, !.src = src,
                                   !.body = P!Body(r, d, backup), !.at = label]
           /\ began' = objects /\ UNCHANGED <<registry, objects, rebinds>>
  <2> DEFINE body == P!Body(r, d, backup)
  <2> HIDE DEF r, b, d, dst, src, backup, label, body
  <2>1. plan' = [at |-> label, form |-> f, b |-> b, d |-> d, src |-> src, dst |-> dst,
                 body |-> body, pruned |-> plan.pruned, same |-> plan.same]
    BY <1>1, <1>4 DEF PlanIs, body
  <2>2. /\ plan'.at = label /\ plan'.form = f /\ plan'.b = b /\ plan'.d = d /\ plan'.src = src
        /\ plan'.dst = dst /\ plan'.body = body /\ plan'.pruned = plan.pruned
        /\ plan'.same = plan.same /\ PlanIs(plan')
    BY <2>1 DEF PlanIs
  <2>3. label \in {"probe", "running"} /\ (f.kind = "sums" <=> label = "probe")
    BY <1>1, RequestsAre DEF label, r
  <2>4. Shaped'
    <3>1. began' = began
      BY <1>1, <1>4 DEF Still
    <3> QED BY <1>1, <1>4, <2>2, <2>3, <3>1, ShapedOn DEF PlanLabels
  <2>5. Request' = r
    BY <2>2 DEF Request, r
  <2>6. /\ r.kind = f.kind /\ r.from \in Connections /\ r.to \in Connections
        /\ r.source \in Seq(Seq(STRING)) /\ r.target \in Seq(Seq(STRING))
        /\ r.backup # <<>> => r.backup \in Seq(Seq(STRING))
    <3>1. /\ r.kind = f.kind /\ r.from = f.from /\ r.to = f.to /\ r.source = f.source
          /\ r.target = f.target /\ r.backup \in {f.backup, <<>>}
      BY <1>1, RequestsAre DEF r
    <3>2. /\ f.from \in Connections /\ f.to \in Connections /\ f.source \in Seq(Seq(STRING))
          /\ f.target \in Seq(Seq(STRING)) /\ f.backup \in Seq(Seq(STRING))
      BY <1>1, FormsAre DEF IsForm
    <3> QED BY <3>1, <3>2
  <2>7. Tie(b) /\ Tie(d)
    BY <1>1, <2>6, BindingsAre DEF b, d
  <2>8. f.kind \in Written => {src, dst} \subseteq Paths \ {P!Outside}
    <3>1. f.kind \in Written => src = P!Gate(b, r.source) /\ dst = P!Gate(d, r.target)
      BY <2>6 DEF src, dst, Written
    <3>2. f.kind \in Written => P!Inside(b, r.source) /\ P!Inside(d, r.target)
      BY <1>4, <2>6 DEF P!Gates, P!DirGates, P!BisyncGates, Written
    <3> QED BY <2>6, <2>7, <3>1, <3>2, GateTyped DEF P!Inside
  <2>9. backup \in Paths
    <3>1. r.kind = "dir" /\ r.backup # <<>> => P!Gate(d, r.backup) \in Paths
      BY <2>6, <2>7, GateTyped
    <3> QED BY <3>1, OutsideIs DEF backup
  <2>10. backup # P!Outside => f.kind = "dir" /\ r.backup # <<>> /\ ~P!Overlap(backup, dst)
    BY <1>4, <2>6 DEF backup
  <2>11. \A at : at = backup =>
             /\ plan'.body = P!Body(Request', plan'.d, at)
             /\ at # P!Outside => plan'.form.kind = "dir" /\ Request'.backup # <<>>
                                   /\ ~P!Overlap(at, plan'.dst)
    <3>1. plan'.body = P!Body(Request', plan'.d, backup)
      BY <2>2, <2>5 DEF body
    <3>2. backup # P!Outside => plan'.form.kind = "dir" /\ Request'.backup # <<>>
                                 /\ ~P!Overlap(backup, plan'.dst)
      BY <2>2, <2>5, <2>10
    <3> QED BY <3>1, <3>2
  <2>12. Admitted'
    <3>1. Tie(plan'.b) /\ Tie(plan'.d) /\ P!Gates(Request', plan'.b, plan'.d)
      BY <1>4, <2>2, <2>5, <2>7
    <3>2. plan'.form.kind \in Written => {plan'.src, plan'.dst} \subseteq Paths \ {P!Outside}
      BY <2>2, <2>8
    <3>3. \E at \in Paths :
             /\ plan'.body = P!Body(Request', plan'.d, at)
             /\ at # P!Outside => plan'.form.kind = "dir" /\ Request'.backup # <<>>
                                   /\ ~P!Overlap(at, plan'.dst)
      BY <2>9, <2>11
    <3> QED BY <3>1, <3>2, <3>3 DEF Admitted, Told
  <2>13. Still' /\ ~plan'.same
    <3>1. P!NoFs' = P!NoFs
      BY DEF P!NoFs
    <3> QED BY <1>1, <1>4, <2>2, <3>1 DEF Still
  <2>14. Steady'
    BY <2>2, <2>3, <2>13 DEF Steady
  <2>15. Unspoilt'
    BY <2>2, <2>3, <2>4, <2>13 DEF Unspoilt, P!ComparesTrue
  <2>16. P!PlansAreKept'
    BY <2>15, StillIsKept, PTL
  <2> QED BY <2>4, <2>12, <2>14, <2>16 DEF PlanInv
<1> QED BY <1>2, <1>3, <1>4

LEMMA ProbesKeepsPlan == ASSUME PlanInv, P!Probes PROVE PlanInv'
<1>1. plan.at = "probe" /\ PlanIs(plan) /\ Shaped /\ Still /\ ~plan.same /\ plan.form \in Forms
  BY DEF P!Probes, P!At, PlanInv, Shaped, Steady, NotRun
<1>2. PICK label \in {"running", "refused"} :
          /\ label = "running" => P!SumsThere
          /\ plan' = [plan EXCEPT !.at = label]
          /\ UNCHANGED <<registry, began, rebinds, objects>>
  BY DEF P!Probes, P!Refused, P!To, P!Goes
<1>3. /\ plan'.form = plan.form /\ plan'.b = plan.b /\ plan'.d = plan.d /\ plan'.src = plan.src
      /\ plan'.dst = plan.dst /\ plan'.body = plan.body /\ plan'.pruned = plan.pruned
      /\ plan'.same = plan.same /\ PlanIs(plan') /\ plan'.at = label
  BY <1>1, <1>2, Goes1
<1>4. Shaped'
  BY <1>1, <1>2, <1>3, ShapedOn DEF PlanLabels
<1>5. CASE label = "refused"
  BY <1>1, <1>2, <1>3, <1>4, <1>5, NotRunKeeps
<1>6. CASE label = "running"
  <2>1. Follows
    BY <1>1, <1>2, <1>3, <1>6 DEF Follows, PlanLabels, Started
  <2>2. Admitted'
    BY <2>1, GatedOn DEF PlanInv
  <2>3. Still' /\ ~plan'.same
    <3>1. P!NoFs' = P!NoFs
      BY DEF P!NoFs
    <3> QED BY <1>1, <1>2, <1>3, <3>1 DEF Still
  <2>4. P!SumsThere'
    <3>1. P!Source' = P!Source /\ P!Target' = P!Target
      BY <2>1, Frame
    <3> QED BY <1>2, <1>6, <3>1 DEF P!SumsThere
  <2>5. Steady'
    BY <1>3, <1>6, <2>3, <2>4 DEF Steady
  <2>6. Unspoilt'
    BY <1>3, <1>4, <1>6, <2>3 DEF Unspoilt, P!ComparesTrue
  <2>7. P!PlansAreKept'
    BY <2>6, StillIsKept, PTL
  <2> QED BY <1>4, <2>2, <2>5, <2>7 DEF PlanInv
<1> QED BY <1>2, <1>5, <1>6

------------------------------------------------------------------------------
(* It runs.                                                                *)
LEMMA RunningIs ==
    ASSUME PlanInv, plan.at = "running"
    PROVE  /\ Running /\ Still /\ ~plan.same /\ PlanIs(plan) /\ Shaped /\ plan.form \in Forms
           /\ plan.form.kind = "sums" => P!SumsThere
BY DEF PlanInv, Running, Shaped, Steady, NotRun, Started

Ended == {"failed", "purge", "prune", "done"}

LEMMA EndsSo ==
    ASSUME PlanInv, plan.at = "running", NEW ok \in BOOLEAN, P!Finishes(ok)
    PROVE  /\ Follows /\ Admitted' /\ plan'.at \in Ended /\ (~ok => plan'.at = "failed")
           /\ plan'.at = "purge" => plan.form.entry = "move"
           /\ plan'.pruned = P!NoFs /\ ~plan'.same
           /\ registry' = registry /\ rebinds' = rebinds
<1>1. Running /\ Still /\ ~plan.same /\ PlanIs(plan) /\ Admitted
  BY RunningIs DEF Running
<1> DEFINE label == IF ok THEN P!After ELSE "failed"
<1>2. plan' = [plan EXCEPT !.at = label] /\ UNCHANGED <<registry, began, rebinds>>
  BY DEF P!Finishes, P!Goes
<1>3. /\ label \in Ended /\ (~ok => label = "failed")
      /\ label = "purge" => plan.form.entry = "move"
  BY DEF P!After, Ended
<1> HIDE DEF label
<1>4. /\ plan'.form = plan.form /\ plan'.b = plan.b /\ plan'.d = plan.d /\ plan'.src = plan.src
      /\ plan'.dst = plan.dst /\ plan'.body = plan.body /\ plan'.pruned = plan.pruned
      /\ plan'.same = plan.same /\ PlanIs(plan') /\ plan'.at = label
  BY <1>1, <1>2, Goes1
<1>5. Follows
  BY <1>2, <1>3, <1>4 DEF Follows, PlanLabels, Started, Ended
<1>6. Admitted'
  BY <1>1, <1>5, GatedOn
<1> QED BY <1>1, <1>2, <1>3, <1>4, <1>5, <1>6 DEF Still

(* An end that leaves all as it was.                                       *)
LEMMA StillHolds ==
    ASSUME PlanInv, plan.at = "running", NEW ok \in BOOLEAN, P!Finishes(ok), objects' = objects,
           ok => plan.form.kind \in Written /\ (plan.form.kind = "dir" => P!Dry)
    PROVE  PlanInv'
<1>1. Running /\ Still /\ ~plan.same /\ PlanIs(plan) /\ Shaped /\ plan.form \in Forms
  BY RunningIs
<1>2. /\ Follows /\ Admitted' /\ plan'.at \in Ended /\ (~ok => plan'.at = "failed")
      /\ plan'.at = "purge" => plan.form.entry = "move"
      /\ plan'.pruned = P!NoFs /\ ~plan'.same
      /\ registry' = registry /\ rebinds' = rebinds
  BY EndsSo
<1>3. Shaped'
  BY <1>1, <1>2, ShapedOn DEF Follows
<1>4. Still'
  <2>1. P!NoFs' = P!NoFs
    BY DEF P!NoFs
  <2> QED BY <1>1, <1>2, <2>1 DEF Still, Follows
<1>5. Steady'
  <2>1. plan'.form = plan.form /\ plan'.pruned = P!NoFs'
    BY <1>2 DEF Follows, P!NoFs
  <2>2. plan.form.kind \in Compared => plan'.at = "failed"
    BY <1>2 DEF Compared, Written
  <2> QED BY <1>2, <1>4, <2>1, <2>2 DEF Steady, Compared, NotRun, Ended
<1>6. Unspoilt'
  <2>1. P!Dry' = P!Dry /\ plan'.form = plan.form
    BY <1>2, Frame DEF Follows
  <2> QED BY <1>2, <1>3, <1>4, <2>1 DEF Unspoilt, P!ComparesTrue
<1>7. P!PlansAreKept'
  BY <1>6, StillIsKept, PTL
<1> QED BY <1>2, <1>3, <1>5, <1>7 DEF PlanInv

LEMMA FailsKeepsPlan == ASSUME PlanInv, plan.at = "running", P!Fails PROVE PlanInv'
BY StillHolds DEF P!Fails

LEMMA ComparesKeepsPlan ==
    ASSUME PlanInv, plan.at = "running", plan.body.op = "operations/check", P!Compares
    PROVE  PlanInv'
<1>1. /\ Running /\ Still /\ ~plan.same /\ PlanIs(plan) /\ Shaped /\ plan.form \in Forms
      /\ plan.form.kind = "sums" => P!SumsThere
  BY RunningIs
<1>2. plan.form.kind \in Compared
  BY <1>1, BodyIs, KindsApart DEF Says, Written
<1> DEFINE T == P!Files(objects, P!Target)
           same == IF plan.form.kind = "sums" THEN P!SumsAgree(objects, T)
                   ELSE P!TreesAgree(P!Files(objects, P!Source), T)
<1>3. /\ plan' = [plan EXCEPT !.at = "done", !.same = same]
      /\ UNCHANGED <<registry, began, rebinds, objects>>
  BY DEF P!Compares, P!Goes
<1> HIDE DEF same
<1>4. /\ plan'.form = plan.form /\ plan'.b = plan.b /\ plan'.d = plan.d /\ plan'.src = plan.src
      /\ plan'.dst = plan.dst /\ plan'.body = plan.body /\ plan'.pruned = plan.pruned
      /\ plan'.same = same /\ PlanIs(plan') /\ plan'.at = "done"
  BY <1>1, <1>3 DEF PlanIs
<1>5. Follows
  BY <1>1, <1>3, <1>4 DEF Follows, PlanLabels, Running
<1>6. Admitted'
  BY <1>5, GatedOn DEF PlanInv
<1>7. Shaped'
  BY <1>1, <1>3, <1>4, ShapedOn DEF PlanLabels
<1>8. Still'
  <2>1. P!NoFs' = P!NoFs
    BY DEF P!NoFs
  <2> QED BY <1>1, <1>3, <1>4, <2>1 DEF Still
<1>9. P!Source' = P!Source /\ P!Target' = P!Target
  BY <1>5, Frame
<1>10. P!SumsThere' <=> P!SumsThere
  BY <1>3, <1>9 DEF P!SumsThere
<1>11. Steady'
  <2>1. plan'.at = "done" /\ plan'.form = plan.form /\ "done" \notin NotRun
    BY <1>4 DEF NotRun
  <2>2. plan'.form.kind \notin Written
    BY <1>2, <1>4 DEF Compared, Written
  <2>3. plan'.form.kind = "sums" => P!SumsThere'
    BY <1>1, <1>2, <1>4, <1>10 DEF Steady
  <2> QED BY <1>8, <2>1, <2>2, <2>3 DEF Steady
<1>12. P!ComparesTrue'
  <2>1. P!Is' = T
    BY <1>3, <1>9 DEF P!Is
  <2>2. P!SumsAgree(objects, P!Is)' <=> P!SumsAgree(objects, T)
    BY <1>3, <1>4, <1>9, <2>1 DEF P!SumsAgree
  <2>3. P!TreesAgree(P!Files(objects, P!Source), P!Is)' <=>
            P!TreesAgree(P!Files(objects, P!Source), T)
    BY <1>3, <1>4, <1>9, <2>1 DEF P!TreesAgree, P!Has
  <2>4. P!Form' = plan.form
    BY <1>4 DEF P!Form
  <2>5. plan.form.kind = "sums" =>
            P!Source'.path \in DOMAIN objects'[P!Source'.on]
    BY <1>1, <1>3, <1>9 DEF P!SumsThere
  <2> QED BY <1>4, <2>2, <2>3, <2>4, <2>5 DEF P!ComparesTrue, same
<1>13. Unspoilt'
  BY <1>2, <1>4, <1>7, <1>8, <1>12 DEF Unspoilt, Compared
<1>14. P!PlansAreKept'
  BY <1>13, StillIsKept, PTL
<1> QED BY <1>6, <1>7, <1>11, <1>14 DEF PlanInv

LEMMA CopiesKeepsPlan ==
    ASSUME PlanInv, plan.at = "running", plan.body.op \in {"sync/sync", "sync/copy"}, P!Copies
    PROVE  PlanInv'
<1>1. /\ Running /\ Still /\ ~plan.same /\ PlanIs(plan) /\ Shaped /\ plan.form \in Forms
  BY RunningIs
<1>2. plan.form.kind = "dir"
  BY <1>1, BodyIs, KindsApart DEF Says, Written
<1>3. Spots
  BY <1>1, <1>2, SpotsAre DEF Written
<1> DEFINE keys == plan.body.keys
           op == plan.body.op
           S == P!Files(objects, P!Source)
           T == P!Files(objects, P!Target)
           extra(shown) == IF op = "sync/sync" THEN (shown \cap DOMAIN T) \ DOMAIN S ELSE {}
           due(shown, old) == {q \in shown \cap DOMAIN S : P!Travels(S, T, q)} \ old
<1>4a. PICK shown \in P!Views(DOMAIN S \cup DOMAIN T), old \in SUBSET (DOMAIN S \cap DOMAIN T) :
          /\ old # {} => P!Has("update")
          /\ \E arrived \in SUBSET due(shown, old), left \in SUBSET extra(shown) :
                /\ left # {} => arrived = due(shown, old)
                /\ P!Cardinality(left) <= plan.body.maxDelete
                /\ P!Finishes(arrived = due(shown, old) /\ left = extra(shown))
                /\ objects' = IF P!Has("dry_run") THEN objects
                              ELSE P!Outcome(S, T, arrived, left)
  BY DEF P!Copies
<1>4. PICK arrived \in SUBSET due(shown, old), left \in SUBSET extra(shown) :
          /\ Cardinality(left) <= plan.body.maxDelete
          /\ P!Finishes(arrived = due(shown, old) /\ left = extra(shown))
          /\ objects' = IF P!Has("dry_run") THEN objects ELSE P!Outcome(S, T, arrived, left)
  BY <1>4a, CountIs
<1> DEFINE ok == arrived = due(shown, old) /\ left = extra(shown)
<1>5. ok \in BOOLEAN /\ P!Finishes(ok)
  BY <1>4
<1>6. /\ arrived \subseteq DOMAIN S /\ left \subseteq DOMAIN T \ DOMAIN S
      /\ \A q \in arrived : P!Travels(S, T, q)
      /\ left # {} => op = "sync/sync"
  BY <1>4
<1>7. ok => (keys \cap (plan.form.blank \cup P!Patterns \cup P!Filters) = {} =>
                /\ \A q \in DOMAIN S \ arrived :
                      ~P!Travels(S, T, q) \/ (q \in DOMAIN T /\ "update" \in keys)
                /\ op = "sync/sync" => left = DOMAIN T \ DOMAIN S)
  <2> SUFFICES ASSUME ok, keys \cap (plan.form.blank \cup P!Patterns \cup P!Filters) = {}
               PROVE  /\ \A q \in DOMAIN S \ arrived :
                            ~P!Travels(S, T, q) \/ (q \in DOMAIN T /\ "update" \in keys)
                      /\ op = "sync/sync" => left = DOMAIN T \ DOMAIN S
    OBVIOUS
  <2>1. shown = DOMAIN S \cup DOMAIN T
    BY <1>4a DEF P!Views
  <2>2. arrived = due(shown, old) /\ left = extra(shown)
    OBVIOUS
  <2>3. old # {} => "update" \in keys
    BY <1>4a DEF P!Has
  <2>4. old \subseteq DOMAIN S \cap DOMAIN T
    BY <1>4a
  <2> QED BY <2>1, <2>2, <2>3, <2>4
<1> HIDE DEF ok, due, extra
<1>8. CASE P!Has("dry_run")
  <2>1. P!Dry
    <3>1. keys = P!DirKeys(Request)
      BY <1>1, <1>2, BodyIs DEF Says
    <3>2. "dry_run" \in plan.form.flags /\ plan.form.entry \notin {"copy", "move"}
      BY <1>1, <1>2, <1>8, <3>1, KeysAre DEF P!Has, Request
    <3> QED BY <3>2 DEF P!Dry, P!Form
  <2>2. objects' = objects
    BY <1>4, <1>8
  <2>3. plan.form.kind \in Written
    BY <1>2 DEF Written
  <2> QED BY <1>5, <2>1, <2>2, <2>3, StillHolds
<1>9. CASE ~P!Has("dry_run")
  <2>1. objects' = P!Outcome(S, T, arrived, left)
    BY <1>4, <1>9
  <2>2. /\ Follows /\ Admitted' /\ plan'.at \in Ended /\ (~ok => plan'.at = "failed")
        /\ plan'.at = "purge" => plan.form.entry = "move"
        /\ plan'.pruned = P!NoFs /\ ~plan'.same
        /\ registry' = registry /\ rebinds' = rebinds
    BY <1>5, EndsSo
  <2> DEFINE u == objects'
             is == P!Files(u, P!Target)
             there == P!Files(u, plan.body.backup)
             K(q) == P!KeptAt(plan.body.keys, q)
  <2>3. /\ Mapped(u) /\ Within(objects, u, Beside)
        /\ \A q \in arrived \cup (DOMAIN T \ left) : q \in DOMAIN is
        /\ plan.body.backup # P!NoFs \/ "suffix" \notin plan.body.keys =>
               DOMAIN is = arrived \cup (DOMAIN T \ left)
        /\ \A q \in DOMAIN is : NotKept(q) => q \in arrived \cup (DOMAIN T \ left)
        /\ \A q \in arrived : NotKept(q) => is[q] = S[q]
        /\ \A q \in DOMAIN T \ (arrived \cup left) : NotKept(q) => is[q] = T[q]
        /\ plan.body.backup # P!NoFs =>
               \A q \in (arrived \cap DOMAIN T) \cup left :
                   K(q) \in DOMAIN there /\ there[K(q)] = T[q]
    <3>1. Mapped(objects) /\ IsFs(P!Source) /\ IsFs(P!Target) /\ P!Target # P!NoFs
      BY <1>1, <1>3 DEF Shaped, Spots
    <3>2. DOMAIN S \subseteq Relative
      BY <3>1, FilesAre
    <3>3. left \subseteq DOMAIN T
      BY <1>6
    <3>4. plan.body.backup # P!NoFs =>
               IsFs(plan.body.backup) /\ ~P!Together(plan.body.backup, P!Target)
      BY <1>3 DEF Spots
    <3> DEFINE t == T
               s == S
    <3>5. t = P!Files(objects, P!Target) /\ u = P!Outcome(s, t, arrived, left)
      BY <2>1
    <3>6. DOMAIN s \subseteq Relative /\ arrived \subseteq DOMAIN s /\ left \subseteq DOMAIN t
      BY <1>6, <3>2, <3>3
    <3> HIDE DEF t, s, u
    <3>7. Landed(u, s, t, arrived, left)
      BY <3>1, <3>4, <3>5, <3>6, OutcomeIs
    <3> QED BY <3>7 DEF t, s, Landed
  <2>4. Shaped'
    BY <1>1, <2>2, <2>3 DEF Shaped, Follows
  <2>5. /\ P!Target' = P!Target /\ P!Source' = P!Source /\ From' = From /\ P!Was' = P!Was
        /\ plan'.body = plan.body /\ plan'.form = plan.form /\ began' = began /\ P!NoFs' = P!NoFs
    BY <2>2, Frame DEF Follows, P!NoFs
  <2>6. S = From /\ T = P!Was /\ objects = began
    BY <1>1 DEF Still, From, P!Was
  <2>7. P!Is' = is
    BY <2>5 DEF P!Is
  <2>8. \A q : P!Travels(From, P!Was, q)' <=> P!Travels(From, P!Was, q)
    BY <2>5 DEF P!Travels, P!Has
  <2>9. Copied(arrived, left)'
    <3>1. Beside' = Beside
      BY <2>5 DEF Beside
    <3> QED BY <3>1, <1>4, <1>6, <1>9, <2>2, <2>3, <2>5, <2>6, <2>7, <2>8 DEF Copied, P!Has
  <2>10. ok => CopiedAll(arrived, left)'
    BY <1>7, <2>5, <2>6, <2>8 DEF CopiedAll
  <2>11. IsCopied'
    BY <2>2, <2>9, <2>10 DEF IsCopied
  <2>12. AfterCopy'
    BY <1>2, <2>2, <2>4, <2>5, <2>11 DEF AfterCopy, Running, Started, Ended
  <2>13. P!PlansAreKept'
    BY <2>12, CopiedIsKept, PTL
  <2>14. Steady'
    BY <1>2, <2>2, <2>5 DEF Steady, NotRun, Compared, Ended
  <2> QED BY <2>2, <2>4, <2>13, <2>14 DEF PlanInv
<1> QED BY <1>8, <1>9

(* What a bisync has left.                                                 *)
Converged ==
    /\ Running /\ plan.form.kind = "bisync" /\ ~plan.same /\ plan.pruned = P!NoFs
    /\ "dry_run" \notin plan.body.keys
    /\ Within(began, objects, {P!Source, P!Target})

LEMMA ConvergedIsKept == Converged => P!PlansAreKept
<1> SUFFICES ASSUME Converged PROVE P!PlansAreKept
  OBVIOUS
<1>1. /\ Running /\ Shaped /\ plan.form \in Forms /\ plan.form.kind = "bisync"
      /\ plan.form.kind \in Written
  BY DEF Converged, Running, Shaped, Written
<1>2. Spots /\ Says
  BY <1>1, SpotsAre, BodyIs
<1>3. P!StaysPut
  <2>1. "bisync" \in P!FormKinds
    BY <1>1 DEF P!FormKinds, P!Form
  <2>2. {P!Source, P!Target} \subseteq P!Places
    BY <1>2, <2>1 DEF P!Places, Spots
  <2>3. Within(began, objects, P!Places)
    BY <2>2, WithinMore DEF Converged
  <2>4. ~P!Dry
    BY <1>1, <1>2, BisyncKeysAre DEF Converged, Says, P!Dry, P!Form, Request
  <2>5. P!Writable(plan.d)
    BY <1>1, <1>2 DEF Says
  <2> QED BY <1>1, <2>3, <2>4, <2>5, PlacesAre DEF P!StaysPut, Converged
<1>4. P!LosesLittle
  <2>1. "bisync" \in P!FormKinds /\ plan.d.allowDelete
    BY <1>1, <1>2 DEF P!FormKinds, P!Form, Says
  <2> QED BY <1>1, <2>1 DEF P!LosesLittle, P!Form
<1>5. P!KeepsOld
  BY <1>1, <1>2 DEF P!KeepsOld, Spots
<1>6. P!CopiesAll /\ P!ComparesTrue
  BY <1>1 DEF P!CopiesAll, P!ComparesTrue, Converged, P!Form
<1> QED BY <1>3, <1>4, <1>5, <1>6 DEF P!PlansAreKept

LEMMA ConvergesKeepsPlan ==
    ASSUME PlanInv, plan.at = "running", plan.body.op = "sync/bisync", P!Converges
    PROVE  PlanInv'
<1>1. /\ Running /\ Still /\ ~plan.same /\ PlanIs(plan) /\ Shaped /\ plan.form \in Forms
  BY RunningIs
<1>2. plan.form.kind = "bisync" /\ plan.form.kind \in Written
  BY <1>1, BodyIs, KindsApart DEF Says, Written
<1>3. Spots /\ Mapped(objects)
  BY <1>1, <1>2, SpotsAre DEF Shaped
<1> DEFINE S == P!Files(objects, P!Source)
           T == P!Files(objects, P!Target)
           both(from, to) == P!Over([q \in from |-> S[q]], [q \in to |-> T[q]])
<1>4. PICK from, to \in SUBSET (DOMAIN S \cup DOMAIN T) :
          /\ from \subseteq DOMAIN S /\ to \subseteq DOMAIN T
          /\ P!Finishes(TRUE)
          /\ objects' = IF P!Has("dry_run") THEN objects
                        ELSE P!Placed(P!Placed(objects, P!Source, both(from, to)),
                                      P!Target, both(from, to))
  BY DEF P!Converges
<1>5. CASE P!Has("dry_run")
  BY <1>2, <1>4, <1>5, StillHolds
<1>6. CASE ~P!Has("dry_run")
  <2> DEFINE held == both(from, to)
             once == P!Placed(objects, P!Source, held)
  <2>1. DOMAIN held \subseteq Relative /\ held = [q \in DOMAIN held |-> held[q]]
    <3>1. DOMAIN S \subseteq Relative /\ DOMAIN T \subseteq Relative
      BY <1>3, FilesAre DEF Spots
    <3>2. DOMAIN held = from \cup to
      BY DEF P!Over
    <3>3. held = [q \in DOMAIN held |-> held[q]]
      BY DEF P!Over
    <3> QED BY <1>4, <3>1, <3>2, <3>3
  <2>2. objects' = P!Placed(once, P!Target, held)
    BY <1>4, <1>6
  <2> HIDE DEF held
  <2>3. Mapped(once) /\ Spares(objects, once, P!Source)
    BY <1>3, <2>1, PlacedIs DEF Spots
  <2> HIDE DEF once
  <2>4. Mapped(objects') /\ Spares(once, objects', P!Target)
    BY <1>3, <2>1, <2>2, <2>3, PlacedIs DEF Spots
  <2>5. Within(objects, objects', {P!Source, P!Target})
    <3>1. /\ Within(objects, once, {P!Source, P!Target})
          /\ Within(once, objects', {P!Source, P!Target})
      BY <2>3, <2>4, SparesWithin
    <3> QED BY <3>1, WithinTwice
  <2>6. /\ Follows /\ Admitted' /\ plan'.at \in Ended
        /\ plan'.at = "purge" => plan.form.entry = "move"
        /\ plan'.pruned = P!NoFs /\ ~plan'.same
        /\ registry' = registry /\ rebinds' = rebinds
    BY <1>4, EndsSo
  <2>7. Shaped'
    BY <1>1, <2>4, <2>6 DEF Shaped, Follows
  <2>8. /\ P!Target' = P!Target /\ P!Source' = P!Source
        /\ plan'.body = plan.body /\ plan'.form = plan.form /\ began' = began /\ P!NoFs' = P!NoFs
    BY <2>6, Frame DEF Follows, P!NoFs
  <2>9. Converged'
    BY <1>1, <1>2, <1>6, <2>5, <2>6, <2>7, <2>8 DEF Converged, Running, Started, Ended, P!Has, Still
  <2>10. P!PlansAreKept'
    BY <2>9, ConvergedIsKept, PTL
  <2>11. Steady'
    BY <1>2, <2>6, <2>8 DEF Steady, NotRun, Compared, Ended
  <2> QED BY <2>6, <2>7, <2>10, <2>11 DEF PlanInv
<1> QED BY <1>5, <1>6

LEMMA RunsKeepsPlan == ASSUME PlanInv, P!Runs PROVE PlanInv'
BY FailsKeepsPlan, CopiesKeepsPlan, ConvergesKeepsPlan, ComparesKeepsPlan DEF P!Runs, P!At

------------------------------------------------------------------------------
(* What comes after the job: files go that are below fs.                   *)
LEMMA GoesBelow ==
    ASSUME Mapped(objects), NEW fs, IsFs(fs), NEW gone \in SUBSET P!PathsIn(objects, fs),
           NEW u, u = P!Without(objects, fs, gone), NEW target, IsFs(target),
           NEW places, Within(began, objects, places), NEW more, places \cup {fs} \subseteq more
    PROVE  /\ Mapped(u) /\ Within(began, u, more)
           /\ ~P!Together(fs, target) => P!Files(u, target) = P!Files(objects, target)
<1>1. Mapped(u) /\ Spares(objects, u, fs)
  BY WithoutIs
<1>2. Within(began, objects, more)
  BY WithinMore
<1>3. Within(objects, u, more)
  BY <1>1, SparesWithin
<1>4. Within(began, u, more)
  BY <1>2, <1>3, WithinTwice
<1> QED BY <1>1, <1>4, SparedFiles

LEMMA PlacesWithin ==
    ASSUME Shaped, P!StaysPut
    PROVE  Within(began, objects, P!Places)
<1>1. Mapped(began) /\ Mapped(objects)
  BY ForestsAre DEF Shaped
<1> SUFFICES ASSUME NEW c \in Connections, NEW p \in Paths,
                    ~ \E fs \in P!Places : c = fs.on /\ P!IsPrefix(fs.path, p)
             PROVE  /\ p \in DOMAIN began[c] <=> p \in DOMAIN objects[c]
                    /\ p \in DOMAIN began[c] => began[c][p] = objects[c][p]
  BY DEF Within
<1>2. c \in DOMAIN objects
  BY <1>1 DEF Mapped
<1>3. p \in DOMAIN objects[c] \cup DOMAIN began[c] =>
          p \in DOMAIN objects[c] \cap DOMAIN began[c] /\ objects[c][p] = began[c][p]
  BY <1>2 DEF P!StaysPut
<1> QED BY <1>3

StaysIn ==
    /\ Shaped /\ Within(began, objects, P!Places)
    /\ objects # began => P!Writable(plan.d) /\ (~P!Dry \/ plan.pruned # P!NoFs)
    /\ plan.pruned # P!NoFs => P!Deletable(registry[plan.form.to])
LEMMA StaysInIs == StaysIn => P!StaysPut
BY PlacesAre DEF StaysIn, P!StaysPut, P!Form

LEMMA AfterKeeps ==
    ASSUME PlanInv, plan.at \in {"purge", "prune"}, Follows, plan'.at = "done", Shaped',
           plan.form.kind \in Written, ~plan'.same,
           ~(plan.form.entry = "move" /\ P!Together(P!Source, P!Target)) => StaysIn',
           ~(plan.form.entry = "move" /\ P!Together(P!Source, P!Target)) =>
               P!PrunedThere' \/ P!Is' = P!Is,
           plan'.pruned # P!NoFs \/ plan.body.backup = P!NoFs \/ objects' = objects
    PROVE  PlanInv'
<1>1. /\ P!Source' = P!Source /\ P!Target' = P!Target /\ P!Form' = P!Form
      /\ P!Was' = P!Was /\ From' = From /\ P!Dry' = P!Dry /\ P!FormKinds' = P!FormKinds
      /\ P!NoFs' = P!NoFs /\ plan'.form = plan.form /\ plan'.body = plan.body
      /\ plan'.d = plan.d
  BY Frame DEF P!NoFs, Follows
<1>2. Admitted'
  BY GatedOn DEF PlanInv
<1>3. Steady'
  BY <1>1 DEF Steady, Compared, Written, NotRun
<1>4. plan.pruned = P!NoFs
  BY DEF PlanInv, Steady
<1>5. P!PlansAreKept'
  <2>1. CASE plan.form.entry = "move" /\ P!Together(P!Source, P!Target)
    BY <1>1, <2>1 DEF P!PlansAreKept, P!Form
  <2>2. CASE ~(plan.form.entry = "move" /\ P!Together(P!Source, P!Target))
    <3>1. P!LosesLittle /\ P!KeepsOld /\ P!CopiesAll
      BY <2>2 DEF PlanInv, P!PlansAreKept, P!Ran, P!Form
    <3>2. P!PrunedThere' \/ P!Is' = P!Is
      BY <2>2
    <3>3. ~P!PrunedThere
      BY <1>4 DEF P!PrunedThere
    <3>4. (P!Spared' <=> P!Spared) /\ (P!Sparse' <=> P!Sparse)
      BY <1>1 DEF P!Spared, P!Sparse
    <3>5. P!StaysPut'
      <4>1. StaysIn'
        BY <2>2
      <4> QED BY <4>1, StaysInIs, PTL
    <3>6. P!LosesLittle'
      BY <1>1, <3>1, <3>2, <3>3, <3>4 DEF P!LosesLittle
    <3>7. P!KeepsOld'
      <4>1. CASE plan'.pruned # P!NoFs \/ plan.body.backup = P!NoFs
        BY <1>1, <4>1 DEF P!KeepsOld
      <4>2. CASE objects' = objects
        <5>1. P!Is' = P!Is
          BY <1>1, <4>2 DEF P!Is
        <5> QED BY <1>1, <1>4, <3>1, <4>2, <5>1 DEF P!KeepsOld
      <4> QED BY <4>1, <4>2
    <3>8. P!CopiesAll'
      <4>1. plan.form.kind = "dir" /\ ~P!Dry /\ ~P!Sparse =>
              /\ \A q \in DOMAIN From :
                     /\ q \in DOMAIN P!Is
                     /\ \/ P!Seems(P!Form.flags, From[q], P!Is[q])
                        \/ q \in DOMAIN P!Was /\ (P!Spared \/ "update" \in P!Form.flags)
              /\ "mirror" \in P!FormKinds /\ "suffix" \notin P!Form.flags =>
                     DOMAIN P!Is = DOMAIN From
        BY <3>1, <3>3 DEF P!CopiesAll, From, P!Form
      <4>2. P!Files(began, P!Source)' = From
        BY <1>1 DEF From
      <4> QED BY <1>1, <3>2, <3>4, <4>1, <4>2 DEF P!CopiesAll, P!Form, P!Seems
    <3>9. P!ComparesTrue'
      BY DEF P!ComparesTrue
    <3> QED BY <3>5, <3>6, <3>7, <3>8, <3>9 DEF P!PlansAreKept
  <2> QED BY <2>1, <2>2
<1> QED BY <1>2, <1>3, <1>5 DEF PlanInv

LEMMA PurgesKeepsPlan == ASSUME PlanInv, P!Purges PROVE PlanInv'
<1>1. /\ plan.at = "purge" /\ PlanIs(plan) /\ Shaped /\ plan.form \in Forms /\ Admitted
      /\ plan.form.entry = "move" /\ ~plan.same /\ plan.pruned = P!NoFs
      /\ plan.form.kind = "dir"
  <2>1. plan.at = "purge"
    BY DEF P!Purges, P!At
  <2>2. plan.form.entry = "move" /\ plan.form \in Forms
    BY <2>1 DEF PlanInv, Steady, Shaped
  <2>3. plan.form.kind = "dir"
    BY <2>2, KindsAre
  <2> QED BY <2>1, <2>2, <2>3 DEF PlanInv, Steady, Shaped, Written
<1>2. /\ plan' = [plan EXCEPT !.at = "done"] /\ UNCHANGED <<registry, began, rebinds>>
      /\ objects' \in {objects, P!Without(objects, P!Source, P!PathsIn(objects, P!Source))}
  BY DEF P!Purges, P!Goes
<1>3. /\ plan'.form = plan.form /\ plan'.b = plan.b /\ plan'.d = plan.d /\ plan'.src = plan.src
      /\ plan'.dst = plan.dst /\ plan'.body = plan.body /\ plan'.pruned = plan.pruned
      /\ plan'.same = plan.same /\ PlanIs(plan') /\ plan'.at = "done"
  BY <1>1, <1>2, Goes1
<1>4. Follows
  BY <1>1, <1>2, <1>3 DEF Follows, PlanLabels, Started
<1>5. Running /\ plan.form.kind \in Written
  BY <1>1 DEF Running, Started, Written
<1>6. Spots /\ Says /\ Mapped(objects)
  BY <1>1, <1>5, SpotsAre, BodyIs DEF Shaped
<1>7. /\ P!Source' = P!Source /\ P!Target' = P!Target /\ P!Form' = P!Form
      /\ P!FormKinds' = P!FormKinds /\ P!NoFs' = P!NoFs
  BY <1>4, Frame DEF P!NoFs
<1>8. P!Source \in P!Places /\ P!Places' = P!Places
  <2>1. "move" \in P!FormKinds
    <3>1. ~plan.form.sync
      BY <1>1, FormsAre DEF IsForm
    <3> QED BY <1>1, <3>1 DEF P!FormKinds, P!Form, P!TaskMirrors
  <2> QED BY <1>3, <1>6, <1>7, <2>1 DEF P!Places, Spots
<1>9. Mapped(objects')
  <2> DEFINE gone == P!PathsIn(objects, P!Source)
             u == P!Without(objects, P!Source, gone)
  <2>1. u = P!Without(objects, P!Source, gone) /\ gone \in SUBSET P!PathsIn(objects, P!Source)
    OBVIOUS
  <2> HIDE DEF u, gone
  <2>2. Mapped(u)
    BY <1>6, <2>1, WithoutIs DEF Spots
  <2> QED BY <1>2, <1>6, <2>2 DEF u, gone
<1>10. Shaped'
  BY <1>1, <1>2, <1>3, <1>9 DEF Shaped, PlanLabels
<1>11. plan.body.backup = P!NoFs
  <2>1. Request.backup = <<>>
    BY <1>1, RequestsAre DEF Request
  <2> QED BY <1>6, <2>1 DEF Spots
<1>12. ASSUME ~P!Together(P!Source, P!Target)
       PROVE  Within(began, objects', P!Places) /\ P!Is' = P!Is
  <2>1. P!StaysPut
    BY <1>1, <1>12 DEF PlanInv, P!PlansAreKept, P!Ran
  <2>2. Within(began, objects, P!Places)
    BY <1>1, <2>1, PlacesWithin
  <2>3. CASE objects' = objects
    BY <1>7, <2>2, <2>3 DEF P!Is
  <2>4. CASE objects' = P!Without(objects, P!Source, P!PathsIn(objects, P!Source))
    <3> DEFINE gone == P!PathsIn(objects, P!Source)
               target == P!Target
               u == P!Without(objects, P!Source, gone)
    <3>1. /\ u = P!Without(objects, P!Source, gone) /\ gone \in SUBSET P!PathsIn(objects, P!Source)
          /\ IsFs(target) /\ ~P!Together(P!Source, target)
      BY <1>6, <1>12 DEF Spots
    <3>2. objects' = u
      BY <2>4
    <3> HIDE DEF u, gone, target
    <3>3. Within(began, u, P!Places) /\ P!Files(u, target) = P!Files(objects, target)
      BY <1>6, <1>8, <2>2, <3>1, GoesBelow DEF Spots
    <3> QED BY <1>7, <3>2, <3>3 DEF P!Is, target
  <2> QED BY <1>2, <2>3, <2>4
<1>13. ~(plan.form.entry = "move" /\ P!Together(P!Source, P!Target)) =>
          StaysIn' /\ P!Is' = P!Is
  <2>1. ~P!Dry' /\ P!Writable(plan'.d)
    BY <1>1, <1>3, <1>5, <1>6, <1>7 DEF P!Dry, P!Form, Says
  <2> QED BY <1>1, <1>3, <1>7, <1>8, <1>10, <1>12, <1>2, <2>1 DEF StaysIn
<1> QED BY <1>1, <1>3, <1>4, <1>5, <1>10, <1>11, <1>13, AfterKeeps

LEMMA PrunesKeepsPlan == ASSUME PlanInv, P!Prunes PROVE PlanInv'
<1> DEFINE d == registry[plan.form.to]
           path == P!Gate(d, plan.form.backup)
           fs == P!Fs(plan.form.to, d, path)
           skips == ~P!Deletable(d) \/ ~P!Inside(d, plan.form.backup)
<1>1. /\ plan.at = "prune" /\ PlanIs(plan) /\ Shaped /\ plan.form \in Forms /\ Admitted
      /\ plan.form.kind \in Written /\ ~plan.same /\ plan.pruned = P!NoFs
      /\ registry \in Registries
  <2>1. plan.at = "prune"
    BY DEF P!Prunes, P!At
  <2>2. plan.form \in Forms
    BY DEF PlanInv, Shaped
  <2>3. plan.form.kind \in Written
    BY <2>1, <2>2, KindsApart DEF PlanInv, Steady
  <2> QED BY <2>1, <2>2, <2>3 DEF PlanInv, Steady, Shaped
<1>2. Running /\ Spots /\ Says /\ Mapped(objects)
  <2>1. Running
    BY <1>1 DEF Running, Started
  <2> QED BY <1>1, <2>1, SpotsAre, BodyIs DEF Shaped
<1>3. P!Writable(plan.d)
  BY <1>1, <1>2 DEF Says
<1>4. plan.form.to \in Connections /\ plan.form.backup \in Seq(Seq(STRING))
  BY <1>1, FormsAre DEF IsForm
<1>5. Tie(d) /\ path \in Paths
  BY <1>1, <1>4, BindingsAre, GateTyped
<1>6. IsFs(fs) /\ (~skips => fs # P!NoFs /\ P!Deletable(d))
  BY <1>4, <1>5, FsIs DEF P!Inside
<1> HIDE DEF path, fs
<1>7. ASSUME plan'.pruned \in {P!NoFs, fs}, PlanIs(plan'), plan'.at = "done",
             Follows, Mapped(objects'),
             UNCHANGED <<registry, rebinds>>, ~plan'.same,
             Within(began, objects, P!Places) => Within(began, objects', P!Places'),
             plan'.pruned = P!NoFs => objects' = objects,
             plan'.pruned # P!NoFs => ~skips,
             P!PrunedThere' \/ P!Is' = P!Is
      PROVE  PlanInv'
  <2>1. /\ P!Source' = P!Source /\ P!Target' = P!Target /\ P!Form' = P!Form
        /\ P!NoFs' = P!NoFs /\ P!Dry' = P!Dry /\ plan'.form = plan.form /\ plan'.body = plan.body
        /\ plan'.d = plan.d /\ began' = began
    BY <1>7, Frame DEF P!NoFs, Follows
  <2>2. Shaped'
    BY <1>1, <1>7, <2>1 DEF Shaped, PlanLabels
  <2>3. ~(plan.form.entry = "move" /\ P!Together(P!Source, P!Target)) => StaysIn'
    <3> SUFFICES ASSUME ~(plan.form.entry = "move" /\ P!Together(P!Source, P!Target))
                 PROVE  StaysIn'
      OBVIOUS
    <3>1. P!StaysPut
      BY <1>1 DEF PlanInv, P!PlansAreKept, P!Ran, P!Form
    <3>2. Within(began, objects, P!Places)
      BY <1>1, <3>1, PlacesWithin
    <3>3. Within(began, objects', P!Places')
      BY <1>7, <3>2
    <3>4. objects' # began => ~P!Dry \/ plan'.pruned # P!NoFs
      BY <1>1, <1>7, <3>1 DEF P!StaysPut
    <3>5. plan'.pruned # P!NoFs => P!Deletable(registry[plan.form.to])
      BY <1>6, <1>7
    <3>6. registry' = registry
      BY <1>7
    <3> QED BY <1>3, <2>1, <2>2, <3>3, <3>4, <3>5, <3>6 DEF StaysIn
  <2>4. plan'.pruned # P!NoFs \/ plan.body.backup = P!NoFs \/ objects' = objects
    BY <1>7
  <2> QED BY <1>1, <1>7, <2>2, <2>3, <2>4, AfterKeeps
<1>8. CASE skips
  <2>1. plan' = [plan EXCEPT !.at = "done"] /\ UNCHANGED <<registry, objects, began, rebinds>>
    BY <1>1, <1>8 DEF P!Prunes, P!To, P!Goes, path
  <2>2. /\ plan'.form = plan.form /\ plan'.b = plan.b /\ plan'.d = plan.d /\ plan'.src = plan.src
        /\ plan'.dst = plan.dst /\ plan'.body = plan.body /\ plan'.pruned = plan.pruned
        /\ plan'.same = plan.same /\ PlanIs(plan') /\ plan'.at = "done"
    BY <1>1, <2>1, Goes1
  <2>3. Follows
    BY <1>1, <2>1, <2>2 DEF Follows, PlanLabels, Started
  <2>4. /\ P!Source' = P!Source /\ P!Target' = P!Target /\ P!NoFs' = P!NoFs
        /\ P!FormKinds' = P!FormKinds
    BY <2>3, Frame DEF P!NoFs
  <2>5. P!Places' = P!Places /\ P!Is' = P!Is
    BY <2>1, <2>2, <2>4 DEF P!Places, P!Is
  <2>6. plan'.pruned = P!NoFs
    BY <1>1, <2>2
  <2> QED BY <1>1, <1>2, <1>7, <2>1, <2>2, <2>3, <2>5, <2>6
<1>9. CASE ~skips
  <2>1. /\ plan' = [plan EXCEPT !.at = "done", !.pruned = fs]
        /\ UNCHANGED <<registry, began, rebinds>>
    BY <1>1, <1>9 DEF P!Prunes, P!Goes, path, fs
  <2>2. PICK gone \in SUBSET P!PathsIn(objects, fs) : objects' = P!Without(objects, fs, gone)
    BY <1>1, <1>9 DEF P!Prunes, path, fs
  <2>3. /\ plan'.form = plan.form /\ plan'.b = plan.b /\ plan'.d = plan.d /\ plan'.src = plan.src
        /\ plan'.dst = plan.dst /\ plan'.body = plan.body /\ plan'.pruned = fs
        /\ plan'.same = plan.same /\ PlanIs(plan') /\ plan'.at = "done"
    BY <1>1, <2>1 DEF PlanIs
  <2>4. Follows
    BY <1>1, <2>1, <2>3 DEF Follows, PlanLabels, Started
  <2>5. /\ P!Source' = P!Source /\ P!Target' = P!Target /\ P!NoFs' = P!NoFs
        /\ P!FormKinds' = P!FormKinds
    BY <2>4, Frame DEF P!NoFs
  <2>6. P!Places \cup {fs} \subseteq P!Places'
    BY <1>1, <1>6, <1>9, <2>3, <2>5 DEF P!Places
  <2> DEFINE target == P!Target
             u == P!Without(objects, fs, gone)
  <2>7. u = P!Without(objects, fs, gone) /\ IsFs(target) /\ objects' = u
    BY <1>2, <2>2 DEF Spots
  <2> HIDE DEF u, target
  <2>8. Mapped(u)
    BY <1>2, <1>6, <2>7, WithoutIs
  <2>9. Within(began, objects, P!Places) => Within(began, u, P!Places')
    BY <1>2, <1>6, <2>6, <2>7, GoesBelow
  <2>10. P!PrunedThere' \/ P!Is' = P!Is
    <3>1. CASE P!Together(fs, target)
      BY <1>6, <1>9, <2>3, <2>5, <3>1 DEF P!PrunedThere, target
    <3>2. CASE ~P!Together(fs, target)
      <4>1. P!Files(u, target) = P!Files(objects, target)
        BY <1>2, <1>6, <2>7, <3>2, WithoutIs, SparedFiles
      <4> QED BY <2>5, <2>7, <4>1 DEF P!Is, target
    <3> QED BY <3>1, <3>2
  <2> QED BY <1>1, <1>6, <1>7, <1>9, <2>1, <2>3, <2>4, <2>7, <2>8, <2>9, <2>10
<1> QED BY <1>8, <1>9

LEMMA PlanStep == ASSUME PlanInv, P!PlanNext PROVE PlanInv'
BY AsksKeepsPlan, WakesKeepsPlan, RebindsKeepsPlan, StartsKeepsPlan, ProbesKeepsPlan,
   RunsKeepsPlan, PurgesKeepsPlan, PrunesKeepsPlan DEF P!PlanNext

LEMMA PlanRests == ASSUME PlanInv, UNCHANGED plans PROVE PlanInv'
<1>1. UNCHANGED <<registry, objects, began, plan, rebinds>>
  BY DEF plans
<1>2. P!NoFs' = P!NoFs
  BY DEF P!NoFs
<1>3. Shaped'
  BY <1>1 DEF PlanInv, Shaped
<1>4. Admitted'
  BY <1>1 DEF PlanInv, Admitted, Told, Request
<1>5. P!Source' = P!Source /\ P!Target' = P!Target /\ P!Form' = P!Form
  BY <1>1 DEF P!Source, P!Target, P!Form
<1>6. Steady'
  BY <1>1, <1>2, <1>5 DEF PlanInv, Steady, Still, P!SumsThere
<1>7. P!PlansAreKept'
  <2>1. P!Was' = P!Was /\ P!Is' = P!Is
    BY <1>1, <1>5 DEF P!Was, P!Is
  <2>2. P!Dry' = P!Dry /\ P!FormKinds' = P!FormKinds /\ P!Spared' = P!Spared
        /\ P!Sparse' = P!Sparse
    BY <1>5 DEF P!Dry, P!FormKinds, P!Spared, P!Sparse
  <2>3. P!Places' = P!Places /\ P!PrunedThere' = P!PrunedThere /\ P!Ran' = P!Ran
    BY <1>1, <1>2, <1>5, <2>2 DEF P!Places, P!PrunedThere, P!Ran
  <2>4. P!StaysPut' <=> P!StaysPut
    BY <1>1, <1>2, <1>5, <2>2, <2>3 DEF P!StaysPut
  <2>5. P!LosesLittle' <=> P!LosesLittle
    BY <1>1, <1>5, <2>1, <2>2, <2>3 DEF P!LosesLittle
  <2>6. P!KeepsOld' <=> P!KeepsOld
    BY <1>1, <1>2, <1>5, <2>1 DEF P!KeepsOld
  <2>7. P!CopiesAll' <=> P!CopiesAll
    BY <1>1, <1>5, <2>1, <2>2, <2>3 DEF P!CopiesAll
  <2>8. P!ComparesTrue' <=> P!ComparesTrue
    BY <1>1, <1>5, <2>1 DEF P!ComparesTrue, P!SumsAgree, P!TreesAgree, P!Has
  <2> QED BY <1>1, <1>5, <2>3, <2>4, <2>5, <2>6, <2>7, <2>8 DEF PlanInv, P!PlansAreKept
<1> QED BY <1>3, <1>4, <1>6, <1>7 DEF PlanInv

(* What the body of a job has.                                             *)
BodyTyped ==
    /\ plan.body.op \in {"none", "sync/sync", "sync/copy", "sync/bisync", "operations/check"}
    /\ plan.body.keys \subseteq
          P!Common \cup P!Conditions \cup {"dry_run", "oneWay", "download", "resync"}

LEMMA BodyRuns == Running => BodyTyped
<1> SUFFICES ASSUME Shaped, Admitted, plan.at \in Started PROVE BodyTyped
  BY DEF Running
<1>1. PICK backup \in Paths : Told(backup)
  BY DEF Admitted
<1>2. plan.body = P!Body(Request, plan.d, backup)
  BY <1>1 DEF Told
<1>3. /\ plan.body.op = P!Op(Request)
      /\ plan.body.keys = CASE Request.kind = "dir" -> P!DirKeys(Request)
                            [] Request.kind = "bisync" -> P!BisyncKeys(Request)
                            [] OTHER -> P!CheckKeys(Request)
  BY <1>2 DEF P!Body
<1>4. Request.kind = plan.form.kind /\ plan.form.kind \in {"dir", "check", "sums", "bisync"}
  BY RequestsAre, KindsAre DEF Shaped, Request
<1>5. plan.body.op \in {"sync/sync", "sync/copy", "sync/bisync", "operations/check"}
  BY <1>3, <1>4 DEF P!Op
<1>6. /\ P!DirKeys(Request) \subseteq P!Common \cup P!Conditions \cup {"dry_run"}
      /\ P!BisyncKeys(Request) \subseteq {"dry_run", "resync"}
      /\ P!CheckKeys(Request) \subseteq {"oneWay", "download"}
  BY DEF P!DirKeys, P!BisyncKeys, P!CheckKeys, P!BisyncFlags, P!CheckFlags
<1>7. plan.body.keys \in {P!DirKeys(Request), P!BisyncKeys(Request), P!CheckKeys(Request)}
  BY <1>3, <1>4
<1> QED BY <1>5, <1>6, <1>7 DEF BodyTyped

LEMMA BodyStart == P!PlanInit => BodyTyped
<1> SUFFICES ASSUME P!PlanInit PROVE BodyTyped
  OBVIOUS
<1>1. plan.body = P!NoBody
  BY DEF P!PlanInit
<1> QED BY <1>1 DEF P!NoBody, BodyTyped

LEMMA BodyStep == ASSUME PlanInv, BodyTyped, P!PlanNext PROVE BodyTyped'
<1>1. PlanIs(plan)
  BY DEF PlanInv, Shaped
<1>2. SUFFICES ASSUME plan'.body # plan.body
               PROVE  BodyTyped'
  BY DEF BodyTyped
<1>3. P!Starts
  <2>1. ~P!Asks
    BY <1>1, <1>2 DEF P!Asks, P!Goes, PlanIs
  <2>2. ~P!Wakes /\ ~P!Probes
    BY <1>1, <1>2 DEF P!Wakes, P!Probes, P!Refused, P!To, P!Goes, PlanIs
  <2>3. ~P!Rebinds
    BY <1>2 DEF P!Rebinds
  <2>4. ~(\E ok \in BOOLEAN : P!Finishes(ok))
    BY <1>1, <1>2 DEF P!Finishes, P!Goes, PlanIs
  <2>5. ~P!Runs
    <3>1. ~P!Compares
      BY <1>1, <1>2 DEF P!Compares, P!Goes, PlanIs
    <3>2. ~P!Fails /\ ~P!Converges
      BY <2>4 DEF P!Fails, P!Converges
    <3>3. ~P!Copies
      <4> SUFFICES ASSUME P!Copies PROVE FALSE
        OBVIOUS
      <4>1. PICK a, b : P!Finishes(a = b)
        BY DEF P!Copies
      <4> QED BY <2>4, <4>1
    <3> QED BY <3>1, <3>2, <3>3 DEF P!Runs
  <2>6. ~P!Purges /\ ~P!Prunes
    BY <1>1, <1>2 DEF P!Purges, P!Prunes, P!To, P!Goes, PlanIs
  <2> QED BY <2>1, <2>2, <2>3, <2>5, <2>6 DEF P!PlanNext
<1>4. plan'.at \in Started
  BY <1>1, <1>2, <1>3 DEF P!Starts, P!StartsWith, P!Refused, P!To, P!Goes, PlanIs, Started
<1>5. PlanInv'
  BY <1>3, StartsKeepsPlan
<1>6. Running'
  BY <1>4, <1>5 DEF PlanInv, Running
<1> QED BY <1>6, BodyRuns, PTL

PlansInv == PlanInv /\ BodyTyped

LEMMA PlansStart == P!PlanInit => PlansInv
BY PlanStart, BodyStart DEF PlansInv

LEMMA PlansStep == ASSUME PlansInv, P!PlanNext PROVE PlansInv'
BY PlanStep, BodyStep DEF PlansInv

LEMMA PlansRest == ASSUME PlansInv, UNCHANGED plans PROVE PlansInv'
BY PlanRests DEF PlansInv, BodyTyped, plans

LEMMA PlansMean == PlansInv => P!PlanTypeOK /\ PlansAreKept
BY DEF PlansInv, PlanInv, Shaped, PlanLabels, BodyTyped, P!PlanTypeOK, PlansAreKept
------------------------------------------------------------------------------
(* What is packed, unpacked and decoded has its types.                     *)
PackerIs == packer = [at |-> packer.at, as |-> packer.as, plan |-> packer.plan,
                      packed |-> packer.packed]
ReaderIs ==
    reader = [at |-> reader.at, seen |-> reader.seen, size |-> reader.size,
              eocd |-> reader.eocd, entries |-> reader.entries, budget |-> reader.budget,
              local |-> reader.local, plan |-> reader.plan]
ArchInv == A!ArchiveTypeOK /\ PackerIs /\ ReaderIs

LEMMA ArchStart == A!ArchiveInit => ArchInv
BY UnpackAssumption
DEF A!ArchiveInit, ArchInv, A!ArchiveTypeOK, PackerIs, ReaderIs, A!NoPacker, A!NoReader

LEMMA PackerSteps ==
    ASSUME ArchInv, A!Plans \/ A!Packs \/ A!Seals
    PROVE  ArchInv'
<1>1. PackerIs' /\ packer'.at \in {"idle", "pack"}
  <2>1. \A p : p = A!NoPacker => p.at = "idle" /\ p = [at |-> p.at, as |-> p.as, plan |-> p.plan,
                                                      packed |-> p.packed]
    BY DEF A!NoPacker
  <2>2. CASE A!Plans
    <3>1. packer' = A!NoPacker \/ \E form, paths : packer' =
              [A!NoPacker EXCEPT !.at = "pack", !.as = form, !.plan = paths]
      BY <2>2 DEF A!Plans, A!PackerGoes
    <3>2. ASSUME NEW form, NEW paths, packer' =
                     [A!NoPacker EXCEPT !.at = "pack", !.as = form, !.plan = paths]
          PROVE  packer' = [at |-> "pack", as |-> form, plan |-> paths, packed |-> <<>>]
      BY <3>2 DEF A!NoPacker
    <3>3. packer' = A!NoPacker \/ \E form, paths :
              packer' = [at |-> "pack", as |-> form, plan |-> paths, packed |-> <<>>]
      BY <3>1, <3>2
    <3> QED BY <2>1, <3>3 DEF PackerIs
  <2>3. CASE A!Packs
    <3>1. packer' = A!NoPacker \/ \E packed : packer' =
              [packer EXCEPT !.plan = Tail(packer.plan), !.packed = packed]
      BY <2>3 DEF A!Packs, A!PackerGoes
    <3> QED BY <2>1, <3>1 DEF PackerIs, ArchInv, A!ArchiveTypeOK
  <2>4. CASE A!Seals
    BY <2>1, <2>4 DEF A!Seals, A!PackerGoes, PackerIs
  <2> QED BY <2>2, <2>3, <2>4
<1>2. UNCHANGED <<inputs, reader, edits, extracts>>
  BY DEF A!Plans, A!Packs, A!Seals, A!PackerGoes
<1>3. packs' \in 0..MaxEdits
  BY UnpackAssumption DEF A!Plans, A!Packs, A!Seals, ArchInv, A!ArchiveTypeOK
<1> QED BY <1>1, <1>2, <1>3 DEF ArchInv, A!ArchiveTypeOK, ReaderIs

ReaderLabels == {"idle", "magic", "tar", "tail", "directory", "local", "bytes", "write"}
Reading == /\ reader' = [at |-> reader'.at, seen |-> reader'.seen, size |-> reader'.size,
                         eocd |-> reader'.eocd, entries |-> reader'.entries,
                         budget |-> reader'.budget, local |-> reader'.local,
                         plan |-> reader'.plan]
           /\ reader'.at \in ReaderLabels

LEMMA ReaderSteps ==
    ASSUME ArchInv,
           \/ A!Opens \/ A!Detects \/ A!ReadsTar \/ A!ReadsTail \/ A!ReadsDirectory
           \/ A!ReadsLocal \/ A!ReadsBytes \/ A!Writes \/ A!WriteFails
    PROVE  ArchInv'
<1>1. reader = [at |-> reader.at, seen |-> reader.seen, size |-> reader.size,
                eocd |-> reader.eocd, entries |-> reader.entries, budget |-> reader.budget,
                local |-> reader.local, plan |-> reader.plan] /\ reader.at \in ReaderLabels
  BY DEF ArchInv, ReaderIs, A!ArchiveTypeOK, ReaderLabels
<1>2. reader' = A!NoReader => Reading
  BY DEF A!NoReader, Reading, ReaderLabels
<1>3. Reading
  <2>1. CASE A!Opens
    <3>1. reader' = A!NoReader \/ \E n : reader' = [A!NoReader EXCEPT !.at = "magic", !.size = n]
      BY <2>1 DEF A!Opens, A!ReaderGoes
    <3> QED BY <1>2, <3>1 DEF A!NoReader, Reading, ReaderLabels
  <2>2. CASE A!Detects
    <3>1. reader' = A!NoReader \/ \E l \in {"tail", "tar"} : reader' = [reader EXCEPT !.at = l]
      BY <2>2 DEF A!Detects, A!Refuses, A!Reads, A!ReaderGoes
    <3> QED BY <1>1, <1>2, <3>1 DEF Reading, ReaderLabels
  <2>3. CASE A!ReadsTar
    <3>1. reader' = A!NoReader \/ \E s, p : reader' =
              [reader EXCEPT !.at = "write", !.seen = s, !.plan = p]
      BY <2>3 DEF A!ReadsTar, A!Refuses, A!Reads, A!ReaderGoes
    <3> QED BY <1>1, <1>2, <3>1 DEF Reading, ReaderLabels
  <2>4. CASE A!ReadsTail
    <3>1. reader' = A!NoReader \/ \E e : reader' = [reader EXCEPT !.at = "directory", !.eocd = e]
      BY <2>4 DEF A!ReadsTail, A!Refuses, A!Reads, A!ReaderGoes
    <3> QED BY <1>1, <1>2, <3>1 DEF Reading, ReaderLabels
  <2>5. CASE A!ReadsDirectory
    <3>1. reader' = A!NoReader \/ \E s, e : reader' =
              [reader EXCEPT !.at = "local", !.seen = s, !.entries = e]
      BY <2>5 DEF A!ReadsDirectory, A!Refuses, A!Reads, A!ReaderGoes
    <3> QED BY <1>1, <1>2, <3>1 DEF Reading, ReaderLabels
  <2>6. CASE A!ReadsLocal
    <3>1. \/ reader' = A!NoReader \/ reader' = [reader EXCEPT !.at = "write"]
          \/ \E b, l : reader' = [reader EXCEPT !.at = "bytes", !.budget = b, !.local = l]
      BY <2>6 DEF A!ReadsLocal, A!Refuses, A!Reads, A!ReaderGoes
    <3> QED BY <1>1, <1>2, <3>1 DEF Reading, ReaderLabels
  <2>7. CASE A!ReadsBytes
    <3>1. reader' = A!NoReader \/ \E e, p : reader' =
              [reader EXCEPT !.at = "local", !.entries = e, !.plan = p]
      BY <2>7 DEF A!ReadsBytes, A!Refuses, A!Reads, A!ReaderGoes
    <3> QED BY ZenonT(60), <1>1, <1>2, <3>1 DEF Reading, ReaderLabels
  <2>8. CASE A!Writes \/ A!WriteFails
    <3>1. reader' = A!NoReader \/ reader' = reader
      BY SMTT(40), <2>8 DEF A!Writes, A!WriteFails, A!Refuses, A!Reads, A!ReaderGoes
    <3> QED BY <1>1, <1>2, <3>1 DEF Reading
  <2> QED BY <2>1, <2>2, <2>3, <2>4, <2>5, <2>6, <2>7, <2>8
<1>4. UNCHANGED <<inputs, packer, edits, packs>>
  BY DEF A!Opens, A!Detects, A!ReadsTar, A!ReadsTail, A!ReadsDirectory, A!ReadsLocal,
         A!ReadsBytes, A!Writes, A!WriteFails, A!Refuses, A!Reads, A!ReaderGoes
<1>5. extracts' \in 0..MaxEdits
  <2>1. extracts \in 0..MaxEdits /\ MaxEdits \in Nat
    BY SMTT(40), UnpackAssumption DEF ArchInv, A!ArchiveTypeOK
  <2>2. extracts' = extracts \/ (extracts < MaxEdits /\ extracts' = extracts + 1)
    BY DEF A!Opens, A!Detects, A!ReadsTar, A!ReadsTail, A!ReadsDirectory, A!ReadsLocal,
           A!ReadsBytes, A!Writes, A!WriteFails, A!Refuses, A!Reads
  <2> QED BY <2>1, <2>2
<1> QED
  BY <1>3, <1>4, <1>5 DEF Reading, ArchInv, A!ArchiveTypeOK, ReaderIs, ReaderLabels, PackerIs

LEMMA ArchStep == ASSUME ArchInv, A!ArchiveNext PROVE ArchInv'
<1>1. CASE A!Edits
  <2>1. inputs' = inputs \/ \E s \in A!ToSet(Sources), data \in Contents \cup {Missing} :
            inputs' = [inputs EXCEPT ![s] = data]
    BY <1>1 DEF A!Edits
  <2>2. inputs' \in [A!ToSet(Sources) -> Contents \cup {Missing}]
    BY <2>1 DEF ArchInv, A!ArchiveTypeOK
  <2>3. edits' \in 0..MaxEdits /\ UNCHANGED <<packer, reader, packs, extracts>>
    BY <1>1, UnpackAssumption DEF A!Edits, ArchInv, A!ArchiveTypeOK
  <2> QED BY <2>2, <2>3 DEF ArchInv, A!ArchiveTypeOK, PackerIs, ReaderIs
<1> QED BY <1>1, PackerSteps, ReaderSteps DEF A!ArchiveNext

LEMMA ArchRests == ASSUME ArchInv, UNCHANGED archives PROVE ArchInv'
BY DEF archives, ArchInv, A!ArchiveTypeOK, PackerIs, ReaderIs

------------------------------------------------------------------------------
(* The decoder.                                                            *)
Lengths == Seq(0..MaxCode)
StreamLabels ==
    {"header", "block", "lengths", "lit", "dist", "symbol", "trailer", "done", "error"}
StreamInv ==
    /\ step \in StreamLabels
    /\ lengths \in Lengths /\ Len(lengths) <= G!Total
    /\ taken \in Seq({0, 1}) /\ read \in Nat /\ read + Len(taken) <= MaxRead

LEMMA TotalIs == G!Total \in Nat /\ G!Match \in Nat
BY UnpackAssumption DEF G!Total, G!Match

LEMMA StreamStart == G!GzipInit => StreamInv
BY UnpackAssumption, TotalIs DEF G!GzipInit, StreamInv, StreamLabels, Lengths

LEMMA Emptied == <<>> \in Lengths /\ Len(<<>>) = 0 /\ <<>> \in Seq({0, 1})
BY DEF Lengths

LEMMA FixedIs == G!FixedLengths \in Lengths /\ Len(G!FixedLengths) = G!Total
<1>1. G!Total \in Nat /\ G!Match \in Nat
  BY TotalIs
<1>2. G!FixedLengths \in [1..G!Total -> 0..MaxCode]
  BY <1>1, UnpackAssumption DEF G!FixedLengths
<1> DEFINE f == G!FixedLengths
           n == G!Total
<1> HIDE DEF f, n
<1>3. f \in Seq(0..MaxCode) /\ Len(f) = n
  <2>1. n \in Nat /\ f \in [1..n -> 0..MaxCode]
    BY <1>1, <1>2 DEF f, n
  <2>2. f \in Seq(0..MaxCode)
    BY <2>1, SeqDef
  <2> QED BY <2>1, <2>2, LenProperties
<1> QED BY <1>3 DEF f, n, Lengths

LEMMA RunsAre ==
    ASSUME StreamInv, NEW run \in G!Runs, Len(lengths) + Len(run) <= G!Total
    PROVE  lengths \o run \in Lengths /\ Len(lengths \o run) <= G!Total
<1>1. Repeat \in Nat /\ MaxCode \in Nat
  BY UnpackAssumption
<1>2. run \in Lengths
  <2>1. CASE run \in {<<n>> : n \in 0..MaxCode}
    <3>1. PICK n \in 0..MaxCode : run = <<n>>
      BY <2>1
    <3> QED BY <3>1 DEF Lengths
  <2>2. CASE run = [i \in 1..Repeat |-> 0]
    <3>1. 0 \in 0..MaxCode
      BY <1>1
    <3> QED BY <1>1, <2>2, <3>1 DEF Lengths
  <2>3. CASE lengths # <<>> /\ run = [i \in 1..Repeat |-> G!Last(lengths)]
    <3>1. G!Last(lengths) \in 0..MaxCode
      <4>1. Len(lengths) \in 1..Len(lengths) /\ lengths \in Seq(0..MaxCode)
        BY <2>3, EmptySeq DEF StreamInv, Lengths
      <4> QED BY <4>1, ElementOfSeq DEF G!Last
    <3> DEFINE last == G!Last(lengths)
    <3> HIDE DEF last
    <3>2. last \in 0..MaxCode /\ run = [i \in 1..Repeat |-> last]
      BY <2>3, <3>1 DEF last
    <3> QED BY <1>1, <3>2 DEF Lengths
  <2> QED BY <2>1, <2>2, <2>3 DEF G!Runs
<1>3. lengths \in Seq(0..MaxCode) /\ run \in Seq(0..MaxCode)
  BY <1>2 DEF StreamInv, Lengths
<1>4. lengths \o run \in Seq(0..MaxCode) /\ Len(lengths \o run) = Len(lengths) + Len(run)
  BY <1>3
<1> QED BY <1>4 DEF Lengths

LEMMA StreamStep == ASSUME StreamInv, G!GzipNext PROVE StreamInv'
<1> USE DEF StreamInv, StreamLabels
<1>0. read \in Nat /\ Len(taken) \in Nat /\ MaxRead \in Nat /\ G!Total \in Nat
  BY UnpackAssumption, TotalIs
<1>1. ASSUME G!Fails PROVE StreamInv'
  BY <1>0, <1>1, Emptied DEF G!Fails, G!Goes
<1>2. ASSUME UNCHANGED <<lengths, taken, read>>,
             step' \in StreamLabels
      PROVE  StreamInv'
  BY <1>2
<1>3. ASSUME lengths' \in {<<>>, lengths}, taken' = taken, read' = read,
             step' \in {"block", "trailer"}
      PROVE  StreamInv'
  BY <1>0, <1>3, Emptied
<1>4. CASE G!Opens \/ G!Closes
  BY <1>1, <1>2, <1>4 DEF G!Opens, G!Closes, G!Goes, G!Scanner
<1>5. CASE G!ReadsStored
  <2>1. PICK last, data, rest : G!TakesStored(last, data, rest)
    BY <1>5 DEF G!ReadsStored
  <2> QED BY <1>1, <1>3, <2>1 DEF G!TakesStored, G!Ends, G!Goes, G!Scanner
<1>6. CASE G!MeetsCoded
  <2>1. UNCHANGED <<taken, read>> /\ \/ step' = "lengths" /\ lengths' = lengths
                                     \/ step' = "lit" /\ lengths' = G!FixedLengths
    BY <1>6 DEF G!MeetsCoded, G!Goes, G!Scanner
  <2> QED BY <1>0, <2>1, FixedIs
<1>7. CASE G!ReadsLengths
  <2>1. PICK run \in G!Runs :
            \/ G!Fails
            \/ /\ Len(lengths) + Len(run) <= G!Total /\ lengths' = lengths \o run
               /\ UNCHANGED <<step, taken, read>>
    <3>1. \A run \in G!Runs : Len(run) \in Nat
      BY UnpackAssumption DEF G!Runs
    <3> QED BY SMTT(40), <1>0, <1>7, <3>1 DEF G!ReadsLengths, G!Scanner, Lengths
  <2> QED BY <1>1, <2>1, RunsAre
<1>8. CASE G!Builds
  BY <1>1, <1>2, <1>8 DEF G!Builds, G!Goes, G!Scanner
<1>9. CASE G!ReadsBit
  <2>1. PICK bit \in {0, 1} : G!Decodes(bit)
    BY <1>9 DEF G!ReadsBit
  <2>2. CASE G!Fails
    BY <1>1, <2>2
  <2>3. CASE ~G!Fails
    <3>1. /\ taken' = Append(taken, bit) /\ step' \in {"symbol", step}
          /\ UNCHANGED <<lengths, read>>
      BY <2>1, <2>3 DEF G!Decodes, G!Goes
    <3>2. read + Len(taken) < MaxRead
      BY <1>9 DEF G!ReadsBit
    <3> QED BY <1>0, <2>1, <3>1, <3>2
  <2> QED BY <2>2, <2>3
<1>10. CASE G!RunsOut
  BY <1>1, <1>10 DEF G!RunsOut
<1>11. ASSUME G!Consumes, lengths' \in {<<>>, lengths},
              step' \in {"lit", "dist", "trailer", "block"}
       PROVE  StreamInv'
  BY <1>0, <1>11, Emptied DEF G!Consumes
<1>12. CASE G!EmitsLiteral
  BY <1>1, <1>11, <1>12 DEF G!EmitsLiteral, G!Goes
<1>13. CASE G!EndsBlock
  BY <1>11, <1>13 DEF G!EndsBlock, G!Ends, G!Goes
<1>14. CASE G!MeetsMatch
  BY <1>11, <1>14 DEF G!MeetsMatch, G!Goes
<1>15. CASE G!EmitsMatch
  BY <1>1, <1>11, <1>15 DEF G!EmitsMatch, G!Goes
<1> QED
  BY <1>4, <1>5, <1>6, <1>7, <1>8, <1>9, <1>10, <1>12, <1>13, <1>14, <1>15 DEF G!GzipNext

LEMMA StreamRests == ASSUME StreamInv, UNCHANGED streams PROVE StreamInv'
BY DEF streams, StreamInv

LEMMA StreamMeans == StreamInv => G!GzipTypeOK
BY UnpackAssumption DEF StreamInv, StreamLabels, Lengths, G!GzipTypeOK
------------------------------------------------------------------------------
(* The connection itself.  What each call knows of the form it is about,   *)
(* and at most one that registers, unless two met: then it stands where    *)
(* the entry was when it began, and what is in the rcds is either that of  *)
(* the entry or about to be.                                               *)
ProxyGroups == {"direct", "http", "socks5"}
Resting == {"idle", "answered"}
TestAt == {"forward", "create", "sweep", "look", "clean"}
ConnectAt == {"predelete", "forward", "clear", "create", "sweep", "probe", "heal", "recreate",
              "insert", "fail"}
DropAt == {"delete", "remove", "release"}
TestHolds == {"sweep", "look", "clean"}
ConnectHolds == {"sweep", "probe", "heal", "recreate", "insert"}

CallIs(x) ==
    x = [at |-> x.at, kind |-> x.kind, form |-> x.form, n |-> x.n, old |-> x.old,
         section |-> x.section, verdict |-> x.verdict, own |-> x.own, troubled |-> x.troubled,
         lost |-> x.lost]
Accepted(f) == f \in offered.forms /\ R!Parses(f)
Bounds(x) ==
    \/ x.kind = "test" /\ x.at \in TestAt /\ x.n # 0 /\ x.old = "none" /\ Accepted(x.form)
    \/ x.kind = "connect" /\ x.at \in ConnectAt /\ x.n # 0 /\ Accepted(x.form)
    \/ x.kind = "disconnect" /\ x.at \in DropAt
CallOK(x) ==
    /\ CallIs(x) /\ x.n \in 0..begun
    /\ x.at # "idle" /\ x.kind # "disconnect" => x.form \in offered.forms
    /\ x.at \in Resting \/ Bounds(x)
Registers(x) == x.at \notin Resting /\ x.kind # "test"
Tests(x) == x.kind = "test" /\ x.at \in TestHolds
Left == DOMAIN sections \ orphans

RemShape ==
    /\ \A c \in Threads : CallOK(calls[c])
    /\ calls = [c \in Threads |-> calls[c]]
    /\ DOMAIN sections \subseteq ProxyGroups \X (0..begun) /\ orphans \subseteq DOMAIN sections
    /\ DOMAIN forwards = {"live", "test"}
    /\ entry = [group |-> entry.group, section |-> entry.section, root |-> entry.root,
                form |-> entry.form]
    /\ R!Registered => Accepted(entry.form) /\ entry.group = R!GroupOf(entry.form)
    /\ begun \in 0..offered.calls /\ troubles \in 0..MaxTroubles /\ offered \in Offers
TestsTidy ==
    \A name \in Left :
        name[2] # 0 => \E c \in Threads : Tests(calls[c]) /\ name = R!NameOf(calls[c])

Stands(x) ==
    LET old == <<x.old, 0>>
        own == R!NameOf(x)
    IN /\ x.at # "release" => x.old = entry.group
       /\ x.at = "release" => ~R!Registered
       /\ x.kind = "connect" /\ x.at # "predelete" /\ x.old \notin {"none", R!GroupOf(x.form)} =>
             old \notin Left
       /\ x.at = "remove" => old \notin Left
       /\ x.at \in {"probe", "insert"} /\ ~x.lost =>
             own \in DOMAIN sections /\ sections[own] = x.section
Harmless(x) ==
    x.at \in {"predelete", "delete"} \/ (x.at = "forward" /\ x.old = R!GroupOf(x.form))
Held(x) ==
    \A name \in Left :
        name[2] = 0 =>
            \/ name[1] = entry.group
            \/ Registers(x) /\ x.at \in ConnectHolds /\ name = R!NameOf(x)
Intact == <<entry.group, 0>> \in DOMAIN sections /\ sections[<<entry.group, 0>>] = entry.section
Focus(x) ==
    /\ Registers(x) => Stands(x)
    /\ Held(x)
    /\ spoiled = "no" /\ R!Registered /\ (Registers(x) => Harmless(x)) => Intact
Apart ==
    /\ \A c, d \in Threads : Registers(calls[c]) /\ Registers(calls[d]) => c = d
    /\ \A c \in Threads : Registers(calls[c]) => Focus(calls[c])
    /\ (\A c \in Threads : ~Registers(calls[c])) => Focus(R!NoCall)
ConnInv == RemShape /\ TestsTidy /\ (spoiled = "met" \/ Apart)

LEMMA Offered == \A o \in Offers : o.calls \in Nat
<1>1. R!MaxPort \in Nat
  BY DEF R!MaxPort
<1> QED BY <1>1, RemoteAssumption

LEMMA GroupsAre ==
    ASSUME NEW f, R!Parses(f)
    PROVE  R!GroupOf(f) \in ProxyGroups
BY DEF R!Parses, R!GroupOf, ProxyGroups

LEMMA NameIs ==
    ASSUME NEW x
    PROVE  /\ R!NameOf(x) = <<R!GroupOf(x.form), IF x.kind = "test" THEN x.n ELSE 0>>
           /\ R!NameOf(x)[2] = IF x.kind = "test" THEN x.n ELSE 0
           /\ R!NameOf(x)[1] = R!GroupOf(x.form)
BY DEF R!NameOf

LEMMA ConnStart == R!RemoteInit => ConnInv
<1> SUFFICES ASSUME R!RemoteInit PROVE ConnInv
  OBVIOUS
<1> DEFINE none == R!NoCall
<1>1. none = [at |-> "idle", kind |-> "none", form |-> R!AnyForm, n |-> 0, old |-> "none",
              section |-> R!NoSection, verdict |-> FALSE, own |-> TRUE, troubled |-> FALSE,
              lost |-> FALSE]
  BY DEF R!NoCall
<1>2. CallIs(none) /\ none.at = "idle" /\ none.n = 0 /\ none.kind = "none"
  <2> HIDE DEF none
  <2> QED BY <1>1 DEF CallIs
<1> HIDE DEF none
<1>3. calls = [c \in Threads |-> none] /\ \A c \in Threads : calls[c] = none
  BY DEF R!RemoteInit, none
<1>4. /\ sections = <<>> /\ orphans = {} /\ begun = 0 /\ troubles = 0 /\ offered \in Offers
      /\ entry = R!NoEntry /\ forwards = [key \in {"live", "test"} |-> R!NoForwarder]
  BY DEF R!RemoteInit
<1>5. DOMAIN sections = {}
  BY <1>4
<1>6. /\ entry = [group |-> entry.group, section |-> entry.section, root |-> entry.root,
                  form |-> entry.form]
      /\ ~R!Registered
  BY <1>4 DEF R!NoEntry, R!Registered
<1>7. offered.calls \in Nat
  BY <1>4, Offered
<1>8. \A c \in Threads : CallOK(calls[c])
  BY <1>2, <1>3, <1>4 DEF CallOK, Resting
<1>9. RemShape
  BY <1>3, <1>4, <1>5, <1>6, <1>7, <1>8, RemoteAssumption DEF RemShape
<1>10. TestsTidy
  BY <1>5 DEF TestsTidy, Left
<1>11. \A c \in Threads : ~Registers(calls[c])
  BY <1>2, <1>3 DEF Registers, Resting
<1>12. Focus(none)
  BY <1>2, <1>5, <1>6 DEF Focus, Held, Left, Registers, Resting
<1>13. Apart
  BY <1>11, <1>12 DEF Apart, none
<1> QED BY <1>9, <1>10, <1>13 DEF ConnInv

LEMMA ConnRests == ASSUME ConnInv, UNCHANGED remotes PROVE ConnInv'
<1>1. UNCHANGED <<offered, sections, forwards, entry, calls, spoiled, orphans, begun, troubles>>
  BY DEF remotes
<1>2. RemShape'
  <2>1. \A f : /\ Accepted(f)' <=> Accepted(f)
               /\ R!GroupOf(f)' = R!GroupOf(f)
    BY <1>1 DEF Accepted, R!Parses, R!ProxyOf, R!TunnelOf, R!GroupOf, R!Wins
  <2>2. \A x : CallOK(x)' <=> CallOK(x)
    BY <1>1, <2>1 DEF CallOK, Bounds
  <2> QED BY <1>1, <2>1, <2>2 DEF ConnInv, RemShape, R!Registered
<1>3. TestsTidy'
  BY <1>1 DEF ConnInv, TestsTidy, Left, R!NameOf, R!GroupOf, R!ProxyOf, R!Wins
<1>4. ASSUME NEW x, Focus(x) PROVE Focus(x)'
  <2>1. R!NameOf(x)' = R!NameOf(x) /\ R!GroupOf(x.form)' = R!GroupOf(x.form)
    BY DEF R!NameOf, R!GroupOf, R!ProxyOf, R!Wins
  <2>2. Left' = Left /\ Intact' = Intact /\ R!Registered' = R!Registered
    BY <1>1 DEF Left, Intact, R!Registered
  <2>3. Stands(x)' <=> Stands(x)
    BY <1>1, <2>1, <2>2 DEF Stands
  <2>4. Held(x)' <=> Held(x)
    BY <1>1, <2>1, <2>2 DEF Held, Registers
  <2> QED BY <1>1, <1>4, <2>1, <2>2, <2>3, <2>4 DEF Focus, Registers, Harmless
<1>5. R!NoCall' = R!NoCall
  BY DEF R!NoCall, R!AnyForm, R!NoSection, R!NoEndpoint
<1>6. Apart => Apart'
  BY <1>1, <1>4, <1>5 DEF Apart, Registers
<1> QED BY <1>1, <1>2, <1>3, <1>6 DEF ConnInv

LEMMA NamesStay ==
    ASSUME NEW x
    PROVE  R!NameOf(x)' = R!NameOf(x) /\ R!GroupOf(x.form)' = R!GroupOf(x.form)
BY DEF R!NameOf, R!GroupOf, R!ProxyOf, R!Wins

(* What a step makes of its call.                                          *)
Same(x, y) ==
    CallIs(y) /\ y.kind = x.kind /\ y.form = x.form /\ y.n = x.n /\ y.old = x.old
Turned(x, y, a) ==
    Same(x, y) /\ y.at = a /\ y.section = x.section /\ y.lost = x.lost

LEMMA TurnsTo ==
    ASSUME NEW x, CallIs(x), NEW a, NEW y, y = [x EXCEPT !.at = a]
    PROVE  Turned(x, y, a)
<1>1. y = [at |-> a, kind |-> x.kind, form |-> x.form, n |-> x.n, old |-> x.old,
           section |-> x.section, verdict |-> x.verdict, own |-> x.own,
           troubled |-> x.troubled, lost |-> x.lost]
  BY DEF CallIs
<1> QED BY <1>1 DEF CallIs, Same, Turned

LEMMA TroubledIs ==
    ASSUME NEW x, CallIs(x), NEW y, y = R!Troubled(x)
    PROVE  Turned(x, y, x.at)
<1>1. y = [at |-> x.at, kind |-> x.kind, form |-> x.form, n |-> x.n, old |-> x.old,
           section |-> x.section, verdict |-> x.verdict, own |-> x.own,
           troubled |-> TRUE, lost |-> x.lost]
  BY DEF CallIs, R!Troubled
<1> QED BY <1>1 DEF CallIs, Same, Turned

LEMMA AnswerIs ==
    ASSUME NEW x, CallIs(x), NEW ok, NEW y, y = R!Answer(x, ok)
    PROVE  Turned(x, y, "answered")
<1>1. y = [at |-> "answered", kind |-> x.kind, form |-> x.form, n |-> x.n, old |-> x.old,
           section |-> x.section, verdict |-> ok, own |-> x.own,
           troubled |-> x.troubled, lost |-> x.lost]
  BY DEF CallIs, R!Answer
<1> QED BY <1>1 DEF CallIs, Same, Turned

LEMMA TurnedTwice ==
    ASSUME NEW x, NEW y, NEW z, NEW a, NEW b, Turned(x, y, a), Turned(y, z, b)
    PROVE  Turned(x, z, b)
BY DEF Turned, Same

LEMMA TurnsTroubled ==
    ASSUME NEW x, CallIs(x), NEW a, NEW y, y \in {[x EXCEPT !.at = a],
                                               R!Troubled([x EXCEPT !.at = a])}
    PROVE  Turned(x, y, a)
<1> DEFINE z == [x EXCEPT !.at = a]
<1>1. \A t : t = z => Turned(x, t, a)
  BY TurnsTo
<1>2. Turned(x, z, a) /\ CallIs(z) /\ z.at = a
  BY <1>1 DEF Turned, Same
<1>3. y = z \/ y = R!Troubled(z)
  OBVIOUS
<1> HIDE DEF z
<1>4. y = R!Troubled(z) => Turned(z, y, a)
  BY <1>2, TroubledIs
<1> QED BY <1>2, <1>3, <1>4, TurnedTwice

LEMMA AnswersTroubled ==
    ASSUME NEW x, CallIs(x), NEW ok, NEW y, y \in {R!Answer(x, ok), R!Troubled(R!Answer(x, ok))}
    PROVE  Turned(x, y, "answered")
<1> DEFINE z == R!Answer(x, ok)
<1>1. \A t : t = z => Turned(x, t, "answered")
  BY AnswerIs
<1>2. Turned(x, z, "answered") /\ CallIs(z) /\ z.at = "answered"
  BY <1>1 DEF Turned, Same
<1>3. y = z \/ y = R!Troubled(z)
  OBVIOUS
<1> HIDE DEF z
<1>4. y = R!Troubled(z) => Turned(z, y, "answered")
  BY <1>2, TroubledIs
<1> QED BY <1>2, <1>3, <1>4, TurnedTwice

LEMMA SameName ==
    ASSUME NEW x, NEW y, Same(x, y)
    PROVE  R!NameOf(y) = R!NameOf(x)
BY DEF Same, R!NameOf

(* What a step does to the sections: it may change one of them.            *)
Touched(name) ==
    /\ DOMAIN sections' \subseteq DOMAIN sections \cup {name}
    /\ DOMAIN sections \subseteq DOMAIN sections' \cup {name}
    /\ \A k \in DOMAIN sections \ {name} : sections'[k] = sections[k]
    /\ Left' \subseteq Left \cup {name} /\ orphans' \subseteq DOMAIN sections'

LEMMA UntouchedIs ==
    ASSUME orphans \subseteq DOMAIN sections, UNCHANGED <<sections, orphans>>, NEW name
    PROVE  Touched(name) /\ Left' = Left
BY DEF Touched, Left

LEMMA GoneIs ==
    ASSUME orphans \subseteq DOMAIN sections, NEW name,
           sections' \in {sections, R!Without(name)},
           orphans' = (orphans \ {name}) \cup ({name} \cap DOMAIN sections')
    PROVE  /\ Touched(name) /\ Left' \subseteq Left \ {name}
           /\ DOMAIN sections' \subseteq DOMAIN sections
<1>1. /\ DOMAIN sections' \subseteq DOMAIN sections
      /\ DOMAIN sections \subseteq DOMAIN sections' \cup {name}
      /\ \A k \in DOMAIN sections \ {name} : sections'[k] = sections[k]
  BY DEF R!Without
<1> QED BY <1>1 DEF Touched, Left

LEMMA WrittenIs ==
    ASSUME orphans \subseteq DOMAIN sections, NEW name, NEW s,
           sections' \in {sections, R!Written(name, s)}, orphans' = orphans
    PROVE  /\ Touched(name)
           /\ sections' = R!Written(name, s) =>
                 name \in DOMAIN sections' /\ sections'[name] = s
<1>1. CASE sections' = sections
  <2>1. name \in DOMAIN R!Written(name, s) /\ R!Written(name, s)[name] = s
    BY DEF R!Written
  <2> QED BY <1>1, <2>1 DEF Touched, Left
<1>2. CASE sections' = R!Written(name, s)
  <2>1. /\ DOMAIN sections' = DOMAIN sections \cup {name} /\ sections'[name] = s
        /\ \A k \in DOMAIN sections \ {name} : sections'[k] = sections[k]
    BY <1>2 DEF R!Written
  <2> QED BY <2>1 DEF Touched, Left
<1> QED BY <1>1, <1>2

LEMMA DeletesSo ==
    ASSUME RemShape, NEW c \in Threads, NEW name, NEW call, R!Deletes(c, name, call)
    PROVE  /\ Touched(name) /\ Left' \subseteq Left \ {name}
           /\ DOMAIN sections' \subseteq DOMAIN sections
           /\ \E y \in {call, R!Troubled(call)} : calls' = [calls EXCEPT ![c] = y]
           /\ troubles' \in 0..MaxTroubles
<1>1. /\ sections' \in {sections, R!Without(name)}
      /\ orphans' = (orphans \ {name}) \cup ({name} \cap DOMAIN sections')
  BY DEF R!Deletes
<1>2. \E y \in {call, R!Troubled(call)} : calls' = [calls EXCEPT ![c] = y]
  BY DEF R!Deletes, R!Goes
<1>3. troubles' \in 0..MaxTroubles
  BY RemoteAssumption DEF R!Deletes, R!Trouble, R!Smooth, RemShape
<1>4. orphans \subseteq DOMAIN sections
  BY DEF RemShape
<1>5. /\ Touched(name) /\ Left' \subseteq Left \ {name}
      /\ DOMAIN sections' \subseteq DOMAIN sections
  BY <1>1, <1>4, GoneIs
<1> QED BY <1>2, <1>3, <1>5

(* One call goes on and the others stay.                                   *)
Moved(c, x, y) ==
    c \in Threads /\ x = calls[c] /\ calls' = [calls EXCEPT ![c] = y]

LEMMA MovedIs ==
    ASSUME RemShape, NEW c, NEW x, NEW y, Moved(c, x, y)
    PROVE  /\ calls'[c] = y /\ \A d \in Threads \ {c} : calls'[d] = calls[d]
           /\ calls' = [d \in Threads |-> calls'[d]]
           /\ CallOK(x)
BY DEF Moved, RemShape

LEMMA OkOn ==
    ASSUME NEW x, CallOK(x), x.at \notin Resting, NEW y, Same(x, y),
           \/ y.at = "answered"
           \/ x.kind = "test" /\ y.at \in TestAt
           \/ x.kind = "connect" /\ y.at \in ConnectAt
           \/ x.kind = "disconnect" /\ y.at \in DropAt
    PROVE  CallOK(y)
BY DEF CallOK, Same, Bounds, Resting

LEMMA ShapeOn ==
    ASSUME RemShape, NEW c, NEW x, NEW y, Moved(c, x, y), CallOK(y),
           UNCHANGED <<offered, begun>>, troubles' \in 0..MaxTroubles,
           DOMAIN sections' \subseteq ProxyGroups \X (0..begun),
           orphans' \subseteq DOMAIN sections',
           DOMAIN forwards' = DOMAIN forwards,
           entry' = [group |-> entry'.group, section |-> entry'.section, root |-> entry'.root,
                     form |-> entry'.form],
           entry'.group # "none" =>
               Accepted(entry'.form) /\ entry'.group = R!GroupOf(entry'.form)
    PROVE  RemShape'
<1>1. \A d \in Threads : CallOK(calls'[d])
  BY MovedIs DEF RemShape
<1>2. \A z : CallOK(z) => CallOK(z)'
  <2> TAKE z
  <2>1. Accepted(z.form)' <=> Accepted(z.form)
    BY DEF Accepted, R!Parses, R!ProxyOf, R!TunnelOf, R!Wins
  <2> QED BY <2>1 DEF CallOK, Bounds
<1>3. (\A d \in Threads : CallOK(calls[d]))'
  BY <1>1, <1>2
<1>5. (R!Registered => Accepted(entry.form) /\ entry.group = R!GroupOf(entry.form))'
  BY DEF R!Registered, Accepted, R!Parses, R!ProxyOf, R!TunnelOf, R!Wins, R!GroupOf
<1>6. calls' = [d \in Threads |-> calls'[d]]
  BY MovedIs
<1> QED BY <1>3, <1>5, <1>6 DEF RemShape

LEMMA TidyOn ==
    ASSUME RemShape, TestsTidy, NEW c, NEW x, NEW y, Moved(c, x, y),
           \A name \in Left' :
               name[2] # 0 => name \in Left \/ (Tests(y) /\ name = R!NameOf(y)),
           Tests(x) => R!NameOf(x) \notin Left' \/ (Tests(y) /\ R!NameOf(y) = R!NameOf(x))
    PROVE  TestsTidy'
<1>1. calls'[c] = y /\ \A d \in Threads \ {c} : calls'[d] = calls[d]
  BY MovedIs
<1>2. ASSUME NEW name \in Left', name[2] # 0
      PROVE  \E d \in Threads : Tests(calls'[d]) /\ name = R!NameOf(calls'[d])
  <2>1. CASE Tests(y) /\ name = R!NameOf(y)
    BY <1>1, <2>1 DEF Moved
  <2>2. CASE name \in Left
    <3>1. PICK d \in Threads : Tests(calls[d]) /\ name = R!NameOf(calls[d])
      BY <1>2, <2>2 DEF TestsTidy
    <3> QED BY <1>1, <1>2, <2>1, <3>1 DEF Moved
  <2> QED BY <1>2, <2>1, <2>2
<1>3. \A z : R!NameOf(z)' = R!NameOf(z)
  BY NamesStay
<1>4. (\A name \in Left :
          name[2] # 0 => \E d \in Threads : Tests(calls[d]) /\ name = R!NameOf(calls[d]))'
  BY <1>2, <1>3 DEF Tests
<1> QED BY <1>4 DEF TestsTidy

AnyFocus == \A z, w : ~Registers(z) /\ ~Registers(w) /\ Focus(z) => Focus(w)
LEMMA FocusAny == AnyFocus
BY DEF Focus, Held, AnyFocus

LEMMA NoCallStays == R!NoCall' = R!NoCall
BY DEF R!NoCall, R!AnyForm, R!NoSection, R!NoEndpoint

LEMMA NoCallRests == ~Registers(R!NoCall)
BY DEF R!NoCall, Registers, Resting

LEMMA FocusIs ==
    ASSUME Apart, NEW c \in Threads, Registers(calls[c])
    PROVE  Focus(calls[c]) /\ \A d \in Threads \ {c} : ~Registers(calls[d])
BY DEF Apart

LEMMA FocusOnly ==
    ASSUME RemShape, NEW c, NEW x, NEW y, Moved(c, x, y), Focus(y)',
           \A d \in Threads \ {c} : ~Registers(calls[d])
    PROVE  Apart'
<1>1. calls'[c] = y /\ \A d \in Threads \ {c} : calls'[d] = calls[d]
  BY MovedIs
<1>2. c \in Threads
  BY DEF Moved
<1>3. \A d \in Threads : Registers(calls'[d]) => d = c
  BY <1>1
<1>4. (\A d \in Threads : ~Registers(calls'[d])) => Focus(R!NoCall)'
  <2>1. ASSUME ~Registers(y) PROVE Focus(R!NoCall)'
    <3>1. \A z, w : ~Registers(z) /\ ~Registers(w) /\ Focus(z)' => Focus(w)'
      <4>1. AnyFocus'
        BY FocusAny, PTL
      <4> QED BY <4>1 DEF AnyFocus, Registers
    <3>2. \A w : w = R!NoCall => Focus(w)'
      BY <2>1, <3>1, NoCallRests
    <3> QED BY <3>2, NoCallStays
  <2> QED BY <1>1, <1>2, <2>1
<1>5. (\A d, e \in Threads : Registers(calls[d]) /\ Registers(calls[e]) => d = e)'
  BY <1>3 DEF Registers
<1>6. (\A d \in Threads : Registers(calls[d]) => Focus(calls[d]))'
  BY <1>1, <1>3 DEF Registers
<1>7. ((\A d \in Threads : ~Registers(calls[d])) => Focus(R!NoCall))'
  BY <1>4 DEF Registers
<1> QED BY <1>5, <1>6, <1>7 DEF Apart

LEMMA RegisterKeeps ==
    ASSUME ConnInv, NEW c, NEW x, NEW y, Moved(c, x, y), Registers(x),
           spoiled' # "met" => spoiled # "met" /\ (Focus(x) => Focus(y)')
    PROVE  spoiled' = "met" \/ Apart'
<1> SUFFICES ASSUME spoiled' # "met" PROVE Apart'
  OBVIOUS
<1>1. Apart /\ RemShape
  BY DEF ConnInv
<1>2. x = calls[c] /\ c \in Threads
  BY DEF Moved
<1>3. Focus(x) /\ \A d \in Threads \ {c} : ~Registers(calls[d])
  BY <1>1, <1>2, FocusIs
<1>4. Focus(y)'
  BY <1>3
<1> QED BY <1>1, <1>3, <1>4, FocusOnly

LEMMA OwnIs ==
    ASSUME NEW x, Registers(x)
    PROVE  R!NameOf(x) = <<R!GroupOf(x.form), 0>> /\ R!NameOf(x)[2] = 0
BY DEF Registers, R!NameOf

(* A step of a test, which has names of its own.                           *)
LEMMA TestsKeepFocus ==
    ASSUME RemShape, NEW name, name[2] # 0, Touched(name), UNCHANGED <<entry, spoiled>>,
           NEW z, Focus(z)
    PROVE  Focus(z)'
<1>1. R!NameOf(z)' = R!NameOf(z) /\ R!GroupOf(z.form)' = R!GroupOf(z.form)
  BY NamesStay
<1>2. \A k : k[2] = 0 => /\ (k \in Left' => k \in Left)
                         /\ (k \in DOMAIN sections => k \in DOMAIN sections')
                         /\ (k \in DOMAIN sections => sections'[k] = sections[k])
  BY DEF Touched
<1>3. Registers(z) => Stands(z)'
  <2> SUFFICES ASSUME Registers(z) PROVE Stands(z)'
    OBVIOUS
  <2> DEFINE old == <<z.old, 0>>
             own == R!NameOf(z)
  <2>1. Stands(z) /\ old[2] = 0 /\ own[2] = 0
    BY OwnIs DEF Focus
  <2>2. old \in Left' => old \in Left
    BY <1>2, <2>1
  <2>3. own \in DOMAIN sections => own \in DOMAIN sections' /\ sections'[own] = sections[own]
    BY <1>2, <2>1
  <2> QED BY <1>1, <2>1, <2>2, <2>3 DEF Stands, R!Registered
<1>4. Held(z)'
  BY <1>1, <1>2 DEF Focus, Held, Registers
<1>5. Intact => Intact'
  <2> DEFINE k == <<entry.group, 0>>
  <2>1. k[2] = 0
    OBVIOUS
  <2>2. k \in DOMAIN sections => k \in DOMAIN sections' /\ sections'[k] = sections[k]
    BY <1>2, <2>1
  <2> QED BY <2>2 DEF Intact
<1> QED BY <1>1, <1>3, <1>4, <1>5 DEF Focus, Registers, Harmless, R!Registered

LEMMA TestsKeep ==
    ASSUME ConnInv, NEW c, NEW x, NEW y, Moved(c, x, y), ~Registers(x), ~Registers(y),
           NEW name, name[2] # 0, Touched(name), UNCHANGED <<entry, spoiled>>
    PROVE  spoiled' = "met" \/ Apart'
<1> SUFFICES ASSUME spoiled # "met" PROVE Apart'
  OBVIOUS
<1>1. Apart /\ RemShape
  BY DEF ConnInv
<1>2. \A z : Focus(z) => Focus(z)'
  BY <1>1, TestsKeepFocus
<1>3. calls'[c] = y /\ \A d \in Threads \ {c} : calls'[d] = calls[d]
  BY <1>1, MovedIs
<1>4. c \in Threads /\ x = calls[c]
  BY DEF Moved
<1>5. \A d \in Threads : /\ Registers(calls'[d]) <=> Registers(calls[d])
                         /\ Registers(calls[d]) => calls'[d] = calls[d]
  BY <1>3, <1>4
<1>6. (\A d, e \in Threads : Registers(calls[d]) /\ Registers(calls[e]) => d = e)'
  BY <1>1, <1>5 DEF Registers, Apart
<1>7. \A d \in Threads : Registers(calls'[d]) => Focus(calls[d]) /\ calls'[d] = calls[d]
  BY <1>1, <1>5 DEF Apart
<1>8. \A d \in Threads : \A z : Registers(calls'[d]) /\ z = calls'[d] => Focus(z)'
  BY <1>2, <1>7
<1>9. (\A d \in Threads : Registers(calls[d]) => Focus(calls[d]))'
  BY <1>8 DEF Registers
<1>10. ((\A d \in Threads : ~Registers(calls[d])) => Focus(R!NoCall))'
  <2>1. (\A d \in Threads : ~Registers(calls'[d])) => Focus(R!NoCall)
    BY <1>1, <1>5 DEF Apart
  <2>2. \A z : z = R!NoCall /\ Focus(z) => Focus(z)'
    BY <1>2
  <2> QED BY <2>1, <2>2, NoCallStays DEF Registers
<1> QED BY <1>6, <1>9, <1>10 DEF Apart

(* A step of the one that registers, but for those that change the entry.  *)
Heads(x, y) ==
    LET old == <<x.old, 0>>
        own == R!NameOf(x)
    IN /\ x.at # "release" /\ (y.at = "release" => ~R!Registered)
       /\ x.kind = "connect" /\ y.at # "predelete" /\ x.old \notin {"none", R!GroupOf(x.form)} =>
             x.at # "predelete" \/ old \notin Left'
       /\ y.at = "remove" => old \notin Left'
       /\ y.at \in {"probe", "insert"} /\ ~y.lost =>
             own \in DOMAIN sections' /\ sections'[own] = y.section

Onward(x, y) ==
    /\ Left' \subseteq Left \cup {R!NameOf(x)}
    /\ Registers(y) => Heads(x, y)
    /\ R!NameOf(x) \in Left' =>
          \/ Registers(y) /\ y.at \in ConnectHolds
          \/ R!NameOf(x) \in Left /\ x.at \notin ConnectHolds
    /\ spoiled' = "no" /\ R!Registered /\ (Registers(y) => Harmless(y)) =>
          spoiled = "no" /\ Harmless(x) /\ sections' = sections

LEMMA FocusOn ==
    ASSUME RemShape, NEW x, NEW y, Registers(x), Same(x, y), Focus(x), entry' = entry,
           Onward(x, y)
    PROVE  Focus(y)'
<1> USE DEF Onward
<1>1. /\ R!NameOf(x) = <<R!GroupOf(x.form), 0>> /\ R!NameOf(y) = R!NameOf(x)
      /\ x.kind # "test"
  BY OwnIs, SameName DEF Registers
<1>2. /\ R!NameOf(y)' = R!NameOf(y) /\ R!GroupOf(y.form)' = R!GroupOf(y.form)
      /\ y.form = x.form /\ y.old = x.old /\ y.kind = x.kind
  BY NamesStay DEF Same
<1>3. Stands(x) /\ Held(x)
  BY DEF Focus
<1>4. Registers(y) => Stands(y)'
  <2> SUFFICES ASSUME Registers(y) PROVE Stands(y)'
    OBVIOUS
  <2> DEFINE old == <<x.old, 0>>
  <2>1. x.old # R!GroupOf(x.form) => old # R!NameOf(x)
    BY <1>1
  <2>2. y.at # "release" => y.old = entry'.group
    BY <1>2, <1>3 DEF Heads, Stands
  <2>3. y.at = "release" => entry'.group = "none"
    BY <1>3 DEF Heads, Stands, R!Registered
  <2>4. y.kind = "connect" /\ y.at # "predelete" /\ y.old \notin {"none", R!GroupOf(y.form)} =>
            old \notin Left'
    BY <1>2, <1>3, <2>1 DEF Heads, Stands
  <2>5. y.at = "remove" => old \notin Left'
    BY DEF Heads
  <2>6. y.at \in {"probe", "insert"} /\ ~y.lost =>
            R!NameOf(y) \in DOMAIN sections' /\ sections'[R!NameOf(y)] = y.section
    BY <1>1 DEF Heads
  <2> QED BY <1>2, <2>2, <2>3, <2>4, <2>5, <2>6 DEF Stands, R!Registered
<1>5. Held(y)'
  <2>1. \A k \in Left' : k[2] = 0 =>
            \/ k[1] = entry.group
            \/ Registers(y) /\ y.at \in ConnectHolds /\ k = R!NameOf(y)
    BY <1>1, <1>3 DEF Held
  <2> QED BY <1>2, <2>1 DEF Held, Registers
<1>6. (spoiled = "no" /\ R!Registered /\ (Registers(y) => Harmless(y)) => Intact)'
  <2> SUFFICES ASSUME spoiled' = "no", R!Registered', (Registers(y) => Harmless(y))'
               PROVE  Intact'
    OBVIOUS
  <2>1. R!Registered /\ (Registers(y) => Harmless(y))
    BY <1>2 DEF R!Registered, Registers, Harmless
  <2>2. spoiled = "no" /\ Harmless(x) /\ sections' = sections
    BY <2>1
  <2> QED BY <2>1, <2>2 DEF Focus, Intact
<1> QED BY <1>4, <1>5, <1>6 DEF Focus, Registers

------------------------------------------------------------------------------
(* A call begins.                                                          *)
LEMMA ShapeBegun ==
    ASSUME RemShape, NEW c, NEW x, NEW y, Moved(c, x, y), begun' = begun + 1,
           begun < offered.calls, CallIs(y), y.n \in 0..(begun + 1),
           y.kind # "disconnect" => y.form \in offered.forms,
           y.at \in Resting \/ Bounds(y),
           UNCHANGED <<offered, sections, orphans, forwards, entry, troubles>>
    PROVE  RemShape'
<1>1. begun \in Nat /\ offered.calls \in Nat
  BY Offered DEF RemShape
<1>2. calls'[c] = y /\ (\A d \in Threads \ {c} : calls'[d] = calls[d])
  BY MovedIs
<1>3. \A f : Accepted(f)' <=> Accepted(f)
  BY DEF Accepted, R!Parses, R!ProxyOf, R!TunnelOf, R!Wins
<1>4. \A z : CallOK(z) => CallOK(z)'
  BY <1>1, <1>3 DEF CallOK, Bounds
<1>5. CallOK(y)'
  BY <1>3 DEF CallOK, Bounds
<1>6. (\A d \in Threads : CallOK(calls[d]))'
  <2>1. \A d \in Threads : \A z : z = calls'[d] => CallOK(z)'
    BY <1>2, <1>4, <1>5 DEF RemShape
  <2> QED BY <2>1
<1>7. DOMAIN sections' \subseteq ProxyGroups \X (0..begun')
  BY <1>1 DEF RemShape
<1>8. begun' \in 0..offered'.calls
  BY <1>1
<1>9. (R!Registered => Accepted(entry.form) /\ entry.group = R!GroupOf(entry.form))'
  BY <1>3 DEF RemShape, R!Registered, R!GroupOf, R!ProxyOf, R!Wins
<1>10. calls' = [d \in Threads |-> calls'[d]]
  BY MovedIs
<1> QED BY <1>6, <1>7, <1>8, <1>9, <1>10 DEF RemShape

LEMMA FocusBegins ==
    ASSUME ConnInv, NEW c, NEW x, NEW y, Moved(c, x, y), ~Registers(x),
           y.at = "predelete" \/ (y.at = "delete" /\ y.kind = "disconnect"),
           y.old = entry.group,
           UNCHANGED <<sections, orphans, entry>>, R!Meets
    PROVE  spoiled' = "met" \/ Apart'
<1> SUFFICES ASSUME spoiled' # "met" PROVE Apart'
  OBVIOUS
<1>1. /\ \A d \in Threads : ~Registers(calls[d])
      /\ spoiled' = spoiled
  BY DEF R!Meets, R!Registering, R!Busy, Registers, Resting
<1>2. Focus(R!NoCall) /\ RemShape
  BY <1>1 DEF Apart, ConnInv
<1>3. Left' = Left /\ Intact' = Intact /\ R!Registered' = R!Registered
  BY DEF Left, Intact, R!Registered
<1>4. Stands(y)'
  BY DEF Stands
<1>5. Held(y)'
  <2>1. \A k \in Left : k[2] = 0 => k[1] = entry.group
    BY <1>2, NoCallRests DEF Focus, Held
  <2> QED BY <1>3, <2>1 DEF Held
<1>6. Focus(y)'
  BY <1>1, <1>2, <1>3, <1>4, <1>5, NoCallRests DEF Focus
<1> QED BY <1>1, <1>2, <1>6, FocusOnly

LEMMA NoCallIs == CallIs(R!NoCall) /\ R!NoCall.at = "idle" /\ R!NoCall.old = "none"
<1> DEFINE none == R!NoCall
<1>1. none = [at |-> "idle", kind |-> "none", form |-> R!AnyForm, n |-> 0, old |-> "none",
              section |-> R!NoSection, verdict |-> FALSE, own |-> TRUE, troubled |-> FALSE,
              lost |-> FALSE]
  BY DEF R!NoCall
<1> HIDE DEF none
<1>2. CallIs(none) /\ none.at = "idle" /\ none.old = "none"
  BY <1>1 DEF CallIs
<1> QED BY <1>2 DEF none

(* What begins is a test or registers nothing yet.                         *)
LEMMA BeginsRight ==
    ASSUME ConnInv, NEW c, NEW x, NEW y, Moved(c, x, y), x.at \in Resting,
           begun < offered.calls, begun' = begun + 1,
           CallIs(y), y.n = begun + 1, y.kind # "disconnect" => y.form \in offered.forms,
           UNCHANGED <<offered, sections, orphans, forwards, entry, troubles>>,
           \/ y.at = "answered" /\ spoiled' = spoiled
           \/ /\ y.at = "forward" /\ y.kind = "test" /\ y.old = "none" /\ Accepted(y.form)
              /\ spoiled' = spoiled
           \/ /\ \/ y.at = "predelete" /\ y.kind = "connect" /\ Accepted(y.form)
                 \/ y.at = "delete" /\ y.kind = "disconnect"
              /\ y.old = entry.group /\ R!Meets
    PROVE  ConnInv'
<1>1. begun \in Nat /\ RemShape /\ TestsTidy
  BY DEF ConnInv, RemShape
<1>2. y.n # 0 /\ y.n \in 0..(begun + 1)
  BY <1>1
<1>3. RemShape'
  BY <1>1, <1>2, ShapeBegun DEF Bounds, Resting, TestAt, ConnectAt, DropAt
<1>4. TestsTidy'
  <2>1. Left' = Left /\ ~Tests(x)
    BY DEF Left, Tests, TestHolds, Resting
  <2> QED BY <1>1, <2>1, TidyOn
<1>5. ~Registers(x)
  BY DEF Registers, Resting
<1>6. spoiled' = "met" \/ Apart'
  <2>1. CASE ~Registers(y) /\ spoiled' = spoiled
    <3> DEFINE name == <<"none", 1>>
    <3>1. Touched(name) /\ name[2] # 0
      BY <1>1, UntouchedIs DEF RemShape
    <3> HIDE DEF name
    <3> QED BY <1>5, <2>1, <3>1, TestsKeep
  <2>2. CASE /\ y.at = "predelete" \/ (y.at = "delete" /\ y.kind = "disconnect")
             /\ y.old = entry.group /\ R!Meets
    BY <1>5, <2>2, FocusBegins
  <2> QED BY <2>1, <2>2 DEF Registers, Resting
<1> QED BY <1>3, <1>4, <1>6 DEF ConnInv

LEMMA BeginsKeepsConn == ASSUME ConnInv, NEW c \in Threads, R!Begins(c) PROVE ConnInv'
<1>1. PICK f \in offered.forms, kind \in {"test", "connect"} :
          LET call == [R!NoCall EXCEPT !.kind = kind, !.form = f, !.n = begun + 1]
          IN IF ~R!Parses(f) THEN R!Goes(c, R!Answer(call, FALSE)) /\ UNCHANGED spoiled
             ELSE IF kind = "test"
                  THEN R!Goes(c, [call EXCEPT !.at = "forward"]) /\ UNCHANGED spoiled
             ELSE /\ R!Goes(c, [call EXCEPT !.at = "predelete", !.old = entry.group])
                  /\ R!Meets
  BY DEF R!Begins
<1>2. PICK n, g, call : /\ n = begun + 1 /\ g = entry.group
                        /\ call = [R!NoCall EXCEPT !.kind = kind, !.form = f, !.n = n]
  OBVIOUS
<1>3. CallIs(call) /\ call.kind = kind /\ call.form = f /\ call.n = n /\ call.old = "none"
  <2>1. PICK none : none = R!NoCall /\ CallIs(none) /\ none.old = "none"
    BY NoCallIs
  <2>2. call = [none EXCEPT !.kind = kind, !.form = f, !.n = n]
    BY <1>2, <2>1
  <2>3. call = [at |-> none.at, kind |-> kind, form |-> f, n |-> n, old |-> none.old,
                section |-> none.section, verdict |-> none.verdict, own |-> none.own,
                troubled |-> none.troubled, lost |-> none.lost]
    BY <2>1, <2>2 DEF CallIs
  <2> QED BY <2>1, <2>3 DEF CallIs
<1>4. PICK y : /\ calls' = [calls EXCEPT ![c] = y]
               /\ \/ ~R!Parses(f) /\ y = R!Answer(call, FALSE) /\ spoiled' = spoiled
                  \/ /\ R!Parses(f) /\ kind = "test" /\ y = [call EXCEPT !.at = "forward"]
                     /\ spoiled' = spoiled
                  \/ /\ R!Parses(f) /\ kind = "connect" /\ R!Meets
                     /\ y = [call EXCEPT !.at = "predelete", !.old = g]
  BY <1>1, <1>2 DEF R!Goes
<1>5. PICK x : x = calls[c]
  OBVIOUS
<1>6. /\ begun < offered.calls /\ begun' = begun + 1 /\ x.at \in Resting
      /\ UNCHANGED <<offered, sections, orphans, forwards, entry, troubles>>
  BY <1>5 DEF R!Begins, R!Busy, Resting
<1>7. y = R!Answer(call, FALSE) => Turned(call, y, "answered")
  BY <1>3, AnswerIs
<1>8. y = [call EXCEPT !.at = "forward"] => Turned(call, y, "forward")
  BY <1>3, TurnsTo
<1>9. y = [call EXCEPT !.at = "predelete", !.old = g] =>
          /\ CallIs(y) /\ y.at = "predelete" /\ y.kind = kind /\ y.form = f
          /\ y.n = n /\ y.old = g
  <2> SUFFICES ASSUME y = [call EXCEPT !.at = "predelete", !.old = g]
               PROVE  /\ CallIs(y) /\ y.at = "predelete" /\ y.kind = kind /\ y.form = f
                      /\ y.n = n /\ y.old = g
    OBVIOUS
  <2>1. y = [at |-> "predelete", kind |-> call.kind, form |-> call.form, n |-> call.n,
             old |-> g, section |-> call.section, verdict |-> call.verdict, own |-> call.own,
             troubled |-> call.troubled, lost |-> call.lost]
    BY <1>3 DEF CallIs
  <2> QED BY <1>3, <2>1 DEF CallIs
<1>10. CallIs(y) /\ y.n = begun + 1 /\ y.form = f /\ y.kind = kind
  BY <1>2, <1>3, <1>4, <1>7, <1>8, <1>9 DEF Turned, Same
<1>11. \/ y.at = "answered" /\ spoiled' = spoiled
       \/ /\ y.at = "forward" /\ y.kind = "test" /\ y.old = "none" /\ Accepted(y.form)
          /\ spoiled' = spoiled
       \/ /\ y.at = "predelete" /\ y.kind = "connect" /\ Accepted(y.form)
          /\ y.old = entry.group /\ R!Meets
  BY <1>2, <1>3, <1>4, <1>7, <1>8, <1>9, <1>10 DEF Turned, Same, Accepted
<1>12. Moved(c, x, y)
  BY <1>4, <1>5 DEF Moved
<1> QED BY SMTT(40), <1>6, <1>10, <1>11, <1>12, BeginsRight

LEMMA DisconnectsKeepsConn == ASSUME ConnInv, NEW c \in Threads, R!Disconnects(c) PROVE ConnInv'
<1>1. PICK call : call = [R!NoCall EXCEPT !.kind = "disconnect", !.n = begun + 1]
  OBVIOUS
<1>2. CallIs(call) /\ call.kind = "disconnect" /\ call.n = begun + 1
  <2>1. PICK none : none = R!NoCall /\ CallIs(none)
    BY NoCallIs
  <2>2. call = [none EXCEPT !.kind = "disconnect", !.n = begun + 1]
    BY <1>1, <2>1
  <2>3. call = [at |-> none.at, kind |-> "disconnect", form |-> none.form, n |-> begun + 1,
                old |-> none.old, section |-> none.section, verdict |-> none.verdict,
                own |-> none.own, troubled |-> none.troubled, lost |-> none.lost]
    BY <2>1, <2>2 DEF CallIs
  <2> QED BY <2>3 DEF CallIs
<1>3. PICK y : /\ calls' = [calls EXCEPT ![c] = y]
               /\ \/ y = R!Answer(call, TRUE) /\ spoiled' = spoiled
                  \/ R!Meets /\ y = [call EXCEPT !.at = "delete", !.old = entry.group]
  BY <1>1 DEF R!Disconnects, R!Goes
<1>3a. PICK g : g = entry.group
  OBVIOUS
<1>4. PICK x : x = calls[c]
  OBVIOUS
<1>5. /\ begun < offered.calls /\ begun' = begun + 1 /\ x.at \in Resting
      /\ UNCHANGED <<offered, sections, orphans, forwards, entry, troubles>>
  BY <1>4 DEF R!Disconnects, R!Busy, Resting
<1>6. y = R!Answer(call, TRUE) => Turned(call, y, "answered")
  BY <1>2, AnswerIs
<1>7. y = [call EXCEPT !.at = "delete", !.old = entry.group] =>
          /\ CallIs(y) /\ y.at = "delete" /\ y.kind = "disconnect"
          /\ y.n = begun + 1 /\ y.old = entry.group
  <2>1. ASSUME y = [call EXCEPT !.at = "delete", !.old = g]
        PROVE  y = [at |-> "delete", kind |-> call.kind, form |-> call.form, n |-> call.n,
                    old |-> g, section |-> call.section, verdict |-> call.verdict,
                    own |-> call.own, troubled |-> call.troubled, lost |-> call.lost]
    BY <1>2, <2>1 DEF CallIs
  <2> QED BY <1>2, <1>3a, <2>1 DEF CallIs
<1>8. CallIs(y) /\ y.n = begun + 1 /\ y.kind = "disconnect"
  BY <1>2, <1>3, <1>6, <1>7 DEF Turned, Same
<1>9. \/ y.at = "answered" /\ spoiled' = spoiled
      \/ y.at = "delete" /\ y.kind = "disconnect" /\ y.old = entry.group /\ R!Meets
  BY <1>3, <1>6, <1>7 DEF Turned
<1>10. Moved(c, x, y)
  BY <1>3, <1>4 DEF Moved
<1> QED BY <1>5, <1>8, <1>9, <1>10, BeginsRight

------------------------------------------------------------------------------
(* A call goes on.                                                         *)
LEMMA TestGoesOn ==
    ASSUME ConnInv, NEW c, NEW x, NEW y, Moved(c, x, y), x.kind = "test", x.at \notin Resting,
           Same(x, y), y.at = "answered" \/ y.at \in TestAt,
           Touched(R!NameOf(x)), UNCHANGED <<offered, begun, entry, spoiled>>,
           troubles' \in 0..MaxTroubles, DOMAIN forwards' = DOMAIN forwards,
           R!NameOf(x) \in Left' => Tests(y) \/ (R!NameOf(x) \in Left /\ ~Tests(x))
    PROVE  ConnInv'
<1> DEFINE name == R!NameOf(x)
<1>1. RemShape /\ TestsTidy
  BY DEF ConnInv
<1>2. CallOK(x)
  BY <1>1, MovedIs
<1>3. x.n # 0 /\ Accepted(x.form) /\ x.n \in 0..begun
  BY <1>2 DEF CallOK, Bounds, Resting
<1>4. name = <<R!GroupOf(x.form), x.n>> /\ name[2] = x.n /\ R!NameOf(y) = name
  BY NameIs, SameName
<1>5. R!GroupOf(x.form) \in ProxyGroups
  BY <1>3, GroupsAre DEF Accepted
<1>6. CallOK(y)
  BY <1>2, OkOn
<1> HIDE DEF name
<1>7. name \in ProxyGroups \X (0..begun)
  BY <1>3, <1>4, <1>5
<1>8. Touched(name)
  BY DEF name
<1>9. RemShape'
  <2>1. DOMAIN sections' \subseteq ProxyGroups \X (0..begun) /\ orphans' \subseteq DOMAIN sections'
    BY <1>1, <1>7, <1>8 DEF Touched, RemShape
  <2>2. /\ entry' = [group |-> entry'.group, section |-> entry'.section, root |-> entry'.root,
                     form |-> entry'.form]
        /\ entry'.group # "none" =>
              Accepted(entry'.form) /\ entry'.group = R!GroupOf(entry'.form)
    BY <1>1 DEF RemShape, R!Registered
  <2> QED BY <1>1, <1>6, <2>1, <2>2, ShapeOn
<1>10. TestsTidy'
  <2>1. \A k \in Left' : k \in Left \/ k = name
    BY <1>8 DEF Touched
  <2>2. name \in Left' => Tests(y) \/ (name \in Left /\ ~Tests(x))
    BY DEF name
  <2>3. \A k \in Left' : k[2] # 0 => k \in Left \/ (Tests(y) /\ k = R!NameOf(y))
    BY <1>4, <2>1, <2>2
  <2>4. Tests(x) => R!NameOf(x) \notin Left' \/ (Tests(y) /\ R!NameOf(y) = R!NameOf(x))
    BY <1>4, <2>2 DEF name
  <2> QED BY <1>1, <2>3, <2>4, TidyOn
<1>11. spoiled' = "met" \/ Apart'
  <2>1. ~Registers(x) /\ ~Registers(y)
    BY DEF Registers, Same
  <2>2. name[2] # 0
    BY <1>3, <1>4
  <2> QED BY <1>8, <2>1, <2>2, TestsKeep
<1> QED BY <1>9, <1>10, <1>11 DEF ConnInv

LEMMA EntryStays ==
    ASSUME RemShape, entry' = entry
    PROVE  /\ entry' = [group |-> entry'.group, section |-> entry'.section, root |-> entry'.root,
                        form |-> entry'.form]
           /\ entry'.group # "none" =>
                 Accepted(entry'.form) /\ entry'.group = R!GroupOf(entry'.form)
BY DEF RemShape, R!Registered

LEMMA RegisterTidy ==
    ASSUME ConnInv, NEW c, NEW x, NEW y, Moved(c, x, y), Registers(x),
           NEW name, name[2] = 0, Touched(name)
    PROVE  TestsTidy'
<1>1. RemShape /\ TestsTidy /\ ~Tests(x)
  BY DEF ConnInv, Registers, Tests
<1>2. \A k \in Left' : k[2] # 0 => k \in Left
  BY DEF Touched
<1> QED BY <1>1, <1>2, TidyOn

LEMMA RegisterGoesOn ==
    ASSUME ConnInv, NEW c, NEW x, NEW y, Moved(c, x, y), Registers(x), Same(x, y), CallOK(y),
           NEW name, name[2] = 0, Touched(name),
           DOMAIN sections' \subseteq ProxyGroups \X (0..begun),
           UNCHANGED <<offered, begun, entry>>,
           troubles' \in 0..MaxTroubles, DOMAIN forwards' = DOMAIN forwards,
           spoiled' # "met" => spoiled # "met" /\ (Focus(x) => Onward(x, y))
    PROVE  ConnInv'
<1>1. RemShape
  BY DEF ConnInv
<1>2. orphans' \subseteq DOMAIN sections'
  BY DEF Touched
<1>3. RemShape'
  BY <1>1, <1>2, EntryStays, ShapeOn
<1>4. TestsTidy'
  BY RegisterTidy
<1>5. Focus(x) /\ Onward(x, y) => Focus(y)'
  BY <1>1, FocusOn
<1>6. spoiled' = "met" \/ Apart'
  BY <1>5, RegisterKeeps
<1> QED BY <1>3, <1>4, <1>6 DEF ConnInv

LEMMA CallAt ==
    ASSUME ConnInv, NEW c \in Threads, NEW x, x = calls[c]
    PROVE  /\ CallOK(x) /\ CallIs(x)
           /\ x.at \in {"look", "clean"} => x.kind = "test"
           /\ x.at \in {"predelete", "clear", "probe", "heal", "recreate", "insert", "fail"} =>
                 x.kind = "connect"
           /\ x.at \in {"forward", "create", "sweep"} => x.kind \in {"test", "connect"}
           /\ x.at \in DropAt => x.kind = "disconnect"
           /\ x.kind = "connect" /\ x.at \notin Resting =>
                 Registers(x) /\ R!NameOf(x) = <<R!GroupOf(x.form), 0>>
                 /\ R!GroupOf(x.form) \in ProxyGroups
           /\ x.kind = "disconnect" /\ x.at \notin Resting => Registers(x)
<1>1. CallOK(x)
  BY DEF ConnInv, RemShape
<1>2. x.kind = "connect" /\ x.at \notin Resting => R!GroupOf(x.form) \in ProxyGroups
  BY <1>1, GroupsAre DEF CallOK, Bounds, Accepted
<1>3. x.kind = "connect" /\ x.at \notin Resting =>
          Registers(x) /\ R!NameOf(x) = <<R!GroupOf(x.form), 0>>
  BY OwnIs DEF Registers
<1> QED
  BY <1>1, <1>2, <1>3 DEF CallOK, Bounds, Resting, TestAt, ConnectAt, DropAt, Registers

LEMMA SmoothIs ==
    ASSUME RemShape, R!Smooth \/ R!Trouble
    PROVE  troubles' \in 0..MaxTroubles
BY RemoteAssumption DEF R!Smooth, R!Trouble, RemShape

LEMMA PredeletesKeepsConn == ASSUME ConnInv, NEW c \in Threads, R!Predeletes(c) PROVE ConnInv'
<1>1. PICK x : x = calls[c]
  OBVIOUS
<1>2. /\ x.at = "predelete" /\ x.kind = "connect" /\ CallOK(x) /\ CallIs(x) /\ Registers(x)
      /\ R!NameOf(x) = <<R!GroupOf(x.form), 0>> /\ RemShape
  BY <1>1, CallAt DEF R!Predeletes, R!At, Resting, ConnInv
<1>3. UNCHANGED <<offered, begun, entry, spoiled, forwards>>
  BY DEF R!Predeletes
<1>4. PICK old : old = <<x.old, 0>>
  OBVIOUS
<1>5. old[2] = 0
  BY <1>4
<1>6. CASE x.old \in {"none", R!GroupOf(x.form)}
  <2>1. PICK y : y = [x EXCEPT !.at = "forward"] /\ Moved(c, x, y)
    BY <1>1, <1>6 DEF R!Predeletes, R!Bypasses, R!To, R!Goes, Moved
  <2>2. UNCHANGED <<sections, orphans, troubles>>
    BY <1>1, <1>6 DEF R!Predeletes, R!Bypasses, R!Smooth
  <2>3. Turned(x, y, "forward")
    BY <1>2, <2>1, TurnsTo
  <2>4. Touched(old) /\ Left' = Left
    BY <1>2, <2>2, UntouchedIs DEF RemShape
  <2>5. CallOK(y)
    BY <1>2, <2>3, OkOn DEF Turned, Resting, ConnectAt
  <2>6. Onward(x, y)
    BY <1>2, <1>3, <1>6, <2>2, <2>3, <2>4 DEF Onward, Heads, Turned, Same, Harmless, ConnectHolds
  <2>7. DOMAIN sections' \subseteq ProxyGroups \X (0..begun) /\ troubles' \in 0..MaxTroubles
    BY <1>2, <2>2 DEF RemShape
  <2> QED BY <1>2, <1>3, <1>5, <2>1, <2>3, <2>4, <2>5, <2>6, <2>7, RegisterGoesOn DEF Turned
<1>7. CASE x.old \notin {"none", R!GroupOf(x.form)}
  <2>1. PICK call : call = [x EXCEPT !.at = "forward"]
    OBVIOUS
  <2>2. R!Deletes(c, old, call)
    BY <1>1, <1>4, <1>7, <2>1 DEF R!Predeletes
  <2>3. /\ Touched(old) /\ Left' \subseteq Left \ {old}
        /\ DOMAIN sections' \subseteq DOMAIN sections
        /\ \E y \in {call, R!Troubled(call)} : calls' = [calls EXCEPT ![c] = y]
        /\ troubles' \in 0..MaxTroubles
    BY <1>2, <2>2, DeletesSo
  <2>4. PICK y \in {call, R!Troubled(call)} : Moved(c, x, y)
    BY <1>1, <2>3 DEF Moved
  <2>5. Turned(x, y, "forward")
    BY <1>2, <2>1, <2>4, TurnsTroubled
  <2>6. CallOK(y)
    BY <1>2, <2>5, OkOn DEF Turned, Resting, ConnectAt
  <2>7. Onward(x, y)
    BY <1>2, <1>4, <1>7, <2>3, <2>5
    DEF Onward, Heads, Turned, Same, Harmless, ConnectHolds, Registers, Resting
  <2>8. DOMAIN sections' \subseteq ProxyGroups \X (0..begun)
    BY <1>2, <2>3 DEF RemShape
  <2> QED BY <1>2, <1>3, <1>5, <2>3, <2>4, <2>5, <2>6, <2>7, <2>8, RegisterGoesOn DEF Turned
<1> QED BY <1>6, <1>7

LEMMA RefusedIs ==
    ASSUME NEW x, CallIs(x), NEW call, call \in {x, R!Troubled(x)}, NEW y,
           y = IF call.kind = "test" THEN R!Answer(call, FALSE) ELSE [call EXCEPT !.at = "fail"]
    PROVE  Turned(x, y, IF x.kind = "test" THEN "answered" ELSE "fail")
<1>1. Turned(x, call, x.at)
  <2>1. call = x => Turned(x, call, x.at)
    BY DEF Turned, Same
  <2> QED BY <2>1, TroubledIs
<1>2. CallIs(call) /\ call.kind = x.kind
  BY <1>1 DEF Turned, Same
<1>3. CASE x.kind = "test"
  <2>1. y = R!Answer(call, FALSE)
    BY <1>2, <1>3
  <2>2. Turned(call, y, "answered")
    BY <1>2, <2>1, AnswerIs
  <2>3. Turned(x, y, "answered")
    BY <1>1, <2>2, TurnedTwice
  <2> QED BY <1>3, <2>3
<1>4. CASE x.kind # "test"
  <2>1. y = [call EXCEPT !.at = "fail"]
    BY <1>2, <1>4
  <2>2. Turned(call, y, "fail")
    BY <1>2, <2>1, TurnsTo
  <2>3. Turned(x, y, "fail")
    BY <1>1, <2>2, TurnedTwice
  <2> QED BY <1>4, <2>3
<1> QED BY <1>3, <1>4

LEMMA DialsSo ==
    ASSUME RemShape, NEW c \in Threads, NEW x, x = calls[c], CallIs(x), NEW e, R!Dials(c, e)
    PROVE  /\ troubles' \in 0..MaxTroubles
           /\ \E y : /\ calls' = [calls EXCEPT ![c] = y] /\ Same(x, y)
                     /\ y.at \in IF x.kind = "test" THEN {"answered", "create"}
                                 ELSE {"fail", "clear"}
<1>1. troubles' \in 0..MaxTroubles
  BY SmoothIs DEF R!Dials
<1>2. PICK s, a : s = R!SectionOf(x.form, e) /\ a = IF x.kind = "test" THEN "create" ELSE "clear"
  OBVIOUS
<1>3. PICK y : /\ calls' = [calls EXCEPT ![c] = y]
               /\ \/ \E call \in {x, R!Troubled(x)} :
                        y = IF call.kind = "test" THEN R!Answer(call, FALSE)
                            ELSE [call EXCEPT !.at = "fail"]
                  \/ y = [x EXCEPT !.section = s, !.at = a]
  BY <1>2 DEF R!Dials, R!Refuses, R!Goes
<1>4. ASSUME y = [x EXCEPT !.section = s, !.at = a] PROVE Same(x, y) /\ y.at = a
  <2>1. y = [at |-> a, kind |-> x.kind, form |-> x.form, n |-> x.n, old |-> x.old,
             section |-> s, verdict |-> x.verdict, own |-> x.own, troubled |-> x.troubled,
             lost |-> x.lost]
    BY <1>4 DEF CallIs
  <2> QED BY <2>1 DEF Same, CallIs
<1>5. ASSUME NEW call \in {x, R!Troubled(x)},
             y = IF call.kind = "test" THEN R!Answer(call, FALSE) ELSE [call EXCEPT !.at = "fail"]
      PROVE  Same(x, y) /\ y.at = IF x.kind = "test" THEN "answered" ELSE "fail"
  <2>1. PICK b : b = IF x.kind = "test" THEN "answered" ELSE "fail"
    OBVIOUS
  <2>2. Turned(x, y, b)
    BY <1>5, <2>1, RefusedIs
  <2> QED BY <2>1, <2>2 DEF Turned
<1>6. Same(x, y) /\ y.at \in IF x.kind = "test" THEN {"answered", "create"} ELSE {"fail", "clear"}
  BY <1>2, <1>3, <1>4, <1>5
<1> QED BY <1>1, <1>3, <1>6

(* A test that leaves the rcd alone, and one that clears away its section. *)
LEMMA TestLooksOn ==
    ASSUME ConnInv, NEW c \in Threads, NEW x, x = calls[c], x.kind = "test", x.at \notin Resting,
           NEW y, calls' = [calls EXCEPT ![c] = y], Same(x, y),
           y.at = "answered" \/ y.at \in TestAt, Tests(x) => Tests(y),
           UNCHANGED <<offered, begun, entry, spoiled, sections, orphans>>,
           troubles' \in 0..MaxTroubles, DOMAIN forwards' = DOMAIN forwards
    PROVE  ConnInv'
<1>1. Moved(c, x, y) /\ RemShape
  BY DEF Moved, ConnInv
<1>2. Touched(R!NameOf(x)) /\ Left' = Left
  BY <1>1, UntouchedIs DEF RemShape
<1> QED BY <1>1, <1>2, TestGoesOn

LEMMA TestClears ==
    ASSUME ConnInv, NEW c \in Threads, NEW x, x = calls[c], x.kind = "test", x.at \notin Resting,
           NEW y, calls' = [calls EXCEPT ![c] = y], Turned(x, y, "answered"),
           Touched(R!NameOf(x)), Left' \subseteq Left \ {R!NameOf(x)},
           UNCHANGED <<offered, begun, entry, spoiled, forwards>>, troubles' \in 0..MaxTroubles
    PROVE  ConnInv'
<1>1. Moved(c, x, y) /\ Same(x, y) /\ y.at = "answered"
  BY DEF Moved, Turned
<1>2. R!NameOf(x) \notin Left'
  OBVIOUS
<1> QED BY <1>1, <1>2, TestGoesOn

(* A call that is to register goes on in its own rcd.                      *)
LEMMA ConnectGoesOn ==
    ASSUME ConnInv, NEW c \in Threads, NEW x, x = calls[c], x.kind = "connect",
           x.at \notin Resting, NEW y, calls' = [calls EXCEPT ![c] = y], Same(x, y),
           y.at = "answered" \/ y.at \in ConnectAt, Touched(R!NameOf(x)),
           UNCHANGED <<offered, begun, entry>>,
           troubles' \in 0..MaxTroubles, DOMAIN forwards' = DOMAIN forwards,
           spoiled' # "met" => spoiled # "met" /\ (Focus(x) => Onward(x, y))
    PROVE  ConnInv'
<1>1. /\ Moved(c, x, y) /\ RemShape /\ CallOK(x) /\ Registers(x)
      /\ R!NameOf(x) = <<R!GroupOf(x.form), 0>> /\ R!GroupOf(x.form) \in ProxyGroups
  BY CallAt DEF Moved, ConnInv
<1>2. CallOK(y)
  BY <1>1, OkOn
<1>3. PICK name : name = R!NameOf(x)
  OBVIOUS
<1>4. begun \in Nat
  BY <1>1, Offered DEF RemShape
<1>5. Touched(name) /\ name[2] = 0 /\ name \in ProxyGroups \X (0..begun)
  BY <1>1, <1>3, <1>4
<1>6. DOMAIN sections' \subseteq ProxyGroups \X (0..begun)
  BY <1>1, <1>5 DEF Touched, RemShape
<1> QED BY <1>1, <1>2, <1>5, <1>6, RegisterGoesOn

(* Forwards.                                                               *)
LEMMA RefusedOnward ==
    ASSUME RemShape, NEW x, NEW y, x.kind = "connect", x.at = "forward", Same(x, y), Focus(x),
           Registers(x), UNCHANGED <<sections, orphans, entry>>,
           \/ y.at \in {"fail", "clear"} /\ spoiled' = spoiled
           \/ /\ y.at = "answered"
              /\ \/ spoiled' = spoiled /\ x.old \in {"none", R!GroupOf(x.form)}
                 \/ R!Spoils("failed")
    PROVE  Onward(x, y)
<1>1. Left' = Left
  BY DEF Left
<1>2. R!NameOf(x) \in Left' => R!NameOf(x) \in Left /\ x.at \notin ConnectHolds
  BY <1>1 DEF ConnectHolds
<1>3. Registers(y) => Heads(x, y)
  BY DEF Registers, Heads, Resting
<1>4. spoiled' = "no" /\ R!Registered /\ (Registers(y) => Harmless(y)) =>
          spoiled = "no" /\ Harmless(x)
  <2> SUFFICES ASSUME spoiled' = "no", R!Registered, Registers(y) => Harmless(y)
               PROVE  spoiled = "no" /\ Harmless(x)
    OBVIOUS
  <2>1. y.at = "answered"
    BY DEF Registers, Harmless, Same, Resting
  <2>2. spoiled' = spoiled /\ x.old \in {"none", R!GroupOf(x.form)}
    BY <2>1 DEF R!Spoils
  <2>3. x.old # "none"
    BY DEF Focus, Stands, R!Registered
  <2> QED BY <2>2, <2>3 DEF Harmless
<1> QED BY <1>1, <1>2, <1>3, <1>4 DEF Onward

LEMMA ForwardsKeepsConn == ASSUME ConnInv, NEW c \in Threads, R!Forwards(c) PROVE ConnInv'
<1>1. PICK x : x = calls[c]
  OBVIOUS
<1>2. /\ x.at = "forward" /\ x.kind \in {"test", "connect"} /\ CallOK(x) /\ CallIs(x) /\ RemShape
      /\ x.at \notin Resting /\ (x.kind = "connect" => Registers(x))
  BY <1>1, CallAt DEF R!Forwards, R!At, Resting, ConnInv
<1>3. UNCHANGED <<offered, begun, entry, sections, orphans>>
  BY DEF R!Forwards
<1>4. DOMAIN forwards' = DOMAIN forwards
  BY DEF R!Forwards
<1>5. PICK e, key : e = R!EndpointFor(x.form) /\ key = R!KeyOf(x)
  OBVIOUS
<1>6. \/ (R!Dials(c, e) \/ R!Dials(c, R!Rewritten(e, key, x.n))) /\ spoiled' = spoiled
      \/ /\ R!Goes(c, R!Answer(x, FALSE)) /\ R!Smooth
         /\ IF x.old \in {"none", R!GroupOf(x.form)} THEN spoiled' = spoiled
            ELSE R!Spoils("failed")
      \/ /\ R!Goes(c, R!Troubled(R!Answer(x, FALSE))) /\ R!Trouble
         /\ IF key = "live" THEN R!Spoils("failed") ELSE spoiled' = spoiled
  BY <1>1, <1>5 DEF R!Forwards, R!Answers
<1>7. /\ troubles' \in 0..MaxTroubles
      /\ \E y : /\ calls' = [calls EXCEPT ![c] = y] /\ Same(x, y)
                /\ \/ /\ spoiled' = spoiled
                      /\ y.at \in IF x.kind = "test" THEN {"answered", "create"}
                                  ELSE {"fail", "clear"}
                   \/ /\ y.at = "answered"
                      /\ \/ /\ spoiled' = spoiled
                            /\ x.kind = "test" \/ x.old \in {"none", R!GroupOf(x.form)}
                         \/ x.kind # "test" /\ R!Spoils("failed")
  <2>1. CASE (R!Dials(c, e) \/ R!Dials(c, R!Rewritten(e, key, x.n))) /\ spoiled' = spoiled
    BY <1>1, <1>2, <2>1, DialsSo
  <2>2. CASE /\ R!Goes(c, R!Answer(x, FALSE)) /\ R!Smooth
             /\ IF x.old \in {"none", R!GroupOf(x.form)} THEN spoiled' = spoiled
                ELSE R!Spoils("failed")
    <3>1. PICK y : y = R!Answer(x, FALSE) /\ calls' = [calls EXCEPT ![c] = y]
      BY <2>2 DEF R!Goes
    <3>2. Same(x, y) /\ y.at = "answered"
      BY <1>2, <3>1, AnswerIs DEF Turned
    <3>3. x.kind = "test" => x.old = "none"
      BY <1>2 DEF CallOK, Bounds
    <3> QED BY <1>2, <2>2, <3>1, <3>2, <3>3, SmoothIs
  <2>3. CASE /\ R!Goes(c, R!Troubled(R!Answer(x, FALSE))) /\ R!Trouble
             /\ IF key = "live" THEN R!Spoils("failed") ELSE spoiled' = spoiled
    <3>1. PICK y : y = R!Troubled(R!Answer(x, FALSE)) /\ calls' = [calls EXCEPT ![c] = y]
      BY <2>3 DEF R!Goes
    <3>2. Same(x, y) /\ y.at = "answered"
      BY <1>2, <3>1, AnswersTroubled DEF Turned
    <3>3. x.kind = "test" <=> key # "live"
      BY <1>5 DEF R!KeyOf
    <3> QED BY <1>2, <2>3, <3>1, <3>2, <3>3, SmoothIs
  <2> QED BY <1>6, <2>1, <2>2, <2>3
<1>8. PICK y : /\ calls' = [calls EXCEPT ![c] = y] /\ Same(x, y)
               /\ \/ /\ spoiled' = spoiled
                     /\ y.at \in IF x.kind = "test" THEN {"answered", "create"}
                                 ELSE {"fail", "clear"}
                  \/ /\ y.at = "answered"
                     /\ \/ /\ spoiled' = spoiled
                           /\ x.kind = "test" \/ x.old \in {"none", R!GroupOf(x.form)}
                        \/ x.kind # "test" /\ R!Spoils("failed")
  BY <1>7
<1>9. CASE x.kind = "test"
  <2>1. ~Tests(x) /\ (y.at = "answered" \/ y.at \in TestAt)
    BY <1>2, <1>8, <1>9 DEF Tests, TestHolds, TestAt
  <2> QED BY <1>1, <1>2, <1>3, <1>4, <1>7, <1>8, <1>9, <2>1, TestLooksOn
<1>10. CASE x.kind = "connect"
  <2>1. Focus(x) => Onward(x, y)
    BY <1>2, <1>3, <1>8, <1>10, RefusedOnward
  <2>2. Touched(R!NameOf(x))
    BY <1>2, <1>3, UntouchedIs DEF RemShape
  <2>3. y.at = "answered" \/ y.at \in ConnectAt
    BY <1>8, <1>10 DEF ConnectAt
  <2>4. spoiled' # "met" => spoiled # "met"
    BY <1>8 DEF R!Spoils
  <2> QED BY <1>1, <1>2, <1>3, <1>4, <1>7, <1>8, <1>10, <2>1, <2>2, <2>3, <2>4, ConnectGoesOn
<1> QED BY <1>2, <1>9, <1>10

(* A connect that has come to its own section, and what a test and a       *)
(* connect make of one that could not be written.                          *)
LEMMA HoldsOnward ==
    ASSUME NEW x, NEW y, x.kind = "connect", x.at \in ConnectAt \ {"predelete"}, Same(x, y),
           y.at \in ConnectAt \ {"predelete", "forward"}, Left' \subseteq Left \cup {R!NameOf(x)},
           R!NameOf(x) \in Left' =>
               y.at \in ConnectHolds \/ (R!NameOf(x) \in Left /\ x.at \notin ConnectHolds),
           y.at \in {"probe", "insert"} /\ ~y.lost =>
               R!NameOf(x) \in DOMAIN sections' /\ sections'[R!NameOf(x)] = y.section
    PROVE  Onward(x, y)
<1>1. Registers(y) /\ ~Harmless(y)
  BY DEF Registers, Harmless, Same, ConnectAt, Resting
<1>2. Heads(x, y)
  BY DEF Heads, ConnectAt
<1> QED BY <1>1, <1>2 DEF Onward

LEMMA ConnectHoldsOn ==
    ASSUME ConnInv, NEW c \in Threads, NEW x, x = calls[c], x.kind = "connect",
           x.at \in ConnectAt \ {"predelete"}, NEW y, calls' = [calls EXCEPT ![c] = y], Same(x, y),
           y.at \in ConnectAt \ {"predelete", "forward"}, Touched(R!NameOf(x)),
           R!NameOf(x) \in Left' =>
               y.at \in ConnectHolds \/ (R!NameOf(x) \in Left /\ x.at \notin ConnectHolds),
           y.at \in {"probe", "insert"} /\ ~y.lost =>
               R!NameOf(x) \in DOMAIN sections' /\ sections'[R!NameOf(x)] = y.section,
           UNCHANGED <<offered, begun, entry, spoiled, forwards>>,
           troubles' \in 0..MaxTroubles
    PROVE  ConnInv'
<1>1. Left' \subseteq Left \cup {R!NameOf(x)} /\ x.at \notin Resting
  BY DEF Touched, ConnectAt, Resting
<1>2. Onward(x, y)
  BY <1>1, HoldsOnward
<1> QED BY <1>1, <1>2, ConnectGoesOn

LEMMA ClearsKeepsConn == ASSUME ConnInv, NEW c \in Threads, R!Clears(c) PROVE ConnInv'
<1>1. PICK x : x = calls[c]
  OBVIOUS
<1>2. x.at = "clear" /\ x.kind = "connect" /\ CallIs(x) /\ RemShape
  BY <1>1, CallAt DEF R!Clears, R!At, ConnInv
<1>3. UNCHANGED <<offered, begun, entry, spoiled, forwards>>
  BY DEF R!Clears
<1>4. PICK name, call : name = R!NameOf(x) /\ call = [x EXCEPT !.at = "create"]
  OBVIOUS
<1>5. /\ Touched(name) /\ (name \in Left' => name \in Left) /\ troubles' \in 0..MaxTroubles
      /\ \E y \in {call, R!Troubled(call)} : calls' = [calls EXCEPT ![c] = y]
  <2>1. CASE R!Registered
    <3>1. R!Deletes(c, name, call)
      BY <1>1, <1>4, <2>1 DEF R!Clears
    <3> QED BY <1>2, <3>1, DeletesSo
  <2>2. CASE ~R!Registered
    <3>1. UNCHANGED <<sections, orphans, troubles>> /\ calls' = [calls EXCEPT ![c] = call]
      BY <1>1, <1>4, <2>2 DEF R!Clears, R!Bypasses, R!To, R!Goes, R!Smooth
    <3>2. Touched(name) /\ Left' = Left
      BY <1>2, <3>1, UntouchedIs DEF RemShape
    <3> QED BY <1>2, <3>1, <3>2 DEF RemShape
  <2> QED BY <2>1, <2>2
<1>6. PICK y \in {call, R!Troubled(call)} : calls' = [calls EXCEPT ![c] = y]
  BY <1>5
<1>7. Turned(x, y, "create")
  BY <1>2, <1>4, <1>6, TurnsTroubled
<1> QED
  BY <1>1, <1>2, <1>3, <1>4, <1>5, <1>6, <1>7, ConnectHoldsOn DEF Turned, ConnectAt, ConnectHolds

LEMMA CreatesKeepsConn == ASSUME ConnInv, NEW c \in Threads, R!Creates(c) PROVE ConnInv'
<1>1. PICK x : x = calls[c]
  OBVIOUS
<1>2. /\ x.at = "create" /\ x.kind \in {"test", "connect"} /\ CallIs(x) /\ RemShape
      /\ x.at \notin Resting
  BY <1>1, CallAt DEF R!Creates, R!At, ConnInv, Resting
<1>3. UNCHANGED <<offered, begun, entry, spoiled, forwards, orphans>>
  BY DEF R!Creates
<1>4. PICK name, next, call :
          /\ name = R!NameOf(x) /\ call = [x EXCEPT !.at = "sweep"]
          /\ next = IF x.kind = "test" THEN "look"
                    ELSE IF x.section.type = "ftp" THEN "probe" ELSE "insert"
  OBVIOUS
<1>5. \/ /\ sections' = R!Written(name, x.section) /\ R!Smooth
         /\ calls' = [calls EXCEPT ![c] = [x EXCEPT !.at = next]]
      \/ /\ sections' \in {sections, R!Written(name, x.section)} /\ R!Trouble
         /\ calls' = [calls EXCEPT ![c] = R!Troubled(call)]
  BY <1>1, <1>4 DEF R!Creates, R!To, R!Goes
<1>6. /\ Touched(name) /\ troubles' \in 0..MaxTroubles
      /\ sections' = R!Written(name, x.section) =>
            name \in DOMAIN sections' /\ sections'[name] = x.section
  BY <1>2, <1>3, <1>5, WrittenIs, SmoothIs DEF RemShape
<1>7. PICK y : /\ calls' = [calls EXCEPT ![c] = y]
               /\ \/ y = [x EXCEPT !.at = next] /\ sections' = R!Written(name, x.section)
                  \/ y = R!Troubled(call)
  BY <1>5
<1>8. y = [x EXCEPT !.at = next] => Turned(x, y, next)
  BY <1>2, TurnsTo
<1>9. y = R!Troubled(call) => Turned(x, y, "sweep")
  BY <1>2, <1>4, TurnsTroubled
<1>10. /\ Same(x, y) /\ y.section = x.section
       /\ y.at = "sweep" \/ (y.at = next /\ sections' = R!Written(name, x.section))
  BY <1>7, <1>8, <1>9 DEF Turned
<1>11. CASE x.kind = "test"
  <2>1. y.at \in {"look", "sweep"}
    BY <1>4, <1>10, <1>11
  <2>2. Tests(y) /\ y.at \in TestAt
    BY <1>10, <1>11, <2>1 DEF Tests, TestHolds, TestAt, Same
  <2> QED BY <1>1, <1>2, <1>3, <1>4, <1>6, <1>7, <1>10, <1>11, <2>2, TestGoesOn DEF Moved
<1>12. CASE x.kind = "connect"
  <2>1. y.at \in {"probe", "insert", "sweep"}
    BY <1>4, <1>10, <1>12
  <2>2. y.at \in ConnectHolds /\ y.at \in ConnectAt \ {"predelete", "forward"}
    BY <2>1 DEF ConnectHolds, ConnectAt
  <2>3. y.at \in {"probe", "insert"} =>
            name \in DOMAIN sections' /\ sections'[name] = y.section
    BY <1>6, <1>10
  <2>4. x.at \in ConnectAt \ {"predelete"}
    BY <1>2 DEF ConnectAt
  <2> QED BY <1>1, <1>3, <1>4, <1>6, <1>7, <1>10, <1>12, <2>2, <2>3, <2>4, ConnectHoldsOn
<1> QED BY <1>2, <1>11, <1>12

LEMMA SweepsKeepsConn == ASSUME ConnInv, NEW c \in Threads, R!Sweeps(c) PROVE ConnInv'
<1>1. PICK x : x = calls[c]
  OBVIOUS
<1>2. /\ x.at = "sweep" /\ x.kind \in {"test", "connect"} /\ CallIs(x) /\ RemShape
      /\ x.at \notin Resting
  BY <1>1, CallAt DEF R!Sweeps, R!At, ConnInv, Resting
<1>3. UNCHANGED <<offered, begun, entry, spoiled, forwards>>
  BY DEF R!Sweeps
<1>4. PICK name, call :
          /\ name = R!NameOf(x)
          /\ call = IF x.kind = "test" THEN R!Answer(x, FALSE) ELSE [x EXCEPT !.at = "fail"]
  OBVIOUS
<1>5. R!Deletes(c, name, call)
  BY <1>1, <1>4 DEF R!Sweeps
<1>6. /\ Touched(name) /\ Left' \subseteq Left \ {name} /\ troubles' \in 0..MaxTroubles
      /\ \E y \in {call, R!Troubled(call)} : calls' = [calls EXCEPT ![c] = y]
  BY <1>2, <1>5, DeletesSo
<1>7. PICK y \in {call, R!Troubled(call)} : calls' = [calls EXCEPT ![c] = y]
  BY <1>6
<1>8. CASE x.kind = "test"
  <2>1. Turned(x, y, "answered")
    BY <1>2, <1>4, <1>7, <1>8, AnswersTroubled
  <2> QED BY <1>1, <1>2, <1>3, <1>4, <1>6, <1>7, <1>8, <2>1, TestClears
<1>9. CASE x.kind = "connect"
  <2>1. Turned(x, y, "fail")
    BY <1>2, <1>4, <1>7, <1>9, TurnsTroubled
  <2>2. name \notin Left'
    BY <1>6
  <2>3. x.at \in ConnectAt \ {"predelete"} /\ y.at \in ConnectAt \ {"predelete", "forward"}
    BY <1>2, <2>1 DEF ConnectAt, Turned
  <2> QED
    BY <1>1, <1>3, <1>4, <1>6, <1>7, <1>9, <2>1, <2>2, <2>3, ConnectHoldsOn DEF Turned
<1> QED BY <1>2, <1>8, <1>9

LEMMA LooksKeepsConn == ASSUME ConnInv, NEW c \in Threads, R!Looks(c) PROVE ConnInv'
<1>1. PICK x : x = calls[c]
  OBVIOUS
<1>2. /\ x.at = "look" /\ x.kind = "test" /\ CallIs(x) /\ RemShape /\ x.at \notin Resting
  BY <1>1, CallAt DEF R!Looks, R!At, ConnInv, Resting
<1>3. UNCHANGED <<offered, begun, entry, spoiled, forwards, sections, orphans>>
  BY DEF R!Looks
<1>4. \E ok, own :
          \/ /\ R!Goes(c, [x EXCEPT !.verdict = ok, !.own = own, !.at = "clean"])
             /\ R!Smooth
          \/ /\ R!Goes(c, R!Troubled([x EXCEPT !.verdict = FALSE, !.at = "clean"]))
             /\ R!Trouble
  BY <1>1 DEF R!Looks
<1>5. PICK ok, own, y :
          /\ calls' = [calls EXCEPT ![c] = y]
          /\ \/ y = [x EXCEPT !.verdict = ok, !.own = own, !.at = "clean"]
             \/ y = R!Troubled([x EXCEPT !.verdict = FALSE, !.at = "clean"])
  BY <1>4 DEF R!Goes
<1>6. troubles' \in 0..MaxTroubles
  BY <1>2, <1>4, SmoothIs
<1>7. ASSUME y = [x EXCEPT !.verdict = ok, !.own = own, !.at = "clean"]
      PROVE  Same(x, y) /\ y.at = "clean"
  <2>1. y = [at |-> "clean", kind |-> x.kind, form |-> x.form, n |-> x.n, old |-> x.old,
             section |-> x.section, verdict |-> ok, own |-> own, troubled |-> x.troubled,
             lost |-> x.lost]
    BY <1>2, <1>7 DEF CallIs
  <2> QED BY <2>1 DEF Same, CallIs
<1>8. ASSUME y = R!Troubled([x EXCEPT !.verdict = FALSE, !.at = "clean"])
      PROVE  Same(x, y) /\ y.at = "clean"
  <2>1. PICK z, v : v = FALSE /\ z = [x EXCEPT !.verdict = v, !.at = "clean"]
    OBVIOUS
  <2>2. z = [at |-> "clean", kind |-> x.kind, form |-> x.form, n |-> x.n, old |-> x.old,
             section |-> x.section, verdict |-> v, own |-> x.own, troubled |-> x.troubled,
             lost |-> x.lost]
    BY <1>2, <2>1 DEF CallIs
  <2>3. Same(x, z) /\ z.at = "clean"
    BY <2>2 DEF Same, CallIs
  <2>4. Turned(z, y, "clean")
    BY <1>8, <2>1, <2>3, TroubledIs DEF Same
  <2> QED BY <2>3, <2>4 DEF Turned, Same
<1>9. Same(x, y) /\ y.at = "clean"
  BY <1>5, <1>7, <1>8
<1>10. y.at \in TestAt /\ Tests(y)
  BY <1>2, <1>9 DEF TestAt, Tests, TestHolds, Same
<1> QED BY <1>1, <1>2, <1>3, <1>5, <1>6, <1>9, <1>10, TestLooksOn

LEMMA CleansKeepsConn == ASSUME ConnInv, NEW c \in Threads, R!Cleans(c) PROVE ConnInv'
<1>1. PICK x : x = calls[c]
  OBVIOUS
<1>2. /\ x.at = "clean" /\ x.kind = "test" /\ CallIs(x) /\ RemShape /\ x.at \notin Resting
  BY <1>1, CallAt DEF R!Cleans, R!At, ConnInv, Resting
<1>3. UNCHANGED <<offered, begun, entry, spoiled, forwards>>
  BY DEF R!Cleans
<1>4. PICK name, ok : name = R!NameOf(x) /\ ok = x.verdict
  OBVIOUS
<1>5. /\ sections' \in {sections, R!Without(name)}
      /\ orphans' = (orphans \ {name}) \cup ({name} \cap DOMAIN sections')
      /\ R!Smooth \/ R!Trouble
      /\ \/ R!Goes(c, R!Answer(x, ok)) \/ R!Goes(c, R!Troubled(R!Answer(x, FALSE)))
  BY <1>1, <1>4 DEF R!Cleans, R!Answers
<1>6. Touched(name) /\ Left' \subseteq Left \ {name} /\ troubles' \in 0..MaxTroubles
  BY <1>2, <1>5, GoneIs, SmoothIs DEF RemShape
<1>7. PICK y : /\ calls' = [calls EXCEPT ![c] = y]
               /\ y = R!Answer(x, ok) \/ y = R!Troubled(R!Answer(x, FALSE))
  BY <1>5 DEF R!Goes
<1>8. Turned(x, y, "answered")
  <2>1. y = R!Answer(x, ok) => Turned(x, y, "answered")
    BY <1>2, AnswerIs
  <2>2. y = R!Troubled(R!Answer(x, FALSE)) => Turned(x, y, "answered")
    BY <1>2, AnswersTroubled
  <2> QED BY <1>7, <2>1, <2>2
<1> QED BY <1>1, <1>2, <1>3, <1>4, <1>6, <1>7, <1>8, TestClears

LEMMA ProbesKeepsConn == ASSUME ConnInv, NEW c \in Threads, R!Probes(c) PROVE ConnInv'
<1>1. PICK x : x = calls[c]
  OBVIOUS
<1>2. /\ x.at = "probe" /\ x.kind = "connect" /\ CallIs(x) /\ RemShape /\ Registers(x)
      /\ x.at \notin Resting
  BY <1>1, CallAt DEF R!Probes, R!At, ConnInv, Resting
<1>3. UNCHANGED <<offered, begun, entry, spoiled, forwards, sections, orphans>>
  BY DEF R!Probes
<1>4. PICK a, call : /\ a \in {"heal", "insert"} /\ call = [x EXCEPT !.at = "insert"]
                     /\ \/ R!Goes(c, [x EXCEPT !.at = a]) /\ R!Smooth
                        \/ R!Goes(c, R!Troubled(call)) /\ R!Trouble
  BY <1>1 DEF R!Probes, R!To
<1>5. PICK y : /\ calls' = [calls EXCEPT ![c] = y]
               /\ y = [x EXCEPT !.at = a] \/ y = R!Troubled(call)
  BY <1>4 DEF R!Goes
<1>6. Turned(x, y, a) \/ Turned(x, y, "insert")
  <2>1. y = [x EXCEPT !.at = a] => Turned(x, y, a)
    BY <1>2, TurnsTo
  <2>2. y = R!Troubled(call) => Turned(x, y, "insert")
    BY <1>2, <1>4, TurnsTroubled
  <2> QED BY <1>5, <2>1, <2>2
<1>7. /\ Same(x, y) /\ y.at \in {"heal", "insert"} /\ y.lost = x.lost /\ y.section = x.section
  BY <1>4, <1>6 DEF Turned
<1>8. troubles' \in 0..MaxTroubles
  BY <1>2, <1>4, SmoothIs
<1>9. PICK name : name = R!NameOf(x)
  OBVIOUS
<1>10. Touched(name) /\ Left' = Left
  BY <1>2, <1>3, UntouchedIs DEF RemShape
<1>11. Focus(x) => Onward(x, y)
  <2> SUFFICES ASSUME Focus(x) PROVE Onward(x, y)
    OBVIOUS
  <2>1. ~x.lost => name \in DOMAIN sections /\ sections[name] = x.section
    BY <1>2, <1>9 DEF Focus, Stands
  <2>2. y.at = "insert" /\ ~y.lost => name \in DOMAIN sections' /\ sections'[name] = y.section
    BY <1>3, <1>7, <2>1
  <2> QED
    BY <1>2, <1>7, <1>9, <1>10, <2>2, HoldsOnward DEF ConnectAt, ConnectHolds
<1>12. spoiled' # "met" => spoiled # "met"
  BY <1>3
<1>13. y.at \in ConnectAt
  BY <1>7 DEF ConnectAt
<1> QED
  BY <1>1, <1>2, <1>3, <1>5, <1>7, <1>8, <1>9, <1>10, <1>11, <1>12, <1>13, ConnectGoesOn

LEMMA HealsKeepsConn == ASSUME ConnInv, NEW c \in Threads, R!Heals(c) PROVE ConnInv'
<1>1. PICK x : x = calls[c]
  OBVIOUS
<1>2. x.at = "heal" /\ x.kind = "connect" /\ CallIs(x) /\ RemShape
  BY <1>1, CallAt DEF R!Heals, R!At, ConnInv
<1>3. UNCHANGED <<offered, begun, entry, spoiled, forwards>>
  BY DEF R!Heals
<1>4. PICK name, call : name = R!NameOf(x) /\ call = [x EXCEPT !.at = "recreate"]
  OBVIOUS
<1>5. R!Deletes(c, name, call)
  BY <1>1, <1>4 DEF R!Heals
<1>6. /\ Touched(name) /\ Left' \subseteq Left \ {name} /\ troubles' \in 0..MaxTroubles
      /\ \E y \in {call, R!Troubled(call)} : calls' = [calls EXCEPT ![c] = y]
  BY <1>2, <1>5, DeletesSo
<1>7. PICK y \in {call, R!Troubled(call)} : calls' = [calls EXCEPT ![c] = y]
  BY <1>6
<1>8. Turned(x, y, "recreate")
  BY <1>2, <1>4, <1>7, TurnsTroubled
<1>9. name \notin Left'
  BY <1>6
<1> QED
  BY <1>1, <1>2, <1>3, <1>4, <1>6, <1>7, <1>8, <1>9, ConnectHoldsOn DEF Turned, ConnectAt

LEMMA RecreatesKeepsConn == ASSUME ConnInv, NEW c \in Threads, R!Recreates(c) PROVE ConnInv'
<1>1. PICK x : x = calls[c]
  OBVIOUS
<1>2. x.at = "recreate" /\ x.kind = "connect" /\ CallIs(x) /\ RemShape
  BY <1>1, CallAt DEF R!Recreates, R!At, ConnInv
<1>3. UNCHANGED <<offered, begun, entry, spoiled, forwards, orphans>>
  BY DEF R!Recreates
<1>4. PICK name, healed, yes :
          /\ name = R!NameOf(x) /\ yes = TRUE
          /\ healed = [x.section EXCEPT !.options = @ \cup {<<"true", "disable_mlsd">>}]
  OBVIOUS
<1>5. \/ /\ sections' = R!Written(name, healed) /\ R!Smooth
         /\ R!Goes(c, [x EXCEPT !.section = healed, !.at = "insert"])
      \/ /\ sections' \in {sections, R!Written(name, healed)} /\ R!Trouble
         /\ R!Goes(c, R!Troubled([x EXCEPT !.lost = yes, !.at = "insert"]))
  BY <1>1, <1>4 DEF R!Recreates
<1>6. /\ Touched(name) /\ troubles' \in 0..MaxTroubles
      /\ sections' = R!Written(name, healed) =>
            name \in DOMAIN sections' /\ sections'[name] = healed
  BY <1>2, <1>3, <1>5, WrittenIs, SmoothIs DEF RemShape
<1>7. PICK y, z :
          /\ calls' = [calls EXCEPT ![c] = y]
          /\ \/ /\ y = [x EXCEPT !.section = healed, !.at = "insert"]
                /\ sections' = R!Written(name, healed)
             \/ y = R!Troubled(z) /\ z = [x EXCEPT !.lost = yes, !.at = "insert"]
  BY <1>5 DEF R!Goes
<1>8. ASSUME y = [x EXCEPT !.section = healed, !.at = "insert"]
      PROVE  Same(x, y) /\ y.at = "insert" /\ y.section = healed
  <2>1. y = [at |-> "insert", kind |-> x.kind, form |-> x.form, n |-> x.n, old |-> x.old,
             section |-> healed, verdict |-> x.verdict, own |-> x.own, troubled |-> x.troubled,
             lost |-> x.lost]
    BY <1>2, <1>8 DEF CallIs
  <2> QED BY <2>1 DEF Same, CallIs
<1>9. ASSUME y = R!Troubled(z), z = [x EXCEPT !.lost = yes, !.at = "insert"]
      PROVE  Same(x, y) /\ y.at = "insert" /\ y.lost
  <2>1. z = [at |-> "insert", kind |-> x.kind, form |-> x.form, n |-> x.n, old |-> x.old,
             section |-> x.section, verdict |-> x.verdict, own |-> x.own,
             troubled |-> x.troubled, lost |-> yes]
    BY <1>2, <1>9 DEF CallIs
  <2>2. Same(x, z) /\ z.at = "insert" /\ z.lost = yes
    BY <2>1 DEF Same, CallIs
  <2>3. Turned(z, y, "insert")
    BY <1>9, <2>2, TroubledIs DEF Same
  <2> QED BY <1>4, <2>2, <2>3 DEF Turned, Same
<1>10. /\ Same(x, y) /\ y.at = "insert"
       /\ ~y.lost => name \in DOMAIN sections' /\ sections'[name] = y.section
  BY <1>6, <1>7, <1>8, <1>9
<1> QED
  BY <1>1, <1>2, <1>3, <1>4, <1>6, <1>7, <1>10, ConnectHoldsOn DEF ConnectAt, ConnectHolds

LEMMA FailsKeepsConn == ASSUME ConnInv, NEW c \in Threads, R!Fails(c) PROVE ConnInv'
<1>1. PICK x : x = calls[c]
  OBVIOUS
<1>2. x.at = "fail" /\ x.kind = "connect" /\ CallIs(x) /\ RemShape /\ x.at \notin Resting
  BY <1>1, CallAt DEF R!Fails, R!At, ConnInv, Resting
<1>3. UNCHANGED <<offered, begun, entry, troubles, sections, orphans>> /\ R!Spoils("failed")
  BY DEF R!Fails
<1>4. DOMAIN forwards' = DOMAIN forwards /\ troubles' \in 0..MaxTroubles
  BY <1>2 DEF R!Fails, RemShape
<1>5. PICK z : z = R!Answer(x, FALSE) /\ calls' = [calls EXCEPT ![c] = z]
  BY <1>1 DEF R!Fails, R!Answers, R!Goes
<1>6. Turned(x, z, "answered")
  BY <1>2, <1>5, AnswerIs
<1>7. PICK name : name = R!NameOf(x)
  OBVIOUS
<1>8. Touched(name) /\ Left' = Left
  BY <1>2, <1>3, UntouchedIs DEF RemShape
<1>9. ~Registers(z) /\ Same(x, z) /\ z.at = "answered"
  BY <1>6 DEF Turned, Registers, Resting
<1>10. spoiled' = "no" => spoiled = "no" /\ ~R!Registered
  BY <1>3 DEF R!Spoils
<1>11. Onward(x, z)
  BY <1>2, <1>7, <1>8, <1>9, <1>10 DEF Onward, ConnectHolds
<1>12. spoiled' # "met" => spoiled # "met"
  BY <1>3 DEF R!Spoils
<1> QED
  BY <1>1, <1>2, <1>3, <1>4, <1>5, <1>7, <1>8, <1>9, <1>11, <1>12, ConnectGoesOn

(* What a disconnect does goes on where the binding was.                   *)
LEMMA DropGoesOn ==
    ASSUME ConnInv, NEW c \in Threads, NEW x, x = calls[c], x.kind = "disconnect",
           x.at \notin Resting, NEW y, calls' = [calls EXCEPT ![c] = y], Same(x, y),
           y.at = "answered" \/ y.at \in DropAt,
           Touched(<<x.old, 0>>), DOMAIN sections' \subseteq DOMAIN sections,
           UNCHANGED <<offered, begun, entry, spoiled>>,
           troubles' \in 0..MaxTroubles, DOMAIN forwards' = DOMAIN forwards,
           Focus(x) => Onward(x, y)
    PROVE  ConnInv'
<1>1. Moved(c, x, y) /\ RemShape /\ CallOK(x) /\ Registers(x)
  BY CallAt DEF Moved, ConnInv
<1>2. CallOK(y)
  BY <1>1, OkOn
<1>3. PICK name : name = <<x.old, 0>>
  OBVIOUS
<1>4. DOMAIN sections' \subseteq ProxyGroups \X (0..begun)
  BY <1>1 DEF RemShape
<1>5. name[2] = 0 /\ Touched(name)
  BY <1>3
<1> QED BY <1>1, <1>2, <1>4, <1>5, RegisterGoesOn

LEMMA DropsKeepsConn == ASSUME ConnInv, NEW c \in Threads, R!Drops(c) PROVE ConnInv'
<1>1. PICK x : x = calls[c]
  OBVIOUS
<1>2. /\ x.at = "delete" /\ x.kind = "disconnect" /\ CallIs(x) /\ RemShape
      /\ x.at \notin Resting
  BY <1>1, CallAt DEF R!Drops, R!At, ConnInv, Resting, DropAt
<1>3. UNCHANGED <<offered, begun, entry, spoiled, forwards>>
  BY DEF R!Drops
<1>4. PICK old, call : old = <<x.old, 0>> /\ call = [x EXCEPT !.at = "remove"]
  OBVIOUS
<1>5. \/ /\ ~R!Registered /\ R!Goes(c, [x EXCEPT !.at = "release"]) /\ R!Smooth
         /\ UNCHANGED <<sections, orphans>>
      \/ R!Registered /\ R!Deletes(c, old, call)
      \/ /\ R!Goes(c, R!Troubled(R!Answer(x, FALSE))) /\ R!Trouble
         /\ UNCHANGED <<sections, orphans>>
  BY <1>1, <1>4 DEF R!Drops, R!Bypasses, R!To
<1>6. CASE R!Registered /\ R!Deletes(c, old, call)
  <2>1. /\ Touched(old) /\ Left' \subseteq Left \ {old} /\ troubles' \in 0..MaxTroubles
        /\ DOMAIN sections' \subseteq DOMAIN sections
        /\ \E y \in {call, R!Troubled(call)} : calls' = [calls EXCEPT ![c] = y]
    BY <1>2, <1>6, DeletesSo
  <2>2. PICK y \in {call, R!Troubled(call)} : calls' = [calls EXCEPT ![c] = y]
    BY <2>1
  <2>3. Turned(x, y, "remove")
    BY <1>2, <1>4, <2>2, TurnsTroubled
  <2>4. /\ Same(x, y) /\ y.at = "remove" /\ y.at \in DropAt /\ y.at \notin Resting
        /\ x.at \notin ConnectHolds
    BY <1>2, <2>3 DEF Turned, DropAt, Resting, ConnectHolds
  <2>5. Heads(x, y)
    BY <1>2, <1>4, <2>1, <2>4 DEF Heads
  <2>6. Registers(y) /\ ~Harmless(y)
    BY <1>2, <2>4 DEF Registers, Harmless, Same
  <2>7. Onward(x, y)
    BY <2>1, <2>4, <2>5, <2>6 DEF Onward
  <2> QED BY <1>1, <1>2, <1>3, <1>4, <2>1, <2>2, <2>4, <2>7, DropGoesOn
<1>7. ASSUME UNCHANGED <<sections, orphans>>, R!Smooth \/ R!Trouble,
             NEW y, calls' = [calls EXCEPT ![c] = y], Same(x, y),
             (y.at = "release" /\ ~R!Registered) \/ y.at = "answered"
      PROVE  ConnInv'
  <2>1. troubles' \in 0..MaxTroubles /\ Touched(old) /\ Left' = Left
    BY <1>2, <1>7, SmoothIs, UntouchedIs DEF RemShape
  <2>2. Registers(y) => y.at = "release" /\ ~R!Registered
    BY <1>7 DEF Registers, Resting
  <2>3. Registers(y) => Heads(x, y)
    BY <1>2, <2>2 DEF Heads
  <2>4. x.at \notin ConnectHolds /\ Harmless(x)
    BY <1>2 DEF ConnectHolds, Harmless
  <2>5. spoiled' = "no" => spoiled = "no"
    BY <1>3
  <2>6. Onward(x, y)
    BY <1>7, <2>1, <2>3, <2>4, <2>5 DEF Onward
  <2>7. y.at = "answered" \/ y.at \in DropAt
    BY <1>7 DEF DropAt
  <2> QED BY <1>1, <1>2, <1>3, <1>4, <1>7, <2>1, <2>6, <2>7, DropGoesOn
<1>8. CASE /\ ~R!Registered /\ R!Goes(c, [x EXCEPT !.at = "release"]) /\ R!Smooth
           /\ UNCHANGED <<sections, orphans>>
  <2>1. PICK y : y = [x EXCEPT !.at = "release"] /\ calls' = [calls EXCEPT ![c] = y]
    BY <1>8 DEF R!Goes
  <2>2. Turned(x, y, "release")
    BY <1>2, <2>1, TurnsTo
  <2> QED BY <1>7, <1>8, <2>1, <2>2 DEF Turned
<1>9. CASE /\ R!Goes(c, R!Troubled(R!Answer(x, FALSE))) /\ R!Trouble
           /\ UNCHANGED <<sections, orphans>>
  <2>1. PICK y : y = R!Troubled(R!Answer(x, FALSE)) /\ calls' = [calls EXCEPT ![c] = y]
    BY <1>9 DEF R!Goes
  <2>2. Turned(x, y, "answered")
    BY <1>2, <2>1, AnswersTroubled
  <2> QED BY <1>7, <1>9, <2>1, <2>2 DEF Turned
<1> QED BY <1>5, <1>6, <1>8, <1>9

LEMMA ReleasesKeepsConn == ASSUME ConnInv, NEW c \in Threads, R!Releases(c) PROVE ConnInv'
<1>1. PICK x : x = calls[c]
  OBVIOUS
<1>2. /\ x.at = "release" /\ x.kind = "disconnect" /\ CallIs(x) /\ RemShape
      /\ x.at \notin Resting
  BY <1>1, CallAt DEF R!Releases, R!At, ConnInv, Resting, DropAt
<1>3. UNCHANGED <<offered, begun, entry, spoiled, troubles, sections, orphans>>
  BY DEF R!Releases
<1>4. DOMAIN forwards' = DOMAIN forwards /\ troubles' \in 0..MaxTroubles
  BY <1>2, <1>3 DEF R!Releases, RemShape
<1>5. PICK ok, y : y = R!Answer(x, ok) /\ calls' = [calls EXCEPT ![c] = y]
  BY <1>1 DEF R!Releases, R!Answers, R!Goes
<1>6. Same(x, y) /\ y.at = "answered" /\ ~Registers(y)
  BY <1>2, <1>5, AnswerIs DEF Turned, Registers, Resting
<1>7. PICK old : old = <<x.old, 0>>
  OBVIOUS
<1>8. Touched(old) /\ Left' = Left
  BY <1>2, <1>3, UntouchedIs DEF RemShape
<1>9. Registers(x) /\ x.at \notin ConnectHolds
  BY <1>2 DEF Registers, ConnectHolds
<1>10. Focus(x) => Onward(x, y)
  BY <1>2, <1>6, <1>8, <1>9 DEF Onward, Focus, Stands
<1> QED BY <1>1, <1>2, <1>3, <1>4, <1>5, <1>6, <1>7, <1>8, <1>10, DropGoesOn

(* The entry of the registry is put there, and taken out.                  *)
LEMMA NamedHere ==
    ASSUME RemShape, NEW name \in Left, NEW g, name[1] = g, name[2] = 0
    PROVE  name = <<g, 0>> /\ g # "none"
<1>1. name \in ProxyGroups \X (0..begun)
  BY DEF RemShape, Left
<1> QED BY <1>1 DEF ProxyGroups

LEMMA InsertsKeepsConn == ASSUME ConnInv, NEW c \in Threads, R!Inserts(c) PROVE ConnInv'
<1>1. PICK x : x = calls[c]
  OBVIOUS
<1>2. /\ x.at = "insert" /\ x.kind = "connect" /\ CallIs(x) /\ CallOK(x) /\ RemShape
      /\ Registers(x) /\ R!NameOf(x) = <<R!GroupOf(x.form), 0>> /\ x.at \notin Resting
  BY <1>1, CallAt DEF R!Inserts, R!At, ConnInv, Resting
<1>3. UNCHANGED <<offered, begun, forwards, troubles, sections, orphans>>
  BY DEF R!Inserts
<1>4. PICK e : /\ e = [group |-> R!GroupOf(x.form), section |-> x.section,
                       root |-> R!BindingRoot(x.form), form |-> x.form]
               /\ entry' = e
  BY <1>1 DEF R!Inserts
<1>5. /\ e = [group |-> e.group, section |-> e.section, root |-> e.root, form |-> e.form]
      /\ e.group = R!GroupOf(x.form) /\ e.section = x.section /\ e.form = x.form
  BY <1>4
<1>6. spoiled' = IF spoiled = "met" THEN "met" ELSE IF x.lost THEN "failed" ELSE "no"
  BY <1>1 DEF R!Inserts
<1>7. PICK y : y = R!Answer(x, TRUE) /\ calls' = [calls EXCEPT ![c] = y]
  BY <1>1 DEF R!Inserts, R!Answers, R!Goes
<1>8. /\ Turned(x, y, "answered") /\ Same(x, y) /\ y.at = "answered" /\ ~Registers(y)
      /\ Moved(c, x, y)
  <2>1. Turned(x, y, "answered")
    BY <1>2, <1>7, AnswerIs
  <2> QED BY <1>1, <1>7, <2>1 DEF Turned, Registers, Resting, Moved
<1>9. PICK name : name = R!NameOf(x)
  OBVIOUS
<1>10. Touched(name) /\ Left' = Left /\ name[2] = 0
  BY <1>2, <1>3, <1>9, UntouchedIs DEF RemShape
<1>11. RemShape'
  <2>1. CallOK(y)
    BY <1>2, <1>8, OkOn
  <2>2. Accepted(e.form)
    BY <1>2, <1>5 DEF CallOK, Bounds
  <2>3. troubles' \in 0..MaxTroubles /\ orphans' \subseteq DOMAIN sections'
        /\ DOMAIN sections' \subseteq ProxyGroups \X (0..begun)
    BY <1>2, <1>3 DEF RemShape
  <2>4. /\ entry' = [group |-> entry'.group, section |-> entry'.section, root |-> entry'.root,
                     form |-> entry'.form]
        /\ entry'.group # "none" =>
              Accepted(entry'.form) /\ entry'.group = R!GroupOf(entry'.form)
    BY <1>4, <1>5, <2>2
  <2> QED BY <1>2, <1>3, <1>8, <2>1, <2>3, <2>4, ShapeOn
<1>12. TestsTidy'
  BY <1>2, <1>8, <1>10, RegisterTidy
<1>13. ASSUME spoiled' # "met", Focus(x) PROVE Focus(y)'
  <2>1. Stands(x) /\ Held(x)
    BY <1>2, <1>13 DEF Focus
  <2>2. \A k \in Left : k[2] = 0 => k[1] = e.group
    <3> SUFFICES ASSUME NEW k \in Left, k[2] = 0 PROVE k[1] = e.group
      OBVIOUS
    <3>1. CASE k = R!NameOf(x)
      BY <1>2, <1>5, <3>1
    <3>2. CASE k[1] = entry.group
      <4>1. x.old = entry.group
        BY <1>2, <2>1 DEF Stands
      <4>2. k = <<x.old, 0>> /\ x.old # "none"
        BY <1>2, <3>2, <4>1, NamedHere
      <4>3. x.old = R!GroupOf(x.form)
        BY <1>2, <2>1, <4>2 DEF Stands
      <4> QED BY <1>5, <3>2, <4>1, <4>3
    <3> QED BY <2>1, <3>1, <3>2 DEF Held
  <2>3. Held(y)'
    BY <1>4, <1>10, <2>2 DEF Held
  <2>4. (spoiled = "no" => Intact)'
    <3>1. ~x.lost => name \in DOMAIN sections /\ sections[name] = x.section
      BY <1>2, <1>9, <2>1 DEF Stands
    <3> QED BY <1>2, <1>3, <1>4, <1>5, <1>6, <1>9, <3>1 DEF Intact
  <2> QED BY <1>8, <2>3, <2>4 DEF Focus, Registers
<1>14. spoiled' = "met" \/ Apart'
  <2>1. spoiled' # "met" => spoiled # "met"
    BY <1>6
  <2> QED BY <1>2, <1>8, <1>13, <2>1, RegisterKeeps
<1> QED BY <1>11, <1>12, <1>14 DEF ConnInv

LEMMA RemovesKeepsConn == ASSUME ConnInv, NEW c \in Threads, R!Removes(c) PROVE ConnInv'
<1>1. PICK x : x = calls[c]
  OBVIOUS
<1>2. /\ x.at = "remove" /\ x.kind = "disconnect" /\ CallIs(x) /\ CallOK(x) /\ RemShape
      /\ Registers(x) /\ x.at \notin Resting
  BY <1>1, CallAt DEF R!Removes, R!At, ConnInv, Resting, DropAt
<1>3. UNCHANGED <<offered, begun, forwards, troubles, sections, orphans>>
  BY DEF R!Removes
<1>4. PICK e : e = R!NoEntry /\ entry' = e
  BY DEF R!Removes
<1>5. /\ e = [group |-> e.group, section |-> e.section, root |-> e.root, form |-> e.form]
      /\ e.group = "none"
  BY <1>4 DEF R!NoEntry
<1>6. spoiled' = IF spoiled = "met" THEN "met" ELSE "no"
  BY DEF R!Removes
<1>7. PICK y : y = [x EXCEPT !.at = "release"] /\ calls' = [calls EXCEPT ![c] = y]
  BY <1>1 DEF R!Removes, R!To, R!Goes
<1>8. /\ Same(x, y) /\ y.at = "release" /\ Moved(c, x, y)
  BY <1>1, <1>2, <1>7, TurnsTo DEF Turned, Moved
<1>9. PICK name : name = <<x.old, 0>>
  OBVIOUS
<1>10. Touched(name) /\ Left' = Left /\ name[2] = 0
  BY <1>2, <1>3, <1>9, UntouchedIs DEF RemShape
<1>11. RemShape'
  <2>1. CallOK(y)
    BY <1>2, <1>8, OkOn DEF DropAt
  <2>2. troubles' \in 0..MaxTroubles /\ orphans' \subseteq DOMAIN sections'
        /\ DOMAIN sections' \subseteq ProxyGroups \X (0..begun)
    BY <1>2, <1>3 DEF RemShape
  <2>3. /\ entry' = [group |-> entry'.group, section |-> entry'.section, root |-> entry'.root,
                     form |-> entry'.form]
        /\ entry'.group # "none" =>
              Accepted(entry'.form) /\ entry'.group = R!GroupOf(entry'.form)
    BY <1>4, <1>5
  <2> QED BY <1>2, <1>3, <1>8, <2>1, <2>2, <2>3, ShapeOn
<1>12. TestsTidy'
  BY <1>2, <1>8, <1>10, RegisterTidy
<1>13. ~R!Registered'
  BY <1>4, <1>5 DEF R!Registered
<1>14. ASSUME spoiled' # "met", Focus(x) PROVE Focus(y)'
  <2>1. Stands(x) /\ Held(x)
    BY <1>2, <1>14 DEF Focus
  <2>2. Stands(y)'
    BY <1>2, <1>8, <1>13 DEF Stands, Same
  <2>3. \A k \in Left : k[2] # 0
    <3> SUFFICES ASSUME NEW k \in Left, k[2] = 0 PROVE FALSE
      OBVIOUS
    <3>1. k[1] = entry.group
      BY <1>2, <2>1 DEF Held, ConnectHolds
    <3>2. x.old = entry.group /\ <<x.old, 0>> \notin Left
      BY <1>2, <2>1 DEF Stands
    <3>3. k = <<x.old, 0>>
      BY <1>2, <3>1, <3>2, NamedHere
    <3> QED BY <3>2, <3>3
  <2>4. Held(y)'
    BY <1>10, <2>3 DEF Held
  <2> QED BY <1>13, <2>2, <2>4 DEF Focus
<1>15. spoiled' = "met" \/ Apart'
  <2>1. spoiled' # "met" => spoiled # "met"
    BY <1>6
  <2> QED BY <1>2, <1>8, <1>14, <2>1, RegisterKeeps
<1> QED BY <1>11, <1>12, <1>15 DEF ConnInv

LEMMA ConnStep == ASSUME ConnInv, R!RemoteNext PROVE ConnInv'
<1>1. PICK c \in Threads :
          \/ R!Begins(c) \/ R!Disconnects(c) \/ R!Predeletes(c) \/ R!Forwards(c) \/ R!Clears(c)
          \/ R!Creates(c) \/ R!Sweeps(c) \/ R!Looks(c) \/ R!Cleans(c) \/ R!Probes(c) \/ R!Heals(c)
          \/ R!Recreates(c) \/ R!Inserts(c) \/ R!Fails(c) \/ R!Drops(c) \/ R!Removes(c)
          \/ R!Releases(c)
  BY DEF R!RemoteNext
<1> QED
  BY <1>1, BeginsKeepsConn, DisconnectsKeepsConn, PredeletesKeepsConn, ForwardsKeepsConn,
     ClearsKeepsConn, CreatesKeepsConn, SweepsKeepsConn, LooksKeepsConn, CleansKeepsConn,
     ProbesKeepsConn, HealsKeepsConn, RecreatesKeepsConn, InsertsKeepsConn, FailsKeepsConn,
     DropsKeepsConn, RemovesKeepsConn, ReleasesKeepsConn

(* What is left in an rcd is of the entry, or somebody is at it.           *)
LEMMA NoFocus ==
    ASSUME Apart, RemShape, \A c \in Threads : ~Registers(calls[c])
    PROVE  \A name \in Left : name[2] = 0 => R!Registered /\ name[1] = entry.group
<1>1. Held(R!NoCall)
  BY DEF Apart, Focus
<1>2. \A name \in Left : name[2] = 0 => name[1] = entry.group
  BY <1>1, NoCallRests DEF Held
<1> QED BY <1>2, NamedHere DEF R!Registered

LEMMA ConnMeans ==
    ConnInv => R!RemoteTypeOK /\ R!NothingLeft /\ R!RegisteredIsThere
<1> SUFFICES ASSUME ConnInv
             PROVE  R!RemoteTypeOK /\ R!NothingLeft /\ R!RegisteredIsThere
  OBVIOUS
<1>1. RemShape /\ TestsTidy
  BY DEF ConnInv
<1>2. R!RemoteTypeOK
  <2>1. \A c \in Threads :
            /\ calls[c].at # "idle" /\ calls[c].kind # "disconnect" =>
                  calls[c].form \in offered.forms
            /\ calls[c].n \in 0..begun
    BY <1>1 DEF RemShape, CallOK
  <2>2. R!Registered => entry.form \in offered.forms
    BY <1>1 DEF RemShape, Accepted
  <2> QED BY <1>1, <2>1, <2>2 DEF RemShape, R!RemoteTypeOK, ProxyGroups
<1>3. \A c \in Threads : Registers(calls[c]) <=> R!Registering(c)
  BY DEF Registers, R!Registering, R!Busy, Resting
<1>4. ASSUME NEW name \in Left
      PROVE  \/ name[2] = 0 /\ (spoiled = "met" \/ (R!Registered /\ name[1] = entry.group))
             \/ \E c \in Threads :
                   /\ R!Busy(c)
                   /\ name = R!NameOf(calls[c]) \/ name = <<calls[c].old, 0>>
  <2>1. CASE name[2] # 0
    <3>1. PICK c \in Threads : Tests(calls[c]) /\ name = R!NameOf(calls[c])
      BY <1>1, <2>1 DEF TestsTidy
    <3>2. R!Busy(c)
      BY <3>1 DEF Tests, TestHolds, R!Busy
    <3> QED BY <3>1, <3>2
  <2>2. CASE name[2] = 0 /\ spoiled # "met"
    <3>1. Apart
      BY <2>2 DEF ConnInv
    <3>2. CASE \A c \in Threads : ~Registers(calls[c])
      BY <1>1, <2>2, <3>1, <3>2, NoFocus
    <3>3. CASE \E c \in Threads : Registers(calls[c])
      <4>1. PICK c \in Threads : Registers(calls[c])
        BY <3>3
      <4>2. Held(calls[c])
        BY <3>1, <4>1 DEF Apart, Focus
      <4>3. name[1] = entry.group \/ name = R!NameOf(calls[c])
        BY <2>2, <4>2 DEF Held
      <4>4. name[1] = entry.group => R!Registered
        BY <1>1, <2>2, NamedHere DEF R!Registered
      <4>5. R!Busy(c)
        BY <1>3, <4>1 DEF R!Registering
      <4> QED BY <2>2, <4>3, <4>4, <4>5
    <3> QED BY <3>2, <3>3
  <2> QED BY <2>1, <2>2
<1>5. R!NothingLeft
  BY <1>4 DEF R!NothingLeft, Left
<1>6. R!RegisteredIsThere
  <2> SUFFICES ASSUME R!Quiet PROVE R!RegisteredIsThere
    BY DEF R!RegisteredIsThere
  <2>1. Apart /\ R!Registered /\ spoiled = "no" /\ \A c \in Threads : ~Registers(calls[c])
    BY <1>3 DEF ConnInv, R!Quiet
  <2>2. Intact
    BY <2>1, NoCallRests DEF Apart, Focus
  <2>3. entry.group = R!GroupOf(entry.form)
    BY <1>1, <2>1 DEF RemShape
  <2> QED BY <2>2, <2>3 DEF Intact, R!RegisteredIsThere
<1> QED BY <1>2, <1>5, <1>6
------------------------------------------------------------------------------
(* Whichever part of the files moves.                                      *)
FilesInv == ReqInv /\ ReadInv /\ PlansInv /\ ArchInv /\ StreamInv /\ ConnInv

LEMMA FilesStart == FilesInit => FilesInv
BY RequestStart, ReadStart, PlansStart, ArchStart, StreamStart, ConnStart DEF FilesInit, FilesInv

LEMMA FilesStep == ASSUME FilesInv, [FilesNext]_filesVars PROVE FilesInv'
<1>1. CASE UNCHANGED filesVars
  BY <1>1, RequestRests, ReadRests, PlansRest, ArchRests, StreamRests, ConnRests
  DEF filesVars, FilesInv
<1>2. CASE FilesNext
  BY <1>2, RequestStep, ReadStep, PlansStep, ArchStep, StreamStep, ConnStep,
     RequestRests, ReadRests, PlansRest, ArchRests, StreamRests, ConnRests
  DEF FilesNext, FilesInv
<1> QED BY <1>1, <1>2

LEMMA FilesMean ==
    FilesInv => /\ Q!RequestTypeOK /\ D!ReadTypeOK /\ P!PlanTypeOK
                /\ A!ArchiveTypeOK /\ G!GzipTypeOK /\ R!RemoteTypeOK
                /\ ChangesAreAllowed /\ WindowsAreWhole /\ PlansAreKept
                /\ R!RegisteredIsThere /\ R!NothingLeft
BY RequestMeans, ReadMeans, PlansMean, StreamMeans, ConnMeans DEF FilesInv, ArchInv
=============================================================================
