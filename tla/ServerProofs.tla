---------------------------- MODULE ServerProofs ----------------------------
(***************************************************************************)
(* Of the MCP server, for any numbers of clients, lines, tokens, restarts, *)
(* app instances, tools and listings:                                      *)
(*   - the confirmation tokens (T): no write without a token of its own;   *)
(*   - the lines on stdin (S): no call twice, and no answer that says more *)
(*     than was done;                                                      *)
(*   - the cursors and the intents (W): pages that are the rows of the     *)
(*     cursor, in order, and reports that reach whoever asks in time;      *)
(*   - the server that is any one of them.                                 *)
(***************************************************************************)
EXTENDS MCServer, PicksProofs, FiniteSetTheorems, SequenceTheorems, TLAPS

(* The two parts count with the same Cardinality.                          *)
LEMMA TokenCount == \A X : T!Cardinality(X) = Cardinality(X)
BY DEF T!Cardinality, Cardinality
LEMMA LineCount == \A X : S!Cardinality(X) = Cardinality(X)
BY DEF S!Cardinality, Cardinality

Stages == {"idle", "stat", "preview", "date", "enter", "confirm", "verify", "write", "save", "set"}
Entries == [args : Arguments, until : Nat, life : Nat]
TokenAsks == [at : Stages, files : BOOLEAN, args : Arguments, token : Nat, ttl : Nat, now : Nat]
TokenWrites == [token : Nat, args : Arguments, at : Nat, life : Nat]

TokenTyped ==
    /\ ticks \in Nat /\ restarts \in Nat /\ asks \in Nat
    /\ ttl \in Nat /\ ttlFile \in Nat \cup {NoTtl}
    /\ issued \in Seq(Entries) /\ written \in Seq(TokenWrites)
    /\ ask \in [Clients -> TokenAsks]
    /\ confirms \subseteq T!Tokens

(* A token is of this life of the sidecar as long as it is in the table,   *)
(* and when it has been taken out there is one call that has it, or one    *)
(* write, or none.                                                         *)
Mine(c, k) == T!Stage(c, "verify") /\ ask[c].token = k
Spent(k) == \E i \in 1..Len(written) : written[i].token = k
TokensApart ==
    /\ \A k \in confirms : issued[k].life = restarts /\ ~Spent(k)
    /\ \A c \in Clients : T!Stage(c, "verify") =>
          /\ ask[c].token \in T!Tokens \ confirms
          /\ issued[ask[c].token].life = restarts
          /\ ~Spent(ask[c].token)
    /\ \A c, d \in Clients, k \in T!Tokens : Mine(c, k) /\ Mine(d, k) => c = d
    /\ \A i \in 1..Len(written) : written[i].token \in T!Tokens

TokenBound == IsFiniteSet(confirms) /\ Cardinality(confirms) <= MaxConfirms

(* The time to live is one that may be set, in memory, in the file and on  *)
(* its way there, and the counters keep their bounds.                      *)
AskRanges(a) ==
    /\ a.at \in {"save", "set"} => a.ttl \in T!Ttls
    /\ a.token \in {0} \cup T!Tokens
TokenRanges ==
    /\ ticks <= MaxTicks /\ asks <= MaxAsks /\ restarts <= MaxRestarts
    /\ ttl \in T!Ttls /\ ttlFile \in T!Ttls \cup {NoTtl}
    /\ Len(issued) <= MaxTokens
    /\ \A c \in Clients : AskRanges(ask[c])

TokenInv == TokenTyped /\ TokenRanges /\ TokensApart /\ T!WritesAreConfirmed /\ TokenBound

LEMMA RestingType == T!Resting \in TokenAsks /\ T!Resting.at = "idle"
<1>1. (CHOOSE x \in Arguments : TRUE) \in Arguments
  BY TokenAssumption
<1> QED BY <1>1, TokenAssumption DEF T!Resting, TokenAsks, Stages

LEMMA ClampedType == \A t \in Nat : T!Clamped(t) \in Nat
BY TokenAssumption DEF T!Clamped

(* A call that goes on to another place keeps its type.                    *)
LEMMA MovesType ==
    ASSUME TokenTyped, NEW c \in Clients, NEW label \in Stages, T!Moves(c, label)
    PROVE  /\ ask' \in [Clients -> TokenAsks]
           /\ ask'[c].at = label /\ ask'[c].token = ask[c].token
           /\ \A d \in Clients : d # c => ask'[d] = ask[d]
BY DEF TokenTyped, T!Moves, TokenAsks

LEMMA FinishesType ==
    ASSUME TokenTyped, NEW c \in Clients, T!Finishes(c)
    PROVE  /\ ask' \in [Clients -> TokenAsks]
           /\ ask'[c].at = "idle"
           /\ \A d \in Clients : d # c => ask'[d] = ask[d]
BY RestingType DEF TokenTyped, T!Finishes

(* What is entered, and what is written.                                   *)
LEMMA EntersEffect ==
    ASSUME TokenTyped, NEW c \in Clients, T!Enters(c)
    PROVE  /\ issued' \in Seq(Entries) /\ Len(issued') = Len(issued) + 1
           /\ \A k \in T!Tokens : issued'[k] = issued[k]
           /\ issued'[Len(issued) + 1].life = restarts
           /\ confirms' \subseteq confirms \cup {Len(issued) + 1}
           /\ UNCHANGED <<written, restarts>>
<1> DEFINE entry == [args |-> ask[c].args, until |-> ask[c].now + ask[c].ttl, life |-> restarts]
<1>1. entry \in Entries /\ issued \in Seq(Entries) /\ Len(issued) \in Nat
  BY DEF TokenTyped, TokenAsks, Entries
<1>2. issued' = Append(issued, entry)
  BY DEF T!Enters
<1>3. issued' \in Seq(Entries) /\ Len(issued') = Len(issued) + 1
      /\ \A k \in 1..Len(issued) : issued'[k] = issued[k]
  BY <1>1, <1>2
<1>4. issued'[Len(issued) + 1] = entry
  BY <1>1, <1>2
<1>5. PICK table \in T!Evictions(T!Unexpired(ask[c].now)) : confirms' = table \cup {Len(issued')}
  BY DEF T!Enters
<1>6. table \subseteq confirms
  BY <1>5 DEF T!Evictions, T!Unexpired
<1> QED BY <1>3, <1>4, <1>5, <1>6 DEF T!Enters, T!Here, T!Tokens

LEMMA VerifiesEffect ==
    ASSUME TokenTyped, NEW c \in Clients, T!Verifies(c), written' # written
    PROVE  /\ T!Moves(c, "write") /\ T!Stage(c, "verify")
           /\ written' \in Seq(TokenWrites) /\ Len(written') = Len(written) + 1
           /\ \A i \in 1..Len(written) : written'[i] = written[i]
           /\ LET w == written'[Len(written) + 1]
              IN /\ w.token = ask[c].token /\ w.life = restarts
                 /\ w.args = issued[w.token].args /\ w.at = ticks
                 /\ ~(issued[w.token].until <= ticks)
<1> DEFINE w == [token |-> ask[c].token, args |-> ask[c].args, at |-> ticks, life |-> restarts]
<1>1. w \in TokenWrites /\ written \in Seq(TokenWrites) /\ Len(written) \in Nat
  BY DEF TokenTyped, TokenAsks, TokenWrites
<1>2. /\ ~(issued[ask[c].token].until <= ticks \/ issued[ask[c].token].args # ask[c].args)
      /\ T!Moves(c, "write") /\ T!Stage(c, "verify") /\ written' = Append(written, w)
  BY DEF T!Verifies
<1>3. /\ written' \in Seq(TokenWrites) /\ Len(written') = Len(written) + 1
      /\ \A i \in 1..Len(written) : written'[i] = written[i]
      /\ written'[Len(written) + 1] = w
  BY <1>1, <1>2
<1> QED BY <1>2, <1>3

LEMMA TokenTypedStep == TokenTyped /\ [T!TokenNext]_(T!tokenVars) => TokenTyped'
<1> SUFFICES ASSUME TokenTyped, [T!TokenNext]_(T!tokenVars) PROVE TokenTyped'
    OBVIOUS
<1> USE DEF T!Here, T!TableRests, T!SettingsRest, Stages
<1>1. CASE T!TimePasses
  BY <1>1 DEF T!TimePasses, TokenTyped, T!Tokens
<1>2. CASE T!Restarts
  <2>1. ttlFile' \in Nat \cup {NoTtl}
    BY <1>2 DEF T!Restarts, TokenTyped
  <2>2. ttl' \in Nat
    BY <1>2, <2>1, ClampedType, TokenAssumption DEF T!Restarts, T!Loaded
  <2>3. ask' \in [Clients -> TokenAsks]
    BY <1>2, RestingType DEF T!Restarts
  <2> QED BY <1>2, <2>1, <2>2, <2>3 DEF T!Restarts, TokenTyped, T!Tokens
<1>3. ASSUME NEW c \in Clients, T!Asks(c) PROVE TokenTyped'
  <2>1. PICK files \in BOOLEAN, x \in Arguments, k \in {0} \cup T!Tokens :
          ask' = [ask EXCEPT ![c] = [T!Resting EXCEPT !.files = files, !.args = x, !.token = k,
                     !.at = IF files THEN "stat" ELSE IF k = 0 THEN "preview" ELSE "confirm"]]
    BY <1>3 DEF T!Asks
  <2>2. k \in Nat
    BY DEF T!Tokens, TokenTyped
  <2>3. ask' \in [Clients -> TokenAsks]
    BY <2>1, <2>2, RestingType DEF TokenTyped, TokenAsks
  <2> QED BY <1>3, <2>3 DEF T!Asks, TokenTyped, T!Tokens
<1>4. ASSUME NEW c \in Clients, T!Previews(c) PROVE TokenTyped'
  BY <1>4, MovesType DEF T!Previews, TokenTyped, T!Tokens
<1>5. ASSUME NEW c \in Clients, T!ReadsTtl(c) PROVE TokenTyped'
  BY ZenonT(40), <1>5 DEF T!ReadsTtl, TokenTyped, T!Tokens, TokenAsks
<1>6. ASSUME NEW c \in Clients, T!Dates(c) PROVE TokenTyped'
  BY ZenonT(40), <1>6 DEF T!Dates, TokenTyped, T!Tokens, TokenAsks
<1>7. ASSUME NEW c \in Clients, T!Enters(c) PROVE TokenTyped'
  <2>1. Len(issued) \in Nat /\ Len(issued') = Len(issued) + 1
    BY <1>7, EntersEffect DEF TokenTyped
  <2>2. confirms' \subseteq 1..Len(issued')
    <3>1. confirms \subseteq 1..Len(issued) /\ confirms' \subseteq confirms \cup {Len(issued) + 1}
      BY <1>7, EntersEffect DEF TokenTyped, T!Tokens
    <3> QED BY <2>1, <3>1
  <2> QED BY <1>7, <2>2, EntersEffect, FinishesType DEF T!Enters, TokenTyped, T!Tokens
<1>8. ASSUME NEW c \in Clients, T!Takes(c) PROVE TokenTyped'
  BY <1>8, MovesType, FinishesType DEF T!Takes, TokenTyped, T!Tokens
<1>9. ASSUME NEW c \in Clients, T!Verifies(c) PROVE TokenTyped'
  <2>1. written' \in Seq(TokenWrites)
    BY <1>9, VerifiesEffect DEF TokenTyped
  <2>2. ask' \in [Clients -> TokenAsks]
    BY <1>9, MovesType, FinishesType DEF T!Verifies
  <2> QED BY <1>9, <2>1, <2>2 DEF T!Verifies, TokenTyped, T!Tokens
<1>10. ASSUME NEW c \in Clients, T!Writes(c) PROVE TokenTyped'
  BY <1>10, FinishesType DEF T!Writes, TokenTyped, T!Tokens
<1>11. ASSUME NEW c \in Clients, T!Copies(c) PROVE TokenTyped'
  <2>1. PICK t \in Nat : ask' = [ask EXCEPT ![c] = [T!Resting EXCEPT !.at = "save", !.ttl = T!Clamped(t)]]
    BY <1>11, TokenAssumption DEF T!Copies, TokenTyped
  <2>2. ask' \in [Clients -> TokenAsks]
    BY <2>1, RestingType, ClampedType DEF TokenTyped, TokenAsks
  <2> QED BY <1>11, <2>2 DEF T!Copies, TokenTyped, T!Tokens
<1>12. ASSUME NEW c \in Clients, T!Saves(c) PROVE TokenTyped'
  <2>1. ttlFile' \in Nat \cup {NoTtl}
    BY <1>12 DEF T!Saves, TokenTyped, TokenAsks
  <2>2. ask' \in [Clients -> TokenAsks]
    BY <1>12, MovesType, FinishesType DEF T!Saves
  <2> QED BY <1>12, <2>1, <2>2 DEF T!Saves, TokenTyped, T!Tokens
<1>13. ASSUME NEW c \in Clients, T!Sets(c) PROVE TokenTyped'
  <2>1. ttl' \in Nat
    BY <1>13 DEF T!Sets, TokenTyped, TokenAsks
  <2> QED BY <1>13, <2>1, FinishesType DEF T!Sets, TokenTyped, T!Tokens
<1>14. CASE UNCHANGED T!tokenVars
  BY <1>14 DEF T!tokenVars, TokenTyped, T!Tokens
<1> QED BY <1>1, <1>2, <1>3, <1>4, <1>5, <1>6, <1>7, <1>8, <1>9, <1>10, <1>11, <1>12, <1>13, <1>14
        DEF T!TokenNext

LEMMA ClampedRange == \A t \in Nat : T!Clamped(t) \in T!Ttls
<1> SUFFICES ASSUME NEW t \in Nat PROVE T!Clamped(t) \in LeastTtl..MostTtl
    BY DEF T!Ttls
<1> QED BY TokenAssumption DEF T!Clamped

LEMMA LoadedRange == \A file \in T!Ttls \cup {NoTtl} : T!Loaded(file) \in T!Ttls
<1> SUFFICES ASSUME NEW file \in T!Ttls \cup {NoTtl} PROVE T!Loaded(file) \in T!Ttls
    OBVIOUS
<1>1. DefaultTtl \in T!Ttls
  BY DEF T!Ttls
<1>2. file # NoTtl => file \in Nat
  BY TokenAssumption DEF T!Ttls
<1> QED BY <1>1, <1>2, ClampedRange DEF T!Loaded

LEMMA RestingRange == AskRanges(T!Resting)
BY DEF AskRanges, T!Resting

(* What a client does to its own call, with the tokens as they were.       *)
LEMMA AsksInRange ==
    ASSUME TokenTyped, TokenRanges, NEW c \in Clients, NEW a, AskRanges(a),
           ask' = [ask EXCEPT ![c] = a], issued' = issued
    PROVE  (\A d \in Clients : AskRanges(ask[d]))'
<1>1. \A d \in Clients : ask'[d] = IF d = c THEN a ELSE ask[d]
  BY DEF TokenTyped
<1>2. (T!Tokens)' = T!Tokens
  BY DEF T!Tokens
<1> SUFFICES ASSUME NEW d \in Clients PROVE AskRanges(ask[d])'
    OBVIOUS
<1> QED BY <1>1, <1>2 DEF AskRanges, TokenRanges

LEMMA MovesInRange ==
    ASSUME TokenTyped, TokenRanges, NEW c \in Clients, NEW label, T!Moves(c, label), issued' = issued,
           label \notin {"save", "set"} \/ ask[c].at = "save"
    PROVE  (\A d \in Clients : AskRanges(ask[d]))'
<1> DEFINE a == [ask[c] EXCEPT !.at = label]
<1>1. ask' = [ask EXCEPT ![c] = a]
  BY DEF T!Moves
<1>2. a.at = label /\ a.ttl = ask[c].ttl /\ a.token = ask[c].token
  BY DEF TokenTyped, TokenAsks
<1> HIDE DEF a
<1>3. AskRanges(a)
  BY <1>2 DEF AskRanges, TokenRanges
<1> QED BY <1>1, <1>3, AsksInRange

LEMMA FinishesInRange ==
    ASSUME TokenTyped, TokenRanges, NEW c \in Clients, T!Finishes(c), issued' = issued
    PROVE  (\A d \in Clients : AskRanges(ask[d]))'
BY AsksInRange, RestingRange DEF T!Finishes

LEMMA TokenRangesStep == TokenTyped /\ TokenRanges /\ [T!TokenNext]_(T!tokenVars) => TokenRanges'
<1> SUFFICES ASSUME TokenTyped, TokenRanges, [T!TokenNext]_(T!tokenVars) PROVE TokenRanges'
    OBVIOUS
<1> DEFINE Counts == /\ ticks <= MaxTicks /\ asks <= MaxAsks /\ restarts <= MaxRestarts
                     /\ Len(issued) <= MaxTokens
           Times == ttl \in T!Ttls /\ ttlFile \in T!Ttls \cup {NoTtl}
           Calls == \A d \in Clients : AskRanges(ask[d])
<1>0. (Counts' /\ Times' /\ Calls' => TokenRanges') /\ Counts /\ Times /\ Calls
  BY DEF TokenRanges, T!Ttls
<1>b. /\ ticks \in Nat /\ asks \in Nat /\ restarts \in Nat
      /\ MaxTicks \in Nat /\ MaxAsks \in Nat /\ MaxRestarts \in Nat /\ MaxTokens \in Nat
  BY TokenAssumption DEF TokenTyped
<1>t. (T!Ttls)' = T!Ttls
  BY DEF T!Ttls
<1>1. CASE T!TimePasses
  <2>1. Counts'
    BY <1>0, <1>1, <1>b DEF T!TimePasses, T!TableRests
  <2>2. Times' /\ Calls'
    BY <1>0, <1>1, <1>t DEF T!TimePasses, T!TableRests, T!SettingsRest, AskRanges, T!Tokens
  <2> QED BY <1>0, <2>1, <2>2
<1>2. CASE T!Restarts
  <2>1. Counts'
    BY <1>0, <1>2, <1>b DEF T!Restarts
  <2>2. Times'
    BY <1>0, <1>2, <1>t, LoadedRange DEF T!Restarts
  <2>3. Calls'
    <3> SUFFICES ASSUME NEW d \in Clients PROVE AskRanges(ask[d])'
      OBVIOUS
    <3>1. ask'[d] = T!Resting /\ issued' = issued
      BY <1>2 DEF T!Restarts
    <3> QED BY <3>1, RestingRange DEF AskRanges, T!Tokens, T!Ttls
  <2> QED BY <1>0, <2>1, <2>2, <2>3
<1>3. ASSUME NEW c \in Clients, T!Asks(c) PROVE TokenRanges'
  <2>1. PICK files \in BOOLEAN, x \in Arguments, k \in {0} \cup T!Tokens :
          ask' = [ask EXCEPT ![c] = [T!Resting EXCEPT !.files = files, !.args = x, !.token = k,
                     !.at = IF files THEN "stat" ELSE IF k = 0 THEN "preview" ELSE "confirm"]]
    BY <1>3 DEF T!Asks
  <2> DEFINE a == [T!Resting EXCEPT !.files = files, !.args = x, !.token = k,
                     !.at = IF files THEN "stat" ELSE IF k = 0 THEN "preview" ELSE "confirm"]
  <2>2. a.token = k /\ a.at \notin {"save", "set"}
    BY RestingType DEF TokenAsks
  <2> HIDE DEF a
  <2>3. Calls'
    <3>1. AskRanges(a)
      BY <2>2 DEF AskRanges
    <3>2. ask' = [ask EXCEPT ![c] = a] /\ issued' = issued
      BY <1>3, <2>1 DEF a, T!Asks, T!TableRests
    <3> QED BY <3>1, <3>2, AsksInRange
  <2>4. Counts' /\ Times'
    BY <1>0, <1>3, <1>b, <1>t DEF T!Asks, T!TableRests, T!SettingsRest
  <2> QED BY <1>0, <2>3, <2>4
<1>4. ASSUME NEW c \in Clients, T!Previews(c) PROVE TokenRanges'
  <2>1. Counts' /\ Times'
    BY <1>0, <1>4, <1>t DEF T!Previews, T!TableRests, T!SettingsRest, T!Here
  <2>2. Calls'
    BY <1>4, MovesInRange DEF T!Previews, T!TableRests
  <2> QED BY <1>0, <2>1, <2>2
<1>5. ASSUME NEW c \in Clients, T!ReadsTtl(c) PROVE TokenRanges'
  <2>1. Counts' /\ Times'
    BY <1>0, <1>5, <1>t DEF T!ReadsTtl, T!TableRests, T!SettingsRest, T!Here
  <2> DEFINE a == [ask[c] EXCEPT !.at = "date", !.ttl = ttl]
  <2>2. ask' = [ask EXCEPT ![c] = a] /\ issued' = issued
    BY <1>5 DEF T!ReadsTtl, T!TableRests, TokenTyped
  <2>3. AskRanges(a)
    <3>1. a.at = "date" /\ a.token = ask[c].token
      BY DEF TokenTyped, TokenAsks
    <3> HIDE DEF a
    <3> QED BY <3>1 DEF AskRanges, TokenRanges
  <2> QED BY <1>0, <2>1, <2>2, <2>3, AsksInRange
<1>6. ASSUME NEW c \in Clients, T!Dates(c) PROVE TokenRanges'
  <2>1. Counts' /\ Times'
    BY <1>0, <1>6, <1>t DEF T!Dates, T!TableRests, T!SettingsRest, T!Here
  <2> DEFINE a == [ask[c] EXCEPT !.at = "enter", !.now = ticks]
  <2>2. ask' = [ask EXCEPT ![c] = a] /\ issued' = issued
    BY <1>6 DEF T!Dates, T!TableRests, TokenTyped
  <2>3. AskRanges(a)
    <3>1. a.at = "enter" /\ a.token = ask[c].token
      BY DEF TokenTyped, TokenAsks
    <3> HIDE DEF a
    <3> QED BY <3>1 DEF AskRanges, TokenRanges
  <2> QED BY <1>0, <2>1, <2>2, <2>3, AsksInRange
<1>7. ASSUME NEW c \in Clients, T!Enters(c) PROVE TokenRanges'
  <2>1. Len(issued) \in Nat /\ Len(issued') = Len(issued) + 1
    BY <1>7, EntersEffect DEF TokenTyped
  <2>2. Counts'
    BY <1>0, <1>7, <1>b, <2>1 DEF T!Enters, T!Here
  <2>3. Times'
    BY <1>0, <1>7, <1>t DEF T!Enters, T!SettingsRest
  <2>4. Calls'
    <3> SUFFICES ASSUME NEW d \in Clients PROVE AskRanges(ask[d])'
      OBVIOUS
    <3>1. T!Tokens \subseteq (T!Tokens)'
      BY <2>1 DEF T!Tokens
    <3>2. AskRanges(ask'[d])
      <4>1. ask' = [ask EXCEPT ![c] = T!Resting]
        BY <1>7 DEF T!Enters, T!Finishes
      <4>2. ask'[d] = IF d = c THEN T!Resting ELSE ask[d]
        BY <4>1 DEF TokenTyped
      <4> QED BY <4>2, RestingRange DEF TokenRanges
    <3> QED BY <1>t, <3>1, <3>2 DEF AskRanges
  <2> QED BY <1>0, <2>2, <2>3, <2>4
<1>8. ASSUME NEW c \in Clients, T!Takes(c) PROVE TokenRanges'
  <2>1. Counts' /\ Times'
    BY <1>0, <1>8, <1>t DEF T!Takes, T!SettingsRest, T!Here
  <2>2. Calls'
    BY <1>8, MovesInRange, FinishesInRange DEF T!Takes
  <2> QED BY <1>0, <2>1, <2>2
<1>9. ASSUME NEW c \in Clients, T!Verifies(c) PROVE TokenRanges'
  <2>1. Counts' /\ Times'
    BY <1>0, <1>9, <1>t DEF T!Verifies, T!SettingsRest, T!Here
  <2>2. Calls'
    BY <1>9, MovesInRange, FinishesInRange DEF T!Verifies
  <2> QED BY <1>0, <2>1, <2>2
<1>10. ASSUME NEW c \in Clients, T!Writes(c) PROVE TokenRanges'
  <2>1. Counts' /\ Times'
    BY <1>0, <1>10, <1>t DEF T!Writes, T!TableRests, T!SettingsRest, T!Here
  <2>2. Calls'
    BY <1>10, FinishesInRange DEF T!Writes, T!TableRests
  <2> QED BY <1>0, <2>1, <2>2
<1>11. ASSUME NEW c \in Clients, T!Copies(c) PROVE TokenRanges'
  <2>1. PICK t \in Nat : ask' = [ask EXCEPT ![c] = [T!Resting EXCEPT !.at = "save", !.ttl = T!Clamped(t)]]
    BY <1>11, TokenAssumption DEF T!Copies, TokenTyped
  <2>2. Counts' /\ Times'
    BY <1>0, <1>11, <1>b, <1>t DEF T!Copies, T!TableRests, T!SettingsRest
  <2> DEFINE a == [T!Resting EXCEPT !.at = "save", !.ttl = T!Clamped(t)]
  <2>3. AskRanges(a)
    <3>1. a.ttl = T!Clamped(t) /\ a.token = 0
      BY DEF T!Resting
    <3>2. T!Clamped(t) \in T!Ttls
      BY ClampedRange
    <3> HIDE DEF a
    <3> QED BY <3>1, <3>2 DEF AskRanges
  <2>4. issued' = issued
    BY <1>11 DEF T!Copies, T!TableRests
  <2> HIDE DEF a
  <2>5. ask' = [ask EXCEPT ![c] = a]
    BY <2>1 DEF a
  <2> QED BY <1>0, <2>2, <2>3, <2>4, <2>5, AsksInRange
<1>12. ASSUME NEW c \in Clients, T!Saves(c) PROVE TokenRanges'
  <2>1. Counts'
    BY <1>0, <1>12 DEF T!Saves, T!TableRests, T!Here
  <2>2. Times'
    <3>1. ask[c].ttl \in T!Ttls
      BY <1>12 DEF T!Saves, T!Stage, TokenRanges, AskRanges
    <3> QED BY <1>0, <1>12, <1>t, <3>1 DEF T!Saves
  <2>3. Calls'
    BY <1>12, MovesInRange, FinishesInRange DEF T!Saves, T!TableRests, T!Stage
  <2> QED BY <1>0, <2>1, <2>2, <2>3
<1>13. ASSUME NEW c \in Clients, T!Sets(c) PROVE TokenRanges'
  <2>1. Counts'
    BY <1>0, <1>13 DEF T!Sets, T!TableRests, T!Here
  <2>2. Times'
    <3>1. ask[c].ttl \in T!Ttls
      BY <1>13 DEF T!Sets, T!Stage, TokenRanges, AskRanges
    <3> QED BY <1>0, <1>13, <1>t, <3>1 DEF T!Sets
  <2>3. Calls'
    BY <1>13, FinishesInRange DEF T!Sets, T!TableRests
  <2> QED BY <1>0, <2>1, <2>2, <2>3
<1>14. CASE UNCHANGED T!tokenVars
  BY <1>14 DEF T!tokenVars, TokenRanges, AskRanges, T!Tokens, T!Ttls
<1> QED BY <1>1, <1>2, <1>3, <1>4, <1>5, <1>6, <1>7, <1>8, <1>9, <1>10, <1>11, <1>12, <1>13, <1>14
        DEF T!TokenNext

(* A step of c that enters and writes nothing, and does not bring c to     *)
(* where it verifies.                                                      *)
LEMMA ApartFrame ==
    ASSUME TokenTyped, TokensApart, T!WritesAreConfirmed, NEW c \in Clients,
           UNCHANGED <<issued, written, restarts>>, confirms' \subseteq confirms,
           \A d \in Clients : d # c => ask'[d] = ask[d],
           ~T!Stage(c, "verify")'
    PROVE  TokensApart' /\ T!WritesAreConfirmed'
<1>1. T!Tokens' = T!Tokens /\ (\A k : Spent(k)' = Spent(k))
  BY DEF T!Tokens, Spent
<1>2. \A d \in Clients : T!Stage(d, "verify")' => d # c /\ T!Stage(d, "verify") /\ ask'[d] = ask[d]
  BY DEF T!Stage
<1>3. \A d \in Clients, k \in T!Tokens : Mine(d, k)' => Mine(d, k)
  BY <1>2 DEF Mine
<1> QED BY <1>1, <1>2, <1>3 DEF TokensApart, T!WritesAreConfirmed

LEMMA ApartStep ==
    TokenTyped /\ TokensApart /\ T!WritesAreConfirmed /\ [T!TokenNext]_(T!tokenVars)
        => TokensApart' /\ T!WritesAreConfirmed'
<1> DEFINE Goal == TokensApart' /\ T!WritesAreConfirmed'
<1> SUFFICES ASSUME TokenTyped, TokensApart, T!WritesAreConfirmed, [T!TokenNext]_(T!tokenVars) PROVE Goal
    OBVIOUS
<1> USE DEF T!Here, T!TableRests, T!SettingsRest, Stages
<1>1. CASE T!TimePasses \/ UNCHANGED T!tokenVars
  BY <1>1 DEF T!TimePasses, T!tokenVars, TokensApart, T!WritesAreConfirmed, T!Tokens, Spent, Mine, T!Stage
<1>2. CASE T!Restarts
  <2>1. confirms' = {} /\ UNCHANGED <<issued, written>> /\ \A c \in Clients : ~T!Stage(c, "verify")'
    BY <1>2, RestingType DEF T!Restarts, T!Stage
  <2> QED BY <2>1 DEF TokensApart, T!WritesAreConfirmed, T!Tokens, Spent, Mine
<1>3. ASSUME NEW c \in Clients,
             \/ T!Asks(c) \/ T!Previews(c) \/ T!ReadsTtl(c) \/ T!Dates(c) \/ T!Writes(c)
             \/ T!Copies(c) \/ T!Saves(c) \/ T!Sets(c)
      PROVE  Goal
  <2>1. UNCHANGED <<issued, written, restarts, confirms>>
    BY <1>3 DEF T!Asks, T!Previews, T!ReadsTtl, T!Dates, T!Writes, T!Copies, T!Saves, T!Sets
  <2>2. /\ \A d \in Clients : d # c => ask'[d] = ask[d]
        /\ ask'[c].at # "verify"
    <3>1. CASE T!Asks(c)
      BY <3>1, RestingType DEF T!Asks, TokenTyped, TokenAsks
    <3>2. CASE T!Previews(c) \/ T!Writes(c)
      BY <3>2, MovesType, FinishesType DEF T!Previews, T!Writes
    <3>3. CASE T!ReadsTtl(c) \/ T!Dates(c)
      BY <3>3 DEF T!ReadsTtl, T!Dates, TokenTyped, TokenAsks
    <3>4. CASE T!Copies(c)
      BY <3>4, RestingType DEF T!Copies, TokenTyped, TokenAsks
    <3>5. CASE T!Saves(c) \/ T!Sets(c)
      BY <3>5, MovesType, FinishesType DEF T!Saves, T!Sets
    <3> QED BY <1>3, <3>1, <3>2, <3>3, <3>4, <3>5
  <2> QED BY <2>1, <2>2, ApartFrame DEF T!Stage
<1>4. ASSUME NEW c \in Clients, T!Enters(c) PROVE Goal
  <2>1. /\ Len(issued) \in Nat /\ Len(issued') = Len(issued) + 1
        /\ \A k \in T!Tokens : issued'[k] = issued[k]
        /\ issued'[Len(issued) + 1].life = restarts
        /\ confirms' \subseteq confirms \cup {Len(issued) + 1}
        /\ UNCHANGED <<written, restarts>>
    BY <1>4, EntersEffect DEF TokenTyped
  <2>2. T!Tokens' = T!Tokens \cup {Len(issued) + 1} /\ Len(issued) + 1 \notin T!Tokens
    BY <2>1 DEF T!Tokens
  <2>3. \A k : Spent(k)' = Spent(k)
    BY <2>1 DEF Spent
  <2>4. ~Spent(Len(issued) + 1)
    BY <2>2 DEF TokensApart, Spent
  <2>5. \A d \in Clients : T!Stage(d, "verify")' => d # c /\ T!Stage(d, "verify") /\ ask'[d] = ask[d]
    BY <1>4, FinishesType DEF T!Enters, T!Stage
  <2>6. \A d \in Clients : \A k : Mine(d, k)' => Mine(d, k) /\ k \in T!Tokens
    BY <2>5 DEF Mine, TokensApart
  <2>7. TokensApart'
    BY SMTT(30), <2>1, <2>2, <2>3, <2>4, <2>5, <2>6 DEF TokensApart, TokenTyped
  <2>8. T!WritesAreConfirmed'
    BY <2>1 DEF TokensApart, T!WritesAreConfirmed
  <2> QED BY <2>7, <2>8
<1>5. ASSUME NEW c \in Clients, T!Takes(c) PROVE Goal
  <2>1. /\ confirms' = confirms \ {ask[c].token} /\ UNCHANGED <<issued, written, restarts>>
        /\ \A d \in Clients : d # c => ask'[d] = ask[d]
    BY <1>5, MovesType, FinishesType DEF T!Takes
  <2>2. CASE ask[c].token \in confirms
    <3>1. ask'[c].at = "verify" /\ ask'[c].token = ask[c].token
      BY <1>5, <2>2, MovesType DEF T!Takes
    <3>2. T!Tokens' = T!Tokens /\ \A k : Spent(k)' = Spent(k)
      BY <2>1 DEF T!Tokens, Spent
    <3>3. \A d \in Clients : T!Stage(d, "verify") => ask[d].token # ask[c].token
      BY <2>2 DEF TokensApart
    <3>4. \A d \in Clients, k \in T!Tokens :
             Mine(d, k)' => (d = c /\ k = ask[c].token) \/ (d # c /\ Mine(d, k) /\ k # ask[c].token)
      BY <2>1, <3>1, <3>3 DEF Mine, T!Stage
    <3>5. \A d, e \in Clients, k \in T!Tokens' : Mine(d, k)' /\ Mine(e, k)' => d = e
      BY <3>2, <3>4 DEF TokensApart
    <3>6. \A d \in Clients : T!Stage(d, "verify")' =>
             /\ ask'[d].token \in T!Tokens \ confirms'
             /\ issued[ask'[d].token].life = restarts
             /\ \A i \in 1..Len(written) : written[i].token # ask'[d].token
      <4>1. TAKE d \in Clients
      <4>2. CASE d = c
        BY <2>1, <2>2, <3>1, <4>2 DEF TokensApart, TokenTyped, Spent
      <4>3. CASE d # c
        BY <2>1, <4>3 DEF TokensApart, T!Stage, Spent
      <4> QED BY <4>2, <4>3
    <3>7. TokensApart'
      BY <2>1, <3>2, <3>5, <3>6 DEF TokensApart, Spent
    <3>8. T!WritesAreConfirmed'
      BY <2>1 DEF T!WritesAreConfirmed
    <3> QED BY <3>7, <3>8
  <2>3. CASE ask[c].token \notin confirms
    <3>1. ~T!Stage(c, "verify")'
      BY <1>5, <2>3, FinishesType DEF T!Takes, T!Stage
    <3> QED BY <2>1, <3>1, ApartFrame
  <2> QED BY <2>2, <2>3
<1>6. ASSUME NEW c \in Clients, T!Verifies(c), written' = written PROVE Goal
  <2>1. /\ UNCHANGED <<issued, restarts, confirms>>
        /\ \A d \in Clients : d # c => ask'[d] = ask[d]
    BY <1>6, MovesType, FinishesType DEF T!Verifies
  <2>2. ask'[c].at # "verify"
    BY <1>6, MovesType, FinishesType DEF T!Verifies
  <2> QED BY <1>6, <2>1, <2>2, ApartFrame DEF T!Stage
<1>7. ASSUME NEW c \in Clients, T!Verifies(c), written' # written PROVE Goal
  <2> DEFINE n == Len(written) + 1
             t == ask[c].token
  <2>1. /\ n \in Nat /\ Len(written) \in Nat /\ Len(written') = n
        /\ \A i \in 1..Len(written) : written'[i] = written[i]
        /\ written'[n].token = t /\ written'[n].life = restarts
        /\ written'[n].args = issued[t].args /\ written'[n].at = ticks
        /\ ~(issued[t].until <= ticks)
        /\ T!Stage(c, "verify") /\ ask'[c].at # "verify"
        /\ \A d \in Clients : d # c => ask'[d] = ask[d]
        /\ UNCHANGED <<issued, restarts, confirms>>
    <3>1. written \in Seq(TokenWrites)
      BY DEF TokenTyped
    <3>2. T!Moves(c, "write") /\ UNCHANGED <<issued, restarts, confirms>>
      BY <1>7, VerifiesEffect DEF T!Verifies
    <3>3. ask'[c].at = "write" /\ \A d \in Clients : d # c => ask'[d] = ask[d]
      BY <3>2, MovesType
    <3> QED BY <1>7, <3>1, <3>2, <3>3, VerifiesEffect
  <2>2. t \in T!Tokens \ confirms /\ issued[t].life = restarts /\ ~Spent(t)
    BY <2>1 DEF TokensApart
  <2>3. issued[t].until \in Nat /\ ticks \in Nat
    <3>1. issued[t] \in Entries
      BY <2>2 DEF TokenTyped, T!Tokens
    <3> QED BY <3>1 DEF TokenTyped, Entries
  <2> HIDE DEF n, t
  <2>4. \A k : Spent(k)' <=> Spent(k) \/ k = t
    <3>1. 1..Len(written') = 1..Len(written) \cup {n}
      BY <2>1 DEF n
    <3> QED BY <2>1, <3>1 DEF Spent
  <2>5. \A d \in Clients : T!Stage(d, "verify")' => d # c /\ T!Stage(d, "verify") /\ ask'[d] = ask[d]
    BY <2>1 DEF T!Stage
  <2>6. \A d \in Clients : T!Stage(d, "verify")' => ask[d].token # t
    BY <2>1, <2>2, <2>5 DEF TokensApart, Mine, t
  <2>7. T!Tokens' = T!Tokens /\ \A i \in 1..n : written'[i].token \in T!Tokens
    <3>1. \A i \in 1..n : i \in 1..Len(written) \/ i = n
      BY <2>1 DEF n
    <3> QED BY <2>1, <2>2, <3>1 DEF TokensApart, T!Tokens
  <2>8. TokensApart'
    <3>1. \A d, e \in Clients, k \in T!Tokens' : Mine(d, k)' /\ Mine(e, k)' => d = e
      BY <2>5, <2>7 DEF TokensApart, Mine
    <3> QED BY <2>1, <2>2, <2>4, <2>5, <2>6, <2>7, <3>1 DEF TokensApart
  <2>9. T!WritesAreConfirmed'
    <3>1. \A i \in 1..n : i = n \/ (i \in 1..Len(written) /\ i # n)
      BY <2>1 DEF n
    <3>2. \A i \in 1..Len(written) : written[i].token # t
      BY <2>2 DEF Spent
    <3>3. ticks < issued[t].until
      BY <2>1, <2>3
    <3>4. SUFFICES ASSUME NEW i \in 1..n
                   PROVE  LET w == written'[i]
                          IN /\ issued'[w.token].args = w.args
                             /\ issued'[w.token].life = w.life
                             /\ w.at < issued'[w.token].until
                             /\ \A j \in 1..n : written'[j].token = w.token => j = i
      BY <2>1 DEF T!WritesAreConfirmed
    <3>5. CASE i = n
      BY <2>1, <2>2, <3>1, <3>2, <3>3, <3>5
    <3>6. CASE i \in 1..Len(written)
      BY <2>1, <3>1, <3>2, <3>6 DEF T!WritesAreConfirmed
    <3> QED BY <3>1, <3>5, <3>6
  <2> QED BY <2>8, <2>9
<1> HIDE DEF Goal
<1> QED BY <1>1, <1>2, <1>3, <1>4, <1>5, <1>6, <1>7 DEF T!TokenNext

(* The table never has more than MaxConfirms entries.                      *)
LEMMA BoundStep == TokenBound /\ [T!TokenNext]_(T!tokenVars) => TokenBound'
<1> SUFFICES ASSUME TokenBound, [T!TokenNext]_(T!tokenVars) PROVE TokenBound'
    OBVIOUS
<1> USE DEF T!Here, T!TableRests, T!SettingsRest
<1>1. CASE confirms' \subseteq confirms
  BY <1>1, FS_Subset, FS_CardinalityType, TokenAssumption DEF TokenBound
<1>2. ASSUME NEW c \in Clients, T!Enters(c) PROVE TokenBound'
  <2> DEFINE left == T!Unexpired(ask[c].now)
  <2>1. left \subseteq confirms
    BY DEF T!Unexpired
  <2>2. IsFiniteSet(left) /\ Cardinality(left) \in Nat /\ Cardinality(left) <= MaxConfirms
    BY <2>1, FS_Subset, FS_CardinalityType, TokenAssumption DEF TokenBound
  <2>3. PICK table \in T!Evictions(left) : confirms' = table \cup {Len(issued')}
    BY <1>2 DEF T!Enters
  <2> HIDE DEF left
  <2>4. IsFiniteSet(table) /\ Cardinality(table) \in Nat /\ Cardinality(table) < MaxConfirms
    <3>1. CASE Cardinality(left) < MaxConfirms
      BY <2>2, <2>3, <3>1, TokenCount DEF T!Evictions
    <3>2. CASE ~(Cardinality(left) < MaxConfirms)
      <4>1. PICK k \in left : table = left \ {k}
        BY <2>3, <3>2, TokenCount DEF T!Evictions
      <4>2. IsFiniteSet(table) /\ Cardinality(table) = Cardinality(left) - 1
        BY <2>2, <4>1, FS_RemoveElement
      <4>3. Cardinality(table) \in Nat
        BY <4>2, FS_CardinalityType
      <4> QED BY <2>2, <4>2, <4>3, TokenAssumption
    <3> QED BY <3>1, <3>2
  <2>5. IsFiniteSet(confirms') /\ Cardinality(confirms') \in {Cardinality(table), Cardinality(table) + 1}
    BY <2>3, <2>4, FS_AddElement
  <2> QED BY <2>4, <2>5, TokenAssumption DEF TokenBound
<1>3. CASE T!TimePasses \/ T!Restarts \/ UNCHANGED T!tokenVars
  BY <1>1, <1>3 DEF T!TimePasses, T!Restarts, T!tokenVars
<1>4. ASSUME NEW c \in Clients,
             \/ T!Asks(c) \/ T!Previews(c) \/ T!ReadsTtl(c) \/ T!Dates(c) \/ T!Takes(c) \/ T!Verifies(c)
             \/ T!Writes(c) \/ T!Copies(c) \/ T!Saves(c) \/ T!Sets(c)
      PROVE  TokenBound'
  BY <1>1, <1>4 DEF T!Asks, T!Previews, T!ReadsTtl, T!Dates, T!Takes, T!Verifies, T!Writes, T!Copies, T!Saves, T!Sets
<1> QED BY <1>2, <1>3, <1>4 DEF T!TokenNext

LEMMA TokensStart == T!TokenInit => TokenInv
<1> SUFFICES ASSUME T!TokenInit PROVE TokenInv
    OBVIOUS
<1>1. TokenTyped
  <2>1. ttlFile \in Nat \cup {NoTtl}
    BY TokenAssumption DEF T!TokenInit
  <2>2. ttl \in Nat
    BY <2>1, ClampedType, TokenAssumption DEF T!TokenInit, T!Loaded
  <2> QED BY <2>1, <2>2, RestingType DEF T!TokenInit, TokenTyped
<1>2. TokensApart /\ T!WritesAreConfirmed
  BY RestingType DEF T!TokenInit, TokensApart, T!WritesAreConfirmed, Mine, T!Stage
<1>3. TokenBound
  BY FS_EmptySet, TokenAssumption DEF T!TokenInit, TokenBound
<1>4. TokenRanges
  <2>1. DefaultTtl \in T!Ttls /\ ttlFile \in T!Ttls \cup {NoTtl}
    BY DEF T!TokenInit, T!Ttls
  <2>2. \A c \in Clients : AskRanges(ask[c])
    BY RestingRange DEF T!TokenInit
  <2> QED BY <2>1, <2>2, LoadedRange, TokenAssumption DEF T!TokenInit, TokenRanges
<1> QED BY <1>1, <1>2, <1>3, <1>4 DEF TokenInv

LEMMA TokensStep == TokenInv /\ [T!TokenNext]_(T!tokenVars) => TokenInv'
BY TokenTypedStep, TokenRangesStep, ApartStep, BoundStep DEF TokenInv

LEMMA TokensMean == TokenInv => T!TokenTypeOK /\ WritesAreConfirmed
<1> SUFFICES ASSUME TokenInv PROVE T!TokenTypeOK /\ WritesAreConfirmed
    OBVIOUS
<1>1. T!Cardinality(confirms) <= MaxConfirms
  BY TokenCount DEF TokenInv, TokenBound
<1>2. \A c \in Clients : ask[c].token \in {0} \cup T!Tokens /\ ask[c].args \in Arguments
  BY DEF TokenInv, TokenRanges, AskRanges, TokenTyped, TokenAsks
<1>3. ticks \in 0..MaxTicks /\ asks \in 0..MaxAsks /\ restarts \in 0..MaxRestarts
  BY TokenAssumption DEF TokenInv, TokenRanges, TokenTyped
<1> QED BY <1>1, <1>2, <1>3 DEF TokenInv, TokenRanges, TokenTyped, T!TokenTypeOK, WritesAreConfirmed

(* Every write that asked for confirmation has a token of its own, for its *)
(* arguments, in time and of this life of the sidecar, and the table never *)
(* holds more tokens than its cap, however calls, restarts and changes of  *)
(* the time to live interleave.                                            *)
THEOREM TokensConfirm == T!TokenSpec => [](T!TokenTypeOK /\ WritesAreConfirmed)
BY TokensStart, TokensStep, TokensMean, PTL DEF T!TokenSpec

------------------------------------------------------------------------------
LineLabels == {"unread", "waits", "dispatch", "plan", "prepare", "local", "probe", "poll", "post",
           "await", "write", "ended"}
LineStates == [at : LineLabels, kind : S!Kinds, leg : {"none"}, says : {"ok", "error"}]
LinesTyped ==
    /\ line \in [Lines -> LineStates]
    /\ server \in {"reading", "draining", "over", "cut"}
    /\ relay \in [Lines -> {"none", "taken", "done", "refused"}]
    /\ done \in [Lines -> Nat]
    /\ answered \in [Lines -> SUBSET {"ok", "error"}]

(* A call is with the app only while the line waits for it or later, and   *)
(* is carried out by the one side that has it; a line is answered when it  *)
(* ends, and what it says was carried out by then.                         *)
Late(l) == line[l].at \in {"write", "ended"}
OnceOf(l) ==
    /\ relay[l] # "none" => line[l].at \in {"await", "write", "ended"}
    /\ relay[l] = "done" => done[l] = 1
    /\ relay[l] \in {"taken", "refused"} \/ (~Late(l) /\ relay[l] = "none") => done[l] = 0
    /\ done[l] \in {0, 1}
    /\ line[l].kind = "note" => line[l].at \in {"waits", "dispatch", "ended"} /\ answered[l] = {}
    /\ S!Is(l, "write") /\ line[l].says = "ok" /\ line[l].kind # "meta" => done[l] = 1
    /\ ~S!Is(l, "ended") => answered[l] = {}
    /\ S!Is(l, "ended") /\ line[l].kind # "note" => answered[l] \in {{"ok"}, {"error"}}
    /\ "ok" \in answered[l] /\ line[l].kind # "meta" => done[l] = 1
    /\ server = "over" => line[l].at \in {"unread", "ended"}
Once == \A l \in Lines : OnceOf(l)
WorkBound == IsFiniteSet(S!AtWork) /\ Cardinality(S!AtWork) <= Permits
StdioInv == LinesTyped /\ Once /\ WorkBound

(* What a step of a line does to it, and to the others.                    *)
LEMMA LineEffect ==
    ASSUME LinesTyped, NEW l \in Lines, NEW from, NEW next \in LineStates, S!Step(l, from, next)
    PROVE  /\ line' \in [Lines -> LineStates] /\ line'[l] = next /\ line[l].at = from
           /\ \A m \in Lines : m # l => line'[m] = line[m]
           /\ server \in {"reading", "draining"}
BY DEF LinesTyped, S!Step, S!Is, S!Runs
LEMMA GoesLine ==
    ASSUME LinesTyped, NEW l \in Lines, NEW from, NEW to \in LineLabels, S!Goes(l, from, to)
    PROVE  /\ line' \in [Lines -> LineStates]
           /\ line'[l].at = to /\ line'[l].kind = line[l].kind /\ line'[l].says = line[l].says
           /\ line[l].at = from
           /\ \A m \in Lines : m # l => line'[m] = line[m]
           /\ server \in {"reading", "draining"}
<1> DEFINE next == [line[l] EXCEPT !.at = to]
<1>1. next \in LineStates /\ next.at = to /\ next.kind = line[l].kind /\ next.says = line[l].says
  BY DEF LinesTyped, LineStates
<1>2. S!Step(l, from, next)
  BY DEF S!Goes
<1> HIDE DEF next
<1> QED BY <1>1, <1>2, LineEffect
LEMMA TellsLine ==
    ASSUME LinesTyped, NEW l \in Lines, NEW from, NEW says \in {"ok", "error"}, S!Tells(l, from, says)
    PROVE  /\ line' \in [Lines -> LineStates]
           /\ line'[l].at = "write" /\ line'[l].kind = line[l].kind /\ line'[l].says = says
           /\ line[l].at = from
           /\ \A m \in Lines : m # l => line'[m] = line[m]
           /\ server \in {"reading", "draining"}
<1> DEFINE next == [line[l] EXCEPT !.at = "write", !.says = says]
<1>1. next \in LineStates /\ next.at = "write" /\ next.kind = line[l].kind /\ next.says = says
  BY DEF LinesTyped, LineStates, LineLabels
<1>2. S!Step(l, from, next)
  BY DEF S!Tells
<1> HIDE DEF next
<1> QED BY <1>1, <1>2, LineEffect

LEMMA OnceStep == LinesTyped /\ Once /\ [S!StdioNext]_(S!stdioVars) => LinesTyped' /\ Once'
<1> DEFINE Goal == LinesTyped' /\ Once'
<1> SUFFICES ASSUME LinesTyped, Once, [S!StdioNext]_(S!stdioVars) PROVE Goal
    OBVIOUS
(* One line goes on, with its own call and answer.                         *)
<1>one. ASSUME NEW l \in Lines,
               line' \in [Lines -> LineStates] /\ \A m \in Lines : m # l => line'[m] = line[m],
               relay' \in [Lines -> {"none", "taken", "done", "refused"}],
               \A m \in Lines : m # l => relay'[m] = relay[m],
               done' \in [Lines -> Nat] /\ \A m \in Lines : m # l => done'[m] = done[m],
               answered' \in [Lines -> SUBSET {"ok", "error"}],
               \A m \in Lines : m # l => answered'[m] = answered[m],
               UNCHANGED server, OnceOf(l)'
        PROVE  Goal
  <2>1. LinesTyped'
    BY <1>one DEF LinesTyped
  <2>2. ASSUME NEW m \in Lines, m # l PROVE OnceOf(m)'
    BY <1>one, <2>2 DEF Once, OnceOf, S!Is, Late
  <2> QED BY <1>one, <2>1, <2>2 DEF Once
<1>same. UNCHANGED relay => relay' \in [Lines -> {"none", "taken", "done", "refused"}]
  BY DEF LinesTyped
<1>types. /\ relay \in [Lines -> {"none", "taken", "done", "refused"}] /\ done \in [Lines -> Nat]
          /\ answered \in [Lines -> SUBSET {"ok", "error"}]
  BY DEF LinesTyped
<1>0. ASSUME NEW l \in Lines PROVE OnceOf(l) /\ line[l] \in LineStates
  BY DEF Once, LinesTyped
<1> USE DEF S!OnlyLine, S!bridge, LineLabels
<1>1. ASSUME NEW l \in Lines, S!Reads(l) PROVE Goal
  <2>1. PICK kind \in S!Kinds :
          /\ S!Step(l, "unread", [S!Unread EXCEPT !.at = IF kind = "bad" THEN "ended" ELSE "waits",
                                   !.kind = kind])
          /\ answered' = [answered EXCEPT ![l] = IF kind = "bad" THEN {"error"} ELSE {}]
    BY <1>1 DEF S!Reads
  <2> DEFINE next == [S!Unread EXCEPT !.at = IF kind = "bad" THEN "ended" ELSE "waits", !.kind = kind]
  <2>2. /\ next \in LineStates /\ next.kind = kind
        /\ next.at = IF kind = "bad" THEN "ended" ELSE "waits"
    BY DEF S!Unread, LineStates, S!Kinds
  <2> HIDE DEF next
  <2>3. /\ line' \in [Lines -> LineStates] /\ line'[l] = next /\ line[l].at = "unread"
        /\ \A m \in Lines : m # l => line'[m] = line[m]
        /\ server \in {"reading", "draining"}
    BY <2>1, <2>2, LineEffect DEF next
  <2>4. answered'[l] = (IF kind = "bad" THEN {"error"} ELSE {})
        /\ UNCHANGED <<relay, done, server>>
    BY <1>1, <1>types, <2>1 DEF S!Reads
  <2>5. OnceOf(l)'
    BY <1>0, <2>2, <2>3, <2>4 DEF OnceOf, S!Is, Late, S!Kinds
  <2> QED BY <1>one, <1>types, <2>1, <2>3, <2>4, <2>5
<1>2. ASSUME NEW l \in Lines, S!Acquires(l) PROVE Goal
  <2>1. S!Goes(l, "waits", "dispatch") /\ UNCHANGED <<relay, done, answered, server>>
    BY <1>2 DEF S!Acquires
  <2>2. OnceOf(l)'
    BY <1>0, <2>1, GoesLine DEF OnceOf, S!Is, Late
  <2> QED BY <1>one, <1>types, <2>1, <2>2, GoesLine
<1>3. ASSUME NEW l \in Lines, S!Dispatches(l) PROVE Goal
  <2>1. UNCHANGED <<relay, done, answered, server>>
    BY <1>3 DEF S!Dispatches
  <2>2. CASE line[l].kind = "note" /\ S!Goes(l, "dispatch", "ended")
    <3>1. OnceOf(l)'
      BY <1>0, <2>1, <2>2, GoesLine DEF OnceOf, S!Is, Late
    <3> QED BY <1>one, <1>types, <2>1, <2>2, <3>1, GoesLine
  <2>3. CASE line[l].kind = "meta" /\ \E says \in {"ok", "error"} : S!Tells(l, "dispatch", says)
    <3>1. OnceOf(l)'
      BY <1>0, <2>1, <2>3, TellsLine DEF OnceOf, S!Is, Late
    <3> QED BY <1>one, <1>types, <2>1, <2>3, <3>1, TellsLine
  <2>4. CASE line[l].kind \notin {"note", "meta"} /\ S!Goes(l, "dispatch", "plan")
    <3>1. OnceOf(l)'
      BY <1>0, <2>1, <2>4, GoesLine DEF OnceOf, S!Is, Late
    <3> QED BY <1>one, <1>types, <2>1, <2>4, <3>1, GoesLine
  <2> QED BY <1>3, <2>2, <2>3, <2>4 DEF S!Dispatches
<1>4. ASSUME NEW l \in Lines, S!Plans(l) PROVE Goal
  <2>1. UNCHANGED <<relay, done, answered, server>> /\ line[l].at = "plan"
        /\ (S!Goes(l, "plan", "probe") \/ S!Goes(l, "plan", "prepare"))
    BY <1>4 DEF S!Plans, S!Goes, S!Step, S!Is
  <2>2. OnceOf(l)'
    BY <1>0, <2>1, GoesLine DEF OnceOf, S!Is, Late
  <2> QED BY <1>one, <1>types, <2>1, <2>2, GoesLine
<1>5. ASSUME NEW l \in Lines, S!Prepares(l) PROVE Goal
  <2>1. UNCHANGED <<relay, done, answered, server>>
        /\ (S!Goes(l, "prepare", "local") \/ S!Tells(l, "prepare", "error"))
    BY <1>5 DEF S!Prepares
  <2>2. OnceOf(l)'
    BY <1>0, <2>1, GoesLine, TellsLine DEF OnceOf, S!Is, Late
  <2> QED BY <1>one, <1>types, <2>1, <2>2, GoesLine, TellsLine
<1>6. ASSUME NEW l \in Lines, S!CarriesOut(l) PROVE Goal
  <2>1. /\ UNCHANGED <<relay, answered, server>>
        /\ done' \in {done, [done EXCEPT ![l] = @ + 1]}
        /\ \/ S!Tells(l, "local", "ok") /\ done' = [done EXCEPT ![l] = @ + 1]
           \/ S!Tells(l, "local", "error")
    BY <1>6 DEF S!CarriesOut
  <2>2. done[l] = 0 /\ relay[l] = "none"
    BY <1>0, <1>types, <2>1, TellsLine DEF OnceOf, Late
  <2>3. /\ done' \in [Lines -> Nat] /\ \A m \in Lines : m # l => done'[m] = done[m]
        /\ done'[l] \in {0, 1}
    BY <1>types, <2>1, <2>2
  <2>4. OnceOf(l)'
    BY <1>0, <1>types, <2>1, <2>2, <2>3, TellsLine DEF OnceOf, S!Is, Late
  <2> QED BY <1>one, <1>types, <2>1, <2>3, <2>4, TellsLine
<1>7. ASSUME NEW l \in Lines, S!Probes(l) PROVE Goal
  <2>1. UNCHANGED <<relay, done, answered, server>>
        /\ (S!Goes(l, "probe", "post") \/ S!Goes(l, "probe", "poll"))
    BY <1>7 DEF S!Probes
  <2>2. OnceOf(l)'
    BY <1>0, <2>1, GoesLine DEF OnceOf, S!Is, Late
  <2> QED BY <1>one, <1>types, <2>1, <2>2, GoesLine
<1>8. ASSUME NEW l \in Lines, S!Polls(l) PROVE Goal
  <2>1. UNCHANGED <<relay, done, answered, server>>
        /\ (S!Goes(l, "poll", "post") \/ S!Tells(l, "poll", "error"))
    BY <1>8 DEF S!Polls
  <2>2. OnceOf(l)'
    BY <1>0, <2>1, GoesLine, TellsLine DEF OnceOf, S!Is, Late
  <2> QED BY <1>one, <1>types, <2>1, <2>2, GoesLine, TellsLine
<1>9. ASSUME NEW l \in Lines, S!Posts(l) PROVE Goal
  <2>1. CASE S!Goes(l, "post", "await") /\ relay' = [relay EXCEPT ![l] = "taken"]
             /\ UNCHANGED <<done, answered, server>>
    <3>1. /\ relay' \in [Lines -> {"none", "taken", "done", "refused"}] /\ relay'[l] = "taken"
          /\ \A m \in Lines : m # l => relay'[m] = relay[m]
      BY <1>types, <2>1
    <3>2. OnceOf(l)'
      BY <1>0, <1>types, <2>1, <3>1, GoesLine DEF OnceOf, S!Is, Late
    <3> QED BY <1>one, <1>types, <2>1, <3>1, <3>2, GoesLine
  <2>2. CASE S!Tells(l, "post", "error") /\ UNCHANGED <<relay, done, answered, server>>
    <3>1. OnceOf(l)'
      BY <1>0, <2>2, TellsLine DEF OnceOf, S!Is, Late
    <3> QED BY <1>one, <1>types, <2>2, <3>1, TellsLine
  <2> QED BY <1>9, <2>1, <2>2 DEF S!Posts
<1>10. ASSUME NEW l \in Lines, S!Hears(l) PROVE Goal
  <2>1. /\ UNCHANGED <<relay, done, answered, server>>
        /\ \/ relay[l] = "done" /\ \E says \in {"ok", "error"} : S!Tells(l, "await", says)
           \/ S!Tells(l, "await", "error")
    BY <1>10 DEF S!Hears, S!Unanswered
  <2>2. OnceOf(l)'
    BY <1>0, <2>1, TellsLine DEF OnceOf, S!Is, Late
  <2> QED BY <1>one, <1>types, <2>1, <2>2, TellsLine
<1>11. ASSUME NEW l \in Lines, S!Writes(l) PROVE Goal
  <2>1. /\ S!Goes(l, "write", "ended") /\ UNCHANGED <<relay, done, server>>
        /\ answered' = [answered EXCEPT ![l] = @ \cup {line[l].says}]
    BY <1>11 DEF S!Writes
  <2>2. answered[l] = {} /\ line[l].says \in {"ok", "error"} /\ line[l].kind # "note"
    BY <1>0, <2>1, GoesLine DEF OnceOf, S!Is, LineStates
  <2>3. /\ answered' \in [Lines -> SUBSET {"ok", "error"}] /\ answered'[l] = {line[l].says}
        /\ \A m \in Lines : m # l => answered'[m] = answered[m]
    BY <1>types, <2>1, <2>2
  <2>4. OnceOf(l)'
    BY <1>0, <2>1, <2>2, <2>3, GoesLine DEF OnceOf, S!Is, Late
  <2> QED BY <1>one, <1>types, <2>1, <2>3, <2>4, GoesLine
<1>12. ASSUME NEW l \in Lines, S!AppServes(l) PROVE Goal
  <2>1. /\ UNCHANGED <<line, server, answered>> /\ relay[l] = "taken"
        /\ \/ relay' = [relay EXCEPT ![l] = "done"] /\ done' = [done EXCEPT ![l] = @ + 1]
           \/ relay' = [relay EXCEPT ![l] = "refused"] /\ UNCHANGED done
    BY <1>12 DEF S!AppServes
  <2>2. done[l] = 0
    BY <1>0, <2>1 DEF OnceOf
  <2>3. /\ relay' \in [Lines -> {"none", "taken", "done", "refused"}] /\ done' \in [Lines -> Nat]
        /\ \A m \in Lines : m # l => relay'[m] = relay[m] /\ done'[m] = done[m]
        /\ \/ relay'[l] = "done" /\ done'[l] = 1
           \/ relay'[l] = "refused" /\ done'[l] = 0
    BY <1>types, <2>1, <2>2
  <2>4. OnceOf(l)'
    BY <1>0, <2>1, <2>2, <2>3 DEF OnceOf, S!Is, Late
  <2>5. line' \in [Lines -> LineStates]
    BY <2>1 DEF LinesTyped
  <2> QED BY <1>one, <1>types, <2>1, <2>3, <2>4, <2>5
<1>13. CASE S!AppDies
  <2>1. /\ relay' = [l \in Lines |-> IF relay[l] = "taken" THEN "refused" ELSE relay[l]]
        /\ UNCHANGED <<line, server, done, answered>>
    BY <1>13 DEF S!AppDies
  <2>2. LinesTyped'
    BY <2>1 DEF LinesTyped
  <2>3. ASSUME NEW l \in Lines PROVE OnceOf(l)'
    <3>1. relay'[l] = IF relay[l] = "taken" THEN "refused" ELSE relay[l]
      BY <2>1
    <3> QED BY <1>0, <2>1, <3>1 DEF OnceOf, S!Is, Late
  <2> QED BY <2>2, <2>3 DEF Once
<1>14. CASE S!Closes \/ S!Leaves
  <2>1. /\ UNCHANGED <<line, relay, done, answered>> /\ server' \in {"draining", "over", "cut"}
        /\ server' = "over" => \A l \in Lines : line[l].at \in {"unread", "ended"}
    BY <1>14 DEF S!Closes, S!Leaves
  <2> QED BY <2>1 DEF LinesTyped, Once, OnceOf, S!Is, Late
<1>15. CASE S!AppStarts \/ S!AppPublishes \/ UNCHANGED S!stdioVars
  <2>1. UNCHANGED <<line, server, relay, done, answered>>
    BY <1>15 DEF S!AppStarts, S!AppPublishes, S!stdioVars
  <2> QED BY <2>1 DEF LinesTyped, Once, OnceOf, S!Is, Late
<1> HIDE DEF Goal
<1> QED BY <1>1, <1>2, <1>3, <1>4, <1>5, <1>6, <1>7, <1>8, <1>9, <1>10, <1>11, <1>12, <1>13, <1>14, <1>15
        DEF S!StdioNext
LEMMA WorkStep == LinesTyped /\ WorkBound /\ [S!StdioNext]_(S!stdioVars) => WorkBound'
<1> SUFFICES ASSUME LinesTyped, WorkBound, [S!StdioNext]_(S!stdioVars) PROVE WorkBound'
    OBVIOUS
<1>less. ASSUME S!AtWork' \subseteq S!AtWork PROVE WorkBound'
  BY <1>less, FS_Subset, FS_CardinalityType, PermitsAssumption DEF WorkBound
<1>out. ASSUME NEW l \in Lines, NEW from \in LineLabels \ {"unread", "waits", "ended"}, NEW to \in LineLabels,
               \/ S!Goes(l, from, to)
               \/ \E says \in {"ok", "error"} : S!Tells(l, from, says)
        PROVE  WorkBound'
  <2>1. line[l].at = from /\ \A m \in Lines : m # l => line'[m] = line[m]
    BY <1>out, GoesLine, TellsLine
  <2>2. S!AtWork' \subseteq S!AtWork
    BY <2>1 DEF S!AtWork, LineLabels
  <2> QED BY <1>less, <2>2
<1> USE DEF S!OnlyLine, S!bridge
<1>1. ASSUME NEW l \in Lines, S!Reads(l) PROVE WorkBound'
  <2>1. PICK kind \in S!Kinds :
          S!Step(l, "unread", [S!Unread EXCEPT !.at = IF kind = "bad" THEN "ended" ELSE "waits",
                                   !.kind = kind])
    BY <1>1 DEF S!Reads
  <2> DEFINE next == [S!Unread EXCEPT !.at = IF kind = "bad" THEN "ended" ELSE "waits", !.kind = kind]
  <2>2. next \in LineStates /\ next.at \in {"ended", "waits"}
    BY DEF S!Unread, LineStates, S!Kinds, LineLabels
  <2>3. line'[l] = next /\ \A m \in Lines : m # l => line'[m] = line[m]
    BY <2>1, <2>2, LineEffect
  <2>4. S!AtWork' \subseteq S!AtWork
    BY <2>2, <2>3 DEF S!AtWork
  <2> QED BY <1>less, <2>4
<1>2. ASSUME NEW l \in Lines, S!Acquires(l) PROVE WorkBound'
  <2>1. S!Goes(l, "waits", "dispatch") /\ Cardinality(S!AtWork) < Permits
    BY <1>2, LineCount DEF S!Acquires
  <2>2. line'[l].at = "dispatch" /\ \A m \in Lines : m # l => line'[m] = line[m]
    BY <2>1, GoesLine DEF LineLabels
  <2>3. S!AtWork' \subseteq S!AtWork \cup {l}
    BY <2>2 DEF S!AtWork
  <2>4. /\ IsFiniteSet(S!AtWork \cup {l})
        /\ Cardinality(S!AtWork \cup {l}) \in {Cardinality(S!AtWork), Cardinality(S!AtWork) + 1}
        /\ Cardinality(S!AtWork) \in Nat
    BY FS_AddElement, FS_CardinalityType DEF WorkBound
  <2>5. IsFiniteSet(S!AtWork') /\ Cardinality(S!AtWork') <= Cardinality(S!AtWork \cup {l})
    BY <2>3, <2>4, FS_Subset
  <2>6. Cardinality(S!AtWork') \in Nat
    BY <2>5, FS_CardinalityType
  <2> QED BY <2>1, <2>4, <2>5, <2>6, PermitsAssumption DEF WorkBound
<1>3. ASSUME NEW l \in Lines, S!Dispatches(l) PROVE WorkBound'
  BY <1>3, <1>out DEF S!Dispatches, LineLabels
<1>4. ASSUME NEW l \in Lines, S!Plans(l) \/ S!Prepares(l) \/ S!CarriesOut(l) PROVE WorkBound'
  BY <1>4, <1>out DEF S!Plans, S!Prepares, S!CarriesOut, LineLabels
<1>5. ASSUME NEW l \in Lines, S!Probes(l) \/ S!Polls(l) \/ S!Posts(l) PROVE WorkBound'
  BY <1>5, <1>out DEF S!Probes, S!Polls, S!Posts, LineLabels
<1>6. ASSUME NEW l \in Lines, S!Hears(l) \/ S!Writes(l) PROVE WorkBound'
  BY <1>6, <1>out DEF S!Hears, S!Unanswered, S!Writes, LineLabels
<1>7. CASE UNCHANGED line
  BY <1>7, <1>less DEF S!AtWork
<1> QED BY <1>1, <1>2, <1>3, <1>4, <1>5, <1>6, <1>7
        DEF S!StdioNext, S!stdioVars, S!Closes, S!Leaves, S!AppStarts, S!AppPublishes, S!AppDies, S!AppServes

LEMMA StdioStart == S!StdioInit => StdioInv
<1> SUFFICES ASSUME S!StdioInit PROVE StdioInv
    OBVIOUS
<1>1. LinesTyped
  BY DEF S!StdioInit, LinesTyped, LineStates, LineLabels, S!Kinds, S!Unread
<1>2. Once
  BY DEF S!StdioInit, Once, OnceOf, S!Is, Late, S!Unread
<1>3. S!AtWork = {}
  BY DEF S!StdioInit, S!AtWork, S!Unread
<1>4. WorkBound
  BY <1>3, FS_EmptySet, PermitsAssumption DEF WorkBound
<1> QED BY <1>1, <1>2, <1>4 DEF StdioInv

LEMMA StdioStep == StdioInv /\ [S!StdioNext]_(S!stdioVars) => StdioInv'
BY OnceStep, WorkStep DEF StdioInv

LEMMA StdioTypes == StdioInv => S!StdioTypeOK
BY LineCount DEF StdioInv, LinesTyped, LineStates, WorkBound, S!StdioTypeOK

LEMMA StdioMeans == StdioInv => CallsAreOnce
<1> SUFFICES ASSUME StdioInv, NEW l \in Lines
             PROVE  /\ done[l] <= 1
                    /\ "ok" \in answered[l] /\ line[l].kind # "meta" => done[l] = 1
                    /\ Cardinality(answered[l]) <= 1
                    /\ line[l].kind = "note" => answered[l] = {}
                    /\ server = "over" /\ line[l].kind # "note" /\ ~S!Is(l, "unread") => answered[l] # {}
  BY LineCount DEF CallsAreOnce, S!CallsAreOnce
<1>1. OnceOf(l)
  BY DEF StdioInv, Once
<1>2. answered[l] \in {{}, {"ok"}, {"error"}}
  BY <1>1 DEF OnceOf
<1>3. Cardinality(answered[l]) \in {0, 1}
  <2>1. CASE answered[l] = {}
    <3>1. Cardinality({}) = 0
      BY FS_EmptySet
    <3> QED BY <2>1, <3>1
  <2>2. CASE \E says \in {"ok", "error"} : answered[l] = {says}
    <3>1. PICK says \in {"ok", "error"} : answered[l] = {says}
      BY <2>2
    <3>2. Cardinality({says}) = 1
      BY FS_Singleton
    <3> QED BY <3>1, <3>2
  <2> QED BY <1>2, <2>1, <2>2
<1> QED BY <1>1, <1>3 DEF OnceOf, S!Is

(* However lines, app instances and the end of stdin interleave, a call is *)
(* carried out once at most, has one answer at most, and is answered "ok"  *)
(* only when it was; no more lines are at work than there are permits.     *)
THEOREM StdioOnce == S!StdioSpec => [](S!StdioTypeOK /\ CallsAreOnce)
BY StdioStart, StdioStep, StdioTypes, StdioMeans, PTL DEF S!StdioSpec

------------------------------------------------------------------------------
(* Cursors and intents.                                                    *)
ToolStages == {"idle", "list", "date", "put", "ask", "page", "intend", "register", "wait", "poll",
               "look", "glance"}
Verdicts == {"pending", "applied", "rejected"}
CursorEntries == [id : Nat, rows : Seq(Nat), offset : Nat, until : Nat]
IntentEntries == [id : Nat, state : Verdicts, until : Nat]
ScanEntries == [listing : Seq({"hit", "miss", "deep"}), rows : Seq(Nat), whole : BOOLEAN]
ClaimEntries == [state : Verdicts, until : Nat]
ToolCalls == [at : ToolStages, id : Nat, rows : Seq(Nat), scan : Nat, limit : Limits, now : Nat,
              size : Nat, offset : Nat, state : {"pending"}]

SessTyped ==
    /\ hours \in 0..MaxHours /\ begun \in 0..MaxWork /\ limits \in Limits
    /\ turn \in [Tools -> ToolCalls] /\ \A t \in Tools : turn[t].now <= hours
    /\ cursors \in Seq(CursorEntries) /\ intents \in Seq(IntentEntries)
    /\ scans \in Seq(ScanEntries) /\ served \in Seq(Seq(Nat)) /\ Len(served) = Len(scans)
    /\ recency \in Seq(Nat) /\ claimed \in Seq(ClaimEntries)

(* Tables: no id twice.  A part of a table is in the order of the table,   *)
(* and a table goes along an order of ids if its entries do.               *)
Unique(table) == \A i, j \in 1..Len(table) : table[i].id = table[j].id => i = j
Rises(f, n) == \A i, j \in 1..n : i < j => f[i] < f[j]
Part(a, b) ==
    \E place \in [1..Len(a) -> 1..Len(b)] :
        Rises(place, Len(a)) /\ \A i \in 1..Len(a) : a[i] = b[place[i]]
Along(table, order) ==
    \E place \in [1..Len(table) -> 1..Len(order)] :
        Rises(place, Len(table)) /\ \A i \in 1..Len(table) : table[i].id = order[place[i]]

(* A cursor is of the scan it was made by, and stands where its pages end. *)
CursorIs(e, row, all) ==
    /\ e.rows = row /\ e.offset <= Len(row)
    /\ all # W!Skipping => Len(all) = e.offset
Prefix(s, t) == Len(s) <= Len(t) /\ s = SubSeq(t, 1, Len(s))
Hits(listing) == {i \in DOMAIN listing : listing[i] = "hit"}
ScanIs(s, all) ==
    /\ all # W!Skipping => Prefix(all, s.rows)
    /\ s.whole => W!ToSet(s.rows) = Hits(s.listing)
Making(t) == turn[t].at \in {"date", "put"}
Paged(table, made, pages) ==
    /\ Unique(table)
    /\ \A i \in 1..Len(table) :
          /\ table[i].id \in 1..Len(made)
          /\ CursorIs(table[i], made[table[i].id].rows, pages[table[i].id])
Scanned(made, pages) == \A id \in 1..Len(made) : ScanIs(made[id], pages[id])
NotYet(call, table, made, pages) ==
    /\ call.scan \in 1..Len(made)
    /\ call.rows = made[call.scan].rows /\ pages[call.scan] = <<>>
    /\ \A i \in 1..Len(table) : table[i].id # call.scan
CursorsTrue ==
    /\ Paged(cursors, scans, served) /\ Scanned(scans, served)
    /\ \A t \in Tools : Making(t) => NotYet(turn[t], cursors, scans, served)
    /\ \A t, u \in Tools : Making(t) /\ Making(u) /\ turn[u].scan = turn[t].scan => u = t

(* The intents in the table go along the order in which all were touched,  *)
(* with what was accepted of each, and none of the last is missing that is *)
(* not over.                                                               *)
Entered(table, id) == \E i \in 1..Len(table) : table[i].id = id
Orderly(order, claims) ==
    /\ \A i, j \in 1..Len(order) : order[i] = order[j] => i = j
    /\ \A i \in 1..Len(order) : order[i] \in 1..Len(claims)
EntryTrue(e, claims) == e.until = claims[e.id].until /\ e.state = claims[e.id].state
NoneMissed(table, order, claims, now) ==
    \A i \in 1..Len(order) : i + IntentCap > Len(order) =>
        Entered(table, order[i]) \/ claims[order[i]].until <= now
Kept(table, order, claims, now) ==
    /\ Along(table, order) /\ Len(table) <= IntentCap
    /\ \A i \in 1..Len(table) : EntryTrue(table[i], claims)
    /\ NoneMissed(table, order, claims, now)
IntentsTrue == Orderly(recency, claimed) /\ Kept(intents, recency, claimed, hours)

SessInv == SessTyped /\ CursorsTrue /\ IntentsTrue

------------------------------------------------------------------------------
(* Tables.                                                                 *)
LEMMA PartUnique ==
    ASSUME NEW a, NEW b, Len(a) \in Nat, Len(b) \in Nat, Part(a, b), Unique(b)
    PROVE  Unique(a)
<1>1. PICK place \in [1..Len(a) -> 1..Len(b)] :
         Rises(place, Len(a)) /\ \A i \in 1..Len(a) : a[i] = b[place[i]]
  BY DEF Part
<1> SUFFICES ASSUME NEW i \in 1..Len(a), NEW j \in 1..Len(a), a[i].id = a[j].id, i # j
             PROVE  FALSE
  BY DEF Unique
<1>2. place[i] = place[j]
  <2>1. place[i] \in 1..Len(b) /\ place[j] \in 1..Len(b)
    OBVIOUS
  <2>2. b[place[i]].id = b[place[j]].id
    BY <1>1
  <2> QED BY <2>1, <2>2 DEF Unique
<1>3. place[i] < place[j] \/ place[j] < place[i]
  <2>1. i < j \/ j < i
    OBVIOUS
  <2> QED BY <1>1, <2>1 DEF Rises
<1>4. place[i] \in Nat /\ place[j] \in Nat
  OBVIOUS
<1> QED BY <1>2, <1>3, <1>4

LEMMA PartEntries ==
    ASSUME NEW a, NEW b, Part(a, b), NEW i \in 1..Len(a)
    PROVE  \E j \in 1..Len(b) : a[i] = b[j]
BY DEF Part

LEMMA PartTrans ==
    ASSUME NEW a, NEW b, NEW c, Part(a, b), Part(b, c)
    PROVE  Part(a, c)
<1>1. PICK p \in [1..Len(a) -> 1..Len(b)] :
         Rises(p, Len(a)) /\ \A i \in 1..Len(a) : a[i] = b[p[i]]
  BY DEF Part
<1>2. PICK q \in [1..Len(b) -> 1..Len(c)] :
         Rises(q, Len(b)) /\ \A i \in 1..Len(b) : b[i] = c[q[i]]
  BY DEF Part
<1> DEFINE r == [i \in 1..Len(a) |-> q[p[i]]]
<1>3. r \in [1..Len(a) -> 1..Len(c)] /\ \A i \in 1..Len(a) : r[i] = q[p[i]] /\ p[i] \in 1..Len(b)
  OBVIOUS
<1> HIDE DEF r
<1>4. \A i, j \in 1..Len(a) : i < j => r[i] < r[j]
  <2> SUFFICES ASSUME NEW i \in 1..Len(a), NEW j \in 1..Len(a), i < j PROVE r[i] < r[j]
    OBVIOUS
  <2>1. p[i] < p[j]
    BY <1>1 DEF Rises
  <2>2. q[p[i]] < q[p[j]]
    BY <1>2, <1>3, <2>1 DEF Rises
  <2> QED BY <1>3, <2>2
<1>5. \A i \in 1..Len(a) : a[i] = c[r[i]]
  <2> SUFFICES ASSUME NEW i \in 1..Len(a) PROVE a[i] = c[r[i]]
    OBVIOUS
  <2>1. b[p[i]] = c[q[p[i]]]
    BY <1>2, <1>3
  <2> QED BY <1>1, <1>3, <2>1
<1>6. Rises(r, Len(a))
  BY <1>4 DEF Rises
<1> QED BY <1>3, <1>5, <1>6 DEF Part

LEMMA PartAlong ==
    ASSUME NEW a, NEW b, NEW order, Part(a, b), Along(b, order)
    PROVE  Along(a, order)
<1>1. PICK p \in [1..Len(a) -> 1..Len(b)] :
         Rises(p, Len(a)) /\ \A i \in 1..Len(a) : a[i] = b[p[i]]
  BY DEF Part
<1>2. PICK q \in [1..Len(b) -> 1..Len(order)] :
         Rises(q, Len(b)) /\ \A i \in 1..Len(b) : b[i].id = order[q[i]]
  BY DEF Along
<1> DEFINE r == [i \in 1..Len(a) |-> q[p[i]]]
<1>3. r \in [1..Len(a) -> 1..Len(order)] /\ \A i \in 1..Len(a) : r[i] = q[p[i]] /\ p[i] \in 1..Len(b)
  OBVIOUS
<1> HIDE DEF r
<1>4. \A i, j \in 1..Len(a) : i < j => r[i] < r[j]
  <2> SUFFICES ASSUME NEW i \in 1..Len(a), NEW j \in 1..Len(a), i < j PROVE r[i] < r[j]
    OBVIOUS
  <2>1. p[i] < p[j]
    BY <1>1 DEF Rises
  <2>2. q[p[i]] < q[p[j]]
    BY <1>2, <1>3, <2>1 DEF Rises
  <2> QED BY <1>3, <2>2
<1>5. \A i \in 1..Len(a) : a[i].id = order[r[i]]
  <2> SUFFICES ASSUME NEW i \in 1..Len(a) PROVE a[i].id = order[r[i]]
    OBVIOUS
  <2>1. b[p[i]].id = order[q[p[i]]]
    BY <1>2, <1>3
  <2> QED BY <1>1, <1>3, <2>1
<1>6. Rises(r, Len(a))
  BY <1>4 DEF Rises
<1> QED BY <1>3, <1>5, <1>6 DEF Along

(* ToolSessions picks as Picks does.                                       *)
LEMMA SamePicks == \A seq, set : W!Picked(seq, set) = Picked(seq, set)
BY DEF W!Picked, Picked

LEMMA PlacesPicked ==
    ASSUME NEW E, NEW seq \in Seq(E), NEW set
    PROVE  /\ W!Picked(seq, set) \in Seq(E)
           /\ Len(W!Picked(seq, set)) <= Len(seq)
           /\ \A k \in 1..Len(seq) : seq[k] \notin set => Len(W!Picked(seq, set)) < Len(seq)
           /\ \E place \in [1..Len(W!Picked(seq, set)) -> 1..Len(seq)] :
                 /\ \A i \in 1..Len(W!Picked(seq, set)) :
                       W!Picked(seq, set)[i] = seq[place[i]] /\ seq[place[i]] \in set
                 /\ \A i, j \in 1..Len(W!Picked(seq, set)) : i < j => place[i] < place[j]
                 /\ \A k \in 1..Len(seq) : seq[k] \in set =>
                       \E i \in 1..Len(W!Picked(seq, set)) : place[i] = k
<1> DEFINE out == Picked(seq, set)
<1>1. W!Picked(seq, set) = out
  BY SamePicks
<1>2. /\ out \in Seq(E)
      /\ Len(out) <= Len(seq)
      /\ \A k \in 1..Len(seq) : seq[k] \notin set => Len(out) < Len(seq)
      /\ \E place \in [1..Len(out) -> 1..Len(seq)] :
            /\ \A i \in 1..Len(out) :
                  out[i] = seq[place[i]] /\ seq[place[i]] \in set
            /\ \A i, j \in 1..Len(out) : i < j => place[i] < place[j]
            /\ \A k \in 1..Len(seq) : seq[k] \in set =>
                  \E i \in 1..Len(out) : place[i] = k
  BY PickedPlaces
<1> HIDE DEF out
<1> QED BY <1>1, <1>2

LEMMA ButOnePicked ==
    ASSUME NEW E, NEW seq \in Seq(E), NEW set, NEW one \in 1..Len(seq), seq[one] \notin set,
           \A k \in 1..Len(seq) : k # one => seq[k] \in set
    PROVE  /\ W!Picked(seq, set) \in Seq(E)
           /\ Len(W!Picked(seq, set)) = Len(seq) - 1
           /\ \A i \in 1..(Len(seq) - 1) :
                 W!Picked(seq, set)[i] = IF i < one THEN seq[i] ELSE seq[i + 1]
<1> DEFINE out == Picked(seq, set)
<1>1. W!Picked(seq, set) = out
  BY SamePicks
<1>2. /\ out \in Seq(E)
      /\ Len(out) = Len(seq) - 1
      /\ \A i \in 1..(Len(seq) - 1) :
            out[i] = IF i < one THEN seq[i] ELSE seq[i + 1]
  BY PickedButOne
<1> HIDE DEF out
<1> QED BY <1>1, <1>2

LEMMA PickedPart ==
    ASSUME NEW E, NEW seq \in Seq(E), NEW set
    PROVE  /\ W!Picked(seq, set) \in Seq(E) /\ Part(W!Picked(seq, set), seq)
           /\ Len(W!Picked(seq, set)) <= Len(seq)
           /\ \A i \in 1..Len(W!Picked(seq, set)) : W!Picked(seq, set)[i] \in set
           /\ \A k \in 1..Len(seq) : seq[k] \in set =>
                 \E i \in 1..Len(W!Picked(seq, set)) : W!Picked(seq, set)[i] = seq[k]
<1> DEFINE out == W!Picked(seq, set)
<1>1. /\ out \in Seq(E) /\ Len(out) <= Len(seq)
      /\ \E place \in [1..Len(out) -> 1..Len(seq)] :
            /\ \A i \in 1..Len(out) : out[i] = seq[place[i]] /\ seq[place[i]] \in set
            /\ \A i, j \in 1..Len(out) : i < j => place[i] < place[j]
            /\ \A k \in 1..Len(seq) : seq[k] \in set => \E i \in 1..Len(out) : place[i] = k
  BY PlacesPicked
<1> HIDE DEF out
<1>2. PICK place \in [1..Len(out) -> 1..Len(seq)] :
            /\ \A i \in 1..Len(out) : out[i] = seq[place[i]] /\ seq[place[i]] \in set
            /\ \A i, j \in 1..Len(out) : i < j => place[i] < place[j]
            /\ \A k \in 1..Len(seq) : seq[k] \in set => \E i \in 1..Len(out) : place[i] = k
  BY <1>1
<1>3. Part(out, seq)
  BY <1>2 DEF Part, Rises
<1>4. \A i \in 1..Len(out) : out[i] \in set
  BY <1>2
<1>5. ASSUME NEW k \in 1..Len(seq), seq[k] \in set
      PROVE  \E i \in 1..Len(out) : out[i] = seq[k]
  <2>1. PICK i \in 1..Len(out) : place[i] = k
    BY <1>2, <1>5
  <2> QED BY <1>2, <2>1
<1> QED BY <1>1, <1>3, <1>4, <1>5 DEF out

(* The last of a table.                                                    *)
LEMMA ShrunkPart ==
    ASSUME NEW E, NEW table \in Seq(E), NEW cap \in Nat
    PROVE  /\ W!Shrunk(table, cap) \in Seq(E) /\ Part(W!Shrunk(table, cap), table)
           /\ Len(W!Shrunk(table, cap)) <= cap /\ Len(W!Shrunk(table, cap)) <= Len(table)
           /\ \A k \in 1..Len(table) : Len(table) - k < cap =>
                 \E i \in 1..Len(W!Shrunk(table, cap)) : W!Shrunk(table, cap)[i] = table[k]
<1> DEFINE len == Len(table)
           n == IF len > cap THEN cap ELSE len
           out == SubSeq(table, len - n + 1, len)
<1>1. len \in Nat /\ n \in 0..len /\ n <= cap
  OBVIOUS
<1>2. W!Shrunk(table, cap) = out
  BY DEF W!Shrunk
<1>3. len - n < cap => n = len \/ n = cap
  OBVIOUS
<1>n. n = cap \/ n = len
  OBVIOUS
<1>l. len = Len(table) /\ out = SubSeq(table, len - n + 1, len)
  OBVIOUS
<1> HIDE DEF n, len, out
<1>4. /\ out \in Seq(E) /\ Len(out) = n
      /\ \A i \in 1..n : out[i] = table[len - n + i]
  <2> DEFINE m == len - n + 1
  <2>1. m \in 1..(len + 1) /\ len - m + 1 = n /\ m \in Nat
    BY <1>1
  <2>2. \A i \in 1..n : m + i - 1 = len - n + i
    BY <1>1
  <2>3. \A i \in m..len : i \in 1..Len(table)
    BY <1>1, <1>l, <2>1
  <2>o. out = SubSeq(table, m, len)
    BY <1>l
  <2> HIDE DEF m
  <2>4. /\ out \in Seq(E)
        /\ Len(out) = (IF m <= len THEN len - m + 1 ELSE 0)
        /\ \A i \in 1..(len - m + 1) : out[i] = table[m + i - 1]
    <3>1. m \in Int /\ len \in Int
      BY <1>1, <2>1
    <3>2. \A i \in m..len : table[i] \in E
      BY <2>3
    <3>3. /\ SubSeq(table, m, len) \in Seq(E)
          /\ Len(SubSeq(table, m, len)) = (IF m <= len THEN len - m + 1 ELSE 0)
          /\ \A i \in 1..(len - m + 1) : SubSeq(table, m, len)[i] = table[m + i - 1]
      BY <3>1, <3>2, SubSeqProperties
    <3> QED BY <2>o, <3>3
  <2>5. Len(out) = n
    BY <1>1, <2>1, <2>4
  <2> QED BY <2>1, <2>2, <2>4, <2>5
<1> DEFINE place == [i \in 1..n |-> len - n + i]
<1>5. place \in [1..n -> 1..len] /\ Rises(place, n)
  BY <1>1 DEF Rises
<1>6. \A i \in 1..n : place[i] = len - n + i
  OBVIOUS
<1> HIDE DEF place
<1>7. Part(out, table)
  BY <1>4, <1>5, <1>6, <1>l DEF Part
<1>8. ASSUME NEW k \in 1..len, len - k < cap PROVE \E i \in 1..n : out[i] = table[k]
  <2> DEFINE i == k - (len - n)
  <2>1. i \in 1..n /\ len - n + i = k
    BY <1>1, <1>8, <1>n
  <2> HIDE DEF i
  <2> QED BY <1>4, <2>1
<1>9. Len(out) <= cap /\ Len(out) <= len
  BY <1>1, <1>4
<1>10. \A k \in 1..len : len - k < cap => \E i \in 1..Len(out) : out[i] = table[k]
  BY <1>4, <1>8
<1> QED BY <1>2, <1>4, <1>7, <1>9, <1>10, <1>l

(* Only one entry of a table without doubles has a given id.               *)
LEMMA EntryIs ==
    ASSUME NEW E, NEW table \in Seq(E), Unique(table), NEW k \in 1..Len(table)
    PROVE  W!Entry(table, table[k].id) = table[k] /\ W!Holds(table, table[k].id)
<1>1. table[k] \in W!ToSet(table)
  BY DEF W!ToSet
<1>2. \A e \in W!ToSet(table) : e.id = table[k].id => e = table[k]
  <2> SUFFICES ASSUME NEW e \in W!ToSet(table), e.id = table[k].id PROVE e = table[k]
    OBVIOUS
  <2>1. PICK j \in 1..Len(table) : e = table[j]
    BY DEF W!ToSet
  <2>2. j = k
    BY <2>1 DEF Unique
  <2> QED BY <2>1, <2>2
<1>3. W!Holds(table, table[k].id)
  BY DEF W!Holds
<1> QED BY <1>1, <1>2, <1>3 DEF W!Entry

LEMMA HoldsPlace ==
    ASSUME NEW E, NEW table \in Seq(E), NEW id, W!Holds(table, id)
    PROVE  \E k \in 1..Len(table) : table[k].id = id
BY DEF W!Holds

LEMMA WithoutPart ==
    ASSUME NEW E, NEW table \in Seq(E), NEW id
    PROVE  /\ W!Without(table, id) \in Seq(E) /\ Part(W!Without(table, id), table)
           /\ Len(W!Without(table, id)) <= Len(table)
           /\ (\E k \in 1..Len(table) : table[k].id = id) => Len(W!Without(table, id)) < Len(table)
           /\ \A i \in 1..Len(W!Without(table, id)) : W!Without(table, id)[i].id # id
           /\ \A k \in 1..Len(table) : table[k].id # id =>
                 \E i \in 1..Len(W!Without(table, id)) : W!Without(table, id)[i] = table[k]
<1> DEFINE set == {e \in W!ToSet(table) : e.id # id}
<1>1. W!Without(table, id) = W!Picked(table, set)
  BY DEF W!Without
<1>2. \A k \in 1..Len(table) : (table[k] \in set <=> table[k].id # id)
  BY DEF W!ToSet
<1>3. \A e \in set : e.id # id
  OBVIOUS
<1> HIDE DEF set
<1>4. /\ W!Picked(table, set) \in Seq(E) /\ Part(W!Picked(table, set), table)
      /\ Len(W!Picked(table, set)) <= Len(table)
      /\ \A i \in 1..Len(W!Picked(table, set)) : W!Picked(table, set)[i] \in set
      /\ \A k \in 1..Len(table) : table[k] \in set =>
            \E i \in 1..Len(W!Picked(table, set)) : W!Picked(table, set)[i] = table[k]
  BY PickedPart
<1>5. \A k \in 1..Len(table) : table[k] \notin set => Len(W!Picked(table, set)) < Len(table)
  BY PlacesPicked
<1> QED BY <1>1, <1>2, <1>3, <1>4, <1>5

LEMMA AlivePart ==
    ASSUME NEW E, NEW table \in Seq(E), NEW now
    PROVE  /\ W!Alive(table, now) \in Seq(E) /\ Part(W!Alive(table, now), table)
           /\ Len(W!Alive(table, now)) <= Len(table)
           /\ \A k \in 1..Len(table) : table[k].until > now =>
                 \E i \in 1..Len(W!Alive(table, now)) : W!Alive(table, now)[i] = table[k]
<1> DEFINE set == {e \in W!ToSet(table) : e.until > now}
<1>1. W!Alive(table, now) = W!Picked(table, set)
  BY DEF W!Alive
<1>2. \A k \in 1..Len(table) : table[k].until > now => table[k] \in set
  BY DEF W!ToSet
<1> HIDE DEF set
<1>4. /\ W!Picked(table, set) \in Seq(E) /\ Part(W!Picked(table, set), table)
      /\ Len(W!Picked(table, set)) <= Len(table)
      /\ \A i \in 1..Len(W!Picked(table, set)) : W!Picked(table, set)[i] \in set
      /\ \A k \in 1..Len(table) : table[k] \in set =>
            \E i \in 1..Len(W!Picked(table, set)) : W!Picked(table, set)[i] = table[k]
  BY PickedPart
<1> QED BY <1>1, <1>2, <1>4

LEMMA AppendUnique ==
    ASSUME NEW E, NEW table \in Seq(E), NEW e \in E, Unique(table),
           \A i \in 1..Len(table) : table[i].id # e.id
    PROVE  Unique(Append(table, e))
<1> DEFINE out == Append(table, e)
<1>1. /\ Len(out) = Len(table) + 1 /\ out[Len(table) + 1] = e
      /\ \A i \in 1..Len(table) : out[i] = table[i]
  BY AppendProperties
<1>2. Len(table) \in Nat
  BY LenProperties
<1> HIDE DEF out
<1>3. \A i \in 1..Len(out) : i \in 1..Len(table) \/ i = Len(table) + 1
  BY <1>1, <1>2
<1>4. Unique(out)
  <2> SUFFICES ASSUME NEW i \in 1..Len(out), NEW j \in 1..Len(out), out[i].id = out[j].id
               PROVE  i = j
    BY DEF Unique
  <2>1. CASE i \in 1..Len(table) /\ j \in 1..Len(table)
    BY <1>1, <2>1 DEF Unique
  <2>2. CASE i = Len(table) + 1 /\ j \in 1..Len(table)
    BY <1>1, <2>2
  <2>3. CASE i \in 1..Len(table) /\ j = Len(table) + 1
    BY <1>1, <2>3
  <2> QED BY <1>3, <2>1, <2>2, <2>3
<1> QED BY <1>4 DEF out

(* A table along an order of distinct ids has none twice.                  *)
LEMMA AlongUnique ==
    ASSUME NEW a, NEW order, Len(a) \in Nat, Along(a, order),
           \A i, j \in 1..Len(order) : order[i] = order[j] => i = j
    PROVE  Unique(a)
<1>1. PICK p \in [1..Len(a) -> 1..Len(order)] :
         Rises(p, Len(a)) /\ \A i \in 1..Len(a) : a[i].id = order[p[i]]
  BY DEF Along
<1> SUFFICES ASSUME NEW i \in 1..Len(a), NEW j \in 1..Len(a), a[i].id = a[j].id, i # j
             PROVE  FALSE
  BY DEF Unique
<1>2. p[i] = p[j]
  BY <1>1
<1>3. p[i] < p[j] \/ p[j] < p[i]
  <2>1. i < j \/ j < i
    OBVIOUS
  <2> QED BY <1>1, <2>1 DEF Rises
<1>4. p[i] \in Nat /\ p[j] \in Nat
  OBVIOUS
<1> QED BY <1>2, <1>3, <1>4

LEMMA AlongAppend ==
    ASSUME NEW E, NEW a \in Seq(E), NEW order \in Seq(Nat), NEW e \in E, e.id \in Nat,
           Along(a, order)
    PROVE  Along(Append(a, e), Append(order, e.id))
<1> DEFINE b == Append(a, e)
           o == Append(order, e.id)
           m == Len(a)
           n == Len(order)
<1>0. m = Len(a) /\ n = Len(order) /\ m \in Nat /\ n \in Nat
  BY LenProperties
<1>1. /\ Len(b) = m + 1 /\ b[m + 1] = e
      /\ \A i \in 1..m : b[i] = a[i]
  BY AppendProperties
<1>2. /\ Len(o) = n + 1 /\ o[n + 1] = e.id
      /\ \A i \in 1..n : o[i] = order[i]
  BY AppendProperties
<1> HIDE DEF b, o, m, n
<1>3. PICK p \in [1..m -> 1..n] :
         Rises(p, m) /\ \A i \in 1..m : a[i].id = order[p[i]]
  BY <1>0 DEF Along
<1> DEFINE q == [i \in 1..(m + 1) |-> IF i = m + 1 THEN n + 1 ELSE p[i]]
<1>4. q \in [1..(m + 1) -> 1..(n + 1)]
  <2> SUFFICES ASSUME NEW i \in 1..(m + 1) PROVE (IF i = m + 1 THEN n + 1 ELSE p[i]) \in 1..(n + 1)
    OBVIOUS
  <2>1. CASE i = m + 1
    BY <1>0, <2>1
  <2>2. CASE i # m + 1
    <3>1. i \in 1..m
      BY <1>0, <2>2
    <3>2. p[i] \in 1..n
      BY <3>1
    <3> QED BY <1>0, <2>2, <3>2
  <2> QED BY <2>1, <2>2
<1>5. q[m + 1] = n + 1
  BY <1>0
<1>6. \A i \in 1..m : q[i] = p[i] /\ p[i] \in 1..n
  BY SMTT(30), <1>0
<1>7. \A i \in 1..(m + 1) : i \in 1..m \/ i = m + 1
  BY <1>0
<1> HIDE DEF q
<1>8. \A i, j \in 1..(m + 1) : i < j => q[i] < q[j]
  <2> SUFFICES ASSUME NEW i \in 1..(m + 1), NEW j \in 1..(m + 1), i < j PROVE q[i] < q[j]
    OBVIOUS
  <2>1. i \in 1..m
    BY <1>0
  <2>2. CASE j \in 1..m
    BY <1>3, <1>6, <2>1, <2>2 DEF Rises
  <2>3. CASE j = m + 1
    BY <1>0, <1>5, <1>6, <2>1, <2>3
  <2> QED BY <1>7, <2>2, <2>3
<1>9. \A i \in 1..(m + 1) : b[i].id = o[q[i]]
  <2> SUFFICES ASSUME NEW i \in 1..(m + 1) PROVE b[i].id = o[q[i]]
    OBVIOUS
  <2>1. CASE i \in 1..m
    BY SMTT(30), <1>1, <1>2, <1>3, <1>6, <2>1
  <2>2. CASE i = m + 1
    BY <1>1, <1>2, <1>5, <2>2
  <2> QED BY <1>7, <2>1, <2>2
<1>10. Rises(q, m + 1)
  BY <1>8 DEF Rises
<1>11. /\ q \in [1..Len(b) -> 1..Len(o)] /\ Rises(q, Len(b))
       /\ \A i \in 1..Len(b) : b[i].id = o[q[i]]
  BY <1>1, <1>2, <1>4, <1>9, <1>10
<1>12. Along(b, o)
  BY <1>11 DEF Along
<1> QED BY <1>12 DEF b, o

(* ... and along what is picked from the order, if all its ids are picked. *)
LEMMA AlongPicked ==
    ASSUME NEW E, NEW order \in Seq(E), NEW set, NEW a, Len(a) \in Nat, Along(a, order),
           \A i \in 1..Len(a) : a[i].id \in set
    PROVE  Along(a, W!Picked(order, set))
<1> DEFINE out == W!Picked(order, set)
<1>1. \E place \in [1..Len(out) -> 1..Len(order)] :
            /\ \A i \in 1..Len(out) : out[i] = order[place[i]] /\ order[place[i]] \in set
            /\ \A i, j \in 1..Len(out) : i < j => place[i] < place[j]
            /\ \A k \in 1..Len(order) : order[k] \in set => \E i \in 1..Len(out) : place[i] = k
  BY PlacesPicked
<1> HIDE DEF out
<1>3. PICK q \in [1..Len(out) -> 1..Len(order)] :
            /\ \A i \in 1..Len(out) : out[i] = order[q[i]] /\ order[q[i]] \in set
            /\ \A i, j \in 1..Len(out) : i < j => q[i] < q[j]
            /\ \A k \in 1..Len(order) : order[k] \in set => \E i \in 1..Len(out) : q[i] = k
  BY <1>1
<1>4. PICK p \in [1..Len(a) -> 1..Len(order)] :
         Rises(p, Len(a)) /\ \A i \in 1..Len(a) : a[i].id = order[p[i]]
  BY DEF Along
<1>5. \A i \in 1..Len(a) : \E j \in 1..Len(out) : q[j] = p[i]
  <2> SUFFICES ASSUME NEW i \in 1..Len(a) PROVE \E j \in 1..Len(out) : q[j] = p[i]
    OBVIOUS
  <2>1. p[i] \in 1..Len(order) /\ order[p[i]] \in set
    BY <1>4
  <2> QED BY <1>3, <2>1
<1> DEFINE r == [i \in 1..Len(a) |-> CHOOSE j \in 1..Len(out) : q[j] = p[i]]
<1>6. \A i \in 1..Len(a) : r[i] \in 1..Len(out) /\ q[r[i]] = p[i]
  BY <1>5
<1>7. r \in [1..Len(a) -> 1..Len(out)]
  BY <1>6
<1> HIDE DEF r
<1>8. \A i, j \in 1..Len(a) : i < j => r[i] < r[j]
  <2> SUFFICES ASSUME NEW i \in 1..Len(a), NEW j \in 1..Len(a), i < j PROVE r[i] < r[j]
    OBVIOUS
  <2>1. p[i] < p[j] /\ p[i] \in Nat /\ p[j] \in Nat
    BY SMTT(30), <1>4 DEF Rises
  <2>2. r[i] \in Nat /\ r[j] \in Nat
    BY <1>6
  <2>3. r[j] < r[i] => q[r[j]] < q[r[i]]
    BY <1>3, <1>6
  <2>4. q[r[i]] = p[i] /\ q[r[j]] = p[j]
    BY <1>6
  <2> QED BY <2>1, <2>2, <2>3, <2>4
<1>9. \A i \in 1..Len(a) : a[i].id = out[r[i]]
  BY <1>3, <1>4, <1>6
<1>10. Rises(r, Len(a))
  BY <1>8 DEF Rises
<1>11. Along(a, out)
  BY <1>7, <1>9, <1>10 DEF Along
<1> QED BY <1>11 DEF out

LEMMA AlongWithout ==
    ASSUME NEW a, NEW order \in Seq(Nat), NEW id, Len(a) \in Nat, Along(a, order),
           \A i \in 1..Len(a) : a[i].id # id
    PROVE  Along(a, W!Picked(order, W!ToSet(order) \ {id}))
<1>1. \A i \in 1..Len(a) : a[i].id \in W!ToSet(order) \ {id}
  BY DEF Along, W!ToSet
<1> QED BY <1>1, AlongPicked

(* How far from the end of the order the entries of a table are.           *)
LEMMA AlongDeep ==
    ASSUME NEW a, NEW order \in Seq(Nat), Len(a) \in Nat, Along(a, order), NEW k \in 1..Len(a)
    PROVE  \E i \in 1..Len(order) : a[k].id = order[i] /\ i + (Len(a) - k) <= Len(order)
<1>1. PICK p \in [1..Len(a) -> 1..Len(order)] :
         Rises(p, Len(a)) /\ \A i \in 1..Len(a) : a[i].id = order[p[i]]
  BY DEF Along
<1>2. Len(order) \in Nat
  BY LenProperties
<1>3. \A i, j \in 1..Len(a) : i < j => p[i] < p[j]
  BY <1>1 DEF Rises
<1> HIDE DEF Rises
<1>4. p[k] + (Len(a) - k) <= Len(order)
  BY <1>2, <1>3, Climbs
<1> QED BY <1>1, <1>4

(* The order in which intents were touched.                                *)
LEMMA RenewedOrder ==
    ASSUME NEW order \in Seq(Nat), NEW claims, NEW at \in 1..Len(order), Orderly(order, claims)
    PROVE  LET new == Append(W!Picked(order, W!ToSet(order) \ {order[at]}), order[at])
           IN /\ new \in Seq(Nat) /\ Orderly(new, claims) /\ Len(new) = Len(order)
              /\ new[Len(order)] = order[at]
              /\ \A i \in 1..(Len(order) - 1) : new[i] = order[i] \/ new[i] = order[i + 1]
<1> DEFINE id == order[at]
           set == W!ToSet(order) \ {id}
           rest == W!Picked(order, set)
           new == Append(rest, id)
           n == Len(order)
<1>1. n \in Nat /\ n = Len(order) /\ id \in Nat /\ id = order[at]
  BY LenProperties
<1>2. order[at] \notin set
  OBVIOUS
<1>3. \A k \in 1..Len(order) : k # at => order[k] \in set
  BY DEF Orderly, W!ToSet
<1> HIDE DEF set, rest, new, n, id
<1>4. /\ rest \in Seq(Nat) /\ Len(rest) = Len(order) - 1
      /\ \A i \in 1..(Len(order) - 1) : rest[i] = IF i < at THEN order[i] ELSE order[i + 1]
  <2>1. /\ W!Picked(order, set) \in Seq(Nat) /\ Len(W!Picked(order, set)) = Len(order) - 1
        /\ \A i \in 1..(Len(order) - 1) :
              W!Picked(order, set)[i] = IF i < at THEN order[i] ELSE order[i + 1]
    <3>1. order \in Seq(Nat) /\ at \in 1..Len(order)
      OBVIOUS
    <3> QED BY ONLY ZenonT(40), <1>2, <1>3, <3>1, ButOnePicked
  <2> QED BY <2>1 DEF rest
<1>5. /\ new \in Seq(Nat) /\ Len(new) = n /\ new[n] = id
      /\ \A i \in 1..(n - 1) : new[i] = rest[i]
  <2>1. new \in Seq(Nat)
    BY <1>1, <1>4 DEF new
  <2>2. /\ Len(new) = Len(rest) + 1 /\ new[Len(rest) + 1] = id
        /\ \A i \in 1..Len(rest) : new[i] = rest[i]
    BY <1>1, <1>4, AppendProperties DEF new
  <2>3. Len(rest) + 1 = n /\ Len(rest) = n - 1
    BY <1>1, <1>4
  <2> QED BY <2>1, <2>2, <2>3
<1>6. \A i \in 1..(n - 1) : new[i] = IF i < at THEN order[i] ELSE order[i + 1]
  BY <1>1, <1>4, <1>5
<1>7. at \in 1..n
  BY <1>1
<1> DEFINE old(i) == IF i = n THEN at ELSE IF i < at THEN i ELSE i + 1
<1>8. \A i \in 1..n : old(i) \in 1..n /\ new[i] = order[old(i)]
  <2> SUFFICES ASSUME NEW i \in 1..n PROVE old(i) \in 1..n /\ new[i] = order[old(i)]
    OBVIOUS
  <2>1. CASE i = n
    BY <1>1, <1>5, <1>7, <2>1
  <2>2. CASE i # n /\ i < at
    BY <1>1, <1>6, <1>7, <2>2
  <2>3. CASE i # n /\ ~(i < at)
    BY <1>1, <1>6, <1>7, <2>3
  <2> QED BY <2>1, <2>2, <2>3
<1>9. \A i, j \in 1..n : old(i) = old(j) => i = j
  <2> SUFFICES ASSUME NEW i \in 1..n, NEW j \in 1..n, old(i) = old(j) PROVE i = j
    OBVIOUS
  <2>1. i \in Int /\ j \in Int /\ at \in Int /\ n \in Int
    BY <1>1
  <2>2. i <= n /\ j <= n
    OBVIOUS
  <2> QED BY <2>1, <2>2
<1> HIDE DEF old
<1>10. Orderly(new, claims)
  <2>1. \A i, j \in 1..Len(order) : order[i] = order[j] => i = j
    BY DEF Orderly
  <2>2. \A i \in 1..Len(order) : order[i] \in 1..Len(claims)
    BY DEF Orderly
  <2>3. \A i, j \in 1..n : new[i] = new[j] => i = j
    <3> SUFFICES ASSUME NEW i \in 1..n, NEW j \in 1..n, new[i] = new[j] PROVE i = j
      OBVIOUS
    <3>1. old(i) \in 1..Len(order) /\ old(j) \in 1..Len(order)
      BY <1>1, <1>8
    <3>2. order[old(i)] = order[old(j)]
      BY <1>8
    <3>3. old(i) = old(j)
      BY <2>1, <3>1, <3>2
    <3> QED BY <1>9, <3>3
  <2>4. \A i \in 1..n : new[i] \in 1..Len(claims)
    BY <1>1, <1>8, <2>2
  <2> QED BY <1>5, <2>3, <2>4 DEF Orderly
<1>11. \A i \in 1..(n - 1) : new[i] = order[i] \/ new[i] = order[i + 1]
  BY <1>6
<1>12. new = Append(W!Picked(order, W!ToSet(order) \ {order[at]}), order[at])
  BY DEF new, rest, set, id
<1> QED BY <1>1, <1>5, <1>10, <1>11, <1>12

(* What is over may go.                                                    *)
LEMMA KeptAlive ==
    ASSUME NEW table \in Seq(IntentEntries), NEW order \in Seq(Nat), NEW claims \in Seq(ClaimEntries),
           NEW over \in Nat, NEW now \in Nat, now <= over, Orderly(order, claims),
           Kept(table, order, claims, over), IntentCap \in Nat
    PROVE  W!Alive(table, now) \in Seq(IntentEntries) /\ Kept(W!Alive(table, now), order, claims, over)
<1> DEFINE out == W!Alive(table, now)
<1>1. /\ out \in Seq(IntentEntries) /\ Part(out, table) /\ Len(out) <= Len(table)
      /\ \A k \in 1..Len(table) : table[k].until > now => \E i \in 1..Len(out) : out[i] = table[k]
  BY AlivePart
<1> HIDE DEF out
<1>2. Along(out, order)
  BY <1>1, PartAlong DEF Kept
<1>3. Len(out) <= IntentCap
  <2>1. Len(out) \in Nat /\ Len(table) \in Nat
    BY <1>1, LenProperties
  <2> QED BY <1>1, <2>1 DEF Kept
<1>4. \A i \in 1..Len(out) : EntryTrue(out[i], claims)
  BY <1>1, PartEntries DEF Kept
<1>5. NoneMissed(out, order, claims, over)
  <2> SUFFICES ASSUME NEW i \in 1..Len(order), i + IntentCap > Len(order),
                      ~(claims[order[i]].until <= over)
               PROVE  Entered(out, order[i])
    BY DEF NoneMissed
  <2>1. Entered(table, order[i])
    BY DEF Kept, NoneMissed
  <2>2. PICK k \in 1..Len(table) : table[k].id = order[i]
    BY <2>1 DEF Entered
  <2>3. table[k].until = claims[order[i]].until
    BY <2>2 DEF Kept, EntryTrue
  <2>4. table[k] \in IntentEntries
    BY ElementOfSeq
  <2>5. table[k].until \in Nat
    BY <2>4 DEF IntentEntries
  <2>6. table[k].until > now
    BY <2>3, <2>5
  <2> QED BY <1>1, <2>2, <2>6 DEF Entered
<1>6. Kept(out, order, claims, over)
  BY <1>2, <1>3, <1>4, <1>5 DEF Kept
<1> QED BY <1>1, <1>6 DEF out

(* What is looked up is the last to have been touched, or goes if it is    *)
(* over.                                                                   *)
LEMMA KeptTouched ==
    ASSUME NEW table \in Seq(IntentEntries), NEW order \in Seq(Nat), NEW claims \in Seq(ClaimEntries),
           NEW over \in Nat, Orderly(order, claims), Kept(table, order, claims, over),
           IntentCap \in Nat, NEW k \in 1..Len(table)
    PROVE  LET id == table[k].id
               new == Append(W!Picked(order, W!ToSet(order) \ {id}), id)
               last == Append(W!Without(table, id), table[k])
           IN /\ new \in Seq(Nat) /\ Orderly(new, claims)
              /\ last \in Seq(IntentEntries) /\ Kept(last, new, claims, over)
              /\ W!Without(table, id) \in Seq(IntentEntries)
              /\ table[k].until <= over => Kept(W!Without(table, id), new, claims, over)
<1> DEFINE id == table[k].id
           rest == W!Picked(order, W!ToSet(order) \ {id})
           new == Append(rest, id)
           gone == W!Without(table, id)
           last == Append(gone, table[k])
<1>0. table[k] \in IntentEntries /\ id \in Nat
  <2>1. table[k] \in IntentEntries
    BY ElementOfSeq
  <2> QED BY <2>1 DEF IntentEntries
<1>1. PICK at \in 1..Len(order) : order[at] = id
  BY DEF Kept, Along
<1>2. /\ new \in Seq(Nat) /\ Orderly(new, claims) /\ Len(new) = Len(order)
      /\ new[Len(order)] = id
      /\ \A i \in 1..(Len(order) - 1) : new[i] = order[i] \/ new[i] = order[i + 1]
  BY ZenonT(40), <1>1, RenewedOrder
<1>3. /\ gone \in Seq(IntentEntries) /\ Part(gone, table) /\ Len(gone) < Len(table)
      /\ \A i \in 1..Len(gone) : gone[i].id # id
      /\ \A j \in 1..Len(table) : table[j].id # id => \E i \in 1..Len(gone) : gone[i] = table[j]
  BY SMTT(30), WithoutPart
<1>i. id = table[k].id
  OBVIOUS
<1> HIDE DEF id, gone
<1>n. Len(order) \in Nat /\ Len(gone) \in Nat /\ Len(table) \in Nat
  BY <1>3, LenProperties
<1>4. Along(gone, order)
  BY <1>3, PartAlong DEF Kept
<1>5. Along(gone, rest) /\ rest \in Seq(Nat)
  <2>1. Along(gone, rest)
    BY <1>3, <1>4, <1>n, AlongWithout
  <2>2. rest \in Seq(Nat)
    BY PickedPart
  <2> QED BY <2>1, <2>2
<1> HIDE DEF rest
<1>6. Along(last, new)
  BY <1>0, <1>3, <1>5, <1>i, AlongAppend
<1>7. Along(gone, new)
  <2>1. PICK p \in [1..Len(gone) -> 1..Len(rest)] :
           Rises(p, Len(gone)) /\ \A i \in 1..Len(gone) : gone[i].id = rest[p[i]]
    BY <1>5 DEF Along
  <2>2. /\ Len(new) = Len(rest) + 1 /\ \A i \in 1..Len(rest) : new[i] = rest[i]
    BY <1>0, <1>5, AppendProperties
  <2>3. Len(rest) \in Nat
    BY <1>5, LenProperties
  <2> HIDE DEF new
  <2>4. p \in [1..Len(gone) -> 1..Len(new)]
    <3>1. \A i \in 1..Len(rest) : i \in 1..Len(new)
      BY <2>2, <2>3
    <3> QED BY <3>1
  <2>5. \A i \in 1..Len(gone) : gone[i].id = new[p[i]]
    BY <2>1, <2>2
  <2> QED BY <2>1, <2>4, <2>5 DEF Along
<1>8. /\ last \in Seq(IntentEntries) /\ Len(last) = Len(gone) + 1
      /\ last[Len(gone) + 1] = table[k]
      /\ \A i \in 1..Len(gone) : last[i] = gone[i]
  <2>1. last \in Seq(IntentEntries)
    BY <1>0, <1>3
  <2> QED BY <1>0, <1>3, <2>1, AppendProperties
<1> HIDE DEF new, last
<1>9. Len(last) <= IntentCap /\ Len(gone) <= IntentCap
  BY <1>3, <1>8, <1>n DEF Kept
<1>10. \A i \in 1..Len(gone) : EntryTrue(gone[i], claims)
  BY <1>3, PartEntries DEF Kept
<1>11. \A i \in 1..Len(last) : EntryTrue(last[i], claims)
  <2>1. EntryTrue(table[k], claims)
    BY DEF Kept
  <2>2. \A i \in 1..Len(last) : i \in 1..Len(gone) \/ i = Len(gone) + 1
    BY <1>8, <1>n
  <2> QED BY <1>8, <1>10, <2>1, <2>2
<1>12. ASSUME NEW i \in 1..Len(order), i + IntentCap > Len(order), new[i] # id
       PROVE  Entered(gone, new[i]) \/ claims[new[i]].until <= over
  <2>1. i \in 1..(Len(order) - 1)
    BY <1>2, <1>12, <1>n
  <2>2. PICK j \in 1..Len(order) : new[i] = order[j] /\ (j = i \/ j = i + 1)
    <3>1. i \in 1..Len(order) /\ i + 1 \in 1..Len(order)
      BY <1>n, <2>1
    <3> QED BY <1>2, <2>1, <3>1
  <2>3. j + IntentCap > Len(order)
    BY <1>12, <1>n, <2>2
  <2>4. Entered(table, order[j]) \/ claims[order[j]].until <= over
    BY <2>3 DEF Kept, NoneMissed
  <2>5. Entered(table, order[j]) => Entered(gone, order[j])
    BY <1>3, <1>12, <2>2 DEF Entered
  <2> QED BY <2>2, <2>4, <2>5
<1>13. NoneMissed(last, new, claims, over)
  <2> SUFFICES ASSUME NEW i \in 1..Len(order), i + IntentCap > Len(order)
               PROVE  Entered(last, new[i]) \/ claims[new[i]].until <= over
    BY <1>2 DEF NoneMissed
  <2>1. CASE new[i] = id
    <3>1. Len(last) \in 1..Len(last) /\ last[Len(last)].id = id
      BY <1>8, <1>i, <1>n
    <3> QED BY <2>1, <3>1 DEF Entered
  <2>2. CASE new[i] # id
    <3>0. \A j \in 1..Len(gone) : j \in 1..(Len(gone) + 1)
      BY <1>n
    <3>1. \A j \in 1..Len(gone) : j \in 1..Len(last) /\ last[j] = gone[j]
      BY <1>8, <3>0
    <3>2. Entered(gone, new[i]) => Entered(last, new[i])
      BY <3>1 DEF Entered
    <3> QED BY <1>12, <2>2, <3>2
  <2> QED BY <2>1, <2>2
<1>14. ASSUME table[k].until <= over PROVE NoneMissed(gone, new, claims, over)
  <2>1. claims[id].until <= over
    BY <1>14, <1>i DEF Kept, EntryTrue
  <2> QED BY <1>2, <1>12, <2>1 DEF NoneMissed
<1>15. Kept(last, new, claims, over)
  BY <1>6, <1>9, <1>11, <1>13 DEF Kept
<1>16. table[k].until <= over => Kept(gone, new, claims, over)
  BY <1>7, <1>9, <1>10, <1>14 DEF Kept
<1>17. /\ new = Append(W!Picked(order, W!ToSet(order) \ {table[k].id}), table[k].id)
       /\ last = Append(W!Without(table, table[k].id), table[k]) /\ gone = W!Without(table, table[k].id)
  BY DEF new, last, gone, rest, id
<1> QED BY <1>2, <1>3, <1>8, <1>15, <1>16, <1>17

(* A report changes the last entry and what is told of it.                 *)
LEMMA KeptReported ==
    ASSUME NEW table \in Seq(IntentEntries), NEW order \in Seq(Nat), NEW claims \in Seq(ClaimEntries),
           NEW over \in Nat, Orderly(order, claims), Kept(table, order, claims, over),
           IntentCap \in Nat, NEW n \in 1..Len(table), n = Len(table), NEW state \in Verdicts,
           NEW id, id = table[n].id
    PROVE  LET told == [claims EXCEPT ![id].state = state]
               out == [table EXCEPT ![n].state = state]
           IN /\ told \in Seq(ClaimEntries) /\ out \in Seq(IntentEntries)
              /\ Orderly(order, told) /\ Kept(out, order, told, over)
<1> DEFINE told == [claims EXCEPT ![id].state = state]
           out == [table EXCEPT ![n].state = state]
<1>1. table[n] \in IntentEntries
  BY ElementOfSeq
<1>2. out \in Seq(IntentEntries) /\ Len(out) = Len(table)
      /\ \A i \in 1..Len(table) : out[i] = IF i = n THEN [table[n] EXCEPT !.state = state] ELSE table[i]
  <2>1. out = [table EXCEPT ![n] = [table[n] EXCEPT !.state = state]]
    OBVIOUS
  <2>2. [table[n] EXCEPT !.state = state] \in IntentEntries
    BY <1>1 DEF IntentEntries
  <2> HIDE DEF out
  <2> QED BY <2>1, <2>2, ExceptSeq
<1>3. PICK at \in 1..Len(order) : order[at] = id
  BY DEF Kept, Along
<1>4. id \in 1..Len(claims)
  BY <1>3 DEF Orderly
<1>5. claims[id] \in ClaimEntries
  BY <1>4, ElementOfSeq
<1>6. told \in Seq(ClaimEntries) /\ Len(told) = Len(claims)
      /\ \A i \in 1..Len(claims) : told[i] = IF i = id THEN [claims[id] EXCEPT !.state = state] ELSE claims[i]
  <2>1. told = [claims EXCEPT ![id] = [claims[id] EXCEPT !.state = state]]
    OBVIOUS
  <2>2. [claims[id] EXCEPT !.state = state] \in ClaimEntries
    BY <1>5 DEF ClaimEntries
  <2> HIDE DEF told
  <2> QED BY <1>4, <2>1, <2>2, ExceptSeq
<1> HIDE DEF told, out
<1>7. Orderly(order, told)
  BY <1>6 DEF Orderly
<1>8. \A i \in 1..Len(table) : out[i].id = table[i].id /\ out[i].until = table[i].until
  <2> SUFFICES ASSUME NEW i \in 1..Len(table)
               PROVE  out[i].id = table[i].id /\ out[i].until = table[i].until
    OBVIOUS
  <2> QED BY <1>1, <1>2 DEF IntentEntries
<1>9. \A i \in 1..Len(claims) : told[i].until = claims[i].until
  <2> SUFFICES ASSUME NEW i \in 1..Len(claims) PROVE told[i].until = claims[i].until
    OBVIOUS
  <2> QED BY <1>5, <1>6 DEF ClaimEntries
<1>10. Along(out, order)
  <2>1. PICK p \in [1..Len(table) -> 1..Len(order)] :
         Rises(p, Len(table)) /\ \A i \in 1..Len(table) : table[i].id = order[p[i]]
    BY DEF Kept, Along
  <2>2. p \in [1..Len(out) -> 1..Len(order)] /\ Rises(p, Len(out))
        /\ \A i \in 1..Len(out) : out[i].id = order[p[i]]
    BY <1>2, <1>8, <2>1
  <2> QED BY <2>2 DEF Along
<1>11. Unique(table)
  <2>1. Len(table) \in Nat
    BY LenProperties
  <2> QED BY <2>1, AlongUnique DEF Kept, Orderly
<1>12. \A i \in 1..Len(out) : EntryTrue(out[i], told)
  <2> SUFFICES ASSUME NEW i \in 1..Len(table) PROVE EntryTrue(out[i], told)
    BY <1>2
  <2>1. EntryTrue(table[i], claims)
    BY DEF Kept
  <2>2. table[i].id \in 1..Len(claims)
    BY DEF Kept, Along, Orderly
  <2>3. out[i].until = told[out[i].id].until
    BY <1>8, <1>9, <2>1, <2>2 DEF EntryTrue
  <2>4. CASE i = n
    <3>1. out[i].state = state
      BY <1>1, <1>2, <2>4 DEF IntentEntries
    <3>2. told[id].state = state
      BY <1>4, <1>5, <1>6 DEF ClaimEntries
    <3> QED BY <1>8, <2>3, <2>4, <3>1, <3>2 DEF EntryTrue
  <2>5. CASE i # n
    <3>1. table[i].id # id
      BY <1>11, <2>5 DEF Unique
    <3>2. out[i] = table[i] /\ told[table[i].id] = claims[table[i].id]
      BY <1>2, <1>6, <2>2, <2>5, <3>1
    <3> QED BY <2>1, <3>2 DEF EntryTrue
  <2> QED BY <2>4, <2>5
<1>13. NoneMissed(out, order, told, over)
  <2> SUFFICES ASSUME NEW i \in 1..Len(order), i + IntentCap > Len(order)
               PROVE  Entered(out, order[i]) \/ told[order[i]].until <= over
    BY DEF NoneMissed
  <2>1. Entered(table, order[i]) \/ claims[order[i]].until <= over
    BY DEF Kept, NoneMissed
  <2>2. Entered(table, order[i]) => Entered(out, order[i])
    BY <1>2, <1>8 DEF Entered
  <2>3. told[order[i]].until = claims[order[i]].until
    BY <1>9 DEF Orderly
  <2> QED BY <2>1, <2>2, <2>3
<1>14. Kept(out, order, told, over)
  BY <1>2, <1>10, <1>12, <1>13 DEF Kept
<1> QED BY <1>2, <1>6, <1>7, <1>14 DEF told, out

(* A new intent is the last of the order; the table keeps its last ones.   *)
LEMMA KeptEntered ==
    ASSUME NEW table \in Seq(IntentEntries), NEW order \in Seq(Nat), NEW claims \in Seq(ClaimEntries),
           NEW over \in Nat, Orderly(order, claims), Kept(table, order, claims, over),
           IntentCap \in Nat, NEW until \in Nat, NEW id, id = Len(claims) + 1
    PROVE  LET e == [id |-> id, state |-> "pending", until |-> until]
               told == Append(claims, [state |-> "pending", until |-> until])
               new == Append(order, id)
               out == W!Put(table, e, IntentCap)
           IN /\ told \in Seq(ClaimEntries) /\ new \in Seq(Nat) /\ out \in Seq(IntentEntries)
              /\ Orderly(new, told) /\ Kept(out, new, told, over)
<1> DEFINE e == [id |-> id, state |-> "pending", until |-> until]
           c == [state |-> "pending", until |-> until]
           told == Append(claims, c)
           new == Append(order, id)
           gone == W!Without(table, id)
           all == Append(gone, e)
           out == W!Shrunk(all, IntentCap)
<1>0. Len(claims) \in Nat /\ Len(order) \in Nat /\ Len(table) \in Nat
  BY LenProperties
<1>1. id \in Nat /\ e \in IntentEntries /\ c \in ClaimEntries
  BY <1>0 DEF IntentEntries, ClaimEntries, Verdicts
<1>e. e.id = id /\ e.state = "pending" /\ e.until = until
      /\ c.state = "pending" /\ c.until = until
  OBVIOUS
<1> HIDE DEF e, c
<1>2. /\ told \in Seq(ClaimEntries) /\ Len(told) = Len(claims) + 1 /\ told[id] = c
      /\ \A i \in 1..Len(claims) : told[i] = claims[i]
  <2>1. told \in Seq(ClaimEntries)
    BY <1>1
  <2> QED BY <1>1, <2>1, AppendProperties
<1>3. /\ new \in Seq(Nat) /\ Len(new) = Len(order) + 1 /\ new[Len(order) + 1] = id
      /\ \A i \in 1..Len(order) : new[i] = order[i]
  <2>1. new \in Seq(Nat)
    BY <1>1
  <2> QED BY <1>1, <2>1, AppendProperties
<1>4. /\ gone \in Seq(IntentEntries) /\ Part(gone, table)
      /\ \A k \in 1..Len(table) : table[k].id # id => \E i \in 1..Len(gone) : gone[i] = table[k]
  BY WithoutPart
<1> HIDE DEF gone
<1>5. Along(gone, order)
  BY <1>4, PartAlong DEF Kept
<1>6. Along(all, new)
  BY <1>1, <1>4, <1>5, <1>e, AlongAppend
<1>7. /\ all \in Seq(IntentEntries) /\ Len(all) = Len(gone) + 1 /\ all[Len(gone) + 1] = e
      /\ \A i \in 1..Len(gone) : all[i] = gone[i]
  <2>1. all \in Seq(IntentEntries)
    BY <1>1, <1>4
  <2> QED BY <1>1, <1>4, <2>1, AppendProperties
<1>n. Len(all) \in Nat /\ Len(gone) \in Nat
  BY <1>4, <1>7, LenProperties
<1> HIDE DEF told, new, all
<1>8. /\ out \in Seq(IntentEntries) /\ Part(out, all) /\ Len(out) <= IntentCap
      /\ \A k \in 1..Len(all) : Len(all) - k < IntentCap => \E i \in 1..Len(out) : out[i] = all[k]
  BY <1>7, ShrunkPart
<1> HIDE DEF out
<1>9. Along(out, new)
  BY <1>6, <1>8, PartAlong
<1>10. Orderly(new, told)
  <2>1. \A i \in 1..Len(new) : i \in 1..Len(order) \/ i = Len(order) + 1
    BY <1>0, <1>3
  <2>2. \A i \in 1..Len(order) : new[i] \in 1..Len(claims) /\ new[i] # id
    <3> SUFFICES ASSUME NEW i \in 1..Len(order) PROVE new[i] \in 1..Len(claims) /\ new[i] # id
      OBVIOUS
    <3>1. order[i] \in 1..Len(claims)
      BY DEF Orderly
    <3> QED BY <1>0, <1>3, <3>1
  <2>3. \A i \in 1..Len(new) : new[i] \in 1..Len(told)
    BY <1>0, <1>2, <1>3, <2>1, <2>2
  <2>4. \A i, j \in 1..Len(new) : new[i] = new[j] => i = j
    <3> SUFFICES ASSUME NEW i \in 1..Len(new), NEW j \in 1..Len(new), new[i] = new[j] PROVE i = j
      OBVIOUS
    <3>1. CASE i \in 1..Len(order) /\ j \in 1..Len(order)
      BY <1>3, <3>1 DEF Orderly
    <3>2. CASE i = Len(order) + 1 /\ j \in 1..Len(order)
      BY <1>3, <2>2, <3>2
    <3>3. CASE i \in 1..Len(order) /\ j = Len(order) + 1
      BY <1>3, <2>2, <3>3
    <3> QED BY <2>1, <3>1, <3>2, <3>3
  <2> QED BY <2>3, <2>4 DEF Orderly
<1>11. \A i \in 1..Len(all) : EntryTrue(all[i], told)
  <2> SUFFICES ASSUME NEW i \in 1..Len(all) PROVE EntryTrue(all[i], told)
    OBVIOUS
  <2>1. CASE i \in 1..Len(gone)
    <3>0. \E k \in 1..Len(table) : gone[i] = table[k]
      BY <1>4, <2>1, PartEntries
    <3>1. PICK k \in 1..Len(table) : all[i] = table[k]
      BY <1>7, <2>1, <3>0
    <3>2. table[k].id \in 1..Len(claims)
      BY DEF Kept, Along, Orderly
    <3>3. EntryTrue(table[k], claims)
      BY DEF Kept
    <3> QED BY <1>2, <3>1, <3>2, <3>3 DEF EntryTrue
  <2>2. CASE i = Len(gone) + 1
    BY <1>2, <1>7, <1>e, <2>2 DEF EntryTrue
  <2>3. i \in 1..Len(gone) \/ i = Len(gone) + 1
    BY <1>7, <1>n
  <2> QED BY <2>1, <2>2, <2>3
<1>12. \A i \in 1..Len(out) : EntryTrue(out[i], told)
  <2> SUFFICES ASSUME NEW i \in 1..Len(out) PROVE EntryTrue(out[i], told)
    OBVIOUS
  <2>1. PICK k \in 1..Len(all) : out[i] = all[k]
    BY <1>8, PartEntries
  <2> QED BY <1>11, <2>1
<1>13. ASSUME NEW k \in 1..Len(all), NEW i \in 1..Len(new), new[i] = all[k].id,
              i + IntentCap > Len(new)
       PROVE  Entered(out, new[i])
  <2>1. PICK j \in 1..Len(new) : all[k].id = new[j] /\ j + (Len(all) - k) <= Len(new)
    BY <1>3, <1>6, <1>n, AlongDeep
  <2>2. j = i
    BY <1>10, <1>13, <2>1 DEF Orderly
  <2>3. Len(new) \in Nat
    BY <1>0, <1>3
  <2>4. Len(all) - k < IntentCap
    BY <1>13, <1>n, <2>1, <2>2, <2>3
  <2>5. PICK m \in 1..Len(out) : out[m] = all[k]
    BY <1>8, <2>4
  <2> QED BY <1>13, <2>5 DEF Entered
<1>14. NoneMissed(out, new, told, over)
  <2> SUFFICES ASSUME NEW i \in 1..Len(new), i + IntentCap > Len(new)
               PROVE  Entered(out, new[i]) \/ told[new[i]].until <= over
    BY DEF NoneMissed
  <2>1. CASE i = Len(order) + 1
    <3>1. Len(gone) + 1 \in 1..Len(all) /\ all[Len(gone) + 1].id = new[i]
      BY <1>3, <1>7, <1>e, <1>n, <2>1
    <3> QED BY <1>13, <3>1
  <2>2. CASE i \in 1..Len(order)
    <3>1. i + IntentCap > Len(order) /\ new[i] = order[i]
      BY <1>0, <1>3, <2>2
    <3>2. Entered(table, order[i]) \/ claims[order[i]].until <= over
      BY <2>2, <3>1 DEF Kept, NoneMissed
    <3>3. order[i] \in 1..Len(claims)
      BY <2>2 DEF Orderly
    <3>4. CASE claims[order[i]].until <= over
      BY <1>2, <3>1, <3>3, <3>4
    <3>5. CASE Entered(table, order[i])
      <4>1. PICK k \in 1..Len(table) : table[k].id = order[i]
        BY <3>5 DEF Entered
      <4>2. table[k].id # id
        BY <1>0, <3>3, <4>1
      <4>3. PICK j \in 1..Len(gone) : gone[j] = table[k]
        BY <1>4, <4>2
      <4>4. j \in 1..Len(all) /\ all[j].id = new[i]
        BY <1>7, <1>n, <3>1, <4>1, <4>3
      <4> QED BY <1>13, <4>4
    <3> QED BY <3>2, <3>4, <3>5
  <2> QED BY <1>0, <1>3, <2>1, <2>2
<1>15. Kept(out, new, told, over)
  BY <1>8, <1>9, <1>12, <1>14 DEF Kept
<1>16. W!Put(table, e, IntentCap) = out
  BY <1>e DEF W!Put, out, all, gone
<1> QED BY <1>2, <1>3, <1>8, <1>10, <1>15, <1>16 DEF told, new, e, c

------------------------------------------------------------------------------
(* Steps.                                                                  *)
LEMMA FreeIs == SessionAssumption => W!Free \in ToolCalls /\ W!Free.now = 0 /\ W!Free.at = "idle"
<1> SUFFICES ASSUME SessionAssumption PROVE W!Free \in ToolCalls /\ W!Free.now = 0 /\ W!Free.at = "idle"
  OBVIOUS
<1>1. (CHOOSE l \in Limits : TRUE) \in Limits
  BY DEF SessionAssumption
<1>2. <<>> \in Seq(Nat)
  BY EmptySeq
<1> QED BY <1>1, <1>2 DEF W!Free, ToolCalls, ToolStages

(* The step of a tool that leaves the cursors alone.                       *)
LEMMA CallGoes ==
    ASSUME SessTyped, CursorsTrue, NEW t \in Tools, NEW next \in ToolCalls, W!Turns(t, next),
           hours' = hours, next.now <= hours, W!CursorsRest,
           next.at \in {"date", "put"} =>
              Making(t) /\ next.scan = turn[t].scan /\ next.rows = turn[t].rows
    PROVE  /\ CursorsTrue' /\ turn' \in [Tools -> ToolCalls]
           /\ \A u \in Tools : turn'[u].now <= hours'
<1>1. turn' = [turn EXCEPT ![t] = next] /\ turn \in [Tools -> ToolCalls]
  BY DEF W!Turns, SessTyped
<1>2. turn' \in [Tools -> ToolCalls]
  BY <1>1
<1>3. turn'[t] = next /\ \A u \in Tools : u # t => turn'[u] = turn[u]
  BY <1>1
<1>4. \A u \in Tools : turn'[u].now <= hours'
  BY <1>3 DEF SessTyped
<1>5. cursors' = cursors /\ scans' = scans /\ served' = served
  BY DEF W!CursorsRest
<1>6. \A u \in Tools : (Making(u))' =>
         Making(u) /\ turn'[u].scan = turn[u].scan /\ turn'[u].rows = turn[u].rows
  BY <1>3 DEF Making
<1>7. \A u \in Tools : (Making(u))' => NotYet(turn'[u], cursors, scans, served)
  BY <1>6 DEF NotYet, CursorsTrue
<1>8. \A u, v \in Tools : (Making(u))' /\ (Making(v))' /\ turn'[v].scan = turn'[u].scan => v = u
  BY <1>6 DEF CursorsTrue
<1>9. Paged(cursors, scans, served) /\ Scanned(scans, served)
  BY DEF CursorsTrue
<1>10. CursorsTrue'
  BY <1>5, <1>7, <1>8, <1>9 DEF CursorsTrue
<1> QED BY <1>2, <1>4, <1>10

LEMMA IntentsStay ==
    ASSUME IntentsTrue, SessTyped, W!IntentsRest, hours <= hours', hours' \in Nat, IntentCap \in Nat
    PROVE  IntentsTrue'
<1>1. intents' = intents /\ recency' = recency /\ claimed' = claimed
  BY DEF W!IntentsRest
<1>2. Orderly(recency, claimed) /\ Kept(intents, recency, claimed, hours)
  BY DEF IntentsTrue
<1>3. NoneMissed(intents, recency, claimed, hours')
  <2> SUFFICES ASSUME NEW i \in 1..Len(recency), i + IntentCap > Len(recency)
               PROVE  Entered(intents, recency[i]) \/ claimed[recency[i]].until <= hours'
    BY DEF NoneMissed
  <2>1. Entered(intents, recency[i]) \/ claimed[recency[i]].until <= hours
    BY <1>2 DEF Kept, NoneMissed
  <2>2. recency[i] \in 1..Len(claimed)
    BY <1>2 DEF Orderly
  <2>3. claimed[recency[i]] \in ClaimEntries
    BY <2>2, ElementOfSeq DEF SessTyped
  <2>4. claimed[recency[i]].until \in Nat /\ hours \in Nat
    BY <2>3 DEF ClaimEntries, SessTyped
  <2> QED BY <2>1, <2>4
<1>4. Kept(intents, recency, claimed, hours')
  BY <1>2, <1>3 DEF Kept
<1> QED BY <1>1, <1>2, <1>4 DEF IntentsTrue

(* The types of what a step of a tool leaves.                              *)
SessData ==
    /\ cursors \in Seq(CursorEntries) /\ intents \in Seq(IntentEntries)
    /\ scans \in Seq(ScanEntries) /\ served \in Seq(Seq(Nat)) /\ Len(served) = Len(scans)
    /\ recency \in Seq(Nat) /\ claimed \in Seq(ClaimEntries)

LEMMA SessDataStays ==
    ASSUME SessTyped, W!CursorsRest, W!IntentsRest
    PROVE  SessData'
BY DEF SessTyped, SessData, W!CursorsRest, W!IntentsRest

LEMMA TypedAgain ==
    ASSUME SessTyped, SessData', turn' \in [Tools -> ToolCalls],
           \A u \in Tools : turn'[u].now <= hours', begun' \in 0..MaxWork,
           hours' = hours, limits' = limits
    PROVE  SessTyped'
BY DEF SessTyped, SessData

(* A call begins, is dated, or only waits on: neither table changes.       *)
LEMMA QuietStep ==
    ASSUME SessInv, SessionAssumption, NEW t \in Tools, NEW next \in ToolCalls, W!Turns(t, next),
           next.now <= hours, hours' = hours, limits' = limits, begun' \in 0..MaxWork,
           W!CursorsRest, W!IntentsRest,
           next.at \in {"date", "put"} =>
              Making(t) /\ next.scan = turn[t].scan /\ next.rows = turn[t].rows
    PROVE  SessInv'
<1>1. SessTyped /\ CursorsTrue /\ IntentsTrue
  BY DEF SessInv
<1>2. /\ CursorsTrue' /\ turn' \in [Tools -> ToolCalls]
      /\ \A u \in Tools : turn'[u].now <= hours'
  BY <1>1, CallGoes
<1>3. hours \in Nat /\ IntentCap \in Nat
  BY <1>1 DEF SessTyped, SessionAssumption
<1>4. IntentsTrue'
  BY <1>1, <1>3, IntentsStay
<1>5. SessData'
  BY <1>1, SessDataStays
<1>6. SessTyped'
  BY <1>1, <1>2, <1>5, TypedAgain
<1> QED BY <1>2, <1>4, <1>6 DEF SessInv

LEMMA BeginsQuietly ==
    ASSUME SessInv, SessionAssumption, NEW t \in Tools, NEW next \in ToolCalls,
           next.now = 0, next.at \notin {"date", "put"}, W!Begin(t, next),
           hours' = hours, limits' = limits, W!CursorsRest, W!IntentsRest
    PROVE  SessInv'
<1>1. begun' \in 0..MaxWork /\ hours \in Nat
  BY DEF SessInv, SessTyped, W!Begin, SessionAssumption
<1> QED BY <1>1, QuietStep DEF W!Begin

LEMMA QuietSteps ==
    ASSUME SessInv, SessionAssumption, NEW t \in Tools
    PROVE  /\ W!Scans(t) => SessInv'
           /\ W!Pages(t) => SessInv'
           /\ W!Intends(t) => SessInv'
           /\ W!Asks(t) => SessInv'
           /\ W!Dates(t, "date", "put") => SessInv'
           /\ W!Dates(t, "ask", "page") => SessInv'
           /\ W!Dates(t, "intend", "register") => SessInv'
           /\ W!Dates(t, "wait", "poll") => SessInv'
           /\ W!Dates(t, "look", "glance") => SessInv'
<1>1. W!Free \in ToolCalls /\ W!Free.now = 0 /\ W!Free.at = "idle"
  BY FreeIs
<1>2. SessTyped /\ turn[t] \in ToolCalls /\ hours \in Nat
  BY DEF SessInv, SessTyped
<1>3. ASSUME W!Scans(t) PROVE SessInv'
  <2> DEFINE next == [W!Free EXCEPT !.at = "list"]
  <2>1. next \in ToolCalls /\ next.now = 0 /\ next.at = "list"
    BY <1>1 DEF ToolCalls, ToolStages
  <2>2. W!Begin(t, next) /\ W!CursorsRest /\ W!IntentsRest /\ hours' = hours /\ limits' = limits
    BY <1>3 DEF W!Scans
  <2> HIDE DEF next
  <2> QED BY <2>1, <2>2, BeginsQuietly
<1>4. ASSUME W!Intends(t) PROVE SessInv'
  <2> DEFINE next == [W!Free EXCEPT !.at = "intend"]
  <2>1. next \in ToolCalls /\ next.now = 0 /\ next.at = "intend"
    BY <1>1 DEF ToolCalls, ToolStages
  <2>2. W!Begin(t, next) /\ W!CursorsRest /\ W!IntentsRest /\ hours' = hours /\ limits' = limits
    BY <1>4 DEF W!Intends
  <2> HIDE DEF next
  <2> QED BY <2>1, <2>2, BeginsQuietly
<1>5. ASSUME W!Asks(t) PROVE SessInv'
  <2>1. PICK id \in DOMAIN claimed : W!Begin(t, [W!Free EXCEPT !.at = "look", !.id = id])
    BY <1>5 DEF W!Asks
  <2> DEFINE next == [W!Free EXCEPT !.at = "look", !.id = id]
  <2>i. id \in Nat
    BY <1>2 DEF SessTyped
  <2>2. next \in ToolCalls /\ next.now = 0 /\ next.at = "look"
    BY <1>1, <2>i DEF ToolCalls, ToolStages
  <2>3. W!Begin(t, next) /\ W!CursorsRest /\ W!IntentsRest /\ hours' = hours /\ limits' = limits
    BY <1>5, <2>1 DEF W!Asks
  <2> HIDE DEF next
  <2> QED BY <2>2, <2>3, BeginsQuietly
<1>6. ASSUME W!Pages(t) PROVE SessInv'
  <2>1. PICK id \in DOMAIN scans, n \in PageSizes, from \in {W!NoOffset} \cup {o + 1 : o \in Offsets} :
           W!Begin(t, [W!Free EXCEPT !.at = "ask", !.id = id, !.size = n, !.offset = from])
    BY <1>6 DEF W!Pages
  <2> DEFINE next == [W!Free EXCEPT !.at = "ask", !.id = id, !.size = n, !.offset = from]
  <2>i. id \in Nat /\ n \in Nat /\ from \in Nat
    <3>1. id \in Nat
      BY <1>2 DEF SessTyped
    <3>2. n \in Nat /\ Offsets \subseteq Nat
      BY DEF SessionAssumption
    <3>3. from = 0 \/ \E o \in Offsets : from = o + 1
      BY DEF W!NoOffset
    <3> QED BY <3>1, <3>2, <3>3
  <2>2. next \in ToolCalls /\ next.now = 0 /\ next.at = "ask"
    BY <1>1, <2>i DEF ToolCalls, ToolStages
  <2>3. W!Begin(t, next) /\ W!CursorsRest /\ W!IntentsRest /\ hours' = hours /\ limits' = limits
    BY <1>6, <2>1 DEF W!Pages
  <2> HIDE DEF next
  <2> QED BY <2>2, <2>3, BeginsQuietly
<1>7. ASSUME NEW from, NEW to \in ToolStages, W!Dates(t, from, to),
             to \in {"date", "put"} => from = "date"
      PROVE  SessInv'
  <2> DEFINE next == [turn[t] EXCEPT !.at = to, !.now = hours]
  <2>1. next \in ToolCalls /\ next.now = hours /\ next.at = to
        /\ next.scan = turn[t].scan /\ next.rows = turn[t].rows
    BY <1>2 DEF ToolCalls
  <2>2. W!Turns(t, next) /\ turn[t].at = from
    BY <1>7 DEF W!Dates, W!At
  <2>3. W!CursorsRest /\ W!IntentsRest /\ hours' = hours /\ limits' = limits /\ begun' = begun
    BY <1>7 DEF W!Dates, W!Steady
  <2>4. to \in {"date", "put"} => Making(t)
    BY <1>7, <2>2 DEF Making
  <2>5. begun' \in 0..MaxWork /\ next.now <= hours
    BY <1>2, <2>1, <2>3 DEF SessTyped
  <2> HIDE DEF next
  <2> QED BY <2>1, <2>2, <2>3, <2>4, <2>5, QuietStep
<1>8. /\ W!Dates(t, "date", "put") => SessInv'
      /\ W!Dates(t, "ask", "page") => SessInv'
      /\ W!Dates(t, "intend", "register") => SessInv'
      /\ W!Dates(t, "wait", "poll") => SessInv'
      /\ W!Dates(t, "look", "glance") => SessInv'
  <2>1. {"put", "page", "register", "poll", "glance"} \subseteq ToolStages
    BY DEF ToolStages
  <2> QED BY <1>7, <2>1
<1> QED BY <1>3, <1>4, <1>5, <1>6, <1>8

(* The settings change, or time goes on.                                   *)
LEMMA OutsideSteps ==
    ASSUME SessInv, SessionAssumption
    PROVE  (W!Retunes => SessInv') /\ (W!TimeGoes => SessInv')
<1>1. SessTyped /\ CursorsTrue /\ IntentsTrue /\ hours \in Nat /\ IntentCap \in Nat
  BY DEF SessInv, SessTyped, SessionAssumption
<1>2. ASSUME turn' = turn, begun' = begun, W!CursorsRest, W!IntentsRest, limits' \in Limits,
             hours' \in 0..MaxHours, hours <= hours'
      PROVE  SessInv'
  <2>1. CursorsTrue'
    BY <1>1, <1>2 DEF CursorsTrue, W!CursorsRest, Making
  <2>2. IntentsTrue'
    BY <1>1, <1>2, IntentsStay
  <2>3. SessData'
    BY <1>1, <1>2, SessDataStays
  <2>4. \A t \in Tools : turn[t].now <= hours'
    <3> SUFFICES ASSUME NEW t \in Tools PROVE turn[t].now <= hours'
      OBVIOUS
    <3>1. turn[t].now <= hours /\ turn[t] \in ToolCalls
      BY <1>1 DEF SessTyped
    <3>2. turn[t].now \in Nat
      BY <3>1 DEF ToolCalls
    <3> QED BY <1>1, <1>2, <3>1, <3>2
  <2>5. SessTyped'
    BY <1>1, <1>2, <2>3, <2>4 DEF SessTyped, SessData
  <2> QED BY <2>1, <2>2, <2>5 DEF SessInv
<1>3. W!Retunes => SessInv'
  BY <1>1, <1>2 DEF W!Retunes, SessTyped
<1>4. W!TimeGoes => SessInv'
  <2> SUFFICES ASSUME W!TimeGoes PROVE SessInv'
    OBVIOUS
  <2>1. hours' \in 0..MaxHours /\ hours <= hours'
    BY <1>1 DEF W!TimeGoes, SessTyped, SessionAssumption
  <2> QED BY <1>1, <1>2, <2>1 DEF W!TimeGoes, SessTyped
<1> QED BY <1>3, <1>4

(* An intent is looked up, by a call or by a report.                       *)
LEMMA IntentsUnique ==
    ASSUME IntentsTrue, SessTyped
    PROVE  Unique(intents)
<1>1. Len(intents) \in Nat
  BY LenProperties DEF SessTyped
<1> QED BY <1>1, AlongUnique DEF IntentsTrue, Kept, Orderly

LEMMA LooksKeeps ==
    ASSUME SessTyped, IntentsTrue, IntentCap \in Nat, NEW id, NEW now, now <= hours, now \in Nat,
           W!Looks(id, now), claimed' = claimed, hours' = hours
    PROVE  IntentsTrue' /\ intents' \in Seq(IntentEntries) /\ recency' \in Seq(Nat)
<1>0. /\ intents \in Seq(IntentEntries) /\ recency \in Seq(Nat) /\ claimed \in Seq(ClaimEntries)
      /\ hours \in Nat
  BY DEF SessTyped
<1>1. CASE ~W!Holds(intents, id)
  <2>1. intents' = intents /\ recency' = recency
    BY <1>1 DEF W!Looks
  <2> QED BY <1>0, <2>1 DEF IntentsTrue
<1>2. CASE W!Holds(intents, id)
  <2>1. PICK k \in 1..Len(intents) : intents[k].id = id
    BY <1>0, <1>2, HoldsPlace
  <2>2. W!Entry(intents, id) = intents[k]
    BY <1>0, <2>1, IntentsUnique, EntryIs
  <2> DEFINE new == Append(W!Picked(recency, W!ToSet(recency) \ {id}), id)
             gone == W!Without(intents, id)
             last == Append(gone, intents[k])
  <2>3. /\ new \in Seq(Nat) /\ Orderly(new, claimed)
        /\ last \in Seq(IntentEntries) /\ Kept(last, new, claimed, hours)
        /\ gone \in Seq(IntentEntries)
        /\ intents[k].until <= hours => Kept(gone, new, claimed, hours)
    <3>1. Orderly(recency, claimed) /\ Kept(intents, recency, claimed, hours)
      BY DEF IntentsTrue
    <3> QED BY <1>0, <2>1, <3>1, KeptTouched
  <2>4. recency' = new
    BY <1>2 DEF W!Looks, W!Renewed
  <2>5. intents' = IF intents[k].until <= now THEN gone ELSE last
    BY <1>2, <2>2 DEF W!Looks, W!Touched
  <2>6. intents[k].until <= now => intents[k].until <= hours
    <3>1. intents[k] \in IntentEntries
      BY <1>0, ElementOfSeq
    <3>2. intents[k].until \in Nat
      BY <3>1 DEF IntentEntries
    <3> QED BY <1>0, <3>2
  <2> HIDE DEF new, gone, last
  <2>7. CASE intents[k].until <= now
    BY <2>3, <2>4, <2>5, <2>6, <2>7 DEF IntentsTrue
  <2>8. CASE ~(intents[k].until <= now)
    BY <2>3, <2>4, <2>5, <2>8 DEF IntentsTrue
  <2> QED BY <2>7, <2>8
<1> QED BY <1>1, <1>2

LEMMA LookStep ==
    ASSUME SessInv, SessionAssumption, NEW t \in Tools, NEW next \in ToolCalls, W!Turns(t, next),
           next.now <= hours, next.at \notin {"date", "put"}, W!Looks(turn[t].id, turn[t].now),
           W!CursorsRest, claimed' = claimed, W!Steady
    PROVE  SessInv'
<1>1. SessTyped /\ CursorsTrue /\ IntentsTrue /\ IntentCap \in Nat
  BY DEF SessInv, SessionAssumption
<1>2. turn[t].now <= hours /\ turn[t].now \in Nat
  <2>1. turn[t] \in ToolCalls /\ turn[t].now <= hours
    BY <1>1 DEF SessTyped
  <2> QED BY <2>1 DEF ToolCalls
<1>3. hours' = hours /\ limits' = limits /\ begun' = begun
  BY DEF W!Steady
<1>4. IntentsTrue' /\ intents' \in Seq(IntentEntries) /\ recency' \in Seq(Nat)
  BY <1>1, <1>2, <1>3, LooksKeeps
<1>5. /\ CursorsTrue' /\ turn' \in [Tools -> ToolCalls]
      /\ \A u \in Tools : turn'[u].now <= hours'
  BY <1>1, <1>3, CallGoes
<1>6. SessData'
  BY <1>1, <1>4 DEF SessTyped, SessData, W!CursorsRest
<1>7. SessTyped'
  BY <1>1, <1>3, <1>5, <1>6, TypedAgain DEF SessTyped
<1> QED BY <1>4, <1>5, <1>7 DEF SessInv

LEMMA LookSteps ==
    ASSUME SessInv, SessionAssumption, NEW t \in Tools
    PROVE  (W!Reads(t) => SessInv') /\ (W!Glances(t) => SessInv')
<1>1. W!Free \in ToolCalls /\ W!Free.now = 0 /\ W!Free.at = "idle"
  BY FreeIs
<1>2. turn[t] \in ToolCalls /\ hours \in Nat /\ turn[t].now <= hours
  BY DEF SessInv, SessTyped
<1>3. W!Free.now <= hours
  BY <1>1, <1>2
<1>4. W!Glances(t) => SessInv'
  BY <1>1, <1>3, LookStep DEF W!Glances, W!Rests
<1>5. ASSUME W!Reads(t) PROVE SessInv'
  <2>1. /\ W!Looks(turn[t].id, turn[t].now) /\ W!CursorsRest /\ claimed' = claimed /\ W!Steady
        /\ W!Becomes(t, "wait") \/ W!Rests(t)
    BY <1>5 DEF W!Reads
  <2>2. CASE W!Rests(t)
    BY <1>1, <1>3, <2>1, <2>2, LookStep DEF W!Rests
  <2>3. CASE W!Becomes(t, "wait")
    <3> DEFINE next == [turn[t] EXCEPT !.at = "wait"]
    <3>1. next \in ToolCalls /\ next.now = turn[t].now /\ next.at = "wait"
      BY <1>2 DEF ToolCalls, ToolStages
    <3>2. W!Turns(t, next)
      BY <2>3 DEF W!Becomes
    <3> HIDE DEF next
    <3> QED BY <1>2, <2>1, <3>1, <3>2, LookStep
  <2> QED BY <2>1, <2>2, <2>3
<1> QED BY <1>4, <1>5

LEMMA RegistersStep ==
    ASSUME SessInv, SessionAssumption, NEW t \in Tools, W!Registers(t)
    PROVE  SessInv'
<1>1. SessTyped /\ CursorsTrue /\ IntentsTrue /\ IntentCap \in Nat /\ IntentTtl \in Nat
  BY DEF SessInv, SessionAssumption
<1>2. /\ intents \in Seq(IntentEntries) /\ recency \in Seq(Nat) /\ claimed \in Seq(ClaimEntries)
      /\ hours \in Nat /\ Len(claimed) \in Nat
  BY <1>1, LenProperties DEF SessTyped
<1>3. turn[t].now <= hours /\ turn[t].now \in Nat
  <2>1. turn[t] \in ToolCalls /\ turn[t].now <= hours
    BY <1>1 DEF SessTyped
  <2> QED BY <2>1 DEF ToolCalls
<1>4. Orderly(recency, claimed) /\ Kept(intents, recency, claimed, hours)
  BY <1>1 DEF IntentsTrue
<1> DEFINE alive == W!Alive(intents, turn[t].now)
           id == Len(claimed) + 1
           until == turn[t].now + IntentTtl
           next == [W!Free EXCEPT !.at = "wait", !.id = id]
           e == [id |-> id, state |-> "pending", until |-> until]
           told == Append(claimed, [state |-> "pending", until |-> until])
<1>5. alive \in Seq(IntentEntries) /\ Kept(alive, recency, claimed, hours)
  BY <1>1, <1>2, <1>3, <1>4, KeptAlive
<1>6. until \in Nat
  BY <1>1, <1>3
<1>7. /\ intents' = W!Put(alive, e, IntentCap) /\ recency' = Append(recency, id) /\ claimed' = told
      /\ W!Turns(t, next) /\ W!CursorsRest /\ W!Steady
  BY DEF W!Registers
<1>8. next \in ToolCalls /\ next.now = 0 /\ next.at = "wait"
  <2>1. W!Free \in ToolCalls /\ W!Free.now = 0
    BY FreeIs
  <2>2. id \in Nat
    BY <1>2
  <2> HIDE DEF id
  <2> QED BY <2>1, <2>2 DEF ToolCalls, ToolStages
<1>i. id = Len(claimed) + 1
  OBVIOUS
<1> HIDE DEF alive, until, next, id
<1>9. /\ told \in Seq(ClaimEntries) /\ Append(recency, id) \in Seq(Nat)
      /\ W!Put(alive, e, IntentCap) \in Seq(IntentEntries)
      /\ Orderly(Append(recency, id), told) /\ Kept(W!Put(alive, e, IntentCap), Append(recency, id), told, hours)
  BY <1>1, <1>2, <1>4, <1>5, <1>6, <1>i, KeptEntered
<1>10. hours' = hours /\ limits' = limits /\ begun' = begun
  BY <1>7 DEF W!Steady
<1>11. IntentsTrue'
  BY <1>7, <1>9, <1>10 DEF IntentsTrue
<1>12. next.now <= hours
  BY <1>2, <1>8
<1>13. /\ CursorsTrue' /\ turn' \in [Tools -> ToolCalls]
       /\ \A u \in Tools : turn'[u].now <= hours'
  BY <1>1, <1>7, <1>8, <1>10, <1>12, CallGoes
<1>14. SessData'
  BY <1>1, <1>7, <1>9 DEF SessTyped, SessData, W!CursorsRest
<1>15. SessTyped'
  BY <1>1, <1>10, <1>13, <1>14, TypedAgain DEF SessTyped
<1> QED BY <1>11, <1>13, <1>15 DEF SessInv

LEMMA ReportsStep ==
    ASSUME SessInv, SessionAssumption, NEW id \in DOMAIN claimed,
           NEW state \in {"applied", "rejected"}, NEW now \in 0..hours, W!Reports(id, state, now)
    PROVE  SessInv'
<1>1. SessTyped /\ CursorsTrue /\ IntentsTrue /\ IntentCap \in Nat
  BY DEF SessInv, SessionAssumption
<1>2. /\ intents \in Seq(IntentEntries) /\ recency \in Seq(Nat) /\ claimed \in Seq(ClaimEntries)
      /\ hours \in Nat /\ now \in Nat /\ now <= hours
  BY <1>1 DEF SessTyped
<1>3. Orderly(recency, claimed) /\ Kept(intents, recency, claimed, hours)
  BY <1>1 DEF IntentsTrue
<1>4. /\ turn' = turn /\ hours' = hours /\ limits' = limits /\ begun' = begun
      /\ cursors' = cursors /\ scans' = scans /\ served' = served
  BY DEF W!Reports, W!CursorsRest
<1>5. CursorsTrue'
  BY <1>1, <1>4 DEF CursorsTrue, Making
<1>6. IntentsTrue' /\ intents' \in Seq(IntentEntries) /\ recency' \in Seq(Nat)
      /\ claimed' \in Seq(ClaimEntries)
  <2>1. CASE ~W!Holds(intents, id)
    <3>1. intents' = intents /\ recency' = recency /\ claimed' = claimed
      BY <2>1 DEF W!Reports, W!IntentsRest
    <3> QED BY <1>1, <1>2, <1>4, <3>1 DEF IntentsTrue
  <2>2. CASE W!Holds(intents, id)
    <3>1. PICK k \in 1..Len(intents) : intents[k].id = id
      BY <1>2, <2>2, HoldsPlace
    <3>2. W!Entry(intents, id) = intents[k]
      BY <1>1, <1>2, <3>1, IntentsUnique, EntryIs
    <3>3. CASE intents[k].until <= now
      <4>1. W!Looks(id, now) /\ claimed' = claimed
        BY <2>2, <3>2, <3>3 DEF W!Reports, W!Looks
      <4> QED BY <1>1, <1>2, <1>4, <4>1, LooksKeeps
    <3>4. CASE ~(intents[k].until <= now)
      <4> DEFINE new == Append(W!Picked(recency, W!ToSet(recency) \ {id}), id)
                 gone == W!Without(intents, id)
                 last == Append(gone, intents[k])
                 n == Len(intents)
      <4>1. /\ new \in Seq(Nat) /\ Orderly(new, claimed)
            /\ last \in Seq(IntentEntries) /\ Kept(last, new, claimed, hours)
        BY <1>1, <1>2, <1>3, <3>1, KeptTouched
      <4>2. /\ recency' = new /\ intents' = [last EXCEPT ![n].state = state]
            /\ claimed' = [claimed EXCEPT ![id].state = state]
        BY <2>2, <3>2, <3>4 DEF W!Reports, W!Renewed, W!Touched
      <4>3. n \in 1..Len(last) /\ n = Len(last) /\ last[n].id = id
        <5>1. gone \in Seq(IntentEntries) /\ Len(gone) = n - 1
          <6> DEFINE set == {e \in W!ToSet(intents) : e.id # id}
          <6>1. gone = W!Picked(intents, set)
            BY DEF W!Without
          <6>2. intents[k] \notin set
            BY <3>1
          <6>3. \A j \in 1..Len(intents) : j # k => intents[j] \in set
            <7>1. Unique(intents)
              BY <1>1, IntentsUnique
            <7> QED BY <3>1, <7>1 DEF Unique, W!ToSet
          <6> HIDE DEF set
          <6>4. W!Picked(intents, set) \in Seq(IntentEntries) /\ Len(W!Picked(intents, set)) = Len(intents) - 1
            BY <1>2, <6>2, <6>3, ButOnePicked
          <6> QED BY <6>1, <6>4
        <5>2. n \in Nat /\ n > 0
          BY <1>2, LenProperties
        <5>3. intents[k] \in IntentEntries
          BY <1>2, ElementOfSeq
        <5> HIDE DEF gone, n
        <5>4. Len(last) = Len(gone) + 1 /\ last[Len(gone) + 1] = intents[k]
          BY <5>1, <5>3, AppendProperties
        <5> HIDE DEF last
        <5> QED BY <3>1, <5>1, <5>2, <5>4
      <4>4. state \in Verdicts
        BY DEF Verdicts
      <4> HIDE DEF new, last, n
      <4> DEFINE told == [claimed EXCEPT ![id].state = state]
                 out == [last EXCEPT ![n].state = state]
      <4>5. /\ told \in Seq(ClaimEntries) /\ out \in Seq(IntentEntries)
            /\ Orderly(new, told) /\ Kept(out, new, told, hours)
        BY <1>1, <1>2, <4>1, <4>3, <4>4, KeptReported
      <4>6. intents' = out /\ claimed' = told
        BY <4>2
      <4> HIDE DEF told, out
      <4> QED BY <1>4, <4>1, <4>2, <4>5, <4>6 DEF IntentsTrue
    <3> QED BY <3>3, <3>4
  <2> QED BY <2>1, <2>2
<1>7. SessTyped'
  BY <1>1, <1>4, <1>6 DEF SessTyped
<1> QED BY <1>5, <1>6, <1>7 DEF SessInv

------------------------------------------------------------------------------
(* Scans.                                                                  *)
LEMMA LeadIs ==
    ASSUME NEW E, NEW seq \in Seq(E), NEW cap \in Nat
    PROVE  LET n == IF Len(seq) > cap THEN cap ELSE Len(seq)
           IN SubSeq(seq, 1, n) \in Seq(E) /\ (Len(seq) <= cap => SubSeq(seq, 1, n) = seq)
<1> DEFINE n == IF Len(seq) > cap THEN cap ELSE Len(seq)
<1>1. Len(seq) \in Nat
  BY LenProperties
<1>2. n \in Nat /\ n <= Len(seq)
  BY <1>1
<1>3. Len(seq) <= cap => n = Len(seq)
  BY <1>1
<1> HIDE DEF n
<1>4. \A i \in 1..n : seq[i] \in E
  BY <1>1, <1>2
<1>5. SubSeq(seq, 1, n) \in Seq(E)
  BY <1>2, <1>4, SubSeqProperties
<1>6. SubSeq(seq, 1, Len(seq)) = seq
  BY SubSeqFull
<1>7. Len(seq) <= cap => SubSeq(seq, 1, n) = seq
  BY <1>3, <1>6
<1> QED BY <1>5, <1>7 DEF n

(* What is picked from a sequence is what it has of the set.               *)
LEMMA PickedSet ==
    ASSUME NEW E, NEW seq \in Seq(E), NEW set
    PROVE  W!ToSet(W!Picked(seq, set)) = W!ToSet(seq) \cap set
<1> DEFINE out == W!Picked(seq, set)
<1>1. /\ out \in Seq(E) /\ Part(out, seq)
      /\ \A i \in 1..Len(out) : out[i] \in set
      /\ \A k \in 1..Len(seq) : seq[k] \in set => \E i \in 1..Len(out) : out[i] = seq[k]
  BY PickedPart
<1> HIDE DEF out
<1>2. \A i \in 1..Len(out) : \E k \in 1..Len(seq) : out[i] = seq[k]
  BY <1>1, PartEntries
<1>3. DOMAIN out = 1..Len(out) /\ DOMAIN seq = 1..Len(seq)
  BY <1>1
<1>4. W!ToSet(out) = {out[i] : i \in 1..Len(out)} /\ W!ToSet(seq) = {seq[i] : i \in 1..Len(seq)}
  BY <1>3 DEF W!ToSet
<1>5. W!ToSet(out) \subseteq W!ToSet(seq) \cap set
  BY <1>1, <1>2, <1>4
<1>6. W!ToSet(seq) \cap set \subseteq W!ToSet(out)
  BY <1>1, <1>4
<1> QED BY <1>5, <1>6 DEF out

LEMMA ListingRows ==
    ASSUME SessionAssumption, NEW listing \in Listings, NEW cap \in Nat
    PROVE  LET rows == W!Matched(listing, W!Visited(listing))
               kept == SubSeq(rows, 1, IF Len(rows) > cap THEN cap ELSE Len(rows))
           IN /\ kept \in Seq(Nat)
              /\ ~W!ScanTruncated(listing) /\ Len(rows) <= cap => W!ToSet(kept) = Hits(listing)
<1> DEFINE within == W!Within(listing)
           seen == W!Visited(listing)
           hits == Hits(listing)
           rows == W!Matched(listing, seen)
           kept == SubSeq(rows, 1, IF Len(rows) > cap THEN cap ELSE Len(rows))
           near == {i \in DOMAIN listing : listing[i] # "deep"}
           all == [i \in DOMAIN listing |-> i]
<1>0. listing \in Seq({"hit", "miss", "deep"}) /\ ScanBudget \in Nat
  BY DEF SessionAssumption
<1>1. all \in Seq(Nat) /\ W!ToSet(all) = DOMAIN listing
  <2>1. DOMAIN listing = 1..Len(listing) /\ Len(listing) \in Nat
    BY <1>0
  <2>2. all \in [1..Len(listing) -> Nat]
    BY <2>1
  <2>3. all \in Seq(Nat)
    <3> HIDE DEF all
    <3>1. all \in UNION {[1..m -> Nat] : m \in Nat}
      BY <2>1, <2>2
    <3> QED BY <3>1, SeqDef
  <2>4. W!ToSet(all) = DOMAIN listing
    BY DEF W!ToSet
  <2> QED BY <2>3, <2>4
<1>2. within = W!Picked(all, near)
  BY DEF W!Within
<1>3. hits \subseteq near /\ hits \subseteq DOMAIN listing
  BY DEF Hits
<1> HIDE DEF all, near
<1>4. within \in Seq(Nat) /\ W!ToSet(within) = DOMAIN listing \cap near
  BY <1>1, <1>2, PickedPart, PickedSet
<1>5. seen = SubSeq(within, 1, IF Len(within) > ScanBudget THEN ScanBudget ELSE Len(within))
  BY DEF W!Visited
<1>t. W!ScanTruncated(listing) <=> Len(within) > ScanBudget
  BY DEF W!ScanTruncated
<1> HIDE DEF within
<1>6. seen \in Seq(Nat) /\ (Len(within) <= ScanBudget => seen = within)
  BY <1>0, <1>4, <1>5, LeadIs
<1>7. rows = W!Picked(seen, hits)
  BY DEF W!Matched, Hits
<1> HIDE DEF seen, hits, rows
<1>8. rows \in Seq(Nat) /\ W!ToSet(rows) = W!ToSet(seen) \cap hits
  BY <1>6, <1>7, PickedPart, PickedSet
<1>9. kept \in Seq(Nat) /\ (Len(rows) <= cap => kept = rows)
  BY <1>8, LeadIs
<1> HIDE DEF kept
<1>10. ASSUME ~W!ScanTruncated(listing), Len(rows) <= cap PROVE W!ToSet(kept) = hits
  <2>1. Len(within) \in Nat
    BY <1>4, LenProperties
  <2>2. seen = within
    BY <1>0, <1>6, <1>10, <1>t, <2>1
  <2> QED BY <1>3, <1>4, <1>8, <1>9, <1>10, <2>2
<1> QED BY <1>9, <1>10 DEF kept, rows, seen, hits

LEMMA ListsStep ==
    ASSUME SessInv, SessionAssumption, NEW t \in Tools, W!Lists(t)
    PROVE  SessInv'
<1>1. SessTyped /\ CursorsTrue /\ IntentsTrue /\ IntentCap \in Nat
  BY DEF SessInv, SessionAssumption
<1>2. /\ cursors \in Seq(CursorEntries) /\ scans \in Seq(ScanEntries) /\ served \in Seq(Seq(Nat))
      /\ hours \in Nat /\ limits \in Limits /\ limits.rows \in Nat
      /\ Len(scans) \in Nat /\ Len(served) = Len(scans)
  BY <1>1, LenProperties DEF SessTyped, SessionAssumption
<1>3. PICK listing \in Listings :
          LET rows == W!Matched(listing, W!Visited(listing))
              kept == SubSeq(rows, 1, IF Len(rows) > limits.rows THEN limits.rows ELSE Len(rows))
          IN /\ scans' = Append(scans, [listing |-> listing, rows |-> kept,
                             whole |-> ~W!ScanTruncated(listing) /\ Len(rows) <= limits.rows])
             /\ W!Turns(t, [W!Free EXCEPT !.at = "date", !.rows = kept, !.scan = Len(scans'),
                             !.limit = limits])
  BY DEF W!Lists
<1> DEFINE rows == W!Matched(listing, W!Visited(listing))
           kept == SubSeq(rows, 1, IF Len(rows) > limits.rows THEN limits.rows ELSE Len(rows))
           whole == ~W!ScanTruncated(listing) /\ Len(rows) <= limits.rows
           s == [listing |-> listing, rows |-> kept, whole |-> whole]
           n == Len(scans) + 1
           next == [W!Free EXCEPT !.at = "date", !.rows = kept, !.scan = n, !.limit = limits]
<1>4. kept \in Seq(Nat) /\ (whole => W!ToSet(kept) = Hits(listing))
  BY <1>2, ListingRows
<1>5. scans' = Append(scans, s) /\ W!Turns(t, [next EXCEPT !.scan = Len(scans')])
  BY <1>3
<1>6. whole \in BOOLEAN
  BY DEF W!ScanTruncated
<1> HIDE DEF rows, kept, whole
<1>7. s \in ScanEntries /\ s.rows = kept /\ s.whole = whole /\ s.listing = listing
  BY <1>4, <1>6 DEF ScanEntries, SessionAssumption
<1> HIDE DEF s
<1>8. /\ scans' \in Seq(ScanEntries) /\ Len(scans') = n /\ scans'[n] = s
      /\ \A i \in 1..Len(scans) : scans'[i] = scans[i]
  <2>1. Append(scans, s) \in Seq(ScanEntries)
    BY <1>2, <1>7
  <2> QED BY <1>2, <1>5, <1>7, <2>1, AppendProperties
<1>9. <<>> \in Seq(Nat)
  BY EmptySeq
<1>10. /\ served' \in Seq(Seq(Nat)) /\ Len(served') = n /\ served'[n] = <<>>
       /\ \A i \in 1..Len(scans) : served'[i] = served[i]
  <2>1. served' = Append(served, <<>>)
    BY DEF W!Lists
  <2>2. Append(served, <<>>) \in Seq(Seq(Nat))
    BY <1>2, <1>9
  <2> QED BY <1>2, <1>9, <2>1, <2>2, AppendProperties
<1>11. n \in Nat /\ n = Len(scans) + 1 /\ \A i \in 1..n : i \in 1..Len(scans) \/ i = n
  BY <1>2
<1>12. /\ next \in ToolCalls /\ next.at = "date" /\ next.now = 0 /\ next.scan = n /\ next.rows = kept
       /\ W!Turns(t, next)
  <2>1. W!Free \in ToolCalls /\ W!Free.now = 0
    BY FreeIs
  <2>2. next \in ToolCalls /\ next.at = "date" /\ next.now = 0 /\ next.scan = n /\ next.rows = kept
    <3> HIDE DEF n
    <3> QED BY <1>2, <1>4, <1>11, <2>1 DEF ToolCalls, ToolStages
  <2>3. [next EXCEPT !.scan = Len(scans')] = next
    BY <1>8, <2>1 DEF ToolCalls
  <2> QED BY <1>5, <2>2, <2>3
<1> HIDE DEF next, n
<1>13. /\ hours' = hours /\ limits' = limits /\ begun' = begun /\ cursors' = cursors
       /\ intents' = intents /\ recency' = recency /\ claimed' = claimed /\ W!IntentsRest
  BY DEF W!Lists, W!Steady, W!IntentsRest
<1>14. turn' = [turn EXCEPT ![t] = next] /\ turn \in [Tools -> ToolCalls]
  BY <1>1, <1>12 DEF W!Turns, SessTyped
<1>15. turn' \in [Tools -> ToolCalls]
  BY <1>12, <1>14
<1>16. turn'[t] = next /\ \A u \in Tools : u # t => turn'[u] = turn[u]
  BY <1>14
<1>17. \A u \in Tools : turn'[u].now <= hours'
  <2>1. \A u \in Tools : turn[u].now <= hours
    BY <1>1 DEF SessTyped
  <2>2. next.now <= hours
    BY <1>2, <1>12
  <2> QED BY <1>13, <1>16, <2>1, <2>2
<1>18. SessTyped'
  BY <1>1, <1>2, <1>8, <1>10, <1>13, <1>15, <1>17 DEF SessTyped
<1>19. IntentsTrue'
  BY <1>1, <1>2, <1>13, IntentsStay
<1>20. Paged(cursors, scans', served')
  <2>1. \A i \in 1..Len(cursors) : cursors[i].id \in 1..Len(scans)
    BY <1>1 DEF CursorsTrue, Paged
  <2>2. \A i \in 1..Len(cursors) :
           /\ cursors[i].id \in 1..Len(scans')
           /\ CursorIs(cursors[i], scans'[cursors[i].id].rows, served'[cursors[i].id])
    <3> SUFFICES ASSUME NEW i \in 1..Len(cursors)
                 PROVE  /\ cursors[i].id \in 1..Len(scans')
                        /\ CursorIs(cursors[i], scans'[cursors[i].id].rows, served'[cursors[i].id])
      OBVIOUS
    <3>1. cursors[i].id \in 1..Len(scans')
      BY <1>2, <1>8, <1>11, <2>1
    <3>2. scans'[cursors[i].id] = scans[cursors[i].id] /\ served'[cursors[i].id] = served[cursors[i].id]
      BY <1>8, <1>10, <2>1
    <3>3. CursorIs(cursors[i], scans[cursors[i].id].rows, served[cursors[i].id])
      BY <1>1 DEF CursorsTrue, Paged
    <3> QED BY <3>1, <3>2, <3>3
  <2> QED BY <1>1, <2>2 DEF CursorsTrue, Paged
<1>21. Scanned(scans', served')
  <2> SUFFICES ASSUME NEW id \in 1..n PROVE ScanIs(scans'[id], served'[id])
    BY <1>8 DEF Scanned
  <2>1. CASE id \in 1..Len(scans)
    BY <1>1, <1>8, <1>10, <2>1 DEF CursorsTrue, Scanned
  <2>2. CASE id = n
    <3>1. Prefix(<<>>, kept)
      <4>1. Len(kept) \in Nat /\ Len(<<>>) = 0
        BY <1>4, LenProperties
      <4>2. SubSeq(kept, 1, 0) = <<>>
        BY <1>4, SubSeqEmpty
      <4> QED BY <4>1, <4>2 DEF Prefix
    <3> QED BY <1>4, <1>7, <1>8, <1>10, <2>2, <3>1 DEF ScanIs
  <2> QED BY <1>11, <2>1, <2>2
<1>22. \A u \in Tools : (Making(u))' => u = t \/ (u # t /\ Making(u) /\ turn'[u] = turn[u])
  BY <1>16 DEF Making
<1>23. \A u \in Tools : (Making(u))' => NotYet(turn'[u], cursors, scans', served')
  <2> SUFFICES ASSUME NEW u \in Tools, (Making(u))' PROVE NotYet(turn'[u], cursors, scans', served')
    OBVIOUS
  <2>1. CASE u = t
    <3>1. \A i \in 1..Len(cursors) : cursors[i].id # n
      BY <1>1, <1>2, <1>11 DEF CursorsTrue, Paged
    <3>2. n \in 1..Len(scans') /\ scans'[n].rows = kept
      BY <1>7, <1>8, <1>11, <1>2
    <3> QED BY <1>10, <1>12, <1>16, <2>1, <3>1, <3>2 DEF NotYet
  <2>2. CASE u # t
    <3>1. NotYet(turn[u], cursors, scans, served) /\ turn'[u] = turn[u]
      BY <1>1, <1>22, <2>2 DEF CursorsTrue
    <3>2. turn[u].scan \in 1..Len(scans) /\ turn[u].scan \in 1..Len(scans')
      BY <1>2, <1>8, <1>11, <3>1 DEF NotYet
    <3> QED BY <1>8, <1>10, <3>1, <3>2 DEF NotYet
  <2> QED BY <2>1, <2>2
<1>24. \A u, v \in Tools : (Making(u))' /\ (Making(v))' /\ turn'[v].scan = turn'[u].scan => v = u
  <2>1. \A u \in Tools : u # t /\ (Making(u))' => turn'[u].scan # n
    <3> SUFFICES ASSUME NEW u \in Tools, u # t, (Making(u))' PROVE turn'[u].scan # n
      OBVIOUS
    <3>1. turn'[u] = turn[u] /\ NotYet(turn[u], cursors, scans, served)
      BY <1>1, <1>22 DEF CursorsTrue
    <3>2. turn[u].scan \in 1..Len(scans)
      BY <3>1 DEF NotYet
    <3> QED BY <1>2, <1>11, <3>1, <3>2
  <2>2. turn'[t].scan = n
    BY <1>12, <1>16
  <2>3. \A u, v \in Tools : u # t /\ v # t /\ (Making(u))' /\ (Making(v))' /\ turn'[v].scan = turn'[u].scan => v = u
    BY <1>1, <1>22 DEF CursorsTrue
  <2> QED BY <2>1, <2>2, <2>3
<1>25. CursorsTrue'
  BY <1>13, <1>20, <1>21, <1>23, <1>24 DEF CursorsTrue
<1> QED BY <1>18, <1>19, <1>25 DEF SessInv

------------------------------------------------------------------------------
(* A part of the cursors is as good as they are.                           *)
LEMMA PagedPart ==
    ASSUME NEW table, NEW all, NEW made, NEW pages, Len(table) \in Nat, Len(all) \in Nat,
           Part(table, all), Paged(all, made, pages)
    PROVE  Paged(table, made, pages)
<1>1. Unique(table)
  BY PartUnique DEF Paged
<1>2. \A i \in 1..Len(table) : \E j \in 1..Len(all) : table[i] = all[j]
  BY PartEntries
<1> QED BY <1>1, <1>2 DEF Paged

LEMMA PagedAppend ==
    ASSUME NEW table \in Seq(CursorEntries), NEW made, NEW pages, NEW e \in CursorEntries,
           Paged(table, made, pages), \A i \in 1..Len(table) : table[i].id # e.id,
           e.id \in 1..Len(made), CursorIs(e, made[e.id].rows, pages[e.id])
    PROVE  Paged(Append(table, e), made, pages) /\ Append(table, e) \in Seq(CursorEntries)
<1> DEFINE out == Append(table, e)
<1>1. out \in Seq(CursorEntries) /\ Len(out) = Len(table) + 1 /\ out[Len(table) + 1] = e
      /\ \A i \in 1..Len(table) : out[i] = table[i]
  <2>1. out \in Seq(CursorEntries)
    OBVIOUS
  <2> QED BY <2>1, AppendProperties
<1>2. Unique(out)
  BY AppendUnique DEF Paged
<1>3. \A i \in 1..Len(out) : i \in 1..Len(table) \/ i = Len(table) + 1
  <2>1. Len(table) \in Nat
    BY LenProperties
  <2> HIDE DEF out
  <2> QED BY <1>1, <2>1
<1> HIDE DEF out
<1>4. Paged(out, made, pages)
  <2> SUFFICES ASSUME NEW i \in 1..Len(out)
               PROVE  out[i].id \in 1..Len(made) /\ CursorIs(out[i], made[out[i].id].rows, pages[out[i].id])
    BY <1>2 DEF Paged
  <2>1. CASE i \in 1..Len(table)
    BY <1>1, <2>1 DEF Paged
  <2>2. CASE i = Len(table) + 1
    BY <1>1, <2>2
  <2> QED BY <1>3, <2>1, <2>2
<1> QED BY <1>1, <1>4 DEF out

(* A cursor is made.                                                       *)
LEMMA MaterializesStep ==
    ASSUME SessInv, SessionAssumption, NEW t \in Tools, W!Materializes(t)
    PROVE  SessInv'
<1>1. SessTyped /\ CursorsTrue /\ IntentsTrue /\ IntentCap \in Nat
  BY DEF SessInv, SessionAssumption
<1>2. /\ cursors \in Seq(CursorEntries) /\ hours \in Nat /\ turn[t] \in ToolCalls
  BY <1>1 DEF SessTyped
<1>3. /\ turn[t].limit.sessions \in Nat /\ turn[t].limit.ttl \in Nat /\ turn[t].now \in Nat
      /\ turn[t].scan \in Nat /\ turn[t].rows \in Seq(Nat)
  BY <1>2 DEF ToolCalls, SessionAssumption
<1> DEFINE cap == turn[t].limit.sessions
           alive == W!Alive(cursors, turn[t].now)
           few == W!Shrunk(alive, cap)
           e == [id |-> turn[t].scan, rows |-> turn[t].rows, offset |-> 0,
                 until |-> turn[t].now + turn[t].limit.ttl]
           rest == W!Without(few, turn[t].scan)
           all == Append(rest, e)
           out == W!Shrunk(all, cap)
<1>4. cursors' = out
  BY DEF W!Materializes, W!Put
<1>5. e \in CursorEntries /\ e.id = turn[t].scan /\ e.rows = turn[t].rows /\ e.offset = 0
  BY <1>3 DEF CursorEntries
<1>6. cap \in Nat
  BY <1>3
<1>7. alive \in Seq(CursorEntries) /\ Part(alive, cursors)
  BY <1>2, AlivePart
<1> HIDE DEF e, cap, alive
<1>8. few \in Seq(CursorEntries) /\ Part(few, alive)
  BY <1>6, <1>7, ShrunkPart
<1> HIDE DEF few
<1>9. /\ rest \in Seq(CursorEntries) /\ Part(rest, few)
      /\ \A i \in 1..Len(rest) : rest[i].id # turn[t].scan
  BY <1>8, WithoutPart
<1> HIDE DEF rest
<1>10. Part(rest, cursors)
  BY <1>7, <1>8, <1>9, PartTrans
<1>n. Len(rest) \in Nat /\ Len(cursors) \in Nat
  BY <1>2, <1>9, LenProperties
<1>11. Paged(rest, scans, served)
  BY <1>1, <1>10, <1>n, PagedPart DEF CursorsTrue
<1>12. turn[t].at = "put" /\ Making(t)
  BY DEF W!Materializes, W!At, Making
<1>13. NotYet(turn[t], cursors, scans, served)
  BY <1>1, <1>12 DEF CursorsTrue
<1>14. CursorIs(e, scans[e.id].rows, served[e.id]) /\ e.id \in 1..Len(scans)
  <2>1. e.rows = scans[e.id].rows /\ served[e.id] = <<>> /\ e.id \in 1..Len(scans)
    BY <1>5, <1>13 DEF NotYet
  <2>2. Len(<<>>) = 0 /\ Len(e.rows) \in Nat
    BY <1>3, <1>5, LenProperties
  <2> QED BY <1>5, <2>1, <2>2 DEF CursorIs
<1>15. Paged(all, scans, served) /\ all \in Seq(CursorEntries)
  BY <1>5, <1>9, <1>11, <1>14, PagedAppend
<1>16. /\ Len(all) = Len(rest) + 1 /\ all[Len(rest) + 1] = e
       /\ \A i \in 1..Len(rest) : all[i] = rest[i]
  BY <1>5, <1>9, AppendProperties
<1> HIDE DEF all
<1>17. out \in Seq(CursorEntries) /\ Part(out, all)
  BY <1>6, <1>15, ShrunkPart
<1> HIDE DEF out
<1>18. Paged(out, scans, served)
  <2>1. Len(out) \in Nat /\ Len(all) \in Nat
    BY <1>15, <1>17, LenProperties
  <2> QED BY <1>15, <1>17, <2>1, PagedPart
<1>19. \A i \in 1..Len(out) : out[i].id = turn[t].scan \/ \E j \in 1..Len(cursors) : out[i] = cursors[j]
  <2> SUFFICES ASSUME NEW i \in 1..Len(out)
               PROVE  out[i].id = turn[t].scan \/ \E j \in 1..Len(cursors) : out[i] = cursors[j]
    OBVIOUS
  <2>1. PICK k \in 1..Len(all) : out[i] = all[k]
    BY <1>17, PartEntries
  <2>2. CASE k \in 1..Len(rest)
    <3>1. \E j \in 1..Len(cursors) : rest[k] = cursors[j]
      BY <1>10, <2>2, PartEntries
    <3> QED BY <1>16, <2>1, <2>2, <3>1
  <2>3. CASE k = Len(rest) + 1
    BY <1>5, <1>16, <2>1, <2>3
  <2>4. k \in 1..Len(rest) \/ k = Len(rest) + 1
    BY <1>16, <1>n
  <2> QED BY <2>2, <2>3, <2>4
<1>20. /\ hours' = hours /\ limits' = limits /\ begun' = begun /\ scans' = scans /\ served' = served
       /\ intents' = intents /\ recency' = recency /\ claimed' = claimed /\ W!IntentsRest
       /\ W!Turns(t, W!Free)
  BY DEF W!Materializes, W!Steady, W!IntentsRest, W!Rests
<1>21. W!Free \in ToolCalls /\ W!Free.now = 0 /\ W!Free.at = "idle"
  BY FreeIs
<1>22. turn' = [turn EXCEPT ![t] = W!Free] /\ turn \in [Tools -> ToolCalls]
  BY <1>1, <1>20 DEF W!Turns, SessTyped
<1>23. turn' \in [Tools -> ToolCalls]
  BY <1>21, <1>22
<1>24. turn'[t] = W!Free /\ \A u \in Tools : u # t => turn'[u] = turn[u]
  BY <1>22
<1>25. \A u \in Tools : turn'[u].now <= hours'
  <2>1. \A u \in Tools : turn[u].now <= hours
    BY <1>1 DEF SessTyped
  <2>2. W!Free.now <= hours
    BY <1>2, <1>21
  <2> QED BY <1>20, <1>24, <2>1, <2>2
<1>26. SessTyped'
  BY <1>1, <1>4, <1>17, <1>20, <1>23, <1>25 DEF SessTyped
<1>27. IntentsTrue'
  BY <1>1, <1>2, <1>20, IntentsStay
<1>28. \A u \in Tools : (Making(u))' => u # t /\ Making(u) /\ turn'[u] = turn[u]
  BY <1>21, <1>24 DEF Making
<1>29. \A u \in Tools : (Making(u))' => NotYet(turn'[u], out, scans, served)
  <2> SUFFICES ASSUME NEW u \in Tools, (Making(u))' PROVE NotYet(turn[u], out, scans, served)
    BY <1>28
  <2>1. NotYet(turn[u], cursors, scans, served) /\ turn[u].scan # turn[t].scan
    BY <1>1, <1>12, <1>28 DEF CursorsTrue
  <2>2. \A i \in 1..Len(out) : out[i].id # turn[u].scan
    BY <1>19, <2>1 DEF NotYet
  <2> QED BY <2>1, <2>2 DEF NotYet
<1>30. \A u, v \in Tools : (Making(u))' /\ (Making(v))' /\ turn'[v].scan = turn'[u].scan => v = u
  BY <1>1, <1>28 DEF CursorsTrue
<1>31. CursorsTrue'
  BY <1>1, <1>4, <1>18, <1>20, <1>29, <1>30 DEF CursorsTrue
<1> QED BY <1>26, <1>27, <1>31 DEF SessInv

(* A page goes on from where the pages so far end.                         *)
LEMMA PrefixGoesOn ==
    ASSUME NEW rows \in Seq(Nat), NEW all \in Seq(Nat), Prefix(all, rows), NEW end \in Nat,
           Len(all) <= end, end <= Len(rows)
    PROVE  LET new == all \o SubSeq(rows, Len(all) + 1, end)
           IN new \in Seq(Nat) /\ Prefix(new, rows) /\ Len(new) = end
<1> DEFINE a == Len(all)
           part == SubSeq(rows, a + 1, end)
           new == all \o part
<1>1. a \in Nat /\ Len(rows) \in Nat /\ a = Len(all)
  BY LenProperties
<1>2. \A i \in 1..Len(rows) : rows[i] \in Nat
  OBVIOUS
<1>3. /\ SubSeq(rows, 1, a) \in Seq(Nat)
      /\ Len(SubSeq(rows, 1, a)) = (IF 1 <= a THEN a - 1 + 1 ELSE 0)
      /\ \A i \in 1..(a - 1 + 1) : SubSeq(rows, 1, a)[i] = rows[1 + i - 1]
  <2>1. \A i \in 1..a : rows[i] \in Nat
    BY <1>1, <1>2
  <2> HIDE DEF a
  <2> QED BY <1>1, <2>1, SubSeqProperties
<1>4. /\ part \in Seq(Nat) /\ Len(part) = (IF a + 1 <= end THEN end - (a + 1) + 1 ELSE 0)
      /\ \A i \in 1..(end - (a + 1) + 1) : part[i] = rows[a + 1 + i - 1]
  <2>1. \A i \in (a + 1)..end : rows[i] \in Nat
    BY <1>1, <1>2
  <2>2. a + 1 \in Int /\ end \in Int
    BY <1>1
  <2> HIDE DEF a
  <2> QED BY <2>1, <2>2, SubSeqProperties
<1>5. /\ SubSeq(rows, 1, end) \in Seq(Nat)
      /\ Len(SubSeq(rows, 1, end)) = (IF 1 <= end THEN end - 1 + 1 ELSE 0)
      /\ \A i \in 1..(end - 1 + 1) : SubSeq(rows, 1, end)[i] = rows[1 + i - 1]
  <2>1. \A i \in 1..end : rows[i] \in Nat
    BY <1>1, <1>2
  <2> QED BY <2>1, SubSeqProperties
<1>6. all = SubSeq(rows, 1, a)
  BY DEF Prefix
<1>7. \A i \in 1..a : all[i] = rows[i]
  <2> SUFFICES ASSUME NEW i \in 1..a PROVE all[i] = rows[i]
    OBVIOUS
  <2>1. i \in 1..(a - 1 + 1) /\ 1 + i - 1 = i
    BY <1>1
  <2> HIDE DEF a
  <2> QED BY <1>3, <1>6, <2>1
<1> HIDE DEF a, part
<1>8. Len(part) = end - a
  BY <1>1, <1>4
<1>9. \A i \in 1..(end - a) : part[i] = rows[a + i]
  <2> SUFFICES ASSUME NEW i \in 1..(end - a) PROVE part[i] = rows[a + i]
    OBVIOUS
  <2>1. i \in 1..(end - (a + 1) + 1) /\ a + 1 + i - 1 = a + i
    BY <1>1
  <2> QED BY <1>4, <2>1
<1>10. /\ new \in Seq(Nat) /\ Len(new) = Len(all) + Len(part)
       /\ \A i \in 1..(Len(all) + Len(part)) :
             new[i] = IF i <= Len(all) THEN all[i] ELSE part[i - Len(all)]
  BY <1>4, ConcatProperties
<1> HIDE DEF new
<1>11. Len(new) = end
  BY <1>1, <1>8, <1>10
<1>12. \A i \in 1..end : new[i] = rows[i]
  <2> SUFFICES ASSUME NEW i \in 1..end PROVE new[i] = rows[i]
    OBVIOUS
  <2>1. new[i] = IF i <= a THEN all[i] ELSE part[i - a]
    BY <1>1, <1>8, <1>10
  <2>2. CASE i <= a
    BY <1>1, <1>7, <2>1, <2>2
  <2>3. CASE ~(i <= a)
    <3>1. i - a \in 1..(end - a) /\ a + (i - a) = i
      BY <1>1, <2>3
    <3> QED BY <1>9, <2>1, <2>3, <3>1
  <2> QED BY <2>2, <2>3
<1>13. new = SubSeq(rows, 1, end)
  <2>1. Len(SubSeq(rows, 1, end)) = end
    BY <1>5
  <2>2. \A i \in 1..end : SubSeq(rows, 1, end)[i] = rows[i]
    <3> SUFFICES ASSUME NEW i \in 1..end PROVE SubSeq(rows, 1, end)[i] = rows[i]
      OBVIOUS
    <3>1. i \in 1..(end - 1 + 1) /\ 1 + i - 1 = i
      OBVIOUS
    <3> QED BY <1>5, <3>1
  <2> QED BY <1>5, <1>10, <1>11, <1>12, <2>1, <2>2, SeqEqual
<1>14. Prefix(new, rows)
  BY <1>1, <1>11, <1>13 DEF Prefix
<1> QED BY <1>1, <1>10, <1>11, <1>14 DEF new, part

(* What a page leaves alone.                                               *)
LEMMA ServesStays ==
    ASSUME NEW table \in Seq(CursorEntries), NEW pages \in Seq(Seq(Nat)), Len(pages) = Len(scans),
           NEW id, SessTyped, CursorsTrue, Paged(table, scans, pages), Scanned(scans, pages),
           \A i \in 1..Len(table) : \E j \in 1..Len(cursors) : table[i].id = cursors[j].id,
           \A n \in 1..Len(scans) : n # id => pages[n] = served[n],
           \E j \in 1..Len(cursors) : cursors[j].id = id,
           NEW t \in Tools, turn' = [turn EXCEPT ![t] = W!Free],
           cursors' = table, served' = pages, scans' = scans, SessionAssumption
    PROVE  CursorsTrue'
<1>1. W!Free.at = "idle"
  BY FreeIs
<1>2. turn'[t] = W!Free /\ \A u \in Tools : u # t => turn'[u] = turn[u]
  BY DEF SessTyped
<1>3. \A u \in Tools : (Making(u))' => u # t /\ Making(u) /\ turn'[u] = turn[u]
  BY <1>1, <1>2 DEF Making
<1>4. \A u \in Tools : (Making(u))' => NotYet(turn'[u], table, scans, pages)
  <2> SUFFICES ASSUME NEW u \in Tools, (Making(u))' PROVE NotYet(turn[u], table, scans, pages)
    BY <1>3
  <2>1. NotYet(turn[u], cursors, scans, served)
    BY <1>3 DEF CursorsTrue
  <2>2. turn[u].scan # id /\ turn[u].scan \in 1..Len(scans)
    BY <2>1 DEF NotYet
  <2>3. \A i \in 1..Len(table) : table[i].id # turn[u].scan
    BY <2>1 DEF NotYet
  <2> QED BY <2>1, <2>2, <2>3 DEF NotYet
<1>5. \A u, v \in Tools : (Making(u))' /\ (Making(v))' /\ turn'[v].scan = turn'[u].scan => v = u
  BY <1>3 DEF CursorsTrue
<1> QED BY <1>4, <1>5 DEF CursorsTrue

LEMMA PagingStep ==
    ASSUME SessInv, SessionAssumption, NEW t \in Tools, W!Serves(t)
    PROVE  SessInv'
<1>1. SessTyped /\ CursorsTrue /\ IntentsTrue /\ IntentCap \in Nat
  BY DEF SessInv, SessionAssumption
<1>2. /\ cursors \in Seq(CursorEntries) /\ hours \in Nat /\ turn[t] \in ToolCalls
      /\ served \in Seq(Seq(Nat)) /\ Len(served) = Len(scans) /\ scans \in Seq(ScanEntries)
      /\ Paged(cursors, scans, served) /\ Scanned(scans, served)
      /\ Len(cursors) \in Nat /\ Len(scans) \in Nat
  BY <1>1, LenProperties DEF SessTyped, CursorsTrue
<1>3. turn[t].offset \in Nat /\ turn[t].size \in Nat
  BY <1>2 DEF ToolCalls
<1>4. /\ hours' = hours /\ limits' = limits /\ begun' = begun /\ scans' = scans
      /\ intents' = intents /\ recency' = recency /\ claimed' = claimed /\ W!IntentsRest
      /\ W!Turns(t, W!Free)
  BY DEF W!Serves, W!Steady, W!IntentsRest, W!Rests
<1>5. W!Free \in ToolCalls /\ W!Free.now = 0 /\ W!Free.at = "idle"
  BY FreeIs
<1>6. turn' = [turn EXCEPT ![t] = W!Free] /\ turn \in [Tools -> ToolCalls]
  BY <1>1, <1>4 DEF W!Turns, SessTyped
<1>7. turn' \in [Tools -> ToolCalls] /\ turn'[t] = W!Free /\ \A u \in Tools : u # t => turn'[u] = turn[u]
  BY <1>5, <1>6
<1>8. \A u \in Tools : turn'[u].now <= hours'
  <2>1. \A u \in Tools : turn[u].now <= hours
    BY <1>1 DEF SessTyped
  <2>2. W!Free.now <= hours
    BY <1>2, <1>5
  <2> QED BY <1>4, <1>7, <2>1, <2>2
<1>9. IntentsTrue'
  BY <1>1, <1>2, <1>4, IntentsStay
<1>10. CursorsTrue' /\ cursors' \in Seq(CursorEntries) /\ served' \in Seq(Seq(Nat))
       /\ Len(served') = Len(scans)
  <2>1. CASE ~W!Holds(cursors, turn[t].id)
    <3>1. cursors' = cursors /\ served' = served
      BY <2>1 DEF W!Serves
    <3>2. \A u \in Tools : (Making(u))' => Making(u) /\ turn'[u] = turn[u]
      BY <1>5, <1>7 DEF Making
    <3>3. CursorsTrue'
      BY <1>1, <1>4, <3>1, <3>2 DEF CursorsTrue
    <3> QED BY <1>2, <3>1, <3>3
  <2>2. CASE W!Holds(cursors, turn[t].id)
    <3>1. PICK k \in 1..Len(cursors) : cursors[k].id = turn[t].id
      BY <1>2, <2>2, HoldsPlace
    <3> DEFINE session == cursors[k]
               id == session.id
               start == W!Start(t, session)
               end == W!Least(start + turn[t].size, Len(session.rows))
               gone == W!Without(cursors, id)
               moved == [session EXCEPT !.offset = end]
               page == SubSeq(session.rows, start + 1, end)
               next == IF turn[t].offset # W!NoOffset \/ served[id] = W!Skipping THEN W!Skipping
                       ELSE served[id] \o page
    <3>2. W!Entry(cursors, turn[t].id) = session
      BY <1>2, <3>1, EntryIs DEF Paged
    <3>3. IF session.until <= turn[t].now
          THEN cursors' = gone /\ served' = served
          ELSE cursors' = Append(gone, moved) /\ served' = [served EXCEPT ![id] = next]
      BY <2>2, <3>2 DEF W!Serves
    <3>4. /\ session \in CursorEntries /\ id \in 1..Len(scans)
          /\ CursorIs(session, scans[id].rows, served[id])
      <4>1. session \in CursorEntries
        BY <1>2, ElementOfSeq
      <4> QED BY <1>2, <4>1 DEF Paged
    <3>5. /\ gone \in Seq(CursorEntries) /\ Part(gone, cursors)
          /\ \A i \in 1..Len(gone) : gone[i].id # id
      BY <1>2, WithoutPart
    <3>6. Len(gone) \in Nat
      BY <3>5, LenProperties
    <3>7. Paged(gone, scans, served)
      BY <1>2, <3>5, <3>6, PagedPart
    <3>8. \A i \in 1..Len(gone) : \E j \in 1..Len(cursors) : gone[i].id = cursors[j].id
      <4>1. \A i \in 1..Len(gone) : \E j \in 1..Len(cursors) : gone[i] = cursors[j]
        BY <3>5, PartEntries
      <4> HIDE DEF gone
      <4> QED BY <4>1
    <3>9. \E j \in 1..Len(cursors) : cursors[j].id = id
      OBVIOUS
    <3> HIDE DEF gone
    <3>10. CASE session.until <= turn[t].now
      <4>1. cursors' = gone /\ served' = served
        BY <3>3, <3>10
      <4>2. \A n \in 1..Len(scans) : n # id => served[n] = served[n]
        OBVIOUS
      <4>3. CursorsTrue'
        BY <1>1, <1>2, <1>4, <1>6, <3>5, <3>7, <3>8, <3>9, <4>1, <4>2, ServesStays
      <4> QED BY <1>2, <3>5, <4>1, <4>3
    <3>11. CASE ~(session.until <= turn[t].now)
      <4>1. cursors' = Append(gone, moved) /\ served' = [served EXCEPT ![id] = next]
        BY <3>3, <3>11
      <4>2. /\ session.rows \in Seq(Nat) /\ session.offset \in Nat /\ id \in Nat
            /\ session.rows = scans[id].rows
            /\ session.offset <= Len(session.rows)
            /\ served[id] # W!Skipping => Len(served[id]) = session.offset
        BY <3>4 DEF CursorEntries, CursorIs
      <4>3. Len(session.rows) \in Nat
        BY <4>2, LenProperties
      <4>4. start \in Nat /\ start <= Len(session.rows)
            /\ (turn[t].offset = W!NoOffset => start = session.offset)
        <5> DEFINE from == IF turn[t].offset = W!NoOffset THEN session.offset ELSE turn[t].offset - 1
        <5>1. start = IF from < Len(session.rows) THEN from ELSE Len(session.rows)
          BY DEF W!Start, W!Least
        <5> HIDE DEF start, session
        <5>2. from \in Nat
          BY <1>3, <4>2 DEF W!NoOffset
        <5>3. turn[t].offset = W!NoOffset => from = session.offset
          OBVIOUS
        <5> HIDE DEF from
        <5> QED BY <4>2, <4>3, <5>1, <5>2, <5>3
      <4>s. start = W!Start(t, session)
        OBVIOUS
      <4> HIDE DEF start
      <4>5. end \in Nat /\ start <= end /\ end <= Len(session.rows)
        BY SMTT(30), <1>3, <4>3, <4>4 DEF W!Least
      <4> HIDE DEF end
      <4>6. served[id] \in Seq(Nat) /\ ScanIs(scans[id], served[id])
        <5>1. id \in 1..Len(served)
          BY <1>2, <3>4
        <5>2. served[id] \in Seq(Nat)
          BY <1>2, <5>1, ElementOfSeq
        <5> QED BY <1>2, <3>4, <5>2 DEF Scanned
      <4>7. next \in Seq(Nat) /\ (next # W!Skipping => Prefix(next, session.rows) /\ Len(next) = end)
        <5>1. CASE turn[t].offset # W!NoOffset \/ served[id] = W!Skipping
          <6>1. <<0>> \in Seq(Nat)
            OBVIOUS
          <6> QED BY <5>1, <6>1 DEF W!Skipping
        <5>2. CASE ~(turn[t].offset # W!NoOffset \/ served[id] = W!Skipping)
          <6>1. Prefix(served[id], session.rows) /\ Len(served[id]) = start
            BY <4>2, <4>4, <4>6, <5>2 DEF ScanIs
          <6>2. next = served[id] \o SubSeq(session.rows, Len(served[id]) + 1, end)
            BY <5>2, <6>1
          <6> HIDE DEF session, id, next, page
          <6>3. LET new == served[id] \o SubSeq(session.rows, Len(served[id]) + 1, end)
                IN new \in Seq(Nat) /\ Prefix(new, session.rows) /\ Len(new) = end
            BY <4>2, <4>5, <4>6, <6>1, PrefixGoesOn
          <6> QED BY <6>2, <6>3
        <5> QED BY <5>1, <5>2
      <4> HIDE DEF next, page
      <4> DEFINE pages == [served EXCEPT ![id] = next]
      <4>8. /\ pages \in Seq(Seq(Nat)) /\ Len(pages) = Len(scans) /\ pages[id] = next
            /\ \A n \in 1..Len(scans) : n # id => pages[n] = served[n]
        <5>1. id \in 1..Len(served)
          BY <1>2, <3>4
        <5> HIDE DEF id
        <5>2. /\ pages \in Seq(Seq(Nat)) /\ Len(pages) = Len(served)
              /\ \A n \in 1..Len(served) : pages[n] = IF n = id THEN next ELSE served[n]
          BY <1>2, <4>7, <5>1, ExceptSeq
        <5> HIDE DEF pages
        <5> QED BY <1>2, <5>1, <5>2
      <4>9. served' = pages
        BY <4>1
      <4> HIDE DEF pages
      <4>10. Scanned(scans, pages)
        <5> SUFFICES ASSUME NEW n \in 1..Len(scans) PROVE ScanIs(scans[n], pages[n])
          BY DEF Scanned
        <5>1. CASE n = id
          BY <4>2, <4>6, <4>7, <4>8, <5>1 DEF ScanIs
        <5>2. CASE n # id
          BY <1>2, <4>8, <5>2 DEF Scanned
        <5> QED BY <5>1, <5>2
      <4>11. Paged(gone, scans, pages)
        <5>1. \A i \in 1..Len(gone) : gone[i].id \in 1..Len(scans) /\ pages[gone[i].id] = served[gone[i].id]
          BY <3>5, <3>7, <4>8 DEF Paged
        <5> QED BY <3>7, <5>1 DEF Paged
      <4>12. moved \in CursorEntries /\ moved.id = id /\ moved.rows = session.rows /\ moved.offset = end
        BY <3>4, <4>5 DEF CursorEntries
      <4> HIDE DEF moved
      <4>13. CursorIs(moved, scans[moved.id].rows, pages[moved.id])
        BY <4>2, <4>5, <4>7, <4>8, <4>12 DEF CursorIs
      <4>14. Paged(Append(gone, moved), scans, pages) /\ Append(gone, moved) \in Seq(CursorEntries)
        BY <3>4, <3>5, <4>11, <4>12, <4>13, PagedAppend
      <4> DEFINE table == Append(gone, moved)
      <4>15. \A i \in 1..Len(table) : \E j \in 1..Len(cursors) : table[i].id = cursors[j].id
        <5>1. /\ Len(table) = Len(gone) + 1 /\ table[Len(gone) + 1] = moved
              /\ \A i \in 1..Len(gone) : table[i] = gone[i]
          BY <3>5, <4>12, AppendProperties
        <5> HIDE DEF table
        <5>2. \A i \in 1..Len(table) : i \in 1..Len(gone) \/ i = Len(gone) + 1
          BY <3>6, <5>1
        <5> QED BY <3>8, <3>9, <4>12, <5>1, <5>2
      <4>16. cursors' = table
        BY <4>1
      <4> HIDE DEF table
      <4>17. table \in Seq(CursorEntries) /\ Paged(table, scans, pages)
        BY <4>14 DEF table
      <4>18. CursorsTrue'
        BY <1>1, <1>4, <1>6, <3>9, <4>8, <4>9, <4>10, <4>15, <4>16, <4>17, ServesStays
      <4> QED BY <4>8, <4>9, <4>16, <4>17, <4>18
    <3> QED BY <3>10, <3>11
  <2> QED BY <2>1, <2>2
<1>11. SessTyped'
  BY <1>1, <1>4, <1>7, <1>8, <1>10 DEF SessTyped
<1> QED BY <1>9, <1>10, <1>11 DEF SessInv

LEMMA SessInit ==
    ASSUME W!SessionInit, SessionAssumption
    PROVE  SessInv
<1>1. /\ hours = 0 /\ begun = 0 /\ limits \in Limits /\ turn = [t \in Tools |-> W!Free]
      /\ cursors = <<>> /\ intents = <<>> /\ scans = <<>> /\ served = <<>>
      /\ recency = <<>> /\ claimed = <<>>
  BY DEF W!SessionInit
<1>2. W!Free \in ToolCalls /\ W!Free.now = 0 /\ W!Free.at = "idle"
  BY FreeIs
<1>3. Len(<<>>) = 0 /\ \A X : <<>> \in Seq(X)
  BY EmptySeq
<1>4. SessTyped
  BY <1>1, <1>2, <1>3 DEF SessTyped, SessionAssumption
<1>5. \A t \in Tools : ~Making(t)
  BY <1>1, <1>2 DEF Making
<1>6. CursorsTrue
  BY <1>1, <1>3, <1>5 DEF CursorsTrue, Paged, Scanned, Unique
<1>7. Along(<<>>, <<>>)
  <2> DEFINE p == [i \in 1..0 |-> i]
  <2>0. \A i \in 1..0 : FALSE
    OBVIOUS
  <2>1. p \in [1..0 -> 1..0] /\ Rises(p, 0)
    BY <2>0 DEF Rises
  <2> HIDE DEF p
  <2>2. p \in [1..Len(<<>>) -> 1..Len(<<>>)] /\ Rises(p, Len(<<>>))
    BY <1>3, <2>1
  <2>3. \A i \in 1..Len(<<>>) : <<>>[i].id = <<>>[p[i]]
    BY <1>3, <2>0
  <2> QED BY <2>2, <2>3 DEF Along
<1>8. IntentsTrue
  BY <1>1, <1>3, <1>7 DEF IntentsTrue, Orderly, Kept, NoneMissed, SessionAssumption
<1> QED BY <1>4, <1>6, <1>8 DEF SessInv

LEMMA SessSteps ==
    ASSUME SessInv, SessionAssumption, W!CursorNext \/ W!IntentNext
    PROVE  SessInv'
<1>1. CASE W!CursorNext
  BY <1>1, OutsideSteps, QuietSteps, ListsStep, MaterializesStep, PagingStep DEF W!CursorNext
<1>2. CASE W!IntentNext
  BY <1>2, OutsideSteps, QuietSteps, RegistersStep, LookSteps, ReportsStep DEF W!IntentNext
<1> QED BY <1>1, <1>2

LEMMA SessStutter ==
    ASSUME SessInv, UNCHANGED W!sessionVars
    PROVE  SessInv'
BY DEF W!sessionVars, SessInv, SessTyped, CursorsTrue, Making, IntentsTrue

LEMMA PagesFromInv ==
    ASSUME SessInv
    PROVE  W!PagesAreWhole
<1>1. /\ SessTyped /\ Paged(cursors, scans, served) /\ Scanned(scans, served)
  BY DEF SessInv, CursorsTrue
<1>2. /\ cursors \in Seq(CursorEntries) /\ served \in Seq(Seq(Nat)) /\ Len(served) = Len(scans)
      /\ scans \in Seq(ScanEntries)
  BY <1>1 DEF SessTyped
<1> SUFFICES ASSUME NEW id \in 1..Len(scans)
             PROVE  /\ served[id] # W!Skipping => W!IsPrefix(served[id], scans[id].rows)
                    /\ \A e \in W!ToSet(cursors) : e.id = id /\ served[id] # W!Skipping
                          => Len(served[id]) = e.offset
                    /\ scans[id].whole => W!ToSet(scans[id].rows) = Hits(scans[id].listing)
  BY <1>2 DEF W!PagesAreWhole, Hits
<1>3. ScanIs(scans[id], served[id])
  BY <1>1 DEF Scanned
<1>4. ASSUME served[id] # W!Skipping PROVE W!IsPrefix(served[id], scans[id].rows)
  <2>1. Prefix(served[id], scans[id].rows)
    BY <1>3, <1>4 DEF ScanIs
  <2> QED BY <2>1 DEF Prefix, W!IsPrefix
<1>5. ASSUME NEW e \in W!ToSet(cursors), e.id = id, served[id] # W!Skipping
      PROVE  Len(served[id]) = e.offset
  <2>1. PICK i \in 1..Len(cursors) : e = cursors[i]
    BY <1>2 DEF W!ToSet
  <2> QED BY <1>1, <1>5, <2>1 DEF Paged, CursorIs
<1> QED BY <1>3, <1>4, <1>5 DEF ScanIs

LEMMA ReportsFromInv ==
    ASSUME SessInv
    PROVE  W!ReportsReach
<1>1. SessTyped /\ IntentsTrue
  BY DEF SessInv
<1>2. /\ intents \in Seq(IntentEntries) /\ recency \in Seq(Nat)
  BY <1>1 DEF SessTyped
<1>3. Unique(intents)
  BY <1>1, IntentsUnique
<1> SUFFICES ASSUME NEW i \in 1..Len(recency), i + IntentCap > Len(recency)
             PROVE  IF W!Holds(intents, recency[i])
                    THEN W!Entry(intents, recency[i]).state = claimed[recency[i]].state
                    ELSE claimed[recency[i]].until <= hours
  BY <1>2 DEF W!ReportsReach
<1>4. CASE W!Holds(intents, recency[i])
  <2>1. PICK k \in 1..Len(intents) : intents[k].id = recency[i]
    BY <1>2, <1>4, HoldsPlace
  <2>2. W!Entry(intents, recency[i]) = intents[k]
    BY <1>2, <1>3, <2>1, EntryIs
  <2>3. EntryTrue(intents[k], claimed)
    BY <1>1 DEF IntentsTrue, Kept
  <2> QED BY <1>4, <2>1, <2>2, <2>3 DEF EntryTrue
<1>5. CASE ~W!Holds(intents, recency[i])
  <2>1. ~Entered(intents, recency[i])
    BY <1>2, <1>5 DEF W!Holds, Entered
  <2>2. claimed[recency[i]].until <= hours
    BY <1>1, <2>1 DEF IntentsTrue, Kept, NoneMissed
  <2> QED BY <1>5, <2>2
<1> QED BY <1>4, <1>5

LEMMA TypesFromInv ==
    ASSUME SessInv
    PROVE  W!SessionTypeOK
<1>1. SessTyped /\ IntentsTrue /\ Paged(cursors, scans, served)
  BY DEF SessInv, CursorsTrue
<1>2. /\ cursors \in Seq(CursorEntries) /\ intents \in Seq(IntentEntries)
      /\ claimed \in Seq(ClaimEntries) /\ scans \in Seq(ScanEntries)
  BY <1>1 DEF SessTyped
<1>d. /\ DOMAIN cursors = 1..Len(cursors) /\ DOMAIN intents = 1..Len(intents)
      /\ DOMAIN scans = 1..Len(scans) /\ DOMAIN claimed = 1..Len(claimed)
  BY <1>2
<1>3. \A i \in DOMAIN cursors : cursors[i].id \in DOMAIN scans
                                 /\ cursors[i].offset \in 0..Len(cursors[i].rows)
  <2> SUFFICES ASSUME NEW i \in 1..Len(cursors)
               PROVE  cursors[i].id \in 1..Len(scans) /\ cursors[i].offset \in 0..Len(cursors[i].rows)
    BY <1>d
  <2>1. cursors[i] \in CursorEntries
    BY <1>2, ElementOfSeq
  <2>2. cursors[i].offset \in Nat /\ cursors[i].rows \in Seq(Nat)
    BY <2>1 DEF CursorEntries
  <2>3. Len(cursors[i].rows) \in Nat
    BY <2>2, LenProperties
  <2> QED BY <1>1, <2>2, <2>3 DEF Paged, CursorIs
<1>4. \A i \in DOMAIN intents : intents[i].id \in DOMAIN claimed
  <2> SUFFICES ASSUME NEW i \in 1..Len(intents) PROVE intents[i].id \in 1..Len(claimed)
    BY <1>d
  <2>1. Along(intents, recency) /\ Orderly(recency, claimed)
    BY <1>1 DEF IntentsTrue, Kept
  <2>2. PICK j \in 1..Len(recency) : intents[i].id = recency[j]
    BY <2>1 DEF Along
  <2> QED BY <2>1, <2>2 DEF Orderly
<1>5. Len(intents) <= IntentCap
  BY <1>1 DEF IntentsTrue, Kept
<1> QED BY <1>1, <1>3, <1>4, <1>5 DEF W!SessionTypeOK, SessTyped

(* The pages of a cursor are its rows, in order and all, whoever pages; a  *)
(* digest that is not cut has a row for each match; and a report reaches   *)
(* whoever asks for its intent in time: whatever listings come, whatever   *)
(* the settings and the sizes of the tables are.                           *)
THEOREM CursorsServe == W!CursorSpec => [](W!SessionTypeOK /\ SessionsAreTrue)
<1>1. W!SessionInit => SessInv
  BY SessInit, SessionAssumption
<1>2. SessInv /\ [W!CursorNext]_(W!sessionVars) => SessInv'
  BY SessSteps, SessStutter, SessionAssumption
<1>3. SessInv => W!SessionTypeOK /\ SessionsAreTrue
  BY TypesFromInv, PagesFromInv, ReportsFromInv DEF SessionsAreTrue, W!SessionsAreTrue
<1> QED BY <1>1, <1>2, <1>3, PTL DEF W!CursorSpec

THEOREM IntentsReach == W!IntentSpec => [](W!SessionTypeOK /\ SessionsAreTrue)
<1>1. W!SessionInit => SessInv
  BY SessInit, SessionAssumption
<1>2. SessInv /\ [W!IntentNext]_(W!sessionVars) => SessInv'
  BY SessSteps, SessStutter, SessionAssumption
<1>3. SessInv => W!SessionTypeOK /\ SessionsAreTrue
  BY TypesFromInv, PagesFromInv, ReportsFromInv DEF SessionsAreTrue, W!SessionsAreTrue
<1> QED BY <1>1, <1>2, <1>3, PTL DEF W!IntentSpec

------------------------------------------------------------------------------
(* The server: the invariant of a part holds while another one runs, for   *)
(* it speaks of what the other leaves alone.                               *)
ServerInv == TokenInv /\ StdioInv /\ SessInv

LEMMA TokensRest == TokenInv /\ UNCHANGED tokens => TokenInv'
<1>1. UNCHANGED tokens => UNCHANGED T!tokenVars
  BY DEF tokens, T!tokenVars
<1> QED BY <1>1, TokensStep

LEMMA StdioRests == StdioInv /\ UNCHANGED stdio => StdioInv'
<1>1. UNCHANGED stdio => UNCHANGED S!stdioVars
  BY DEF stdio, S!stdioVars
<1> QED BY <1>1, StdioStep

LEMMA SessRests == SessInv /\ UNCHANGED sessions => SessInv'
<1>1. UNCHANGED sessions => UNCHANGED W!sessionVars
  BY DEF sessions, W!sessionVars
<1> QED BY <1>1, SessStutter

LEMMA ServerStart == ServerInit => ServerInv
BY TokensStart, StdioStart, SessInit, SessionAssumption DEF ServerInit, ServerInv

LEMMA ServerStep == ServerInv /\ [ServerNext]_serverVars => ServerInv'
<1> SUFFICES ASSUME ServerInv, [ServerNext]_serverVars PROVE ServerInv'
    OBVIOUS
<1>1. CASE T!TokenNext /\ UNCHANGED <<sessions, stdio>>
  <2>1. TokenInv'
    BY <1>1, TokensStep DEF ServerInv
  <2> QED BY <1>1, <2>1, StdioRests, SessRests DEF ServerInv
<1>2. CASE (W!CursorNext \/ W!IntentNext) /\ UNCHANGED <<tokens, stdio>>
  <2>1. SessInv'
    BY <1>2, SessSteps, SessionAssumption DEF ServerInv
  <2> QED BY <1>2, <2>1, TokensRest, StdioRests DEF ServerInv
<1>3. CASE S!StdioNext /\ UNCHANGED <<tokens, sessions>>
  <2>1. StdioInv'
    BY <1>3, StdioStep DEF ServerInv
  <2> QED BY <1>3, <2>1, TokensRest, SessRests DEF ServerInv
<1>4. CASE UNCHANGED serverVars
  BY <1>4, TokensRest, StdioRests, SessRests DEF serverVars, ServerInv
<1> QED BY <1>1, <1>2, <1>3, <1>4 DEF ServerNext

LEMMA ServerMeans ==
    ServerInv => ServerTypeOK /\ WritesAreConfirmed /\ SessionsAreTrue /\ CallsAreOnce
BY TokensMean, StdioTypes, StdioMeans, TypesFromInv, PagesFromInv, ReportsFromInv
   DEF ServerInv, ServerTypeOK, SessionsAreTrue, W!SessionsAreTrue
=============================================================================
