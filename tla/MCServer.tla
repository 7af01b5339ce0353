------------------------------ MODULE MCServer ------------------------------
(* The parts of the MCP server, checked side by side: a behaviour is one   *)
(* of the confirmation tokens, of the cursors, of the intents, or of the   *)
(* lines on stdin, with the others at rest.                                *)
EXTENDS Naturals, FiniteSets, Sequences

CONSTANTS
    Clients, Arguments, MaxConfirms, DefaultTtl, LeastTtl, MostTtl, AskedTtls, NoTtl,
    MaxTokens, MaxAsks, MaxRestarts, MaxTicks,
    Tools, Listings, ScanBudget, PageSizes, Offsets, Limits, IntentCap, IntentTtl,
    MaxWork, MaxReports, MaxHours,
    Lines, Permits, MaxApps

ASSUME TokenAssumption ==
    /\ DefaultTtl \in Nat /\ LeastTtl \in Nat /\ MostTtl \in Nat /\ AskedTtls \subseteq Nat
    /\ LeastTtl <= MostTtl
    /\ MaxConfirms \in Nat /\ MaxTokens \in Nat /\ MaxAsks \in Nat /\ MaxRestarts \in Nat
    /\ MaxTicks \in Nat
    /\ Arguments # {}
ASSUME SessionAssumption ==
    /\ ScanBudget \in Nat /\ PageSizes \subseteq Nat /\ Offsets \subseteq Nat
    /\ Limits # {} /\ Limits \subseteq [sessions : Nat, rows : Nat, ttl : Nat]
    /\ Listings \subseteq Seq({"hit", "miss", "deep"})
    /\ IntentCap \in Nat /\ IntentTtl \in Nat
    /\ MaxWork \in Nat /\ MaxHours \in Nat
ASSUME PermitsAssumption == Permits \in Nat

VARIABLES
    serves,
    ticks, ttl, ttlFile, confirms, issued, ask, written, asks, restarts,
    hours, limits, cursors, intents, turn, scans, served, recency, claimed, begun, reports,
    line, server, pooled, appPort, published, apps, relay, done, answered

T == INSTANCE ConfirmTokens
W == INSTANCE ToolSessions WITH work <- turn
S == INSTANCE StdioServer

tokens == <<ticks, ttl, ttlFile, confirms, issued, ask, written, asks, restarts>>
sessions == <<hours, limits, cursors, intents, turn, scans, served, recency, claimed, begun, reports>>
stdio == <<line, server, pooled, appPort, published, apps, relay, done, answered>>
serverVars == <<serves, tokens, sessions, stdio>>

(* A whole listing, and one that is cut.                                   *)
MCListings == {<<"hit", "deep", "hit">>, <<"hit", "hit", "hit">>}
MCLimits == {[sessions |-> 1, rows |-> 2, ttl |-> 1], [sessions |-> 2, rows |-> 1, ttl |-> 1]}

ServerInit ==
    /\ serves \in {"none", "tokens", "cursors", "intents", "stdio"}
    /\ T!TokenInit /\ W!SessionInit /\ S!StdioInit
    /\ serves # "tokens" => ttlFile = NoTtl
    /\ serves # "cursors" => limits = CHOOSE l \in Limits : TRUE
    /\ serves # "stdio" => published = 0

ServerNext ==
    /\ UNCHANGED serves
    /\ \/ serves = "tokens" /\ T!TokenNext /\ UNCHANGED <<sessions, stdio>>
       \/ serves = "cursors" /\ W!CursorNext /\ UNCHANGED <<tokens, stdio>>
       \/ serves = "intents" /\ W!IntentNext /\ UNCHANGED <<tokens, stdio>>
       \/ serves = "stdio" /\ S!StdioNext /\ UNCHANGED <<tokens, sessions>>

ServerTypeOK ==
    /\ serves = "tokens" => T!TokenTypeOK
    /\ serves \in {"cursors", "intents"} => W!SessionTypeOK
    /\ serves = "stdio" => S!StdioTypeOK

(* Of ConfirmTokens: a write that asks for confirmation has a token of its *)
(* own, for its arguments and in time.                                     *)
WritesAreConfirmed == T!WritesAreConfirmed

(* Of ToolSessions: the pages of a cursor are its rows, in order and all,  *)
(* and a report reaches whoever asks for its intent in time.               *)
SessionsAreTrue == W!SessionsAreTrue

(* Of StdioServer: a call is carried out once at most, here or in the app, *)
(* and its one answer says no more than that.                              *)
CallsAreOnce == S!CallsAreOnce
=============================================================================
