--------------------------- MODULE ConfirmTokens ---------------------------
(***************************************************************************)
(* The MCP tools that write in two phases (files_delete, files_purge,      *)
(* schedule_create, schedule_run_now, schedule_delete): a call without a   *)
(* token is answered with a preview and a token, and the same call with    *)
(* the token writes.  Beside them mcp/settings/set changes how long tokens *)
(* last.  The calls of two tasks interleave at every await and whenever a  *)
(* lock is let go.                                                         *)
(*                                                                         *)
(* A call that a gate refuses before it has touched the table (a missing   *)
(* argument, a connection that is read-only, a path with "..", the purge   *)
(* of a root, a task that is not in the list) changes nothing and is left  *)
(* out.                                                                    *)
(***************************************************************************)
EXTENDS Naturals, FiniteSets, Sequences

CONSTANTS
    Clients,             \* the tasks that serve calls
    Arguments,           \* what a call may ask for, the token taken off
    MaxConfirms,         \* MAX_CONFIRM_ENTRIES
    DefaultTtl, LeastTtl, MostTtl,  \* confirmTtlSecs: default, clamp, ceiling
    AskedTtls,           \* what mcp/settings/set is asked for
    NoTtl,               \* a settings file that is not to be read
    MaxTokens,           \* bound: tokens issued
    MaxAsks,             \* bound: calls begun
    MaxRestarts,         \* bound: restarts of the sidecar
    MaxTicks             \* bound: the clock

VARIABLES
    ticks,       \* unix_millis_now
    ttl,         \* confirm_ttl_secs in memory
    ttlFile,     \* and in mcp-settings.json
    confirms,    \* the table: the tokens in it
    issued,      \* every token ever issued, as it was entered
    ask,         \* the call of a client
    written,     \* the writes that were begun, with their tokens
    asks,        \* calls begun so far
    restarts     \* restarts so far

tokenVars == <<ticks, ttl, ttlFile, confirms, issued, ask, written, asks, restarts>>

Resting == [at |-> "idle", files |-> FALSE, args |-> CHOOSE x \in Arguments : TRUE, token |-> 0,
            ttl |-> DefaultTtl, now |-> 0]

Ttls == {DefaultTtl} \cup LeastTtl..MostTtl
Clamped(t) == IF t < LeastTtl THEN LeastTtl ELSE IF t > MostTtl THEN MostTtl ELSE t

(* load: what cannot be read or parsed gives the defaults.                 *)
Loaded(file) == IF file = NoTtl THEN DefaultTtl ELSE Clamped(file)

TokenInit ==
    /\ ticks = 0
    /\ ttlFile \in {NoTtl, DefaultTtl}
    /\ ttl = Loaded(ttlFile)
    /\ confirms = {} /\ issued = <<>>
    /\ ask = [c \in Clients |-> Resting]
    /\ written = <<>>
    /\ asks = 0 /\ restarts = 0

------------------------------------------------------------------------------
Tokens == 1..Len(issued)
Stage(c, label) == ask[c].at = label
Moves(c, label) == ask' = [ask EXCEPT ![c].at = label]
Finishes(c) == ask' = [ask EXCEPT ![c] = Resting]
TableRests == UNCHANGED <<confirms, issued, written>>
SettingsRest == UNCHANGED <<ttl, ttlFile>>
Here == UNCHANGED <<ticks, asks, restarts>>

(* A call of a file tool stats the path first, in both phases; one of a    *)
(* schedule tool is at its token at once.  Token 0 is none at all.         *)
Asks(c) ==
    /\ Stage(c, "idle") /\ asks < MaxAsks
    /\ asks' = asks + 1
    /\ \E files \in BOOLEAN, x \in Arguments, k \in {0} \cup Tokens :
          ask' = [ask EXCEPT ![c] = [Resting EXCEPT !.files = files, !.args = x, !.token = k,
                     !.at = IF files THEN "stat" ELSE IF k = 0 THEN "preview" ELSE "confirm"]]
    /\ TableRests /\ SettingsRest /\ UNCHANGED <<ticks, restarts>>

(* Whatever the stat answers, a preview is made of it.                     *)
Previews(c) ==
    /\ Stage(c, "stat")
    /\ Moves(c, IF ask[c].token = 0 THEN "preview" ELSE "confirm")
    /\ TableRests /\ SettingsRest /\ Here

(* confirm_begin reads the settings, then the clock, and then takes the    *)
(* lock.                                                                   *)
ReadsTtl(c) ==
    /\ Stage(c, "preview")
    /\ ask' = [ask EXCEPT ![c].at = "date", ![c].ttl = ttl]
    /\ TableRests /\ SettingsRest /\ Here
Dates(c) ==
    /\ Stage(c, "date")
    /\ ask' = [ask EXCEPT ![c].at = "enter", ![c].now = ticks]
    /\ TableRests /\ SettingsRest /\ Here

(* Under the lock: what has expired goes, at the limit the entry that      *)
(* expires first goes too (any of them if there are several), and the new  *)
(* one is entered under a token of its own.                                *)
Unexpired(now) == {k \in confirms : issued[k].until > now}
Evictions(table) ==
    IF Cardinality(table) < MaxConfirms THEN {table}
    ELSE {table \ {k} : k \in {m \in table : \A n \in table : issued[m].until <= issued[n].until}}
Enters(c) ==
    /\ Stage(c, "enter") /\ Len(issued) < MaxTokens
    /\ issued' = Append(issued, [args |-> ask[c].args, until |-> ask[c].now + ask[c].ttl,
                                life |-> restarts])
    /\ \E table \in Evictions(Unexpired(ask[c].now)) : confirms' = table \cup {Len(issued')}
    /\ Finishes(c)
    /\ UNCHANGED written /\ SettingsRest /\ Here

(* Mistake: the entry is looked up, and goes only once it has been used.   *)
TakesLate(c) ==
    /\ Stage(c, "confirm")
    /\ confirms' = confirms \ {k \in confirms : \E i \in 1..Len(written) : written[i].token = k}
    /\ IF ask[c].token \in confirms' THEN Moves(c, "verify") ELSE Finishes(c)
    /\ UNCHANGED <<issued, written>> /\ SettingsRest /\ Here

(* confirm_verify takes the entry out whatever comes of it.                *)
Takes(c) ==
    /\ Stage(c, "confirm")
    /\ confirms' = confirms \ {ask[c].token}
    /\ IF ask[c].token \in confirms THEN Moves(c, "verify") ELSE Finishes(c)
    /\ UNCHANGED <<issued, written>> /\ SettingsRest /\ Here

(* With the lock gone: its time must not be over, and the arguments must   *)
(* be those it was issued for.                                             *)
Verifies(c) ==
    /\ Stage(c, "verify")
    /\ LET entry == issued[ask[c].token]
       IN IF entry.until <= ticks \/ entry.args # ask[c].args
          THEN Finishes(c) /\ UNCHANGED written
          ELSE /\ Moves(c, "write")
               /\ written' = Append(written, [token |-> ask[c].token, args |-> ask[c].args,
                                              at |-> ticks, life |-> restarts])
    /\ UNCHANGED <<confirms, issued>> /\ SettingsRest /\ Here

(* The rc call or the scheduler does it or refuses, and the audit follows: *)
(* the call is over either way.                                            *)
Writes(c) == Stage(c, "write") /\ Finishes(c) /\ TableRests /\ SettingsRest /\ Here

------------------------------------------------------------------------------
(* mcp/settings/set: what is out of range is refused; the rest goes into a *)
(* copy of the settings, which is saved and then put in their place.  An   *)
(* update of another field carries the ttl of its copy along.              *)
Copies(c) ==
    /\ Stage(c, "idle") /\ asks < MaxAsks
    /\ asks' = asks + 1
    /\ \E t \in {ttl} \cup {x \in AskedTtls : 1 <= x /\ x <= MostTtl} :
          ask' = [ask EXCEPT ![c] = [Resting EXCEPT !.at = "save", !.ttl = Clamped(t)]]
    /\ TableRests /\ SettingsRest /\ UNCHANGED <<ticks, restarts>>

(* A write that fails may leave a part of the file, and ends the call.     *)
Saves(c) ==
    /\ Stage(c, "save")
    /\ \/ ttlFile' = ask[c].ttl /\ Moves(c, "set")
       \/ ttlFile' \in {ttlFile, NoTtl} /\ Finishes(c)
    /\ TableRests /\ UNCHANGED ttl /\ Here
Sets(c) ==
    /\ Stage(c, "set")
    /\ ttl' = ask[c].ttl
    /\ Finishes(c)
    /\ TableRests /\ UNCHANGED ttlFile /\ Here

(* The sidecar dies, in the middle of a write of the file it may be, and   *)
(* starts again: the table is empty.                                       *)
Restarts ==
    /\ restarts < MaxRestarts
    /\ restarts' = restarts + 1
    /\ ttlFile' \in {ttlFile} \cup (IF \E c \in Clients : Stage(c, "save") THEN {NoTtl} ELSE {})
    /\ ttl' = Loaded(ttlFile')
    /\ confirms' = {}
    /\ ask' = [c \in Clients |-> Resting]
    /\ UNCHANGED <<ticks, issued, written, asks>>

TimePasses ==
    /\ ticks < MaxTicks
    /\ ticks' = ticks + 1
    /\ TableRests /\ SettingsRest /\ UNCHANGED <<ask, asks, restarts>>

TokenNext ==
    \/ TimePasses \/ Restarts
    \/ \E c \in Clients :
          \/ Asks(c) \/ Previews(c) \/ ReadsTtl(c) \/ Dates(c) \/ Enters(c)
          \/ Takes(c) \/ Verifies(c) \/ Writes(c)
          \/ Copies(c) \/ Saves(c) \/ Sets(c)

TokenSpec == TokenInit /\ [][TokenNext]_tokenVars

------------------------------------------------------------------------------
TokenTypeOK ==
    /\ ticks \in 0..MaxTicks /\ asks \in 0..MaxAsks /\ restarts \in 0..MaxRestarts
    /\ ttl \in Ttls /\ ttlFile \in Ttls \cup {NoTtl}
    /\ Len(issued) <= MaxTokens /\ confirms \subseteq Tokens
    /\ Cardinality(confirms) <= MaxConfirms
    /\ \A c \in Clients : ask[c].token \in {0} \cup Tokens /\ ask[c].args \in Arguments

(* A write that asks for confirmation has a token that was issued for the  *)
(* same arguments, by this process, and had not expired, and no other      *)
(* write has it (state.rs:639-647).                                        *)
WritesAreConfirmed ==
    \A i \in 1..Len(written) :
        LET w == written[i]
        IN /\ issued[w.token].args = w.args
           /\ issued[w.token].life = w.life
           /\ w.at < issued[w.token].until
           /\ \A j \in 1..Len(written) : written[j].token = w.token => j = i
=============================================================================
