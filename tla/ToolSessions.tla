---------------------------- MODULE ToolSessions ----------------------------
(***************************************************************************)
(* What the MCP server keeps between two calls: the cursors over the rows  *)
(* a digest matched, and the intents the workbench is to answer.  Both are *)
(* tables of a few entries, least recently touched first: an entry goes    *)
(* when its time is over or when the table is full.                        *)
(***************************************************************************)
EXTENDS Naturals, FiniteSets, SequencesExt, Picks

CONSTANTS
    Tools,         \* the tasks that serve calls
    Listings,      \* what a recursive listing answers: "hit", "miss", "deep"
    ScanBudget,    \* MAX_SCAN_ENTRIES
    PageSizes,     \* the n of files_cursor_next, clamped
    Offsets,       \* the offsets it may be asked for
    Limits,        \* [sessions, rows, ttl]: maxCursorSessions, maxCursorRows, cursorTtlSecs
    IntentCap,     \* INTENT_MAX_ENTRIES
    IntentTtl,     \* INTENT_TTL_MILLIS
    MaxWork,       \* bound: calls begun
    MaxReports,    \* bound: reports of the workbench
    MaxHours       \* bound: the clock

VARIABLES
    hours,     \* unix_millis_now
    limits,    \* the settings in memory
    cursors,   \* [id, rows, offset, until]
    intents,   \* [id, state, until]
    work,      \* the call of a tool
    scans,     \* history: the cursors that were made, with the listing behind each
    served,    \* history: the rows each has served, as long as nobody named an offset
    recency,   \* history: the intents, least recently touched first
    claimed,   \* history: when each is over, and the last report that was accepted
    begun, reports

sessionVars == <<hours, limits, cursors, intents, work, scans, served, recency, claimed,
                 begun, reports>>

Free == [at |-> "idle", id |-> 0, rows |-> <<>>, scan |-> 0, limit |-> CHOOSE l \in Limits : TRUE,
         now |-> 0, size |-> 1, offset |-> 0, state |-> "pending"]
NoOffset == 0    \* an offset that is given is one more than its value here
Skipping == <<0>>   \* rows are numbered from 1

SessionInit ==
    /\ hours = 0 /\ limits \in Limits
    /\ cursors = <<>> /\ intents = <<>>
    /\ work = [t \in Tools |-> Free]
    /\ scans = <<>> /\ served = <<>> /\ recency = <<>> /\ claimed = <<>>
    /\ begun = 0 /\ reports = 0

------------------------------------------------------------------------------
(* LruTable.                                                               *)
Holds(table, id) == \E i \in DOMAIN table : table[i].id = id
Entry(table, id) == CHOOSE e \in ToSet(table) : e.id = id
Without(table, id) == Picked(table, {e \in ToSet(table) : e.id # id})
Shrunk(table, cap) == SubSeq(table, Len(table) - (IF Len(table) > cap THEN cap ELSE Len(table)) + 1,
                             Len(table))
Put(table, e, cap) == Shrunk(Append(Without(table, e.id), e), cap)
(* Mistake: an entry that is found stays where it is.                      *)
TouchedInPlace(table, id) == table

Touched(table, id) == Append(Without(table, id), Entry(table, id))
Alive(table, now) == Picked(table, {e \in ToSet(table) : e.until > now})

At(t, label) == work[t].at = label
Turns(t, next) == work' = [work EXCEPT ![t] = next]
Becomes(t, label) == Turns(t, [work[t] EXCEPT !.at = label])
Rests(t) == Turns(t, Free)
Begin(t, next) ==
    /\ At(t, "idle") /\ begun < MaxWork
    /\ begun' = begun + 1
    /\ Turns(t, next)
CursorsRest == UNCHANGED <<cursors, scans, served>>
IntentsRest == UNCHANGED <<intents, recency, claimed>>
Steady == UNCHANGED <<hours, limits, begun, reports>>

(* Both read the clock before they take the lock.                          *)
Dates(t, from, to) ==
    /\ At(t, from)
    /\ Turns(t, [work[t] EXCEPT !.at = to, !.now = hours])
    /\ CursorsRest /\ IntentsRest /\ Steady

------------------------------------------------------------------------------
(* files_scan_digest.  What lies too deep is passed over, and after the    *)
(* budget no more entries are looked at; a row is the place of its entry   *)
(* in the listing.                                                         *)
Within(listing) ==
    Picked([i \in DOMAIN listing |-> i], {i \in DOMAIN listing : listing[i] # "deep"})
Visited(listing) ==
    LET all == Within(listing)
    IN SubSeq(all, 1, IF Len(all) > ScanBudget THEN ScanBudget ELSE Len(all))
Matched(listing, rows) == Picked(rows, {i \in DOMAIN listing : listing[i] = "hit"})
ScanTruncated(listing) == Len(Within(listing)) > ScanBudget

Scans(t) == Begin(t, [Free EXCEPT !.at = "list"]) /\ CursorsRest /\ IntentsRest
            /\ UNCHANGED <<hours, limits, reports>>

(* The listing comes, and what matches becomes the rows of a cursor, by    *)
(* the settings as they are now.                                           *)
Lists(t) ==
    /\ At(t, "list")
    /\ \E listing \in Listings :
          LET rows == Matched(listing, Visited(listing))
              kept == SubSeq(rows, 1, IF Len(rows) > limits.rows THEN limits.rows ELSE Len(rows))
          IN /\ scans' = Append(scans, [listing |-> listing, rows |-> kept,
                             whole |-> ~ScanTruncated(listing) /\ Len(rows) <= limits.rows])
             /\ Turns(t, [Free EXCEPT !.at = "date", !.rows = kept, !.scan = Len(scans'),
                             !.limit = limits])
    /\ served' = Append(served, <<>>)
    /\ UNCHANGED cursors /\ IntentsRest /\ Steady

Materializes(t) ==
    /\ At(t, "put")
    /\ cursors' = Put(Shrunk(Alive(cursors, work[t].now), work[t].limit.sessions),
                      [id |-> work[t].scan, rows |-> work[t].rows, offset |-> 0,
                       until |-> work[t].now + work[t].limit.ttl], work[t].limit.sessions)
    /\ Rests(t)
    /\ UNCHANGED <<scans, served>> /\ IntentsRest /\ Steady

(* files_cursor_next: on from where the session is, or from an offset that *)
(* is given.                                                               *)
Pages(t) ==
    /\ \E id \in DOMAIN scans, n \in PageSizes, from \in {NoOffset} \cup {o + 1 : o \in Offsets} :
          Begin(t, [Free EXCEPT !.at = "ask", !.id = id, !.size = n, !.offset = from])
    /\ CursorsRest /\ IntentsRest /\ UNCHANGED <<hours, limits, reports>>
Least(a, b) == IF a < b THEN a ELSE b
Start(t, session) ==
    Least(IF work[t].offset = NoOffset THEN session.offset ELSE work[t].offset - 1,
          Len(session.rows))

(* Mistake: the page is cut from a copy of the session.                    *)
ServesCopy(t) ==
    /\ At(t, "page")
    /\ Rests(t)
    /\ IF ~Holds(cursors, work[t].id) THEN UNCHANGED <<cursors, served>>
       ELSE LET session == Entry(cursors, work[t].id)
                start == Start(t, session)
            IN /\ cursors' = Touched(cursors, session.id)
               /\ served' = [served EXCEPT ![session.id] =
                     IF work[t].offset # NoOffset \/ @ = Skipping THEN Skipping
                     ELSE @ \o SubSeq(session.rows, start + 1,
                                      Least(start + work[t].size, Len(session.rows)))]
    /\ UNCHANGED scans /\ IntentsRest /\ Steady

(* In one critical section: the session is found, is not over, and goes    *)
(* on.                                                                     *)
Serves(t) ==
    /\ At(t, "page")
    /\ Rests(t)
    /\ IF ~Holds(cursors, work[t].id) THEN UNCHANGED <<cursors, served>>
       ELSE LET session == Entry(cursors, work[t].id)
                start == Start(t, session)
                end == Least(start + work[t].size, Len(session.rows))
            IN IF session.until <= work[t].now
               THEN cursors' = Without(cursors, session.id) /\ UNCHANGED served
               ELSE /\ cursors' = Append(Without(cursors, session.id),
                                         [session EXCEPT !.offset = end])
                    /\ served' = [served EXCEPT ![session.id] =
                          IF work[t].offset # NoOffset \/ @ = Skipping THEN Skipping
                          ELSE @ \o SubSeq(session.rows, start + 1, end)]
    /\ UNCHANGED scans /\ IntentsRest /\ Steady

------------------------------------------------------------------------------
(* files_ui_focus, search and select: the intent is entered, the workbench *)
(* is told, and the call polls until there is an answer or its wait is     *)
(* over.  The wait may be over at any poll.                                *)
Intends(t) == Begin(t, [Free EXCEPT !.at = "intend"]) /\ CursorsRest /\ IntentsRest
              /\ UNCHANGED <<hours, limits, reports>>
Registers(t) ==
    /\ At(t, "register")
    /\ LET id == Len(claimed) + 1
       IN /\ intents' = Put(Alive(intents, work[t].now),
                            [id |-> id, state |-> "pending", until |-> work[t].now + IntentTtl],
                            IntentCap)
          /\ recency' = Append(recency, id)
          /\ claimed' = Append(claimed, [state |-> "pending", until |-> work[t].now + IntentTtl])
          /\ Turns(t, [Free EXCEPT !.at = "wait", !.id = id])
    /\ CursorsRest /\ Steady

(* intent_lookup: what is over is taken out.  It has been touched then.    *)
Renewed(id) == Append(Picked(recency, ToSet(recency) \ {id}), id)
Looks(id, now) ==
    IF ~Holds(intents, id) THEN UNCHANGED <<intents, recency>>
    ELSE /\ recency' = Renewed(id)
         /\ intents' = IF Entry(intents, id).until <= now THEN Without(intents, id)
                       ELSE Touched(intents, id)
Reads(t) ==
    /\ At(t, "poll")
    /\ Looks(work[t].id, work[t].now)
    /\ LET found == Holds(intents, work[t].id)
           e == Entry(intents, work[t].id)
           expired == found /\ e.until <= work[t].now
           settled == found /\ ~expired /\ e.state # "pending"
       IN IF settled \/ expired THEN Rests(t)
          ELSE Becomes(t, "wait") \/ Rests(t)
    /\ CursorsRest /\ UNCHANGED claimed /\ Steady

(* files_ui_state looks once.                                              *)
Asks(t) ==
    /\ \E id \in DOMAIN claimed : Begin(t, [Free EXCEPT !.at = "look", !.id = id])
    /\ CursorsRest /\ IntentsRest /\ UNCHANGED <<hours, limits, reports>>
Glances(t) ==
    /\ At(t, "glance")
    /\ Looks(work[t].id, work[t].now)
    /\ Rests(t)
    /\ CursorsRest /\ UNCHANGED claimed /\ Steady

(* files/ui/state/report, at any time, more than once it may be, on any    *)
(* intent that was emitted; the clock is read before the lock is taken.    *)
Reports(id, state, now) ==
    /\ reports < MaxReports
    /\ reports' = reports + 1
    /\ IF ~Holds(intents, id) THEN IntentsRest
       ELSE /\ recency' = Renewed(id)
            /\ IF Entry(intents, id).until <= now
               THEN intents' = Without(intents, id) /\ UNCHANGED claimed
               ELSE /\ intents' = [Touched(intents, id) EXCEPT ![Len(intents)].state = state]
                    /\ claimed' = [claimed EXCEPT ![id].state = state]
    /\ CursorsRest /\ UNCHANGED <<work, hours, limits, begun>>

------------------------------------------------------------------------------
Retunes == limits' \in Limits /\ CursorsRest /\ IntentsRest
           /\ UNCHANGED <<hours, work, begun, reports>>
TimeGoes == hours < MaxHours /\ hours' = hours + 1 /\ CursorsRest /\ IntentsRest
            /\ UNCHANGED <<limits, work, begun, reports>>

CursorNext ==
    \/ Retunes \/ TimeGoes
    \/ \E t \in Tools : \/ Scans(t) \/ Lists(t) \/ Dates(t, "date", "put") \/ Materializes(t)
                        \/ Pages(t) \/ Dates(t, "ask", "page") \/ Serves(t)
IntentNext ==
    \/ TimeGoes
    \/ \E id \in DOMAIN claimed, state \in {"applied", "rejected"}, now \in 0..hours :
          hours <= now + 1 /\ Reports(id, state, now)
    \/ \E t \in Tools : \/ Intends(t) \/ Dates(t, "intend", "register") \/ Registers(t)
                        \/ Dates(t, "wait", "poll") \/ Reads(t)
                        \/ Asks(t) \/ Dates(t, "look", "glance") \/ Glances(t)

CursorSpec == SessionInit /\ [][CursorNext]_sessionVars
IntentSpec == SessionInit /\ [][IntentNext]_sessionVars

------------------------------------------------------------------------------
SessionTypeOK ==
    /\ hours \in 0..MaxHours /\ begun \in 0..MaxWork /\ limits \in Limits
    /\ \A i \in DOMAIN cursors : cursors[i].id \in DOMAIN scans
                                 /\ cursors[i].offset \in 0..Len(cursors[i].rows)
    /\ Len(intents) <= IntentCap
    /\ \A i \in DOMAIN intents : intents[i].id \in DOMAIN claimed

(* Paging without offsets serves the rows of a cursor in their order, none *)
(* twice and none left out, whoever pages (state.rs:537-540), and a digest *)
(* that does not say it was cut has a row for every match of the listing   *)
(* it came from (tools.rs:430-447).                                        *)
PagesAreWhole ==
    \A id \in DOMAIN scans :
        /\ served[id] # Skipping => IsPrefix(served[id], scans[id].rows)
        /\ \A e \in ToSet(cursors) : e.id = id /\ served[id] # Skipping
              => Len(served[id]) = e.offset
        /\ scans[id].whole =>
              ToSet(scans[id].rows) = {i \in DOMAIN scans[id].listing : scans[id].listing[i] = "hit"}

(* An intent that is not over and is among the last of its table's size to *)
(* have been touched is in the table, with the last report on it that was  *)
(* accepted: no caller is told "unknown" or "pending" of such a one        *)
(* (state.rs:188-216, 406-458).                                            *)
ReportsReach ==
    \A i \in DOMAIN recency :
        i + IntentCap > Len(recency) =>
            LET id == recency[i]
            IN IF Holds(intents, id) THEN Entry(intents, id).state = claimed[id].state
               ELSE claimed[id].until <= hours

(* The tables of sessions give each caller what is its own: the rows of a  *)
(* cursor, and the reports on an intent.                                   *)
SessionsAreTrue == PagesAreWhole /\ ReportsReach
=============================================================================
