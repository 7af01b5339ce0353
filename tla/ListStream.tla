----------------------------- MODULE ListStream -----------------------------
(***************************************************************************)
(* Streamed listings, from the pane that asks to the process that lists.   *)
(* The sidecar takes a slot, registers a session, acknowledges it, and a   *)
(* task of its own sends numbered frames of entries, the last of which     *)
(* ends the stream.  Frames of one session keep their order, but they may  *)
(* reach the workbench before the acknowledgement that names the session.  *)
(* A pane abandons its listing at a new navigation.                        *)
(***************************************************************************)
EXTENDS ListDecision, FiniteSets, FiniteSetsExt

CONSTANTS Requests,          \* request ids
          Connections, Paths,
          MaxGlobal, MaxPerConnection,
          Sizes,             \* bound: how many entries a directory may have
          BatchMax,          \* entries of a full frame
          HoldCap            \* frames held back before an acknowledgement

VARIABLES
    session,  \* the task of a request, with what it lists and has read
    flagged,  \* the sessions whose cancel flag is up
    cancels,  \* cancel calls on their way
    wire,     \* frames on their way to the workbench
    pane,     \* what the workbench makes of a request, and whether it missed a frame
    held,     \* its frames that came before the acknowledgement
    memory    \* the decision cache

listVars == <<session, flagged, cancels, wire, pane, held, memory>>

NoSession == [at |-> "none", key |-> <<>>, size |-> 0, read |-> 0, pending |-> 0, seq |-> 0]
NoPane == [at |-> "off", last |-> 0, got |-> 0, missed |-> FALSE]
Frame(seq, entries, end) == [seq |-> seq, entries |-> entries, end |-> end]

ListInit ==
    /\ session = [r \in Requests |-> NoSession]
    /\ flagged = {} /\ cancels = {}
    /\ wire = [r \in Requests |-> <<>>]
    /\ pane = [r \in Requests |-> NoPane]
    /\ held = [r \in Requests |-> <<>>]
    /\ memory = <<>>

Is(r, label) == session[r].at = label
Becomes(r, label) == session' = [session EXCEPT ![r].at = label]
Registered == {r \in Requests : session[r].at \in {"decide", "fast", "spawn", "stream"}}
InSlot == {r \in Requests : Is(r, "ready")} \cup Registered
Here(r) == UNCHANGED <<flagged, cancels, wire, pane, held, memory>>

------------------------------------------------------------------------------
(* The call.                                                               *)
Asks(r) ==
    /\ pane[r].at = "off"
    /\ \E c \in Connections, p \in Paths, n \in Sizes :
          session' = [session EXCEPT ![r] = [NoSession EXCEPT !.at = "asked", !.key = <<c, p>>, !.size = n]]
    /\ pane' = [pane EXCEPT ![r].at = "asking"]
    /\ UNCHANGED <<flagged, cancels, wire, held, memory>>

Connection(r) == session[r].key[1]
Busy(r) ==
    \/ Cardinality(InSlot) >= MaxGlobal
    \/ Cardinality({q \in InSlot : Connection(q) = Connection(r)}) >= MaxPerConnection

(* An error instead of an acknowledgement: the pane falls back to the      *)
(* plain listing; a slot goes with the call.                               *)
Refused(r) ==
    /\ Becomes(r, "over")
    /\ pane' = [pane EXCEPT ![r].at = IF @ = "asking" THEN "fallback" ELSE @]
    /\ UNCHANGED <<flagged, cancels, wire, held, memory>>

IsBusy(r) == Is(r, "asked") /\ Busy(r) /\ Refused(r)
FailsGate(r) == Is(r, "asked") /\ ~Busy(r) /\ Refused(r)
TakesSlot(r) == Is(r, "asked") /\ ~Busy(r) /\ Becomes(r, "ready") /\ Here(r)

(* The group's rcd is there, or it is not to be had.                       *)
LacksGroup(r) == Is(r, "ready") /\ Refused(r)

Registers(r) == Is(r, "ready") /\ Becomes(r, "decide") /\ Here(r)

------------------------------------------------------------------------------
(* The session.  Frames(s, n, end) cuts n entries into frames after those  *)
(* that session s has sent; the last one carries the end.                  *)
Batches(n) == n \div BatchMax
Frames(s, n, end) ==
    [i \in 1..Batches(n) |-> Frame(s.seq + i, BatchMax, "no")]
        \o <<Frame(s.seq + Batches(n) + 1, n % BatchMax, end)>>

(* The end of a session: its last frames, then slot and registration go.   *)
Ends(r, frames) ==
    /\ session' = [session EXCEPT ![r] = [NoSession EXCEPT !.at = "over", !.key = session[r].key,
                                                          !.size = session[r].size]]
    /\ wire' = [wire EXCEPT ![r] = @ \o frames]
    /\ flagged' = flagged \ {r}
    /\ UNCHANGED <<cancels, pane, held>>
Fails(r) == Ends(r, <<Frame(session[r].seq + 1, 0, "error")>>)

Decides(r) ==
    /\ Is(r, "decide")
    /\ Becomes(r, IF EscalateHint(memory, session[r].key) THEN "spawn" ELSE "fast")
    /\ memory' = AfterHint(memory, session[r].key)
    /\ UNCHANGED <<flagged, cancels, wire, pane, held>>

FastLists(r) ==
    /\ Is(r, "fast")
    /\ Ends(r, Frames(session[r], session[r].size, "done"))
    /\ memory' = Record(memory, session[r].key, session[r].size)

FastIsSlow(r) == Is(r, "fast") /\ Becomes(r, "spawn") /\ Here(r)
FastFails(r) == Is(r, "fast") /\ Fails(r) /\ UNCHANGED memory

(* A listing that was canceled says so, for a teardown cancels it without  *)
(* the pane knowing.                                                       *)
(* Mistake: a canceled listing ends without a word.                        *)
CancelsFastSilently(r) == Is(r, "fast") /\ r \in flagged /\ Ends(r, <<>>) /\ UNCHANGED memory
CancelsFast(r) == Is(r, "fast") /\ r \in flagged /\ Fails(r) /\ UNCHANGED memory

Spawns(r) == Is(r, "spawn") /\ Becomes(r, "stream") /\ Here(r)
SpawnFails(r) == Is(r, "spawn") /\ Fails(r) /\ UNCHANGED memory

(* The loop looks for a cancel first, then at the clock, then at a line.   *)
Listening(r) == Is(r, "stream") /\ r \notin flagged

Sends(r, read, entries) ==
    LET s == session[r] IN
    /\ session' = [session EXCEPT ![r] = [s EXCEPT !.read = read, !.pending = 0, !.seq = @ + 1]]
    /\ wire' = [wire EXCEPT ![r] = Append(@, Frame(s.seq + 1, entries, "no"))]
    /\ UNCHANGED <<flagged, cancels, pane, held, memory>>

ReadsEntry(r) ==
    LET s == session[r] IN
    /\ Listening(r)
    /\ s.read < s.size
    /\ IF s.pending + 1 >= BatchMax
       THEN Sends(r, s.read + 1, s.pending + 1)
       ELSE /\ session' = [session EXCEPT ![r].read = @ + 1, ![r].pending = @ + 1]
            /\ Here(r)

Ticks(r) ==
    /\ Listening(r)
    /\ session[r].pending > 0
    /\ Sends(r, session[r].read, session[r].pending)

(* What is still in the batcher goes out before the last frame.            *)
(* Mistake: the last frame overtakes it.                                   *)
RestUnflushed(s) == <<>>
Rest(s) == IF s.pending > 0 THEN <<Frame(s.seq + 1, s.pending, "no")>> ELSE <<>>
Flushed(s, end) == Rest(s) \o <<Frame(s.seq + 1 + Len(Rest(s)), 0, end)>>

Closes(r) ==
    LET s == session[r] IN
    /\ Listening(r)
    /\ s.read = s.size
    /\ Ends(r, Flushed(s, "done"))
    /\ memory' = Record(memory, s.key, s.size)

(* The output ends early, or cannot be read or parsed.                     *)
(* Mistake: what was read so far is recorded.                              *)
BreaksOffCounting(r) ==
    /\ Listening(r)
    /\ Ends(r, Flushed(session[r], "error"))
    /\ memory' = Record(memory, session[r].key, session[r].read)
BreaksOff(r) ==
    /\ Listening(r)
    /\ Ends(r, Flushed(session[r], "error"))
    /\ UNCHANGED memory

(* Canceled, or out of time: the child is killed.                          *)
IsKilled(r) == Is(r, "stream") /\ r \in flagged /\ Fails(r) /\ UNCHANGED memory
TimesOut(r) == Listening(r) /\ Fails(r) /\ UNCHANGED memory

(* listCancel, and the teardown of a group, which cancels all of its own.  *)
Flags(set) == flagged' = flagged \cup (set \cap Registered)

CancelArrives(r) ==
    /\ r \in cancels
    /\ Flags({r})
    /\ cancels' = cancels \ {r}
    /\ UNCHANGED <<session, wire, pane, held, memory>>

KillsGroup ==
    /\ Registered \ flagged # {}
    /\ Flags(Registered)
    /\ UNCHANGED <<session, cancels, wire, pane, held, memory>>

(* A write that lands forgets what it may have changed; so does time.      *)
Writes(c, p) ==
    /\ memory # <<>>
    /\ memory' = InvalidateAround(memory, c, p)
    /\ UNCHANGED <<session, flagged, cancels, wire, pane, held>>

Expires ==
    /\ \E k \in Remembered(memory) : memory' = Forget(memory, k)
    /\ UNCHANGED <<session, flagged, cancels, wire, pane, held>>

------------------------------------------------------------------------------
(* The workbench: handleChunk takes a frame of the session that is newer   *)
(* than the last one, until the session has ended.                         *)
Takes(p, frame) ==
    IF p.at # "reading" \/ frame.seq <= p.last THEN p
    ELSE [last |-> frame.seq, got |-> p.got + frame.entries, missed |-> p.missed,
          at |-> CASE frame.end = "done" -> "whole" [] frame.end = "error" -> "failed" [] OTHER -> p.at]

(* Mistake: frames that nobody claims are dropped.                         *)
HoldsNone(frames, frame) == frames
Holds(frames, frame) == IF Len(frames) < HoldCap THEN Append(frames, frame) ELSE frames

(* p after all of the frames.                                              *)
Replayed(p, frames) ==
    LET after[i \in 0..Len(frames)] == IF i = 0 THEN p ELSE Takes(after[i - 1], frames[i])
    IN after[Len(frames)]

Arrives(r) ==
    /\ wire[r] # <<>>
    /\ wire' = [wire EXCEPT ![r] = Tail(@)]
    /\ IF pane[r].at = "asking"
       THEN /\ held' = [held EXCEPT ![r] = Holds(@, Head(wire[r]))]
            /\ pane' = [pane EXCEPT ![r].missed = @ \/ Len(held[r]) >= HoldCap]
       ELSE pane' = [pane EXCEPT ![r] = Takes(@, Head(wire[r]))] /\ UNCHANGED held
    /\ UNCHANGED <<session, flagged, cancels, memory>>

(* The acknowledgement: held frames are replayed; one for a pane that has  *)
(* moved on cancels the session.                                           *)
Acknowledged(r) == session[r].at \in {"decide", "fast", "spawn", "stream", "over"}

Acks(r) ==
    /\ Acknowledged(r)
    /\ pane[r].at = "asking"
    /\ pane' = [pane EXCEPT ![r] = Replayed([@ EXCEPT !.at = "reading"], held[r])]
    /\ held' = [held EXCEPT ![r] = <<>>]
    /\ UNCHANGED <<session, flagged, cancels, wire, memory>>

AcksLate(r) ==
    /\ Acknowledged(r)
    /\ pane[r].at = "left"
    /\ pane' = [pane EXCEPT ![r].at = "stale"]
    /\ cancels' = cancels \cup {r}
    /\ UNCHANGED <<session, flagged, wire, held, memory>>

Abandons(r) ==
    /\ pane[r].at \in {"asking", "reading"}
    /\ pane' = [pane EXCEPT ![r].at = IF @ = "asking" THEN "left" ELSE "stale"]
    /\ cancels' = IF pane[r].at = "reading" THEN cancels \cup {r} ELSE cancels
    /\ held' = [held EXCEPT ![r] = <<>>]
    /\ UNCHANGED <<session, flagged, wire, memory>>

------------------------------------------------------------------------------
Sidecar(r) ==
    \/ IsBusy(r) \/ FailsGate(r) \/ TakesSlot(r) \/ LacksGroup(r) \/ Registers(r) \/ Decides(r)
    \/ FastLists(r) \/ FastIsSlow(r) \/ FastFails(r) \/ CancelsFast(r)
    \/ Spawns(r) \/ SpawnFails(r) \/ ReadsEntry(r) \/ Ticks(r) \/ Closes(r) \/ BreaksOff(r)
    \/ IsKilled(r) \/ TimesOut(r) \/ CancelArrives(r)
Workbench(r) == Arrives(r) \/ Acks(r) \/ AcksLate(r)

ListNext ==
    \/ \E r \in Requests : Asks(r) \/ Sidecar(r) \/ Workbench(r) \/ Abandons(r)
    \/ KillsGroup
    \/ \E c \in Connections, p \in Paths : Writes(c, p)
    \/ Expires

(* The sidecar and the bridge go on; no timer of the pane is counted on.   *)
ListFairness == \A r \in Requests : WF_listVars(Sidecar(r)) /\ WF_listVars(Workbench(r))
ListSpec == ListInit /\ [][ListNext]_listVars /\ ListFairness

------------------------------------------------------------------------------
Keys == Connections \X Paths
ListTypeOK ==
    /\ session \in [Requests -> [at : {"none", "asked", "ready", "decide", "fast", "spawn",
                                       "stream", "over"},
                                 key : Keys \cup {<<>>}, size : Sizes \cup {0}, read : Nat,
                                 pending : 0..BatchMax, seq : Nat]]
    /\ flagged \subseteq Registered
    /\ cancels \subseteq Requests
    /\ \A r \in Requests : Len(held[r]) <= HoldCap
    /\ pane \in [Requests -> [at : {"off", "asking", "reading", "left", "stale", "fallback", "whole",
                                    "failed"},
                              last : Nat, got : Nat, missed : BOOLEAN]]
    /\ Len(memory) <= Capacity /\ Cardinality(Remembered(memory)) = Len(memory)

(* A listing that the pane takes for whole has every entry, on either      *)
(* path, in whatever frames they came and however late the                 *)
(* acknowledgement, as long as no more of them came before it than are     *)
(* held back: nothing counts those that are dropped.                       *)
DoneIsWhole ==
    \A r \in Requests :
        pane[r].at = "whole" /\ ~pane[r].missed => pane[r].got = session[r].size

(* A pane never waits for ever: every session that is acknowledged ends    *)
(* with a frame that says so, also one that was canceled behind the pane's *)
(* back, and the frame is not lost before the acknowledgement.             *)
PaneSettles == \A r \in Requests : (pane[r].at = "asking") ~> (pane[r].at \notin {"asking", "reading"})

(* What is remembered of a directory is what a listing of it delivered.    *)
CountsAreEarned ==
    \A m \in ToSet(memory) : \E r \in Requests : session[r].key = m.key /\ session[r].at = "over"
                                                 /\ session[r].size = m.count
==============================================================================
