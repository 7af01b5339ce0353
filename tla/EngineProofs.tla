---------------------------- MODULE EngineProofs ----------------------------
(***************************************************************************)
(* Of the rcd groups and of the parts that stand around them:              *)
(*   - the groups: theorems for any connections, groups, threads and       *)
(*     numbers of faults and requests, from a start with nothing connected *)
(*     and from one with every connection in the direct group.  None of    *)
(*     the invariants is inductive alone.  The counters need Fits: a       *)
(*     thread that holds a guard runs its job, drops it, or is on its way  *)
(*     to a client for it.  Forwarders need Minded, which leaves out the   *)
(*     threads that only happen to have the connection in hand; replays    *)
(*     need Restored, which names the thread that has yet to bring back    *)
(*     what is missing;                                                    *)
(*   - the mounts: every gateway that accepts can be stopped, and no claim *)
(*     outlives the request that made it;                                  *)
(*   - the calls on single files: a condition on the target of a call      *)
(*     still holds when it writes, whoever else writes in between;         *)
(*   - the clock: the walk of next_after_in finds the first minute that    *)
(*     fires, for every calendar, zone and expression and days of any      *)
(*     length;                                                             *)
(*   - and the engine, which is any one of these, of the rcd groups and of *)
(*     the MCP server: all its invariants at once.                         *)
(* MCEngine holds the first two as the instances M and F.                  *)
(***************************************************************************)
EXTENDS MCEngine, ServerProofs, FiniteSetTheorems, TLAPS

(***************************************************************************)
(* The rcd groups.                                                         *)
(***************************************************************************)
Ops == [at : Labels, conn : Conns \cup {None}, group : Groups \cup {None},
        then : Labels, else : Labels, to : Groups \cup {None},
        ok : BOOLEAN, retry : BOOLEAN, guard : {"none", "held", "done"},
        todo : SUBSET Conns]

(* The types of all but op.                                                *)
Shelves ==
    /\ rcd \in [Groups -> {"none", "up", "exited"}]
    /\ config \in [Groups -> SUBSET Conns]
    /\ entry \in [Conns -> Groups \cup {None}]
    /\ work \in [Groups -> Nat]
    /\ forwarders \subseteq Tunneled
    /\ sweep \subseteq Groups
    /\ owed \in [Groups -> SUBSET Conns]
    /\ faults \in 0..MaxFaults /\ requests \in 0..MaxRequests

(* A thread on its way to a client, and what it goes there for.            *)
Dialing == {"client", "snapshot", "replay", "reset"}
Errands == {<<"predelete", "prepare">>, <<"create", "release">>, <<"delete", "idle">>,
            <<"call", "idle">>, <<"run", "drop">>, <<"visit", "visit">>}
Dialed(o, errand) == o.at \in Dialing /\ o.then = errand

(* What the place of a thread says of its record.                          *)
Shape(o) ==
    /\ o.at \in Dialing => o.group \in Groups /\ <<o.then, o.else>> \in Errands
    /\ o.at \in {"create", "judge", "insert"} => o.then = "create" /\ o.else = "release"
    /\ o.at \in {"create", "judge", "insert", "mark", "run", "drop"} => o.group \in Groups
    /\ \/ o.at \in {"predelete", "prepare", "create", "judge", "insert", "delete", "remove"}
       \/ Dialed(o, "predelete") \/ Dialed(o, "create") \/ Dialed(o, "delete")
       => o.conn \in Conns
    /\ o.at \in {"predelete", "prepare"} \/ Dialed(o, "predelete") => o.to \in Groups
    /\ o.guard = "held" => /\ o.group \in Groups
                           /\ o.at \in {"run", "drop"} \/ Dialed(o, "run")

KeeperShape(o) ==
    /\ o.guard # "held"
    /\ o.at \in Dialing \cup {"idle", "visit", "kill"}
    /\ o.at \in Dialing => o.then = "visit" /\ o.else = "visit"

Fits(a, o) == o \in Ops /\ Shape(o) /\ (a = Keeper => KeeperShape(o))
Threads == op \in [Actors -> Ops] /\ \A a \in Actors : Fits(a, op[a])

(* A forwarder without a registered connection has a thread that registers *)
(* the connection or takes the forwarder down.                             *)
Minding(o, c) ==
    /\ o.conn = c
    /\ o.at \in {"create", "judge", "insert", "release", "untunnel"} \/ Dialed(o, "create")
Minded == \A c \in forwarders : entry[c] = None => \E a \in Workers : Minding(op[a], c)

(* A thread that brings back all that is missing, or resets the group.     *)
Restoring(o, g) ==
    /\ o.group = g /\ o.ok
    /\ o.at = "reset" \/ (o.at = "replay" /\ owed[g] \subseteq config[g] \cup o.todo)
Restored ==
    \A g \in Groups : rcd[g] = "up" =>
        owed[g] \subseteq config[g] \/ \E a \in Actors : Restoring(op[a], g)

GroupsInv == Shelves /\ Threads /\ WorkCounts /\ Minded /\ Restored

------------------------------------------------------------------------------
(* What a step does to the record of its thread, and what it leaves: the   *)
(* guard, and whoever minds a forwarder.                                   *)
Quiet(a, o) ==
    /\ o.guard = "held" <=> op[a].guard = "held"
    /\ o.guard = "held" => o.group = op[a].group
Heeds(a, o) == \A c : Minding(op[a], c) => Minding(o, c)

Hushed(o) == [o EXCEPT !.ok = FALSE]
Cuts(gs, a, o) ==
    op' = [b \in Actors |-> IF b = a THEN o
                            ELSE IF op[b].group \in gs THEN Hushed(op[b]) ELSE op[b]]

(* The other threads keep what is said of them.                            *)
LEMMA HushedFits ==
    ASSUME NEW a, NEW o, Fits(a, o)
    PROVE  Fits(a, Hushed(o))
BY DEF Fits, Ops, Shape, KeeperShape, Hushed, Dialed

LEMMA StepFits ==
    ASSUME Threads, NEW a \in Actors, NEW o, Fits(a, o), Steps(a, o)
    PROVE  Threads'
BY DEF Threads, Steps, Fits

LEMMA CutFits ==
    ASSUME Threads, NEW a, NEW o, a \in Actors => Fits(a, o), NEW gs, Cuts(gs, a, o)
    PROVE  Threads'
<1>1. ASSUME NEW b \in Actors
      PROVE  Fits(b, op'[b])
  BY <1>1, HushedFits DEF Threads, Cuts
<1>2. \A b \in Actors : op'[b] \in Ops
  BY <1>1 DEF Fits
<1>3. op' \in [Actors -> Ops]
  BY <1>2 DEF Cuts
<1> QED
  BY <1>1, <1>3 DEF Threads, Fits

------------------------------------------------------------------------------
(* The record a thread has after each of its steps.                        *)
Turns(a) == \E o : Fits(a, o) /\ Quiet(a, o) /\ Heeds(a, o) /\ Steps(a, o)

LEMMA TurnsBy ==
    ASSUME NEW a, NEW o, Fits(a, o), Quiet(a, o), Heeds(a, o), Steps(a, o)
    PROVE  Turns(a)
BY DEF Turns

LEMMA DialTurns ==
    ASSUME Threads, NEW a \in Actors,
           \/ FindsRunning(a) \/ SpawnFails(a) \/ Snapshot(a)
           \/ Replays(a) \/ ReplayFails(a) \/ ReplayEnds(a)
    PROVE  Turns(a)
<1> USE DEF At, Goes
<1>0. Fits(a, op[a])
  BY DEF Threads
<1>1. CASE FindsRunning(a)
  <2> DEFINE o == [op[a] EXCEPT !.at = op[a].then, !.ok = TRUE]
  <2>1. Fits(a, o)
    BY <1>0, <1>1 DEF FindsRunning, Fits, Ops, Shape, KeeperShape, Dialed, Dialing, Errands
  <2>2. Quiet(a, o) /\ Heeds(a, o)
    BY <1>0, <1>1 DEF FindsRunning, Fits, Ops, Shape, KeeperShape, Dialed, Dialing, Errands, Labels, Idle, Quiet, Heeds, Minding
  <2> QED
    BY <1>1, <2>1, <2>2, TurnsBy DEF FindsRunning
<1>2. CASE SpawnFails(a)
  <2> DEFINE o == [op[a] EXCEPT !.at = op[a].else]
  <2>1. Fits(a, o)
    BY <1>0, <1>2 DEF SpawnFails, Fits, Ops, Shape, KeeperShape, Dialed, Dialing, Errands, Labels, Idle
  <2>2. Quiet(a, o) /\ Heeds(a, o)
    BY <1>0, <1>2 DEF SpawnFails, Fits, Ops, Shape, KeeperShape, Dialed, Dialing, Errands, Labels, Idle, Quiet, Heeds, Minding
  <2> QED
    BY <1>2, <2>1, <2>2, TurnsBy DEF SpawnFails
<1>3. CASE Snapshot(a)
  <2> DEFINE o == [op[a] EXCEPT !.at = "replay", !.todo = InGroup(op[a].group)]
  <2>1. Fits(a, o)
    BY <1>0, <1>3 DEF Snapshot, InGroup, Fits, Ops, Shape, KeeperShape, Dialed, Dialing, Errands, Labels, Idle
  <2>2. Quiet(a, o) /\ Heeds(a, o)
    BY <1>0, <1>3 DEF Snapshot, InGroup, Fits, Ops, Shape, KeeperShape, Dialed, Dialing, Errands, Labels, Idle, Quiet, Heeds, Minding
  <2> QED
    BY <1>3, <2>1, <2>2, TurnsBy DEF Snapshot, InGroup
<1>4. CASE ReplayFails(a)
  <2> DEFINE o == [op[a] EXCEPT !.at = "reset"]
  <2>1. Fits(a, o)
    BY <1>0, <1>4 DEF ReplayFails, Fits, Ops, Shape, KeeperShape, Dialed, Dialing, Errands, Labels, Idle
  <2>2. Quiet(a, o) /\ Heeds(a, o)
    BY <1>0, <1>4 DEF ReplayFails, Fits, Ops, Shape, KeeperShape, Dialed, Dialing, Errands, Labels, Idle, Quiet, Heeds, Minding
  <2> QED
    BY <1>4, <2>1, <2>2, TurnsBy DEF ReplayFails
<1>5. CASE ReplayEnds(a)
  <2> DEFINE o == [op[a] EXCEPT !.at = op[a].then]
  <2>1. Fits(a, o)
    BY <1>0, <1>5 DEF ReplayEnds, Fits, Ops, Shape, KeeperShape, Dialed, Dialing, Errands, Labels, Idle
  <2>2. Quiet(a, o) /\ Heeds(a, o)
    BY <1>0, <1>5 DEF ReplayEnds, Fits, Ops, Shape, KeeperShape, Dialed, Dialing, Errands, Labels, Idle, Quiet, Heeds, Minding
  <2> QED
    BY <1>5, <2>1, <2>2, TurnsBy DEF ReplayEnds
<1>6. CASE Replays(a)
  <2>1. PICK c \in op[a].todo : Steps(a, [op[a] EXCEPT !.todo = @ \ {c}])
    BY <1>6 DEF Replays
  <2> DEFINE o == [op[a] EXCEPT !.todo = @ \ {c}]
  <2>2. Fits(a, o)
    BY <1>0 DEF Fits, Ops, Shape, KeeperShape, Dialed, Dialing, Errands, Labels, Idle
  <2>3. Quiet(a, o) /\ Heeds(a, o)
    BY <1>0 DEF Fits, Ops, Shape, KeeperShape, Dialed, Dialing, Errands, Labels, Idle, Quiet, Heeds, Minding
  <2> QED
    BY <2>1, <2>2, <2>3, TurnsBy
<1> QED
  BY <1>1, <1>2, <1>3, <1>4, <1>5, <1>6

LEMMA ErrandTurns ==
    ASSUME Shelves, Threads, NEW a \in Actors,
           \/ Predeletes(a) \/ Prepares(a) \/ EstablishFails(a) \/ Creates(a)
           \/ CreateFails(a) \/ Judges(a) \/ Deletes(a) \/ Removes(a) \/ Calls(a)
    PROVE  Turns(a)
<1> USE DEF At, Goes, Ends
<1>0. Fits(a, op[a])
  BY DEF Threads
<1>1. CASE Predeletes(a)
  <2> DEFINE o == [op[a] EXCEPT !.at = "prepare"]
  <2>1. Fits(a, o)
    BY <1>0, <1>1 DEF Predeletes, Fits, Ops, Shape, KeeperShape, Dialed, Dialing, Errands, Labels, Idle
  <2>2. Quiet(a, o) /\ Heeds(a, o)
    BY <1>0, <1>1 DEF Predeletes, Fits, Ops, Shape, KeeperShape, Dialed, Dialing, Errands, Labels, Idle, Quiet, Heeds, Minding
  <2> QED
    BY <1>1, <2>1, <2>2, TurnsBy DEF Predeletes
<1>2. CASE Prepares(a)
  <2> DEFINE o == Dials(a)
  <2>1. Fits(a, o)
    <3>1. op[a] \in Ops /\ op[a].conn \in Conns /\ op[a].to \in Groups
      BY <1>0, <1>2 DEF Prepares, Fits, Shape
    <3>2. o \in Ops
      <4>1. "client" \in Labels /\ "create" \in Labels /\ "release" \in Labels
        BY DEF Labels
      <4> QED
        BY <3>1, <4>1 DEF Dials, Ops
    <3>3. /\ o.at = "client" /\ o.then = "create" /\ o.else = "release"
          /\ o.conn = op[a].conn /\ o.group = op[a].to /\ o.guard = op[a].guard
      BY <3>1 DEF Dials, Ops
    <3>4. op[a].guard # "held" /\ a # Keeper
      BY <1>0, <1>2 DEF Prepares, Fits, Shape, KeeperShape, Dialed, Dialing
    <3> QED
      BY <3>1, <3>2, <3>3, <3>4 DEF Fits, Shape, Dialed, Dialing, Errands
  <2>2. Quiet(a, o) /\ Heeds(a, o)
    BY <1>0, <1>2 DEF Prepares, Dials, Fits, Ops, Shape, KeeperShape, Dialed, Dialing, Errands, Labels, Idle, Quiet, Heeds, Minding
  <2> QED
    BY <1>2, <2>1, <2>2, TurnsBy DEF Prepares, Dials
<1>3. CASE EstablishFails(a)
  <2> DEFINE o == Idle
  <2>1. Fits(a, o)
    BY <1>0, <1>3 DEF EstablishFails, Fits, Ops, Shape, KeeperShape, Dialed, Dialing, Errands, Labels, Idle
  <2>2. Quiet(a, o) /\ Heeds(a, o)
    BY <1>0, <1>3 DEF EstablishFails, Fits, Ops, Shape, KeeperShape, Dialed, Dialing, Errands, Labels, Idle, Quiet, Heeds, Minding
  <2> QED
    BY <1>3, <2>1, <2>2, TurnsBy DEF EstablishFails
<1>4. CASE Creates(a)
  <2> DEFINE o == [op[a] EXCEPT !.at = "insert"]
  <2>1. Fits(a, o)
    BY <1>0, <1>4 DEF Creates, Fits, Ops, Shape, KeeperShape, Dialed, Dialing, Errands, Labels, Idle
  <2>2. Quiet(a, o) /\ Heeds(a, o)
    BY <1>0, <1>4 DEF Creates, Fits, Ops, Shape, KeeperShape, Dialed, Dialing, Errands, Labels, Idle, Quiet, Heeds, Minding
  <2> QED
    BY <1>4, <2>1, <2>2, TurnsBy DEF Creates
<1>5. CASE CreateFails(a)
  <2> DEFINE o == [op[a] EXCEPT !.at = IF op[a].retry THEN "release" ELSE "judge"]
  <2>1. Fits(a, o)
    BY <1>0, <1>5 DEF CreateFails, Fits, Ops, Shape, KeeperShape, Dialed, Dialing, Errands, Labels, Idle
  <2>2. Quiet(a, o) /\ Heeds(a, o)
    BY <1>0, <1>5 DEF CreateFails, Fits, Ops, Shape, KeeperShape, Dialed, Dialing, Errands, Labels, Idle, Quiet, Heeds, Minding
  <2> QED
    BY <1>5, <2>1, <2>2, TurnsBy DEF CreateFails
<1>6. CASE Judges(a)
  <2> DEFINE o == IF rcd[op[a].group] = "exited"
             THEN [op[a] EXCEPT !.at = "client", !.ok = FALSE, !.retry = TRUE]
             ELSE [op[a] EXCEPT !.at = "release"]
  <2>1. Fits(a, o)
    BY <1>0, <1>6 DEF Judges, Fits, Ops, Shape, KeeperShape, Dialed, Dialing, Errands, Labels, Idle
  <2>2. Quiet(a, o) /\ Heeds(a, o)
    BY <1>0, <1>6 DEF Judges, Fits, Ops, Shape, KeeperShape, Dialed, Dialing, Errands, Labels, Idle, Quiet, Heeds, Minding
  <2> QED
    BY <1>6, <2>1, <2>2, TurnsBy DEF Judges
<1>7. CASE Deletes(a)
  <2> DEFINE o == [op[a] EXCEPT !.at = IF entry[op[a].conn] = None THEN "untunnel" ELSE "remove"]
  <2>1. Fits(a, o)
    BY <1>0, <1>7 DEF Deletes, Fits, Ops, Shape, KeeperShape, Dialed, Dialing, Errands, Labels, Idle
  <2>2. Quiet(a, o) /\ Heeds(a, o)
    BY <1>0, <1>7 DEF Deletes, Fits, Ops, Shape, KeeperShape, Dialed, Dialing, Errands, Labels, Idle, Quiet, Heeds, Minding
  <2> QED
    BY <1>7, <2>1, <2>2, TurnsBy DEF Deletes
<1>8. CASE Removes(a)
  <2> DEFINE o == [op[a] EXCEPT !.at = "untunnel"]
  <2>1. Fits(a, o)
    BY <1>0, <1>8 DEF Removes, Fits, Ops, Shape, KeeperShape, Dialed, Dialing, Errands, Labels, Idle
  <2>2. Quiet(a, o) /\ Heeds(a, o)
    BY <1>0, <1>8 DEF Removes, Fits, Ops, Shape, KeeperShape, Dialed, Dialing, Errands, Labels, Idle, Quiet, Heeds, Minding
  <2> QED
    BY <1>8, <2>1, <2>2, TurnsBy DEF Removes
<1>9. CASE Calls(a)
  <2> DEFINE o == Idle
  <2>1. Fits(a, o)
    BY <1>0, <1>9 DEF Calls, Fits, Ops, Shape, KeeperShape, Dialed, Dialing, Errands, Labels, Idle
  <2>2. Quiet(a, o) /\ Heeds(a, o)
    BY <1>0, <1>9 DEF Calls, Fits, Ops, Shape, KeeperShape, Dialed, Dialing, Errands, Labels, Idle, Quiet, Heeds, Minding
  <2> QED
    BY <1>9, <2>1, <2>2, TurnsBy DEF Calls
<1> QED
  BY <1>1, <1>2, <1>3, <1>4, <1>5, <1>6, <1>7, <1>8, <1>9

LEMMA BeginsTurns ==
    ASSUME Shelves, Threads, NEW a \in Workers, Begins(a)
    PROVE  Turns(a)
<1> USE DEF At
<1>0. a \in Actors /\ a # Keeper /\ Fits(a, op[a])
  BY KeeperAssumption DEF Threads, Actors
<1>1. ASSUME NEW c \in Conns, NEW g \in Groups, Connects(a, c, g)
      PROVE  Turns(a)
  <2> DEFINE o == [Idle EXCEPT !.conn = c, !.to = g,
                    !.at = IF entry[c] \in Groups \ {g} THEN "client" ELSE "prepare",
                    !.group = IF entry[c] \in Groups \ {g} THEN entry[c] ELSE None,
                    !.then = "predelete", !.else = "prepare"]
  <2>1. Fits(a, o)
    <3>1. "idle" \in Labels /\ "client" \in Labels /\ "prepare" \in Labels /\ "predelete" \in Labels
      BY DEF Labels
    <3>2. o \in Ops
      BY <1>0, <1>1, <3>1 DEF Connects, Shelves, Ops, Idle
    <3>3. Shape(o)
      BY <1>0, <1>1 DEF Connects, Shelves, Shape, Dialed, Dialing, Errands, Idle
    <3> QED
      BY <1>0, <3>2, <3>3 DEF Fits
  <2>2. Quiet(a, o) /\ Heeds(a, o)
    BY <1>0, <1>1 DEF Connects, Fits, Ops, Shape, Dialed, Dialing, Errands, Labels, Idle, Quiet, Heeds, Minding
  <2> QED
    BY <1>1, <2>1, <2>2, TurnsBy DEF Connects
<1>2. ASSUME NEW c \in Conns, Disconnects(a, c)
      PROVE  Turns(a)
  <2> DEFINE o == [Idle EXCEPT !.conn = c, !.group = entry[c], !.at = "client", !.then = "delete"]
  <2>1. Fits(a, o)
    <3>1. "idle" \in Labels /\ "client" \in Labels /\ "delete" \in Labels
      BY DEF Labels
    <3>2. o \in Ops
      BY <1>0, <1>2, <3>1 DEF Disconnects, Shelves, Ops, Idle
    <3>3. Shape(o)
      BY <1>0, <1>2 DEF Disconnects, Shelves, Shape, Dialed, Dialing, Errands, Idle
    <3> QED
      BY <1>0, <3>2, <3>3 DEF Fits
  <2>2. Quiet(a, o) /\ Heeds(a, o)
    BY <1>0, <1>2 DEF Disconnects, Fits, Ops, Shape, Dialed, Dialing, Errands, Labels, Idle, Quiet, Heeds, Minding
  <2> QED
    BY <1>2, <2>1, <2>2, TurnsBy DEF Disconnects
<1>3. ASSUME NEW c \in Conns, Uses(a, c)
      PROVE  Turns(a)
  <2> DEFINE o == [Idle EXCEPT !.conn = c, !.group = entry[c], !.at = "client", !.then = "call"]
  <2>1. Fits(a, o)
    BY <1>0, <1>3 DEF Uses, Shelves, Fits, Ops, Shape, Dialed, Dialing, Errands, Labels, Idle
  <2>2. Quiet(a, o) /\ Heeds(a, o)
    BY <1>0, <1>3 DEF Uses, Fits, Ops, Shape, Dialed, Dialing, Errands, Labels, Idle, Quiet, Heeds, Minding
  <2> QED
    BY <1>3, <2>1, <2>2, TurnsBy DEF Uses
<1>4. ASSUME NEW c \in Conns, TakesJob(a, c)
      PROVE  Turns(a)
  <2> DEFINE o == [Idle EXCEPT !.conn = c, !.group = entry[c], !.at = "mark"]
  <2>1. Fits(a, o)
    BY <1>0, <1>4 DEF TakesJob, Shelves, Fits, Ops, Shape, Dialed, Dialing, Errands, Labels, Idle
  <2>2. Quiet(a, o) /\ Heeds(a, o)
    BY <1>0, <1>4 DEF TakesJob, Fits, Ops, Shape, Dialed, Dialing, Errands, Labels, Idle, Quiet, Heeds, Minding
  <2> QED
    BY <1>4, <2>1, <2>2, TurnsBy DEF TakesJob
<1> QED
  BY <1>1, <1>2, <1>3, <1>4 DEF Begins

LEMMA KeeperTurns ==
    ASSUME Shelves, Threads, SweepStarts \/ Visits \/ Reaps
    PROVE  Turns(Keeper)
<1> USE DEF At, Goes
<1>0. Keeper \in Actors /\ Fits(Keeper, op[Keeper])
  BY DEF Threads, Actors
<1>1. CASE SweepStarts
  <2> DEFINE o == [op[Keeper] EXCEPT !.at = "visit"]
  <2>1. Fits(Keeper, o)
    BY <1>0, <1>1 DEF SweepStarts, Fits, Ops, Shape, KeeperShape, Dialed, Dialing, Errands, Labels, Idle
  <2>2. Quiet(Keeper, o) /\ Heeds(Keeper, o)
    BY <1>0, <1>1 DEF SweepStarts, Fits, Ops, Shape, KeeperShape, Dialed, Dialing, Errands, Labels, Idle, Quiet, Heeds, Minding
  <2> QED
    BY <1>1, <2>1, <2>2, TurnsBy DEF SweepStarts
<1>2. CASE Reaps
  <2> DEFINE o == [op[Keeper] EXCEPT !.at = "kill"]
  <2>1. Fits(Keeper, o)
    BY <1>0, <1>2 DEF Reaps, Fits, Ops, Shape, KeeperShape, Dialed, Dialing, Errands, Labels, Idle
  <2>2. Quiet(Keeper, o) /\ Heeds(Keeper, o)
    BY <1>0, <1>2 DEF Reaps, Fits, Ops, Shape, KeeperShape, Dialed, Dialing, Errands, Labels, Idle, Quiet, Heeds, Minding
  <2> QED
    BY <1>2, <2>1, <2>2, TurnsBy DEF Reaps
<1>3. CASE Visits
  <2>1. PICK g \in Groups :
            Steps(Keeper, [Idle EXCEPT !.at = "client", !.then = "visit", !.else = "visit",
                                       !.group = g])
    BY <1>3, DirectAssumption DEF Visits, Shelves
  <2> DEFINE o == [Idle EXCEPT !.at = "client", !.then = "visit", !.else = "visit", !.group = g]
  <2>2. Fits(Keeper, o)
    BY DEF Fits, Ops, Shape, KeeperShape, Dialed, Dialing, Errands, Labels, Idle
  <2>3. Quiet(Keeper, o) /\ Heeds(Keeper, o)
    BY <1>0, <1>3 DEF Visits, Fits, Ops, Shape, KeeperShape, Dialed, Dialing, Errands, Labels, Idle, Quiet, Heeds, Minding
  <2> QED
    BY <2>1, <2>2, <2>3, TurnsBy
<1> QED
  BY <1>1, <1>2, <1>3

(* The steps that change hands of a guard or of a forwarder.               *)
LEMMA HandsFit ==
    ASSUME Threads, NEW a \in Actors,
           \/ Inserts(a) \/ Releases(a) \/ Untunnels(a)
           \/ StartsWork(a) \/ JobEnds(a) \/ DropsGuard(a)
    PROVE  Threads'
<1> USE DEF At, Goes, Ends
<1>0. Fits(a, op[a]) /\ Fits(a, Idle)
  BY DEF Threads, Fits, Ops, Shape, KeeperShape, Dialed, Dialing, Labels, Idle
<1>1. CASE Inserts(a) \/ Releases(a) \/ DropsGuard(a)
  BY <1>0, <1>1, StepFits DEF Inserts, Releases, DropsGuard
<1>2. CASE Untunnels(a)
  <2> DEFINE o == [op[a] EXCEPT !.at = "teardown"]
  <2>1. Fits(a, o)
    BY <1>0, <1>2 DEF Untunnels, Fits, Ops, Shape, KeeperShape, Dialed, Dialing, Errands, Labels
  <2> QED
    BY <1>0, <1>2, <2>1, StepFits DEF Untunnels
<1>3. CASE StartsWork(a)
  <2> DEFINE o == [op[a] EXCEPT !.at = "client", !.then = "run", !.else = "drop", !.guard = "held"]
  <2>1. Fits(a, o)
    <3>1. "client" \in Labels /\ "run" \in Labels /\ "drop" \in Labels
      BY DEF Labels
    <3>2. o \in Ops
      BY <1>0, <3>1 DEF Fits, Ops
    <3>3. Shape(o) /\ a # Keeper
      BY <1>0, <1>3 DEF StartsWork, Fits, Ops, Shape, KeeperShape, Dialed, Dialing, Errands
    <3> QED
      BY <3>2, <3>3 DEF Fits
  <2> QED
    BY <1>0, <1>3, <2>1, StepFits DEF StartsWork
<1>4. CASE JobEnds(a)
  <2> DEFINE o == [op[a] EXCEPT !.at = "drop", !.guard = "done"]
  <2>1. Fits(a, o)
    <3>1. "drop" \in Labels
      BY DEF Labels
    <3>2. o \in Ops
      BY <1>0, <3>1 DEF Fits, Ops
    <3>3. Shape(o) /\ a # Keeper
      BY <1>0, <1>4 DEF JobEnds, Fits, Ops, Shape, KeeperShape, Dialed, Dialing, Errands
    <3> QED
      BY <3>2, <3>3 DEF Fits
  <2> QED
    BY <1>0, <1>4, <2>1, StepFits DEF JobEnds
<1> QED
  BY <1>1, <1>2, <1>3, <1>4

------------------------------------------------------------------------------
(* A step is calm if no guard and no forwarder changes hands by it.        *)
Calm == Threads' /\ \A b \in Actors : Quiet(b, op'[b]) /\ Heeds(b, op'[b])

LEMMA HushedIsQuiet ==
    ASSUME Threads, NEW a \in Actors
    PROVE  /\ Quiet(a, op[a]) /\ Heeds(a, op[a])
           /\ Quiet(a, Hushed(op[a])) /\ Heeds(a, Hushed(op[a]))
BY DEF Threads, Fits, Ops, Quiet, Heeds, Minding, Hushed, Dialed

LEMMA TurnsAreCalm ==
    ASSUME Threads, NEW a \in Actors, Turns(a)
    PROVE  Calm
<1>1. PICK o : Fits(a, o) /\ Quiet(a, o) /\ Heeds(a, o) /\ Steps(a, o)
  BY DEF Turns
<1>2. \A b \in Actors : op'[b] = IF b = a THEN o ELSE op[b]
  BY <1>1 DEF Steps, Threads
<1> QED
  BY <1>1, <1>2, StepFits, HushedIsQuiet DEF Calm

LEMMA CutsAreCalm ==
    ASSUME Threads, NEW a, NEW o, NEW gs, Cuts(gs, a, o),
           a \in Actors => Fits(a, o) /\ Quiet(a, o) /\ Heeds(a, o)
    PROVE  Calm
<1>1. \A b \in Actors : op'[b] \in {op[b], Hushed(op[b])} \/ (b = a /\ op'[b] = o)
  BY DEF Cuts
<1> QED
  BY <1>1, CutFits, HushedIsQuiet DEF Calm

LEMMA ShutdownIsCalm ==
    ASSUME Threads, NEW a \in Actors, NEW o, NEW gs, ShutsDown(gs, a, o),
           Fits(a, o), Quiet(a, o), Heeds(a, o)
    PROVE  Calm
<1>1. Cuts(gs, a, o)
  BY DEF ShutsDown, Cuts, Hushed
<1> QED
  BY <1>1, CutsAreCalm

LEMMA RcdStepsAreCalm ==
    ASSUME Threads, NEW a \in Actors,
           \/ Spawns(a) \/ ResetsGroup(a) \/ TearsDown(a)
           \/ (a = Keeper /\ Kills) \/ \E g \in Groups : Crashes(g)
    PROVE  Calm
<1> USE DEF At
<1>0. Fits(a, op[a]) /\ Fits(a, Idle)
  BY DEF Threads, Fits, Ops, Shape, KeeperShape, Dialed, Dialing, Labels, Idle
<1>1. CASE Spawns(a)
  <2> DEFINE o == [op[a] EXCEPT !.at = "snapshot", !.ok = TRUE]
  <2>1. Fits(a, o)
    <3>1. op[a] \in Ops /\ "snapshot" \in Labels
      BY <1>0 DEF Fits, Labels
    <3>2. o \in Ops
      BY <3>1 DEF Ops
    <3>3. Shape(o) /\ (a = Keeper => KeeperShape(o))
      BY <1>0, <1>1, <3>1 DEF Spawns, Fits, Ops, Shape, KeeperShape, Dialed, Dialing
    <3> QED
      BY <3>2, <3>3 DEF Fits
  <2>2. Quiet(a, o) /\ Heeds(a, o)
    BY <1>0, <1>1 DEF Spawns, Fits, Ops, Quiet, Heeds, Minding, Dialed, Dialing
  <2>3. Cuts({op[a].group}, a, o)
    BY <1>1 DEF Spawns, Cut, Cuts, Hushed
  <2> QED
    BY <2>1, <2>2, <2>3, CutsAreCalm
<1>2. CASE ResetsGroup(a)
  <2> DEFINE o == [op[a] EXCEPT !.at = op[a].else, !.ok = FALSE, !.todo = {}]
  <2>1. Fits(a, o)
    <3>1. op[a] \in Ops
      BY <1>0 DEF Fits
    <3>2. o \in Ops
      BY <3>1 DEF Ops
    <3>3. Shape(o) /\ (a = Keeper => KeeperShape(o))
      BY <1>0, <1>2, <3>1 DEF ResetsGroup, Fits, Ops, Shape, KeeperShape, Dialed, Dialing, Errands
    <3> QED
      BY <3>2, <3>3 DEF Fits
  <2>2. Quiet(a, o) /\ Heeds(a, o)
    BY <1>0, <1>2
    DEF ResetsGroup, Fits, Ops, Shape, Quiet, Heeds, Minding, Dialed, Dialing, Errands
  <2> QED
    BY <1>2, <2>1, <2>2, ShutdownIsCalm DEF ResetsGroup
<1>3. CASE TearsDown(a)
  <2>1. Quiet(a, Idle) /\ Heeds(a, Idle)
    BY <1>0, <1>3 DEF TearsDown, Idle, Fits, Shape, Quiet, Heeds, Minding, Dialed, Dialing
  <2> QED
    BY <1>0, <1>3, <2>1, ShutdownIsCalm DEF TearsDown
<1>4. CASE a = Keeper /\ Kills
  <2>1. Quiet(a, Idle) /\ Heeds(a, Idle)
    BY <1>0, <1>4 DEF Kills, Idle, Fits, KeeperShape, Quiet, Heeds, Minding, Dialed, Dialing
  <2> QED
    BY <1>0, <1>4, <2>1, ShutdownIsCalm DEF Kills
<1>5. ASSUME NEW g \in Groups, Crashes(g)
      PROVE  Calm
  <2>1. Cuts({g}, a, IF op[a].group = g THEN Hushed(op[a]) ELSE op[a])
    BY <1>5 DEF Crashes, Cut, Cuts, Hushed
  <2> QED
    BY <1>0, <2>1, CutsAreCalm, HushedFits, HushedIsQuiet
<1> QED
  BY <1>1, <1>2, <1>3, <1>4, <1>5

HandsOver(a) ==
    \/ Inserts(a) \/ Releases(a) \/ Untunnels(a)
    \/ StartsWork(a) \/ JobEnds(a) \/ DropsGuard(a)

LEMMA CalmSteps ==
    ASSUME Shelves, Threads, [Next]_vars, \A a \in Actors : ~HandsOver(a)
    PROVE  Calm
<1> USE DEF HandsOver
<1>1. CASE UNCHANGED vars
  BY <1>1, HushedIsQuiet DEF vars, Calm, Threads, Fits
<1>2. ASSUME NEW a \in Workers, Begins(a)
      PROVE  Calm
  BY <1>2, BeginsTurns, TurnsAreCalm DEF Actors
<1>3. ASSUME NEW a \in Actors, Proceeds(a)
      PROVE  Calm
  <2>1. CASE Spawns(a) \/ ResetsGroup(a) \/ TearsDown(a)
    BY <2>1, RcdStepsAreCalm
  <2>2. CASE \/ FindsRunning(a) \/ SpawnFails(a) \/ Snapshot(a)
             \/ Replays(a) \/ ReplayFails(a) \/ ReplayEnds(a)
    BY <2>2, DialTurns, TurnsAreCalm
  <2>3. CASE \/ Predeletes(a) \/ Prepares(a) \/ EstablishFails(a) \/ Creates(a)
             \/ CreateFails(a) \/ Judges(a) \/ Deletes(a) \/ Removes(a) \/ Calls(a)
    BY <2>3, ErrandTurns, TurnsAreCalm
  <2> QED
    BY <1>3, <2>1, <2>2, <2>3 DEF Proceeds
<1>4. CASE SweepStarts \/ Visits \/ Reaps
  BY <1>4, KeeperTurns, TurnsAreCalm DEF Actors
<1>5. CASE Kills \/ \E g \in Groups : Crashes(g)
  BY <1>5, RcdStepsAreCalm DEF Actors
<1> QED
  BY <1>1, <1>2, <1>3, <1>4, <1>5 DEF Next, Actors

LEMMA ThreadsStep ==
    ASSUME Shelves, Threads, [Next]_vars
    PROVE  Threads'
BY CalmSteps, HandsFit DEF HandsOver, Calm

------------------------------------------------------------------------------
(* The types of what the threads share.                                    *)
LEMMA ShutdownShelves ==
    ASSUME Shelves, NEW gs, NEW a, NEW o, ShutsDown(gs, a, o)
    PROVE  /\ rcd' \in [Groups -> {"none", "up", "exited"}]
           /\ config' \in [Groups -> SUBSET Conns]
           /\ owed' \in [Groups -> SUBSET Conns]
BY DEF Shelves, ShutsDown

LEMMA ProceedsShelves ==
    ASSUME Shelves, Threads, NEW a \in Actors, Proceeds(a)
    PROVE  Shelves'
<1> USE DEF At, Goes, Ends, Fault, registry, budget, InGroup
<1> USE BoundsAssumption
<1>0. Fits(a, op[a])
  BY DEF Threads
<1>1. CASE \/ FindsRunning(a) \/ SpawnFails(a) \/ ReplayFails(a) \/ ReplayEnds(a)
           \/ Judges(a) \/ Calls(a)
  BY <1>1 DEF Shelves, FindsRunning, SpawnFails, ReplayFails, ReplayEnds, Judges, Calls
<1>2. CASE Spawns(a) \/ Snapshot(a)
  BY <1>2 DEF Shelves, Spawns, Snapshot
<1>3. CASE Replays(a)
  <2>1. PICK c \in op[a].todo : config' = [config EXCEPT ![op[a].group] = @ \cup {c}]
    BY <1>3 DEF Replays
  <2>2. c \in Conns
    BY <1>0 DEF Fits, Ops
  <2> QED
    BY <1>3, <2>1, <2>2 DEF Shelves, Replays
<1>4. CASE ResetsGroup(a)
  BY <1>4, ShutdownShelves DEF Shelves, ResetsGroup
<1>5. CASE TearsDown(a)
  BY <1>5, ShutdownShelves DEF Shelves, TearsDown
<1>6. CASE Predeletes(a)
  BY <1>6 DEF Shelves, Predeletes
<1>7. CASE Deletes(a)
  BY <1>7 DEF Shelves, Deletes
<1>8. CASE Creates(a)
  <2>1. op[a].conn \in Conns
    BY <1>0, <1>8 DEF Fits, Shape, Creates
  <2> QED
    BY <1>8, <2>1 DEF Shelves, Creates
<1>9. CASE CreateFails(a)
  <2>1. /\ config' \in [Groups -> SUBSET Conns] /\ owed' \in [Groups -> SUBSET Conns]
        /\ faults' \in 0..MaxFaults /\ requests' = requests
    BY <1>9 DEF Shelves, CreateFails
  <2> QED
    BY <1>9, <2>1 DEF Shelves, CreateFails
<1>10. CASE Prepares(a) \/ EstablishFails(a) \/ Releases(a) \/ Untunnels(a)
  BY <1>10 DEF Shelves, Prepares, EstablishFails, Releases, Untunnels
<1>11. CASE Inserts(a)
  <2>1. op[a].group \in Groups
    BY <1>0, <1>11 DEF Fits, Shape, Inserts
  <2> QED
    BY <1>11, <2>1 DEF Shelves, Inserts
<1>12. CASE Removes(a)
  BY <1>12 DEF Shelves, Removes, Unregisters
<1>13. CASE StartsWork(a)
  <2>1. op[a].group \in Groups
    BY <1>0, <1>13 DEF Fits, Shape, StartsWork
  <2>2. work' = [work EXCEPT ![op[a].group] = @ + 1]
    BY <1>13 DEF StartsWork
  <2>3. work' \in [Groups -> Nat]
    BY <2>1, <2>2 DEF Shelves
  <2> QED
    BY <1>13, <2>3 DEF Shelves, StartsWork
<1>14. CASE JobEnds(a) \/ DropsGuard(a)
  <2>1. work' \in [Groups -> Nat]
    BY <1>14 DEF Shelves, JobEnds, DropsGuard, Settles, Less
  <2> QED
    BY <1>14, <2>1 DEF Shelves, JobEnds, DropsGuard
<1> QED
  BY <1>1, <1>2, <1>3, <1>4, <1>5, <1>6, <1>7, <1>8, <1>9, <1>10, <1>11, <1>12, <1>13, <1>14
  DEF Proceeds

LEMMA ShelvesStep ==
    ASSUME Shelves, Threads, [Next]_vars
    PROVE  Shelves'
<1> USE DEF Fault, Request, registry, budget
<1> USE BoundsAssumption
<1>1. CASE UNCHANGED vars
  BY <1>1 DEF vars, Shelves
<1>2. ASSUME NEW a \in Workers, Begins(a)
      PROVE  Shelves'
  <2>1. /\ requests' \in 0..MaxRequests /\ faults' = faults
        /\ UNCHANGED <<rcd, config, entry, work, forwarders, sweep, owed>>
    <3>1. ASSUME NEW c \in Conns, NEW g \in Groups, Connects(a, c, g)
          PROVE  <2>1
      BY <3>1 DEF Connects, Shelves
    <3>2. ASSUME NEW c \in Conns, Disconnects(a, c) \/ Uses(a, c) \/ TakesJob(a, c)
          PROVE  <2>1
      BY <3>2 DEF Disconnects, Uses, TakesJob, Shelves
    <3> QED
      BY <1>2, <3>1, <3>2 DEF Begins
  <2> QED
    BY <2>1 DEF Shelves
<1>3. ASSUME NEW a \in Actors, Proceeds(a)
      PROVE  Shelves'
  BY <1>3, ProceedsShelves
<1>4. CASE SweepStarts \/ Visits \/ Reaps
  BY <1>4 DEF SweepStarts, LiveGroupKeys, Visits, Reaps, Shelves
<1>5. CASE Kills
  BY <1>5, ShutdownShelves DEF Kills, Shelves
<1>6. ASSUME NEW g \in Groups, Crashes(g)
      PROVE  Shelves'
  BY <1>6 DEF Crashes, Shelves
<1> QED
  BY <1>1, <1>2, <1>3, <1>4, <1>5, <1>6 DEF Next, Actors

------------------------------------------------------------------------------
(* Who holds a guard of a group: only threads of the pool do.              *)
LEMMA HoldersAreFinite ==
    ASSUME NEW g
    PROVE  IsFiniteSet(Holders(g)) /\ Cardinality(Holders(g)) \in Nat
<1>1. Holders(g) \subseteq Workers
  BY DEF Holders
<1>2. IsFiniteSet(Holders(g))
  BY <1>1, FS_Subset, FiniteAssumption
<1> QED
  BY <1>2, FS_CardinalityType

LEMMA CalmCounts ==
    ASSUME WorkCounts, \A b \in Workers : Quiet(b, op'[b]), UNCHANGED work
    PROVE  WorkCounts'
<1>1. \A g : Holders(g)' = Holders(g)
  BY DEF Holders, Quiet
<1> QED
  BY <1>1 DEF WorkCounts

(* Another thread of a step that changes one record.                       *)
LEMMA OthersStay ==
    ASSUME Threads, NEW a \in Actors, NEW o, Steps(a, o)
    PROVE  op'[a] = o /\ \A b \in Actors \ {a} : op'[b] = op[b]
BY DEF Threads, Steps

LEMMA SettlingCounts ==
    ASSUME Shelves, Threads, WorkCounts, NEW a \in Actors, NEW o, Steps(a, o), Settles(a),
           o.guard # "held"
    PROVE  WorkCounts'
<1>1. op'[a] = o /\ \A b \in Workers \ {a} : op'[b] = op[b]
  BY OthersStay DEF Actors
<1>2. CASE op[a].guard # "held"
  BY <1>1, <1>2, CalmCounts DEF Settles, Quiet
<1>3. CASE op[a].guard = "held"
  <2>0. PICK h : h = op[a].group
    OBVIOUS
  <2>1. h \in Groups /\ a \in Workers
    BY <1>3, <2>0 DEF Threads, Fits, Shape, KeeperShape, Actors
  <2>2. /\ Holders(h)' = Holders(h) \ {a} /\ a \in Holders(h)
        /\ \A g \in Groups \ {h} : Holders(g)' = Holders(g)
    BY <1>1, <1>3, <2>0, <2>1 DEF Holders
  <2>3. Cardinality(Holders(h)') = Cardinality(Holders(h)) - 1
    BY <2>2, HoldersAreFinite, FS_RemoveElement
  <2>4. work[h] = Cardinality(Holders(h)) /\ work[h] \in Nat
    BY <2>1 DEF WorkCounts, Shelves
  <2>5. Cardinality(Holders(h)') \in Nat
    BY <2>2, HoldersAreFinite, FS_RemoveElement, FS_CardinalityType
  <2>6. work[h] # 0
    BY <2>3, <2>4, <2>5
  <2>7. work'[h] = work[h] - 1 /\ \A g \in Groups \ {h} : work'[g] = work[g]
    BY <1>3, <2>0, <2>1, <2>6 DEF Settles, Less, Shelves
  <2> QED
    BY <2>2, <2>3, <2>4, <2>7 DEF WorkCounts
<1> QED
  BY <1>2, <1>3

LEMMA CountsStep ==
    ASSUME Shelves, Threads, WorkCounts, [Next]_vars
    PROVE  WorkCounts'
<1> USE DEF At, Goes, Ends
<1>1. CASE \A a \in Actors : ~HandsOver(a)
  <2>1. UNCHANGED work
    BY <1>1 DEF Next, Begins, Proceeds, HandsOver, vars, registry, Connects, Disconnects, Uses,
       TakesJob, FindsRunning, Spawns, SpawnFails, Snapshot, Replays, ReplayFails, ReplayEnds,
       ResetsGroup, Predeletes, Prepares, EstablishFails, Creates, CreateFails, Judges, Deletes,
       Removes, TearsDown, Calls, SweepStarts, Visits, Reaps, Kills, Crashes, Actors
  <2> QED
    BY <1>1, <2>1, CalmSteps, CalmCounts DEF Calm, Actors
<1>2. ASSUME NEW a \in Actors, Inserts(a) \/ Releases(a) \/ Untunnels(a)
      PROVE  WorkCounts'
  <2>1. PICK o \in {Idle, [op[a] EXCEPT !.at = "teardown"]} : Steps(a, o)
    BY <1>2 DEF Inserts, Releases, Untunnels
  <2>2. op[a].guard # "held" /\ UNCHANGED work
    BY <1>2 DEF Inserts, Releases, Untunnels, Threads, Fits, Shape, Dialed, Dialing
  <2>3. o.guard # "held"
    <3>1. Idle.guard # "held" /\ op[a] \in Ops
      BY DEF Idle, Threads
    <3>2. [op[a] EXCEPT !.at = "teardown"].guard # "held"
      BY <2>2, <3>1 DEF Ops
    <3> QED
      BY <3>1, <3>2
  <2>4. \A b \in Workers : Quiet(b, op'[b])
    BY <2>1, <2>2, <2>3, OthersStay DEF Quiet, Actors
  <2> QED
    BY <2>2, <2>4, CalmCounts
<1>3. ASSUME NEW a \in Actors, JobEnds(a) \/ DropsGuard(a)
      PROVE  WorkCounts'
  <2>1. PICK o \in {Idle, [op[a] EXCEPT !.at = "drop", !.guard = "done"]} : Steps(a, o)
    BY <1>3 DEF JobEnds, DropsGuard
  <2>2. o.guard # "held"
    <3>1. Idle.guard # "held" /\ op[a] \in Ops
      BY DEF Idle, Threads
    <3>2. [op[a] EXCEPT !.at = "drop", !.guard = "done"].guard # "held"
      BY <3>1 DEF Ops
    <3> QED
      BY <3>1, <3>2
  <2>3. Settles(a)
    BY <1>3 DEF JobEnds, DropsGuard
  <2> QED
    BY <2>1, <2>2, <2>3, SettlingCounts
<1>4. ASSUME NEW a \in Actors, StartsWork(a)
      PROVE  WorkCounts'
  <2> DEFINE o == [op[a] EXCEPT !.at = "client", !.then = "run", !.else = "drop", !.guard = "held"]
  <2>0. PICK h : h = op[a].group
    OBVIOUS
  <2>1. op'[a].guard = "held" /\ op'[a].group = h /\ \A b \in Actors \ {a} : op'[b] = op[b]
    <3>1. Steps(a, o)
      BY <1>4 DEF StartsWork
    <3>2. o.guard = "held" /\ o.group = h
      BY <2>0 DEF Threads, Fits, Ops
    <3> QED
      BY <3>1, <3>2, OthersStay
  <2>2. h \in Groups /\ a \in Workers /\ op[a].guard # "held"
    BY <1>4, <2>0 DEF StartsWork, Threads, Fits, Shape, KeeperShape, Dialed, Dialing, Actors
  <2>3. /\ Holders(h)' = Holders(h) \cup {a} /\ a \notin Holders(h)
        /\ \A g \in Groups \ {h} : Holders(g)' = Holders(g)
    BY <2>1, <2>2 DEF Holders, Actors
  <2>4. Cardinality(Holders(h)') = Cardinality(Holders(h)) + 1
    BY <2>3, HoldersAreFinite, FS_AddElement
  <2>5. work'[h] = work[h] + 1 /\ \A g \in Groups \ {h} : work'[g] = work[g]
    BY <1>4, <2>0, <2>2 DEF StartsWork, Shelves
  <2> QED
    BY <2>2, <2>3, <2>4, <2>5 DEF WorkCounts
<1> QED
  BY <1>1, <1>2, <1>3, <1>4 DEF HandsOver

------------------------------------------------------------------------------
(* Forwarders and who minds them.                                          *)
LEMMA CalmMinded ==
    ASSUME Minded, forwarders' \subseteq forwarders,
           \A b \in Workers : Heeds(b, op'[b]),
           \A c \in forwarders : entry'[c] = None => entry[c] = None
    PROVE  Minded'
BY DEF Minded, Heeds

(* A connection that its thread leaves to itself needs nobody any more.    *)
LEMMA LeavingMinded ==
    ASSUME Threads, Minded, NEW a \in Actors, NEW o, Steps(a, o),
           forwarders' \subseteq forwarders,
           \A c \in forwarders' : /\ entry'[c] = None => entry[c] = None
                                  /\ c = op[a].conn => entry'[c] # None
    PROVE  Minded'
<1>1. \A b \in Actors \ {a} : op'[b] = op[b]
  BY OthersStay
<1> QED
  BY <1>1 DEF Minded, Minding, Actors

LEMMA MindedStep ==
    ASSUME Shelves, Threads, Minded, [Next]_vars
    PROVE  Minded'
<1> USE DEF At, Goes, Ends
<1>1. ASSUME NEW a \in Actors, Inserts(a)
      PROVE  Minded'
  <2>1. op[a].group \in Groups /\ op[a].conn \in Conns
    BY <1>1 DEF Inserts, Threads, Fits, Shape
  <2>2. /\ entry'[op[a].conn] # None
        /\ \A c \in Conns : entry'[c] = None => entry[c] = None
    BY <1>1, <2>1, NoGroupAssumption DEF Inserts, Shelves
  <2>3. forwarders' = forwarders /\ forwarders \subseteq Conns
    BY <1>1, TunneledAssumption DEF Inserts, Shelves
  <2> QED
    BY <1>1, <2>2, <2>3, LeavingMinded DEF Inserts
<1>2. ASSUME NEW a \in Actors, Releases(a) \/ Untunnels(a)
      PROVE  Minded'
  <2>1. /\ forwarders' = forwarders \ {op[a].conn} /\ UNCHANGED entry
        /\ \E o : Steps(a, o)
    BY <1>2 DEF Releases, Untunnels
  <2> QED
    BY <2>1, LeavingMinded
<1>3. ASSUME NEW a \in Actors, StartsWork(a) \/ JobEnds(a) \/ DropsGuard(a)
      PROVE  Minded'
  <2>1. PICK o : Steps(a, o)
    BY <1>3 DEF StartsWork, JobEnds, DropsGuard
  <2>2. \A c : ~Minding(op[a], c)
    BY <1>3 DEF StartsWork, JobEnds, DropsGuard, Minding, Dialed, Dialing
  <2>3. \A b \in Workers : Heeds(b, op'[b])
    BY <2>1, <2>2, OthersStay DEF Heeds, Actors
  <2>4. UNCHANGED <<forwarders, entry>>
    BY <1>3 DEF StartsWork, JobEnds, DropsGuard
  <2> QED
    BY <2>3, <2>4, CalmMinded
<1>4. CASE \A a \in Actors : ~HandsOver(a)
  <2>0. Calm
    BY <1>4, CalmSteps
  <2>1. ASSUME NEW a \in Actors, Removes(a)
        PROVE  Minded'
    <3>1. a \in Workers /\ Steps(a, [op[a] EXCEPT !.at = "untunnel"])
      BY <2>1 DEF Removes, Threads, Fits, KeeperShape, Dialing, Actors
    <3>2. op'[a].at = "untunnel" /\ op'[a].conn = op[a].conn
      BY <3>1, OthersStay DEF Threads, Fits, Ops
    <3>3. \A c \in Conns \ {op[a].conn} : entry'[c] = entry[c]
      BY <2>1 DEF Removes, Unregisters, Shelves
    <3>4. forwarders' = forwarders /\ forwarders \subseteq Conns
      BY <2>1, TunneledAssumption DEF Removes, Shelves
    <3> QED
      BY <2>0, <3>1, <3>2, <3>3, <3>4 DEF Calm, Heeds, Minded, Minding, Actors
  <2>2. ASSUME NEW a \in Actors, Prepares(a)
        PROVE  Minded'
    <3>1. a \in Workers /\ Steps(a, Dials(a))
      BY <2>2 DEF Prepares, Threads, Fits, KeeperShape, Dialing, Actors
    <3>2. op'[a].at = "client" /\ op'[a].then = "create" /\ op'[a].conn = op[a].conn
      <4>1. op[a] \in Ops
        BY DEF Threads
      <4>2. Dials(a).at = "client" /\ Dials(a).then = "create" /\ Dials(a).conn = op[a].conn
        BY <4>1 DEF Dials, Ops
      <4> QED
        BY <3>1, <4>2, OthersStay
    <3>3. forwarders' \subseteq forwarders \cup {op[a].conn} /\ entry' = entry
      BY <2>2 DEF Prepares
    <3> QED
      BY <2>0, <3>1, <3>2, <3>3 DEF Calm, Heeds, Minded, Minding, Dialed, Dialing, Actors
  <2>3. CASE \A a \in Actors : ~Removes(a) /\ ~Prepares(a)
    <3>1. forwarders' \subseteq forwarders /\ UNCHANGED entry
      BY <1>4, <2>3 DEF Next, Begins, Proceeds, HandsOver, vars, registry, Connects, Disconnects,
         Uses, TakesJob, FindsRunning, Spawns, SpawnFails, Snapshot, Replays, ReplayFails,
         ReplayEnds, ResetsGroup, Predeletes, EstablishFails, Creates, CreateFails, Judges,
         Deletes, TearsDown, Calls, SweepStarts, Visits, Reaps, Kills, Crashes, Actors
    <3> QED
      BY <2>0, <3>1, CalmMinded DEF Calm, Actors
  <2> QED
    BY <2>1, <2>2, <2>3
<1> QED
  BY <1>1, <1>2, <1>3, <1>4 DEF HandsOver

------------------------------------------------------------------------------
(* What an rcd knows of what its replay found.                             *)
LEMMA RestoredBySteps ==
    ASSUME Threads, Restored, NEW a \in Actors, NEW o, Steps(a, o), UNCHANGED rcd,
           \A g \in Groups :
              /\ \A todo : owed[g] \subseteq config[g] \cup todo
                              => owed'[g] \subseteq config'[g] \cup todo
              /\ Restoring(op[a], g)
                    => \/ owed'[g] \subseteq config'[g]
                       \/ /\ o.group = g /\ o.ok
                          /\ \/ o.at = "reset"
                             \/ o.at = "replay" /\ owed'[g] \subseteq config'[g] \cup o.todo
    PROVE  Restored'
<1>1. op'[a] = o /\ \A b \in Actors \ {a} : op'[b] = op[b]
  BY OthersStay
<1>2. ASSUME NEW g \in Groups, rcd'[g] = "up"
      PROVE  owed'[g] \subseteq config'[g] \/ \E b \in Actors : Restoring(op[b], g)'
  <2>1. CASE owed[g] \subseteq config[g]
    <3>1. owed[g] \subseteq config[g] \cup {}
      BY <2>1
    <3> QED
      BY <3>1
  <2>2. CASE Restoring(op[a], g)
    BY <1>1, <2>2 DEF Restoring
  <2>3. ASSUME NEW b \in Actors \ {a}, Restoring(op[b], g)
        PROVE  Restoring(op[b], g)'
    BY <1>1, <2>3 DEF Restoring
  <2> QED
    BY <1>2, <2>1, <2>2, <2>3 DEF Restored
<1> QED
  BY <1>2 DEF Restored

LEMMA RestoredByCuts ==
    ASSUME Threads, Restored, NEW a, NEW o, NEW gs, Cuts(gs, a, o),
           \A g \in Groups : rcd'[g] = "up" =>
              \/ owed'[g] = {}
              \/ /\ g \notin gs /\ rcd[g] = "up"
                 /\ config'[g] = config[g] /\ owed'[g] = owed[g]
                 /\ a \in Actors /\ Restoring(op[a], g) => o = op[a]
    PROVE  Restored'
<1>1. \A b \in Actors : op[b].group \notin gs => op'[b] = op[b] \/ (b = a /\ op'[b] = o)
  BY DEF Cuts
<1>2. ASSUME NEW g \in Groups, rcd'[g] = "up"
      PROVE  owed'[g] \subseteq config'[g] \/ \E b \in Actors : Restoring(op[b], g)'
  <2>1. CASE owed'[g] = {}
    BY <2>1
  <2>2. CASE owed'[g] # {}
    <3>1. ASSUME NEW b \in Actors, Restoring(op[b], g)
          PROVE  Restoring(op[b], g)'
      BY <1>1, <1>2, <2>2, <3>1 DEF Restoring
    <3> QED
      BY <1>2, <2>2, <3>1 DEF Restored
  <2> QED
    BY <2>1, <2>2
<1> QED
  BY <1>2 DEF Restored

LEMMA LocalRestored ==
    ASSUME Shelves, Threads, Restored, NEW a \in Actors, NEW o, Steps(a, o),
           UNCHANGED <<rcd, config, owed>>, op[a].at \notin {"replay", "reset"}
    PROVE  Restored'
BY RestoredBySteps DEF Restoring

LEMMA RestoredByShutdown ==
    ASSUME Shelves, Threads, Restored, NEW a \in Actors, NEW o, NEW gs, ShutsDown(gs, a, o),
           op[a].group \in gs \/ op[a].at \notin {"replay", "reset"}
    PROVE  Restored'
<1>1. Cuts(gs, a, o)
  BY DEF ShutsDown, Cuts, Hushed
<1>2. \A g \in Groups : \/ owed'[g] = {}
                        \/ /\ g \notin gs /\ rcd'[g] = rcd[g]
                           /\ config'[g] = config[g] /\ owed'[g] = owed[g]
  BY DEF ShutsDown, Shelves
<1> QED
  BY <1>1, <1>2, RestoredByCuts DEF Restoring

LEMMA RestoredStep ==
    ASSUME Shelves, Threads, Restored, [Next]_vars
    PROVE  Restored'
<1> USE DEF At, Goes, Ends
<1>1. CASE UNCHANGED vars
  BY <1>1 DEF vars, Restored, Restoring
<1>2. ASSUME NEW a \in Workers, Begins(a)
      PROVE  Restored'
  <2>1. ASSUME NEW c \in Conns, NEW g \in Groups, Connects(a, c, g)
        PROVE  Restored'
    BY <2>1, LocalRestored DEF Connects, Actors
  <2>2. ASSUME NEW c \in Conns, Disconnects(a, c) \/ Uses(a, c) \/ TakesJob(a, c)
        PROVE  Restored'
    BY <2>2, LocalRestored DEF Disconnects, Uses, TakesJob, Actors
  <2> QED
    BY <1>2, <2>1, <2>2 DEF Begins
<1>3. CASE SweepStarts \/ Visits \/ Reaps
  BY <1>3, LocalRestored DEF SweepStarts, Visits, Reaps, Actors
<1>4. ASSUME NEW a \in Actors, Proceeds(a)
      PROVE  Restored'
  <2> DEFINE h == op[a].group
  <2>0. op[a] \in Ops
    BY DEF Threads
  <2>1. CASE \/ FindsRunning(a) \/ SpawnFails(a) \/ Judges(a) \/ Calls(a)
             \/ Prepares(a) \/ EstablishFails(a) \/ Inserts(a) \/ Releases(a)
             \/ Removes(a) \/ Untunnels(a) \/ StartsWork(a) \/ JobEnds(a) \/ DropsGuard(a)
    BY <2>1, LocalRestored
    DEF FindsRunning, SpawnFails, Judges, Calls, Prepares, EstablishFails, Inserts, Releases,
        Removes, Untunnels, StartsWork, JobEnds, DropsGuard
  <2>2. CASE Spawns(a)
    <3>1. Cuts({h}, a, [op[a] EXCEPT !.at = "snapshot", !.ok = TRUE])
      BY <2>2 DEF Spawns, Cut, Cuts, Hushed
    <3>2. /\ owed' = [owed EXCEPT ![h] = {}] /\ config' = [config EXCEPT ![h] = {}]
          /\ rcd' = [rcd EXCEPT ![h] = "up"] /\ op[a].at = "client"
      BY <2>2 DEF Spawns
    <3>3. \A g \in Groups : \/ owed'[g] = {}
                            \/ /\ g # h /\ rcd'[g] = rcd[g]
                               /\ config'[g] = config[g] /\ owed'[g] = owed[g]
      BY <3>2 DEF Shelves
    <3> QED
      BY <3>1, <3>2, <3>3, RestoredByCuts DEF Restoring
  <2>3. CASE Snapshot(a)
    <3> DEFINE o == [op[a] EXCEPT !.at = "replay", !.todo = InGroup(op[a].group)]
    <3>1. Steps(a, o) /\ UNCHANGED <<rcd, config>> /\ op[a].at = "snapshot"
      BY <2>3 DEF Snapshot
    <3>2. op'[a] = o /\ \A b \in Actors \ {a} : op'[b] = op[b]
      BY <3>1, OthersStay
    <3>3. o.at = "replay" /\ o.todo = InGroup(h) /\ o.group = h /\ o.ok = op[a].ok
      BY <2>0 DEF Ops
    <3>4. ASSUME NEW g \in Groups, rcd'[g] = "up", g = h /\ op[a].ok
          PROVE  Restoring(op[a], g)'
      BY <2>3, <3>2, <3>3, <3>4 DEF Snapshot, Restoring, Shelves
    <3>5. ASSUME NEW g \in Groups, rcd'[g] = "up", g # h \/ ~op[a].ok
          PROVE  owed'[g] = owed[g] /\ ~Restoring(op[a], g)
      BY <2>3, <3>5 DEF Snapshot, Restoring, Shelves
    <3>6. ASSUME NEW g \in Groups, rcd'[g] = "up"
          PROVE  owed'[g] \subseteq config'[g] \/ \E b \in Actors : Restoring(op[b], g)'
      <4>1. CASE g = h /\ op[a].ok
        BY <3>4, <3>6, <4>1
      <4>2. CASE g # h \/ ~op[a].ok
        BY <3>1, <3>2, <3>5, <3>6, <4>2 DEF Restored, Restoring
      <4> QED
        BY <4>1, <4>2
    <3> QED
      BY <3>6 DEF Restored
  <2>4. CASE Replays(a)
    <3>1. PICK c \in op[a].todo :
              /\ config' = [config EXCEPT ![h] = @ \cup {c}]
              /\ Steps(a, [op[a] EXCEPT !.todo = @ \ {c}])
      BY <2>4 DEF Replays
    <3> DEFINE o == [op[a] EXCEPT !.todo = @ \ {c}]
    <3>2. /\ o.at = "replay" /\ o.todo = op[a].todo \ {c} /\ o.group = h /\ o.ok
          /\ op[a].at = "replay"
      BY <2>0, <2>4 DEF Replays, Ops
    <3>3. \A g \in Groups : config'[g] = IF g = h THEN config[g] \cup {c} ELSE config[g]
      BY <3>1 DEF Shelves
    <3>4. UNCHANGED <<rcd, owed>>
      BY <2>4 DEF Replays
    <3>5. \A g \in Groups : Restoring(op[a], g) => owed'[g] \subseteq config'[g] \cup o.todo
      BY <3>2, <3>3, <3>4 DEF Restoring
    <3>6. \A g \in Groups : Restoring(op[a], g) => o.group = g
      BY <3>2 DEF Restoring
    <3>7. \A g \in Groups : \A todo :
              owed[g] \subseteq config[g] \cup todo => owed'[g] \subseteq config'[g] \cup todo
      BY <3>3, <3>4
    <3>8. Steps(a, o) /\ UNCHANGED rcd
      BY <3>1, <3>4
    <3> HIDE DEF o
    <3> QED
      BY <3>2, <3>5, <3>6, <3>7, <3>8, RestoredBySteps
  <2>5. CASE ReplayFails(a)
    <3> DEFINE o == [op[a] EXCEPT !.at = "reset"]
    <3>1. Steps(a, o) /\ UNCHANGED <<rcd, config, owed>>
      BY <2>5 DEF ReplayFails
    <3>2. o.at = "reset" /\ o.group = h /\ o.ok = op[a].ok
      BY <2>0 DEF Ops
    <3> HIDE DEF o
    <3>3. \A g \in Groups : Restoring(op[a], g) => o.group = g /\ o.ok /\ o.at = "reset"
      BY <3>2 DEF Restoring
    <3> QED
      BY <3>1, <3>3, RestoredBySteps
  <2>6. CASE ReplayEnds(a)
    <3>1. Steps(a, [op[a] EXCEPT !.at = op[a].then]) /\ UNCHANGED <<rcd, config, owed>>
      BY <2>6 DEF ReplayEnds
    <3>2. op[a].at = "replay" /\ op[a].todo = {}
      BY <2>6 DEF ReplayEnds
    <3> QED
      BY <3>1, <3>2, RestoredBySteps DEF Restoring
  <2>7. CASE Predeletes(a) \/ Deletes(a) \/ Creates(a) \/ CreateFails(a)
    <3>1. /\ UNCHANGED rcd /\ (\E o : Steps(a, o))
          /\ op[a].at \notin {"replay", "reset"}
      BY <2>7 DEF Predeletes, Deletes, Creates, CreateFails
    <3>2. \A g \in Groups : \A todo :
              owed[g] \subseteq config[g] \cup todo => owed'[g] \subseteq config'[g] \cup todo
      BY <2>7 DEF Predeletes, Deletes, Creates, CreateFails, Shelves
    <3> QED
      BY <3>1, <3>2, RestoredBySteps DEF Restoring
  <2>8. CASE ResetsGroup(a) \/ TearsDown(a)
    <3>1. PICK o : ShutsDown({h}, a, o)
      BY <2>8 DEF ResetsGroup, TearsDown
    <3>2. op[a].group = h
      OBVIOUS
    <3> QED
      BY <3>1, <3>2, RestoredByShutdown
  <2> QED
    BY <1>4, <2>1, <2>2, <2>3, <2>4, <2>5, <2>6, <2>7, <2>8 DEF Proceeds
<1>5. CASE Kills
  BY <1>5, RestoredByShutdown DEF Kills, Restoring, Actors
<1>6. ASSUME NEW h \in Groups, Crashes(h)
      PROVE  Restored'
  <2>1. Cuts({h}, Keeper, IF op[Keeper].group = h THEN Hushed(op[Keeper]) ELSE op[Keeper])
    BY <1>6 DEF Crashes, Cut, Cuts, Hushed
  <2>2. \A g \in Groups : \/ owed'[g] = {}
                          \/ /\ g # h /\ rcd'[g] = rcd[g]
                             /\ config'[g] = config[g] /\ owed'[g] = owed[g]
    BY <1>6 DEF Crashes, Shelves
  <2> QED
    BY <2>1, <2>2, RestoredByCuts DEF Restoring
<1> QED
  BY <1>1, <1>2, <1>3, <1>4, <1>5, <1>6 DEF Next, Actors

------------------------------------------------------------------------------
LEMMA GroupsStart ==
    ASSUME Init \/ Connected
    PROVE  GroupsInv
<1>1. Fits(Keeper, Idle) /\ \A a : a # Keeper => Fits(a, Idle)
  BY DEF Fits, Ops, Shape, KeeperShape, Dialed, Dialing, Labels, Idle
<1>2. op = [a \in Actors |-> Idle] /\ work = [g \in Groups |-> 0]
  BY DEF Init, Connected
<1>3. Threads
  BY <1>1, <1>2 DEF Threads, Fits
<1>4. WorkCounts
  <2>1. \A g : Holders(g) = {}
    BY <1>2 DEF Holders, Idle, Actors
  <2> QED
    BY <1>2, <2>1, FS_EmptySet DEF WorkCounts
<1>5. CASE Init
  <2>1. Shelves
    BY <1>5, BoundsAssumption DEF Init, Shelves
  <2> QED
    BY <1>3, <1>4, <1>5, <2>1 DEF Init, GroupsInv, Minded, Restored
<1>6. CASE Connected
  <2>1. Shelves
    BY <1>6, BoundsAssumption, DirectAssumption DEF Connected, Shelves
  <2>2. Minded
    BY <1>6, DirectAssumption, NoGroupAssumption, TunneledAssumption DEF Connected, Minded
  <2> QED
    BY <1>3, <1>4, <1>6, <2>1, <2>2 DEF Connected, GroupsInv, Restored
<1> QED
  BY <1>5, <1>6

LEMMA GroupsInductive ==
    ASSUME GroupsInv, [Next]_vars
    PROVE  GroupsInv'
BY ThreadsStep, ShelvesStep, CountsStep, MindedStep, RestoredStep DEF GroupsInv

LEMMA GroupsMeans ==
    ASSUME GroupsInv
    PROVE  TypeOK /\ ForwarderOwned /\ ReplayComplete
<1>1. TypeOK
  BY DEF GroupsInv, Shelves, Threads, TypeOK, Ops
<1>2. ForwarderOwned
  BY DEF GroupsInv, Minded, Minding, Dialed, Dialing, ForwarderOwned, InHand
<1>3. ReplayComplete
  BY DEF GroupsInv, Restored, Restoring, ReplayComplete, Replaying
<1> QED
  BY <1>1, <1>2, <1>3

LEMMA GroupsAlways == MCSpec => []GroupsInv
<1>1. Init \/ Connected => GroupsInv
  BY GroupsStart
<1>2. GroupsInv /\ [Next]_vars => GroupsInv'
  BY GroupsInductive
<1> QED
  BY <1>1, <1>2, PTL DEF MCSpec

(* Type correctness of the rcd groups.                                     *)
THEOREM GroupsTypes == MCSpec => []TypeOK
BY GroupsAlways, GroupsMeans, PTL

(* The in-flight counter of a group is the number of its unsettled guards, *)
(* on every path on which a job of the group ends (rclone/mod.rs).         *)
THEOREM GroupsWorkCounts == MCSpec => []WorkCounts
<1>1. GroupsInv => WorkCounts
  BY DEF GroupsInv
<1> QED
  BY <1>1, GroupsAlways, PTL

(* No ssh forwarder outlives its connection (rclone/tunnel.rs), with any   *)
(* number of connects and disconnects of one id under way.                 *)
THEOREM GroupsForwarderOwned == MCSpec => []ForwarderOwned
BY GroupsAlways, GroupsMeans, PTL

(* An rcd that runs, and that nobody replays into, has every remote its    *)
(* replay found and nobody deleted since, through crashes, respawns by     *)
(* several callers and replays that fail half-way.                         *)
THEOREM GroupsReplayComplete == MCSpec => []ReplayComplete
BY GroupsAlways, GroupsMeans, PTL

(***************************************************************************)
(* The mounts.                                                             *)
(***************************************************************************)
StartPhases == {"client", "attempt", "accepted", "check", "claim", "gateway", "volume", "done"}
Outs == {"none", "failed", "refused", "mounted"}
StartCalls == {M!NoStart} \cup
    [at : StartPhases, out : Outs, conn : Connections, surface : Surfaces,
     strategy : M!Strategies, picked : BOOLEAN]
StopCalls == {M!NoStop} \cup
    [at : {"client", "snapshot", "unmounting", "done"}, conn : Connections, last : BOOLEAN,
     todo : SUBSET M!Records, hand : SUBSET M!Records]

MountsTyped ==
    /\ bound \subseteq Connections /\ mounter \in BOOLEAN /\ driver \in BOOLEAN
    /\ held \subseteq [point : M!Points, conn : Connections]
    /\ table \subseteq M!Records
    /\ claims \subseteq Connections \X Surfaces
    /\ listening \subseteq Requests
    /\ start \in [Requests -> StartCalls]
    /\ stop \in [Stops -> StopCalls]

(* A record is of a start that is over; a gateway accepts for a start that *)
(* is about to write a record or is over, and never for a record of the    *)
(* kernel's, nor for one a stop has in hand.                               *)
Accounted ==
    /\ \A m \in table : M!Starting(m.id, "done") /\ (m.strategy = "rclone" => m.id \notin listening)
    /\ \A u \in Stops :
          /\ \A m \in stop[u].todo :
                M!Starting(m.id, "done") /\ (m.strategy = "rclone" => m.id \notin listening)
          /\ \A m \in stop[u].hand : M!Starting(m.id, "done") /\ m.id \notin listening
    /\ \A r \in listening : start[r].at \in {"volume", "done"}

MountInv == MountsTyped /\ Accounted /\ M!GatewayOwned /\ M!ClaimOwned

(* What a start is once it has gone on, or has been answered.              *)
LEMMA StartEffect ==
    ASSUME start \in [Requests -> StartCalls], NEW r \in Requests, ~M!Starting(r, "idle"),
           NEW label \in StartPhases, M!Goes(r, label)
    PROVE  /\ start' \in [Requests -> StartCalls]
           /\ \A q \in Requests : q # r => start'[q] = start[q]
           /\ start'[r] = [start[r] EXCEPT !.at = label]
           /\ start'[r].at = label /\ start'[r].conn = start[r].conn
           /\ start'[r].surface = start[r].surface
BY DEF M!Goes, M!Starting, StartCalls, StartPhases, M!NoStart

LEMMA AnswersEffect ==
    ASSUME start \in [Requests -> StartCalls], NEW r \in Requests, ~M!Starting(r, "idle"),
           NEW out \in Outs, M!Answers(r, out)
    PROVE  /\ start' \in [Requests -> StartCalls]
           /\ \A q \in Requests : q # r => start'[q] = start[q]
           /\ start'[r].at = "done" /\ start'[r].out = out
<1>1. start[r] \in StartCalls \ {M!NoStart}
  BY DEF M!Starting, M!NoStart
<1>2. start' = [start EXCEPT ![r] = [start[r] EXCEPT !.at = "done", !.out = out]]
  BY DEF M!Answers
<1>3. [start[r] EXCEPT !.at = "done", !.out = out] \in StartCalls
  BY <1>1 DEF StartCalls, StartPhases
<1>4. start'[r] = [start[r] EXCEPT !.at = "done", !.out = out]
  BY <1>2
<1>5. start'[r].at = "done" /\ start'[r].out = out
  BY <1>1, <1>4 DEF StartCalls
<1> QED BY <1>2, <1>3, <1>5

(* A stop that goes on keeps its type.                                     *)
LEMMA StopEffect ==
    ASSUME stop \in [Stops -> StopCalls], NEW u \in Stops,
           NEW todo \in SUBSET M!Records, NEW hand \in SUBSET M!Records,
           NEW label \in {"client", "snapshot", "unmounting", "done"},
           ~M!Stopping(u, "idle"),
           stop' = [stop EXCEPT ![u].at = label, ![u].todo = todo, ![u].hand = hand]
    PROVE  /\ stop' \in [Stops -> StopCalls]
           /\ \A v \in Stops : v # u => stop'[v] = stop[v]
           /\ stop'[u].todo = todo /\ stop'[u].hand = hand
<1>1. stop[u] \in StopCalls \ {M!NoStop}
  BY DEF M!Stopping, M!NoStop
<1> DEFINE next == [stop[u] EXCEPT !.at = label, !.todo = todo, !.hand = hand]
<1>2. stop' = [stop EXCEPT ![u] = next]
  OBVIOUS
<1>3. next \in StopCalls /\ next.todo = todo /\ next.hand = hand
  BY <1>1 DEF StopCalls
<1> HIDE DEF next
<1> QED BY ZenonT(40), <1>2, <1>3

LEMMA MountTypesStep == MountsTyped /\ [M!MountNext]_(M!mountVars) => MountsTyped'
<1> SUFFICES ASSUME MountsTyped, [M!MountNext]_(M!mountVars) PROVE MountsTyped'
    OBVIOUS
<1> USE DEF MountsTyped, StartCalls, StartPhases, Outs, M!NoStart, StopCalls, M!NoStop, M!Starting, M!Goes, M!Answers,
            M!Stopping, M!Records, M!Points
<1>1. ASSUME NEW r \in Requests, M!GetsClient(r) PROVE MountsTyped'
  BY <1>1 DEF M!GetsClient
<1>2. ASSUME NEW r \in Requests, M!Accepted(r) PROVE MountsTyped'
  BY <1>2 DEF M!Accepted, M!Point
<1>3. ASSUME NEW r \in Requests, M!Refused(r) PROVE MountsTyped'
  BY <1>3 DEF M!Refused, M!FallsBack
<1>4. ASSUME NEW r \in Requests, M!Registered(r) PROVE MountsTyped'
  <2>1. start[r] \in StartCalls \ {M!NoStart} /\ M!Record(r, "rclone") \in M!Records
    BY <1>4 DEF M!Registered, M!Record, M!Point
  <2>2. start' \in [Requests -> StartCalls]
    BY <1>4, AnswersEffect DEF M!Registered
  <2> QED BY <1>4, <2>1, <2>2 DEF M!Registered
<1>5. ASSUME NEW r \in Requests, M!NeverRegistered(r) PROVE MountsTyped'
  BY <1>5 DEF M!NeverRegistered, M!FallsBack
<1>6. ASSUME NEW r \in Requests, M!Checks(r) PROVE MountsTyped'
  BY <1>6 DEF M!Checks
<1>7. ASSUME NEW r \in Requests, M!Claims(r) PROVE MountsTyped'
  BY <1>7 DEF M!Claims, M!Key
<1>8. ASSUME NEW r \in Requests, M!GatewayStarts(r) PROVE MountsTyped'
  BY <1>8 DEF M!GatewayStarts
<1>9. ASSUME NEW r \in Requests, M!GatewayMounted(r) PROVE MountsTyped'
  <2>1. start[r] \in StartCalls \ {M!NoStart} /\ M!Record(r, "webdav") \in M!Records
    BY <1>9 DEF M!GatewayMounted, M!Record, M!Point
  <2>2. start' \in [Requests -> StartCalls]
    BY <1>9, AnswersEffect DEF M!GatewayMounted
  <2> QED BY <1>9, <2>1, <2>2 DEF M!GatewayMounted, M!Releases
<1>10. ASSUME NEW r \in Requests, M!FailsEarly(r) PROVE MountsTyped'
  <2>1. start' \in [Requests -> StartCalls]
    BY <1>10, AnswersEffect DEF M!FailsEarly
  <2> QED BY <1>10, <2>1 DEF M!FailsEarly
<1>11. ASSUME NEW r \in Requests, M!GatewayFails(r) PROVE MountsTyped'
  <2>1. start' \in [Requests -> StartCalls]
    BY <1>11, AnswersEffect DEF M!GatewayFails
  <2> QED BY <1>11, <2>1 DEF M!GatewayFails, M!Releases
<1>12. ASSUME NEW r \in Requests, M!DirectoryRefused(r) PROVE MountsTyped'
  <2>1. start' \in [Requests -> StartCalls]
    BY <1>12, AnswersEffect DEF M!DirectoryRefused
  <2> QED BY <1>12, <2>1 DEF M!DirectoryRefused, M!Releases
<1>13. ASSUME NEW r \in Requests, NEW c \in Connections, NEW surface \in Surfaces,
              NEW strategy \in M!Strategies, NEW picked \in BOOLEAN,
              M!Begins(r, c, surface, strategy, picked)
       PROVE  MountsTyped'
  BY <1>13 DEF M!Begins
<1>14. ASSUME NEW u \in Stops, NEW c \in Connections, M!Disconnects(u, c) PROVE MountsTyped'
  BY <1>14 DEF M!Disconnects
<1>15. ASSUME NEW u \in Stops, NEW c \in Connections, NEW ids \in SUBSET Requests, M!Unmounts(u, c, ids)
       PROVE  MountsTyped'
  BY <1>15 DEF M!Unmounts, M!RecordsOf
<1>16. ASSUME NEW u \in Stops, M!Unregisters(u) PROVE MountsTyped'
  BY <1>16 DEF M!Unregisters
<1>17. ASSUME NEW u \in Stops, M!Snapshots(u) PROVE MountsTyped'
  <2>1. M!RecordsOf(stop[u].conn) \in SUBSET M!Records
    BY DEF M!RecordsOf
  <2>2. stop[u] \in StopCalls \ {M!NoStop}
    BY <1>17 DEF M!Snapshots
  <2> DEFINE next == [stop[u] EXCEPT !.at = "unmounting", !.todo = M!RecordsOf(stop[u].conn)]
  <2>3. next \in StopCalls
    BY <2>1, <2>2
  <2>4. stop' = [stop EXCEPT ![u] = next]
    BY <1>17 DEF M!Snapshots
  <2>5. stop' \in [Stops -> StopCalls]
    BY <2>3, <2>4
  <2> QED BY <1>17, <2>5 DEF M!Snapshots
<1>18. ASSUME NEW u \in Stops, M!DropsRecord(u) PROVE MountsTyped'
  BY <1>18 DEF M!DropsRecord
<1>19. ASSUME NEW u \in Stops, M!Stopped(u) PROVE MountsTyped'
  <2>1. stop[u] \in StopCalls \ {M!NoStop} /\ stop' \in [Stops -> StopCalls]
    BY <1>19 DEF M!Stopped
  <2>2. mounter' \in BOOLEAN /\ held' \subseteq [point : M!Points, conn : Connections]
    BY <1>19 DEF M!Stopped
  <2>3. UNCHANGED <<bound, driver, table, claims, listening, start, mountFaults>>
    BY <1>19 DEF M!Stopped
  <2> QED BY <2>1, <2>2, <2>3
<1>20. ASSUME NEW u \in Stops, NEW m \in stop[u].todo, M!LetsGo(u, m) PROVE MountsTyped'
  <2>1. stop[u] \in StopCalls \ {M!NoStop} /\ m \in M!Records
    BY <1>20 DEF M!LetsGo, M!CanTake
  <2>2. stop' \in [Stops -> StopCalls]
    BY <1>20, <2>1 DEF M!LetsGo, M!Takes
  <2>3. mounter' \in BOOLEAN /\ held' \subseteq [point : M!Points, conn : Connections]
        /\ listening' \subseteq Requests
    BY <1>20, <2>1 DEF M!LetsGo, M!StopsGateway, M!HeldAt
  <2>4. UNCHANGED <<bound, driver, table, claims, start, mountFaults>>
    BY <1>20 DEF M!LetsGo
  <2> QED BY <2>2, <2>3, <2>4
<1>21. ASSUME NEW u \in Stops, NEW m \in stop[u].todo, M!KeepsRecord(u, m) PROVE MountsTyped'
  BY <1>21 DEF M!KeepsRecord, M!CanTake, M!Skips
<1>22. ASSUME NEW u \in Stops, M!Unreachable(u) PROVE MountsTyped'
  BY <1>22 DEF M!Unreachable
<1>23. CASE M!Crashes
  BY <1>23 DEF M!Crashes
<1>24. CASE UNCHANGED M!mountVars
  BY <1>24 DEF M!mountVars
<1>25. ASSUME NEW r \in Requests, M!Serves(r) \/ M!StartFails(r) PROVE MountsTyped'
  <2> HIDE DEF MountsTyped
  <2> QED BY <1>25, <1>1, <1>2, <1>3, <1>4, <1>5, <1>6, <1>7, <1>8, <1>9, <1>10, <1>11, <1>12
           DEF M!Serves, M!StartFails
<1>26. ASSUME NEW u \in Stops, M!Winds(u) \/ M!Unreachable(u) \/ \E m \in stop[u].todo : M!KeepsRecord(u, m)
       PROVE  MountsTyped'
  <2> HIDE DEF MountsTyped
  <2> QED BY <1>26, <1>16, <1>17, <1>18, <1>19, <1>20, <1>21, <1>22 DEF M!Winds
<1> HIDE DEF MountsTyped
<1> QED BY <1>13, <1>14, <1>15, <1>23, <1>24, <1>25, <1>26 DEF M!MountNext

(* Every action keeps Accounted and the ownership of the gateways.         *)
LEMMA OwnedStep ==
    MountsTyped /\ Accounted /\ M!GatewayOwned /\ [M!MountNext]_(M!mountVars) => Accounted' /\ M!GatewayOwned'
<1> DEFINE Goal == Accounted' /\ M!GatewayOwned'
<1> SUFFICES ASSUME MountsTyped, Accounted, M!GatewayOwned, [M!MountNext]_(M!mountVars) PROVE Goal
    OBVIOUS
<1>types. /\ start \in [Requests -> StartCalls] /\ stop \in [Stops -> StopCalls]
          /\ table \subseteq M!Records /\ listening \subseteq Requests
  BY DEF MountsTyped
<1> USE <1>types DEF Accounted, M!GatewayOwned, M!Starting, M!Stopping, StartPhases, Outs
<1>moves. ASSUME NEW r \in Requests, start[r].at \notin {"idle", "volume", "done"},
                 UNCHANGED <<table, listening, stop>>,
                 \/ \E label \in StartPhases : M!Goes(r, label)
                 \/ \E out \in Outs : M!Answers(r, out)
          PROVE  Goal
  <2>1. \A q \in Requests : q # r => start'[q] = start[q]
    BY <1>moves, StartEffect, AnswersEffect
  <2>2. /\ \A m \in table : m.id # r /\ m.id \in Requests
        /\ \A u \in Stops : \A m \in stop[u].todo \cup stop[u].hand : m.id # r /\ m.id \in Requests
    BY <1>moves DEF StopCalls, M!NoStop, M!Records
  <2>3. r \notin listening
    BY <1>moves
  <2> HIDE <1>types
  <2> QED BY <1>types, <1>moves, <2>1, <2>2, <2>3
<1>1. ASSUME NEW r \in Requests, M!GetsClient(r) PROVE Goal
  BY <1>moves, <1>1 DEF M!GetsClient
<1>2. ASSUME NEW r \in Requests, M!Accepted(r) PROVE Goal
  BY <1>moves, <1>2 DEF M!Accepted
<1>3. ASSUME NEW r \in Requests, M!Refused(r) PROVE Goal
  BY <1>moves, <1>3 DEF M!Refused, M!FallsBack
<1>5. ASSUME NEW r \in Requests, M!NeverRegistered(r) PROVE Goal
  BY <1>moves, <1>5 DEF M!NeverRegistered, M!FallsBack
<1>6. ASSUME NEW r \in Requests, M!Checks(r) PROVE Goal
  BY <1>moves, <1>6 DEF M!Checks
<1>7. ASSUME NEW r \in Requests, M!Claims(r) PROVE Goal
  BY <1>moves, <1>7 DEF M!Claims
<1>10. ASSUME NEW r \in Requests, M!FailsEarly(r) PROVE Goal
  BY <1>moves, <1>10 DEF M!FailsEarly
<1>11. ASSUME NEW r \in Requests, M!GatewayFails(r) PROVE Goal
  BY <1>moves, <1>11 DEF M!GatewayFails
<1>4. ASSUME NEW r \in Requests, M!Registered(r) PROVE Goal
  <2>1. /\ \A q \in Requests : q # r => start'[q] = start[q]
        /\ start'[r].at = "done"
    BY <1>4, AnswersEffect DEF M!Registered
  <2>2. /\ \A m \in table : m.id # r /\ m.id \in Requests
        /\ \A u \in Stops : \A m \in stop[u].todo \cup stop[u].hand : m.id # r /\ m.id \in Requests
        /\ r \notin listening
    BY <1>4 DEF M!Registered, StopCalls, M!NoStop, M!Records
  <2>3. /\ table' = table \cup {M!Record(r, "rclone")} /\ M!Record(r, "rclone").id = r
        /\ UNCHANGED <<listening, stop>>
    BY <1>4 DEF M!Registered, M!Record
  <2> HIDE <1>types
  <2> QED BY <1>types, <2>1, <2>2, <2>3
<1>8. ASSUME NEW r \in Requests, M!GatewayStarts(r) PROVE Goal
  <2>1. /\ \A q \in Requests : q # r => start'[q] = start[q]
        /\ start'[r].at = "volume"
    BY <1>8, StartEffect DEF M!GatewayStarts
  <2>2. /\ \A m \in table : m.id # r /\ m.id \in Requests
        /\ \A u \in Stops : \A m \in stop[u].todo \cup stop[u].hand : m.id # r /\ m.id \in Requests
    BY <1>8 DEF M!GatewayStarts, StopCalls, M!NoStop, M!Records
  <2>3. listening' = listening \cup {r} /\ UNCHANGED <<table, stop>>
    BY <1>8 DEF M!GatewayStarts
  <2> HIDE <1>types
  <2> QED BY <1>types, <2>1, <2>2, <2>3
<1>9. ASSUME NEW r \in Requests, M!GatewayMounted(r) PROVE Goal
  <2>1. /\ \A q \in Requests : q # r => start'[q] = start[q]
        /\ start'[r].at = "done"
    BY <1>9, AnswersEffect DEF M!GatewayMounted
  <2>2. /\ \A m \in table : m.id # r /\ m.id \in Requests
        /\ \A u \in Stops : \A m \in stop[u].todo \cup stop[u].hand : m.id # r /\ m.id \in Requests
    BY <1>9 DEF M!GatewayMounted, StopCalls, M!NoStop, M!Records
  <2>3. /\ table' = table \cup {M!Record(r, "webdav")} /\ UNCHANGED <<listening, stop>>
        /\ M!Record(r, "webdav").id = r /\ M!Record(r, "webdav").strategy = "webdav"
    BY <1>9 DEF M!GatewayMounted, M!Record
  <2> HIDE <1>types
  <2> QED BY <1>types, <2>1, <2>2, <2>3
<1>12. ASSUME NEW r \in Requests, M!DirectoryRefused(r) PROVE Goal
  <2>1. /\ \A q \in Requests : q # r => start'[q] = start[q]
        /\ start'[r].at = "done" /\ start'[r].out = "refused"
    BY <1>12, AnswersEffect DEF M!DirectoryRefused
  <2>2. /\ \A m \in table : m.id # r /\ m.id \in Requests
        /\ \A u \in Stops : \A m \in stop[u].todo \cup stop[u].hand : m.id # r /\ m.id \in Requests
    BY <1>12 DEF M!DirectoryRefused, StopCalls, M!NoStop, M!Records
  <2>3. UNCHANGED <<listening, table, stop>>
    BY <1>12 DEF M!DirectoryRefused
  <2> HIDE <1>types
  <2> QED BY <1>types, <2>1, <2>2, <2>3
<1>13. ASSUME NEW r \in Requests, NEW c \in Connections, NEW surface \in Surfaces,
              NEW strategy \in M!Strategies, NEW picked \in BOOLEAN,
              M!Begins(r, c, surface, strategy, picked)
       PROVE  Goal
  BY <1>13 DEF M!Begins
<1>14. ASSUME NEW u \in Stops, NEW c \in Connections, M!Disconnects(u, c) PROVE Goal
  BY <1>14 DEF M!Disconnects
<1>15. ASSUME NEW u \in Stops, NEW c \in Connections, NEW ids \in SUBSET Requests, M!Unmounts(u, c, ids)
       PROVE  Goal
  BY <1>15 DEF M!Unmounts, M!RecordsOf
<1>16. ASSUME NEW u \in Stops, M!Unregisters(u) PROVE Goal
  BY <1>16 DEF M!Unregisters
<1>17. ASSUME NEW u \in Stops, M!Snapshots(u) PROVE Goal
  BY <1>17 DEF M!Snapshots, M!RecordsOf
<1>18. ASSUME NEW u \in Stops, M!DropsRecord(u) PROVE Goal
  BY <1>18 DEF M!DropsRecord
<1>19. ASSUME NEW u \in Stops, M!Stopped(u) PROVE Goal
  BY <1>19 DEF M!Stopped
<1>20. ASSUME NEW u \in Stops, NEW m \in stop[u].todo, M!LetsGo(u, m) PROVE Goal
  <2>0. stop[u].at = "unmounting" /\ UNCHANGED <<table, start>> /\ M!Takes(u, m)
    BY <1>20 DEF M!LetsGo, M!CanTake
  <2>1. /\ stop[u] \in StopCalls \ {M!NoStop} /\ m \in M!Records
        /\ UNCHANGED <<table, start>>
        /\ \A v \in Stops : v # u => stop'[v] = stop[v]
    BY <1>20, <2>0 DEF M!Takes, StopCalls, M!NoStop
  <2>2. stop'[u].todo = stop[u].todo \ {m} /\ stop'[u].hand = {m}
    BY <1>20, <2>1 DEF M!LetsGo, M!Takes, StopCalls
  <2>3. m.id \notin listening' /\ listening' \subseteq listening
    BY <1>20, <2>1 DEF M!LetsGo, M!StopsGateway, M!Records
  <2>4. \A r \in Requests : M!Starting(r, "done")' = M!Starting(r, "done")
    BY <2>1
  <2>5. M!Starting(m.id, "done")'
    BY <1>20, <2>1 DEF M!Records
  <2> HIDE <1>types
  <2> QED BY <1>types, <1>20, <2>1, <2>2, <2>3, <2>5
<1>21. ASSUME NEW u \in Stops, NEW m \in stop[u].todo, M!KeepsRecord(u, m) PROVE Goal
  BY <1>21 DEF M!KeepsRecord, M!CanTake, M!Skips
<1>22. ASSUME NEW u \in Stops, M!Unreachable(u) PROVE Goal
  BY <1>22 DEF M!Unreachable
<1>23. CASE M!Crashes
  BY <1>23 DEF M!Crashes
<1>24. CASE UNCHANGED M!mountVars
  BY <1>24 DEF M!mountVars
<1>25. ASSUME NEW r \in Requests, M!Serves(r) \/ M!StartFails(r) PROVE Goal
  <2> HIDE DEF Goal
  <2> QED BY <1>25, <1>1, <1>2, <1>3, <1>4, <1>5, <1>6, <1>7, <1>8, <1>9, <1>10, <1>11, <1>12
           DEF M!Serves, M!StartFails
<1>26. ASSUME NEW u \in Stops, M!Winds(u) \/ M!Unreachable(u) \/ \E m \in stop[u].todo : M!KeepsRecord(u, m)
       PROVE  Goal
  <2> HIDE DEF Goal
  <2> QED BY <1>26, <1>16, <1>17, <1>18, <1>19, <1>20, <1>21, <1>22 DEF M!Winds
<1> HIDE DEF Goal
<1> QED BY <1>13, <1>14, <1>15, <1>23, <1>24, <1>25, <1>26 DEF M!MountNext

(* Every action keeps the claims those of the requests that bring up a     *)
(* gateway.                                                                *)
LEMMA ClaimStep ==
    MountsTyped /\ M!ClaimOwned /\ [M!MountNext]_(M!mountVars) => M!ClaimOwned'
<1> SUFFICES ASSUME MountsTyped, M!ClaimOwned, [M!MountNext]_(M!mountVars) PROVE M!ClaimOwned'
    OBVIOUS
<1>types. start \in [Requests -> StartCalls]
  BY DEF MountsTyped
<1> USE DEF M!Starting, StartPhases, Outs
<1>same. ASSUME UNCHANGED <<claims, start>> PROVE M!ClaimOwned'
  BY <1>same DEF M!ClaimOwned, M!BringsUp, M!Key
<1>moves. ASSUME NEW r \in Requests, ~M!BringsUp(r), ~M!BringsUp(r)', UNCHANGED claims,
                 \A q \in Requests : q # r => start'[q] = start[q]
          PROVE  M!ClaimOwned'
  BY <1>moves DEF M!ClaimOwned, M!BringsUp, M!Key
<1>leaves. ASSUME NEW r \in Requests, M!BringsUp(r), M!Releases(r), NEW out \in Outs, M!Answers(r, out)
           PROVE  M!ClaimOwned'
  <2>1. ~M!BringsUp(r)' /\ \A q \in Requests : q # r => start'[q] = start[q]
    BY <1>types, <1>leaves, AnswersEffect DEF M!BringsUp
  <2>2. \A q \in Requests : q # r => (M!BringsUp(q)' <=> M!BringsUp(q)) /\ M!Key(q)' = M!Key(q)
    BY <2>1 DEF M!BringsUp, M!Key
  <2> QED BY <1>leaves, <2>1, <2>2 DEF M!ClaimOwned, M!Releases
<1>stays. ASSUME NEW r \in Requests, ~M!Starting(r, "idle"), NEW label \in StartPhases, M!Goes(r, label)
          PROVE  /\ start'[r].at = label /\ M!Key(r)' = M!Key(r)
                 /\ \A q \in Requests : q # r => start'[q] = start[q] /\ M!Key(q)' = M!Key(q)
  BY <1>types, <1>stays, StartEffect DEF M!Key
<1>answers. ASSUME NEW r \in Requests, ~M!Starting(r, "idle"), ~M!BringsUp(r), UNCHANGED claims,
                   \/ \E out \in Outs : M!Answers(r, out)
                   \/ \E label \in StartPhases \ {"gateway", "volume"} : M!Goes(r, label)
            PROVE  M!ClaimOwned'
  <2>1. CASE \E out \in Outs : M!Answers(r, out)
    BY <1>types, <1>answers, <1>moves, <2>1, AnswersEffect DEF M!BringsUp
  <2>2. CASE \E label \in StartPhases \ {"gateway", "volume"} : M!Goes(r, label)
    BY <1>answers, <1>moves, <1>stays, <2>2 DEF M!BringsUp
  <2> QED BY <1>answers, <2>1, <2>2
<1>1. ASSUME NEW r \in Requests,
             \/ M!GetsClient(r) \/ M!Accepted(r) \/ M!Refused(r) \/ M!Registered(r) \/ M!NeverRegistered(r)
             \/ M!Checks(r) \/ M!FailsEarly(r)
      PROVE  M!ClaimOwned'
  <2>1. ~M!Starting(r, "idle") /\ ~M!BringsUp(r) /\ UNCHANGED claims
    BY <1>1 DEF M!GetsClient, M!Accepted, M!Refused, M!Registered, M!NeverRegistered, M!Checks, M!FailsEarly, M!BringsUp
  <2>2. \/ \E out \in Outs : M!Answers(r, out)
        \/ \E label \in StartPhases \ {"gateway", "volume"} : M!Goes(r, label)
    BY <1>1 DEF M!GetsClient, M!Accepted, M!Refused, M!Registered, M!NeverRegistered, M!Checks, M!FailsEarly, M!FallsBack
  <2> QED BY <1>answers, <2>1, <2>2
<1>2. ASSUME NEW r \in Requests, M!Claims(r) PROVE M!ClaimOwned'
  <2>1. CASE M!Key(r) \in claims
    BY <1>2, <1>answers, <2>1 DEF M!Claims, M!BringsUp
  <2>2. CASE M!Key(r) \notin claims
    <3>1. M!Goes(r, "gateway") /\ claims' = claims \cup {M!Key(r)} /\ ~M!BringsUp(r)
      BY <1>2, <2>2 DEF M!Claims, M!BringsUp
    <3>2. M!BringsUp(r)' /\ M!Key(r)' = M!Key(r)
      BY <1>2, <1>stays, <3>1 DEF M!Claims, M!BringsUp
    <3>3. \A q \in Requests : q # r => (M!BringsUp(q)' <=> M!BringsUp(q)) /\ M!Key(q)' = M!Key(q)
      BY <1>2, <1>stays, <3>1 DEF M!Claims, M!BringsUp
    <3> QED BY <2>2, <3>1, <3>2, <3>3 DEF M!ClaimOwned
  <2> QED BY <2>1, <2>2
<1>3. ASSUME NEW r \in Requests, M!GatewayFails(r) \/ M!DirectoryRefused(r) \/ M!GatewayMounted(r)
      PROVE  M!ClaimOwned'
  BY <1>3, <1>leaves DEF M!GatewayFails, M!DirectoryRefused, M!GatewayMounted, M!BringsUp
<1>4. ASSUME NEW r \in Requests, M!GatewayStarts(r) PROVE M!ClaimOwned'
  <2>1. M!Goes(r, "volume") /\ M!BringsUp(r) /\ UNCHANGED claims
    BY <1>4 DEF M!GatewayStarts, M!BringsUp
  <2>2. \A q \in Requests : (M!BringsUp(q)' <=> M!BringsUp(q)) /\ M!Key(q)' = M!Key(q)
    BY <1>4, <1>stays, <2>1 DEF M!GatewayStarts, M!BringsUp
  <2> QED BY <2>1, <2>2 DEF M!ClaimOwned
<1>5. ASSUME NEW r \in Requests, NEW c \in Connections, NEW surface \in Surfaces,
             NEW strategy \in M!Strategies, NEW picked \in BOOLEAN,
             M!Begins(r, c, surface, strategy, picked)
      PROVE  M!ClaimOwned'
  BY <1>types, <1>5, <1>moves DEF M!Begins, M!BringsUp
<1>6. ASSUME NEW u \in Stops, M!Winds(u) \/ M!Unreachable(u) \/ \E m \in stop[u].todo : M!KeepsRecord(u, m)
      PROVE  M!ClaimOwned'
  BY <1>6, <1>same DEF M!Winds, M!Unreachable, M!KeepsRecord, M!Unregisters, M!Snapshots, M!DropsRecord, M!Stopped, M!LetsGo
<1>7. ASSUME NEW u \in Stops, NEW c \in Connections,
             M!Disconnects(u, c) \/ \E ids \in SUBSET Requests : M!Unmounts(u, c, ids)
      PROVE  M!ClaimOwned'
  BY <1>7, <1>same DEF M!Disconnects, M!Unmounts
<1>8. CASE M!Crashes \/ UNCHANGED M!mountVars
  BY <1>8, <1>same DEF M!Crashes, M!mountVars
<1> QED BY <1>1, <1>2, <1>3, <1>4, <1>5, <1>6, <1>7, <1>8 DEF M!MountNext, M!Serves, M!StartFails

LEMMA MountsStart == M!MountInit => MountInv
BY DEF M!MountInit, MountInv, MountsTyped, Accounted, M!GatewayOwned, M!ClaimOwned, StartCalls, StopCalls, M!NoStart,
       M!NoStop, M!BringsUp, M!Starting

LEMMA MountsStep == MountInv /\ [M!MountNext]_(M!mountVars) => MountInv'
BY MountTypesStep, OwnedStep, ClaimStep DEF MountInv

LEMMA MountsMean == MountInv => M!MountTypeOK /\ MountsOwned
BY DEF MountInv, MountsOwned, MountsTyped, M!MountTypeOK, StartCalls, StartPhases, StopCalls, M!NoStart, M!NoStop

(* However starts, unmounts and disconnects interleave, every gateway that *)
(* accepts can be stopped, and a surface is claimed by the one request     *)
(* that brings its gateway up.                                             *)
THEOREM MountsAreOwned == M!MountSpec => [](M!MountTypeOK /\ MountsOwned)
BY MountsStart, MountsStep, MountsMean, PTL DEF M!MountSpec

------------------------------------------------------------------------------
CallLabels == {"idle", "stat", "check", "hash", "upload", "place", "placed", "clean",
               "transfer", "probe", "delete"}
Objects == F!Contents \cup {Nothing}
CallStates == [at : CallLabels, kind : {"write", "copy", "move", "delete"}, todo : Seq(Files),
               source : Files, create : BOOLEAN, overwrite : BOOLEAN, etag : {Nothing, F!Old},
               data : Objects, clobbers : BOOLEAN]
CallsTyped ==
    /\ object \in [Files -> Objects]
    /\ stood \in [Callers -> Objects]
    /\ call \in [Callers -> CallStates]
    /\ \A w \in Callers : F!At(w, "idle") \/ call[w].todo # <<>>

(* What stood at a target still stands there, and a call that is about to  *)
(* write has asked for its conditions: nothing is in the way of it, or it  *)
(* may overwrite the object that is.                                       *)
StoodFresh(w) == call[w].todo # <<>> /\ stood[w] # Nothing => stood[w] = object[F!Target(w)]
Unconditional(w) == call[w].overwrite /\ call[w].etag = Nothing
GuardedOf(w) ==
    /\ StoodFresh(w)
    /\ call[w].todo = <<>> => stood[w] = Nothing
    /\ ~call[w].clobbers
    /\ call[w].kind # "write" \/ F!At(w, "stat") => call[w].etag = Nothing
    /\ F!At(w, "hash") => call[w].overwrite
    /\ F!At(w, "upload") \/ F!At(w, "place") \/ F!At(w, "transfer") => ~F!Clobbers(w)
    /\ Len(call[w].todo) > 1 => Unconditional(w)
Guarded == \A w \in Callers : GuardedOf(w)

CallInv == CallsTyped /\ Guarded

(* A call of another worker goes on: what stands at the target of v still  *)
(* does, or is no longer what stood there.                                 *)
LEMMA OtherCallsStay ==
    ASSUME CallsTyped, Guarded, NEW w \in Callers, NEW next \in CallStates,
           NEW objects \in [Files -> Objects], next.at = "idle" \/ next.todo # <<>>,
           F!Turns(w, next, objects)
    PROVE  /\ CallsTyped'
           /\ call'[w] = next /\ object' = objects /\ stood'[w] = F!Watched(w, next, objects)
           /\ \A v \in Callers : v # w => GuardedOf(v)'
<1>1. call'[w] = next /\ object' = objects /\ \A v \in Callers : v # w => call'[v] = call[v]
  BY DEF F!Turns, CallsTyped
<1>2. \A v \in Callers : stood'[v] = F!Watched(v, call'[v], objects)
  BY DEF F!Turns
<1>3. ASSUME NEW v \in Callers PROVE F!Watched(v, call'[v], objects) \in Objects
  <2>1. stood[v] \in Objects /\ Nothing \in Objects
    BY DEF CallsTyped, Objects
  <2>2. call'[v].todo \in Seq(Files)
    BY <1>1 DEF CallsTyped, CallStates
  <2>3. F!Stands(call'[v]) \in Objects
    BY <2>1, <2>2 DEF F!Stands, CallsTyped
  <2> QED BY <2>1, <2>3 DEF F!Watched
<1>4. call' \in [Callers -> CallStates] /\ stood' \in [Callers -> Objects]
  BY <1>3 DEF F!Turns, CallsTyped
<1>5. CallsTyped'
  BY <1>1, <1>4 DEF CallsTyped, F!At
<1>6. ASSUME NEW v \in Callers, v # w PROVE GuardedOf(v)'
  <2>1. call'[v] = call[v] /\ stood'[v] \in {stood[v], Nothing}
    BY <1>1, <1>2, <1>6 DEF F!Watched
  <2>2. call[v].todo # <<>> /\ stood'[v] # Nothing
           => stood'[v] = stood[v] /\ objects[Head(call[v].todo)] = object[Head(call[v].todo)]
    BY <1>1, <1>2, <1>6 DEF F!Watched
  <2>3. call[v].todo = <<>> => stood'[v] = Nothing
    BY <1>1, <1>2, <1>6 DEF F!Watched
  <2>4. GuardedOf(v)
    BY DEF Guarded
  <2> QED BY <1>1, <2>1, <2>2, <2>3, <2>4 DEF GuardedOf, StoodFresh, Unconditional, F!Clobbers, F!At, F!Target
<1> QED BY <1>1, <1>2, <1>5, <1>6

(* A call of w that goes on and stays within its guards.                   *)
LEMMA TurnKeeps ==
    ASSUME CallsTyped, Guarded, NEW w \in Callers, NEW next \in CallStates,
           NEW objects \in [Files -> Objects], next.at = "idle" \/ next.todo # <<>>,
           F!Turns(w, next, objects),
           ~next.clobbers, next.kind # "write" \/ next.at = "stat" => next.etag = Nothing,
           next.at = "hash" => next.overwrite,
           Len(next.todo) > 1 => next.overwrite /\ next.etag = Nothing,
           next.todo # call[w].todo => next.todo = <<>> \/ objects = object,
           next.at \in {"upload", "place", "transfer"} =>
              \/ F!Watched(w, next, objects) = Nothing
              \/ next.overwrite /\ next.etag \in {Nothing, F!Watched(w, next, objects)}
    PROVE  CallInv'
<1>1. /\ CallsTyped'
      /\ call'[w] = next /\ object' = objects /\ stood'[w] = F!Watched(w, next, objects)
      /\ \A v \in Callers : v # w => GuardedOf(v)'
  BY OtherCallsStay
<1>2. next.todo # <<>> /\ stood'[w] # Nothing => stood'[w] = objects[Head(next.todo)]
  <2>1. CASE next.todo # call[w].todo
    BY <1>1, <2>1 DEF F!Watched, F!Stands
  <2>2. CASE next.todo = call[w].todo
    BY <1>1, <2>2 DEF F!Watched, Guarded, GuardedOf, StoodFresh, F!Target
  <2> QED BY <2>1, <2>2
<1>3. next.todo = <<>> => stood'[w] = Nothing
  BY <1>1 DEF F!Watched, F!Stands
<1>4. GuardedOf(w)'
  BY <1>1, <1>2, <1>3 DEF GuardedOf, StoodFresh, Unconditional, F!Clobbers, F!At, F!Target
<1> QED BY <1>1, <1>4 DEF CallInv, Guarded

LEMMA IdleState ==
    F!Idle \in CallStates /\ F!Idle.at = "idle" /\ F!Idle.todo = <<>> /\ ~F!Idle.clobbers
    /\ F!Idle.etag = Nothing /\ F!Idle.overwrite
<1>1. <<>> \in Seq(Files)
  OBVIOUS
<1> QED BY <1>1, FilesAssumption DEF F!Idle, CallStates, CallLabels, Objects

(* A call that ends, whatever it has done to the directory.                *)
LEMMA EndsKeeps ==
    ASSUME CallsTyped, Guarded, NEW w \in Callers, NEW objects \in [Files -> Objects],
           F!Turns(w, F!Idle, objects)
    PROVE  CallInv'
BY IdleState, TurnKeeps

(* A call that goes on to another place, with nothing changed.             *)
LEMMA GoesKeeps ==
    ASSUME CallsTyped, Guarded, NEW w \in Callers, ~F!At(w, "idle"), NEW label \in CallLabels, F!Goes(w, label),
           label = "hash" => call[w].overwrite, label # "stat",
           label \in {"upload", "place", "transfer"} => ~F!Clobbers(w)
    PROVE  CallInv'
<1> DEFINE next == [call[w] EXCEPT !.at = label]
<1>1. /\ next \in CallStates /\ next.at = label /\ next.todo = call[w].todo
      /\ next.clobbers = call[w].clobbers /\ next.kind = call[w].kind
      /\ next.etag = call[w].etag /\ next.overwrite = call[w].overwrite
  BY DEF CallsTyped, CallStates
<1>2. F!Turns(w, next, object)
  BY DEF F!Goes, F!Steps
<1>3. GuardedOf(w) /\ next.todo # <<>> /\ object \in [Files -> Objects]
  BY <1>1 DEF Guarded, CallsTyped
<1> HIDE DEF next
<1>4. F!Watched(w, next, object) = stood[w]
  BY <1>1, <1>3 DEF F!Watched
<1> QED BY <1>1, <1>2, <1>3, <1>4, TurnKeeps DEF GuardedOf, F!Clobbers, Unconditional

(* A call that is asked for, in one piece or for one file.                  *)
LEMMA AsksKeeps ==
    ASSUME CallsTyped, Guarded, NEW w \in Callers, NEW r \in CallStates, F!Begins(w, r),
           r.todo # <<>>, ~r.clobbers, r.kind # "write" \/ r.at = "stat" => r.etag = Nothing,
           r.at # "hash",
           Len(r.todo) > 1 \/ r.at \in {"upload", "place", "transfer"} => r.overwrite /\ r.etag = Nothing
    PROVE  CallInv'
BY TurnKeeps DEF F!Begins, CallsTyped

LEMMA AsksOne ==
    ASSUME CallsTyped, Guarded, NEW w \in Callers, NEW f \in Files, NEW r \in CallStates,
           F!Begins(w, r), r.todo = <<f>>, ~r.clobbers,
           \/ r.at = "upload" /\ r.overwrite /\ r.etag = Nothing
           \/ r.at = "check" /\ r.kind = "write"
           \/ r.at \in {"stat", "probe"} /\ r.etag = Nothing
    PROVE  CallInv'
<1>1. r.todo # <<>> /\ ~(Len(r.todo) > 1)
  OBVIOUS
<1>2. r.at # "hash" /\ r.at \notin {"place", "transfer"}
  OBVIOUS
<1>3. r.kind # "write" \/ r.at = "stat" => r.etag = Nothing
  OBVIOUS
<1>4. r.at \in {"upload", "place", "transfer"} => r.overwrite /\ r.etag = Nothing
  OBVIOUS
<1> HIDE DEF CallInv
<1> QED BY <1>1, <1>2, <1>3, <1>4, AsksKeeps

LEMMA AsksStep ==
    ASSUME CallsTyped, Guarded, NEW w \in Callers, F!Asks(w)
    PROVE  CallInv'
<1> USE DEF CallLabels
<1>one. \A f \in Files : <<f>> \in Seq(Files) /\ <<f>> # <<>> /\ Len(<<f>>) = 1
  OBVIOUS
<1>1. CASE F!Extracts(w)
  <2>1. PICK plan \in Planned : F!Begins(w, F!Request("write", "upload", plan))
    BY <1>1 DEF F!Extracts
  <2>2. plan \in Seq(Files) /\ plan # <<>>
    BY FilesAssumption
  <2> DEFINE r == F!Request("write", "upload", plan)
  <2>3. r \in CallStates /\ r.at = "upload" /\ r.kind = "write" /\ r.todo = plan
        /\ r.overwrite /\ r.etag = Nothing /\ ~r.clobbers
    BY <2>2, IdleState DEF F!Request, CallStates
  <2> HIDE DEF r
  <2> QED BY <2>1, <2>2, <2>3, AsksKeeps DEF r
<1>2. ASSUME NEW f \in Files, F!Writes(w, f) PROVE CallInv'
  <2> DEFINE r == F!Request("write", "upload", <<f>>)
  <2>1. F!Begins(w, r)
    BY <1>2 DEF F!Writes
  <2>2. r \in CallStates /\ r.at = "upload" /\ r.kind = "write" /\ r.todo = <<f>>
        /\ r.overwrite /\ r.etag = Nothing /\ ~r.clobbers
    BY <1>one, IdleState DEF F!Request, CallStates
  <2> HIDE DEF r
  <2> QED BY <2>1, <2>2, AsksOne
<1>3. ASSUME NEW f \in Files, F!WritesIf(w, f) PROVE CallInv'
  <2>1. PICK create \in BOOLEAN, overwrite \in BOOLEAN, etag \in {Nothing, F!Old} :
           F!Begins(w, [F!Request("write", "check", <<f>>) EXCEPT !.create = create,
                        !.overwrite = overwrite, !.etag = etag])
    BY <1>3 DEF F!WritesIf
  <2> DEFINE r == [F!Request("write", "check", <<f>>) EXCEPT !.create = create,
                     !.overwrite = overwrite, !.etag = etag]
  <2>2. r \in CallStates /\ r.at = "check" /\ r.kind = "write" /\ r.todo = <<f>> /\ ~r.clobbers
    BY <1>one, IdleState DEF F!Request, CallStates
  <2>3. F!Begins(w, r)
    BY <2>1
  <2> HIDE DEF r
  <2> QED BY <2>2, <2>3, AsksOne
<1>4. ASSUME NEW f \in Files, F!Compresses(w, f) PROVE CallInv'
  <2> DEFINE r == [F!Request("write", "check", <<f>>) EXCEPT !.overwrite = FALSE]
  <2>1. F!Begins(w, r)
    BY <1>4 DEF F!Compresses
  <2>2. r \in CallStates /\ r.at = "check" /\ r.kind = "write" /\ r.todo = <<f>> /\ ~r.clobbers
    BY <1>one, IdleState DEF F!Request, CallStates
  <2> HIDE DEF r
  <2> QED BY <2>1, <2>2, AsksOne
<1>5. ASSUME NEW f \in Files, F!Deletes(w, f) PROVE CallInv'
  <2> DEFINE r == F!Request("delete", "probe", <<f>>)
  <2>1. F!Begins(w, r)
    BY <1>5 DEF F!Deletes
  <2>2. r \in CallStates /\ r.at = "probe" /\ r.etag = Nothing /\ r.todo = <<f>> /\ ~r.clobbers
    BY <1>one, IdleState DEF F!Request, CallStates
  <2> HIDE DEF r
  <2> QED BY <2>1, <2>2, AsksOne
<1>6. ASSUME NEW f \in Files, NEW g \in Files, NEW kind \in {"copy", "move"},
             F!Begins(w, [F!Request(kind, "stat", <<g>>) EXCEPT !.source = f])
      PROVE  CallInv'
  <2> DEFINE r == [F!Request(kind, "stat", <<g>>) EXCEPT !.source = f]
  <2>1. F!Begins(w, r)
    BY <1>6
  <2>2. r \in CallStates /\ r.at = "stat" /\ r.etag = Nothing /\ r.todo = <<g>> /\ ~r.clobbers
    BY <1>one, IdleState DEF F!Request, CallStates
  <2> HIDE DEF r
  <2> QED BY <2>1, <2>2, AsksOne
<1>7. ASSUME NEW f \in Files, NEW g \in Files, F!MovesIf(w, f, g) PROVE CallInv'
  <2> DEFINE r == [F!Request("move", "stat", <<g>>) EXCEPT !.source = f, !.overwrite = FALSE]
  <2>1. F!Begins(w, r)
    BY <1>7 DEF F!MovesIf
  <2>2. r \in CallStates /\ r.at = "stat" /\ r.etag = Nothing /\ r.todo = <<g>> /\ ~r.clobbers
    BY <1>one, IdleState DEF F!Request, CallStates
  <2> HIDE DEF r
  <2> QED BY <2>1, <2>2, AsksOne
<1> QED BY <1>1, <1>2, <1>3, <1>4, <1>5, <1>6, <1>7 DEF F!Asks, F!Copies, F!Moves

LEMMA ServesStep ==
    ASSUME CallsTyped, Guarded, NEW w \in Callers, F!Serves(w)
    PROVE  CallInv'
<1> USE DEF CallLabels
<1>types. /\ object \in [Files -> Objects] /\ call[w] \in CallStates /\ GuardedOf(w)
          /\ w \in Objects /\ Nothing \in Objects
  BY DEF CallsTyped, Guarded, Objects, F!Contents
<1>ends. ASSUME F!Ends(w) PROVE CallInv'
  BY <1>types, <1>ends, EndsKeeps DEF F!Ends, F!Steps
<1>cleans. ASSUME NEW objects \in [Files -> Objects], F!Steps(w, F!Idle, objects) PROVE CallInv'
  BY <1>cleans, EndsKeeps DEF F!Steps
<1>head. ~F!At(w, "idle") => F!Target(w) \in Files /\ call[w].todo # <<>> /\ Tail(call[w].todo) \in Seq(Files)
  BY <1>types DEF CallsTyped, CallStates, F!Target
<1>1. CASE F!FindsSource(w)
  <2>1. F!At(w, "stat") /\ call[w].etag = Nothing
        /\ (F!Ends(w) \/ F!Goes(w, "check") \/ (F!Goes(w, "transfer") /\ call[w].overwrite))
    BY <1>1, <1>types DEF F!FindsSource, GuardedOf
  <2>2. call[w].overwrite => ~F!Clobbers(w)
    BY <1>types, <2>1 DEF F!Clobbers
  <2> QED BY <1>ends, <2>1, <2>2, GoesKeeps DEF F!At
<1>2. CASE F!Checks(w)
  <2>1. F!At(w, "check") /\ ~F!At(w, "idle")
    BY <1>2 DEF F!Checks, F!At
  <2>2. CASE ~F!Allows(w)
    BY <1>2, <1>ends, <2>2 DEF F!Checks
  <2>3. CASE F!Allows(w) /\ F!Goes(w, "transfer") /\ call[w].kind = "move"
    <3>1. ~F!Clobbers(w)
      BY <1>types, <1>head, <2>1, <2>3 DEF F!Allows, F!Exists, F!Clobbers, GuardedOf, StoodFresh
    <3> QED BY <2>1, <2>3, <3>1, GoesKeeps
  <2>4. CASE F!Allows(w) /\ F!Goes(w, "hash") /\ F!Exists(F!Target(w))
    BY <2>1, <2>4, GoesKeeps DEF F!Allows
  <2>5. CASE F!Allows(w) /\ F!Goes(w, "upload") /\ ~(F!Exists(F!Target(w)) /\ call[w].etag # Nothing)
    <3>1. ~F!Clobbers(w)
      BY <1>types, <1>head, <2>1, <2>5 DEF F!Allows, F!Exists, F!Clobbers, GuardedOf, StoodFresh
    <3> QED BY <2>1, <2>5, <3>1, GoesKeeps
  <2> QED BY <1>2, <2>2, <2>3, <2>4, <2>5 DEF F!Checks
<1>3. CASE F!Compares(w)
  <2>1. F!At(w, "hash") /\ ~F!At(w, "idle") /\ call[w].overwrite
    BY <1>3, <1>types DEF F!Compares, F!At, GuardedOf
  <2>2. CASE object[F!Target(w)] \in {Nothing, call[w].etag}
    <3>1. ~F!Clobbers(w)
      BY <1>types, <1>head, <2>1, <2>2 DEF F!Clobbers, GuardedOf, StoodFresh
    <3> QED BY <1>3, <2>1, <2>2, <3>1, GoesKeeps DEF F!Compares
  <2>3. CASE object[F!Target(w)] \notin {Nothing, call[w].etag}
    BY <1>3, <1>ends, <2>3 DEF F!Compares
  <2> QED BY <2>2, <2>3
<1>4. CASE F!SkipsHash(w)
  <2> DEFINE next == [call[w] EXCEPT !.at = "upload", !.etag = Nothing]
  <2>1. F!At(w, "hash") /\ ~F!At(w, "idle") /\ call[w].overwrite /\ F!Turns(w, next, object)
    BY <1>4, <1>types DEF F!SkipsHash, F!At, GuardedOf, F!Steps
  <2>2. /\ next \in CallStates /\ next.at = "upload" /\ next.todo = call[w].todo
        /\ next.clobbers = call[w].clobbers /\ next.overwrite = call[w].overwrite /\ next.etag = Nothing
    BY <1>types DEF CallStates
  <2> HIDE DEF next
  <2> QED BY <1>types, <1>head, <2>1, <2>2, TurnKeeps DEF GuardedOf
<1>5. CASE F!Uploads(w)
  <2>1. F!At(w, "upload") /\ ~F!At(w, "idle") /\ ~F!Clobbers(w) /\ F!Uploaded(w) \in [Files -> Objects]
    BY <1>5, <1>types DEF F!Uploads, F!At, GuardedOf, F!Uploaded
  <2>2. CASE F!Target(w) = Payload
    <3> DEFINE next == [call[w] EXCEPT !.at = "placed", !.data = w, !.clobbers = @ \/ F!Clobbers(w)]
    <3>1. F!Turns(w, next, F!Uploaded(w))
      BY <1>5, <2>2 DEF F!Uploads, F!Steps
    <3>2. /\ next.at = "placed" /\ next.todo = call[w].todo
          /\ next.clobbers = (call[w].clobbers \/ F!Clobbers(w)) /\ next.etag = call[w].etag
          /\ next.overwrite = call[w].overwrite /\ next.kind = call[w].kind
      BY <1>types DEF CallStates
    <3>3. ~next.clobbers
      BY <1>types, <2>1, <3>2 DEF GuardedOf
    <3>4. next \in CallStates
      BY <1>types, <2>1 DEF CallStates, F!Clobbers, GuardedOf
    <3> HIDE DEF next
    <3> QED BY <1>types, <1>head, <2>1, <3>1, <3>2, <3>3, <3>4, TurnKeeps DEF GuardedOf, Unconditional
  <2>3. CASE F!Target(w) # Payload
    <3> DEFINE next == [call[w] EXCEPT !.at = "place"]
    <3>1. F!Turns(w, next, F!Uploaded(w))
      BY <1>5, <2>3 DEF F!Uploads, F!Steps
    <3>2. /\ next \in CallStates /\ next.at = "place" /\ next.todo = call[w].todo
          /\ next.clobbers = call[w].clobbers /\ next.etag = call[w].etag
          /\ next.overwrite = call[w].overwrite /\ next.kind = call[w].kind
      BY <1>types DEF CallStates
    <3> HIDE DEF next
    <3>3. F!Watched(w, next, F!Uploaded(w)) = stood[w]
      <4>1. F!Uploaded(w)[Head(call[w].todo)] = object[Head(call[w].todo)]
        BY <1>types, <1>head, <2>1, <2>3 DEF F!Uploaded, F!Target
      <4> QED BY <1>head, <2>1, <3>2, <4>1 DEF F!Watched
    <3> QED BY <1>types, <1>head, <2>1, <3>1, <3>2, <3>3, TurnKeeps DEF GuardedOf, Unconditional, F!Clobbers
  <2> QED BY <2>2, <2>3
<1>6. CASE F!Places(w)
  <2>1. F!At(w, "place") /\ ~F!At(w, "idle") /\ ~F!Clobbers(w)
    BY <1>6, <1>types DEF F!Places, F!At, GuardedOf
  <2>2. CASE F!Exists(Payload)
    <3> DEFINE next == [call[w] EXCEPT !.at = "placed", !.data = object[Payload],
                          !.clobbers = @ \/ F!Clobbers(w)]
    <3>1. F!Turns(w, next, F!Placed(w))
      BY <1>6, <2>2 DEF F!Places, F!Steps
    <3>2. /\ next.at = "placed" /\ next.todo = call[w].todo
          /\ next.clobbers = (call[w].clobbers \/ F!Clobbers(w)) /\ next.etag = call[w].etag
          /\ next.overwrite = call[w].overwrite /\ next.kind = call[w].kind
      BY <1>types DEF CallStates
    <3>3. ~next.clobbers /\ object[Payload] \in Objects
      BY <1>types, <2>1, <3>2, FilesAssumption DEF GuardedOf
    <3>4. next \in CallStates
      BY <1>types, <2>1, <3>3 DEF CallStates, F!Clobbers, GuardedOf
    <3>5. F!Placed(w) \in [Files -> Objects]
      BY <1>types, <3>3 DEF F!Placed
    <3> HIDE DEF next
    <3> QED BY <1>types, <1>head, <2>1, <3>1, <3>2, <3>3, <3>4, <3>5, TurnKeeps DEF GuardedOf, Unconditional
  <2>3. CASE ~F!Exists(Payload)
    BY <1>6, <2>1, <2>3, GoesKeeps DEF F!Places
  <2> QED BY <2>2, <2>3
<1>7. CASE F!Cleans(w)
  BY <1>types, <1>7, <1>cleans DEF F!Cleans
<1>8. CASE F!Continues(w)
  <2>1. CASE Len(call[w].todo) > 1
    <3> DEFINE next == [call[w] EXCEPT !.at = "upload", !.todo = Tail(@)]
    <3>1. F!Turns(w, next, object) /\ Unconditional(w) /\ ~F!At(w, "idle")
      BY <1>8, <1>types, <2>1 DEF F!Continues, F!Steps, GuardedOf, F!At
    <3>2. /\ next.at = "upload" /\ next.todo = Tail(call[w].todo)
          /\ next.clobbers = call[w].clobbers /\ next.etag = call[w].etag
          /\ next.overwrite = call[w].overwrite /\ next.kind = call[w].kind
      BY <1>types DEF CallStates
    <3>3. next \in CallStates
      BY <1>types, <1>head, <3>1 DEF CallStates
    <3>4. next.todo # <<>>
      <4>1. call[w].todo \in Seq(Files)
        BY <1>types DEF CallStates
      <4>2. Len(Tail(call[w].todo)) = Len(call[w].todo) - 1 /\ call[w].todo # <<>>
        BY <2>1, <4>1
      <4>3. Len(next.todo) = Len(call[w].todo) - 1 /\ Len(call[w].todo) \in Nat
        BY <3>2, <4>1, <4>2
      <4>4. Len(<<>>) = 0
        OBVIOUS
      <4> HIDE DEF next
      <4> QED BY <2>1, <4>3, <4>4
    <3> HIDE DEF next
    <3> QED BY <1>types, <3>1, <3>2, <3>3, <3>4, TurnKeeps DEF GuardedOf, Unconditional
  <2>2. CASE ~(Len(call[w].todo) > 1)
    BY <1>8, <1>ends, <2>2 DEF F!Continues
  <2> QED BY <2>1, <2>2
<1>9. CASE F!Transfers(w)
  <2>1. F!At(w, "transfer") /\ ~F!At(w, "idle") /\ ~F!Clobbers(w)
    BY <1>9, <1>types DEF F!Transfers, F!At, GuardedOf
  <2>2. CASE F!Exists(call[w].source)
    <3> DEFINE next == [call[w] EXCEPT !.at = "placed", !.clobbers = F!Clobbers(w)]
    <3>1. F!Turns(w, next, F!Transferred(w))
      BY <1>9, <2>2 DEF F!Transfers, F!Steps
    <3>2. /\ next.at = "placed" /\ next.todo = call[w].todo
          /\ next.clobbers = F!Clobbers(w) /\ next.etag = call[w].etag
          /\ next.overwrite = call[w].overwrite /\ next.kind = call[w].kind
      BY <1>types DEF CallStates
    <3>4. next \in CallStates
      BY <1>types, <2>1 DEF CallStates, F!Clobbers
    <3>5. F!Transferred(w) \in [Files -> Objects]
      <4>1. object[call[w].source] \in Objects
        BY <1>types DEF CallStates
      <4> QED BY <1>types, <4>1 DEF F!Transferred
    <3> HIDE DEF next
    <3> QED BY <1>types, <1>head, <2>1, <3>1, <3>2, <3>4, <3>5, TurnKeeps DEF GuardedOf, Unconditional
  <2>3. CASE ~F!Exists(call[w].source)
    BY <1>9, <1>ends, <2>3 DEF F!Transfers
  <2> QED BY <2>2, <2>3
<1>10. CASE F!Probes(w)
  BY <1>10, <1>ends, GoesKeeps DEF F!Probes, F!At
<1>11. CASE F!Removes(w)
  BY <1>types, <1>11, <1>cleans DEF F!Removes
<1> QED BY <1>1, <1>2, <1>3, <1>4, <1>5, <1>6, <1>7, <1>8, <1>9, <1>10, <1>11 DEF F!Serves

LEMMA LosesStep ==
    ASSUME CallsTyped, Guarded, NEW w \in Callers, F!Loses(w)
    PROVE  CallInv'
<1>types. /\ object \in [Files -> Objects] /\ call[w] \in CallStates /\ GuardedOf(w)
          /\ w \in Objects /\ Nothing \in Objects
  BY DEF CallsTyped, Guarded, Objects, F!Contents
<1>fails. ASSUME NEW objects \in [Files -> Objects], F!Fails(w, F!Idle, objects) PROVE CallInv'
  BY <1>fails, EndsKeeps DEF F!Fails
<1>1. CASE F!LosesStat(w)
  BY <1>types, <1>fails, <1>1 DEF F!LosesStat, F!StatFails
<1>2. CASE F!LosesUpload(w)
  <2>1. F!Uploaded(w) \in [Files -> Objects]
    BY <1>types DEF F!Uploaded
  <2> QED BY <1>types, <1>fails, <1>2, <2>1 DEF F!LosesUpload
<1>3. CASE F!LosesPlace(w)
  <2> DEFINE next == [call[w] EXCEPT !.at = "clean"]
  <2>1. F!Placed(w) \in [Files -> Objects]
    BY <1>types, FilesAssumption DEF F!Placed
  <2>2. PICK objects \in {object, F!Placed(w)} : F!Turns(w, next, objects)
    BY <1>3 DEF F!LosesPlace, F!Fails
  <2>3. /\ next \in CallStates /\ next.at = "clean" /\ next.todo = call[w].todo
        /\ next.clobbers = call[w].clobbers /\ next.etag = call[w].etag
        /\ next.overwrite = call[w].overwrite /\ next.kind = call[w].kind
    BY <1>types DEF CallStates, CallLabels
  <2>4. next.todo # <<>>
    BY <1>3, <2>3 DEF F!LosesPlace, CallsTyped, F!At
  <2> HIDE DEF next
  <2> QED BY <1>types, <2>1, <2>2, <2>3, <2>4, TurnKeeps DEF GuardedOf, Unconditional
<1>4. CASE F!LosesClean(w)
  BY <1>types, <1>fails, <1>4 DEF F!LosesClean
<1>5. CASE F!LosesTransfer(w)
  <2>1. F!Transferred(w) \in [Files -> Objects]
    <3>1. object[call[w].source] \in Objects
      BY <1>types DEF CallStates
    <3> QED BY <1>types, <3>1 DEF F!Transferred
  <2> QED BY <1>types, <1>fails, <1>5, <2>1 DEF F!LosesTransfer
<1>6. CASE F!LosesRemove(w)
  BY <1>types, <1>fails, <1>6 DEF F!LosesRemove
<1> QED BY <1>1, <1>2, <1>3, <1>4, <1>5, <1>6 DEF F!Loses

LEMMA CallsStart == F!CallInit => CallInv
<1>1. F!CallInit => CallsTyped
  BY IdleState DEF F!CallInit, CallsTyped, Objects, F!Contents, F!At
<1>2. F!CallInit => Guarded
  BY IdleState DEF F!CallInit, Guarded, GuardedOf, StoodFresh, Unconditional, F!Clobbers, F!At
<1> QED BY <1>1, <1>2 DEF CallInv

LEMMA CallsStep == CallInv /\ [F!CallNext]_(F!callVars) => CallInv'
<1> SUFFICES ASSUME CallInv, [F!CallNext]_(F!callVars) PROVE CallInv'
    OBVIOUS
<1>1. CASE UNCHANGED F!callVars
  BY <1>1 DEF F!callVars, CallInv, CallsTyped, Guarded, GuardedOf, StoodFresh, Unconditional, F!Clobbers, F!At, F!Target
<1> QED BY <1>1, AsksStep, ServesStep, LosesStep DEF CallInv, F!CallNext

LEMMA CallsMean == CallInv => WritesAreGuarded
BY DEF CallInv, Guarded, GuardedOf, WritesAreGuarded, F!WritesAreGuarded

(* The bounds count what they bound.                                       *)
CallsCounted == callFaults \in 0..CallFaults /\ calls \in 0..MaxCalls

LEMMA CallsCount == CallsCounted /\ [F!CallNext]_(F!callVars) => CallsCounted'
<1> SUFFICES ASSUME CallsCounted, [F!CallNext]_(F!callVars) PROVE CallsCounted'
    OBVIOUS
<1>1. CASE UNCHANGED F!callVars
  BY <1>1 DEF F!callVars, CallsCounted
<1> SUFFICES ASSUME NEW w \in Callers, F!Asks(w) \/ F!Serves(w) \/ F!Loses(w)
             PROVE  CallsCounted'
  BY <1>1 DEF F!CallNext
<1>2. ASSUME NEW request, F!Begins(w, request) PROVE CallsCounted'
  BY <1>2, FilesAssumption DEF F!Begins, CallsCounted
<1>3. ASSUME NEW next, NEW objects, F!Fails(w, next, objects) PROVE CallsCounted'
  BY <1>3, FilesAssumption DEF F!Fails, CallsCounted
<1>4. ASSUME UNCHANGED <<callFaults, calls>> PROVE CallsCounted'
  BY <1>4 DEF CallsCounted
<1>5. CASE F!Asks(w)
  BY <1>2, <1>5 DEF F!Asks, F!Extracts, F!Writes, F!WritesIf, F!Compresses, F!Deletes, F!Copies,
     F!Moves, F!MovesIf
<1>6. CASE F!Serves(w)
  BY <1>4, <1>6 DEF F!Serves, F!FindsSource, F!Checks, F!Compares, F!SkipsHash, F!Uploads,
     F!Places, F!Cleans, F!Continues, F!Transfers, F!Probes, F!Removes, F!Goes, F!Ends, F!Steps
<1>7. CASE F!Loses(w)
  BY <1>3, <1>7 DEF F!Loses, F!LosesStat, F!StatFails, F!LosesUpload, F!LosesPlace, F!LosesClean,
     F!LosesTransfer, F!LosesRemove
<1> QED BY <1>5, <1>6, <1>7

LEMMA CallTypes == CallInv /\ CallsCounted => F!CallTypeOK
BY DEF CallInv, CallsTyped, CallsCounted, CallStates, CallLabels, Objects, F!CallTypeOK

(* No call replaces what it promised to leave alone, whatever other calls  *)
(* do between its check and its write and whichever answers are lost.      *)
THEOREM CallsAreGuarded == F!CallSpec => []WritesAreGuarded
BY CallsStart, CallsStep, CallsMean, PTL DEF F!CallSpec

------------------------------------------------------------------------------
(* Behind the cursor no minute fires, and the start lies behind it.        *)
Swept ==
    timer.at = "walking" =>
        /\ Before(zone[timer.from], timer.cursor)
        /\ \A i \in Instants : Before(zone[i], timer.cursor) => Silent(i)

CronInv == CronTypeOK /\ Swept /\ NextIsLeast

Shown == [day : Days, minute : Minutes]

------------------------------------------------------------------------------
(* The minutes of a day are numbered from zero.                            *)
LEMMA DayLength == \E n \in Nat \ {0} : Minutes = 0..(n - 1)
BY CronAssumption DEF Minutes

(* A minute is followed by the next one of the clock, with none between.   *)
LEMMA AfterIsNext ==
    ASSUME NEW m \in Shown
    PROVE  /\ After(m) \in Moments
           /\ Before(m, After(m))
           /\ \A x \in Shown : Before(x, After(m)) => ~Before(m, x)
<1>1. PICK n \in Nat \ {0} : Minutes = 0..(n - 1)
  BY DayLength
<1>2. m.day \in 0..LastDay /\ m.minute \in 0..(n - 1)
  BY <1>1 DEF Shown, Days
<1>3. CASE m.minute + 1 \in Minutes
  <2>1. After(m) = [day |-> m.day, minute |-> m.minute + 1]
    BY <1>3 DEF After, Shown
  <2> QED
    BY <1>1, <1>2, <1>3, <2>1, CronAssumption DEF Before, Moments, Shown, Days
<1>4. CASE m.minute + 1 \notin Minutes
  <2>1. After(m) = [day |-> m.day + 1, minute |-> 0]
    BY <1>4 DEF After, Start
  <2>2. m.minute = n - 1
    BY <1>1, <1>2, <1>4
  <2> QED
    BY <1>1, <1>2, <2>1, <2>2, CronAssumption DEF Before, Moments, Shown, Days
<1> QED
  BY <1>3, <1>4

(* What lies before a day lies in the days before it.                      *)
LEMMA BeforeStart ==
    ASSUME NEW d \in 0..(LastDay + 1)
    PROVE  /\ Start(d) \in Moments
           /\ \A x \in Shown : Before(x, Start(d)) <=> x.day < d
<1>1. PICK n \in Nat \ {0} : Minutes = 0..(n - 1)
  BY DayLength
<1> QED
  BY <1>1, CronAssumption DEF Before, Moments, Shown, Days, Start

LEMMA BeforeTransitive ==
    ASSUME NEW x \in Moments, NEW y \in Moments, NEW z \in Moments,
           Before(x, y), ~Before(z, y)
    PROVE  Before(x, z)
<1>1. PICK n \in Nat \ {0} : Minutes = 0..(n - 1)
  BY DayLength
<1> QED
  BY <1>1, CronAssumption DEF Before, Moments

LEMMA ZoneShows ==
    ASSUME CronTypeOK
    PROVE  /\ \A i \in Instants : zone[i] \in Shown /\ zone[i] \in Moments
           /\ timer.from \in Instants /\ now \in Instants
           /\ timer.cursor \in Moments
<1>1. zone \in [Instants -> Shown]
  BY CronAssumption DEF CronTypeOK, Shown
<1>2. Shown \subseteq Moments
  BY CronAssumption DEF Shown, Moments, Days
<1> QED
  BY <1>1, <1>2 DEF CronTypeOK

------------------------------------------------------------------------------
(* A walk starts behind the minute it starts from.                         *)
LEMMA WalksKeeps ==
    ASSUME CronInv, Walks
    PROVE  CronInv'
<1>1. /\ timer'.at = "walking" /\ timer'.from = now /\ timer'.cursor = After(zone[now])
      /\ timer'.steps = 0 /\ timer'.next = 0
      /\ timer' \in [at : {"walking"}, from : Instants, cursor : Moments, steps : {0},
                     next : {0}]
      /\ UNCHANGED <<expr, zone, now>>
  BY ZoneShows, AfterIsNext DEF Walks, Unset, CronInv
<1>2. CronTypeOK'
  BY <1>1, CronAssumption DEF CronInv, CronTypeOK, Instants
<1>3. Swept'
  BY <1>1, ZoneShows, AfterIsNext DEF Swept, Silent, CronInv
<1>4. NextIsLeast'
  BY <1>1 DEF NextIsLeast
<1> QED
  BY <1>2, <1>3, <1>4 DEF CronInv

(* A round that passes over nothing that fires keeps the sweep.            *)
LEMMA RoundKeeps ==
    ASSUME CronInv, InRound, NEW c \in Moments, Round(c),
           Before(zone[timer.from], c),
           \A i \in Instants : Before(zone[i], c) =>
               Before(zone[i], timer.cursor) \/ ~FiresAt(zone[i])
    PROVE  CronInv'
<1>1. /\ timer' = [timer EXCEPT !.cursor = c, !.steps = @ + 1]
      /\ UNCHANGED <<expr, zone, now>>
  BY DEF Round
<1>2. timer.at = "walking" /\ timer.steps + 1 \in 0..MaxDaySteps
  BY CronAssumption DEF InRound, Walking, CronInv, CronTypeOK
<1>3. CronTypeOK'
  BY <1>1, <1>2 DEF CronInv, CronTypeOK
<1>4. timer'.at = "walking" /\ timer'.from = timer.from /\ timer'.cursor = c
  BY <1>1, <1>2 DEF CronInv, CronTypeOK
<1>5. \A i \in Instants : FiresAt(zone[i])' = FiresAt(zone[i])
  BY <1>1 DEF FiresAt, MonthMatches, DayMatches
<1>6. Swept'
  BY <1>1, <1>2, <1>4, <1>5 DEF Swept, Silent, CronInv
<1>7. NextIsLeast'
  BY <1>4 DEF NextIsLeast
<1> QED
  BY <1>3, <1>6, <1>7 DEF CronInv

(* The start of the walk stays behind a cursor that only goes on.          *)
LEMMA StartBehind ==
    ASSUME CronInv, Walking, NEW c \in Moments, ~Before(c, timer.cursor)
    PROVE  Before(zone[timer.from], c)
BY ZoneShows, BeforeTransitive DEF CronInv, Swept, Walking

(* A round that leaves for a later day, if no day up to it fires any more. *)
LEMMA DayRoundKeeps ==
    ASSUME CronInv, InRound, NEW d \in (timer.cursor.day + 1)..(LastDay + 1), Round(Start(d)),
           \A i \in Instants :
               zone[i].day \in timer.cursor.day..(d - 1) /\ ~Before(zone[i], timer.cursor)
               => ~FiresAt(zone[i])
    PROVE  CronInv'
<1>1. timer.cursor.day \in 0..LastDay /\ d \in 0..(LastDay + 1)
  BY CronAssumption DEF InRound, Days
<1>2. Start(d) \in Moments /\ \A x \in Shown : Before(x, Start(d)) <=> x.day < d
  BY <1>1, BeforeStart
<1>3. ~Before(Start(d), timer.cursor)
  BY <1>1 DEF Before, Start
<1>4. Before(zone[timer.from], Start(d))
  BY <1>2, <1>3, StartBehind DEF InRound
<1>5. ASSUME NEW i \in Instants, Before(zone[i], Start(d)), ~Before(zone[i], timer.cursor)
      PROVE  ~FiresAt(zone[i])
  <2>1. zone[i] \in Shown
    BY ZoneShows DEF CronInv
  <2>2. zone[i].day < d /\ zone[i].day \in 0..LastDay
    BY <1>2, <1>5, <2>1 DEF Shown, Days
  <2>3. ~(zone[i].day < timer.cursor.day)
    BY <1>5 DEF Before
  <2>4. zone[i].day \in timer.cursor.day..(d - 1)
    BY <1>1, <2>2, <2>3, CronAssumption
  <2> QED
    BY <1>5, <2>4
<1> QED
  BY <1>2, <1>4, <1>5, RoundKeeps

------------------------------------------------------------------------------
LEMMA JumpsMonthKeeps ==
    ASSUME CronInv, JumpsMonth
    PROVE  CronInv'
<1>1. PICK d \in (timer.cursor.day + 1)..(LastDay + 1) :
        /\ \A k \in timer.cursor.day..(d - 1) :
               Calendar[k].month = Calendar[timer.cursor.day].month
        /\ Round(Start(d))
  BY DEF JumpsMonth
<1>2. \A i \in Instants : zone[i].day \in timer.cursor.day..(d - 1) => ~FiresAt(zone[i])
  BY <1>1 DEF JumpsMonth, FiresAt, MonthMatches
<1> QED
  BY <1>1, <1>2, DayRoundKeeps DEF JumpsMonth

(* A day that is left fires no more.                                       *)
LEMMA NextDayKeeps ==
    ASSUME CronInv, InRound, Round(Start(timer.cursor.day + 1)),
           \A i \in Instants :
               zone[i].day = timer.cursor.day /\ ~Before(zone[i], timer.cursor)
               => ~FiresAt(zone[i])
    PROVE  CronInv'
<1>1. timer.cursor.day \in 0..LastDay
  BY DEF InRound, Days
<1>2. timer.cursor.day + 1 \in (timer.cursor.day + 1)..(LastDay + 1)
  BY <1>1, CronAssumption
<1>3. \A x \in timer.cursor.day..((timer.cursor.day + 1) - 1) : x = timer.cursor.day
  BY <1>1, CronAssumption
<1> QED
  BY <1>2, <1>3, DayRoundKeeps

LEMMA SkipsDayKeeps ==
    ASSUME CronInv, SkipsDay
    PROVE  CronInv'
<1>1. \A i \in Instants : zone[i].day = timer.cursor.day => ~FiresAt(zone[i])
  BY DEF SkipsDay, FiresAt
<1> QED
  BY <1>1, NextDayKeeps DEF SkipsDay

(* Of the times of the day the cursor is in, those behind it are gone.     *)
LEMMA FiringIsLeft ==
    ASSUME CronInv, DayFires, NEW i \in Instants,
           zone[i].day = timer.cursor.day, ~Before(zone[i], timer.cursor), FiresAt(zone[i])
    PROVE  zone[i].minute \in Left
<1>1. PICK n \in Nat \ {0} : Minutes = 0..(n - 1)
  BY DayLength
<1>2. zone[i].minute \in 0..(n - 1) /\ timer.cursor.minute \in 0..(n - 1)
  BY <1>1, ZoneShows DEF CronInv, Shown, Moments
<1>3. timer.cursor.minute <= zone[i].minute
  BY <1>2 DEF Before
<1> QED
  BY <1>3 DEF Left, FiresAt

LEMMA EndsDayKeeps ==
    ASSUME CronInv, EndsDay
    PROVE  CronInv'
BY FiringIsLeft, NextDayKeeps DEF EndsDay, DayFires

(* The first time that is left, seen from the minutes the zone shows.      *)
LEMMA FirstIsAhead ==
    ASSUME CronInv, DayFires, NEW k \in Minutes, IsFirst(k),
           NEW m, m = [day |-> timer.cursor.day, minute |-> k]
    PROVE  /\ m \in Shown /\ m \in Moments /\ FiresAt(m)
           /\ ~Before(m, timer.cursor)
           /\ \A i \in Instants : Before(zone[i], m) =>
                  Before(zone[i], timer.cursor) \/ ~FiresAt(zone[i])
<1>1. PICK n \in Nat \ {0} : Minutes = 0..(n - 1)
  BY DayLength
<1>2. /\ timer.cursor.day \in 0..LastDay /\ timer.cursor.minute \in 0..(n - 1)
      /\ k \in 0..(n - 1) /\ timer.cursor.minute <= k /\ k \in expr.times
  BY <1>1, ZoneShows DEF CronInv, DayFires, InRound, Days, Moments, IsFirst, Left
<1>3. m \in Shown /\ m \in Moments
  BY <1>2, CronAssumption DEF Shown, Moments, Days
<1>4. FiresAt(m)
  BY <1>2 DEF FiresAt, DayFires
<1>5. ~Before(m, timer.cursor)
  BY <1>2 DEF Before
<1>6. ASSUME NEW i \in Instants, Before(zone[i], m), ~Before(zone[i], timer.cursor),
             FiresAt(zone[i])
      PROVE  FALSE
  <2>1. zone[i].day \in 0..LastDay /\ zone[i].minute \in 0..(n - 1)
    BY <1>1, ZoneShows DEF CronInv, Shown, Days
  <2>2. zone[i].day = timer.cursor.day /\ zone[i].minute < k
    BY <1>2, <1>6, <2>1, CronAssumption DEF Before
  <2>3. zone[i].minute \in Left
    BY <1>6, <2>2, FiringIsLeft
  <2> QED
    BY <1>2, <2>1, <2>2, <2>3 DEF IsFirst
<1> QED
  BY <1>3, <1>4, <1>5, <1>6

(* No instant shows a time in a gap, and the walk goes on right after it.  *)
LEMMA SkipsGapKeeps ==
    ASSUME CronInv, SkipsGap
    PROVE  CronInv'
<1>1. PICK k \in Minutes :
        /\ IsFirst(k)
        /\ Shows([day |-> timer.cursor.day, minute |-> k]) = {}
        /\ Round(PastGap([day |-> timer.cursor.day, minute |-> k]))
  BY DEF SkipsGap
<1> DEFINE m == [day |-> timer.cursor.day, minute |-> k]
<1>2. /\ m \in Shown /\ m \in Moments /\ ~Before(m, timer.cursor)
      /\ \A i \in Instants : Before(zone[i], m) =>
             Before(zone[i], timer.cursor) \/ ~FiresAt(zone[i])
  BY <1>1, FirstIsAhead DEF SkipsGap
<1>3. /\ After(m) \in Moments /\ Before(m, After(m))
      /\ \A x \in Shown : Before(x, After(m)) => ~Before(m, x)
  BY <1>2, AfterIsNext
<1>4. \A i \in Instants : zone[i] # m
  BY <1>1 DEF Shows
<1>5. \A i \in Instants : Before(zone[i], After(m)) => Before(zone[i], m)
  <2> SUFFICES ASSUME NEW i \in Instants, Before(zone[i], After(m))
               PROVE  Before(zone[i], m)
    OBVIOUS
  <2>1. zone[i] \in Shown /\ ~Before(m, zone[i]) /\ zone[i] # m
    BY <1>3, <1>4, ZoneShows DEF CronInv
  <2>2. PICK n \in Nat \ {0} : Minutes = 0..(n - 1)
    BY DayLength
  <2> HIDE DEF m
  <2>3. zone[i].day # m.day \/ zone[i].minute # m.minute
    BY <1>2, <2>1 DEF Shown
  <2> QED
    BY <1>2, <2>1, <2>2, <2>3, CronAssumption DEF Before, Shown, Days
<1>6. Before(zone[timer.from], m)
  BY <1>2, StartBehind DEF SkipsGap, DayFires, InRound
<1>7. Before(zone[timer.from], After(m))
  <2> HIDE DEF m
  <2>1. PICK n \in Nat \ {0} : Minutes = 0..(n - 1)
    BY DayLength
  <2>2. zone[timer.from] \in Shown
    BY ZoneShows DEF CronInv
  <2> QED
    BY <1>2, <1>3, <1>6, <2>1, <2>2, CronAssumption DEF Before, Shown, Moments, Days
<1> QED
  BY <1>1, <1>2, <1>3, <1>5, <1>7, RoundKeeps DEF SkipsGap, DayFires, PastGap

(* What is found fires, is later on the clock, and nothing before it does. *)
LEMMA FindsKeeps ==
    ASSUME CronInv, Finds
    PROVE  CronInv'
<1>1. PICK k \in Minutes : \E i \in Shows([day |-> timer.cursor.day, minute |-> k]) :
        /\ IsFirst(k)
        /\ \A j \in Shows([day |-> timer.cursor.day, minute |-> k]) : i <= j
        /\ timer' = [timer EXCEPT !.at = "set", !.next = i]
  BY DEF Finds
<1> DEFINE m == [day |-> timer.cursor.day, minute |-> k]
<1>2. PICK i \in Shows(m) :
        /\ IsFirst(k)
        /\ \A j \in Shows(m) : i <= j
        /\ timer' = [timer EXCEPT !.at = "set", !.next = i]
  BY <1>1
<1>3. /\ m \in Moments /\ FiresAt(m) /\ ~Before(m, timer.cursor)
      /\ \A j \in Instants : Before(zone[j], m) =>
             Before(zone[j], timer.cursor) \/ ~FiresAt(zone[j])
  BY <1>2, FirstIsAhead DEF Finds
<1>4. Before(zone[timer.from], m)
  BY <1>3, StartBehind DEF Finds, DayFires, InRound
<1>5. i \in Instants /\ zone[i] = m /\ \A j \in Instants : zone[j] = m => i <= j
  BY <1>2 DEF Shows
<1> HIDE DEF m
<1>6. UNCHANGED <<expr, zone, now>> /\ timer.at = "walking"
  BY DEF Finds, DayFires, InRound, Walking
<1>7. /\ timer'.at = "set" /\ timer'.next = i /\ timer'.from = timer.from
      /\ timer'.steps = timer.steps
  BY <1>2 DEF CronInv, CronTypeOK
<1>8. CronTypeOK'
  BY <1>2, <1>5, <1>6 DEF CronInv, CronTypeOK
<1>9. \A j \in Instants : FiresAt(zone[j])' = FiresAt(zone[j])
  BY <1>6 DEF FiresAt, MonthMatches, DayMatches
<1>10. \A j \in Instants : Silent(j)' = Silent(j)
  BY <1>6, <1>7, <1>9 DEF Silent
<1>11. ~Silent(i)
  BY <1>3, <1>4, <1>5 DEF Silent
<1>12. \A j \in Instants : Before(zone[j], m) => Silent(j)
  BY <1>3, <1>6 DEF Silent, CronInv, Swept
<1>13. NextIsLeast'
  BY <1>5, <1>6, <1>7, <1>10, <1>11, <1>12 DEF NextIsLeast
<1>14. Swept'
  BY <1>7 DEF Swept
<1> QED
  BY <1>8, <1>13, <1>14 DEF CronInv

(* A walk that has left the calendar has swept all of it.                  *)
LEMMA GivesUpKeeps ==
    ASSUME CronInv, GivesUp
    PROVE  CronInv'
<1>1. /\ timer' = [timer EXCEPT !.at = "never"]
      /\ UNCHANGED <<expr, zone, now>> /\ timer.at = "walking"
  BY DEF GivesUp, Walking
<1>2. timer'.at = "never" /\ timer'.from = timer.from /\ timer'.steps = timer.steps
  BY <1>1 DEF CronInv, CronTypeOK
<1>3. CronTypeOK'
  BY <1>1 DEF CronInv, CronTypeOK
<1>4. \A i \in Instants : Silent(i)' = Silent(i)
  BY <1>1, <1>2 DEF Silent, FiresAt, MonthMatches, DayMatches
<1>5. ASSUME timer.cursor.day \notin Days, NEW i \in Instants
      PROVE  Silent(i)
  <2>1. timer.cursor.day = LastDay + 1
    <3>1. timer.cursor.day \in 0..(LastDay + 1)
      BY ZoneShows DEF CronInv, Moments
    <3> QED
      BY <1>5, <3>1, CronAssumption DEF Days
  <2>2. zone[i].day \in 0..LastDay
    BY ZoneShows DEF CronInv, Shown, Days
  <2>3. Before(zone[i], timer.cursor)
    BY <2>1, <2>2, CronAssumption DEF Before
  <2> QED
    BY <1>1, <2>3 DEF CronInv, Swept
<1>6. NextIsLeast'
  <2> SUFFICES ASSUME timer.steps < MaxDaySteps
               PROVE  \A i \in Instants : Silent(i)
    BY <1>2, <1>4 DEF NextIsLeast
  <2>1. timer.cursor.day \notin Days
    BY CronAssumption DEF GivesUp, CronInv, CronTypeOK
  <2> QED
    BY <1>5, <2>1
<1>7. Swept'
  BY <1>2 DEF Swept
<1> QED
  BY <1>3, <1>6, <1>7 DEF CronInv

------------------------------------------------------------------------------
(* Nothing looks at the time but the start of a walk.                      *)
LEMMA PassesKeeps ==
    ASSUME CronInv, UNCHANGED <<expr, zone, timer>>, now' \in Instants
    PROVE  CronInv'
<1>1. CronTypeOK'
  BY DEF CronInv, CronTypeOK
<1>2. \A i \in Instants : Silent(i)' = Silent(i)
  BY DEF Silent, FiresAt, MonthMatches, DayMatches
<1>3. Swept'
  BY <1>2 DEF CronInv, Swept
<1>4. timer.next \in Instants
  BY DEF CronInv, CronTypeOK
<1>5. NextIsLeast'
  BY <1>2, <1>4 DEF CronInv, NextIsLeast
<1> QED
  BY <1>1, <1>3, <1>5 DEF CronInv

LEMMA CronStep ==
    ASSUME CronInv, [CronNext]_cronVars
    PROVE  CronInv'
<1>1. CASE Sets \/ Fires
  BY <1>1, WalksKeeps DEF Sets, Fires
<1>2. CASE Passes \/ UNCHANGED cronVars
  BY <1>2, PassesKeeps DEF Passes, cronVars, CronInv, CronTypeOK
<1> QED
  BY <1>1, <1>2, JumpsMonthKeeps, SkipsDayKeeps, EndsDayKeeps, SkipsGapKeeps, FindsKeeps,
     GivesUpKeeps DEF CronNext

LEMMA CronInitially == CronInit => CronInv
<1>1. Start(0) \in Moments /\ 0 \in Instants
  BY CronAssumption, BeforeStart DEF Instants
<1> QED
  BY <1>1, CronAssumption DEF CronInit, CronInv, CronTypeOK, Swept, NextIsLeast, Unset

(* The walks stay within their rounds and, but for one day, the calendar.  *)
THEOREM CronTypes == CronSpec => []CronTypeOK
BY CronInitially, CronStep, PTL DEF CronSpec, CronInv

(* next_after_in passes over no minute that fires, and finds the first of  *)
(* the instants that show the one it finds.                                *)
THEOREM CronNextIsLeast == CronSpec => []NextIsLeast
BY CronInitially, CronStep, PTL DEF CronSpec, CronInv

------------------------------------------------------------------------------
(* The engine: what a part does not touch keeps its invariant.             *)
EngineInv ==
    /\ GroupsInv
    /\ MountInv
    /\ CallInv /\ CallsCounted
    /\ IF part = "clock" THEN CronInv ELSE timer = Unset
    /\ ServerInv

LEMMA EngineStart == EngineInit => EngineInv
<1> SUFFICES ASSUME EngineInit PROVE EngineInv
    OBVIOUS
<1>1. GroupsInv
  BY GroupsStart DEF EngineInit
<1>2. MountInv
  BY MountsStart DEF EngineInit
<1>3. CallInv /\ CallsCounted
  BY CallsStart, FilesAssumption DEF EngineInit, F!CallInit, CallsCounted
<1>4. IF part = "clock" THEN CronInv ELSE timer = Unset
  BY CronInitially DEF EngineInit, Resting
<1>5. ServerInv
  BY ServerStart DEF EngineInit
<1> QED BY <1>1, <1>2, <1>3, <1>4, <1>5 DEF EngineInv

LEMMA GroupsRest == GroupsInv /\ UNCHANGED vars => GroupsInv'
BY GroupsInductive

LEMMA MountsRest == MountInv /\ UNCHANGED mounts => MountInv'
<1>1. UNCHANGED mounts => UNCHANGED M!mountVars
  BY DEF mounts, M!mountVars
<1> QED BY <1>1, MountsStep

LEMMA CallsRest == CallInv /\ CallsCounted /\ UNCHANGED files => CallInv' /\ CallsCounted'
<1>1. UNCHANGED files => UNCHANGED F!callVars
  BY DEF files, F!callVars
<1> QED BY <1>1, CallsStep, CallsCount

LEMMA ClockRests ==
    ASSUME EngineInv, UNCHANGED part, UNCHANGED cronVars
    PROVE  (IF part = "clock" THEN CronInv ELSE timer = Unset)'
<1>1. CASE part = "clock"
  BY <1>1, CronStep DEF EngineInv
<1>2. CASE part # "clock"
  BY <1>2 DEF EngineInv, cronVars, Unset, Start
<1> QED BY <1>1, <1>2

LEMMA ServerRests == ServerInv /\ UNCHANGED serverVars => ServerInv'
BY ServerStep

LEMMA EngineStep == EngineInv /\ [EngineNext]_engineVars => EngineInv'
<1> SUFFICES ASSUME EngineInv, [EngineNext]_engineVars PROVE EngineInv'
    OBVIOUS
<1>1. GroupsInv /\ MountInv /\ CallInv /\ CallsCounted /\ ServerInv
  BY DEF EngineInv
<1>2. CASE UNCHANGED engineVars
  <2>1. UNCHANGED part /\ UNCHANGED vars /\ UNCHANGED mounts /\ UNCHANGED files
        /\ UNCHANGED cronVars /\ UNCHANGED serverVars
    BY <1>2 DEF engineVars
  <2> QED BY <1>1, <2>1, GroupsRest, MountsRest, CallsRest, ClockRests, ServerRests DEF EngineInv
<1>3. CASE EngineNext /\ part = "groups" /\ Next /\ UNCHANGED <<mounts, files, cronVars, serverVars>>
  <2>1. UNCHANGED part
    BY <1>3 DEF EngineNext
  <2>2. GroupsInv'
    BY <1>1, <1>3, GroupsInductive
  <2> QED BY <1>1, <1>3, <2>1, <2>2, MountsRest, CallsRest, ClockRests, ServerRests DEF EngineInv
<1>4. CASE EngineNext /\ M!MountNext /\ UNCHANGED <<vars, files, cronVars, serverVars>>
  <2>1. UNCHANGED part
    BY <1>4 DEF EngineNext
  <2>2. MountInv'
    BY <1>1, <1>4, MountsStep
  <2> QED BY <1>1, <1>4, <2>1, <2>2, GroupsRest, CallsRest, ClockRests, ServerRests DEF EngineInv
<1>5. CASE EngineNext /\ F!CallNext /\ UNCHANGED <<vars, mounts, cronVars, serverVars>>
  <2>1. UNCHANGED part
    BY <1>5 DEF EngineNext
  <2>2. CallInv' /\ CallsCounted'
    BY <1>1, <1>5, CallsStep, CallsCount
  <2> QED BY <1>1, <1>5, <2>1, <2>2, GroupsRest, MountsRest, ClockRests, ServerRests DEF EngineInv
<1>6. CASE EngineNext /\ part = "clock" /\ CronNext /\ UNCHANGED <<vars, mounts, files, serverVars>>
  <2>1. part' = "clock"
    BY <1>6 DEF EngineNext
  <2>2. CronInv'
    BY <1>6, CronStep DEF EngineInv
  <2> QED BY <1>1, <1>6, <2>1, <2>2, GroupsRest, MountsRest, CallsRest, ServerRests DEF EngineInv
<1>7. CASE EngineNext /\ ServerNext /\ UNCHANGED <<vars, mounts, files, cronVars>>
  <2>1. UNCHANGED part
    BY <1>7 DEF EngineNext
  <2>2. ServerInv'
    BY <1>1, <1>7, ServerStep
  <2> QED BY <1>1, <1>7, <2>1, <2>2, GroupsRest, MountsRest, CallsRest, ClockRests DEF EngineInv
<1> QED BY <1>2, <1>3, <1>4, <1>5, <1>6, <1>7 DEF EngineNext

(* All that the run "engine" checks of the engine's states, for any        *)
(* connections, mounts, callers, calendars, clients, tools and lines, and  *)
(* any numbers of faults, requests and restarts.                           *)
THEOREM EngineIsSafe ==
    EngineSpec => [](/\ EngineTypeOK
                     /\ WorkCounts /\ ForwarderOwned /\ ReplayComplete
                     /\ MountsOwned /\ WritesAreGuarded /\ NextIsLeast
                     /\ WritesAreConfirmed /\ SessionsAreTrue /\ CallsAreOnce)
<1>1. EngineInv => EngineTypeOK
  <2>1. GroupsInv => TypeOK
    BY GroupsMeans
  <2>2. MountInv => M!MountTypeOK
    BY MountsMean
  <2>3. CronInv => CronTypeOK
    BY DEF CronInv
  <2> QED BY <2>1, <2>2, <2>3, CallTypes, ServerMeans DEF EngineInv, EngineTypeOK
<1>2. EngineInv => WorkCounts /\ ForwarderOwned /\ ReplayComplete
  BY GroupsMeans DEF EngineInv, GroupsInv
<1>3. EngineInv => MountsOwned /\ WritesAreGuarded
  BY MountsMean, CallsMean DEF EngineInv
<1>4. EngineInv => NextIsLeast
  BY DEF EngineInv, CronInv, NextIsLeast, Unset
<1>5. EngineInv => WritesAreConfirmed /\ SessionsAreTrue /\ CallsAreOnce
  BY ServerMeans DEF EngineInv
<1> QED BY <1>1, <1>2, <1>3, <1>4, <1>5, EngineStart, EngineStep, PTL DEF EngineSpec
=============================================================================
