------------------------------ MODULE RcdGroups ------------------------------
(***************************************************************************)
(* The rcd processes of the engine: one rclone rcd per proxy group, spawned *)
(* and replaced under the supervisor's lock by whoever needs a client,      *)
(* replayed into by the caller that spawned it, torn down when the group    *)
(* has neither a connection nor work.  Handlers on the pool's workers       *)
(* connect, disconnect, call and run jobs; the keepalive thread respawns    *)
(* and reaps.  An rcd may crash and a call may fail at any time.            *)
(*                                                                          *)
(* What a remote is made of is left out: a configuration is the set of the  *)
(* connections that have a section in it.                                   *)
(***************************************************************************)
EXTENDS Naturals, FiniteSets

CONSTANTS Conns,      \* connections the host may register
          Groups,     \* proxy groups, Direct among them
          Direct,     \* the group of connections without a proxy
          Tunneled,   \* the connections that go through an ssh forwarder
          Workers,    \* threads of the plugin's pool
          Keeper,     \* the keepalive thread
          None,       \* no group
          MaxFaults,  \* bound: crashes and failing calls
          MaxRequests \* bound: handlers begun

ASSUME DirectAssumption == Direct \in Groups
ASSUME TunneledAssumption == Tunneled \subseteq Conns
ASSUME KeeperAssumption == Keeper \notin Workers
ASSUME NoGroupAssumption == None \notin Groups
ASSUME FiniteAssumption == IsFiniteSet(Workers)
ASSUME BoundsAssumption == MaxFaults \in Nat /\ MaxRequests \in Nat

VARIABLES
    rcd,         \* the supervisor's handles: none, running, or exited unnoticed
    config,      \* sections in the configuration of a group's rcd
    entry,       \* the registry: the group of a registered connection
    work,        \* the in-flight counters
    forwarders,  \* connections with a live ssh forwarder
    op,          \* what each thread is doing
    sweep,       \* groups the keepalive sweep has still to visit, then to reap
    owed,        \* history: what the replay of an rcd found, less what was deleted since
    faults,      \* crashes and failures so far
    requests     \* handlers begun so far

vars == <<rcd, config, entry, work, forwarders, op, sweep, owed, faults, requests>>
registry == <<entry, work, forwarders>>
budget == <<faults, requests>>

Actors == Workers \cup {Keeper}
Labels == {"idle", "client", "snapshot", "replay", "reset", "call", "predelete", "prepare",
           "create", "judge", "insert", "release", "delete", "remove", "untunnel",
           "teardown", "mark", "run", "drop", "visit", "reap", "kill"}
Idle == [at |-> "idle", conn |-> None, group |-> None, then |-> "idle", else |-> "idle",
         to |-> None, ok |-> FALSE, retry |-> FALSE, guard |-> "none", todo |-> {}]

Init ==
    /\ rcd = [g \in Groups |-> "none"]
    /\ config = [g \in Groups |-> {}]
    /\ entry = [c \in Conns |-> None]
    /\ work = [g \in Groups |-> 0]
    /\ forwarders = {}
    /\ op = [a \in Actors |-> Idle]
    /\ sweep = {}
    /\ owed = [g \in Groups |-> {}]
    /\ faults = 0
    /\ requests = 0

At(a, label) == op[a].at = label
InGroup(g) == {c \in Conns : entry[c] = g}
Fault == faults < MaxFaults /\ faults' = faults + 1 /\ UNCHANGED requests
Request == requests < MaxRequests /\ requests' = requests + 1 /\ UNCHANGED faults
Steps(a, o) == op' = [op EXCEPT ![a] = o]
Goes(a, label) == Steps(a, [op[a] EXCEPT !.at = label])
Ends(a) == Steps(a, Idle)
Unregisters(c) == entry' = [entry EXCEPT ![c] = None]

(* The client of a removed, replaced or crashed rcd reaches nothing.       *)
Cut(g, o) == [a \in Actors |-> IF o[a].group = g THEN [o[a] EXCEPT !.ok = FALSE] ELSE o[a]]

(* shutdown_group: the handle is dropped, and its child with it, whichever *)
(* process it is by now.                                                   *)
ShutsDown(gs, a, o) ==
    /\ rcd' = [g \in Groups |-> IF g \in gs THEN "none" ELSE rcd[g]]
    /\ config' = [g \in Groups |-> IF g \in gs THEN {} ELSE config[g]]
    /\ owed' = [g \in Groups |-> IF g \in gs THEN {} ELSE owed[g]]
    /\ op' = [b \in Actors |-> IF b = a THEN o
                               ELSE IF op[b].group \in gs THEN [op[b] EXCEPT !.ok = FALSE]
                               ELSE op[b]]

------------------------------------------------------------------------------
(* client_for and client_for_binding, for a group: the supervisor's lock is *)
(* held from the look at the child to the health check of its successor.   *)
FindsRunning(a) ==
    /\ At(a, "client")
    /\ rcd[op[a].group] = "up"
    /\ Steps(a, [op[a] EXCEPT !.at = op[a].then, !.ok = TRUE])
    /\ UNCHANGED <<rcd, config, registry, sweep, owed, budget>>

Spawns(a) ==
    LET g == op[a].group IN
    /\ At(a, "client")
    /\ rcd[g] # "up"
    /\ rcd' = [rcd EXCEPT ![g] = "up"]
    /\ config' = [config EXCEPT ![g] = {}]
    /\ owed' = [owed EXCEPT ![g] = {}]
    /\ op' = [Cut(g, op) EXCEPT ![a] = [op[a] EXCEPT !.at = "snapshot", !.ok = TRUE]]
    /\ UNCHANGED <<registry, sweep, budget>>

(* No binary, a child that does not start, or one that is not healthy in   *)
(* time: the old handle stays in the table.                                *)
SpawnFails(a) ==
    /\ At(a, "client")
    /\ rcd[op[a].group] # "up"
    /\ Fault
    /\ Goes(a, op[a].else)
    /\ UNCHANGED <<rcd, config, registry, sweep, owed>>

(* replay_group_registrations, by the caller that spawned, without the     *)
(* lock: the registrations of the group, then each in turn.                *)
Snapshot(a) ==
    LET g == op[a].group IN
    /\ At(a, "snapshot")
    /\ Steps(a, [op[a] EXCEPT !.at = "replay", !.todo = InGroup(g)])
    /\ owed' = [owed EXCEPT ![g] = IF op[a].ok THEN InGroup(g) ELSE @]
    /\ UNCHANGED <<rcd, config, registry, sweep, budget>>

Replays(a) ==
    LET g == op[a].group IN
    /\ At(a, "replay")
    /\ op[a].ok
    /\ \E c \in op[a].todo :
          /\ config' = [config EXCEPT ![g] = @ \cup {c}]
          /\ Steps(a, [op[a] EXCEPT !.todo = @ \ {c}])
    /\ UNCHANGED <<rcd, registry, sweep, owed, budget>>

ReplayFails(a) ==
    /\ At(a, "replay")
    /\ op[a].todo # {}
    /\ IF op[a].ok THEN Fault ELSE UNCHANGED budget
    /\ Goes(a, "reset")
    /\ UNCHANGED <<rcd, config, registry, sweep, owed>>

ReplayEnds(a) ==
    /\ At(a, "replay")
    /\ op[a].todo = {}
    /\ Goes(a, op[a].then)
    /\ UNCHANGED <<rcd, config, registry, sweep, owed, budget>>

(* The group of a failed replay is shut down, so that the next call runs   *)
(* the whole chain again.                                                  *)
KeepsGroup(a) ==
    /\ At(a, "reset")
    /\ Steps(a, [op[a] EXCEPT !.at = op[a].else, !.ok = FALSE, !.todo = {}])
    /\ UNCHANGED <<rcd, config, registry, sweep, owed, budget>>
ResetsGroup(a) ==
    /\ At(a, "reset")
    /\ ShutsDown({op[a].group}, a, [op[a] EXCEPT !.at = op[a].else, !.ok = FALSE, !.todo = {}])
    /\ UNCHANGED <<registry, sweep, budget>>

------------------------------------------------------------------------------
(* connection/connect                                                      *)
Connects(a, c, g) ==
    LET old == entry[c] IN
    /\ At(a, "idle")
    /\ Request
    /\ Steps(a, [Idle EXCEPT !.conn = c, !.to = g,
                    !.at = IF old \in Groups \ {g} THEN "client" ELSE "prepare",
                    !.group = IF old \in Groups \ {g} THEN old ELSE None,
                    !.then = "predelete", !.else = "prepare"])
    /\ UNCHANGED <<rcd, config, registry, sweep, owed>>

(* The connection changed its proxy: its section leaves the old group.     *)
Predeletes(a) ==
    LET g == op[a].group IN
    /\ At(a, "predelete")
    /\ config' = [config EXCEPT ![g] = IF op[a].ok THEN @ \ {op[a].conn} ELSE @]
    /\ owed' = [owed EXCEPT ![g] = @ \ {op[a].conn}]
    /\ Goes(a, "prepare")
    /\ UNCHANGED <<rcd, registry, sweep, budget>>

Dials(a) == [op[a] EXCEPT !.at = "client", !.group = op[a].to, !.ok = FALSE,
                          !.then = "create", !.else = "release"]
(* prepare: a forwarder of the id is replaced by a new one.                *)
Prepares(a) ==
    /\ At(a, "prepare")
    /\ forwarders' = forwarders \cup ({op[a].conn} \cap Tunneled)
    /\ Steps(a, Dials(a))
    /\ UNCHANGED <<rcd, config, entry, work, sweep, owed, budget>>

EstablishFails(a) ==
    /\ At(a, "prepare")
    /\ op[a].conn \in Tunneled
    /\ Fault
    /\ forwarders' = forwarders \ {op[a].conn}
    /\ Ends(a)
    /\ UNCHANGED <<rcd, config, entry, work, sweep, owed>>

(* registry::connect: a section of the id is deleted if it is registered,  *)
(* then created; a create that fails is swept.                             *)
Creates(a) ==
    LET g == op[a].group IN
    /\ At(a, "create")
    /\ op[a].ok
    /\ config' = [config EXCEPT ![g] = @ \cup {op[a].conn}]
    /\ Goes(a, "insert")
    /\ UNCHANGED <<rcd, registry, sweep, owed, budget>>

CreateFails(a) ==
    LET g == op[a].group
        c == op[a].conn
    IN
    /\ At(a, "create")
    /\ IF op[a].ok
       THEN /\ Fault
            /\ config' = [config EXCEPT ![g] = @ \ {c}]
            /\ owed' = [owed EXCEPT ![g] = @ \ {c}]
       ELSE UNCHANGED <<config, owed, budget>>
    /\ Goes(a, IF op[a].retry THEN "release" ELSE "judge")
    /\ UNCHANGED <<rcd, registry, sweep>>

(* rcd_died_after_spawn: an exited child earns one more attempt.           *)
Judges(a) ==
    /\ At(a, "judge")
    /\ IF rcd[op[a].group] = "exited"
       THEN Steps(a, [op[a] EXCEPT !.at = "client", !.ok = FALSE, !.retry = TRUE])
       ELSE Goes(a, "release")
    /\ UNCHANGED <<rcd, config, registry, sweep, owed, budget>>

Inserts(a) ==
    /\ At(a, "insert")
    /\ entry' = [entry EXCEPT ![op[a].conn] = op[a].group]
    /\ Ends(a)
    /\ UNCHANGED <<rcd, config, work, forwarders, sweep, owed, budget>>

(* A connect that failed leaves no forwarder behind.                       *)
LeavesTunnel(a) ==
    /\ At(a, "release")
    /\ Ends(a)
    /\ UNCHANGED <<rcd, config, registry, sweep, owed, budget>>
Releases(a) ==
    /\ At(a, "release")
    /\ forwarders' = forwarders \ {op[a].conn}
    /\ Ends(a)
    /\ UNCHANGED <<rcd, config, entry, work, sweep, owed, budget>>

------------------------------------------------------------------------------
(* connection/disconnect, of a registered connection.                      *)
Disconnects(a, c) ==
    /\ At(a, "idle")
    /\ Request
    /\ entry[c] # None
    /\ Steps(a, [Idle EXCEPT !.conn = c, !.group = entry[c], !.at = "client", !.then = "delete"])
    /\ UNCHANGED <<rcd, config, registry, sweep, owed>>

(* registry::disconnect: nothing to do for an id that is gone by now.      *)
Deletes(a) ==
    LET g == op[a].group
        c == op[a].conn
    IN
    /\ At(a, "delete")
    /\ IF entry[c] = None
       THEN Goes(a, "untunnel") /\ UNCHANGED <<config, owed>>
       ELSE /\ config' = [config EXCEPT ![g] = IF op[a].ok THEN @ \ {c} ELSE @]
            /\ owed' = [owed EXCEPT ![g] = @ \ {c}]
            /\ Goes(a, "remove")
    /\ UNCHANGED <<rcd, registry, sweep, budget>>

Removes(a) ==
    /\ At(a, "remove")
    /\ Unregisters(op[a].conn)
    /\ Goes(a, "untunnel")
    /\ UNCHANGED <<rcd, config, work, forwarders, sweep, owed, budget>>

IsUnused(g) == InGroup(g) = {} /\ work[g] = 0

(* release_tunnel, then shutdown_group_if_idle, which reads the counts     *)
(* before it takes the lock.                                               *)
Untunnels(a) ==
    /\ At(a, "untunnel")
    /\ forwarders' = forwarders \ {op[a].conn}
    /\ IF IsUnused(op[a].group) THEN Goes(a, "teardown") ELSE Ends(a)
    /\ UNCHANGED <<rcd, config, entry, work, sweep, owed, budget>>

TearsDown(a) ==
    /\ At(a, "teardown")
    /\ ShutsDown({op[a].group}, a, Idle)
    /\ UNCHANGED <<registry, sweep, budget>>

------------------------------------------------------------------------------
(* A file operation: the binding, a client of its group, one call.         *)
Uses(a, c) ==
    /\ At(a, "idle")
    /\ Request
    /\ entry[c] # None
    /\ Steps(a, [Idle EXCEPT !.conn = c, !.group = entry[c], !.at = "client", !.then = "call"])
    /\ UNCHANGED <<rcd, config, registry, sweep, owed>>

Calls(a) ==
    /\ At(a, "call")
    /\ Ends(a)
    /\ UNCHANGED <<rcd, config, registry, sweep, owed, budget>>

(* A job of a binding that was read earlier: its work is counted, then it  *)
(* asks for a client.  The record keeps the guard after done() has settled *)
(* it, and drops it later.                                                 *)
TakesJob(a, c) ==
    /\ At(a, "idle")
    /\ Request
    /\ entry[c] # None
    /\ Steps(a, [Idle EXCEPT !.conn = c, !.group = entry[c], !.at = "mark"])
    /\ UNCHANGED <<rcd, config, registry, sweep, owed>>

StartsWork(a) ==
    LET g == op[a].group IN
    /\ At(a, "mark")
    /\ work' = [work EXCEPT ![g] = @ + 1]
    /\ Steps(a, [op[a] EXCEPT !.at = "client", !.then = "run", !.else = "drop", !.guard = "held"])
    /\ UNCHANGED <<rcd, config, entry, forwarders, sweep, owed, budget>>

Less(n) == IF n = 0 THEN 0 ELSE n - 1
(* settle: the first of done() and the drop counts down.                   *)
SettlesTwice(a) == work' = [work EXCEPT ![op[a].group] = Less(@)]
Settles(a) ==
    work' = IF op[a].guard = "held" THEN [work EXCEPT ![op[a].group] = Less(@)] ELSE work

JobEnds(a) ==
    /\ At(a, "run")
    /\ Settles(a)
    /\ Steps(a, [op[a] EXCEPT !.at = "drop", !.guard = "done"])
    /\ UNCHANGED <<rcd, config, entry, forwarders, sweep, owed, budget>>

DropsGuard(a) ==
    /\ At(a, "drop")
    /\ Settles(a)
    /\ Ends(a)
    /\ UNCHANGED <<rcd, config, entry, forwarders, sweep, owed, budget>>

------------------------------------------------------------------------------
(* keepalive_sweep: the groups of the registered connections.              *)
(* Mistakes: only the groups whose rcd runs; also that of a gone id.       *)
RunningGroups == {g \in Groups : rcd[g] = "up"}
AllKeys == {entry[c] : c \in Conns}
LiveGroupKeys == {entry[c] : c \in Conns} \ {None}
SweepStarts ==
    /\ At(Keeper, "idle")
    /\ sweep' = LiveGroupKeys
    /\ Goes(Keeper, "visit")
    /\ UNCHANGED <<rcd, config, registry, owed, budget>>

(* A group that lost its last connection since has no proxy any more, and  *)
(* the sweep looks after the direct group instead.                         *)
Visits ==
    /\ At(Keeper, "visit")
    /\ \E g \in sweep :
          /\ sweep' = sweep \ {g}
          /\ Steps(Keeper, [Idle EXCEPT !.at = "client", !.then = "visit", !.else = "visit",
                                        !.group = IF InGroup(g) = {} THEN Direct ELSE g])
    /\ UNCHANGED <<rcd, config, registry, owed, budget>>

(* reap_idle_groups: chosen under the lock, which is then taken again.     *)
Reaps ==
    /\ At(Keeper, "visit")
    /\ sweep = {}
    /\ sweep' = {g \in Groups \ {Direct} : rcd[g] # "none" /\ IsUnused(g)}
    /\ Goes(Keeper, "kill")
    /\ UNCHANGED <<rcd, config, registry, owed, budget>>

Kills ==
    /\ At(Keeper, "kill")
    /\ ShutsDown(sweep, Keeper, Idle)
    /\ sweep' = {}
    /\ UNCHANGED <<registry, budget>>

(* The rcd of a group dies: its handle stays, its clients reach nothing.   *)
Crashes(g) ==
    /\ rcd[g] = "up"
    /\ Fault
    /\ rcd' = [rcd EXCEPT ![g] = "exited"]
    /\ config' = [config EXCEPT ![g] = {}]
    /\ owed' = [owed EXCEPT ![g] = {}]
    /\ op' = Cut(g, op)
    /\ UNCHANGED <<registry, sweep>>

------------------------------------------------------------------------------
(* What a thread does next once it has begun.                              *)
Proceeds(a) ==
    \/ FindsRunning(a) \/ Spawns(a) \/ SpawnFails(a)
    \/ Snapshot(a) \/ Replays(a) \/ ReplayFails(a) \/ ReplayEnds(a) \/ ResetsGroup(a)
    \/ Predeletes(a) \/ Prepares(a) \/ EstablishFails(a)
    \/ Creates(a) \/ CreateFails(a) \/ Judges(a) \/ Inserts(a) \/ Releases(a)
    \/ Deletes(a) \/ Removes(a) \/ Untunnels(a) \/ TearsDown(a)
    \/ Calls(a) \/ StartsWork(a) \/ JobEnds(a) \/ DropsGuard(a)

Begins(a) ==
    \/ \E c \in Conns, g \in Groups : Connects(a, c, g)
    \/ \E c \in Conns : Disconnects(a, c) \/ Uses(a, c) \/ TakesJob(a, c)

Next ==
    \/ \E a \in Workers : Begins(a) \/ Proceeds(a)
    \/ Proceeds(Keeper) \/ SweepStarts \/ Visits \/ Reaps \/ Kills
    \/ \E g \in Groups : Crashes(g)

(* Handlers run to their end and the keepalive thread never stops.         *)
Fairness ==
    /\ \A a \in Workers : WF_vars(Proceeds(a))
    /\ WF_vars(Proceeds(Keeper) \/ SweepStarts \/ Visits \/ Reaps \/ Kills)

Spec == Init /\ [][Next]_vars /\ Fairness

------------------------------------------------------------------------------
TypeOK ==
    /\ rcd \in [Groups -> {"none", "up", "exited"}]
    /\ config \in [Groups -> SUBSET Conns]
    /\ entry \in [Conns -> Groups \cup {None}]
    /\ work \in [Groups -> Nat]
    /\ forwarders \subseteq Tunneled
    /\ op \in [Actors -> [at : Labels, conn : Conns \cup {None}, group : Groups \cup {None},
                          then : Labels, else : Labels, to : Groups \cup {None},
                          ok : BOOLEAN, retry : BOOLEAN, guard : {"none", "held", "done"},
                          todo : SUBSET Conns]]
    /\ sweep \subseteq Groups
    /\ owed \in [Groups -> SUBSET Conns]
    /\ faults \in 0..MaxFaults /\ requests \in 0..MaxRequests

(* The counter of a group is the number of its unsettled guards, on every  *)
(* path a job ends on: a group is neither torn down under a running job    *)
(* for a lost count nor kept for ever by one counted twice.                *)
Holders(g) == {a \in Workers : op[a].guard = "held" /\ op[a].group = g}
WorkCounts == \A g \in Groups : work[g] = Cardinality(Holders(g))

(* No ssh forwarder outlives its connection: one that is up belongs to a   *)
(* registered connection or to one whose connect or disconnect is under    *)
(* way, whatever failed and in whatever order handlers of one id ran.      *)
InHand(c) == \E a \in Workers : op[a].conn = c /\ op[a].at \notin {"idle", "call", "run", "mark"}
ForwarderOwned == \A c \in forwarders : entry[c] # None \/ InHand(c)

(* A running rcd knows every connection its replay found in the registry   *)
(* and no handler has deleted since, as soon as nobody is replaying into   *)
(* it: a failed replay never leaves a live group without its remotes.      *)
Replaying(g) == \E a \in Actors : op[a].group = g /\ op[a].at \in {"snapshot", "replay", "reset"}
ReplayComplete == \A g \in Groups : rcd[g] = "up" /\ ~Replaying(g) => owed[g] \subseteq config[g]

(* The rcd of a group with a connection comes back after any crash, with   *)
(* no request by the user: the sweep respawns it.                          *)
Returns ==
    \A c \in Conns : entry[c] # None ~> entry[c] = None \/ rcd[entry[c]] = "up"
==============================================================================
