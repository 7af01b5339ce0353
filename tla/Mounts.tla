------------------------------- MODULE Mounts -------------------------------
(***************************************************************************)
(* Local mounts of the connections of one proxy group.  A mount is held in *)
(* the kernel by the group's rcd, or served by a WebDAV gateway inside the *)
(* sidecar; the mount table knows it by the request that made it.  Starts, *)
(* unmounts and disconnects await between their looks at the table, at the *)
(* registry and at the rcd, and any of them may run in between.            *)
(***************************************************************************)
EXTENDS Naturals, FiniteSets

CONSTANTS Connections, Requests, Stops,
          Surfaces,   \* mounted folders
          MaxFaults   \* bound: failures of the rcd, the disk and the network

VARIABLES
    bound,      \* registry: the connections that are connected
    rcd,        \* whether the group's rcd runs
    held,       \* the kernel mounts it holds, [point, conn]
    driver,     \* what the probe for a FUSE driver answers
    table,      \* the mount records
    claims,     \* WebDAV mounts in flight, <<connection, surface>>
    listening,  \* requests whose gateway accepts
    start,      \* the files/mount calls
    stop,       \* the files/unmount and connection/disconnect calls
    faults

mountVars ==
    <<bound, rcd, held, driver, table, claims, listening, start, stop, faults>>

Strategies == {"auto", "rclone", "webdav"}
Points == Connections \cup {"picked"}
NoStart == [at |-> "idle"]
NoStop == [at |-> "idle", todo |-> {}, hand |-> {}]

MountInit ==
    /\ bound = Connections /\ rcd = TRUE /\ held = {}
    /\ driver \in BOOLEAN
    /\ table = {} /\ claims = {} /\ listening = {}
    /\ start = [r \in Requests |-> NoStart]
    /\ stop = [u \in Stops |-> NoStop]
    /\ faults = 0

Point(r) == IF start[r].picked THEN "picked" ELSE start[r].conn
Key(r) == <<start[r].conn, start[r].surface>>
HeldAt(point) == {h \in held : h.point = point}
Faulty == faults < MaxFaults /\ faults' = faults + 1

Starting(r, label) == start[r].at = label
Goes(r, label) == start' = [start EXCEPT ![r].at = label]
Answers(r, out) == start' = [start EXCEPT ![r].at = "done", ![r].out = out]

(* Starts and records hold the group's work counter.                       *)
Underway(r) == start[r].at \notin {"idle", "done"}
Idle == bound = {} /\ table = {} /\ ~\E r \in Requests : Underway(r)

Record(r, strategy) ==
    [id |-> r, conn |-> start[r].conn, surface |-> start[r].surface,
     strategy |-> strategy, point |-> Point(r)]

------------------------------------------------------------------------------
(* files/mount: first the rcd's own mount, if the strategy allows it.      *)
Begins(r, c, surface, strategy, picked) ==
    /\ Starting(r, "idle") /\ c \in bound
    /\ start' = [start EXCEPT ![r] = [at |-> "client", out |-> "none", conn |-> c,
                     surface |-> surface, strategy |-> strategy, picked |-> picked]]
    /\ UNCHANGED <<bound, rcd, held, driver, table, claims, listening, stop, faults>>

Attempted(strategy) == strategy = "rclone" \/ (strategy = "auto" /\ driver)

GetsClient(r) ==
    /\ Starting(r, "client")
    /\ rcd' = TRUE
    /\ Goes(r, IF Attempted(start[r].strategy) THEN "attempt" ELSE "check")
    /\ UNCHANGED <<bound, held, driver, table, claims, listening, stop, faults>>

(* No client, a path outside the root, a directory that is not empty.      *)
FailsEarly(r) ==
    /\ \/ Starting(r, "client")
       \/ Starting(r, "attempt")
    /\ Faulty /\ Answers(r, "failed")
    /\ UNCHANGED <<bound, rcd, held, driver, table, claims, listening, stop>>

(* A host without a usable kernel side accepts and mounts nothing.         *)
Accepted(r) ==
    /\ Starting(r, "attempt") /\ rcd /\ HeldAt(Point(r)) = {}
    /\ held' \in {held, held \cup {[point |-> Point(r), conn |-> start[r].conn]}}
    /\ Goes(r, "accepted")
    /\ UNCHANGED <<bound, rcd, driver, table, claims, listening, stop, faults>>

FallsBack(r) ==
    IF start[r].strategy = "rclone" THEN Answers(r, "failed") ELSE Goes(r, "check")

Refused(r) ==
    /\ Starting(r, "attempt")
    /\ IF rcd /\ HeldAt(Point(r)) # {} THEN Answers(r, "failed") ELSE FallsBack(r)
    /\ UNCHANGED <<bound, rcd, held, driver, table, claims, listening, stop, faults>>

Registered(r) ==
    /\ Starting(r, "accepted") /\ HeldAt(Point(r)) # {}
    /\ table' = table \cup {Record(r, "rclone")}
    /\ Answers(r, "mounted")
    /\ UNCHANGED <<bound, rcd, held, driver, claims, listening, stop, faults>>

(* It did not show up within five seconds: unmounted, best effort.         *)
NeverRegistered(r) ==
    /\ Starting(r, "accepted")
    /\ IF HeldAt(Point(r)) = {} THEN UNCHANGED faults ELSE Faulty
    /\ held' = held \ HeldAt(Point(r))
    /\ FallsBack(r)
    /\ UNCHANGED <<bound, rcd, driver, table, claims, listening, stop>>

------------------------------------------------------------------------------
(* The gateway: no second one for a surface that has a record, nor for one *)
(* that is being mounted; the two looks are apart.                         *)
Duplicate(r) == \E m \in table : m.conn = start[r].conn /\ m.surface = start[r].surface

Checks(r) ==
    /\ Starting(r, "check")
    /\ IF Duplicate(r) THEN Answers(r, "failed") ELSE Goes(r, "claim")
    /\ UNCHANGED <<bound, rcd, held, driver, table, claims, listening, stop, faults>>

Claims(r) ==
    /\ Starting(r, "claim")
    /\ IF Key(r) \in claims
         THEN Answers(r, "failed") /\ UNCHANGED claims
         ELSE Goes(r, "gateway") /\ claims' = claims \cup {Key(r)}
    /\ UNCHANGED <<bound, rcd, held, driver, table, listening, stop, faults>>

(* Every way out drops the claim.                                          *)
(* Mistake: only a mount that succeeds gives it back.                      *)
ReleasesMounted(r) ==
    claims' = IF start'[r].out = "mounted" THEN claims \ {Key(r)} ELSE claims
Releases(r) == claims' = claims \ {Key(r)}

GatewayFails(r) ==
    /\ Starting(r, "gateway") /\ Faulty
    /\ Answers(r, "failed") /\ Releases(r)
    /\ UNCHANGED <<bound, rcd, held, driver, table, listening, stop>>

GatewayStarts(r) ==
    /\ Starting(r, "gateway")
    /\ listening' = listening \cup {r}
    /\ Goes(r, "volume")
    /\ UNCHANGED <<bound, rcd, held, driver, table, claims, stop, faults>>

(* The picked directory is looked at when the gateway already serves: one  *)
(* that is not empty ends the call, and nobody stops the gateway.          *)
DirectoryRefused(r) ==
    /\ Starting(r, "volume") /\ start[r].picked /\ Faulty
    /\ Answers(r, "refused") /\ Releases(r)
    /\ UNCHANGED <<bound, rcd, held, driver, table, listening, stop>>

GatewayMounted(r) ==
    /\ Starting(r, "volume")
    /\ table' = table \cup {Record(r, "webdav")}
    /\ Answers(r, "mounted") /\ Releases(r)
    /\ UNCHANGED <<bound, rcd, held, driver, listening, stop, faults>>

------------------------------------------------------------------------------
(* files/unmount, of one mount or of all, and connection/disconnect.  Both *)
(* work off a snapshot of the records.                                     *)
RecordsOf(c) == {m \in table : m.conn = c}
Stopping(u, label) == stop[u].at = label

Unmounts(u, c, ids) ==
    /\ Stopping(u, "idle")
    /\ stop' = [stop EXCEPT ![u] = [at |-> "unmounting", conn |-> c, last |-> FALSE,
                    todo |-> {m \in RecordsOf(c) : m.id \in ids}, hand |-> {}]]
    /\ UNCHANGED <<bound, rcd, held, driver, table, claims, listening, start, faults>>

Disconnects(u, c) ==
    /\ Stopping(u, "idle") /\ c \in bound
    /\ stop' = [stop EXCEPT ![u] = [at |-> "client", conn |-> c, last |-> TRUE,
                    todo |-> {}, hand |-> {}]]
    /\ UNCHANGED <<bound, rcd, held, driver, table, claims, listening, start, faults>>

Unreachable(u) ==
    /\ Stopping(u, "client") /\ Faulty
    /\ stop' = [stop EXCEPT ![u].at = "done"]
    /\ UNCHANGED <<bound, rcd, held, driver, table, claims, listening, start>>

Unregisters(u) ==
    /\ Stopping(u, "client")
    /\ rcd' = TRUE
    /\ bound' = bound \ {stop[u].conn}
    /\ stop' = [stop EXCEPT ![u].at = "snapshot"]
    /\ UNCHANGED <<held, driver, table, claims, listening, start, faults>>

Snapshots(u) ==
    /\ Stopping(u, "snapshot")
    /\ stop' = [stop EXCEPT ![u].at = "unmounting", ![u].todo = RecordsOf(stop[u].conn)]
    /\ UNCHANGED <<bound, rcd, held, driver, table, claims, listening, start, faults>>

(* A kernel mount is unmounted through a client of the group, unless its   *)
(* connection has left the registry; a gateway is told to stop.            *)
Takes(u, m) == stop' = [stop EXCEPT ![u].todo = @ \ {m}, ![u].hand = {m}]
Skips(u, m) == stop' = [stop EXCEPT ![u].todo = @ \ {m}]
CanTake(u, m) == Stopping(u, "unmounting") /\ stop[u].hand = {} /\ m \in stop[u].todo

(* Mistake: the handle is dropped, and the accept loop never hears of it.  *)
DropsHandle(u, m) == UNCHANGED listening
StopsGateway(u, m) == listening' = listening \ {m.id}

LetsGo(u, m) ==
    /\ CanTake(u, m) /\ Takes(u, m)
    /\ IF m.strategy = "webdav"
         THEN StopsGateway(u, m) /\ UNCHANGED <<rcd, held>>
         ELSE /\ UNCHANGED listening
              /\ IF m.conn \in bound
                   THEN rcd' = TRUE /\ held' = held \ HeldAt(m.point)
                   ELSE UNCHANGED <<rcd, held>>
    /\ UNCHANGED <<bound, driver, table, claims, start, faults>>

(* The rc call fails: an error in the answer, and the record stays.        *)
KeepsRecord(u, m) ==
    /\ CanTake(u, m) /\ m.strategy = "rclone" /\ m.conn \in bound
    /\ Faulty /\ Skips(u, m)
    /\ UNCHANGED <<bound, rcd, held, driver, table, claims, listening, start>>

DropsRecord(u) ==
    /\ stop[u].at = "unmounting" /\ stop[u].hand # {}
    /\ table' = table \ stop[u].hand
    /\ stop' = [stop EXCEPT ![u].hand = {}]
    /\ UNCHANGED <<bound, rcd, held, driver, claims, listening, start, faults>>

(* A disconnect shuts the group's rcd down if nothing needs it any more.   *)
Stopped(u) ==
    /\ Stopping(u, "unmounting") /\ stop[u].todo = {} /\ stop[u].hand = {}
    /\ stop' = [stop EXCEPT ![u].at = "done"]
    /\ IF stop[u].last /\ Idle THEN rcd' = FALSE /\ held' = {} ELSE UNCHANGED <<rcd, held>>
    /\ UNCHANGED <<bound, driver, table, claims, listening, start, faults>>

------------------------------------------------------------------------------
Crashes ==
    /\ rcd /\ Faulty
    /\ rcd' = FALSE /\ held' = {}
    /\ UNCHANGED <<bound, driver, table, claims, listening, start, stop>>

Serves(r) ==
    \/ GetsClient(r) \/ Accepted(r) \/ Refused(r) \/ Registered(r) \/ NeverRegistered(r)
    \/ Checks(r) \/ Claims(r) \/ GatewayStarts(r) \/ GatewayMounted(r)
StartFails(r) == FailsEarly(r) \/ GatewayFails(r) \/ DirectoryRefused(r)
Winds(u) ==
    \/ Unregisters(u) \/ Snapshots(u) \/ DropsRecord(u) \/ Stopped(u)
    \/ \E m \in stop[u].todo : LetsGo(u, m)

MountNext ==
    \/ \E r \in Requests : Serves(r) \/ StartFails(r)
    \/ \E r \in Requests, c \in Connections, surface \in Surfaces, strategy \in Strategies,
          picked \in BOOLEAN : Begins(r, c, surface, strategy, picked)
    \/ \E u \in Stops, c \in Connections : Disconnects(u, c)
    \/ \E u \in Stops, c \in Connections : \E ids \in {Requests} \cup {{r} : r \in Requests} :
          Unmounts(u, c, ids)
    \/ \E u \in Stops : Winds(u) \/ Unreachable(u) \/ \E m \in stop[u].todo : KeepsRecord(u, m)
    \/ Crashes

MountSpec == MountInit /\ [][MountNext]_mountVars

------------------------------------------------------------------------------
Records == [id : Requests, conn : Connections, surface : Surfaces,
            strategy : {"rclone", "webdav"}, point : Points]
MountTypeOK ==
    /\ bound \subseteq Connections /\ rcd \in BOOLEAN /\ driver \in BOOLEAN
    /\ held \subseteq [point : Points, conn : Connections]
    /\ table \subseteq Records
    /\ claims \subseteq Connections \X Surfaces
    /\ listening \subseteq Requests
    /\ \A r \in Requests :
          start[r].at \in {"idle", "client", "attempt", "accepted", "check", "claim", "gateway",
                          "volume", "done"}
    /\ \A u \in Stops :
          /\ stop[u].at \in {"idle", "client", "snapshot", "unmounting", "done"}
          /\ stop[u].todo \cup stop[u].hand \subseteq Records

(* A gateway that accepts has a record, by which it can be stopped, or a   *)
(* start that is about to write one.  The one exception is a picked        *)
(* directory that is refused after the gateway has started: that gateway   *)
(* serves until the sidecar ends.                                          *)
GatewayOwned ==
    \A r \in listening : \/ \E m \in table : m.id = r
                         \/ start[r].at = "volume" \/ start[r].out = "refused"

(* A surface is claimed by the one request that is bringing its gateway    *)
(* up: no two do at a time, and no way out of a mount, failed or refused,  *)
(* keeps the surface claimed against later mounts.                         *)
BringsUp(r) == start[r].at \in {"gateway", "volume"}
ClaimOwned ==
    /\ claims = {Key(r) : r \in {q \in Requests : BringsUp(q)}}
    /\ \A q, r \in Requests : BringsUp(q) /\ BringsUp(r) /\ Key(q) = Key(r) => q = r
=============================================================================
