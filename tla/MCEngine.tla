------------------------------ MODULE MCEngine ------------------------------
(* What stands around the rcds, checked side by side: a behaviour is one   *)
(* of the rcd groups, of the mounts, of the calls on single files, of the  *)
(* clock of a scheduled task, or of the MCP server, with the others at     *)
(* rest.                                                                   *)
EXTENDS MCRcdGroups, MCCron, MCServer

CONSTANTS
    Connections, Requests, Stops, Surfaces, MountFaults,
    Callers, Files, Payload, Nothing, Planned, CallFaults, MaxCalls

(* Archives hold files, and a plan to write them is not empty.             *)
ASSUME FilesAssumption ==
    /\ Payload \in Files
    /\ Planned \subseteq Seq(Files) \ {<<>>}
    /\ CallFaults \in Nat /\ MaxCalls \in Nat

VARIABLES
    part,
    bound, mounter, held, driver, table, claims, listening, start, stop, mountFaults,
    object, call, stood, callFaults, calls

M == INSTANCE Mounts WITH rcd <- mounter, faults <- mountFaults, MaxFaults <- MountFaults
F == INSTANCE FileCalls

(* One archive, of a file of the name that uploads have, and another.      *)
MCPlanned == {<<Payload, f>> : f \in Files \ {Payload}}

mounts == <<bound, mounter, held, driver, table, claims, listening, start, stop, mountFaults>>
files == <<object, call, stood, callFaults, calls>>
engineVars == <<part, vars, mounts, files, cronVars, serverVars>>

EngineInit ==
    /\ part \in {"groups", "mounts", "files", "clock", "server"}
    /\ Init \/ (part = "groups" /\ Connected)
    /\ M!MountInit /\ (part # "mounts" => driver)
    /\ F!CallInit /\ (part # "files" => \A f \in Files : object[f] = Nothing)
    /\ IF part = "clock" THEN CronInit ELSE Resting
    /\ ServerInit /\ (part = "server" <=> serves # "none")

EngineNext ==
    /\ UNCHANGED part
    /\ \/ part = "groups" /\ Next /\ UNCHANGED <<mounts, files, cronVars, serverVars>>
       \/ part = "mounts" /\ M!MountNext /\ UNCHANGED <<vars, files, cronVars, serverVars>>
       \/ part = "files" /\ F!CallNext /\ UNCHANGED <<vars, mounts, cronVars, serverVars>>
       \/ part = "clock" /\ CronNext /\ UNCHANGED <<vars, mounts, files, serverVars>>
       \/ part = "server" /\ ServerNext /\ UNCHANGED <<vars, mounts, files, cronVars>>

(* Fairness as in RcdGroups; of what is at rest only the keepalive thread  *)
(* could go on.                                                            *)
KeeperOn == part = "groups" /\ (Proceeds(Keeper) \/ SweepStarts \/ Visits \/ Reaps \/ Kills)
EngineSpec ==
    /\ EngineInit /\ [][EngineNext]_engineVars
    /\ \A a \in Workers : WF_vars(Proceeds(a))
    /\ WF_vars(KeeperOn)

EngineTypeOK ==
    /\ part = "groups" => TypeOK
    /\ part = "mounts" => M!MountTypeOK
    /\ part = "files" => F!CallTypeOK
    /\ part = "clock" => CronTypeOK
    /\ ServerTypeOK

(* Of Mounts: a gateway that accepts can be stopped, and a claimed surface *)
(* has the request that claimed it.                                        *)
MountsOwned == M!GatewayOwned /\ M!ClaimOwned

(* Of FileCalls: a condition on the target of a call holds when it writes. *)
WritesAreGuarded == F!WritesAreGuarded
=============================================================================
