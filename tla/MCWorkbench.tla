---------------------------- MODULE MCWorkbench ----------------------------
(* The uploads, the streamed listings and the remote edits, checked beside *)
(* each other: a behaviour is one of one of them, with the others at rest. *)
EXTENDS MCUploadChannel

CONSTANTS Requests, Connections, MaxGlobal, MaxPerConnection, Sizes, BatchMax, HoldCap,
          Capacity, Threshold,
          Sessions, Refreshes, StableTicks, ErrorRetryTicks, MaxStamps, EditFaults

VARIABLES
    part,
    listing, flagged, cancels, wire, pane, held, memory,
    edit, task, refresh, local, text, stamp, known, waived, editFaults

(* A copy has settled after one tick at least, and so has a failed sync;   *)
(* the copy is written so often only.                                      *)
ASSUME EditAssumption ==
    /\ StableTicks \in Nat \ {0} /\ ErrorRetryTicks \in Nat \ {0}
    /\ MaxStamps \in Nat

(* A full frame holds an entry at least; the sizes are numbers.            *)
ASSUME ListAssumption ==
    /\ BatchMax \in Nat \ {0} /\ HoldCap \in Nat /\ Capacity \in Nat
    /\ Sizes \subseteq Nat

L == INSTANCE ListStream WITH Paths <- {<<>>}, session <- listing
E == INSTANCE RemoteEdit WITH
        MaxFaults <- EditFaults, session <- edit, remote <- text, faults <- editFaults

listings == <<listing, flagged, cancels, wire, pane, held, memory>>
edits == <<edit, task, refresh, local, text, stamp, known, waived, editFaults>>
allVars == <<part, vars, listings, edits>>

WorkbenchInit ==
    /\ part \in {"uploads", "listings", "edits"}
    /\ Init /\ L!ListInit /\ E!EditInit

WorkbenchNext ==
    /\ UNCHANGED part
    /\ \/ part = "uploads" /\ Next /\ UNCHANGED <<listings, edits>>
       \/ part = "listings" /\ L!ListNext /\ UNCHANGED <<vars, edits>>
       \/ part = "edits" /\ E!EditNext /\ UNCHANGED <<vars, listings>>

(* At rest nothing that is fair can go on.                                 *)
WorkbenchSpec ==
    /\ WorkbenchInit /\ [][WorkbenchNext]_allVars
    /\ \A w \in Workers : WF_vars(Work(w))
    /\ L!ListFairness /\ E!EditFairness

WorkbenchTypeOK == TypeOK /\ L!ListTypeOK /\ E!EditTypeOK

(* Of ListStream: a listing taken for whole has every entry, and what is   *)
(* remembered of a directory was delivered.                                *)
ListingsAreTrue == L!DoneIsWhole /\ L!CountsAreEarned

(* Of ListStream: no pane waits for ever.                                  *)
PaneSettles == L!PaneSettles

(* Of RemoteEdit: a copy that counts as synced is synced.                  *)
SyncedIsTrue == E!SyncedIsTrue

(* Of RemoteEdit: a save gets to the remote.                               *)
SavesAreSynced == E!SavesAreSynced
=============================================================================
