----------------------------- MODULE FileCalls -----------------------------
(***************************************************************************)
(* Single calls on the files of one directory of a remote: the workbench's *)
(* write, copy, move, rename, delete, compress and extract, and the host's *)
(* filesystem/write, rename and delete.  Every rc call is an await, so the *)
(* calls of two workers interleave between any two of them.                *)
(*                                                                         *)
(* Bytes are written by write_bytes: operations/uploadfile can only put    *)
(* them under the name "payload" in the directory of the target, from      *)
(* where they are moved.                                                   *)
(***************************************************************************)
EXTENDS Naturals, FiniteSets, Sequences

CONSTANTS
    Callers,
    Files, Payload,  \* the names in the directory, "payload" among them
    Nothing,         \* no object
    Planned,         \* what archives hold: sequences of names
    CallFaults,      \* bound: rc calls that fail
    MaxCalls         \* bound: calls begun

(* The bytes of a caller are told from all others.                         *)
Old == "old"
Contents == Callers \cup {Old}

VARIABLES
    object,    \* the objects in the directory
    call,      \* the call of a worker
    stood,     \* the object at its target that nobody has touched since it asked
    callFaults,
    calls      \* calls begun so far

callVars == <<object, call, stood, callFaults, calls>>

Idle == [at |-> "idle", kind |-> "write", todo |-> <<>>, source |-> Payload, create |-> TRUE,
         overwrite |-> TRUE, etag |-> Nothing, data |-> Nothing, clobbers |-> FALSE]

CallInit ==
    /\ object \in [Files -> {Nothing, Old}]
    /\ call = [w \in Callers |-> Idle]
    /\ stood = [w \in Callers |-> Nothing]
    /\ callFaults = 0
    /\ calls = 0

------------------------------------------------------------------------------
At(w, label) == call[w].at = label
Target(w) == Head(call[w].todo)
Exists(f) == object[f] # Nothing

(* What stands where a call will write, until anyone touches it.           *)
Stands(c) == IF c.todo # <<>> THEN object[Head(c.todo)] ELSE Nothing
Watched(w, next, objects) ==
    IF next.todo # call[w].todo THEN Stands(next)
    ELSE IF next.todo # <<>> /\ objects[Head(next.todo)] = object[Head(next.todo)]
         THEN stood[w] ELSE Nothing

(* A call goes on, and the directory with it.                              *)
Turns(w, next, objects) ==
    /\ call' = [call EXCEPT ![w] = next]
    /\ object' = objects
    /\ stood' = [v \in Callers |-> Watched(v, call'[v], objects)]
Steps(w, next, objects) == Turns(w, next, objects) /\ UNCHANGED <<callFaults, calls>>
Goes(w, label) == Steps(w, [call[w] EXCEPT !.at = label], object)
Ends(w) == Steps(w, Idle, object)

(* An rc call fails before it has done anything, or its answer is lost.    *)
Fails(w, next, objects) ==
    /\ callFaults < CallFaults
    /\ callFaults' = callFaults + 1
    /\ Turns(w, next, objects)
    /\ UNCHANGED calls

(* What an overwrite of the target means for the promises of the call: an  *)
(* object nobody else touched is in the way, or is not the one expected.   *)
Clobbers(w) ==
    /\ stood[w] # Nothing
    /\ \/ ~call[w].overwrite
       \/ call[w].etag \notin {Nothing, stood[w]}

------------------------------------------------------------------------------
(* The requests.  The workbench's write takes no conditions, and neither   *)
(* do its copy, move and rename; compress does not replace; an extract     *)
(* writes one entry after the other.                                       *)
Request(kind, label, todo) == [Idle EXCEPT !.at = label, !.kind = kind, !.todo = todo]
Begins(w, request) ==
    /\ calls < MaxCalls
    /\ calls' = calls + 1
    /\ Turns(w, request, object)
    /\ UNCHANGED callFaults

Writes(w, f) == Begins(w, Request("write", "upload", <<f>>))
WritesIf(w, f) ==
    \E create, overwrite \in BOOLEAN, etag \in {Nothing, Old} :
        Begins(w, [Request("write", "check", <<f>>) EXCEPT !.create = create,
                     !.overwrite = overwrite, !.etag = etag])
Compresses(w, f) == Begins(w, [Request("write", "check", <<f>>) EXCEPT !.overwrite = FALSE])
Extracts(w) == \E plan \in Planned : Begins(w, Request("write", "upload", plan))
Copies(w, f, g) == Begins(w, [Request("copy", "stat", <<g>>) EXCEPT !.source = f])
Moves(w, f, g) == Begins(w, [Request("move", "stat", <<g>>) EXCEPT !.source = f])
MovesIf(w, f, g) ==
    Begins(w, [Request("move", "stat", <<g>>) EXCEPT !.source = f, !.overwrite = FALSE])
Deletes(w, f) == Begins(w, Request("delete", "probe", <<f>>))

Asks(w) ==
    /\ At(w, "idle")
    /\ \/ Extracts(w)
       \/ \E f \in Files : Writes(w, f) \/ WritesIf(w, f) \/ Compresses(w, f) \/ Deletes(w, f)
       \/ \E f, g \in Files : f # g /\ (Copies(w, f, g) \/ Moves(w, f, g) \/ MovesIf(w, f, g))

------------------------------------------------------------------------------
(* stat of the source: a missing one is an error.                          *)
FindsSource(w) ==
    /\ At(w, "stat")
    /\ IF Exists(call[w].source)
       THEN Goes(w, IF call[w].overwrite THEN "transfer" ELSE "check")
       ELSE Ends(w)

(* stat_exists: the conditions on the target.                              *)
Allows(w) == IF Exists(Target(w)) THEN call[w].overwrite ELSE call[w].create
Checks(w) ==
    /\ At(w, "check")
    /\ IF ~Allows(w) THEN Ends(w)
       ELSE IF call[w].kind = "move" THEN Goes(w, "transfer")
       ELSE IF Exists(Target(w)) /\ call[w].etag # Nothing THEN Goes(w, "hash")
       ELSE Goes(w, "upload")

(* A stat that fails is an error.                                          *)
(* Mistake: it is taken for a target that is absent.                       *)
StatFailsOpen(w) ==
    Fails(w, IF At(w, "check") THEN [call[w] EXCEPT !.at = "upload"] ELSE Idle, object)
StatFails(w) == Fails(w, Idle, object)
LosesStat(w) == (At(w, "stat") \/ At(w, "check") \/ At(w, "probe")) /\ StatFails(w)

(* The hash of the object is compared; one that is not to be had skips it. *)
Compares(w) ==
    /\ At(w, "hash")
    /\ IF object[Target(w)] \in {Nothing, call[w].etag} THEN Goes(w, "upload") ELSE Ends(w)
SkipsHash(w) ==
    /\ At(w, "hash")
    /\ Steps(w, [call[w] EXCEPT !.at = "upload", !.etag = Nothing], object)

(* write_bytes: into the directory of the target, under the fixed name.    *)
Uploaded(w) == [object EXCEPT ![Payload] = w]
Uploads(w) ==
    /\ At(w, "upload")
    /\ IF Target(w) = Payload
       THEN Steps(w, [call[w] EXCEPT !.at = "placed", !.data = w,
                         !.clobbers = @ \/ Clobbers(w)], Uploaded(w))
       ELSE Steps(w, [call[w] EXCEPT !.at = "place"], Uploaded(w))
LosesUpload(w) ==
    /\ At(w, "upload")
    /\ \E objects \in {object, Uploaded(w)} : Fails(w, Idle, objects)

(* movefile onto the target, which it replaces; if there is nothing to     *)
(* move the call fails.                                                    *)
Placed(w) == [object EXCEPT ![Target(w)] = object[Payload], ![Payload] = Nothing]
Places(w) ==
    /\ At(w, "place")
    /\ IF Exists(Payload)
       THEN Steps(w, [call[w] EXCEPT !.at = "placed", !.data = object[Payload],
                         !.clobbers = @ \/ Clobbers(w)], Placed(w))
       ELSE Goes(w, "clean")
LosesPlace(w) ==
    /\ At(w, "place")
    /\ \E objects \in {object} \cup (IF Exists(Payload) THEN {Placed(w)} ELSE {}) :
          Fails(w, [call[w] EXCEPT !.at = "clean"], objects)

(* What was uploaded is removed again, with little regard for whose it is. *)
Cleans(w) ==
    /\ At(w, "clean")
    /\ Steps(w, Idle, [object EXCEPT ![Payload] = Nothing])
LosesClean(w) == At(w, "clean") /\ Fails(w, Idle, object)

(* write_plan: the next entry of the archive; else the call is over.       *)
Continues(w) ==
    /\ At(w, "placed")
    /\ IF Len(call[w].todo) > 1
       THEN Steps(w, [call[w] EXCEPT !.at = "upload", !.todo = Tail(@)], object)
       ELSE Ends(w)

(* copyfile and movefile: what is there is replaced.                       *)
Transferred(w) ==
    [object EXCEPT ![Target(w)] = object[call[w].source],
        ![call[w].source] = IF call[w].kind = "move" THEN Nothing ELSE @]
Transfers(w) ==
    /\ At(w, "transfer")
    /\ IF Exists(call[w].source)
       THEN Steps(w, [call[w] EXCEPT !.at = "placed", !.clobbers = Clobbers(w)], Transferred(w))
       ELSE Ends(w)
LosesTransfer(w) ==
    /\ At(w, "transfer")
    /\ \E objects \in {object} \cup (IF Exists(call[w].source) THEN {Transferred(w)} ELSE {}) :
          Fails(w, Idle, objects)

(* delete_file: what is missing is deleted already.                        *)
Probes(w) ==
    /\ At(w, "probe")
    /\ IF Exists(Target(w)) THEN Goes(w, "delete") ELSE Ends(w)
Removes(w) ==
    /\ At(w, "delete")
    /\ Steps(w, Idle, [object EXCEPT ![Target(w)] = Nothing])
LosesRemove(w) ==
    /\ At(w, "delete")
    /\ \E objects \in {object, [object EXCEPT ![Target(w)] = Nothing]} : Fails(w, Idle, objects)

Serves(w) ==
    \/ FindsSource(w) \/ Checks(w) \/ Compares(w) \/ SkipsHash(w)
    \/ Uploads(w) \/ Places(w) \/ Cleans(w) \/ Continues(w)
    \/ Transfers(w) \/ Probes(w) \/ Removes(w)
Loses(w) ==
    \/ LosesStat(w) \/ LosesUpload(w) \/ LosesPlace(w) \/ LosesClean(w)
    \/ LosesTransfer(w) \/ LosesRemove(w)

CallNext == \E w \in Callers : Asks(w) \/ Serves(w) \/ Loses(w)
CallSpec == CallInit /\ [][CallNext]_callVars

------------------------------------------------------------------------------
CallTypeOK ==
    /\ object \in [Files -> Contents \cup {Nothing}]
    /\ stood \in [Callers -> Contents \cup {Nothing}]
    /\ callFaults \in 0..CallFaults /\ calls \in 0..MaxCalls
    /\ \A w \in Callers :
          /\ call[w].at \in {"idle", "stat", "check", "hash", "upload", "place", "placed",
                             "clean", "transfer", "probe", "delete"}
          /\ call[w].source \in Files
          /\ call[w].data \in Contents \cup {Nothing}

(* A call that is not to overwrite never replaces an object that stood at  *)
(* its target since it was asked, and one that names the object it expects *)
(* replaces no other, if the hash could be read: a stat that fails, or a   *)
(* late answer, never reads as "absent" (fs_facade.rs:645-647).            *)
WritesAreGuarded == \A w \in Callers : ~call[w].clobbers

(* What a write puts at its target are its own bytes (ops.rs:848).         *)
WrittenIsOwn == \A w \in Callers : At(w, "placed") /\ call[w].kind = "write" => call[w].data = w
=============================================================================
