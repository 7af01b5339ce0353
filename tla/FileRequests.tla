---------------------------- MODULE FileRequests ----------------------------
(***************************************************************************)
(* The requests of the workbench that change files: the gates of a request *)
(* are those of the binding it found, its path is resolved below the root, *)
(* then come the calls to rclone, and the remembered listings are dropped. *)
(* The row in the audit log is tried, and changes nothing.  Meanwhile      *)
(* connections are bound anew, listings are remembered, and others change  *)
(* the files.                                                              *)
(*                                                                         *)
(* Bytes are written in one step here (FileCalls has the steps), and of a  *)
(* directory that is transferred only the job (SyncJobs).                  *)
(***************************************************************************)
EXTENDS PathPolicy

CONSTANTS
    Connections,
    Bindings,    \* [root, lock, readOnly, allowDelete, buckets, keeps, group]
    Trees,       \* what is on a remote at first: [files, dirs]
    Spellings,   \* the paths of the requests
    Methods,
    RequestFaults, \* bound: calls that fail
    Strangers    \* bound: what others do meanwhile

(* The connections are alike: a request begins at this one.                *)
Home == CHOOSE c \in Connections : TRUE

VARIABLES
    binding,  \* the registry
    tree,
    remembered, \* the directories whose size is remembered
    request,
    asked,    \* whether the request has been made
    requestFaults, strangers

requestVars == <<binding, tree, remembered, request, asked, requestFaults, strangers>>

------------------------------------------------------------------------------
Parents(path) == {SubSeq(path, 1, i) : i \in 1..(Len(path) - 1)}
ParentOf(path) == IF Len(path) > 1 THEN Front(path) ELSE <<<<"">>>>
Kind(c, path) ==
    IF path \in tree[c].files THEN "file"
    ELSE IF path = <<>> \/ path \in tree[c].dirs THEN "dir" ELSE "none"
Below(c, path) ==
    {p \in tree[c].files \cup tree[c].dirs : IsPrefix(path, p) /\ p # path}
FreeFor(c, path) == path # <<>> /\ Kind(c, path) # "dir" /\ Parents(path) \cap tree[c].files = {}

(* A remote that keeps no empty directories has those of its files.        *)
Kept(b, t) ==
    IF b.keeps THEN t
    ELSE [t EXCEPT !.dirs = {d \in @ : \E f \in t.files : IsPrefix(d, f)}]
Plus(b, t, path) == [files |-> t.files \cup {path}, dirs |-> t.dirs \cup Parents(path)]
Minus(b, t, paths) == Kept(b, [files |-> t.files \ paths, dirs |-> t.dirs \ paths])

Bare(path) == SelectSeq(path, LAMBDA part : part # <<"">>)

Change(c, path, how) == [on |-> c, path |-> path, how |-> how]
Key(c, path) == <<c, path>>

Rest == [at |-> "idle", method |-> "mkdir", from |-> Home, to |-> Home,
         b |-> CHOOSE b \in Bindings : TRUE, d |-> CHOOSE b \in Bindings : TRUE,
         raw |-> <<<<"">>>>, src |-> <<>>, dst |-> <<>>, hint |-> "none",
         changes |-> {}, stale |-> {}, ok |-> FALSE]

RequestInit ==
    /\ binding \in [Connections -> Bindings]
    /\ tree \in [Connections -> Trees]
    /\ remembered = {}
    /\ request = Rest /\ asked = FALSE
    /\ requestFaults = 0 /\ strangers = 0

------------------------------------------------------------------------------
(* ensure_binding_writable, ensure_binding_deletable.                      *)
Writable(b) == ~b.readOnly
Deletable(b) == ~b.readOnly /\ b.allowDelete

Allowed(method, b, d) ==
    /\ method \in {"mkdir", "rmdir", "rename", "hashsum", "copyurl"} => Writable(b)
    /\ method \in {"copy", "move"} => Writable(d) /\ b.group = d.group
    /\ method \in {"rmdir", "delete", "purge", "move", "rename", "cleanup", "rmdirs"} =>
          Deletable(b)

(* Files are not put where a remote has its buckets.                       *)
Nested(b, path) == ~(b.root = <<<<"">>>> /\ b.buckets /\ Len(path) = 1)

(* Where the sums of a directory go, and what is fetched from a web page.  *)
SumsOf(path) == <<<<"">>>> \o Append(Front(path), <<"sums">>)
FetchedTo(path) == Append(path, <<"page">>)

First(method) ==
    CASE method = "mkdir" -> "mkdir"
      [] method \in {"rmdir", "delete", "purge", "copy", "move", "rename"} -> "stat"
      [] method = "hashsum" -> "size"
      [] OTHER -> "act"

TargetOf(method, path, to) ==
    CASE method = "hashsum" -> SumsOf(path)
      [] method = "copyurl" -> FetchedTo(path)
      [] OTHER -> to
RootRefused(method) == method \in {"mkdir", "rmdir", "delete", "purge", "hashsum"}
PutsFile(method) == method \in {"hashsum", "copyurl"}

Goes(next) == request' = next
Still == UNCHANGED <<binding, remembered, asked, requestFaults, strangers>>
Answer(ok) == [request EXCEPT !.at = "answered", !.ok = ok]
Refuses == Goes(Answer(FALSE)) /\ UNCHANGED tree /\ Still
At(label) == request.at = label
To(label) == Goes([request EXCEPT !.at = label]) /\ UNCHANGED tree /\ Still

(* A request is gated before it does anything.                             *)
Asks ==
    /\ At("idle") /\ ~asked
    /\ asked' = TRUE
    /\ \E method \in Methods, to \in Connections, path, target \in Spellings,
          hint \in {"none", "file", "dir"} :
          LET two == method \in {"copy", "move", "rename"}
              b == binding[Home]
              d == binding[to]
              src == Resolve(b.root, b.lock, path)
              dst == Resolve(d.root, d.lock, TargetOf(method, path, target))
              next == [Rest EXCEPT !.at = First(method), !.method = method, !.to = to,
                         !.b = b, !.d = d,
                         !.raw = path, !.src = src, !.dst = dst, !.hint = hint]
          IN /\ ~two => target = path
             /\ method \notin {"copy", "move"} => to = Home
             /\ method # "rename" => hint = "none"
             /\ Goes(IF /\ Allowed(method, b, d)
                        /\ src # Outside /\ dst # Outside
                        /\ RootRefused(method) => src # <<>>
                        /\ method = "purge" => Bare(path) # Bare(b.root)
                        /\ PutsFile(method) => Nested(d, dst)
                     THEN next ELSE [next EXCEPT !.at = "answered"])
    /\ UNCHANGED <<binding, tree, remembered, requestFaults, strangers>>

------------------------------------------------------------------------------
(* What is taken leaves the remembered listing of its directory behind.    *)
Listing(c, path) == IF Len(path) > 1 THEN {Key(c, Front(path))} ELSE {}
Changed(t, changes, next) ==
    /\ tree' = t
    /\ Goes([next EXCEPT !.changes = changes,
               !.stale = IF Change(request.from, request.src, "takes") \in changes
                         THEN Listing(request.from, request.src) \cap remembered ELSE {}])
    /\ Still

(* mkdir_with_placeholder: where empty directories are not kept a file     *)
(* stands for the new one; it is not made if that is not known.            *)
Placeholder(path) == Append(path, <<"keep">>)
MakesDir ==
    /\ At("mkdir")
    /\ LET c == request.from
           path == request.src
           made == tree[c].dirs \cup Parents(path) \cup {path}
       IN IF (Parents(path) \cup {path}) \cap tree[c].files # {} THEN Refuses
          ELSE IF request.b.keeps
          THEN Changed([tree EXCEPT ![c].dirs = made], {Change(c, path, "adds")},
                       [request EXCEPT !.at = "drop"])
          ELSE To("placeholder") \/ To("drop")
PutsPlaceholder ==
    /\ At("placeholder")
    /\ LET c == request.from
           path == Placeholder(request.src)
       IN \/ /\ FreeFor(c, path)
             /\ Changed([tree EXCEPT ![c] = Plus(request.b, @, path)],
                        {Change(c, path, "adds")}, [request EXCEPT !.at = "drop"])
          \/ To("drop")

(* stat first: what is missing is deleted already, for a removal; and what *)
(* is a directory, or is named so by who renames it, is left to a job.     *)
AsDir ==
    IF request.method = "rename" /\ request.hint # "none" THEN request.hint = "dir"
    ELSE Kind(request.from, request.src) = "dir"
Stats ==
    /\ At("stat")
    /\ LET kind == Kind(request.from, request.src)
           method == request.method
       IN CASE kind = "none" /\ method \in {"delete", "purge"} -> To("drop")
            [] kind = "none" /\ method \notin {"delete", "purge"} -> Refuses
            [] kind # "none" /\ method = "rmdir" -> IF kind = "dir" THEN To("list") ELSE Refuses
            [] kind # "none" /\ method \in {"delete", "purge"} -> To("act")
            [] OTHER -> To(IF AsDir THEN "job" ELSE "act")
ListsDir ==
    /\ At("list")
    /\ IF Below(request.from, request.src) # {} THEN Refuses ELSE To("act")

(* hashsum: the files are counted, then hashed; none is an error.          *)
Sizes == At("size") /\ (To("hash") \/ Refuses)
Hashes ==
    /\ At("hash")
    /\ IF Below(request.from, request.src) \cap tree[request.from].files = {}
       THEN Refuses ELSE To("act")

(* rclone_start_dir_job asks the registry again.                           *)
Submits ==
    /\ At("job")
    /\ IF Allowed(IF request.method = "rename" THEN "move" ELSE request.method,
                  binding[request.from], binding[request.to])
       THEN To("drop") ELSE Refuses

------------------------------------------------------------------------------
(* What rclone does.  copyfile and movefile get the source as it was       *)
(* spelled, less its outer slashes.                                        *)
SourceOf == IF request.method = "rename" THEN request.src ELSE Bare(request.raw)

Removable(c, path) ==
    CASE request.method = "rmdir" -> Kind(c, path) = "dir" /\ Below(c, path) = {}
      [] request.method = "delete" -> Kind(c, path) = "file"
      [] request.method = "purge" -> Kind(c, path) = "dir"
EmptyDirs(c, path) ==
    {p \in Below(c, path) \cup {path} :
        Kind(c, p) = "dir" /\ Below(c, p) \cap tree[c].files = {}}

Done(changes, t) == Changed(t, changes, [request EXCEPT !.at = "drop"])
Removes ==
    /\ request.method \in {"rmdir", "delete", "purge"}
    /\ LET c == request.from
           paths == Below(c, request.src) \cup {request.src}
       IN IF ~Removable(c, request.src) THEN Refuses
          ELSE Done({Change(c, p, "takes") : p \in paths},
                    [tree EXCEPT ![c] = Minus(request.b, tree[c], paths)])
Transfers ==
    /\ request.method \in {"copy", "move", "rename"}
    /\ LET source == SourceOf
           taken == IF request.method = "copy" THEN {} ELSE {source}
           put == [tree EXCEPT ![request.to] = Plus(request.d, @, request.dst)]
       IN IF Kind(request.from, source) # "file" \/ ~FreeFor(request.to, request.dst)
             \/ <<request.from, source>> = <<request.to, request.dst>>
          THEN Refuses
          ELSE Done({Change(request.to, request.dst, "adds")}
                        \cup {Change(request.from, p, "takes") : p \in taken},
                    [put EXCEPT ![request.from] = Minus(request.b, @, taken)])
Puts ==
    /\ PutsFile(request.method)
    /\ IF ~FreeFor(request.to, request.dst) THEN Refuses
       ELSE Done({Change(request.to, request.dst, "adds")},
                 [tree EXCEPT ![request.to] = Plus(request.d, @, request.dst)])
Sweeps ==
    \/ request.method = "cleanup" /\ To("drop")
    \/ /\ request.method = "rmdirs"
       /\ LET c == request.from
              paths == EmptyDirs(c, request.src)
          IN Done({Change(c, p, "takes") : p \in paths},
                  [tree EXCEPT ![c] = Minus(request.b, tree[c], paths)])
Acts == At("act") /\ (Removes \/ Transfers \/ Puts \/ Sweeps)

(* A call fails.                                                           *)
Loses ==
    /\ request.at \in {"mkdir", "stat", "list", "size", "hash", "job", "act"}
    /\ requestFaults < RequestFaults /\ requestFaults' = requestFaults + 1
    /\ Goes(Answer(FALSE))
    /\ UNCHANGED <<binding, tree, remembered, asked, strangers>>

------------------------------------------------------------------------------
(* invalidate_around, under the path as the listings know it.              *)
(* Mistake: under the path as it was spelled.                              *)
AroundRaw(c, path) == {Key(c, request.raw), Key(c, ParentOf(request.raw))}
Around(c, path) == {Key(c, path), Key(c, ParentOf(path))}
Dropped ==
    CASE request.method \in {"mkdir", "rmdir", "delete", "purge"} ->
            Around(request.from, request.src)
      [] request.method \in {"copy", "move", "rename"} ->
            Around(request.from, request.src) \cup Around(request.to, request.dst)
      [] OTHER -> {}
Drops ==
    /\ At("drop")
    /\ remembered' = remembered \ Dropped
    /\ Goes([Answer(TRUE) EXCEPT !.stale = @ \ Dropped])
    /\ UNCHANGED <<binding, tree, asked, requestFaults, strangers>>

------------------------------------------------------------------------------
(* Meanwhile.                                                              *)
Meanwhile ==
    /\ strangers < Strangers /\ strangers' = strangers + 1
    /\ UNCHANGED <<request, asked, requestFaults>>
Rebinds ==
    /\ Meanwhile
    /\ \E c \in Connections, b \in Bindings : binding' = [binding EXCEPT ![c] = b]
    /\ UNCHANGED <<tree, remembered>>
Remembers ==
    /\ Meanwhile
    /\ \E c \in Connections : \E d \in tree[c].dirs : remembered' = remembered \cup {Key(c, d)}
    /\ UNCHANGED <<binding, tree>>
Meddles ==
    /\ Meanwhile
    /\ \E c \in Connections :
          \/ \E f \in tree[c].files :
                tree' = [tree EXCEPT ![c] = Minus(binding[c], @, {f})]
          \/ \E d \in tree[c].dirs :
                /\ FreeFor(c, Append(d, <<"new">>))
                /\ tree' = [tree EXCEPT ![c] = Plus(binding[c], @, Append(d, <<"new">>))]
    /\ UNCHANGED <<binding, remembered>>

RequestNext ==
    \/ Asks \/ MakesDir \/ PutsPlaceholder \/ Stats \/ ListsDir \/ Sizes \/ Hashes \/ Submits
    \/ Acts \/ Loses \/ Drops
    \/ Rebinds \/ Remembers \/ Meddles

RequestSpec == RequestInit /\ [][RequestNext]_requestVars

------------------------------------------------------------------------------
RequestTypeOK ==
    /\ binding \in [Connections -> Bindings]
    /\ request.at \in {"idle", "mkdir", "placeholder", "stat", "list", "size", "hash", "job",
                       "act", "drop", "answered"}
    /\ requestFaults \in 0..RequestFaults /\ strangers \in 0..Strangers
    /\ \A c \in Connections : tree[c].files \cap tree[c].dirs = {}

(* A path that goes up further than it has come down.                      *)
LeadsOut(path) ==
    \E i \in DOMAIN path :
        2 * Cardinality({j \in 1..i : path[j] = <<"..">>})
            > Cardinality({j \in 1..i : path[j] \notin {<<"">>, <<".">>}})

(* A request changes nothing on a connection that is bound read-only,      *)
(* takes nothing away where deletion is not allowed, and never the root,   *)
(* nor anything by a path that leads out of it; and when it answers, what  *)
(* it took is in no listing that is still remembered.  Not so for rmdirs,  *)
(* which takes an empty root too and drops no listing (main.rs:756-987,    *)
(* 1778-1795, 3571-3601; policy.rs:141-192).                               *)
ChangesAreAllowed ==
    LET bound(c) == IF c.how = "adds" THEN request.d ELSE request.b
        sweeps == request.method = "rmdirs"
        done == At("answered") /\ request.ok
    IN /\ \A c \in request.changes :
             /\ ~bound(c).readOnly
             /\ c.how = "takes" => bound(c).allowDelete /\ (c.path # <<>> \/ sweeps)
       /\ request.changes # {} => ~LeadsOut(request.raw)
       /\ done /\ ~sweeps => request.stale = {}
=============================================================================
