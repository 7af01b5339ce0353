------------------------------ MODULE JobPlans ------------------------------
(***************************************************************************)
(* What a job on directories is asked to do and what rclone is told: the   *)
(* forms of the panel, of MCP, of a schedule and of the task provider      *)
(* become one request, a starter gates it and resolves its paths, and the  *)
(* body of the rc call is put together from what is left.  rclone is       *)
(* external: it goes by the keys of the body and by nothing else.          *)
(* SyncJobs has what becomes of a job once it runs.                        *)
(***************************************************************************)
EXTENDS PathPolicy

CONSTANTS
    Registries, \* what the connections may be bound to: [root, lock, readOnly, allowDelete, group]
    Forests,    \* the files of the connections: [connection -> [path -> text]]
    Forms,
    Stems,      \* names with an extension: [stem, hash], the hash that it stands for
    SumTexts,   \* texts that are files of sums: [hash, lists]
    Lookalikes, \* texts of one size and one time
    Unlimited,  \* more than there are files
    MaxRebinds  \* bound: times that connections are bound anew

VARIABLES
    registry,   \* what they are bound to
    objects,
    began,      \* history: the objects when the job was started
    plan,       \* the form and how far it is
    rebinds

planVars == <<registry, objects, began, plan, rebinds>>

------------------------------------------------------------------------------
(* What a body may say of the files of a job, and what of any job.         *)
Filters == {"min_size", "max_size", "min_age", "max_age"}
Conditions == Filters \cup {"metadata", "update", "existing", "immutable", "checksum",
                            "ignore_existing", "ignore_times"}
Patterns == {"include", "exclude"}
Common == Patterns \cup {"suffix", "transfers", "checkers", "retries"}
Absent == <<>>

(* The flags that the forms have a field for.  A schedule has none for     *)
(* three of the conditions, and MCP has one for a dry run alone.           *)
ScheduleFlags ==
    (Common \cup Conditions \cup {"dry_run"}) \ {"checksum", "ignore_existing", "ignore_times"}
CheckFlags == {"oneWay", "download"}
BisyncFlags == {"dry_run", "resync"}
ToolFlags == {"dry_run"}

(* The request that a form becomes.                                        *)
Request(f, sync, flags) == [f EXCEPT !.sync = sync, !.flags = flags]
Plain(f, sync, flags) == [f EXCEPT !.sync = sync, !.flags = flags, !.backup = Absent]
PanelRequest(f) == Request(f, f.sync, f.flags)
ScheduleRequest(f) ==
    Request(f, f.sync, f.flags \cap (IF f.kind = "bisync" THEN BisyncFlags ELSE ScheduleFlags))
ToolRequest(f) == Plain(f, f.sync, f.flags \cap ToolFlags)

(* A copy, a move or a rename of a directory has nothing but its paths.    *)
CopyRequest(f) == [Plain(f, FALSE, {}) EXCEPT !.maxDelete = Unlimited]

(* The config of a task has what differs from its defaults, and the        *)
(* request says it in the flags of rclone.                                 *)
TaskMirrors(f) == f.sync /\ "additive" \notin f.flags
TaskFlagsOf(flags, spares) ==
    (flags \cap {"dry_run", "checksum", "transfers"})
        \cup (IF spares THEN {"ignore_existing"} ELSE {})
        \cup (IF "afresh" \in flags THEN {"ignore_times"} ELSE {})
        \cup (IF "shallow" \in flags THEN {"include"} ELSE {})
TaskFlags(flags) == TaskFlagsOf(flags, "spare" \in flags)
TaskRequest(f) ==
    [Plain(f, TaskMirrors(f), TaskFlags(f.flags)) EXCEPT !.maxDelete = Unlimited]

RequestOf(f) ==
    CASE f.entry = "panel" -> PanelRequest(f)
      [] f.entry = "schedule" -> ScheduleRequest(f)
      [] f.entry = "mcp" -> ToolRequest(f)
      [] f.entry = "task" -> TaskRequest(f)
      [] f.entry \in {"copy", "move"} -> CopyRequest(f)

------------------------------------------------------------------------------
Writable(b) == ~b.readOnly
Deletable(b) == ~b.readOnly /\ b.allowDelete
Gate(b, path) == Resolve(b.root, b.lock, path)
Inside(b, path) == Gate(b, path) # Outside
SameProxyGroup(b, d) == b.group = d.group

(* paths_overlap: of two paths below one root.                             *)
Overlap(p, q) == IsPrefix(p, q) \/ IsPrefix(q, p)

(* validate of the task provider: the gates of the starter beforehand, and *)
(* no tree is copied onto itself, unless it is all there is.               *)
TaskValid(f, b, d) ==
    /\ Writable(d)
    /\ TaskMirrors(f) => d.allowDelete
    /\ Inside(b, f.source) /\ Inside(d, f.target)
    /\ Gate(b, f.source) # <<>> /\ f.from = f.to =>
          ~Overlap(Gate(b, f.source), Gate(d, f.target))
    /\ f.from # f.to => SameProxyGroup(b, d)

(* validate of the scheduler.                                              *)
ScheduleValid(f, b, d) ==
    /\ f.kind = "bisync" => Deletable(b) /\ Deletable(d)
    /\ Writable(d)
    /\ f.sync \/ f.retain => d.allowDelete
    /\ Inside(b, f.source) /\ Inside(d, f.target)
    /\ IF f.backup = Absent THEN ~f.retain ELSE Inside(d, f.backup)

Valid(f) ==
    CASE f.entry = "task" -> TaskValid(f, registry[f.from], registry[f.to])
      [] f.entry = "schedule" -> ScheduleValid(f, registry[f.from], registry[f.to])
      [] OTHER -> TRUE

------------------------------------------------------------------------------
At(label) == plan.at = label
Goes(changed) == plan' = changed /\ UNCHANGED <<registry, began, rebinds>>
To(label) == Goes([plan EXCEPT !.at = label]) /\ UNCHANGED objects
Refused == To("refused")

AnyForm == CHOOSE f \in Forms : TRUE
AnyBinding == (CHOOSE r \in Registries : TRUE)[AnyForm.from]
NoFs == [on |-> AnyForm.from, path |-> Outside]
NoBody == [op |-> "none", keys |-> {}, maxDelete |-> Unlimited, backup |-> NoFs, hash |-> "none"]

PlanInit ==
    /\ registry \in Registries
    /\ objects \in Forests /\ began = objects
    /\ plan = [at |-> "idle", form |-> AnyForm, b |-> AnyBinding, d |-> AnyBinding,
               src |-> <<>>, dst |-> <<>>, body |-> NoBody, pruned |-> NoFs, same |-> FALSE]
    /\ rebinds = 0

(* A schedule is validated when it is saved, a task then and whenever it   *)
(* is about to run.                                                        *)
Asks ==
    /\ At("idle")
    /\ \E f \in Forms :
          Goes([plan EXCEPT !.form = f, !.at = IF Valid(f) THEN "saved" ELSE "refused"])
    /\ UNCHANGED objects
Wakes ==
    /\ At("saved")
    /\ IF plan.form.entry = "task" /\ ~Valid(plan.form) THEN Refused ELSE To("start")

Rebinds ==
    /\ plan.at \in {"saved", "start", "running", "prune"} /\ rebinds < MaxRebinds
    /\ registry' \in Registries
    /\ rebinds' = rebinds + 1
    /\ UNCHANGED <<objects, began, plan>>

(* A file of sums is about the directory beside it that has its name less  *)
(* the extension, and the form or the extension names the hash.            *)
Bare(path) == SelectSeq(path, LAMBDA part : part # <<"">>)
Stemmed(path) == Bare(path) # <<>> /\ Last(Bare(path)) \in DOMAIN Stems
Stem(path) == Stems[Last(Bare(path))]
DirOfSums(path) == <<<<"">>>> \o Append(Front(Bare(path)), Stem(path).stem)
HashOf(r) == IF r.hash # "none" THEN r.hash ELSE Stem(r.sums).hash

(* The gates of the three starters.                                        *)
DirGates(r, b, d) ==
    /\ SameProxyGroup(b, d)
    /\ Writable(d)
    /\ r.sync => Deletable(d)
    /\ r.entry = "move" => Deletable(b)
    /\ Inside(b, r.source) /\ Inside(d, r.target)
    /\ r.backup # Absent => Inside(d, r.backup)
CheckGates(r, b, d) ==
    /\ SameProxyGroup(b, d)
    /\ r.kind = "sums" =>
          /\ Inside(d, r.sums) /\ Stemmed(r.sums) /\ Inside(d, DirOfSums(r.sums))
          /\ HashOf(r) # "none"
    /\ Inside(b, r.source) /\ Inside(d, r.target)
BisyncGates(r, b, d) ==
    /\ SameProxyGroup(b, d)
    /\ Deletable(b) /\ Deletable(d)
    /\ Inside(b, r.source) /\ Inside(d, r.target)
Gates(r, b, d) ==
    CASE r.kind = "dir" -> DirGates(r, b, d)
      [] r.kind \in {"check", "sums"} -> CheckGates(r, b, d)
      [] r.kind = "bisync" -> BisyncGates(r, b, d)

(* compose_fs: the root of a connection is in its fs.                      *)
Fs(c, b, rel) == [on |-> c, path |-> CanonicalRoot(b.root) \o rel]
Source ==
    IF plan.form.kind = "sums" THEN Fs(plan.form.to, plan.d, plan.src)
    ELSE Fs(plan.form.from, plan.b, plan.src)
Target == Fs(plan.form.to, plan.d, plan.dst)

(* build_rc_body.  That of a move is that of a copy.                       *)
NonBlank(r) == r.flags \ r.blank
DirKeys(r) ==
    (NonBlank(r) \cap (Common \cup Conditions)) \cup (r.flags \cap {"dry_run"})
CheckKeys(r) == IF r.kind = "sums" THEN {} ELSE r.flags \cap CheckFlags
BisyncKeys(r) == r.flags \cap BisyncFlags
Op(r) ==
    CASE r.kind = "dir" -> IF r.sync THEN "sync/sync" ELSE "sync/copy"
      [] r.kind \in {"check", "sums"} -> "operations/check"
      [] r.kind = "bisync" -> "sync/bisync"
Body(r, d, backup) ==
    [op |-> Op(r),
     keys |-> CASE r.kind = "dir" -> DirKeys(r)
                [] r.kind = "bisync" -> BisyncKeys(r)
                [] OTHER -> CheckKeys(r),
     maxDelete |-> IF r.kind = "dir" THEN r.maxDelete ELSE Unlimited,
     backup |-> IF backup = Outside THEN NoFs ELSE Fs(r.to, d, backup),
     hash |-> IF r.kind = "sums" THEN HashOf(r) ELSE "none"]

(* The directory that is made for the target beforehand has no files.  The *)
(* backup directory must not overlap the target.                           *)
(* Mistake: it may be below the target.                                    *)
StartsWith(overlap) ==
    /\ At("start")
    /\ LET Meets(p, q) == IF overlap THEN Overlap(p, q) ELSE p = q
           r == RequestOf(plan.form)
           b == registry[r.from]
           d == registry[r.to]
           dst == Gate(d, IF r.kind = "sums" THEN DirOfSums(r.sums) ELSE r.target)
           backup == IF r.kind = "dir" /\ r.backup # Absent THEN Gate(d, r.backup) ELSE Outside
       IN IF ~Gates(r, b, d) \/ (backup # Outside /\ Meets(backup, dst)) THEN Refused
          ELSE /\ plan' = [plan EXCEPT !.b = b, !.d = d, !.dst = dst,
                              !.src = IF r.kind = "sums" THEN Gate(d, r.sums)
                                      ELSE Gate(b, r.source),
                              !.body = Body(r, d, backup),
                              !.at = IF r.kind = "sums" THEN "probe" ELSE "running"]
               /\ began' = objects
               /\ UNCHANGED <<registry, objects, rebinds>>
StartsLoosely == StartsWith(FALSE)
Starts == StartsWith(TRUE)

PathsIn(trees, fs) == {p \in DOMAIN trees[fs.on] : IsPrefix(fs.path, p) /\ p # fs.path}
Below(fs, p) == SubSeq(p, Len(fs.path) + 1, Len(p))
Files(trees, fs) == [q \in {Below(fs, p) : p \in PathsIn(trees, fs)} |-> trees[fs.on][fs.path \o q]]
Over(f, g) == [x \in DOMAIN f \cup DOMAIN g |-> IF x \in DOMAIN f THEN f[x] ELSE g[x]]
Placed(trees, fs, files) ==
    [trees EXCEPT ![fs.on] =
        Over([p \in {fs.path \o q : q \in DOMAIN files} |-> files[Below(fs, p)]],
             Restrict(@, DOMAIN @ \ PathsIn(trees, fs)))]

(* The file of sums and its directory have to be there: rclone reports no  *)
(* differences of a file that is missing.                                  *)
SumsThere == Source.path \in DOMAIN objects[Source.on] /\ PathsIn(objects, Target) # {}
Probes ==
    /\ At("probe")
    /\ IF SumsThere THEN To("running") ELSE Refused

------------------------------------------------------------------------------
(* External: what rclone makes of a body.  A filter hides any of the files *)
(* on both sides, and a blank one all of them.                             *)
Has(key) == key \in plan.body.keys
Views(all) ==
    IF plan.body.keys \cap plan.form.blank # {} THEN {{}}
    ELSE IF plan.body.keys \cap (Patterns \cup Filters) # {} THEN SUBSET all ELSE {all}

Seems(keys, s, t) ==
    \/ s = t
    \/ {s, t} \subseteq Lookalikes /\ keys \cap {"checksum", "ignore_times", "afresh"} = {}
Travels(S, T, q) ==
    IF q \notin DOMAIN T THEN ~Has("existing")
    ELSE /\ ~Has("ignore_existing") /\ ~Has("immutable")
         /\ ~Seems(plan.body.keys, S[q], T[q])

(* What is replaced or deleted is kept below the backup directory, beside  *)
(* it if there is a suffix alone, and nowhere if there is neither.         *)
KeptAt(keys, q) == IF "suffix" \in keys THEN Append(Front(q), Append(Last(q), "~")) ELSE q
Kept(T, gone) ==
    [k \in {KeptAt(plan.body.keys, q) : q \in gone} |->
        T[CHOOSE q \in gone : KeptAt(plan.body.keys, q) = k]]
Outcome(S, T, arrived, left) ==
    LET old == Kept(T, (arrived \cap DOMAIN T) \cup left)
        new == Over([q \in arrived |-> S[q]], Restrict(T, DOMAIN T \ left))
        trees == Placed(objects, Target, new)
    IN IF plan.body.backup # NoFs
       THEN Placed(trees, plan.body.backup, Over(old, Files(trees, plan.body.backup)))
       ELSE IF Has("suffix") THEN Placed(objects, Target, Over(old, new)) ELSE trees

Together(fs, gs) == fs.on = gs.on /\ Overlap(fs.path, gs.path)
Agrees ==
    /\ plan.body.op # "sync/copy" => ~Together(Source, Target)
    /\ plan.body.backup # NoFs => ~Together(Source, plan.body.backup)

(* After the end of a job its callbacks: the source of a move is purged,   *)
(* the old backups of a schedule are pruned.                               *)
After == IF plan.form.entry = "move" THEN "purge" ELSE IF plan.form.retain THEN "prune" ELSE "done"
Finishes(ok) == Goes([plan EXCEPT !.at = IF ok THEN After ELSE "failed"])
Fails == Finishes(FALSE) /\ UNCHANGED objects

(* Files are copied and then deleted, if they are no more than max_delete; *)
(* an error may end it anywhere.                                           *)
Copies ==
    LET S == Files(objects, Source)
        T == Files(objects, Target)
    IN \E shown \in Views(DOMAIN S \cup DOMAIN T), old \in SUBSET (DOMAIN S \cap DOMAIN T) :
          LET due == {q \in shown \cap DOMAIN S : Travels(S, T, q)} \ old
              extra == IF plan.body.op = "sync/sync" THEN (shown \cap DOMAIN T) \ DOMAIN S ELSE {}
          IN /\ old # {} => Has("update")
             /\ \E arrived \in SUBSET due, left \in SUBSET extra :
                   /\ left # {} => arrived = due
                   /\ Cardinality(left) <= plan.body.maxDelete
                   /\ Finishes(arrived = due /\ left = extra)
                   /\ objects' = IF Has("dry_run") THEN objects ELSE Outcome(S, T, arrived, left)

(* Both sides become the same, path by path; of a resync none goes.        *)
Converges ==
    LET S == Files(objects, Source)
        T == Files(objects, Target)
    IN \E from, to \in SUBSET (DOMAIN S \cup DOMAIN T) :
          /\ from \subseteq DOMAIN S /\ to \subseteq DOMAIN T /\ from \cap to = {}
          /\ Has("resync") => from \cup to = DOMAIN S \cup DOMAIN T
          /\ LET both == Over([q \in from |-> S[q]], [q \in to |-> T[q]])
             IN /\ Finishes(TRUE)
                /\ objects' = IF Has("dry_run") THEN objects
                              ELSE Placed(Placed(objects, Source, both), Target, both)

SumsAgree(trees, T) ==
    Source.path \in DOMAIN trees[Source.on] =>
        LET text == trees[Source.on][Source.path]
        IN text \in DOMAIN SumTexts /\ SumTexts[text] = [hash |-> plan.body.hash, lists |-> T]
TreesAgree(S, T) ==
    /\ DOMAIN S \subseteq DOMAIN T
    /\ Has("oneWay") \/ DOMAIN T \subseteq DOMAIN S
    /\ \A q \in DOMAIN S \cap DOMAIN T :
          S[q] = T[q] \/ ({S[q], T[q]} \subseteq Lookalikes /\ ~Has("download"))
Compares ==
    LET T == Files(objects, Target)
    IN /\ Goes([plan EXCEPT !.at = "done",
                   !.same = IF plan.form.kind = "sums" THEN SumsAgree(objects, T)
                            ELSE TreesAgree(Files(objects, Source), T)])
       /\ UNCHANGED objects

Runs ==
    /\ At("running")
    /\ \/ Fails
       \/ Agrees /\ plan.body.op \in {"sync/sync", "sync/copy"} /\ Copies
       \/ Agrees /\ plan.body.op = "sync/bisync" /\ Converges
       \/ plan.body.op = "operations/check" /\ Compares

------------------------------------------------------------------------------
Without(trees, fs, gone) == [trees EXCEPT ![fs.on] = Restrict(@, DOMAIN @ \ gone)]

(* It is tried once, and may fail.                                         *)
Purges ==
    /\ At("purge")
    /\ Goes([plan EXCEPT !.at = "done"])
    /\ objects' \in {objects, Without(objects, Source, PathsIn(objects, Source))}

(* prune_retention: by what the connection is bound to then.               *)
Prunes ==
    /\ At("prune")
    /\ LET d == registry[plan.form.to]
           fs == Fs(plan.form.to, d, Gate(d, plan.form.backup))
       IN IF ~Deletable(d) \/ ~Inside(d, plan.form.backup) THEN To("done")
          ELSE /\ Goes([plan EXCEPT !.at = "done", !.pruned = fs])
               /\ \E gone \in SUBSET PathsIn(objects, fs) : objects' = Without(objects, fs, gone)

PlanNext == Asks \/ Wakes \/ Rebinds \/ Starts \/ Probes \/ Runs \/ Purges \/ Prunes

PlanSpec == PlanInit /\ [][PlanNext]_planVars

------------------------------------------------------------------------------
(* Types of what the code keeps.                                           *)
PlanTypeOK ==
    /\ registry \in Registries
    /\ rebinds \in 0..MaxRebinds
    /\ plan.form \in Forms
    /\ plan.at \in {"idle", "saved", "refused", "start", "probe", "running", "failed", "purge",
                    "prune", "done"}
    /\ plan.body.op \in {"none", "sync/sync", "sync/copy", "sync/bisync", "operations/check"}
    /\ plan.body.keys \subseteq
          Common \cup Conditions \cup {"dry_run", "oneWay", "download", "resync"}

------------------------------------------------------------------------------
Form == plan.form
Dry == "dry_run" \in Form.flags /\ Form.entry \notin {"copy", "move"}
Spared == Form.flags \cap {"spare", "ignore_existing", "immutable"} # {}
FormKinds == {Form.kind, IF TaskMirrors(Form) THEN "mirror" ELSE Form.entry}
Sparse == (Form.flags \ Form.blank) \cap (Patterns \cup Filters \cup {"shallow", "existing"}) # {}
Was == Files(began, Target)
Is == Files(objects, Target)

(* Nothing but what the form names is changed, and nothing by a dry run or *)
(* where the connection does not let it.  A prune goes by the files' times *)
(* alone, of a dry run too.                                                *)
Places ==
    ({Target, plan.body.backup, plan.pruned}
        \cup (IF FormKinds \cap {"move", "bisync"} # {} THEN {Source} ELSE {})) \ {NoFs}
StaysPut ==
    /\ \A c \in DOMAIN objects : \A p \in DOMAIN objects[c] \cup DOMAIN began[c] :
          \/ p \in DOMAIN objects[c] \cap DOMAIN began[c] /\ objects[c][p] = began[c][p]
          \/ \E fs \in Places : fs.on = c /\ IsPrefix(fs.path, p)
    /\ objects # began => Writable(plan.d) /\ (~Dry \/ plan.pruned # NoFs)
    /\ plan.pruned # NoFs => Deletable(registry[Form.to])

(* Files go from the target when the form mirrors, no more than it says,   *)
(* and those it spares are as they were; unless the backups were pruned    *)
(* where the target is, as the connection was bound to another root by     *)
(* then, or the pair is one of a bisync.                                   *)
PrunedThere == plan.pruned # NoFs /\ Together(plan.pruned, Target)
LosesLittle ==
    ~PrunedThere =>
        LET gone == DOMAIN Was \ DOMAIN Is
        IN /\ gone # {} => FormKinds \cap {"mirror", "bisync"} # {} /\ plan.d.allowDelete
           /\ Form.kind = "dir" => Cardinality(gone) <= Form.maxDelete
           /\ Form.kind = "dir" /\ Spared => \A q \in DOMAIN Was \cap DOMAIN Is : Was[q] = Is[q]

(* What a form keeps of the target is there, replaced or not.              *)
KeepsOld ==
    Form.backup # Absent /\ plan.body.backup # NoFs /\ plan.pruned = NoFs =>
        LET kept == Files(objects, plan.body.backup)
        IN \A q \in DOMAIN Was :
              LET k == KeptAt(Form.flags \ Form.blank, q)
              IN \/ q \in DOMAIN Is /\ Is[q] = Was[q]
                 \/ k \in DOMAIN kept /\ kept[k] = Was[q]

(* A job that is done has copied all that it was to copy, and a mirror has *)
(* no more.                                                                *)
CopiesAll ==
    Form.kind = "dir" /\ plan.at \in {"purge", "prune", "done"} /\ ~Dry /\ ~Sparse
    /\ ~PrunedThere =>
        LET from == Files(began, Source)
        IN /\ \A q \in DOMAIN from :
                 /\ q \in DOMAIN Is
                 /\ \/ Seems(Form.flags, from[q], Is[q])
                    \/ q \in DOMAIN Was /\ (Spared \/ "update" \in Form.flags)
           /\ "mirror" \in FormKinds /\ "suffix" \notin Form.flags => DOMAIN Is = DOMAIN from

(* What was found the same is the same, by sums that are there.            *)
ComparesTrue ==
    plan.same =>
        IF Form.kind = "sums"
        THEN Source.path \in DOMAIN objects[Source.on] /\ SumsAgree(objects, Is)
        ELSE TreesAgree(Files(objects, Source), Is)

(* A job on directories does what its form says and nothing that the       *)
(* bindings it was started with forbid, from the form to rclone, with      *)
(* connections that are bound anew at any time.  A move onto itself is not *)
(* meant (it purges what it has copied).                                   *)
Ran == plan.at \in {"running", "failed", "purge", "prune", "done"}
PlansAreKept ==
    Ran /\ ~(Form.entry = "move" /\ Together(Source, Target)) =>
        StaysPut /\ LosesLittle /\ KeepsOld /\ CopiesAll /\ ComparesTrue
=============================================================================
