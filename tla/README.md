# Files Studio: verification development

TLA+ models, TLC runs and TLAPS proofs of the sidecar of the Files Studio plugin
(`src/backend`, Rust). The sidecar serves a file workbench over an rclone
daemon: it lists, transfers, synchronises, mounts, edits and schedules. Source
paths below are relative to `src/backend/src/` unless they name another
directory.

## 1. Inventory

One process. The plugin SDK (`src/shared/sdk/rust`) reads requests and binary
frames from the host on stdin and hands both to a pool of four worker threads
that share one queue; handlers of `main.rs` therefore interleave between any two
critical sections. Background work runs on a tokio runtime (pumps, job pollers,
watchers) or on threads of its own (keepalive, scheduler). State is in
`std::sync::Mutex` maps that no handler holds across an await, and in JSON files
(`transfers.json`, `schedules.json`, `runs.json`) rewritten by rename.

| Component | State | Operations | What makes it correct |
|---|---|---|---|
| Transfer job mirror and history (`main.rs`, `store.rs`, `transfers.rs`) | `jobs`, `transfers.json` | settle, mark running, clear, delete, hydrate | a job settles once; one true row per job |
| Upload byte path (`main.rs`, `rclone/bytes_channel.rs`) | `uploads`, staging file | start, frame, finish, cancel | one owner settles; completed means stored whole |
| Download byte path (same files) | `downloads`, cancel flag, `pump_done`, `.part` | start, archive, pump, finish, cancel | completed means on disk whole; nothing left behind |
| Scheduler (`scheduler/mod.rs`) | `tasks`, `running`, gate, `schedules.json`, `runs.json` | create, update, delete, run now, cancel, tick, run, hydrate | single flight, one run per slot, records end truthfully |
| Cron (`scheduler/cron.rs`) | none | parse, next fire | next fire is the least matching minute |
| rcd groups (`rclone/mod.rs`, `rclone/proc.rs`, `rclone/tunnel.rs`) | rcd processes, registrations, work counts, tunnels | client, respawn and replay, keepalive, reap, shut down | no rcd is killed under work; a client sees its remote registered |
| Directory jobs (`rclone/sync.rs`, `main.rs`) | sync records, remembered cancels | start, poll, stop | a canceled job does not end as failed; rclone is told what the form says |
| Streamed listings (`rclone/list_stream.rs`, `rclone/list_decision.rs`) | slots, sessions, decision cache | acquire, register, cancel, kill, batch, record, invalidate | slots are returned; one end frame; no stale hint |
| Task provider (`task_provider.rs`) | run registry | execute, watch, cancel, status | a cancel is never lost |
| Mounts (`mount/`, `rclone/mount.rs`) | mount table, in-flight claims, gateways | start, unmount, disconnect | one gateway per surface |
| Remote edit (`remote_edit.rs`, `main.rs`) | sessions | open, watch, decide, close | a saved change reaches the remote once it is stable |
| MCP (`mcp/`) | settings, intents, cursors, confirmations | confirm, intent, cursor | a token is good once, for its arguments, in time |
| File operations (`rclone/ops.rs`, `main.rs`) | the objects of the remote | write, make, copy, move, rename, delete, purge; list, page, search, preview, range | a write puts its own bytes at its target, under its conditions; a change stays within its binding; what is read in pieces is whole |
| Archives (`rclone/archive.rs`) | none | compress, extract, zip, tar, gzip | what is extracted is one archive, whole; a stream is decoded as its format has it |
| Filesystem provider facade (`fs_facade.rs`) | download sessions | write, rename, delete, read, list | a target that may not be replaced is not |
| Path policy (`policy.rs`) | none | sanitize, resolve, check read, write, delete | a checked path stays under its root |
| Connection registry (`rclone/registry.rs`, `model.rs`, `rclone/tunnel.rs`) | registered connections, sections of the rcds, forwarders | test, connect, disconnect, probe | a connection leads where its form says and tells rclone what was filled in; a test tells the truth; nothing is left behind |
| Local downloads, rc client, wire model, editors | none, or one table | single calls | data conversions |
| Workbench (`src/frontend`) | view state | - | - |

Interactions. A transfer takes its rc client from the rcd group of its
connection and holds a work count of it. Downloads and uploads share the job
mirror and the history with clear, delete and the panel. The scheduler starts
directory jobs and polls the same mirror for their end; cancel of a scheduled
run is routed through `files/transfer/cancel`. A disconnect reaches mounts,
listings, tunnels and groups.

Hard behaviours, by line and with the properties that watch them, are the
`hazards` of `PROJECT.json`: settling races, state written after the lock it was
read under, finish waiting on frames of other threads, reordered frames, a pump
that outlives its slot, edits under a running schedule, restarts, an rcd that is
replaced or torn down under its callers, job records that expire, answers that
arrive after what they announce, a watched copy that others write, claims that
must be given back, objects that pass by a shared name, clocks that are changed.

## 2. Modules

| Module | Models |
|---|---|
| `JobLifecycle` | the abstract specification: a job is queued, runs, ends once and leaves at most one true row |
| `TransferJobs` | the job mirror, the history and the worker threads, shared by transfers and directory jobs |
| `UploadChannel` | the upload byte path; extends `TransferJobs`, with restarts |
| `DownloadPump` | the download byte path; extends `TransferJobs`, implements `JobLifecycle` |
| `SyncJobs` | directory jobs of all four kinds, their poller, stops, the rcd that runs them; extends `TransferJobs`, implements `JobLifecycle` |
| `Lists` | the few operators on sequences and functions the parts of `MCFiles` use |
| `JobPlans` | what a job on directories is asked to do, the gates of its starter and the body rclone is told, from every form there is; extends `PathPolicy` |
| `TaskRuns` | the task provider's executions and run registry; extends `SyncJobs` |
| `Scheduler` | tasks, ticks, runs, records, files and restarts of the scheduler |
| `Cron` | cron expressions and the walk to the next fire time |
| `RcdGroups` | the rcd processes: respawn, replay, connect, disconnect, work counts, keepalive, forwarders |
| `Mounts` | mounts, claims, gateways, unmount and disconnect |
| `ListDecision` | operators of the listing decision cache |
| `ListStream` | streamed listings from the pane to the process that lists; extends `ListDecision` |
| `RemoteEdit` | sessions of remote editing: open, watcher, sync-back, editor and other clients |
| `FileCalls` | single calls on files and the staging object they share |
| `ConfirmTokens` | the MCP tools that write in two phases, their tokens and the settings behind them |
| `ToolSessions` | cursors over digests, intents and the workbench's reports, in tables of limited size |
| `StdioServer` | the sidecar as an MCP server on stdin, with calls forwarded to the DBX app |
| `MCServer` | `ConfirmTokens`, `ToolSessions` and `StdioServer` side by side |
| `PathPolicy` | operators: how a path that was asked becomes one below the root |
| `FileRequests` | the requests that change files, from their gates to the listings they drop; extends `PathPolicy` |
| `FileReads` | pages, capped listings, searches, ranges and previews |
| `Archives` | compress and extract of zip and tar, while files and archive are replaced |
| `Gzip` | the hand-written DEFLATE decoder and the storing writer |
| `Remotes` | one connection of the host: its form, the options and the root it becomes, test, connect and disconnect call by call |
| `MCFiles` | `FileRequests`, `FileReads`, `Archives`, `Gzip`, `JobPlans` and `Remotes` side by side |
| `MCUploadChannel`, `MCRcdGroups`, `MCCron`, `MCFileCalls` | sizes, start states, calendar and archive of the instances |
| `MCWorkbench` | `UploadChannel`, `ListStream` and `RemoteEdit` side by side |
| `MCJobs` | `TaskRuns` and `MCFiles` side by side |
| `MCEngine` | `RcdGroups`, `Mounts`, `FileCalls`, `Cron` and `MCServer` side by side |
| `Picks` | what is picked from a sequence, as a recursive function |
| `PicksProofs` | lemmas on recursive functions, sequences and what is picked from them; the proofs below cite them |
| `WorkbenchProofs`, `DownloadPumpProofs`, `JobsProofs`, `FilesProofs`, `SchedulerProofs`, `EngineProofs`, `ServerProofs` | theorems, lemmas and proofs: of `MCWorkbench`, `DownloadPump`, `MCJobs` (with `FilesProofs` of its requests and readings), `Scheduler`, `MCEngine` (with `ServerProofs` of `MCServer`) |

A definition whose comment begins with "Mistake" is not part of a specification:
it is a wrong variant of the definition beside it, kept to see that a property
tells the two apart (`mutants` of `PROJECT.json`).

**TransferJobs.** `status[t]` is the entry of `t` in `RcloneEngine.jobs`, with
"new" before its start and "gone" after its removal. `history[t]` holds the rows
of `t`. `call[w]` is where worker `w` is in its handler: each label lies between
two critical sections of the Rust code, each action is one critical section (or
one await) with all its effects. `Settle` and `Record` are the two halves of
`rclone_complete_job`: the job map first, then the row under the history lock.

**UploadChannel.** `slot[t]` is membership in `uploads`: who removes it owns the
rest. `received` is the length of the staging file in frames, `sent` the frames
workers have taken. `FrameMarks` is a step of its own because
`append_rclone_upload_inner` sets the status after it released the uploads lock.
The wait of finish ends by `FinishTakes` (all frames in), `FinishStalls` (ten
seconds without a frame) or `FinishNotFound`. `UploadPlaced` is `uploadfile` plus
`movefile`; the answer may be lost after it (`UploadFails` from "placed").

**DownloadPump.** `pump[t]` is where the pump task of `t` is, with the verdict it
brings and whether its guards drop the slot. `flag` is the shared cancel flag,
`part` the staging file or staged archive, `final` the promoted file. `size` is
what was announced at start; a source can have less by the time it is read, or more
(`Delivers`, `MaxGrowth`), as `download_pump` reads to the end of the body and the
size only feeds a throttle. `PumpChunk` appends through the handle the pump has
opened, so once finish has given up its ten seconds and renamed the `.part`, to the
promoted file; `held` (a history variable) says that the rename came under such a
pump. The three
kinds take different ways: a local task is handed over to finish under the
downloads lock, the others are settled by the pump. The archive pump is the
same automaton with the differences its conjuncts name. The cancel flag and
`pump_done` are read and written in program order; the weaker order of two
acquire/release atomics is not modelled.

**Scheduler.** `desk[a]` is what a worker, or the scheduler thread, still has to
do in its handler: copy the table, write it, write a record, spawn, release.
`run[r]` is the future of a run; all futures and the tick loop share one
current-thread runtime, so a run moves only when the loop is at an await
(`Alone`). Time is the number of the current cron slot. A pair stands for kind,
connections and paths; `listed` is what rclone remembers of resynced pairs.
`PassGate` does not hold a permit: the code drops it in the condition.

**SyncJobs.** A job lives in three places: the mirror (`status`), the table of
sync records (`record`) and rclone (`remote`). The starters are the steps of
`rclone_start_dir_job` and its twins: client, directory checks, submit, handle;
the poller (`poll`) reads stats, status and the stop mark at different times and
settles the mirror; a move purges its source after its verdict. A stop marks the
task and tells rclone, and settles the mirror itself. `Crashes` replaces the
rcd: clients made for the old one reach nothing, and a status call that is
answered by the new rcd does not know the job. `RemoteExpires` is rclone's own
removal of ended jobs.

**TaskRuns.** `desk[w]` is the execution a worker is in, from the entry in the
run registry to the answer; `active` is the registry. A stop flags the run, and
cancels the job only if one is attached: the gap between the two is what the
watch of the execution has to cover. The single file copy of an execution is
`Copies` and `CopyLands`, without a job.

**Cron.** Fields are sets of values; `Field` is what a text parses to. The walk
is taken apart into rounds (`SkipsMonth`, `SkipsDay`, a search in the day), with
the cursor in `timer`. `zone` maps instants of real time to wall-clock minutes,
so a gap is a minute no instant shows and an overlap one that two show. The
calendar is a constant: nothing depends on the lengths of months.

**RcdGroups.** `op[a]` is where thread `a` is, in a handler or in the keepalive
sweep; `then` and `else` are where `client_for` returns to. The supervisor lock
covers one action, from the look at the child to the health check of its
successor; the replay comes after it. `config[g]` are the remotes the running
rcd knows. `owed` is a history variable: what the replay of this rcd found in
the registry less what has been deleted since.

**Mounts.** `start[r]` and `stop[u]` are the calls of `files/mount`,
`files/unmount` and `connection/disconnect`; each await lies between two
actions. A kernel mount belongs to the rcd and goes with it, a gateway
(`listening`) to the sidecar.

**ListStream.** `session` is the listing task, `wire` the frames on their way,
`pane` and `held` the workbench (`App.vue`, `lib/listStream.ts`). Frames of a
session keep their order, but the acknowledgement may come after them. The
pane's own timers may fire at any time (`AcksLate`, `Abandons`).

**RemoteEdit.** A stamp stands for size and modification time of the local copy,
a text for its content, `Torn` for a copy that is half written. `task` is the
open task that becomes the watcher, `refresh` the tasks of later opens. `known`
and `waived` are history variables: the texts that are on the remote or were
given up by the user since the last save. The look for a session and its
insertion are one step (`main.rs:2728-2770` takes the lock twice).

**FileCalls.** One directory of a remote, whose objects hold the bytes of one
caller. Each rc call is an action, and it may fail before or after its effect.
`stood` is a history variable: the object at the target that nobody has touched
since the call was asked. The double stat of the facade's delete is one probe.

**PathPolicy, FileRequests.** A path as it is spelled is a sequence of parts, and
a part a sequence of the words between its backslashes, so that `sanitize` and
`resolve` keep their order: control characters, the backslash probe, the walk,
then the root. `request` is one request with the bindings it found, from the
gates over the stat to the call and the drop of remembered listings; meanwhile
connections are bound anew, listings remembered, files changed by others.
`changes` is what the request did, `stale` the listings it outdated and that are
still remembered. The audit row is left out: its failure is swallowed.

**FileReads.** `reading` is one answer in the making: each page, stat or range is
an rc call of its own. `disturbed` says that something has changed between two of
them; then nothing is promised.

**Archives.** An archive is a sequence of cells: the blocks of a tar, or the
records and bytes of a zip. `packer` and `reader` go through their calls one by
one, and between any two of them others edit the files and replace the archive.
A zip record carries the checksum of its bytes, taken to be the bytes. Archives of
other tools (long names, extended headers, a comment, a path that leads out) are
constants.

**Gzip.** One action reads one bit, as `Huffman::decode` does; the alphabets,
the longest code and the sizes are constants, the bits of a foreign stream are
open. `DecodesTrue` compares with the codes of RFC 1951, written down beside the
decoder (`FirstCode`, `CodeOf`). `UnpacksTrue` is both properties of unpacking:
`ExtractsTrue` of archives and `DecodesTrue` of streams.

**JobPlans.** `plan` is one job, from its form (the panel's, MCP's, a schedule's, a
task's, or a copy or move of a directory) over its gates and paths to the body of
the rc call, and from there over what rclone makes of the body, which goes by its
keys alone, to the purge of a move and the prune of a schedule. A flag stands for
a field of the form, `blank` for those that are filled in with nothing.
`registry` are the bindings, which change at any time; `began` is a history
variable, the files when the job was started.

**Remotes.** A form is a record: the protocol, which fields are filled, the JSON,
the endpoint in its parts, the root, the proxy and the tunnel in both of the
spellings the parser takes. The value of a field is its name, and `options` are pairs
of what is told and the option it is told as, so a field under a wrong option, told
twice or not at all can be seen; a value of the code's own (a provider, a region)
stands for itself.
`FamilyOptions` has the options of each family of protocols (of the generic ones
those that differ in shape), `ComposedRoot` and `BindingRoot` the fs of a test and
of a registered connection. `calls[t]` is what a thread does: the forwarder, the
section in the rcd of the group, the probe of an FTP server, the entry. Each rc
call may fail after it did its work. `sections` outlive the entry, `forwards` are
the two keys of the tunnel manager. What a form means is written down apart from
the code, from the fields `src/manifest.json` shows of a protocol (`Shown`, `About`,
`Address`); `Unmeant` are the forms whose meaning the code drops (section 6), and
`spoiled` says that a connect failed under an entry or that two calls met.

**ConfirmTokens.** `ask[c]` is where the call of a task is. A preview reads the
settings, then the clock, and then enters a token under the lock; a confirmation
takes the token out under the lock and looks at its time and arguments after it.
`issued` and `written` are history variables. A settings update works on a copy
that it saves and then puts in the place of the settings, without a lock over
the three.

**ToolSessions.** `cursors` and `intents` are the two `LruTable`s, least recently
touched first. A digest is a listing of entries that match, do not match or lie
too deep; a row is the place of its entry. `served`, `recency` and `claimed` are
history variables: the rows a cursor has served, the order in which intents were
touched, the reports that were accepted.

**StdioServer.** `line[l]` is the task of a line of stdin; a permit is held from
`Acquires` to `Writes`. The DBX app is the environment: it starts, publishes its
port, serves, refuses and dies, and the port file outlives it. An answer that
does not come is an error of the call, also when the app has carried it out.

## 3. Runs

| Run | Module | Shows |
|---|---|---|
| `upload` | `MCWorkbench` | uploads: types, one owner, one row, the outcome that is shown is true, every handler returns; listings: what a pane takes for whole is whole, remembered sizes were delivered, every pane settles; remote edits: a copy that counts as synced is synced, a save reaches the remote |
| `download` | `DownloadPump` | types, completed is on disk whole, although sources shrink and grow, no residue; every job settles; the path implements `JobLifecycle` |
| `jobs` | `MCJobs` | directory jobs: types, mirror and answers say only what rclone did, no ghost runs, jobs settle and a stopped run ends (`JobsEnd`), `JobLifecycle` is implemented; files: a request changes what its binding allows and leaves no stale listing, what is read in pieces is whole, what is unpacked is what was packed; a job on directories does what its form says (`PlansAreKept`), and a connection is what its form says (`RemotesAreMeant`) |
| `scheduler` | `Scheduler` | types, single flight, once per slot, records are true (running is live, success is real, a cancel finds its job); every run ends |
| `engine` | `MCEngine` | groups: counts, forwarders and replays are right, an rcd with a connection comes back; mounts: gateways and claims have owners; files: writes keep their conditions; clock: the next fire time is the least; MCP: a token confirms one write, pages are whole and reports reach their callers (`SessionsAreTrue`), a line is carried out once |
| `upload_settled_for_good` | `MCUploadChannel` | violated: a late frame sets a settled job running again (`main.rs:3464`) |
| `upload_finish_lands` | `MCUploadChannel` | violated: finish returns without settling when no rc client is to be had (`main.rs:3123`) |
| `upload_frames_in_order` | `MCUploadChannel` | violated: worker threads append frames out of order, although `rclone/bytes_channel.rs:116` relies on their order |
| `edit_only_saves` | `RemoteEdit` | violated: the watcher takes the half-written copy of a refresh for a save and uploads it (`main.rs:5200`) |
| `file_writes_own` | `MCFileCalls` | violated: two writes in one directory swap their bytes, as `write_bytes` stages every write as `<parent>/payload` (`rclone/ops.rs:870`) |
| `scheduler_global_cap` | `Scheduler` | violated: the permit of the gate is dropped at once (`scheduler/mod.rs:583`) |
| `scheduler_stamp_is_of_pair` | `Scheduler` | violated: a resync of the old pair stamps the edited task (`scheduler/mod.rs:678`) |

**Parts of a run.** Components that share no state are checked in one run: the
initial state chooses the `part` that moves, and the others rest. The state
spaces then add up instead of multiplying, each part has all of its behaviours,
and a property of a part that rests holds of its initial state. At rest nothing
that is fair is enabled; only the keepalive thread would be, and `KeeperOn`
confines its fairness to its own part. Where components do share state they are
composed for real: transfers and directory jobs extend one job mirror,
executions extend directory jobs.

**Bounds.** *Uploads*: two tasks, one of two frames (the least with an order and
a gap) and one empty (finish without frames, the mirror shared), two workers
(every race above is between two handlers; a third only adds another finish or
cancel, which the proofs cover). *Downloads*: one task, since pumps of two tasks
share only the mirror, three workers (finish, cancel and a second cancel, or
clear, against the pump), sources of zero and one chunk that, when they are read, end
short or have one chunk more (the least that makes a promoted file longer than
announced); zero is asked of local downloads only, as an archive is never empty and the
size of a channel is only shown. *Directory jobs and
executions*: one job, of the kinds `move` (a directory job, with a purge after its
verdict) and `bisync` (no directory is made, an error answer ends it at once; a
`check` differs by neither), two workers, one run id; `MaxFaults` is one crash or
failed call, `MaxErrors` the failed polls in a row that end a job, two instead of
three. *Scheduler*:
one task, one pair, one worker beside the loop, two runs (a second claim against
a live one, and a run after an end), two slots (due, then next); `MaxRun`,
`MaxClock` bound run ids and slots; `MaxConcurrent` is the cap of the gate, one
in its run, where two tasks with a run each suffice. *Listings*: two requests on
one connection with one slot each (`Busy` is met), directories of no and of two
entries in frames of up to two (`Sizes`, `BatchMax`), one remembered directory
(`Capacity`, eviction is met), a holdback of three frames. *Edits*: one session
(two were checked too, and add nothing: 286,018 states), one later open, `MaxStamps` writes of the copy (three: pull, save, save again;
four where a refresh is torn), `EditFaults` one failure. *Groups*: the direct
and one proxied group, one tunneled connection, two workers and the keepalive
thread, `MaxRequests` two handlers and `MaxFaults` one fault, from nothing and
from a connected state with a live or a crashed rcd, from which two handlers are
enough to race a disconnect with a reconnect. *Mounts*: two starts and one stop
on one surface, `MountFaults` one. *Files*: a file and the staging name, two
callers, `MaxCalls` two and `CallFaults` one. *Clock*: two months of three days,
weeks of two days, days of two hours of two minutes, `LastInstant` minutes of
real time, zones that are steady, put forward (twice, at different times) and
put back, expressions of every form of field, and some that do not parse or
never fire; `MaxDaySteps` ends the walk as in the code.
*Tokens*: two tasks, two argument values, a table of one entry (eviction is met),
`MaxTokens` two, `MaxAsks` three calls, one restart, one tick of the clock, time
limits of one and two ticks. *Cursors and intents*: two tasks, `MaxWork` three
calls, listings of three entries of which the budget admits two, pages of one
row, limits that are retuned between one and two sessions, tables of two intents,
`MaxReports` one, `MaxHours` one. *Lines*: two lines, two permits (one with the
other's task waiting is a behaviour of both), `MaxApps` one start of the app,
with and without a stale port file. *Requests*: two connections, four bindings (a
root over buckets; a locked root that is read-only, that lets nothing be deleted,
that lets both), a file in a directory, six spellings (plain, with "..", below the
root's own name, the root, something missing, one that leads out), `Strangers` and
`RequestFaults` one each. *Reads*: directories of up to five entries, unordered,
with an entry of their own and one without a size; files of up to four bytes; all
`Widths` around those; limits of three and four, so that each is met from both
sides; three attempts of a stat, `ReadFaults` two. *Archives*: two files of up to
three bytes in blocks of two, `Window` of three cells, so that the directory of a
zip lies in it or not, `MaxBytes`, `MaxCells` and `MaxEntries` that are met,
`MaxEdits` one change by others. *Streams*: two literals, two distances, codes of
up to two bits, runs of three, chunks of two bytes, `MaxRead` six bits of a
foreign stream and all of a wrapped one; `MaxBefore` and `Guard` bound the output.
*Plans*: two connections over one root or two, three bindings, a handful of files
of which two look alike, a form of every kind and entry and of every flag that
tells two jobs apart, `MaxRebinds` one. *Remotes*: two threads (a test beside
a connect, two tests that share a forwarder, a disconnect beside both); an offer (`Offers`) is the forms one
behaviour may send and the calls it may make: some form of each family, with a
tunnel, a proxy, layers of the host, a JSON and roots of both spellings, and two
forms of one connection where a reconnect changes the proxy or the tunnel. An offer has two calls, and three for a
WebDAV form by a proxy (two tests beside a connect, a reconnect before a disconnect); a
change of the proxy takes two, a connect and another. Two worlds (`Worlds`), one that has
the roots and lets buckets be listed, one that has none and answers FTP listings rclone
cannot read; `served` is the name of one, as a world in every state costs TLC a third
of the time. `MaxTroubles` one failed call. The run `jobs` has 568,326 states.

**Fairness.** A worker inside a handler goes on (`WF` of its next step): threads
are preempted, not stopped, and every await has a time limit or a peer that
answers. The runtime polls a pump, whose reads have an idle limit, and the
pollers of jobs, whose calls have one. The scheduler thread goes on while its
loop or a future has a step, the keepalive thread sweeps for ever. The tasks of
a listing and the bridge to the workbench go on; no timer of the pane is counted
on, and neither is the day-long limit of an execution. The watcher of an edit
ticks, and transfers end one way or the other. `MCJobsFairness` has the
fairness of `TaskRuns` with the guard that jobs are what moves, which changes nothing
where they do; `JobsEnd` is one formula for both that a job settles and that a stopped
run ends. Nothing obliges the client to
call, a job in rclone to end, an editor to save, time to pass, anything to fail
or the sidecar to die. Deadlock is not checked: the sidecar rests when no
request comes.

**Disagreements without a run.** More statements of the repository do not
hold, and are named here because a run for each would say little more.
`scheduler/cron.rs:72` and `scheduler/mod.rs:280-281` say that the next fire time
is strictly after the search; in the second pass of an hour the clock shows twice,
`.earliest()` (`scheduler/cron.rs:99`) gives an instant of the first pass
(`StrictlyLater` of `Cron` states it; the scheduler's model takes slots that
advance). A disconnect skips the unmount of the kernel mounts of its connection
(`mount/mod.rs:794`), as it takes the rcd for gone, also if another connection
keeps the rcd alive. `a/1` in a cron field is the value `a` alone, although
`scheduler/cron.rs:171` has `a..=max`. A confirmation token is bound to the
arguments and not to the tool (`mcp/mod.rs:326-344`): one of `files_delete`
confirms `files_purge` of the same path, one of `schedule_run_now` the
`schedule_delete` of the same task. `mcp/state.rs:588-594` says that the newest
token survives the cap; after `confirmTtlSecs` was lowered it is the one that
expires first and goes. `mcp/stdio.rs:394-397` says that slow calls cannot hold
up a ping; every request takes a permit before it is dispatched, so sixteen slow
calls do. A path under a locked root whose relative part begins with the root's
own spelling resolves to another file (`policy.rs:127-133`). `deflate_stored_blocks`
of no bytes gives four bytes, which its comment and a test call a legal empty
block (`archive.rs:1018-1022`, `1558-1560`): a stored block starts with
five. `rclone/archive.rs` lets a compress end just under its cap whose archive an
extract then refuses by its own.

## 4. Proofs

For every set of tasks, workers, connections and groups and every size, number
of runs, slots and faults:

| Theorem | Says |
|---|---|
| `UploadTypes`, `UploadOneOwner`, `UploadOneRow` | `TypeOK`, `OneOwner`, `OneRow` of uploads |
| `UploadOutcomeIsTrue` | what panel and history say of an upload is true of the target |
| `DownloadTypes`, `DownloadOneRow` | `TypeOK`, `OneRow` of downloads |
| `DownloadCompletedIsOnDisk` | a local download shown as completed is on disk with all its pump pulled, of the size announced unless it was promoted under a pump that still wrote; then it can be longer, never shorter |
| `DownloadKeepsLifecycle` | downloads implement `JobLifecycle` |
| `DownloadNoResidue` | no staging file and no staged archive without somebody about to remove it |
| `ListingsTrue` | a pane that takes a listing for whole has all of it, and remembered counts were delivered |
| `EditsAreSynced` | a copy that counts as synced has a text the remote has had since the last save |
| `WorkbenchIsSafe` | all invariants of the `upload` run at once |
| `SchedulerTypes`, `SchedulerSingleFlight`, `SchedulerOncePerSlot` | `TypeOK`; one live run per task and markers that match; one run per slot |
| `SchedulerRunningIsLive`, `SchedulerSuccessIsReal` | the run history is true of runs and jobs |
| `SchedulerCancelFindsJob` | a cancel finds the job of the run that is watching |
| `SchedulerRecordsAreTrue` | the three together, as the run checks them |
| `RunsTypes`, `RunsNoGhost` | `RunsTypeOK` of jobs and executions; the run registry holds the live runs and no other |
| `RunsMirrorIsTrue` | a directory job shown as completed is done, and the source of a move goes only then |
| `RunsAnswersAreTrue` | what an execution answers is true of its job |
| `RunsOutcomesAreTrue` | both together, as the run checks them |
| `RunsKeepLifecycle` | directory jobs, with executions among their callers, implement `JobLifecycle` |
| `RequestsAreAllowed` | a request changes what its binding allows, below the root, and leaves no stale listing |
| `ReadingsAreWhole` | pages and windows are all of what holds still; what is cut says so |
| `JobsKeepPlans` | a job on directories does what its form says and its bindings let it, and nothing else |
| `ConnectionsAreTidy` | a registered connection has its section in the rcd of its proxy; nothing is left behind in an rcd (`RegisteredIsThere`, `NothingLeft` of `RemotesAreMeant`) |
| `ConnectionsAreMeant` | a registered connection tells rclone what its form shows and nothing else, each field as the option it is about, leads where the form says and has its root (`RegisteredIsMeant` of `RemotesAreMeant`) |
| `JobsTypes` | `MCJobsTypeOK`: types of jobs, executions, requests, readings, archives, decoders, plans and connections |
| `JobsAreSafe` | all of these beside each other: types, invariants, lifecycle |
| `CronTypes`, `CronNextIsLeast` | the walk stays on the calendar; no minute that fires is passed over, for any calendar, zone and expression |
| `GroupsTypes`, `GroupsWorkCounts` | types of the rcd groups; a counter is the number of unsettled guards |
| `GroupsForwarderOwned`, `GroupsReplayComplete` | no forwarder outlives its connection; a replayed rcd has what its replay found |
| `MountsAreOwned` | gateways and claims have owners |
| `CallsAreGuarded` | no call replaces an object it promised to leave alone |
| `TokensConfirm` | a confirmed write has a token of its own, for its arguments and in time; the table keeps to its cap |
| `StdioOnce` | a line is carried out and answered once at most |
| `CursorsServe`, `IntentsReach` | pages of a cursor are its rows, all and in order; a report reaches whoever asks in time |
| `EngineIsSafe` | all invariants of the `engine` run at once |

Assumptions: `NoTask` is no task, sizes and the growth of a source are natural numbers; there is a task and
a pair, bisync pairs are pairs, the loop is no worker, and the bounds are natural
numbers. For directory jobs the set of tasks is finite (rclone's job ids are drawn
from as many numbers), the kinds are known ones, and it takes at least one failed poll to end
a job; `NoRun` is no run id. Days have minutes and zones show minutes of the calendar. Limits, widths, time
limits and caps are natural numbers, the least time limit is not above the most,
a frame, a listing, a preview and a stat have at least one entry, byte or
attempt, and a deviation is stable after one tick or more. Paths are sequences
of parts, a tree has no file where it has a directory, and a call plans one
target at least. A form of a job has the fields of its kind, the flags its entry
can send and parts of text; the root of a connection is made of words, and no file
of the behaviour's beginning ends in the suffix that kept files get (`PlanAssumption`:
a user's own `x~` beside `x` is what rclone's suffix overwrites, and is left out). The
fixed codes of DEFLATE are no longer than a code can be (`UnpackAssumption`). The fields
of a connection's form have names apart from the values the code has of its own, no host
is called as a forwarder is, and there is a port for each call (`RemoteAssumption`). The direct group is a group, tunneled connections are
connections, the keepalive thread is no worker, and there are finitely many
workers (they are counted). No other fact is assumed; all other sets may be
infinite.

*Uploads.* `OneRow` alone is not inductive: a second row needs a second
settling, which needs a second owner. The invariant is `TypeOK`, `Handed` (a
frame in hand was sent, and a task that was not started has no trace), `OneOwner`
(at most one worker beyond the slot; until it settles, the job is live and has no
row; at most one writer of the row), `Rows` (no row or one) and `Stored` (what is
at the target, seen from where the upload is). The late frame of the first
finding is a step of these proofs: rows and files stay right, only the shown
state is wrong.

*Downloads.* Several parties do settle: the pump, finish and any number of
cancels. What makes the row unique is the guard of `Accepts`: the one that moves
the job out of its live states is the one that writes. The invariant is `TypeOK`,
`Unsettled` (a job that has not started has no trace; one that is not settled has
no row, written or pending), `OneWriter` (one writer of the row, with the outcome
of the job), `Rows` and `Promoted` (a completed outcome of a local download that
is on its way or written down comes from a promoted file; the pump never brings
one), `Exact` and `Filed`: until it is swept the `.part` file holds what the pump has
pulled, and so does the promoted file, which was of the announced size when it was
promoted and whose pump had gone past the stream by then, unless `held`. The refinement reads `status` as `state` and `history` as `log`: every step
is one action of `JobLifecycle` or a stutter.

*Scheduler.* None of its properties is inductive alone. A marker is dropped from
three places (a spawn without runtime, the end of a run, a restart), so single
flight needs `Desks`: an actor that is to record or spawn a run is its only one
and finds it claimed; only the loop releases, a run that has its verdict. Once
per slot needs `Slots`: a slot that fired lies before the next one of the row,
and before the clock while the task is again in the due list of a tick. The
history needs `Records` and `Landed` (a run that stamps or has hooks to run has
seen its job completed), and the cancel `InOrder`: run ids are used in order and
a live run is the last of its task. `Inv` is their conjunction; the effects of
the handlers on desks and runs are lemmas of their own, and each part has a lemma
with a step for every action that touches it.

*Directory jobs.* What makes them hard is that three tables speak of one job. The
invariant orders them: a job is unsent until rclone has taken it, and sent for
ever after. `Starters` says that a worker that is starting a job is alone with
it and that the job is unsent until the submit; `Callers` that cancels, clears
and deletes touch sent jobs only; `Unsent` that an unsent job has neither
poller nor mark; `Truth` that a good end of rclone is never lost and a verdict
the poller carries was true when it was read; `Rowless` that no row is written.
With them every step of a starter before the submit is a stutter or a withdrawal
of the abstract job, and every later one a step of it (`LifecycleStep`).

*Executions.* `Seats` says that a worker without a run is free and that no two
have one run, which together with the registry gives `NoGhostRun`. `DeskOf` is
what an execution knows of its job at each place. It must survive steps of
others; what they can do to a sent job is what `JobLifecycle` allows (`Grows`),
so the proof of the answers reuses the refinement instead of the actions.

*Cron.* `Swept`: behind the cursor of a walk no minute of the zone fires. A round
that skips a month or a day skips only minutes that do not match, and `Before`
is a total order in which a minute and its successor are neighbours. That
`MaxDaySteps` can end a walk is in the statement: nothing is said of a walk that
was given up.

*Groups.* `Fits` says of each place in the code what the record of a thread there
can be: which group it dials, where it returns to, and that a guard is held only
by a job that runs, is dropped, or waits for its client. Steps that touch neither
guards nor forwarders are `Calm`, and one lemma shows it of all of them; six
others change hands and are treated one by one. `WorkCounts` then needs the
cardinality of the holders, `ForwarderOwned` the stronger `Minded` (a thread that
merely has the connection in hand is no owner, as another one may have left the
forwarder to it), `ReplayComplete` the stronger `Restored` (as long as something
is missing there is a thread, not cut off from this rcd, that has it on its list
or resets the group). The theorems are about `MCSpec`, which has the behaviours
of `Spec` and those from the connected states.

*Residue.* `Swept` (of `DownloadPumpProofs`) names who will remove what is left of
a local download: the pump before its cleanup, finish between taking the slot and
promoting, and after a cancel the cancel that found the pump done. A temporary
archive goes with its pump, a channel leaves nothing.

*Mounts.* `MountInv`: a record, in the table or in the hand of a stop, is of a
start that is over, and a gateway that accepts is of a start about to write its
record or over, but of none that a stop has in hand (`Accounted`). So neither the
record of a later start nor a second stop can speak of it.

*Calls.* `CallInv`: what stood at a target when its call was asked still stands
there or somebody has touched it (`StoodFresh`), and a call that is about to write
has had its conditions looked at (`Guarded`); after its first target a copy of
several has none to look at.

*Tokens.* `TokensApart`: a token in the table is of this life of the sidecar and
unspent; once it is taken out there is one call that has it, or one write, or
none. `TokenRanges` has the clock and the time to live in their bounds, in memory,
in the file and on the way there, `TokenBound` the cap of the table.

*Lines.* `Once`: a call is with the app only while its line waits for it or later,
is carried out by the one side that has it, and a line is answered when it ends,
with an ok only if it was carried out by then. `WorkBound` counts the permits.

*Cursors and intents.* For cursors: a cursor is of the scan it was made by and
stands where its pages end (`Paged`), and the pages so far are a prefix of the
rows of the scan (`Scanned`). For intents: the table goes along the order in which
all intents were touched (`Along`), so an entry is as far from the end of the order
as from the end of the table at least, and none of the last `IntentCap` is missing
unless its time is over (`NoneMissed`).

*Listings.* `ListInv` gives each request a cumulative count `c`: `c[k]` entries are
in its first `k` frames. What the session has put in frames (`Sent`), what is on
the wire (`Wired`), what the workbench holds back (`Kept`) and what the pane has
taken (`Taken`) are then consecutive stretches of one sequence, and the frame that
ends it comes at the size. `Remembers`: of a directory one count, which some listing
delivered.

*Edits.* `EditInv`: no stamp is newer than the last; a copy that has the stamp of a
baseline has a text that counts as synced, and one that has the stamp an upload
began with has the text the upload read (`Stamped`). Without `waived` the first
does not hold, for a reason: section 6.

*Requests.* `ReqInv`: a request that goes on, or has changed something, was
granted on the bindings it carries, whatever the connections have become
(`Gated`, `Honest`); and until it answers, what it has left behind in the listings
is among what it is about to drop (`Behind`). That a granted path stays below the
root is `NormalStaysIn`: the walk of `sanitize` ends at the outside if at some
point there were more steps up than down, which `LeadsOut` says by counting.

*Readings.* `ReadInv`: of what holds still, the pages so far are its first entries
up to where the next page begins, and the windows so far the file up to where the
next begins. Nothing is used of the sort but that it is a function of the entries.

*Plans.* `PlanInv`: what runs was let by its gates on the bindings it carries, whatever
the registry holds by now (`Admitted`), so where it reads and writes is what the gates
looked at, and its backup directory does not overlap its target (`SpotsAre`); nothing
is changed before it runs, nor by a comparison, nor by what failed before its first
file (`Steady`). Then `PlansAreKept` itself, carried from step to step. The heart is what a
tree is after rclone wrote a set of files into an fs: `PlacedIs` (the files below the
root are the new ones, all others are spared), `SparedFiles` (an fs that does not
overlap keeps its files), `KeptIs` (two files are kept under two names) and
`OutcomeIs`, which puts them together for the three ways of keeping (`Landed`). Paths
are compared part by part, from `SliceIs` and `SeqEqual`. The proof met two things
TLC's forms did not have: a prune of old backups can take files of the target, when the
connection was bound to another root since or the pair is one of a bisync
(`PrunedThere`, section 6), and `StaysPut` counted a job without a backup directory
as one that may change every connection.

*Connections.* `ConnInv`. A call knows the form it is about and where it is
(`RemShape`); a section with the number of a test has a test at it that will sweep it
(`TestsTidy`); and unless two calls met, at most one call registers (`Apart`) and what
it may rely on holds (`Focus`): it began with the entry that is still there, what the
rcds hold is the section of that entry or its own, the section under another proxy is
gone before its own is written, and until it has touched anything the entry is intact.
A step of a call is looked at through `Onward`, what it must leave to the next step,
so each of the seventeen actions is one lemma of a page. This proof met one mistake of
the model: a section whose deletion failed twice was counted as an orphan when it was
gone already.

What a form means is carried by `MeantInv`: unless two calls met, a call that has a
section in hand (`Carries`: from the clearing to the entry) has one that is what its
form is meant to have and leads there, and so has the entry until a call that registers
has come to the forwarders (`Unmoved`). Three lemmas read the form. `MeantIsTold` goes
family by family (`S3Tells`, `SftpTells` and so on): each shows that every field the form
shows has a row, and that every row is a value of the code's own or a field as an option
it is about (`Tidy`). `MeantLeads` compares the address dialled with the one of the form,
with and without the host's tunnel and one of the connection's own, and the default ports
of rclone with those the code puts in. `MeantRoots` does the same for buckets and shares.
The proof named four forms that TLC's did not have and that `Unmeant` now has: a user in
an SFTP endpoint beside one in the field, the scheme of a pCloud host, a scheme that a
URL cannot have, and an Azure file share with both names of an account.

*Archives and decoders.* Type correctness only: what is parked, read and written are
members and cells (`ArchInv`), the decoder's tables are codes of its alphabet
(`StreamInv`).

*Lists.* Every instance copies what it extends, and the provers carry all of it in
each obligation. The parts of `MCFiles` therefore take the few operators they use from
`Lists` instead of `SequencesExt` and `Functions`; an obligation takes a fifth of the time.

*Side by side.* In `MCWorkbench`, `MCJobs`, `MCServer` and `MCEngine` one part
moves and the others rest. A lemma for each part says that at rest it keeps its
invariant, and the theorems about a run's specification follow from the step
lemmas of the parts (`WorkInv`, `JobsInv`, `ServerInv`, `EngineInv`).

*Induction.* What a recursive function computes is proved by induction over a set
of numbers (`SetInduction` of `PicksProofs`, which applies a fact of the library
to a set, so that no operator is passed): `Recurses` says that a function defined
over `0..n` has its equations, `Through` that what holds at 0 and is handed on
holds to the end. `Picked`, `Normal` and the counts of the listings are written as
recursive functions for this reason. `SelectSeq`, `SortSeq` and the folds cannot
be opened by the provers; a sort is therefore written as a choice by rank. The
arms of a `CASE` must exclude each other to be reasoned about, as TLA+ leaves open
which of two that hold is taken.

Model-checked only: the liveness properties (`CallsReturn`, `JobSettles`,
`RunsEnd`, `PaneSettles`, `SavesAreSynced`, `JobsEnd`, `Returns`), since the
prover has no support for fairness and `ENABLED`; `UnpacksTrue`,
which rests on folds and sorts over the cells of an archive and the lengths of a
code; and of `RemotesAreMeant` the part `TestsTrue`.

## 5. Plan

1. The serve instances (`main.rs:1951-2105`), which an rcd takes along when it
   goes, and the chunked download sessions of the facade
   (`fs_facade.rs:153-184`, `958-1055`): stale sessions, a range that is read
   while the object changes.
2. `Mounts` and `Scheduler` on top of `RcdGroups`: a mount and a run as holders of
   the work counter, so that teardown meets them.
3. Proofs of `Archives` and `Gzip`: that a zip that is replaced while it is read
   is refused, and that the decoder's running code, first and index are those of
   RFC 1951 at every bit.
4. `PathPolicy`: lemmas on the root lock.

## 6. Hazards without a property

Besides those `PROJECT.json` lists, reading the code met these:

- an idle rcd can be shut down between the look at its work count and the lock
  (`rclone/mod.rs:604`), against `rclone/mod.rs:135-137`; the step is in
  `RcdGroups`, and the job that loses its rcd fails;
- a finish that gives up its ten seconds of grace renames the `.part` under the
  pump's open handle (`main.rs:3309-3324`, against the comment at 3307-3308): of a
  source that has grown, the rest is appended to the promoted file
  (`main.rs:5514-5542`), and a failure of the pump then settles nothing, or settles as
  failed a download that is on disk. `CompletedIsOnDisk` allows for the longer file
  where `held` says so;
- a submit that rclone carries out and whose answer is lost leaves a job of rclone's
  that no record knows (`rclone/sync.rs:526-533`): it can neither be watched nor
  stopped. `SubmitFails` of `SyncJobs` is the submit that was not carried out;
- another writer can come between the check of a target and the write
  (`fs_facade.rs:585`): `WritesAreGuarded` promises the check, and exempts by `stood`
  what was touched since;
- a failed `client_for_binding` after the job was inserted (`main.rs:3800`,
  `3911`, `4202`) leaves an entry nobody settles, against the comment at 3964;
- a stop between the poller's look at the mark and its status call is reported
  by what rclone says (`rclone/sync.rs:581-583`);
- a move of a directory is submitted as a copy (`main.rs:3914-3918`) with a purge
  of the source at its end (`main.rs:3861`): what another client writes to the
  source in between is purged unread;
- the workbench holds back at most 64 frames, and five seconds
  (`lib/listStream.ts:196-221`), and what it takes it does not check for gaps
  (`130-157`), so a pane can take a listing for whole that has lost frames: the
  model says which panes those are (`missed`), and `ListingsAreTrue` exempts them.
  With `HoldCap` of three none of the instance does; the theorem has no such bound;
- a save by an editor that is left from an earlier session, between the end of a
  pull and its stamp, counts as synced (`main.rs:5111-5113`, against its comment
  and `5157-5160`): the local copy of a path is the same in every session
  (`remote_edit.rs`, `local_copy_path`). The proof of `SyncedIsTrue` met it; the
  model waives such a text;
- a job settles, is cleared, and only then its row is written: it is back after the
  next start (`main.rs:4966`);
- a disconnect drops the record of a mount whose rc unmount it skips
  (`mount/mod.rs:792-794`), as its registry entry is already gone;
- a crash leaves `.part` files and staged archives, and no start-up sweep removes
  them (`main.rs:1387`);
- a cancel of an upload works on a clone of its slot (`main.rs:2381`);
- a directory that is moved onto or below itself is destroyed: the move is a copy
  and a purge of the source (`main.rs:3863-3880`, `3916`), and neither
  `files/rename` (`1000-1060`), `files/move` (`852-930`) nor the facade
  (`fs_facade.rs:825-905`) looks for an overlap; the comment at `3773-3775` has the
  source's empty directories left behind;
- the prune of old backups goes by the times of the files, so what a run has just
  backed up can be old enough to go, also after a dry run, and for a bisync the
  directory is any that is named, and its fs is that of the binding as it is by then
  (`scheduler/mod.rs:778-812`): files of the target can go with it;
- the validation of a schedule does not look for an overlapping backup directory
  or different proxy groups, against its comment that nothing doomed is stored
  (`scheduler/mod.rs:816-895`); the task provider lets the root be copied into
  itself (`task_provider.rs:455`);
- a dry run makes the target's directory (`main.rs:3745-3757`, against
  `task_provider.rs:489` and `model.rs:792-794`), and one of a bisync resync stamps
  the resync as done (`scheduler/mod.rs:676-682`, `main.rs:4385`);
- a verification that finds differences ends as completed, and so does its run
  (`scheduler/mod.rs:756-774`);
- a check against a relative sum file whose first part is the root's own name
  verifies another directory (`main.rs:4040`);
- `ParentOf` of a top-level path is "/" while root listings are keyed by the empty
  path (`rclone/list_decision.rs:46-57`): the root is not invalidated. The model
  has it; the properties allow stale sizes, which cost time only;
- an acknowledgement that is late does not cancel the listing (`App.vue`);
- a refused picked directory leaves its gateway running
  (`mount/mod.rs:655-658`, an exception in `MountsOwned`), two requests can each
  get a gateway of one surface between the two looks (`mount/mod.rs:614-627`;
  `MountsOwned` does not exclude it), a
  start can be in flight during a disconnect;
- a failed first pull leaves a session without a watcher (`main.rs:5139-5152`), a
  refresh can overwrite a save made during its pull (`main.rs:5154-5159`), the
  sync job of a session that is closed meanwhile stays (`main.rs:5346-5352`), and
  the watcher counts ticks of deviation, not ticks without a change;
- a file's `copyfile` and `movefile` take the source as it was spelled, while the stat
  before them resolved it (`rclone/ops.rs:1148-1202`, `main.rs:885-893`);
  `ChangesAreAllowed` holds, as the spelling is refused when it leads out, but the
  two can mean different files;
- the rmdirs of the panel takes the root too when it is empty
  (`main.rs:1778-1795`); `ChangesAreAllowed` exempts it;
- a tar is read on by the size in its header, not by the one of its extended
  record, and an entry of unknown type is extracted as an empty file
  (`rclone/archive.rs`);
- two sources of a compress with one name give two members of one path;
- a JSON file that parses but does not fit is taken as empty and overwritten, as
  only one that does not parse is put aside (`store.rs`); two threads can rotate
  the audit log at once and lose a generation (`store.rs:217-222`);
- a user's own file called `payload` is lost by any write beside it
  (`rclone/ops.rs:870`);
- tools called over MCP do not invalidate the listing cache, nor do extract,
  compress, copyurl, rmdirs and cleanup of the panel;
- two concurrent updates of the settings can lose one of them, or leave memory and
  file with different values (`mcp/state.rs:340-383`);
- what a form says and the connection drops (`Unmeant` of `Remotes`): a tunnel of
  the connection's own drops the path and the user of its endpoint
  (`rclone/tunnel.rs`, `rewrite_endpoint`), layers of the host the user where there
  is no scheme (`model.rs`); of an Azure file share `username` is told as the
  account only while `access_key_id` is empty; of a pCloud host only the name is told,
  no port, scheme or tunnel; the user in an SFTP endpoint wins over the field, which a
  form has beside it; a share is glued to a root that does not begin with a slash
  (`rclone/registry.rs`, `binding_for`);
- fields that a form hides are told: the password of `sftp`, the tokens of
  `pcloud`; and the scope of a GCS form is never told;
- a test of an SMB connection looks into the root of the host and not into the
  share (`composed_root` has no share), so it can succeed where the connection
  fails;
- tests of one connection share the key of their forwarder, so the second takes
  the first one's away, and a failed connect or a disconnect of the same
  connection takes it from any test;
- a reconnect that fails leaves its entry registered with the section deleted and
  the forwarders released; so does a failed registration without MLSD, which says
  it keeps the original config and has deleted it (`rclone/registry.rs:941-958`);
- a reconnect without a tunnel leaves the forwarder of the connect before it;
- `files/serve/list` keeps only the entries whose id is active in the rcd of its
  own connection's group: the entries of other groups are dropped, and a later
  `files/serve/stop` of one answers success without an rc call (`main.rs:2060-2108`).

## 7. Not modelled

The framing of the bridge's socket and of lines (a line over the limit is cut and can be
answered once per piece, `mcp/stdio.rs:357-365`; `CallsAreOnce` is about whole lines), the serialisation of the wire model, the rc client's bodies, the discovery of
programs, the naming of files, packaging and the view code: data without control
the properties tell apart, or plain I/O.

In the modelled parts: the connection filter of clear, the ring caps of the
histories, progress counters and their throttle, reports of checks, failed writes
of `runs.json`, the `last_run` fields of a schedule row, the messages of
the task provider and its batch of files, what a gateway answers, reads and
listings of the facade, hashes and checksums as numbers, the octal fields of tar
headers, the tables of fixed codes, the text of names in archives, compression by
the `zip` of the host, the proxy environment of an rcd and its local relay.
