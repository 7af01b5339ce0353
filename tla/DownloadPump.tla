---------------------------- MODULE DownloadPump ----------------------------
(***************************************************************************)
(* The download byte path: files/download/start and files/archiveDownload  *)
(* spawn a pump per task, and files/download/finish, files/transfer/cancel *)
(* and the pump race to settle the job.  One sidecar run; UploadChannel    *)
(* has the restart.                                                        *)
(*                                                                         *)
(* A "local" task saves to disk: the pump writes a .part file that finish  *)
(* promotes.  A "channel" task streams frames to the client.  An "archive" *)
(* task streams a zip that start has staged in a temporary directory.      *)
(* A file is size[t] chunks; a content is <<>> (no file) or <<n>>.  What a  *)
(* remote source has when it is read can be less than at start, or more.   *)
(***************************************************************************)
EXTENDS TransferJobs

CONSTANTS
    Sizes,     \* the sizes a source can have at start, in chunks
    MaxGrowth  \* no source grows by more chunks: a bound of the model

ASSUME SizesAssumption == Sizes \subseteq Nat
ASSUME MaxGrowthAssumption == MaxGrowth \in Nat

Kinds == {"local", "channel", "archive"}

VARIABLES
    kind,   \* what the start request of t asked for
    size,   \* the size of the source of t at start
    slot,   \* slot[t]: t has an entry in RcloneEngine.downloads
    flag,   \* the shared cancel flag of the slot of t
    pump,   \* the pump of t: where it is, the verdict it brings, clear_slot
    got,    \* chunks the pump has pulled and written; the job's count follows
    part,   \* the .part file of t, or its staged archive
    final,  \* the promoted file of t
    held    \* (history) t was promoted while its pump could still write

fixed == <<kind, size>>
saved == <<final, held>>
downloadVars == <<fixed, slot, flag, pump, got, part, saved>>
vars == <<jobVars, downloadVars>>

Pump(at) == [at |-> at, as |-> "failed", clear |-> FALSE]
Onward(t, at) == [at |-> at, as |-> pump[t].as, clear |-> pump[t].clear]
Cleanup(verdict, clear) == [at |-> "sweep", as |-> verdict, clear |-> clear]

Init ==
    /\ JobsInit
    /\ kind = [t \in Tasks |-> "channel"]
    /\ size = [t \in Tasks |-> 0]
    /\ slot = [t \in Tasks |-> FALSE]
    /\ flag = [t \in Tasks |-> FALSE]
    /\ pump = [t \in Tasks |-> Pump("none")]
    /\ got = [t \in Tasks |-> 0]
    /\ part = [t \in Tasks |-> <<>>]
    /\ final = [t \in Tasks |-> <<>>]
    /\ held = [t \in Tasks |-> FALSE]

PumpGo(t, p) == pump' = [pump EXCEPT ![t] = p]
PumpAt(t, label) == pump[t].at = label
PumpDone(t) == PumpAt(t, "done")
DropSlot(t) == slot' = [slot EXCEPT ![t] = FALSE]

(* The slot knows the .part file of a local task only.                     *)
SweepPart(t) == part' = [part EXCEPT ![t] = IF kind[t] = "local" THEN <<>> ELSE @]

-----------------------------------------------------------------------------
(* files/download/start after its checks of the remote object, and         *)
(* files/archiveDownload after it has staged the archive.                  *)
StartDownload(w, t, k, n) ==
    /\ call[w] = Idle
    /\ status[t] = "new"
    /\ kind' = [kind EXCEPT ![t] = k]
    /\ size' = [size EXCEPT ![t] = n]
    /\ status' = [status EXCEPT ![t] = "queued"]
    /\ slot' = [slot EXCEPT ![t] = TRUE]
    /\ part' = [part EXCEPT ![t] = CASE k = "local" -> <<0>>
                                     [] k = "archive" -> <<n>>
                                     [] OTHER -> <<>>]
    /\ PumpGo(t, Pump("start"))
    /\ UNCHANGED <<history, call, flag, got, saved>>

-----------------------------------------------------------------------------
(* The pump task of t.                                                     *)

PumpStarts(t) ==
    /\ PumpAt(t, "start")
    /\ MarkRunning(t)
    /\ PumpGo(t, Pump("check"))
    /\ UNCHANGED <<history, call, slot, flag, got, part, saved, fixed>>

PumpChecks(t) ==
    /\ PumpAt(t, "check")
    /\ PumpGo(t, IF flag[t] THEN Cleanup("canceled", TRUE) ELSE Pump("open"))
    /\ UNCHANGED <<jobVars, slot, flag, got, part, saved, fixed>>

PumpOpens(t) ==
    /\ PumpAt(t, "open")
    /\ kind[t] # "channel" => part[t] # <<>>
    /\ PumpGo(t, Pump("stream"))
    /\ UNCHANGED <<jobVars, slot, flag, got, part, saved, fixed>>

(* The staging file or the archive cannot be opened, or there is no client.*)
PumpCannotOpen(t) ==
    /\ PumpAt(t, "open")
    /\ PumpGo(t, Cleanup("failed", FALSE))
    /\ UNCHANGED <<jobVars, slot, flag, got, part, saved, fixed>>

(* What the body of the GET still has: whatever the source holds by then,  *)
(* as the announced size only feeds the throttle of the progress events.   *)
(* A staged archive is a local file that stays as it is.                   *)
Delivers(t) == got[t] < size[t] + (IF kind[t] = "archive" THEN 0 ELSE MaxGrowth)

(* One chunk: the cancel flag, the write; a frame that then cannot be     *)
(* pushed is the failure of the stream that comes next.                    *)
(* The pump appends through the handle it has opened, to the .part file or *)
(* to what finish has renamed it to; after a sweep the bytes go nowhere.   *)
PumpChunk(t) ==
    /\ PumpAt(t, "stream")
    /\ ~flag[t]
    /\ Delivers(t)
    /\ got' = [got EXCEPT ![t] = @ + 1]
    /\ part' = [part EXCEPT ![t] =
                  IF kind[t] = "local" /\ @ # <<>> THEN <<got[t] + 1>> ELSE @]
    /\ final' = [final EXCEPT ![t] = IF @ # <<>> THEN <<got[t] + 1>> ELSE @]
    /\ UNCHANGED <<jobVars, slot, flag, pump, held, fixed>>

(* The source, the sink or the idle timeout ends the stream with an error, *)
(* which after a cancel counts as the cancel; the flag does so at the next *)
(* chunk.  The archive pump calls a read or push error a failure anyway.   *)
(* Mistake: the error path exits without a cleanup.                        *)
PumpStreamFailsQuietly(t) ==
    /\ PumpAt(t, "stream")
    /\ PumpGo(t, Pump("exit"))
    /\ UNCHANGED <<jobVars, slot, flag, got, part, saved, fixed>>
PumpStreamFails(t) ==
    /\ PumpAt(t, "stream")
    /\ \E verdict \in {"failed", "canceled"} :
          /\ verdict = "canceled" => flag[t]
          /\ verdict = "failed" => ~flag[t] \/ kind[t] = "archive"
          /\ PumpGo(t, Cleanup(verdict, FALSE))
    /\ UNCHANGED <<jobVars, slot, flag, got, part, saved, fixed>>

(* End of stream, wherever it comes; that of a staged archive is its size. *)
PumpStreamEnds(t) ==
    /\ PumpAt(t, "stream")
    /\ kind[t] = "archive" => got[t] = size[t]
    /\ PumpGo(t, IF flag[t] THEN Cleanup("canceled", kind[t] # "archive")
                 ELSE IF kind[t] = "local" THEN Pump("handover")
                 ELSE [Pump("settle") EXCEPT !.as = "completed"])
    /\ UNCHANGED <<jobVars, slot, flag, got, part, saved, fixed>>

(* A local download is settled by finish: under the lock of the downloads  *)
(* table the pump either leaves it to finish or sees that it is over.      *)
(* Mistake: the handover does not look at the flag again.                  *)
PumpHandsOverBlindly(t) ==
    /\ PumpAt(t, "handover")
    /\ status[t] \notin Terminal
    /\ PumpGo(t, Pump("done"))
    /\ UNCHANGED <<jobVars, slot, flag, got, part, saved, fixed>>
PumpHandsOver(t) ==
    /\ PumpAt(t, "handover")
    /\ ~flag[t] /\ status[t] \notin Terminal
    /\ PumpGo(t, Pump("done"))
    /\ UNCHANGED <<jobVars, slot, flag, got, part, saved, fixed>>

PumpIsOver(t) ==
    /\ PumpAt(t, "handover")
    /\ flag[t] \/ status[t] \in Terminal
    /\ DropSlot(t)
    /\ PumpGo(t, Cleanup("canceled", FALSE))
    /\ UNCHANGED <<jobVars, flag, got, part, saved, fixed>>

(* rclone_pump_cleanup: the residue, the job, and for some exits the slot. *)
PumpSweeps(t) ==
    /\ PumpAt(t, "sweep")
    /\ SweepPart(t)
    /\ PumpGo(t, Onward(t, "settle"))
    /\ UNCHANGED <<jobVars, slot, flag, got, saved, fixed>>

PumpSettles(t) ==
    /\ PumpAt(t, "settle")
    /\ Complete(t, pump[t].as)
    /\ PumpGo(t, Onward(t, IF Accepts(t) THEN "record" ELSE "exit"))
    /\ UNCHANGED <<history, call, slot, flag, got, part, saved, fixed>>

PumpRecords(t) ==
    /\ PumpAt(t, "record")
    /\ RecordRow(t, pump[t].as)
    /\ PumpGo(t, Onward(t, "exit"))
    /\ UNCHANGED <<status, call, slot, flag, got, part, saved, fixed>>

PumpRecordFails(t) ==
    /\ PumpAt(t, "record")
    /\ PumpGo(t, Onward(t, "exit"))
    /\ UNCHANGED <<jobVars, slot, flag, got, part, saved, fixed>>

(* The guards of the pump drop: the temporary archive goes, pump_done is   *)
(* set.                                                                    *)
PumpExits(t) ==
    /\ PumpAt(t, "exit")
    /\ slot' = [slot EXCEPT ![t] = @ /\ ~pump[t].clear]
    /\ part' = [part EXCEPT ![t] = IF kind[t] = "archive" THEN <<>> ELSE @]
    /\ PumpGo(t, Pump("done"))
    /\ UNCHANGED <<jobVars, flag, got, saved, fixed>>

-----------------------------------------------------------------------------
(* files/download/finish.  Without a slot it answers with the stored       *)
(* outcome or "not found", which changes nothing.  Otherwise it works on a *)
(* clone of the slot.                                                      *)
FinishCall(w, t) ==
    /\ call[w] = Idle
    /\ slot[t]
    /\ Go(w, Call("wait", t))
    /\ UNCHANGED <<status, history, downloadVars>>

(* The wait ends when the bytes are in, the pump is done, the slot is gone *)
(* or ten seconds pass without a byte; then the cancel flag decides.       *)
FinishCanceled(w) ==
    LET t == Task(w) IN
    /\ At(w, "wait")
    /\ flag[t]
    /\ DropSlot(t)
    /\ SweepPart(t)
    /\ Go(w, Idle)
    /\ UNCHANGED <<status, history, flag, pump, got, saved, fixed>>

FinishGrace(w) ==
    /\ At(w, "wait")
    /\ ~flag[Task(w)]
    /\ Go(w, Call("grace", Task(w)))
    /\ UNCHANGED <<status, history, downloadVars>>

(* It grants the pump ten seconds to exit, and removes the slot.           *)
FinishTakes(w) ==
    LET t == Task(w) IN
    /\ At(w, "grace")
    /\ slot[t]
    /\ DropSlot(t)
    /\ Go(w, Call("check", t))
    /\ UNCHANGED <<status, history, flag, pump, got, part, saved, fixed>>

FinishNotFound(w) ==
    /\ At(w, "grace")
    /\ ~slot[Task(w)]
    /\ Go(w, Idle)
    /\ UNCHANGED <<status, history, downloadVars>>

FinishReplays(w) ==
    LET t == Task(w) IN
    /\ At(w, "check")
    /\ status[t] \in Terminal
    /\ SweepPart(t)
    /\ Go(w, Idle)
    /\ UNCHANGED <<status, history, slot, flag, pump, got, saved, fixed>>

FinishProceeds(w) ==
    LET t == Task(w) IN
    /\ At(w, "check")
    /\ status[t] \notin Terminal
    /\ Go(w, IF kind[t] = "local" THEN Call("promote", t) ELSE Settling(t, "completed"))
    /\ UNCHANGED <<status, history, downloadVars>>

(* promote_rclone_staging: a .part file of the size announced at start is  *)
(* renamed; any other, and any error, removes it and fails the job.  The   *)
(* look and the rename are one step: a chunk between them ends up in the   *)
(* promoted file like one after them.                                      *)
(* Mistake: only a file that ended short is refused.                       *)
IsNotShort(t) == part[t] # <<>> /\ part[t][1] >= size[t]
IsWhole(t) == part[t] = <<size[t]>>

Promote(w) ==
    LET t == Task(w) IN
    /\ At(w, "promote")
    /\ IsWhole(t)
    /\ final' = [final EXCEPT ![t] = part[t]]
    /\ held' = [held EXCEPT ![t] = PumpAt(t, "stream")]
    /\ SweepPart(t)
    /\ Go(w, Settling(t, "completed"))
    /\ UNCHANGED <<status, history, slot, flag, pump, got, fixed>>

PromoteFails(w) ==
    LET t == Task(w) IN
    /\ At(w, "promote")
    /\ SweepPart(t)
    /\ Go(w, Settling(t, "failed"))
    /\ UNCHANGED <<status, history, slot, flag, pump, got, saved, fixed>>

-----------------------------------------------------------------------------
(* files/transfer/cancel of a download: a clone of the slot; its flag;     *)
(* then, only if the pump is done, the slot and the .part file; the job.   *)
CancelDownload(w, t) ==
    /\ call[w] = Idle
    /\ slot[t]
    /\ Go(w, Call("raise", t))
    /\ UNCHANGED <<status, history, downloadVars>>

CancelRaises(w) ==
    LET t == Task(w) IN
    /\ At(w, "raise")
    /\ flag' = [flag EXCEPT ![t] = TRUE]
    /\ Go(w, Call("probe", t))
    /\ UNCHANGED <<status, history, slot, pump, got, part, saved, fixed>>

CancelSweeps(w) ==
    LET t == Task(w) IN
    /\ At(w, "probe")
    /\ PumpDone(t)
    /\ DropSlot(t)
    /\ SweepPart(t)
    /\ Go(w, Settling(t, "canceled"))
    /\ UNCHANGED <<status, history, flag, pump, got, saved, fixed>>

CancelLeaves(w) ==
    LET t == Task(w) IN
    /\ At(w, "probe")
    /\ ~PumpDone(t)
    /\ Go(w, Settling(t, "canceled"))
    /\ UNCHANGED <<status, history, downloadVars>>

-----------------------------------------------------------------------------
PumpStep(t) ==
    \/ PumpStarts(t)
    \/ PumpChecks(t)
    \/ PumpOpens(t)
    \/ PumpCannotOpen(t)
    \/ PumpChunk(t)
    \/ PumpStreamFails(t)
    \/ PumpStreamEnds(t)
    \/ PumpHandsOver(t)
    \/ PumpIsOver(t)
    \/ PumpSweeps(t)
    \/ PumpSettles(t)
    \/ PumpRecords(t)
    \/ PumpRecordFails(t)
    \/ PumpExits(t)

Jobs(w) ==
    /\ \/ Settle(w)
       \/ Record(w)
       \/ RecordFails(w)
       \/ ClearDrop(w)
    /\ UNCHANGED downloadVars

(* The next step of the handler a worker is in.                            *)
Work(w) ==
    \/ FinishCanceled(w)
    \/ FinishGrace(w)
    \/ FinishTakes(w)
    \/ FinishNotFound(w)
    \/ FinishReplays(w)
    \/ FinishProceeds(w)
    \/ Promote(w)
    \/ PromoteFails(w)
    \/ CancelRaises(w)
    \/ CancelSweeps(w)
    \/ CancelLeaves(w)
    \/ Jobs(w)

(* A request of the host that an idle worker takes up.  An archive is      *)
(* never empty, and the size of a channel is only shown.                   *)
Arrive(w) ==
    \/ \E t \in Tasks : \/ \E k \in Kinds, n \in Sizes :
                             (n = 0 => k = "local") /\ StartDownload(w, t, k, n)
                        \/ FinishCall(w, t)
                        \/ CancelDownload(w, t)
                        \/ Delete(w, t) /\ UNCHANGED downloadVars
    \/ ClearCollect(w) /\ UNCHANGED downloadVars

Next ==
    \/ \E t \in Tasks : PumpStep(t)
    \/ \E w \in Workers : Work(w) \/ Arrive(w)

Spec == Init /\ [][Next]_vars

(* The runtime keeps polling a pump, whose reads have an idle timeout, and *)
(* a worker inside a handler keeps running.  No call has to come.          *)
FairSpec ==
    /\ Spec
    /\ \A t \in Tasks : WF_vars(PumpStep(t))
    /\ \A w \in Workers : WF_vars(Work(w))

-----------------------------------------------------------------------------
DownloadPhases == {"idle", "wait", "grace", "check", "promote", "raise",
                   "probe", "settle", "record", "drop"}
PumpPhases == {"none", "start", "check", "open", "stream", "handover", "sweep",
               "settle", "record", "exit", "done"}

(* The types, with all rows of the history terminal.                       *)
TypeOK ==
    /\ JobsTypeOK(DownloadPhases)
    /\ slot \in [Tasks -> BOOLEAN]
    /\ flag \in [Tasks -> BOOLEAN]
    /\ pump \in [Tasks -> [at : PumpPhases, as : Terminal, clear : BOOLEAN]]
    /\ got \in [Tasks -> Nat]
    /\ kind \in [Tasks -> Kinds]
    /\ size \in [Tasks -> Nat]
    /\ part \in [Tasks -> Seq(Nat)]
    /\ final \in [Tasks -> Seq(Nat)]
    /\ held \in [Tasks -> BOOLEAN]

(* The history has at most one row for a download, although the pump,      *)
(* finish and any number of cancels all try to settle it.                  *)
OneRow == \A t \in Tasks : Len(history[t]) <= 1

(* A saveToLocal download that the panel or the history shows as completed *)
(* is on disk under its final name, whole: all the pump has pulled and     *)
(* exactly the size announced.  The exception is a pump that outlives the  *)
(* grace of finish on a source that has grown: what it still pulls is      *)
(* appended to the file that finish promoted, which is then longer, never  *)
(* shorter.                                                                *)
CompletedIsOnDisk ==
    \A t \in Tasks :
        kind[t] = "local" /\ "completed" \in Outcomes(t) =>
            /\ final[t] = <<got[t]>>
            /\ got[t] = size[t] \/ (held[t] /\ got[t] > size[t])

(* Once a download is over, with its pump done and no handler at work on   *)
(* it, no .part file and no temporary archive of it is left on disk.       *)
NoResidue ==
    \A t \in Tasks :
        /\ PumpDone(t)
        /\ \A w \in Workers : Task(w) # t
        /\ status[t] \in Terminal \cup {"gone"} \/ ~slot[t]
        => part[t] = <<>>

(* A download that no finish is needed for, and any download whose cancel  *)
(* flag is up, does settle.                                                *)
JobSettles ==
    \A t \in Tasks :
        status[t] \in Live /\ (kind[t] # "local" \/ flag[t]) ~> status[t] \notin Live

(* Downloads keep the promise of the job mirror: see JobLifecycle.         *)
Lifecycle == INSTANCE JobLifecycle WITH state <- status, log <- history
KeepsLifecycle == Lifecycle!Spec

=============================================================================
