--------------------------- MODULE UploadChannel ---------------------------
(***************************************************************************)
(* The upload byte path: files/upload/start, the binary frames on          *)
(* files/upload/{taskId}, files/upload/finish and files/transfer/cancel,   *)
(* with the clear, delete and restart of the job mirror they meet.         *)
(*                                                                         *)
(* A file is Size[t] frames.  Its content is a sequence: <<>> is no file,  *)
(* <<n>> the first n frames.                                               *)
(***************************************************************************)
EXTENDS TransferJobs

CONSTANT Size  \* the declared size of each task's file, in frames

ASSUME SizeAssumption == Size \in [Tasks -> Nat]

VARIABLES
    slot,      \* slot[t]: t has an entry in RcloneEngine.uploads
    received,  \* frames appended to the staging file of t
    sent,      \* frames of t that workers have taken from the host's queue
    remote     \* the object at the target path of t

uploadVars == <<slot, received, sent, remote>>
vars == <<jobVars, uploadVars>>

Init ==
    /\ JobsInit
    /\ slot = [t \in Tasks |-> FALSE]
    /\ received = [t \in Tasks |-> 0]
    /\ sent = [t \in Tasks |-> 0]
    /\ remote = [t \in Tasks |-> <<>>]

(* Mistake: the slot is read where it must be removed.                     *)
ClaimByRead(t) == slot[t] /\ slot' = slot
Claim(t) == slot' = [slot EXCEPT ![t] = FALSE]

-----------------------------------------------------------------------------
(* files/upload/start: the job, then its slot.  The client learns the id   *)
(* from the answer, so nothing can come between the two inserts.           *)
StartUpload(w, t) ==
    /\ call[w] = Idle
    /\ status[t] = "new"
    /\ status' = [status EXCEPT ![t] = "queued"]
    /\ slot' = [slot EXCEPT ![t] = TRUE]
    /\ UNCHANGED <<history, call, received, sent, remote>>

(* A frame.  The host's queue is first in, first out, but a frame taken by *)
(* one worker can be appended after a later one taken by another.  In hand *)
(* is its offset: sent[t] at the time it was taken.                        *)
TakeFrame(w, t) ==
    /\ call[w] = Idle
    /\ status[t] # "new"
    /\ sent[t] < Size[t]
    /\ sent' = [sent EXCEPT ![t] = @ + 1]
    /\ Go(w, [Call("frame", t) EXCEPT !.offset = sent[t]])
    /\ UNCHANGED <<status, history, slot, received, remote>>

FrameAppended(w) ==
    LET t == Task(w) IN
    /\ At(w, "frame")
    /\ slot[t]
    /\ call[w].offset = received[t]
    /\ received' = [received EXCEPT ![t] = @ + 1]
    /\ Go(w, Call("appended", t))
    /\ UNCHANGED <<status, history, slot, sent, remote>>

(* A gap, an overlap, or a staging file that cannot be written: the frame  *)
(* consumes the slot and the job fails.                                    *)
FrameRefused(w) ==
    LET t == Task(w) IN
    /\ At(w, "frame")
    /\ slot[t]
    /\ Claim(t)
    /\ Go(w, Settling(t, "failed"))
    /\ UNCHANGED <<status, history, received, sent, remote>>

FrameTooLate(w) ==
    /\ At(w, "frame")
    /\ ~slot[Task(w)]
    /\ Go(w, Idle)
    /\ UNCHANGED <<status, history, uploadVars>>

(* After the upload lock is released the appending worker marks the job    *)
(* running, whatever its state is by now.                                  *)
FrameMarks(w) ==
    LET t == Task(w) IN
    /\ At(w, "appended")
    /\ status' = [status EXCEPT ![t] = IF @ = "gone" THEN @ ELSE "running"]
    /\ Go(w, Idle)
    /\ UNCHANGED <<history, uploadVars>>

-----------------------------------------------------------------------------
(* files/upload/finish.  A settled job answers with its stored outcome, a  *)
(* call that changes nothing.  Any other waits until the declared frames   *)
(* are in, or none arrives for ten seconds, or the slot is gone.           *)
FinishCall(w, t) ==
    /\ call[w] = Idle
    /\ status[t] \in Live \cup {"gone"}
    /\ Go(w, Call("wait", t))
    /\ UNCHANGED <<status, history, uploadVars>>

(* Whoever removes the slot owns the rest of the upload.                   *)
(* Mistake: the slot stays until the upload is over.                       *)
FinishTakesLate(w) ==
    LET t == Task(w) IN
    /\ At(w, "wait")
    /\ slot[t]
    /\ received[t] = Size[t]
    /\ Go(w, Call("client", t))
    /\ UNCHANGED <<status, history, uploadVars>>
FinishTakes(w) ==
    LET t == Task(w) IN
    /\ At(w, "wait")
    /\ slot[t]
    /\ received[t] = Size[t]
    /\ Claim(t)
    /\ Go(w, Call("client", t))
    /\ UNCHANGED <<status, history, received, sent, remote>>

(* Mistake: the wait for frames has no limit.                              *)
FinishNeverStalls(w) == FALSE
FinishStalls(w) ==
    LET t == Task(w) IN
    /\ At(w, "wait")
    /\ slot[t]
    /\ received[t] < Size[t]
    /\ Claim(t)
    /\ Go(w, Call("client", t))
    /\ UNCHANGED <<status, history, received, sent, remote>>

FinishNotFound(w) ==
    /\ At(w, "wait")
    /\ ~slot[Task(w)]
    /\ Go(w, Idle)
    /\ UNCHANGED <<status, history, uploadVars>>

(* The rc client of the connection's group: starting or reaching its rcd   *)
(* can fail, and then finish returns the error at once.                    *)
ClientReady(w) ==
    /\ At(w, "client")
    /\ status[Task(w)] # "gone"
    /\ Go(w, Call("upload", Task(w)))
    /\ UNCHANGED <<status, history, uploadVars>>

ClientFails(w) ==
    /\ At(w, "client")
    /\ Go(w, Idle)
    /\ UNCHANGED <<status, history, uploadVars>>

(* While the upload runs, the progress poller marks a queued job running.  *)
UploadProgress(w) ==
    /\ At(w, "upload")
    /\ status[Task(w)] = "queued"
    /\ MarkRunning(Task(w))
    /\ UNCHANGED <<history, call, uploadVars>>

(* UploadStaging::finish: the staged bytes are checked against a declared  *)
(* size (zero declares none), flushed, and moved to the target path; the   *)
(* answer to the last call may still be lost.                              *)
(* Mistake: whatever has arrived is uploaded.                              *)
SizeUnchecked(t) == TRUE
SizeMatches(t) == Size[t] > 0 => received[t] = Size[t]

UploadPlaced(w) ==
    LET t == Task(w) IN
    /\ At(w, "upload")
    /\ SizeMatches(t)
    /\ remote' = [remote EXCEPT ![t] = <<received[t]>>]
    /\ Go(w, Call("placed", t))
    /\ UNCHANGED <<status, history, slot, received, sent>>

UploadAnswers(w) ==
    /\ At(w, "placed")
    /\ Go(w, Settling(Task(w), "completed"))
    /\ UNCHANGED <<status, history, uploadVars>>

UploadFails(w) ==
    /\ At(w, "upload") \/ At(w, "placed")
    /\ Go(w, Settling(Task(w), "failed"))
    /\ UNCHANGED <<status, history, uploadVars>>

-----------------------------------------------------------------------------
(* files/transfer/cancel of an upload: the slot, then the job.  Without a  *)
(* slot the answer is "not found" and nothing changes.                     *)
(* Mistake: a cancel settles any live upload, with or without its slot.    *)
CancelAnyUpload(w, t) ==
    /\ call[w] = Idle
    /\ status[t] \in Live
    /\ Claim(t)
    /\ Go(w, Settling(t, "canceled"))
    /\ UNCHANGED <<status, history, received, sent, remote>>
CancelUpload(w, t) ==
    /\ call[w] = Idle
    /\ slot[t]
    /\ Claim(t)
    /\ Go(w, Settling(t, "canceled"))
    /\ UNCHANGED <<status, history, received, sent, remote>>

Restart ==
    /\ Hydrate
    /\ slot' = [t \in Tasks |-> FALSE]
    /\ UNCHANGED <<received, sent, remote>>

-----------------------------------------------------------------------------
Jobs(w) ==
    /\ \/ Settle(w)
       \/ Record(w)
       \/ RecordFails(w)
       \/ ClearDrop(w)
    /\ UNCHANGED uploadVars

(* The next step of the handler a worker is in.                            *)
Work(w) ==
    \/ FrameAppended(w)
    \/ FrameRefused(w)
    \/ FrameTooLate(w)
    \/ FrameMarks(w)
    \/ FinishTakes(w)
    \/ FinishStalls(w)
    \/ FinishNotFound(w)
    \/ ClientReady(w)
    \/ ClientFails(w)
    \/ UploadPlaced(w)
    \/ UploadAnswers(w)
    \/ UploadFails(w)
    \/ Jobs(w)

(* A request or a frame of the host that an idle worker takes up.          *)
Arrive(w) ==
    \/ \E t \in Tasks : \/ StartUpload(w, t)
                        \/ TakeFrame(w, t)
                        \/ FinishCall(w, t)
                        \/ CancelUpload(w, t)
                        \/ Delete(w, t) /\ UNCHANGED uploadVars
    \/ ClearCollect(w) /\ UNCHANGED uploadVars

Next ==
    \/ \E w \in Workers : Work(w) \/ UploadProgress(w) \/ Arrive(w)
    \/ Restart

Spec == Init /\ [][Next]_vars

(* A worker thread inside a handler keeps running.  Nothing obliges the    *)
(* client to call, or the sidecar to stay up.                              *)
FairSpec == Spec /\ \A w \in Workers : WF_vars(Work(w))

-----------------------------------------------------------------------------
UploadPhases == {"idle", "frame", "appended", "wait", "client", "upload",
                 "placed", "settle", "record", "drop"}

(* The types, with the staging file never ahead of the frames taken, and   *)
(* the rows of the history all terminal: what hydration may assume.        *)
TypeOK ==
    /\ JobsTypeOK(UploadPhases)
    /\ slot \in [Tasks -> BOOLEAN]
    /\ received \in [Tasks -> Nat]
    /\ sent \in [Tasks -> Nat]
    /\ \A t \in Tasks : received[t] <= sent[t] /\ sent[t] <= Size[t]
    /\ remote \in [Tasks -> Seq(Nat)]

(* A worker that owns the upload of t: it took the slot and has not yet    *)
(* settled the job; one about to write the row of t, and one about to      *)
(* remove t from mirror and history.                                       *)
Owns(w, t) == Task(w) = t /\ call[w].at \in {"client", "upload", "placed", "settle"}
Records(w, t) == Task(w) = t /\ At(w, "record")
Drops(w, t) == At(w, "drop") /\ t \in call[w].ids

(* An upload is settled by one party.  While the slot is there nobody owns *)
(* the upload, and at most one worker ever does.  Until it settles the job *)
(* the job is live, no row of it is written or being written, and no clear *)
(* has collected it: so the slot, and the work count of the proxy group    *)
(* that it holds, never outlives the job.  One worker at most writes the   *)
(* row, before which there is none.                                        *)
OneOwner ==
    \A t \in Tasks :
        /\ \A v, w \in Workers : Owns(v, t) /\ Owns(w, t) => v = w
        /\ slot[t] => \A w \in Workers : ~Owns(w, t)
        /\ slot[t] \/ (\E w \in Workers : Owns(w, t)) =>
              /\ status[t] \in Live
              /\ history[t] = <<>>
              /\ \A w \in Workers : ~Records(w, t) /\ ~Drops(w, t)
        /\ \A v, w \in Workers : Records(v, t) /\ Records(w, t) => v = w
        /\ \A w \in Workers : Records(w, t) => history[t] = <<>>

(* The transfer history has at most one row for an upload, however frames, *)
(* finish, cancel, clear and restarts interleave.                          *)
OneRow == \A t \in Tasks : Len(history[t]) <= 1

(* What the panel or the history says of an upload is true of its target:  *)
(* a completed one is there, whole, and a canceled one has put nothing     *)
(* there, so cancel and finish never both win.                             *)
OutcomeIsTrue ==
    \A t \in Tasks :
        /\ "completed" \in Outcomes(t) => remote[t] = <<Size[t]>>
        /\ "canceled" \in Outcomes(t) => remote[t] = <<>>

(* No handler holds its worker for ever, although finish waits for frames  *)
(* that only other workers can append.                                     *)
CallsReturn == \A w \in Workers : (call[w] # Idle) ~> (call[w] = Idle)

-----------------------------------------------------------------------------
(* "Moves a single-file rclone job to a terminal state exactly once": a    *)
(* settled job does not go back to a live state.                           *)
SettledForGood ==
    [][\A t \in Tasks : status[t] \in Terminal =>
          status'[t] \in {status[t], "gone"}]_vars

(* Finish "lands the job in a terminal state": the worker that took the    *)
(* slot does not return while the job is live.                             *)
FinishLands ==
    [][\A w \in Workers :
          At(w, "client") /\ call'[w] = Idle => status'[Task(w)] \notin Live]_vars

(* "The host binary channel is strictly sequential": the client sends the  *)
(* frames in order and none is lost, so none meets a gap.                  *)
FramesInOrder ==
    [][\A w \in Workers :
          At(w, "frame") /\ slot[Task(w)] /\ call'[w].at = "settle"
             => call[w].offset = received[Task(w)]]_vars
=============================================================================
