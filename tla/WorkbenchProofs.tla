--------------------------- MODULE WorkbenchProofs ---------------------------
(***************************************************************************)
(* Proofs about what the workbench does: its uploads, for any set of tasks *)
(* and of workers and any declared sizes; its remote edits, for any number *)
(* of sessions, of later opens, of saves and of failures; its streamed     *)
(* listings, for any directories, frames and caches; and the three beside  *)
(* each other.                                                             *)
(***************************************************************************)
EXTENDS MCWorkbench, Integers, PicksProofs, FiniteSetTheorems, SequenceTheorems, TLAPS

(* A worker holds a frame that was taken, and a task that has not started  *)
(* is served by nobody and has no row.                                     *)
Handed ==
    /\ \A w \in Workers : At(w, "frame") => call[w].offset < sent[Task(w)]
    /\ \A t \in Tasks : status[t] = "new" =>
          history[t] = <<>> /\ \A w \in Workers : Task(w) # t /\ ~Drops(w, t)

(* The rows of a task: none, or one.                                       *)
Rows ==
    \A t \in Tasks : history[t] = <<>> \/ \E o \in Terminal : history[t] = <<o>>

(* The target path of t, seen from where its upload is: nothing until the  *)
(* owner places the file, and the whole file for a completed outcome that  *)
(* is on its way or written down.                                          *)
Stored ==
    \A t \in Tasks :
        /\ slot[t] \/ status[t] = "new" => remote[t] = <<>>
        /\ \A w \in Workers : Task(w) = t =>
              /\ call[w].at \in {"client", "upload"} => remote[t] = <<>>
              /\ At(w, "placed") => remote[t] = <<Size[t]>>
              /\ call[w].at \in {"settle", "record"} =>
                    /\ call[w].as = "completed" => remote[t] = <<Size[t]>>
                    /\ call[w].as = "canceled" => remote[t] = <<>>
        /\ status[t] = "completed" \/ history[t] = <<"completed">> => remote[t] = <<Size[t]>>
        /\ status[t] = "canceled" \/ history[t] = <<"canceled">> => remote[t] = <<>>

Inv == TypeOK /\ Handed /\ OneOwner /\ Rows /\ Stored

LEMMA InitInv == Init => Inv
<1> SUFFICES ASSUME Init PROVE Inv
    OBVIOUS
<1> USE DEF Init, JobsInit
<1>1. TypeOK
  BY SizeAssumption DEF TypeOK, JobsTypeOK, Idle, Call, UploadPhases, Task,
     Statuses, Live, Terminal
<1>2. Handed
  BY NoTaskAssumption DEF Handed, Idle, Call, At, Task, Drops
<1>3. OneOwner
  BY DEF OneOwner, Owns, Records, Idle, Call, At, Task
<1>4. Rows /\ Stored
  BY DEF Rows, Stored, Idle, Call, At, Task
<1> QED BY <1>1, <1>2, <1>3, <1>4 DEF Inv

(* Every action keeps the types.                                           *)
LEMMA TypeStep == TypeOK /\ Handed /\ [Next]_vars => TypeOK'
<1> SUFFICES ASSUME TypeOK, Handed, [Next]_vars PROVE TypeOK'
    OBVIOUS
<1> USE SizeAssumption, NoTaskAssumption
    DEF TypeOK, JobsTypeOK, UploadPhases, Statuses, Live, Terminal, At, Task,
        Go, Call, Idle, Settling, Recording, Claim, jobVars, uploadVars
<1>1. ASSUME NEW w \in Workers, NEW t \in Tasks, StartUpload(w, t) PROVE TypeOK'
  BY <1>1 DEF StartUpload
<1>2. ASSUME NEW w \in Workers, NEW t \in Tasks, TakeFrame(w, t) PROVE TypeOK'
  <2>1. sent[t] \in Nat /\ Size[t] \in Nat /\ sent[t] < Size[t]
    BY <1>2 DEF TakeFrame
  <2>2. sent' = [sent EXCEPT ![t] = sent[t] + 1] /\ received' = received
    BY <1>2 DEF TakeFrame
  <2>3. sent' \in [Tasks -> Nat] /\ received' \in [Tasks -> Nat]
    BY <2>1, <2>2
  <2>4. \A u \in Tasks : received'[u] <= sent'[u] /\ sent'[u] <= Size[u]
    BY <2>1, <2>2
  <2>5. JobsTypeOK(UploadPhases)'
    BY <1>2, <2>1 DEF TakeFrame
  <2> QED BY <1>2, <2>3, <2>4, <2>5 DEF TakeFrame
<1>3. ASSUME NEW w \in Workers, NEW t \in Tasks, FinishCall(w, t) PROVE TypeOK'
  BY <1>3 DEF FinishCall
<1>4. ASSUME NEW w \in Workers, NEW t \in Tasks, CancelUpload(w, t) PROVE TypeOK'
  BY <1>4 DEF CancelUpload
<1>5. ASSUME NEW w \in Workers, FrameAppended(w) PROVE TypeOK'
  <2> DEFINE t == Task(w)
  <2>1. t \in Tasks
    BY <1>5 DEF FrameAppended
  <2>2. received[t] \in Nat /\ sent[t] \in Nat /\ received[t] < sent[t]
    BY <1>5, <2>1 DEF FrameAppended, Handed
  <2>3. received' = [received EXCEPT ![t] = received[t] + 1] /\ sent' = sent
    BY <1>5 DEF FrameAppended
  <2>4. received' \in [Tasks -> Nat] /\ sent' \in [Tasks -> Nat]
    BY <2>1, <2>2, <2>3
  <2>5. \A u \in Tasks : received'[u] <= sent'[u] /\ sent'[u] <= Size[u]
    BY <2>1, <2>2, <2>3
  <2>6. JobsTypeOK(UploadPhases)'
    BY <1>5, <2>1 DEF FrameAppended
  <2> QED BY <1>5, <2>4, <2>5, <2>6 DEF FrameAppended
<1>6. ASSUME NEW w \in Workers, FrameRefused(w) PROVE TypeOK'
  BY <1>6 DEF FrameRefused
<1>7. ASSUME NEW w \in Workers, FrameTooLate(w) PROVE TypeOK'
  BY <1>7 DEF FrameTooLate
<1>8. ASSUME NEW w \in Workers, FrameMarks(w) PROVE TypeOK'
  BY <1>8 DEF FrameMarks
<1>9. ASSUME NEW w \in Workers, FinishTakes(w) PROVE TypeOK'
  BY <1>9 DEF FinishTakes
<1>10. ASSUME NEW w \in Workers, FinishStalls(w) PROVE TypeOK'
  BY <1>10 DEF FinishStalls
<1>11. ASSUME NEW w \in Workers, FinishNotFound(w) PROVE TypeOK'
  BY <1>11 DEF FinishNotFound
<1>12. ASSUME NEW w \in Workers, ClientReady(w) PROVE TypeOK'
  BY <1>12 DEF ClientReady
<1>13. ASSUME NEW w \in Workers, ClientFails(w) PROVE TypeOK'
  BY <1>13 DEF ClientFails
<1>14. ASSUME NEW w \in Workers, UploadPlaced(w) PROVE TypeOK'
  <2>1. Task(w) \in Tasks /\ received[Task(w)] \in Nat
    BY <1>14 DEF UploadPlaced
  <2>2. <<received[Task(w)]>> \in Seq(Nat)
    BY <2>1
  <2>3. remote' \in [Tasks -> Seq(Nat)]
    BY <1>14, <2>2 DEF UploadPlaced
  <2> QED BY <1>14, <2>1, <2>3 DEF UploadPlaced
<1>15. ASSUME NEW w \in Workers, UploadAnswers(w) PROVE TypeOK'
  BY <1>15 DEF UploadAnswers
<1>16. ASSUME NEW w \in Workers, UploadFails(w) PROVE TypeOK'
  BY <1>16 DEF UploadFails
<1>17. ASSUME NEW w \in Workers, UploadProgress(w) PROVE TypeOK'
  BY <1>17 DEF UploadProgress, MarkRunning
<1>18. ASSUME NEW w \in Workers, ClearCollect(w), UNCHANGED uploadVars PROVE TypeOK'
  BY <1>18 DEF ClearCollect
<1>19. ASSUME NEW w \in Workers, Settle(w), UNCHANGED uploadVars PROVE TypeOK'
  <2>1. Task(w) \in Tasks /\ call[w].as \in Terminal
    BY <1>19 DEF Settle
  <2>2. status' \in [Tasks -> Statuses]
    BY <1>19, <2>1 DEF Settle, Complete
  <2> QED BY <1>19, <2>1, <2>2 DEF Settle
<1>20. ASSUME NEW w \in Workers, Record(w), UNCHANGED uploadVars PROVE TypeOK'
  <2>1. Task(w) \in Tasks /\ call[w].as \in Terminal
    BY <1>20 DEF Record
  <2>2. history[Task(w)] \in Seq(Terminal)
    BY <2>1
  <2>3. Append(history[Task(w)], call[w].as) \in Seq(Terminal)
    BY <2>1, <2>2
  <2>4. history' \in [Tasks -> Seq(Terminal)]
    BY <1>20, <2>3 DEF Record, RecordRow
  <2> QED BY <1>20, <2>4 DEF Record
<1>21. ASSUME NEW w \in Workers, RecordFails(w), UNCHANGED uploadVars PROVE TypeOK'
  BY <1>21 DEF RecordFails
<1>22. ASSUME NEW w \in Workers, ClearDrop(w), UNCHANGED uploadVars PROVE TypeOK'
  BY <1>22 DEF ClearDrop, Remove
<1>23. ASSUME NEW w \in Workers, NEW t \in Tasks, Delete(w, t), UNCHANGED uploadVars PROVE TypeOK'
  BY <1>23 DEF Delete, Remove
<1>24. CASE Restart
  BY <1>24 DEF Restart, Hydrate
<1>25. CASE UNCHANGED vars
  BY <1>25 DEF vars
<1> QED
  BY <1>1, <1>2, <1>3, <1>4, <1>5, <1>6, <1>7, <1>8, <1>9, <1>10, <1>11, <1>12, <1>13, <1>14, <1>15, <1>16, <1>17, <1>18, <1>19, <1>20, <1>21, <1>22, <1>23, <1>24, <1>25 DEF Next, Work, Jobs, Arrive

(* Every action keeps Handed.                                              *)
LEMMA HandedStep ==
    TypeOK /\ Handed /\ OneOwner /\ [Next]_vars => Handed'
<1> SUFFICES ASSUME TypeOK, Handed, OneOwner, [Next]_vars PROVE Handed'
    OBVIOUS
<1> USE NoTaskAssumption, SizeAssumption
    DEF TypeOK, JobsTypeOK, UploadPhases, Statuses, Live, Terminal, At, Task,
        Go, Call, Idle, Settling, Recording, Claim, jobVars, uploadVars, Handed, Drops
<1>1. ASSUME NEW w \in Workers, NEW t \in Tasks, StartUpload(w, t) PROVE Handed'
  BY <1>1 DEF StartUpload
<1>2. ASSUME NEW w \in Workers, NEW t \in Tasks, TakeFrame(w, t) PROVE Handed'
  BY <1>2 DEF TakeFrame
<1>3. ASSUME NEW w \in Workers, NEW t \in Tasks, FinishCall(w, t) PROVE Handed'
  BY <1>3 DEF FinishCall
<1>4. ASSUME NEW w \in Workers, NEW t \in Tasks, CancelUpload(w, t) PROVE Handed'
  <2>1. call' = [call EXCEPT ![w] = Settling(t, "canceled")] /\ status' = status /\ sent' = sent
    BY <1>4 DEF CancelUpload
  <2>2. status[t] # "new" /\ history' = history
    BY <1>4 DEF CancelUpload, OneOwner
  <2>3. call'[w].at = "settle" /\ call'[w].task = t
    BY <2>1
  <2> QED BY <2>1, <2>2, <2>3
<1>5. ASSUME NEW w \in Workers, FrameAppended(w) PROVE Handed'
  BY <1>5 DEF FrameAppended
<1>6. ASSUME NEW w \in Workers, FrameRefused(w) PROVE Handed'
  BY <1>6 DEF FrameRefused
<1>7. ASSUME NEW w \in Workers, FrameTooLate(w) PROVE Handed'
  BY <1>7 DEF FrameTooLate
<1>8. ASSUME NEW w \in Workers, FrameMarks(w) PROVE Handed'
  BY <1>8 DEF FrameMarks
<1>9. ASSUME NEW w \in Workers, FinishTakes(w) PROVE Handed'
  BY <1>9 DEF FinishTakes
<1>10. ASSUME NEW w \in Workers, FinishStalls(w) PROVE Handed'
  BY <1>10 DEF FinishStalls
<1>11. ASSUME NEW w \in Workers, FinishNotFound(w) PROVE Handed'
  BY <1>11 DEF FinishNotFound
<1>12. ASSUME NEW w \in Workers, ClientReady(w) PROVE Handed'
  BY <1>12 DEF ClientReady
<1>13. ASSUME NEW w \in Workers, ClientFails(w) PROVE Handed'
  BY <1>13 DEF ClientFails
<1>14. ASSUME NEW w \in Workers, UploadPlaced(w) PROVE Handed'
  BY <1>14 DEF UploadPlaced
<1>15. ASSUME NEW w \in Workers, UploadAnswers(w) PROVE Handed'
  BY <1>15 DEF UploadAnswers
<1>16. ASSUME NEW w \in Workers, UploadFails(w) PROVE Handed'
  BY <1>16 DEF UploadFails
<1>17. ASSUME NEW w \in Workers, UploadProgress(w) PROVE Handed'
  BY <1>17 DEF UploadProgress, MarkRunning
<1>18. ASSUME NEW w \in Workers, ClearCollect(w), UNCHANGED uploadVars PROVE Handed'
  BY <1>18 DEF ClearCollect
<1>19. ASSUME NEW w \in Workers, Settle(w), UNCHANGED uploadVars PROVE Handed'
  BY <1>19 DEF Settle, Complete, Accepts
<1>20. ASSUME NEW w \in Workers, Record(w), UNCHANGED uploadVars PROVE Handed'
  BY <1>20 DEF Record, RecordRow
<1>21. ASSUME NEW w \in Workers, RecordFails(w), UNCHANGED uploadVars PROVE Handed'
  BY <1>21 DEF RecordFails
<1>22. ASSUME NEW w \in Workers, ClearDrop(w), UNCHANGED uploadVars PROVE Handed'
  BY <1>22 DEF ClearDrop, Remove
<1>23. ASSUME NEW w \in Workers, NEW t \in Tasks, Delete(w, t), UNCHANGED uploadVars
      PROVE  Handed'
  BY <1>23 DEF Delete, Remove
<1>24. CASE Restart
  <2>1. ASSUME NEW t \in Tasks, status'[t] = "new" PROVE history'[t] = <<>>
    <3>1. CASE history[t] = <<>>
      BY <1>24, <3>1 DEF Restart, Hydrate
    <3>2. CASE history[t] # <<>>
      <4>1. Head(history[t]) \in Terminal
        BY <3>2
      <4>2. status'[t] = Head(history[t])
        BY <1>24, <3>2 DEF Restart, Hydrate
      <4> QED BY <2>1, <4>1, <4>2
    <3> QED BY <3>1, <3>2
  <2> QED BY <1>24, <2>1 DEF Restart, Hydrate
<1>25. CASE UNCHANGED vars
  BY <1>25 DEF vars
<1> QED
  BY <1>1, <1>2, <1>3, <1>4, <1>5, <1>6, <1>7, <1>8, <1>9, <1>10, <1>11, <1>12, <1>13, <1>14, <1>15, <1>16, <1>17, <1>18, <1>19, <1>20, <1>21, <1>22, <1>23, <1>24, <1>25 DEF Next, Work, Jobs, Arrive

(* Every action keeps the single owner.                                    *)
LEMMA OwnerStep ==
    TypeOK /\ Handed /\ OneOwner /\ Rows /\ [Next]_vars => OneOwner'
<1> SUFFICES ASSUME TypeOK, Handed, OneOwner, Rows, [Next]_vars PROVE OneOwner'
    OBVIOUS
<1> USE NoTaskAssumption, SizeAssumption
    DEF TypeOK, JobsTypeOK, UploadPhases, Statuses, Live, Terminal, At, Task,
        Go, Call, Idle, Settling, Recording, Claim, jobVars, uploadVars, Handed, OneOwner,
        Owns, Records, Drops, Rows
<1>1. ASSUME NEW w \in Workers, NEW t \in Tasks, StartUpload(w, t) PROVE OneOwner'
  <2>1. \A v \in Workers : Task(v) # t /\ ~Drops(v, t)
    BY <1>1 DEF StartUpload
  <2>2. history[t] = <<>>
    BY <1>1 DEF StartUpload
  <2> QED BY <1>1, <2>1, <2>2 DEF StartUpload
<1>2. ASSUME NEW w \in Workers, NEW t \in Tasks, TakeFrame(w, t) PROVE OneOwner'
  BY <1>2 DEF TakeFrame
<1>3. ASSUME NEW w \in Workers, NEW t \in Tasks, FinishCall(w, t) PROVE OneOwner'
  BY <1>3 DEF FinishCall
<1>4. ASSUME NEW w \in Workers, NEW t \in Tasks, CancelUpload(w, t) PROVE OneOwner'
  BY <1>4 DEF CancelUpload
<1>5. ASSUME NEW w \in Workers, FrameAppended(w) PROVE OneOwner'
  BY <1>5 DEF FrameAppended
<1>6. ASSUME NEW w \in Workers, FrameRefused(w) PROVE OneOwner'
  BY <1>6 DEF FrameRefused
<1>7. ASSUME NEW w \in Workers, FrameTooLate(w) PROVE OneOwner'
  BY <1>7 DEF FrameTooLate
<1>8. ASSUME NEW w \in Workers, FrameMarks(w) PROVE OneOwner'
  BY <1>8 DEF FrameMarks
<1>9. ASSUME NEW w \in Workers, FinishTakes(w) PROVE OneOwner'
  BY <1>9 DEF FinishTakes
<1>10. ASSUME NEW w \in Workers, FinishStalls(w) PROVE OneOwner'
  BY <1>10 DEF FinishStalls
<1>11. ASSUME NEW w \in Workers, FinishNotFound(w) PROVE OneOwner'
  BY <1>11 DEF FinishNotFound
<1>12. ASSUME NEW w \in Workers, ClientReady(w) PROVE OneOwner'
  BY <1>12 DEF ClientReady
<1>13. ASSUME NEW w \in Workers, ClientFails(w) PROVE OneOwner'
  BY <1>13 DEF ClientFails
<1>14. ASSUME NEW w \in Workers, UploadPlaced(w) PROVE OneOwner'
  BY <1>14 DEF UploadPlaced
<1>15. ASSUME NEW w \in Workers, UploadAnswers(w) PROVE OneOwner'
  BY <1>15 DEF UploadAnswers
<1>16. ASSUME NEW w \in Workers, UploadFails(w) PROVE OneOwner'
  BY <1>16 DEF UploadFails
<1>17. ASSUME NEW w \in Workers, UploadProgress(w) PROVE OneOwner'
  BY <1>17 DEF UploadProgress, MarkRunning
<1>18. ASSUME NEW w \in Workers, ClearCollect(w), UNCHANGED uploadVars PROVE OneOwner'
  BY <1>18 DEF ClearCollect
<1>19. ASSUME NEW w \in Workers, Settle(w), UNCHANGED uploadVars PROVE OneOwner'
  BY <1>19 DEF Settle, Complete, Accepts
<1>20. ASSUME NEW w \in Workers, Record(w), UNCHANGED uploadVars PROVE OneOwner'
  BY <1>20 DEF Record, RecordRow
<1>21. ASSUME NEW w \in Workers, RecordFails(w), UNCHANGED uploadVars PROVE OneOwner'
  BY <1>21 DEF RecordFails
<1>22. ASSUME NEW w \in Workers, ClearDrop(w), UNCHANGED uploadVars PROVE OneOwner'
  BY <1>22 DEF ClearDrop, Remove
<1>23. ASSUME NEW w \in Workers, NEW t \in Tasks, Delete(w, t), UNCHANGED uploadVars
      PROVE  OneOwner'
  BY <1>23 DEF Delete, Remove
<1>24. CASE Restart
  BY <1>24 DEF Restart, Hydrate
<1>25. CASE UNCHANGED vars
  BY <1>25 DEF vars
<1> QED
  BY <1>1, <1>2, <1>3, <1>4, <1>5, <1>6, <1>7, <1>8, <1>9, <1>10, <1>11, <1>12, <1>13, <1>14, <1>15, <1>16, <1>17, <1>18, <1>19, <1>20, <1>21, <1>22, <1>23, <1>24, <1>25 DEF Next, Work, Jobs, Arrive

(* Every action keeps at most one row.                                     *)
LEMMA RowsStep ==
    TypeOK /\ OneOwner /\ Rows /\ [Next]_vars => Rows'
<1> SUFFICES ASSUME TypeOK, OneOwner, Rows, [Next]_vars PROVE Rows'
    OBVIOUS
<1> USE NoTaskAssumption, SizeAssumption
    DEF TypeOK, JobsTypeOK, UploadPhases, Statuses, Live, Terminal, At, Task,
        Go, Call, Idle, Settling, Recording, Claim, jobVars, uploadVars, OneOwner, Owns,
        Records, Drops, Rows
<1>1. ASSUME NEW w \in Workers, NEW t \in Tasks, StartUpload(w, t) PROVE Rows'
  BY <1>1 DEF StartUpload
<1>2. ASSUME NEW w \in Workers, NEW t \in Tasks, TakeFrame(w, t) PROVE Rows'
  BY <1>2 DEF TakeFrame
<1>3. ASSUME NEW w \in Workers, NEW t \in Tasks, FinishCall(w, t) PROVE Rows'
  BY <1>3 DEF FinishCall
<1>4. ASSUME NEW w \in Workers, NEW t \in Tasks, CancelUpload(w, t) PROVE Rows'
  BY <1>4 DEF CancelUpload
<1>5. ASSUME NEW w \in Workers, FrameAppended(w) PROVE Rows'
  BY <1>5 DEF FrameAppended
<1>6. ASSUME NEW w \in Workers, FrameRefused(w) PROVE Rows'
  BY <1>6 DEF FrameRefused
<1>7. ASSUME NEW w \in Workers, FrameTooLate(w) PROVE Rows'
  BY <1>7 DEF FrameTooLate
<1>8. ASSUME NEW w \in Workers, FrameMarks(w) PROVE Rows'
  BY <1>8 DEF FrameMarks
<1>9. ASSUME NEW w \in Workers, FinishTakes(w) PROVE Rows'
  BY <1>9 DEF FinishTakes
<1>10. ASSUME NEW w \in Workers, FinishStalls(w) PROVE Rows'
  BY <1>10 DEF FinishStalls
<1>11. ASSUME NEW w \in Workers, FinishNotFound(w) PROVE Rows'
  BY <1>11 DEF FinishNotFound
<1>12. ASSUME NEW w \in Workers, ClientReady(w) PROVE Rows'
  BY <1>12 DEF ClientReady
<1>13. ASSUME NEW w \in Workers, ClientFails(w) PROVE Rows'
  BY <1>13 DEF ClientFails
<1>14. ASSUME NEW w \in Workers, UploadPlaced(w) PROVE Rows'
  BY <1>14 DEF UploadPlaced
<1>15. ASSUME NEW w \in Workers, UploadAnswers(w) PROVE Rows'
  BY <1>15 DEF UploadAnswers
<1>16. ASSUME NEW w \in Workers, UploadFails(w) PROVE Rows'
  BY <1>16 DEF UploadFails
<1>17. ASSUME NEW w \in Workers, UploadProgress(w) PROVE Rows'
  BY <1>17 DEF UploadProgress, MarkRunning
<1>18. ASSUME NEW w \in Workers, ClearCollect(w), UNCHANGED uploadVars PROVE Rows'
  BY <1>18 DEF ClearCollect
<1>19. ASSUME NEW w \in Workers, Settle(w), UNCHANGED uploadVars PROVE Rows'
  BY <1>19 DEF Settle, Complete, Accepts
<1>20. ASSUME NEW w \in Workers, Record(w), UNCHANGED uploadVars PROVE Rows'
  <2>1. Task(w) \in Tasks /\ call[w].as \in Terminal /\ history[Task(w)] = <<>>
    BY <1>20 DEF Record
  <2>2. Append(history[Task(w)], call[w].as) = <<call[w].as>>
    BY <2>1
  <2>3. history' = [history EXCEPT ![Task(w)] = <<call[w].as>>]
    BY <1>20, <2>2 DEF Record, RecordRow
  <2> QED BY <1>20, <2>1, <2>3 DEF Record
<1>21. ASSUME NEW w \in Workers, RecordFails(w), UNCHANGED uploadVars PROVE Rows'
  BY <1>21 DEF RecordFails
<1>22. ASSUME NEW w \in Workers, ClearDrop(w), UNCHANGED uploadVars PROVE Rows'
  BY <1>22 DEF ClearDrop, Remove
<1>23. ASSUME NEW w \in Workers, NEW t \in Tasks, Delete(w, t), UNCHANGED uploadVars
      PROVE  Rows'
  BY <1>23 DEF Delete, Remove
<1>24. CASE Restart
  BY <1>24 DEF Restart, Hydrate
<1>25. CASE UNCHANGED vars
  BY <1>25 DEF vars
<1> QED
  BY <1>1, <1>2, <1>3, <1>4, <1>5, <1>6, <1>7, <1>8, <1>9, <1>10, <1>11, <1>12, <1>13, <1>14, <1>15, <1>16, <1>17, <1>18, <1>19, <1>20, <1>21, <1>22, <1>23, <1>24, <1>25 DEF Next, Work, Jobs, Arrive

(* Every action keeps what the target paths hold.                          *)
LEMMA StoredStep ==
    TypeOK /\ Handed /\ OneOwner /\ Rows /\ Stored /\ [Next]_vars => Stored'
<1> SUFFICES ASSUME TypeOK, Handed, OneOwner, Rows, Stored, [Next]_vars PROVE Stored'
    OBVIOUS
<1> USE NoTaskAssumption, SizeAssumption
    DEF TypeOK, JobsTypeOK, UploadPhases, Statuses, Live, Terminal, At, Task,
        Go, Call, Idle, Settling, Recording, Claim, jobVars, uploadVars, Handed, OneOwner,
        Owns, Records, Drops, Rows, Stored
<1>1. ASSUME NEW w \in Workers, NEW t \in Tasks, StartUpload(w, t) PROVE Stored'
  BY <1>1 DEF StartUpload
<1>2. ASSUME NEW w \in Workers, NEW t \in Tasks, TakeFrame(w, t) PROVE Stored'
  BY <1>2 DEF TakeFrame
<1>3. ASSUME NEW w \in Workers, NEW t \in Tasks, FinishCall(w, t) PROVE Stored'
  BY <1>3 DEF FinishCall
<1>4. ASSUME NEW w \in Workers, NEW t \in Tasks, CancelUpload(w, t) PROVE Stored'
  BY <1>4 DEF CancelUpload
<1>5. ASSUME NEW w \in Workers, FrameAppended(w) PROVE Stored'
  BY <1>5 DEF FrameAppended
<1>6. ASSUME NEW w \in Workers, FrameRefused(w) PROVE Stored'
  BY <1>6 DEF FrameRefused
<1>7. ASSUME NEW w \in Workers, FrameTooLate(w) PROVE Stored'
  BY ZenonT(60), <1>7 DEF FrameTooLate
<1>8. ASSUME NEW w \in Workers, FrameMarks(w) PROVE Stored'
  BY <1>8 DEF FrameMarks
<1>9. ASSUME NEW w \in Workers, FinishTakes(w) PROVE Stored'
  BY <1>9 DEF FinishTakes
<1>10. ASSUME NEW w \in Workers, FinishStalls(w) PROVE Stored'
  BY <1>10 DEF FinishStalls
<1>11. ASSUME NEW w \in Workers, FinishNotFound(w) PROVE Stored'
  BY ZenonT(60), <1>11 DEF FinishNotFound
<1>12. ASSUME NEW w \in Workers, ClientReady(w) PROVE Stored'
  BY <1>12 DEF ClientReady
<1>13. ASSUME NEW w \in Workers, ClientFails(w) PROVE Stored'
  BY ZenonT(60), <1>13 DEF ClientFails
<1>14. ASSUME NEW w \in Workers, UploadPlaced(w) PROVE Stored'
  <2> DEFINE t == Task(w)
  <2>1. t \in Tasks /\ Owns(w, t) /\ SizeMatches(t)
    BY <1>14 DEF UploadPlaced
  <2>2. received[t] = Size[t]
    <3>1. received[t] \in Nat /\ Size[t] \in Nat /\ received[t] <= Size[t]
      BY <2>1
    <3> QED BY <2>1, <3>1 DEF SizeMatches
  <2>3. remote' = [remote EXCEPT ![t] = <<Size[t]>>]
    BY <1>14, <2>2 DEF UploadPlaced
  <2>4. ~slot[t] /\ status[t] \in Live /\ history[t] = <<>>
    BY <2>1
  <2>5. ASSUME NEW v \in Workers, v # w, Task(v) = t
        PROVE  call[v].at \notin {"client", "upload", "placed", "settle", "record"}
    BY <2>1, <2>5
  <2>6. call' = [call EXCEPT ![w] = Call("placed", t)] /\ status' = status
        /\ slot' = slot /\ history' = history
    BY <1>14 DEF UploadPlaced
  <2>7. history[t] # <<"completed">> /\ history[t] # <<"canceled">>
    BY <2>4
  <2>8. ASSUME NEW u \in Tasks, NEW v \in Workers, call'[v].task = u
        PROVE  /\ call'[v].at \in {"client", "upload"} => remote'[u] = <<>>
               /\ call'[v].at = "placed" => remote'[u] = <<Size[u]>>
               /\ call'[v].at \in {"settle", "record"} =>
                     /\ call'[v].as = "completed" => remote'[u] = <<Size[u]>>
                     /\ call'[v].as = "canceled" => remote'[u] = <<>>
    <3>1. CASE v = w
      BY <2>1, <2>3, <2>6, <2>8, <3>1
    <3>2. CASE v # w /\ u = t
      BY <2>1, <2>5, <2>6, <2>8, <3>2
    <3>3. CASE v # w /\ u # t
      BY <2>1, <2>3, <2>6, <2>8, <3>3
    <3> QED BY <3>1, <3>2, <3>3
  <2>9. ASSUME NEW u \in Tasks
        PROVE  /\ slot'[u] \/ status'[u] = "new" => remote'[u] = <<>>
               /\ status'[u] = "completed" \/ history'[u] = <<"completed">>
                     => remote'[u] = <<Size[u]>>
               /\ status'[u] = "canceled" \/ history'[u] = <<"canceled">> => remote'[u] = <<>>
    <3>1. CASE u = t
      BY <2>4, <2>6, <2>7, <3>1
    <3>2. CASE u # t
      BY <2>1, <2>3, <2>6, <3>2
    <3> QED BY <3>1, <3>2
  <2> QED BY <2>8, <2>9
<1>15. ASSUME NEW w \in Workers, UploadAnswers(w) PROVE Stored'
  BY <1>15 DEF UploadAnswers
<1>16. ASSUME NEW w \in Workers, UploadFails(w) PROVE Stored'
  BY <1>16 DEF UploadFails
<1>17. ASSUME NEW w \in Workers, UploadProgress(w) PROVE Stored'
  BY <1>17 DEF UploadProgress, MarkRunning
<1>18. ASSUME NEW w \in Workers, ClearCollect(w), UNCHANGED uploadVars PROVE Stored'
  BY <1>18 DEF ClearCollect
<1>19. ASSUME NEW w \in Workers, Settle(w), UNCHANGED uploadVars PROVE Stored'
  BY SMTT(60), <1>19 DEF Settle, Complete, Accepts
<1>20. ASSUME NEW w \in Workers, Record(w), UNCHANGED uploadVars PROVE Stored'
  <2>1. Task(w) \in Tasks /\ call[w].as \in Terminal /\ history[Task(w)] = <<>>
    BY <1>20 DEF Record
  <2>2. Append(history[Task(w)], call[w].as) = <<call[w].as>>
    BY <2>1
  <2>3. history' = [history EXCEPT ![Task(w)] = <<call[w].as>>]
    BY <1>20, <2>2 DEF Record, RecordRow
  <2>4. call' = [call EXCEPT ![w] = Idle] /\ status' = status /\ slot' = slot /\ remote' = remote
    BY <1>20 DEF Record
  <2>5. <<call[w].as>>[1] = call[w].as
    OBVIOUS
  <2>6. ASSUME NEW t \in Tasks, t # Task(w) PROVE history'[t] = history[t]
    BY <2>1, <2>3, <2>6
  <2>7. ASSUME NEW o \in Terminal, history'[Task(w)] = <<o>> PROVE o = call[w].as
    BY <2>1, <2>3, <2>7
  <2>8. /\ call[w].as = "completed" => remote[Task(w)] = <<Size[Task(w)]>>
        /\ call[w].as = "canceled" => remote[Task(w)] = <<>>
    BY <1>20, <2>1 DEF Record
  <2>9. ASSUME NEW t \in Tasks
        PROVE  /\ status'[t] = "completed" \/ history'[t] = <<"completed">>
                     => remote'[t] = <<Size[t]>>
               /\ status'[t] = "canceled" \/ history'[t] = <<"canceled">> => remote'[t] = <<>>
    <3>1. CASE t = Task(w)
      BY <2>4, <2>7, <2>8, <3>1
    <3>2. CASE t # Task(w)
      BY <2>4, <2>6, <3>2
    <3> QED BY <3>1, <3>2
  <2> QED BY SMTT(60), <2>1, <2>4, <2>9
<1>21. ASSUME NEW w \in Workers, RecordFails(w), UNCHANGED uploadVars PROVE Stored'
  BY <1>21 DEF RecordFails
<1>22. ASSUME NEW w \in Workers, ClearDrop(w), UNCHANGED uploadVars PROVE Stored'
  <2>1. UNCHANGED <<remote, slot>> /\ call'[w].at = "idle" /\ \A v \in Workers : v # w => call'[v] = call[v]
    BY <1>22 DEF ClearDrop
  <2>2. \A u \in Tasks : status'[u] \in {status[u], "gone"} /\ history'[u] \in {history[u], <<>>}
    BY <1>22 DEF ClearDrop, Remove
  <2>3. \A o \in Terminal : <<>> # <<o>>
    OBVIOUS
  <2>4. ASSUME NEW u \in Tasks, NEW o \in Terminal, status'[u] = o \/ history'[u] = <<o>>
        PROVE  status[u] = o \/ history[u] = <<o>>
    BY <2>2, <2>3, <2>4
  <2>6. ASSUME NEW u \in Tasks
        PROVE  \A v \in Workers : Task(v)' = u =>
              /\ call'[v].at \in {"client", "upload"} => remote'[u] = <<>>
              /\ At(v, "placed")' => remote'[u] = <<Size[u]>>
              /\ call'[v].at \in {"settle", "record"} =>
                    /\ call'[v].as = "completed" => remote'[u] = <<Size[u]>>
                    /\ call'[v].as = "canceled" => remote'[u] = <<>>
    <3>1. TAKE v \in Workers
    <3>2. CASE v = w
      BY <2>1, <3>2
    <3>3. CASE v # w
      <4>1. call'[v] = call[v] /\ remote' = remote
        BY <2>1, <3>3
      <4> QED BY <4>1
    <3> QED BY <3>2, <3>3
  <2>7. ASSUME NEW u \in Tasks
        PROVE  /\ slot'[u] \/ status'[u] = "new" => remote'[u] = <<>>
               /\ status'[u] = "completed" \/ history'[u] = <<"completed">> => remote'[u] = <<Size[u]>>
               /\ status'[u] = "canceled" \/ history'[u] = <<"canceled">> => remote'[u] = <<>>
    BY <2>1, <2>2, <2>4
  <2> QED BY <2>6, <2>7
<1>23. ASSUME NEW w \in Workers, NEW t \in Tasks, Delete(w, t), UNCHANGED uploadVars
      PROVE  Stored'
  <2>1. UNCHANGED <<remote, slot>> /\ UNCHANGED call
    BY <1>23 DEF Delete
  <2>2. \A u \in Tasks : status'[u] \in {status[u], "gone"} /\ history'[u] \in {history[u], <<>>}
    BY <1>23 DEF Delete, Remove
  <2>3. \A o \in Terminal : <<>> # <<o>>
    OBVIOUS
  <2>4. ASSUME NEW u \in Tasks, NEW o \in Terminal, status'[u] = o \/ history'[u] = <<o>>
        PROVE  status[u] = o \/ history[u] = <<o>>
    BY <2>2, <2>3, <2>4
  <2>5. ASSUME NEW u \in Tasks
        PROVE  \A v \in Workers : Task(v)' = u =>
              /\ call'[v].at \in {"client", "upload"} => remote'[u] = <<>>
              /\ At(v, "placed")' => remote'[u] = <<Size[u]>>
              /\ call'[v].at \in {"settle", "record"} =>
                    /\ call'[v].as = "completed" => remote'[u] = <<Size[u]>>
                    /\ call'[v].as = "canceled" => remote'[u] = <<>>
    BY <2>1
  <2>6. ASSUME NEW u \in Tasks
        PROVE  /\ slot'[u] \/ status'[u] = "new" => remote'[u] = <<>>
               /\ status'[u] = "completed" \/ history'[u] = <<"completed">> => remote'[u] = <<Size[u]>>
               /\ status'[u] = "canceled" \/ history'[u] = <<"canceled">> => remote'[u] = <<>>
    BY <2>1, <2>2, <2>4
  <2> QED BY SMTT(60), <2>5, <2>6
<1>24. CASE Restart
  <2>1. slot' = [t \in Tasks |-> FALSE] /\ remote' = remote /\ history' = history
        /\ call' = [w \in Workers |-> Idle]
    BY <1>24 DEF Restart, Hydrate
  <2>2. ASSUME NEW t \in Tasks, history[t] = <<>>
        PROVE  status'[t] \in {status[t], "gone"} /\ (status'[t] = "new" <=> status[t] = "new")
               /\ status'[t] \notin Terminal
    BY <1>24, <2>2 DEF Restart, Hydrate
  <2>3. ASSUME NEW t \in Tasks, NEW o \in Terminal, history[t] = <<o>>
        PROVE  status'[t] = o
    <3>1. history[t] # <<>> /\ Head(history[t]) = o
      BY <2>3
    <3> QED BY <1>24, <3>1 DEF Restart, Hydrate
  <2>4. ASSUME NEW t \in Tasks
        PROVE  /\ status'[t] = "new" => remote[t] = <<>>
               /\ status'[t] = "completed" => remote[t] = <<Size[t]>>
               /\ status'[t] = "canceled" => remote[t] = <<>>
    <3>1. CASE history[t] = <<>>
      BY <2>2, <3>1
    <3>2. CASE \E o \in Terminal : history[t] = <<o>>
      BY <2>3, <3>2
    <3> QED BY <3>1, <3>2
  <2> QED BY <2>1, <2>4
<1>25. CASE UNCHANGED vars
  BY <1>25 DEF vars
<1> QED
  BY <1>1, <1>2, <1>3, <1>4, <1>5, <1>6, <1>7, <1>8, <1>9, <1>10, <1>11, <1>12, <1>13, <1>14, <1>15, <1>16, <1>17, <1>18, <1>19, <1>20, <1>21, <1>22, <1>23, <1>24, <1>25 DEF Next, Work, Jobs, Arrive

LEMMA InvStep == Inv /\ [Next]_vars => Inv'
BY TypeStep, HandedStep, OwnerStep, RowsStep, StoredStep DEF Inv

LEMMA SpecInv == Spec => []Inv
<1>1. Init => Inv
  BY InitInv
<1>2. Inv /\ [Next]_vars => Inv'
  BY InvStep
<1> QED BY <1>1, <1>2, PTL DEF Spec

-----------------------------------------------------------------------------
(* Every reachable state of the upload path is well typed.                 *)
THEOREM UploadTypes == Spec => []TypeOK
<1>1. Inv => TypeOK
  BY DEF Inv
<1> QED BY <1>1, SpecInv, PTL

(* No two handlers ever settle the same upload, and a slot in the uploads  *)
(* table (rclone/mod.rs) always belongs to a live job.                     *)
THEOREM UploadOneOwner == Spec => []OneOwner
<1>1. Inv => OneOwner
  BY DEF Inv
<1> QED BY <1>1, SpecInv, PTL

LEMMA RowsMean == Inv => OneRow
<1> SUFFICES ASSUME Inv, NEW t \in Tasks PROVE Len(history[t]) <= 1
  BY DEF OneRow
<1>1. CASE history[t] = <<>>
  BY <1>1
<1>2. CASE \E o \in Terminal : history[t] = <<o>>
  BY <1>2
<1> QED BY <1>1, <1>2 DEF Inv, Rows

(* transfers.json never gets a second row for an upload.                   *)
THEOREM UploadOneRow == Spec => []OneRow
BY RowsMean, SpecInv, PTL

(* An outcome that is shown is the state of the job or its only row.       *)
LEMMA OutcomeIsWritten ==
    ASSUME Inv, NEW t \in Tasks, NEW o \in Outcomes(t)
    PROVE  status[t] = o \/ history[t] = <<o>>
<1>1. CASE o = status[t]
  BY <1>1
<1>2. CASE \E i \in 1..Len(history[t]) : o = history[t][i]
  <2>1. CASE history[t] = <<>>
    BY <1>2, <2>1
  <2>2. CASE \E p \in Terminal : history[t] = <<p>>
    <3>1. PICK p \in Terminal : history[t] = <<p>>
      BY <2>2
    <3>2. Len(history[t]) = 1 /\ history[t][1] = p
      BY <3>1
    <3>3. o = p
      BY <1>2, <3>2
    <3> QED BY <3>1, <3>3
  <2> QED BY <2>1, <2>2 DEF Inv, Rows
<1> QED BY <1>1, <1>2 DEF Outcomes

LEMMA OutcomesMean == Inv => OutcomeIsTrue
<1> SUFFICES ASSUME Inv, NEW t \in Tasks
             PROVE  /\ "completed" \in Outcomes(t) => remote[t] = <<Size[t]>>
                    /\ "canceled" \in Outcomes(t) => remote[t] = <<>>
  BY DEF OutcomeIsTrue
<1>1. ASSUME "completed" \in Outcomes(t) PROVE remote[t] = <<Size[t]>>
  <2>1. status[t] = "completed" \/ history[t] = <<"completed">>
    BY <1>1, OutcomeIsWritten
  <2> QED BY <2>1 DEF Inv, Stored
<1>2. ASSUME "canceled" \in Outcomes(t) PROVE remote[t] = <<>>
  <2>1. status[t] = "canceled" \/ history[t] = <<"canceled">>
    BY <1>2, OutcomeIsWritten
  <2> QED BY <2>1 DEF Inv, Stored
<1> QED BY <1>1, <1>2

(* A completed upload is whole at its target path (finish_rclone_upload    *)
(* and UploadStaging::finish), and a canceled one has left it alone:       *)
(* cancel and finish cannot both take the slot.                            *)
THEOREM UploadOutcomeIsTrue == Spec => []OutcomeIsTrue
BY OutcomesMean, SpecInv, PTL

------------------------------------------------------------------------------
(* Remote edits.                                                           *)
EditStatuses == {"none", "downloading", "watching", "syncing", "error"}
EditStates == [status : EditStatuses, baseline : Nat, stable : 0..(StableTicks - 1),
                  errors : 0..(ErrorRetryTicks - 1), closing : BOOLEAN, ask : BOOLEAN,
                  always : BOOLEAN, pending : BOOLEAN, requested : BOOLEAN]
WatchStates == {"none", "pull", "pulled", "watch", "sync", "read", "upload", "over"}
Watchers == [at : WatchStates, pre : Nat, text : Int]
RefreshStates == [at : {"idle", "over"}] \cup
    [at : {"size", "pull", "pulling", "stamp", "launch"}, of : Sessions, base : Nat]
EditsTyped ==
    /\ edit \in [Sessions -> EditStates]
    /\ task \in [Sessions -> Watchers]
    /\ refresh \in [Refreshes -> RefreshStates]
    /\ local \in [stamp : Nat, text : Int]
    /\ stamp \in Nat /\ local.stamp <= stamp
    /\ text \in known /\ text \in Int /\ editFaults \in Nat

(* No stamp is newer than the last one given.  A copy that has the stamp   *)
(* of a baseline has a text that counts as synced, and one that has the    *)
(* stamp an upload began with has the text the upload read.                *)
TrueOf(s) ==
    /\ edit[s].baseline <= stamp /\ task[s].pre <= stamp
    /\ local # E!Missing /\ edit[s].baseline = local.stamp => local.text \in known \cup waived
    /\ E!TaskAt(s, "upload") /\ local # E!Missing /\ task[s].pre = local.stamp
          => task[s].text = local.text
Stamped ==
    /\ local # E!Missing => local.stamp > 0
    /\ \A s \in Sessions : TrueOf(s)

EditInv == EditsTyped /\ Stamped

KnownTexts == known \cup waived

(* A step keeps what Stamped says of a session.                            *)
LEMMA EditKept ==
    ASSUME EditsTyped, Stamped, NEW q \in Sessions,
           \/ local' = local /\ stamp' = stamp /\ KnownTexts \subseteq KnownTexts'
           \/ local' = E!Missing /\ stamp' = stamp
           \/ local'.stamp = stamp + 1 /\ stamp' = stamp + 1,
           edit'[q].baseline <= stamp,
           \/ edit'[q].baseline \in {0, edit[q].baseline}
           \/ /\ local' = local
              /\ local # E!Missing /\ edit'[q].baseline = local.stamp => local.text \in KnownTexts',
           task'[q].pre \in Nat, task'[q].pre <= stamp,
           task'[q].at = "upload" =>
              \/ task[q].at = "upload" /\ task'[q].pre = task[q].pre /\ task'[q].text = task[q].text
              \/ local' = local /\ task'[q].text = local.text,
           edit'[q].baseline \in Nat
    PROVE  TrueOf(q)'
<1>1. TrueOf(q) /\ stamp \in Nat /\ (local # E!Missing => local.stamp > 0) /\ local.stamp <= stamp /\ local.stamp \in Nat
  BY DEF Stamped, EditsTyped
<1>2. CASE local' = local /\ stamp' = stamp /\ KnownTexts \subseteq KnownTexts'
  BY <1>1, <1>2 DEF TrueOf, E!TaskAt, KnownTexts
<1>3. CASE local' = E!Missing /\ stamp' = stamp
  BY <1>1, <1>3 DEF TrueOf, E!TaskAt, KnownTexts, E!Missing
<1>4. CASE local'.stamp = stamp + 1 /\ stamp' = stamp + 1
  <2>1. local' # local
    BY <1>1, <1>4
  <2>2. edit'[q].baseline # local'.stamp /\ task'[q].pre # local'.stamp
    BY <1>1, <1>4
  <2> QED BY <1>1, <1>4, <2>2 DEF TrueOf, E!TaskAt, KnownTexts
<1> QED BY <1>2, <1>3, <1>4

LEMMA StampsEffect ==
    ASSUME EditsTyped, NEW t \in Int, E!Stamps(t)
    PROVE  /\ local' \in [stamp : Nat, text : Int] /\ local'.stamp = stamp + 1
           /\ stamp' = stamp + 1 /\ local'.stamp <= stamp' /\ stamp' \in Nat /\ stamp <= stamp'
           /\ local' # E!Missing /\ local'.stamp > 0
BY DEF EditsTyped, E!Stamps, E!Missing

LEMMA SessionFields ==
    ASSUME NEW x \in EditStates
    PROVE  /\ \A st \in EditStatuses : [x EXCEPT !.status = st] \in EditStates
           /\ \A b \in Nat : [x EXCEPT !.baseline = b] \in EditStates
           /\ \A v \in BOOLEAN : /\ [x EXCEPT !.ask = v] \in EditStates
                                 /\ [x EXCEPT !.closing = v] \in EditStates
                                 /\ [x EXCEPT !.pending = v] \in EditStates
           /\ x.baseline \in Nat
BY DEF EditStates

LEMMA NoEditType == E!NoSession \in EditStates /\ E!NoSession.baseline = 0 /\ E!NoSession.status = "none"
BY EditAssumption DEF E!NoSession, EditStates, EditStatuses

LEMMA UpdatedEffect ==
    ASSUME EditsTyped, NEW s \in Sessions, NEW new \in EditStates, E!Updated(s, new)
    PROVE  /\ edit' \in [Sessions -> EditStates]
           /\ \A q \in Sessions : q # s => edit'[q] = edit[q]
           /\ edit'[s] \in {edit[s], new}
BY DEF EditsTyped, E!Updated

LEMMA ClosesEffect ==
    ASSUME EditsTyped, NEW s \in Sessions, E!ClosesSession(s)
    PROVE  /\ edit' \in [Sessions -> EditStates]
           /\ \A q \in Sessions : edit'[q] \in {edit[q], E!NoSession}
           /\ local' \in {local, E!Missing}
BY NoEditType DEF EditsTyped, E!ClosesSession

LEMMA TurnsEffect ==
    ASSUME EditsTyped, NEW s \in Sessions, NEW label \in WatchStates, E!Turns(s, label)
    PROVE  /\ task' \in [Sessions -> Watchers]
           /\ \A q \in Sessions : q # s => task'[q] = task[q]
           /\ task'[s].at = label /\ task'[s].pre = task[s].pre /\ task'[s].text = task[s].text
BY DEF EditsTyped, E!Turns, Watchers

LEMMA MissingCopyType == E!Missing \in [stamp : Nat, text : Int] /\ E!Missing.stamp = 0
BY DEF E!Missing, E!Torn

LEMMA TickRange ==
    /\ 0 \in 0..(StableTicks - 1) /\ StableTicks - 1 \in 0..(StableTicks - 1)
    /\ 0 \in 0..(ErrorRetryTicks - 1)
    /\ \A n \in 0..(StableTicks - 1) : n + 1 < StableTicks => n + 1 \in 0..(StableTicks - 1)
    /\ \A n \in 0..(ErrorRetryTicks - 1) : n + 1 < ErrorRetryTicks => n + 1 \in 0..(ErrorRetryTicks - 1)
BY EditAssumption

LEMMA TickEffect ==
    ASSUME NEW x \in EditStates, NEW current
    PROVE  /\ E!TickWatch(x, current).session \in EditStates
           /\ E!TickWatch(x, current).session.baseline = x.baseline
<1> USE DEF EditStates
<1>steady. \A y \in EditStates : E!Steady(y).session = y
  BY DEF E!Steady
<1>dev. ASSUME NEW y \in EditStates
        PROVE  E!Deviates(y).session \in EditStates /\ E!Deviates(y).session.baseline = y.baseline
  <2>1. /\ [y EXCEPT !.stable = 0, !.errors = 0] \in EditStates
        /\ [y EXCEPT !.stable = 0, !.errors = 0, !.pending = TRUE] \in EditStates
        /\ y.stable + 1 < StableTicks => [y EXCEPT !.stable = @ + 1] \in EditStates
    BY TickRange
  <2> DEFINE settled == [y EXCEPT !.stable = 0, !.errors = 0]
  <2>2. /\ [settled EXCEPT !.pending = TRUE] = [y EXCEPT !.stable = 0, !.errors = 0, !.pending = TRUE]
        /\ [settled EXCEPT !.pending = TRUE].baseline = y.baseline
        /\ settled.baseline = y.baseline /\ [y EXCEPT !.stable = @ + 1].baseline = y.baseline
    OBVIOUS
  <2> QED BY <2>1, <2>2 DEF E!Deviates, E!Steady
<1>cmp. ASSUME NEW y \in EditStates
        PROVE  E!Compares(y, current).session \in EditStates
               /\ E!Compares(y, current).session.baseline = y.baseline
  <2>1. [y EXCEPT !.stable = 0] \in EditStates /\ [y EXCEPT !.stable = 0].baseline = y.baseline
    BY TickRange
  <2> HIDE DEF EditStates
  <2> QED BY <2>1, <1>dev DEF E!Compares, E!Steady
<1>ret. ASSUME NEW y \in EditStates
        PROVE  E!Retries(y, current).session \in EditStates
               /\ E!Retries(y, current).session.baseline = y.baseline
  <2>1. CASE y.errors + 1 < ErrorRetryTicks
    BY <2>1, TickRange DEF E!Retries, E!Steady
  <2>2. CASE ~(y.errors + 1 < ErrorRetryTicks)
    <3> DEFINE z == [y EXCEPT !.errors = 0, !.stable = IF y.baseline = current.stamp THEN @
                                                      ELSE StableTicks - 1]
    <3>1. z \in EditStates /\ z.baseline = y.baseline
      BY TickRange
    <3>2. E!Retries(y, current) = E!Compares(z, current)
      BY <2>2 DEF E!Retries
    <3> HIDE DEF z
    <3> QED BY <3>1, <3>2, <1>cmp
  <2> QED BY <2>1, <2>2
<1>1. [x EXCEPT !.requested = FALSE, !.stable = 0, !.errors = 0] \in EditStates
      /\ [x EXCEPT !.requested = FALSE, !.stable = 0, !.errors = 0].baseline = x.baseline
  BY TickRange
<1> HIDE DEF EditStates
<1> QED BY <1>1, <1>steady, <1>cmp, <1>ret DEF E!TickWatch

(* The sessions stay true.                                                 *)
LEMMA WholeStep ==
    ASSUME EditsTyped, Stamped, EditsTyped',
           \/ local' = local /\ stamp' = stamp /\ KnownTexts \subseteq KnownTexts'
           \/ local' = E!Missing /\ stamp' = stamp
           \/ local'.stamp = stamp + 1 /\ stamp' = stamp + 1,
           \A q \in Sessions :
              /\ edit'[q].baseline <= stamp
              /\ \/ edit'[q].baseline \in {0, edit[q].baseline}
                 \/ /\ local' = local
                    /\ local # E!Missing /\ edit'[q].baseline = local.stamp => local.text \in KnownTexts'
              /\ task'[q].pre <= stamp
              /\ task'[q].at = "upload" =>
                    \/ task[q].at = "upload" /\ task'[q].pre = task[q].pre /\ task'[q].text = task[q].text
                    \/ local' = local /\ task'[q].text = local.text
    PROVE  EditInv'
<1>1. \A q \in Sessions : task'[q].pre \in Nat /\ edit'[q].baseline \in Nat
  BY DEF EditsTyped, Watchers, EditStates
<1>2. \A q \in Sessions : TrueOf(q)'
  BY <1>1, EditKept
<1>3. local' # E!Missing => local'.stamp > 0
  BY DEF EditsTyped, Stamped
<1> QED BY <1>2, <1>3 DEF EditInv, Stamped

(* A step that leaves baselines and stamps alone.                          *)
LEMMA PlainStep ==
    ASSUME EditsTyped, Stamped, EditsTyped',
           \/ local' = local /\ stamp' = stamp /\ KnownTexts \subseteq KnownTexts'
           \/ local' = E!Missing /\ stamp' = stamp
           \/ local'.stamp = stamp + 1 /\ stamp' = stamp + 1,
           \A q \in Sessions :
              /\ edit'[q].baseline \in {0, edit[q].baseline}
              /\ task'[q].pre \in {0, task[q].pre}
              /\ task'[q].at = "upload" => task'[q] = task[q]
    PROVE  EditInv'
<1>1. \A q \in Sessions :
         /\ edit[q].baseline <= stamp /\ task[q].pre <= stamp
         /\ edit[q].baseline \in Nat /\ task[q].pre \in Nat
  BY DEF Stamped, TrueOf, EditsTyped, EditStates, Watchers
<1>2. stamp \in Nat
  BY DEF EditsTyped
<1> QED BY <1>1, <1>2, WholeStep

LEMMA WorksStep ==
    ASSUME EditsTyped, Stamped, NEW s \in Sessions,
           E!Works(s) \/ E!PullFails(s) \/ E!LaunchFails(s)
    PROVE  EditInv'
<1> USE DEF WatchStates, E!TaskAt
<1>rest. KnownTexts \subseteq KnownTexts
  OBVIOUS
<1>t. /\ edit \in [Sessions -> EditStates] /\ task \in [Sessions -> Watchers]
      /\ refresh \in [Refreshes -> RefreshStates] /\ local \in [stamp : Nat, text : Int]
      /\ stamp \in Nat /\ local.stamp <= stamp /\ text \in known /\ text \in Int /\ editFaults \in Nat
      /\ local.stamp \in Nat
  BY DEF EditsTyped
<1>b. \A q \in Sessions :
         /\ edit[q].baseline <= stamp /\ task[q].pre <= stamp
         /\ edit[q].baseline \in Nat /\ task[q].pre \in Nat
  BY DEF Stamped, TrueOf, EditsTyped, EditStates, Watchers
<1>1. CASE E!Pulls(s)
  <2>1. /\ task' \in [Sessions -> Watchers] /\ \A q \in Sessions : q # s => task'[q] = task[q]
        /\ task'[s].at = "pulled" /\ task'[s].pre = task[s].pre
    BY <1>1, TurnsEffect DEF E!Pulls
  <2>2. E!Stamps(text) /\ UNCHANGED <<edit, refresh, text, known, waived, editFaults>>
    BY <1>1 DEF E!Pulls, E!Far
  <2>3. EditsTyped'
    BY <1>t, <2>1, <2>2, StampsEffect DEF EditsTyped
  <2> QED BY <1>t, <2>1, <2>2, <2>3, StampsEffect, PlainStep
<1>2. CASE E!PullFails(s)
  <2>1. /\ task' \in [Sessions -> Watchers] /\ \A q \in Sessions : q # s => task'[q] = task[q]
        /\ task'[s].at = "over" /\ task'[s].pre = task[s].pre
    BY <1>2, TurnsEffect DEF E!PullFails
  <2>2. /\ edit' \in [Sessions -> EditStates]
        /\ \A q \in Sessions : edit'[q].baseline = edit[q].baseline
    <3> DEFINE new == [edit[s] EXCEPT !.status = "error"]
    <3>1. new \in EditStates /\ new.baseline = edit[s].baseline /\ E!Updated(s, new)
      BY <1>2, <1>t DEF E!PullFails, E!Errs, EditStates, EditStatuses
    <3> HIDE DEF new
    <3> QED BY <3>1, UpdatedEffect
  <2>3. /\ E!Stamps(E!Torn) \/ UNCHANGED <<local, stamp>>
        /\ UNCHANGED <<refresh, text, known, waived>> /\ editFaults' \in Nat
    BY <1>2, <1>t DEF E!PullFails, E!Far, E!Copy, E!Faulty
  <2>4. E!Torn \in Int
    BY DEF E!Torn
  <2>5. CASE E!Stamps(E!Torn)
    <3>1. EditsTyped'
      BY <1>t, <2>1, <2>2, <2>3, <2>4, <2>5, StampsEffect DEF EditsTyped
    <3> QED BY <1>t, <2>1, <2>2, <2>4, <2>5, <3>1, StampsEffect, PlainStep
  <2>6. CASE UNCHANGED <<local, stamp>>
    <3>1. EditsTyped' /\ KnownTexts' = KnownTexts
      BY <1>t, <2>1, <2>2, <2>3, <2>6 DEF EditsTyped, KnownTexts
    <3> QED BY <1>t, <2>1, <2>2, <2>6, <3>1, PlainStep
  <2> QED BY <2>3, <2>5, <2>6
<1>3. CASE E!Launches(s)
  <2>1. CASE edit[s].closing
    <3>1. E!ClosesSession(s) /\ E!Turns(s, "over") /\ UNCHANGED <<refresh, stamp, text, known, waived, editFaults>>
      BY <1>3, <2>1 DEF E!Launches, E!Far
    <3>2. /\ task' \in [Sessions -> Watchers] /\ \A q \in Sessions : q # s => task'[q] = task[q]
          /\ task'[s].at = "over" /\ task'[s].pre = task[s].pre
      BY <3>1, TurnsEffect
    <3>3. EditsTyped' /\ KnownTexts' = KnownTexts
      BY <1>t, <3>1, <3>2, ClosesEffect, MissingCopyType DEF EditsTyped, KnownTexts
    <3> QED BY <1>t, <3>1, <3>2, <3>3, ClosesEffect, NoEditType, PlainStep
  <2>2. CASE ~edit[s].closing
    <3> DEFINE new == [edit[s] EXCEPT !.status = "watching", !.baseline = local.stamp]
    <3>1. /\ E!Updated(s, new) /\ E!Turns(s, "watch") /\ waived' = waived \cup {local.text}
          /\ UNCHANGED <<refresh, local, stamp, text, known, editFaults>>
      BY <1>3, <2>2 DEF E!Launches, E!Far, E!Watched
    <3>2. new \in EditStates /\ new.baseline = local.stamp
      BY <1>t DEF EditStates, EditStatuses
    <3>3. /\ task' \in [Sessions -> Watchers] /\ \A q \in Sessions : q # s => task'[q] = task[q]
          /\ task'[s].at = "watch" /\ task'[s].pre = task[s].pre
      BY <3>1, TurnsEffect
    <3> HIDE DEF new
    <3>4. /\ edit' \in [Sessions -> EditStates]
          /\ \A q \in Sessions : edit'[q].baseline \in {edit[q].baseline, local.stamp}
      BY <3>1, <3>2, UpdatedEffect
    <3>5. EditsTyped' /\ KnownTexts \subseteq KnownTexts' /\ local.text \in KnownTexts'
      BY <1>t, <3>1, <3>3, <3>4 DEF EditsTyped, KnownTexts
    <3> QED BY <1>t, <1>b, <3>1, <3>3, <3>4, <3>5, WholeStep
  <2> QED BY <2>1, <2>2
<1>4. CASE E!LaunchFails(s)
  <2> DEFINE new == [edit[s] EXCEPT !.status = "error", !.baseline = local.stamp]
  <2>1. /\ E!Updated(s, new) /\ E!Turns(s, "watch") /\ waived' = waived \cup {local.text}
        /\ UNCHANGED <<refresh, local, stamp, text, known>> /\ editFaults' \in Nat
    BY <1>4, <1>t DEF E!LaunchFails, E!Far, E!Copy, E!Faulty
  <2>2. new \in EditStates /\ new.baseline = local.stamp
    BY <1>t DEF EditStates, EditStatuses
  <2>3. /\ task' \in [Sessions -> Watchers] /\ \A q \in Sessions : q # s => task'[q] = task[q]
        /\ task'[s].at = "watch" /\ task'[s].pre = task[s].pre
    BY <2>1, TurnsEffect
  <2> HIDE DEF new
  <2>4. /\ edit' \in [Sessions -> EditStates]
        /\ \A q \in Sessions : edit'[q].baseline \in {edit[q].baseline, local.stamp}
    BY <2>1, <2>2, UpdatedEffect
  <2>5. EditsTyped' /\ KnownTexts \subseteq KnownTexts' /\ local.text \in KnownTexts'
    BY <1>t, <2>1, <2>3, <2>4 DEF EditsTyped, KnownTexts
  <2> QED BY <1>t, <1>b, <2>1, <2>3, <2>4, <2>5, WholeStep
<1>5. CASE E!Ticks(s)
  <2> DEFINE x == E!TickWatch(edit[s], local)
  <2>1. x.session \in EditStates /\ x.session.baseline = edit[s].baseline
    BY <1>t, TickEffect
  <2>2. /\ \/ E!ClosesSession(s) /\ E!Turns(s, "over")
           \/ edit' = [edit EXCEPT ![s] = x.session] /\ E!Turns(s, "sync") /\ UNCHANGED local
           \/ edit' = [edit EXCEPT ![s] = x.session] /\ UNCHANGED <<task, local>>
        /\ UNCHANGED <<refresh, stamp, text, known, waived, editFaults>>
    BY <1>5 DEF E!Ticks, E!Far
  <2> HIDE DEF x
  <2>3. CASE E!ClosesSession(s) /\ E!Turns(s, "over")
    <3>2. /\ task' \in [Sessions -> Watchers] /\ \A q \in Sessions : q # s => task'[q] = task[q]
          /\ task'[s].at = "over" /\ task'[s].pre = task[s].pre
      BY <2>3, TurnsEffect
    <3>3. EditsTyped' /\ KnownTexts' = KnownTexts
      BY <1>t, <2>2, <2>3, <3>2, ClosesEffect, MissingCopyType DEF EditsTyped, KnownTexts
    <3> QED BY <1>t, <2>2, <2>3, <3>2, <3>3, ClosesEffect, NoEditType, PlainStep
  <2>4. CASE edit' = [edit EXCEPT ![s] = x.session] /\ E!Turns(s, "sync") /\ UNCHANGED local
    <3>2. /\ task' \in [Sessions -> Watchers] /\ \A q \in Sessions : q # s => task'[q] = task[q]
          /\ task'[s].at = "sync" /\ task'[s].pre = task[s].pre
      BY <2>4, TurnsEffect
    <3>3. /\ edit' \in [Sessions -> EditStates]
          /\ \A q \in Sessions : edit'[q].baseline = edit[q].baseline
      BY <1>t, <2>1, <2>4
    <3>4. EditsTyped' /\ KnownTexts' = KnownTexts
      BY <1>t, <2>2, <2>4, <3>2, <3>3 DEF EditsTyped, KnownTexts
    <3> QED BY <1>t, <2>2, <2>4, <3>2, <3>3, <3>4, PlainStep
  <2>5. CASE edit' = [edit EXCEPT ![s] = x.session] /\ UNCHANGED <<task, local>>
    <3>3. /\ edit' \in [Sessions -> EditStates]
          /\ \A q \in Sessions : edit'[q].baseline = edit[q].baseline
      BY <1>t, <2>1, <2>5
    <3>4. EditsTyped' /\ KnownTexts' = KnownTexts
      BY <1>t, <2>2, <2>5, <3>3 DEF EditsTyped, KnownTexts
    <3> QED BY <1>t, <2>2, <2>5, <3>3, <3>4, PlainStep
  <2> QED BY <2>2, <2>3, <2>4, <2>5
<1>6. CASE E!Ends(s)
  <2>1. /\ task' \in [Sessions -> Watchers] /\ \A q \in Sessions : q # s => task'[q] = task[q]
        /\ task'[s].at = "over" /\ task'[s].pre = task[s].pre
    BY <1>6, TurnsEffect DEF E!Ends
  <2>2. UNCHANGED <<edit, refresh, local, stamp, text, known, waived, editFaults>>
    BY <1>6 DEF E!Ends, E!Copy, E!Far
  <2>3. EditsTyped' /\ KnownTexts' = KnownTexts
    BY <1>t, <2>1, <2>2 DEF EditsTyped, KnownTexts
  <2> QED BY <1>t, <2>1, <2>2, <2>3, PlainStep
<1>7. CASE E!SyncBegins(s)
  <2>1. UNCHANGED <<refresh, local, stamp, text, known, waived, editFaults>>
    BY <1>7 DEF E!SyncBegins, E!Copy, E!Far
  <2>2. CASE ~E!Live(s) \/ edit[s].closing
    <3>1. /\ task' \in [Sessions -> Watchers] /\ \A q \in Sessions : q # s => task'[q] = task[q]
          /\ task'[s].at = "watch" /\ task'[s].pre = task[s].pre /\ edit' = edit
      BY <1>7, <2>2, TurnsEffect DEF E!SyncBegins
    <3>2. EditsTyped' /\ KnownTexts' = KnownTexts
      BY <1>t, <2>1, <3>1 DEF EditsTyped, KnownTexts
    <3> QED BY <1>t, <2>1, <3>1, <3>2, PlainStep
  <2>3. CASE ~(~E!Live(s) \/ edit[s].closing)
    <3>1. /\ task' = [task EXCEPT ![s].at = "read", ![s].pre = local.stamp]
          /\ edit' = [edit EXCEPT ![s].status = "syncing", ![s].stable = 0]
      BY <1>7, <2>3 DEF E!SyncBegins
    <3>2. /\ task' \in [Sessions -> Watchers] /\ \A q \in Sessions : q # s => task'[q] = task[q]
          /\ task'[s].at = "read" /\ task'[s].pre = local.stamp
      BY <1>t, <3>1 DEF Watchers
    <3>3. /\ edit' \in [Sessions -> EditStates]
          /\ \A q \in Sessions : edit'[q].baseline = edit[q].baseline
      <4> DEFINE new == [edit[s] EXCEPT !.status = "syncing", !.stable = 0]
      <4>1. edit' = [edit EXCEPT ![s] = new]
        BY <3>1
      <4>2. new \in EditStates /\ new.baseline = edit[s].baseline
        BY <1>t, TickRange DEF EditStates, EditStatuses
      <4> HIDE DEF new
      <4> QED BY <1>t, <4>1, <4>2
    <3>4. EditsTyped' /\ KnownTexts' = KnownTexts
      BY <1>t, <2>1, <3>2, <3>3 DEF EditsTyped, KnownTexts
    <3> QED BY <1>t, <1>b, <2>1, <3>2, <3>3, <3>4, WholeStep
  <2> QED BY <2>2, <2>3
<1>8. CASE E!Reads(s)
  <2>1. /\ task' = [task EXCEPT ![s].at = "upload", ![s].text = local.text]
        /\ UNCHANGED <<edit, refresh, local, stamp, text, known, waived, editFaults>>
    BY <1>8 DEF E!Reads, E!Copy, E!Far
  <2>2. /\ task' \in [Sessions -> Watchers] /\ \A q \in Sessions : q # s => task'[q] = task[q]
        /\ task'[s].text = local.text /\ task'[s].pre = task[s].pre
    BY <1>t, <2>1 DEF Watchers
  <2>3. EditsTyped' /\ KnownTexts' = KnownTexts
    BY <1>t, <2>1, <2>2 DEF EditsTyped, KnownTexts
  <2> QED BY <1>t, <1>b, <2>1, <2>2, <2>3, WholeStep
<1>9. CASE E!Lands(s)
  <2> DEFINE new == [edit[s] EXCEPT !.status = "watching", !.baseline = task[s].pre]
  <2>1. /\ task[s].at = "upload" /\ E!Rests(s) /\ text' = task[s].text
        /\ known' = known \cup {task[s].text} /\ E!Updated(s, new)
        /\ UNCHANGED <<refresh, local, stamp, waived, editFaults>>
    BY <1>9 DEF E!Lands, E!Copy, E!Watched, E!StampOf
  <2>2. new \in EditStates /\ new.baseline = task[s].pre
    BY <1>t, <1>b DEF EditStates, EditStatuses
  <2>3. /\ task' \in [Sessions -> Watchers] /\ \A q \in Sessions : q # s => task'[q] = task[q]
        /\ task'[s].at = "watch" /\ task'[s].pre = 0
    BY <1>t, <2>1 DEF E!Rests, Watchers, E!Torn
  <2> HIDE DEF new
  <2>4. /\ edit' \in [Sessions -> EditStates]
        /\ \A q \in Sessions : q # s => edit'[q] = edit[q]
        /\ edit'[s].baseline \in {edit[s].baseline, task[s].pre}
    BY <2>1, <2>2, UpdatedEffect
  <2>5. task[s].text \in Int
    BY <1>t DEF Watchers
  <2>6. EditsTyped' /\ KnownTexts \subseteq KnownTexts'
    BY <1>t, <2>1, <2>3, <2>4, <2>5 DEF EditsTyped, KnownTexts
  <2>7. local # E!Missing /\ task[s].pre = local.stamp => local.text \in KnownTexts'
    BY <2>1 DEF Stamped, TrueOf, KnownTexts
  <2> QED BY <1>t, <1>b, <2>1, <2>3, <2>4, <2>6, <2>7, WholeStep
<1>10. CASE E!SyncFails(s)
  <2> DEFINE new == [edit[s] EXCEPT !.status = "error"]
  <2>1. E!Rests(s) /\ E!Updated(s, new) /\ UNCHANGED <<refresh, local, stamp, text, known, waived>> /\ editFaults' \in Nat
    BY <1>10, <1>t DEF E!SyncFails, E!Copy, E!Far, E!Errs, E!Faulty
  <2>2. new \in EditStates /\ new.baseline = edit[s].baseline
    BY <1>t DEF EditStates, EditStatuses
  <2>3. /\ task' \in [Sessions -> Watchers] /\ \A q \in Sessions : q # s => task'[q] = task[q]
        /\ task'[s].at = "watch" /\ task'[s].pre = 0
    BY <1>t, <2>1 DEF E!Rests, Watchers, E!Torn
  <2> HIDE DEF new
  <2>4. /\ edit' \in [Sessions -> EditStates]
        /\ \A q \in Sessions : edit'[q].baseline = edit[q].baseline
    BY <2>1, <2>2, UpdatedEffect
  <2>6. EditsTyped' /\ KnownTexts' = KnownTexts
    BY <1>t, <2>1, <2>3, <2>4 DEF EditsTyped, KnownTexts
  <2> QED BY <1>t, <2>1, <2>3, <2>4, <2>6, PlainStep
<1> QED BY <1>1, <1>2, <1>3, <1>4, <1>5, <1>6, <1>7, <1>8, <1>9, <1>10 DEF E!Works

(* A later open goes on.                                                   *)
LEMMA RefreshFields ==
    ASSUME EditsTyped, NEW x \in Refreshes, ~E!RefreshAt(x, "idle"), ~E!RefreshAt(x, "over")
    PROVE  /\ refresh[x].of \in Sessions /\ refresh[x].base \in Nat
           /\ \A label \in {"size", "pull", "pulling", "stamp", "launch"} :
                 E!Moves(x, label) => refresh' \in [Refreshes -> RefreshStates]
BY DEF EditsTyped, RefreshStates, E!RefreshAt, E!Moves

LEMMA LeavesType ==
    ASSUME EditsTyped, NEW x \in Refreshes, E!Leaves(x)
    PROVE  refresh' \in [Refreshes -> RefreshStates]
BY DEF EditsTyped, RefreshStates, E!Leaves

LEMMA StatusEffect ==
    ASSUME EditsTyped, NEW s \in Sessions, NEW st \in EditStatuses,
           E!Updated(s, [edit[s] EXCEPT !.status = st])
    PROVE  /\ edit' \in [Sessions -> EditStates]
           /\ \A q \in Sessions : edit'[q].baseline = edit[q].baseline
<1> DEFINE new == [edit[s] EXCEPT !.status = st]
<1>1. new \in EditStates /\ new.baseline = edit[s].baseline
  BY DEF EditsTyped, EditStates
<1> HIDE DEF new
<1>2. \A q \in Sessions : q # s => edit'[q] = edit[q]
  BY <1>1, UpdatedEffect DEF new
<1> QED BY <1>1, UpdatedEffect DEF new

LEMMA ReopensStep ==
    ASSUME EditsTyped, Stamped, NEW x \in Refreshes,
           E!Reopens(x) \/ E!NoClient(x) \/ E!RefreshFails(x)
    PROVE  EditInv'
<1>t. /\ edit \in [Sessions -> EditStates] /\ task \in [Sessions -> Watchers]
      /\ refresh \in [Refreshes -> RefreshStates] /\ local \in [stamp : Nat, text : Int]
      /\ stamp \in Nat /\ local.stamp <= stamp /\ text \in known /\ text \in Int /\ editFaults \in Nat
      /\ local.stamp \in Nat
  BY DEF EditsTyped
<1>b. \A q \in Sessions :
         /\ edit[q].baseline <= stamp /\ task[q].pre <= stamp
         /\ edit[q].baseline \in Nat /\ task[q].pre \in Nat
  BY DEF Stamped, TrueOf, EditsTyped, EditStates, Watchers
<1>a. ~E!RefreshAt(x, "idle") /\ ~E!RefreshAt(x, "over")
  BY DEF E!Reopens, E!NoClient, E!RefreshFails, E!SizeRead, E!SizeUnmoved, E!RefreshBegins, E!RefreshEnds,
         E!RefreshStamps, E!Relaunches, E!RefreshAt
<1>of. refresh[x].of \in Sessions
  BY <1>a, RefreshFields
<1>quiet. ASSUME refresh' \in [Refreshes -> RefreshStates], UNCHANGED <<task, local, stamp, text, known, waived>>,
                 editFaults' \in Nat, edit' \in [Sessions -> EditStates],
                 \A q \in Sessions : edit'[q].baseline = edit[q].baseline
          PROVE  EditInv'
  <2>1. EditsTyped' /\ KnownTexts' = KnownTexts
    BY <1>t, <1>quiet DEF EditsTyped, KnownTexts
  <2> QED BY <1>quiet, <2>1, PlainStep
<1>1. CASE E!SizeRead(x)
  <2>1. /\ refresh' \in [Refreshes -> RefreshStates]
        /\ UNCHANGED <<task, local, stamp, text, known, waived, editFaults>>
    BY <1>1, <1>a, RefreshFields DEF E!SizeRead, E!Copy, E!Far
  <2>2. E!Updated(refresh[x].of, [edit[refresh[x].of] EXCEPT !.status = "downloading"])
        \/ UNCHANGED edit
    BY <1>1 DEF E!SizeRead
  <2>3. /\ edit' \in [Sessions -> EditStates]
        /\ \A q \in Sessions : edit'[q].baseline = edit[q].baseline
    BY <1>t, <1>of, <2>2, StatusEffect DEF EditStatuses
  <2> QED BY <1>t, <1>quiet, <2>1, <2>3
<1>2. CASE E!SizeUnmoved(x)
  <2>1. /\ refresh' \in [Refreshes -> RefreshStates]
        /\ UNCHANGED <<edit, task, local, stamp, text, known, waived, editFaults>>
    BY <1>2, <1>a, RefreshFields DEF E!SizeUnmoved, E!Copy, E!Far
  <2> QED BY <1>t, <1>quiet, <2>1
<1>3. CASE E!NoClient(x)
  <2>1. /\ refresh' \in [Refreshes -> RefreshStates] /\ editFaults' \in Nat
        /\ UNCHANGED <<edit, task, local, stamp, text, known, waived>>
    BY <1>3, <1>t, LeavesType DEF E!NoClient, E!Faulty, E!Copy, E!Far
  <2> QED BY <1>t, <1>quiet, <2>1
<1>4. ASSUME NEW t \in Int, E!Stamps(t), refresh' \in [Refreshes -> RefreshStates],
             UNCHANGED <<edit, task, text, known, waived, editFaults>>
      PROVE  EditInv'
  <2>1. EditsTyped'
    BY <1>t, <1>4, StampsEffect DEF EditsTyped
  <2> QED BY <1>4, <2>1, StampsEffect, PlainStep
<1>5. CASE E!RefreshBegins(x) \/ E!RefreshEnds(x)
  <2>1. /\ refresh' \in [Refreshes -> RefreshStates] /\ (E!Stamps(E!Torn) \/ E!Stamps(text))
        /\ UNCHANGED <<edit, task, text, known, waived, editFaults>>
    BY <1>5, <1>a, RefreshFields DEF E!RefreshBegins, E!RefreshEnds, E!Far
  <2>2. E!Torn \in Int
    BY DEF E!Torn
  <2> QED BY <1>t, <1>4, <2>1, <2>2
<1>6. CASE E!RefreshFails(x)
  <2>1. /\ refresh' \in [Refreshes -> RefreshStates] /\ editFaults' \in Nat
        /\ UNCHANGED <<task, local, stamp, text, known, waived>>
        /\ E!Updated(refresh[x].of, [edit[refresh[x].of] EXCEPT !.status = "error"])
    BY <1>6, <1>t, LeavesType DEF E!RefreshFails, E!Faulty, E!Copy, E!Far, E!Errs
  <2>2. /\ edit' \in [Sessions -> EditStates]
        /\ \A q \in Sessions : edit'[q].baseline = edit[q].baseline
    BY <1>of, <2>1, StatusEffect DEF EditStatuses
  <2> QED BY <1>quiet, <2>1, <2>2
<1>7. CASE E!RefreshStamps(x)
  <2> DEFINE s == refresh[x].of
             new == [edit[s] EXCEPT !.status = "watching", !.baseline = local.stamp]
  <2>1. /\ refresh' \in [Refreshes -> RefreshStates]
        /\ UNCHANGED <<task, local, stamp, text, known, editFaults>>
        /\ waived' = waived \cup {local.text} /\ E!Updated(s, new)
    BY <1>7, <1>a, RefreshFields, LeavesType DEF E!RefreshStamps, E!Copy, E!Far, E!Watched
  <2>s. s \in Sessions
    BY <1>of
  <2> HIDE DEF s
  <2>2. new \in EditStates /\ new.baseline = local.stamp
    BY <1>t, <2>s DEF EditStates, EditStatuses
  <2> HIDE DEF new
  <2>3. /\ edit' \in [Sessions -> EditStates]
        /\ \A q \in Sessions : edit'[q].baseline \in {edit[q].baseline, local.stamp}
    BY <2>1, <2>2, <2>s, UpdatedEffect
  <2>4. EditsTyped' /\ KnownTexts \subseteq KnownTexts' /\ local.text \in KnownTexts'
    BY <1>t, <2>1, <2>3 DEF EditsTyped, KnownTexts
  <2>5. \A q \in Sessions : edit'[q].baseline <= stamp
    BY <1>t, <1>b, <2>3
  <2>6. \A q \in Sessions : task'[q] = task[q]
    BY <2>1
  <2> QED BY <1>b, <2>1, <2>3, <2>4, <2>5, <2>6, WholeStep
<1>8. CASE E!Relaunches(x)
  <2> DEFINE s == refresh[x].of
  <2>1. /\ refresh' \in [Refreshes -> RefreshStates] /\ editFaults' \in Nat
        /\ UNCHANGED <<task, stamp, text, known, waived>>
        /\ \/ E!ClosesSession(s)
           \/ UNCHANGED <<edit, local>>
           \/ E!Errs(s) /\ UNCHANGED local
    BY <1>8, <1>t, LeavesType DEF E!Relaunches, E!Faulty, E!Far
  <2>2. s \in Sessions
    BY <1>of
  <2> HIDE DEF s
  <2>3. CASE E!ClosesSession(s)
    <3>1. EditsTyped' /\ KnownTexts' = KnownTexts
      BY <1>t, <2>1, <2>2, <2>3, ClosesEffect, MissingCopyType DEF EditsTyped, KnownTexts
    <3> QED BY <2>1, <2>2, <2>3, <3>1, ClosesEffect, NoEditType, PlainStep
  <2>4. CASE UNCHANGED <<edit, local>>
    BY <1>t, <1>quiet, <2>1, <2>4
  <2>5. CASE E!Errs(s) /\ UNCHANGED local
    <3>1. /\ edit' \in [Sessions -> EditStates]
          /\ \A q \in Sessions : edit'[q].baseline = edit[q].baseline
      BY <2>2, <2>5, StatusEffect DEF E!Errs, EditStatuses
    <3> QED BY <1>quiet, <2>1, <2>5, <3>1
  <2> QED BY <2>1, <2>3, <2>4, <2>5
<1> QED BY <1>1, <1>2, <1>3, <1>5, <1>6, <1>7, <1>8 DEF E!Reopens

LEMMA EditStep == EditInv /\ [E!EditNext]_(E!editVars) => EditInv'
<1> SUFFICES ASSUME EditsTyped, Stamped, [E!EditNext]_(E!editVars) PROVE EditInv'
    BY DEF EditInv
<1>t. /\ edit \in [Sessions -> EditStates] /\ task \in [Sessions -> Watchers]
      /\ refresh \in [Refreshes -> RefreshStates] /\ local \in [stamp : Nat, text : Int]
      /\ stamp \in Nat /\ local.stamp <= stamp /\ text \in known /\ text \in Int /\ editFaults \in Nat
      /\ local.stamp \in Nat
  BY DEF EditsTyped
<1>b. \A q \in Sessions :
         /\ edit[q].baseline <= stamp /\ task[q].pre <= stamp
         /\ edit[q].baseline \in Nat /\ task[q].pre \in Nat
  BY DEF Stamped, TrueOf, EditsTyped, EditStates, Watchers
<1>quiet. ASSUME refresh' \in [Refreshes -> RefreshStates], UNCHANGED <<local, stamp, text, known, waived>>,
                 editFaults' \in Nat, edit' \in [Sessions -> EditStates], task' = task,
                 \A q \in Sessions : edit'[q].baseline = edit[q].baseline
          PROVE  EditInv'
  <2>1. EditsTyped' /\ KnownTexts' = KnownTexts
    BY <1>t, <1>quiet DEF EditsTyped, KnownTexts
  <2> QED BY <1>quiet, <2>1, PlainStep
<1>1. ASSUME NEW s \in Sessions, E!Works(s) \/ E!PullFails(s) \/ E!LaunchFails(s) PROVE EditInv'
  BY <1>1, WorksStep
<1>2. ASSUME NEW x \in Refreshes, E!Reopens(x) \/ E!NoClient(x) \/ E!RefreshFails(x) PROVE EditInv'
  BY <1>2, ReopensStep
<1>3. ASSUME NEW s \in Sessions, NEW ask \in BOOLEAN, E!OpensFirst(s, ask) PROVE EditInv'
  <2> DEFINE new == [E!NoSession EXCEPT !.status = "downloading", !.ask = ask]
  <2>1. /\ edit' = [edit EXCEPT ![s] = new] /\ E!Turns(s, "pull")
        /\ UNCHANGED <<refresh, local, stamp, text, known, waived, editFaults>>
    BY <1>3 DEF E!OpensFirst, E!Copy, E!Far
  <2>2. new \in EditStates /\ new.baseline = 0
    BY NoEditType DEF EditStates, EditStatuses
  <2> HIDE DEF new
  <2>3. /\ task' \in [Sessions -> Watchers] /\ \A q \in Sessions : q # s => task'[q] = task[q]
        /\ task'[s].at = "pull" /\ task'[s].pre = task[s].pre
    BY <2>1, TurnsEffect DEF WatchStates
  <2>4. /\ edit' \in [Sessions -> EditStates]
        /\ \A q \in Sessions : edit'[q].baseline \in {0, edit[q].baseline}
    BY <1>t, <2>1, <2>2
  <2>5. EditsTyped' /\ KnownTexts' = KnownTexts
    BY <1>t, <2>1, <2>3, <2>4 DEF EditsTyped, KnownTexts
  <2> QED BY <2>1, <2>3, <2>4, <2>5, PlainStep
<1>4. ASSUME NEW s \in Sessions, NEW always \in BOOLEAN, E!DecidesUpload(s, always) PROVE EditInv'
  <2> DEFINE new == [edit[s] EXCEPT !.pending = FALSE, !.requested = TRUE, !.always = @ \/ always]
  <2>1. edit' = [edit EXCEPT ![s] = new] /\ UNCHANGED <<task, refresh, local, stamp, text, known, waived, editFaults>>
    BY <1>4 DEF E!DecidesUpload, E!Copy, E!Far
  <2>2. new \in EditStates /\ new.baseline = edit[s].baseline
    BY <1>t DEF EditStates
  <2> HIDE DEF new
  <2> QED BY <1>t, <1>quiet, <2>1, <2>2
<1>5. ASSUME NEW s \in Sessions, NEW x \in Refreshes, NEW ask \in BOOLEAN, E!OpensAgain(s, x, ask)
      PROVE  EditInv'
  <2> DEFINE new == [edit[s] EXCEPT !.ask = ask]
  <2>1. edit' = [edit EXCEPT ![s] = new] /\ UNCHANGED <<task, local, stamp, text, known, waived, editFaults>>
    BY <1>5 DEF E!OpensAgain, E!Copy, E!Far
  <2>2. new \in EditStates /\ new.baseline = edit[s].baseline /\ edit[s].baseline \in Nat
    BY <1>t DEF EditStates
  <2> HIDE DEF new
  <2>3. refresh' \in [Refreshes -> RefreshStates]
    BY <1>t, <1>5, <2>2 DEF E!OpensAgain, RefreshStates
  <2> QED BY <1>t, <1>quiet, <2>1, <2>2, <2>3
<1>6. ASSUME NEW s \in Sessions, E!RequestsClose(s) PROVE EditInv'
  <2> DEFINE new == [edit[s] EXCEPT !.closing = TRUE]
  <2>1. edit' = [edit EXCEPT ![s] = new] /\ UNCHANGED <<task, refresh, local, stamp, text, known, waived, editFaults>>
    BY <1>6 DEF E!RequestsClose, E!Copy, E!Far
  <2>2. new \in EditStates /\ new.baseline = edit[s].baseline
    BY <1>t DEF EditStates
  <2> HIDE DEF new
  <2> QED BY <1>t, <1>quiet, <2>1, <2>2
<1>7. ASSUME NEW s \in Sessions, E!DecidesDismiss(s) PROVE EditInv'
  <2> DEFINE new == [edit[s] EXCEPT !.pending = FALSE, !.baseline = local.stamp]
  <2>1. /\ edit' = [edit EXCEPT ![s] = new] /\ UNCHANGED <<task, refresh, local, stamp, text, known, editFaults>>
        /\ waived' = waived \cup {local.text}
    BY <1>7 DEF E!DecidesDismiss, E!Copy, E!Far
  <2>2. new \in EditStates /\ new.baseline = local.stamp
    BY <1>t DEF EditStates
  <2> HIDE DEF new
  <2>3. /\ edit' \in [Sessions -> EditStates]
        /\ \A q \in Sessions : edit'[q].baseline \in {edit[q].baseline, local.stamp}
    BY <1>t, <2>1, <2>2
  <2>4. EditsTyped' /\ KnownTexts \subseteq KnownTexts' /\ local.text \in KnownTexts'
    BY <1>t, <2>1, <2>3 DEF EditsTyped, KnownTexts
  <2>5. \A q \in Sessions : edit'[q].baseline <= stamp
    BY <1>t, <1>b, <2>3
  <2> QED BY <1>b, <2>1, <2>3, <2>4, <2>5, WholeStep
<1>8. CASE E!Saves
  <2>1. E!Stamps(stamp + 1) /\ stamp + 1 \in Int /\ known' = {text} /\ waived' = {}
        /\ UNCHANGED <<edit, task, refresh, text, editFaults>>
    BY <1>8, <1>t DEF E!Saves
  <2>2. EditsTyped'
    BY <1>t, <2>1, StampsEffect DEF EditsTyped
  <2> QED BY <2>1, <2>2, StampsEffect, PlainStep
<1>9. CASE E!Deletes
  <2>1. local' = E!Missing /\ UNCHANGED <<edit, task, refresh, stamp, text, known, waived, editFaults>>
    BY <1>9 DEF E!Deletes, E!Far
  <2>2. EditsTyped'
    BY <1>t, <2>1, MissingCopyType DEF EditsTyped
  <2> QED BY <2>1, <2>2, PlainStep
<1>10. CASE E!RemoteMoves
  <2>1. /\ editFaults' = editFaults + 1 /\ text' = MaxStamps + editFaults' /\ known' = known \cup {text'}
        /\ UNCHANGED <<edit, task, refresh, local, stamp, waived>>
    BY <1>10 DEF E!RemoteMoves, E!Faulty, E!Copy
  <2>2. editFaults' \in Nat /\ text' \in Int
    BY <1>t, <2>1, EditAssumption
  <2>3. EditsTyped' /\ KnownTexts \subseteq KnownTexts'
    BY <1>t, <2>1, <2>2 DEF EditsTyped, KnownTexts
  <2> QED BY <2>1, <2>3, PlainStep
<1>11. CASE UNCHANGED E!editVars
  <2>1. UNCHANGED <<edit, task, refresh, local, text, stamp, known, waived, editFaults>>
    BY <1>11 DEF E!editVars
  <2> QED BY <1>t, <1>quiet, <2>1
<1> QED BY <1>1, <1>2, <1>3, <1>4, <1>5, <1>6, <1>7, <1>8, <1>9, <1>10, <1>11 DEF E!EditNext

LEMMA EditStart ==
    ASSUME E!EditInit
    PROVE  EditInv
<1>1. EditsTyped
  BY NoEditType, MissingCopyType DEF E!EditInit, EditsTyped, Watchers, WatchStates, RefreshStates, E!Torn
<1>2. Stamped
  BY NoEditType DEF E!EditInit, Stamped, TrueOf, E!TaskAt
<1> QED BY <1>1, <1>2 DEF EditInv

LEMMA EditImplies ==
    ASSUME EditInv
    PROVE  E!EditTypeOK /\ SyncedIsTrue
<1>1. E!EditTypeOK
  BY DEF EditInv, EditsTyped, Stamped, TrueOf, E!EditTypeOK, EditStates, EditStatuses, Watchers,
         WatchStates, RefreshStates
<1>2. SyncedIsTrue
  BY DEF EditInv, Stamped, TrueOf, SyncedIsTrue, E!SyncedIsTrue
<1> QED BY <1>1, <1>2

(* A copy that counts as synced has a text the remote has had since the    *)
(* last save, however many sessions, saves, failures and later opens there *)
(* are, and the fields of every session keep to their types; a save by an  *)
(* editor of an earlier session between the end of a pull and its stamp is *)
(* waived (remote_edit.rs).                                                *)
THEOREM EditsAreSynced == E!EditSpec => [](E!EditTypeOK /\ SyncedIsTrue)
<1>1. E!EditInit => EditInv
  BY EditStart
<1>2. EditInv => E!EditTypeOK /\ SyncedIsTrue
  BY EditImplies
<1> QED BY <1>1, <1>2, EditStep, PTL DEF E!EditSpec

------------------------------------------------------------------------------
(***************************************************************************)
(* Streamed listings.                                                      *)
(***************************************************************************)
ListStages == {"none", "asked", "ready", "decide", "fast", "spawn", "stream", "over"}
ListSessions == [at : ListStages, key : L!Keys \cup {<<>>}, size : Sizes \cup {0}, read : Nat,
                 pending : 0..BatchMax, seq : Nat]
PaneStates == [at : {"off", "asking", "reading", "left", "stale", "fallback", "whole", "failed"},
               last : Nat, got : Nat, missed : BOOLEAN]
FrameStates == [seq : Nat, entries : Nat, end : {"no", "done", "error"}]
Counts == [key : L!Keys \cup {<<>>}, count : Nat]

ListsTyped ==
    /\ listing \in [Requests -> ListSessions]
    /\ pane \in [Requests -> PaneStates]
    /\ wire \in [Requests -> Seq(FrameStates)]
    /\ held \in [Requests -> Seq(FrameStates)]
    /\ \A r \in Requests : Len(held[r]) <= HoldCap
    /\ memory \in Seq(Counts)
    /\ flagged \subseteq L!Registered /\ cancels \subseteq Requests

(* The frame that takes a listing to c[k] entries.                         *)
Chained(frame, c, k, size) ==
    /\ frame.seq = k
    /\ c[k] = c[k - 1] + frame.entries
    /\ frame.end = "done" => c[k] = size

(* n frames of a listing were sent, the first k of them with c[k] entries: *)
(* those on the wire come last, and before them those the pane has taken   *)
(* or that are held back for it.                                           *)
Sent(s, c, n) ==
    /\ c \in [Nat -> Nat] /\ n \in Nat /\ c[0] = 0
    /\ s.at # "over" => n = s.seq /\ s.read = c[n] + s.pending
    /\ s.at \notin {"stream", "over"} => s.seq = 0 /\ s.read = 0
Wired(w, size, c, n) ==
    /\ Len(w) <= n
    /\ \A i \in 1..Len(w) : Chained(w[i], c, n - Len(w) + i, size)
Kept(h, size, c, k) ==
    /\ Len(h) = k
    /\ \A i \in 1..Len(h) : Chained(h[i], c, i, size)
Taken(p, h, size, c, k) ==
    /\ p.at = "asking" => p.last = 0 /\ p.got = 0
    /\ p.at = "asking" /\ ~p.missed => Kept(h, size, c, k)
    /\ p.at = "reading" /\ ~p.missed => p.last = k /\ p.got = c[k]
    /\ p.at = "whole" /\ ~p.missed => p.got = size
Fresh(s, p, h) ==
    /\ s.at = "none" => p = L!NoPane /\ h = <<>>
    /\ p.at = "off" => s.at = "none"
StreamOf(s, p, w, h, c, n) ==
    /\ Sent(s, c, n) /\ Wired(w, s.size, c, n) /\ Fresh(s, p, h)
    /\ Taken(p, h, s.size, c, n - Len(w))
Streams(r, c, n) == StreamOf(listing[r], pane[r], wire[r], held[r], c, n)

Streamed == \A r \in Requests : \E c, n : Streams(r, c, n)

(* What is remembered: of a directory once, and what a listing delivered.  *)
Earned(m) == \E r \in Requests : listing[r].key = m.key /\ listing[r].at = "over"
                                 /\ listing[r].size = m.count
Distinct(memo) == \A i, j \in 1..Len(memo) : memo[i].key = memo[j].key => i = j
Remembers ==
    /\ Len(memory) <= Capacity /\ Distinct(memory)
    /\ \A i \in 1..Len(memory) : Earned(memory[i])

ListInv == ListsTyped /\ Streamed /\ Remembers

------------------------------------------------------------------------------
(* The memory.                                                             *)
LEMMA ForgetPicks ==
    ASSUME NEW memo, NEW key
    PROVE  L!Forget(memo, key) = Picked(memo, {m \in L!ToSet(memo) : m.key # key})
BY DEF L!Forget, L!Picked, Picked

(* What is left was there, a directory still once; one less, if the key    *)
(* was there.                                                              *)
LEMMA ForgetKeeps ==
    ASSUME NEW memo \in Seq(Counts), Distinct(memo), NEW key
    PROVE  LET left == L!Forget(memo, key)
           IN /\ left \in Seq(Counts) /\ Distinct(left)
              /\ Len(left) <= Len(memo)
              /\ key \in L!Remembered(memo) => Len(left) < Len(memo)
              /\ \A i \in 1..Len(left) : left[i].key # key /\ \E j \in 1..Len(memo) : left[i] = memo[j]
<1> DEFINE set == {m \in L!ToSet(memo) : m.key # key}
           left == Picked(memo, set)
<1>1. L!Forget(memo, key) = left
  BY ForgetPicks
<1>2. \A k \in 1..Len(memo) : memo[k] \in set <=> memo[k].key # key
  BY DEF L!ToSet
<1> HIDE DEF set
<1>3. /\ left \in Seq(Counts) /\ Len(left) <= Len(memo)
      /\ \A k \in 1..Len(memo) : memo[k] \notin set => Len(left) < Len(memo)
  BY PickedPlaces
<1>4. PICK place \in [1..Len(left) -> 1..Len(memo)] :
         /\ \A i \in 1..Len(left) : left[i] = memo[place[i]] /\ memo[place[i]] \in set
         /\ \A i, j \in 1..Len(left) : i < j => place[i] < place[j]
  BY PickedPlaces
<1> HIDE DEF left
<1>5. key \in L!Remembered(memo) => \E k \in 1..Len(memo) : memo[k].key = key
  BY DEF L!Remembered
<1>6. Distinct(left)
  <2> SUFFICES ASSUME NEW i \in 1..Len(left), NEW j \in 1..Len(left), left[i].key = left[j].key,
                      i # j
               PROVE FALSE
    BY DEF Distinct
  <2>1. place[i] = place[j]
    BY <1>4 DEF Distinct
  <2>2. Len(left) \in Nat /\ Len(memo) \in Nat
    BY <1>3
  <2>3. place[i] \in 1..Len(memo) /\ (i < j \/ j < i)
    BY <2>2
  <2> QED BY <1>4, <2>1, <2>2, <2>3
<1>7. key \in L!Remembered(memo) => Len(left) < Len(memo)
  BY <1>2, <1>3, <1>5
<1>8. \A i \in 1..Len(left) : left[i].key # key /\ \E j \in 1..Len(memo) : left[i] = memo[j]
  BY <1>2, <1>4
<1> QED BY <1>1, <1>3, <1>6, <1>7, <1>8

(* A memory with one more, of another directory.                           *)
LEMMA AppendKeeps ==
    ASSUME NEW memo \in Seq(Counts), Distinct(memo), NEW m \in Counts,
           \A i \in 1..Len(memo) : memo[i].key # m.key
    PROVE  LET more == Append(memo, m)
           IN /\ more \in Seq(Counts) /\ Distinct(more) /\ Len(more) = Len(memo) + 1
              /\ \A i \in 1..Len(more) : more[i] = m \/ \E j \in 1..Len(memo) : more[i] = memo[j]
<1> DEFINE more == Append(memo, m)
<1>1. /\ more \in Seq(Counts) /\ Len(more) = Len(memo) + 1 /\ more[Len(memo) + 1] = m
      /\ \A i \in 1..Len(memo) : more[i] = memo[i]
      /\ Len(memo) \in Nat /\ Append(memo, m) = more
  OBVIOUS
<1> HIDE DEF more
<1>2. \A i \in 1..Len(more) : i \in 1..Len(memo) \/ i = Len(memo) + 1
  BY <1>1
<1>3. Distinct(more)
  BY <1>1, <1>2 DEF Distinct
<1> QED BY <1>1, <1>2, <1>3

LEMMA EvictKeeps ==
    ASSUME NEW memo \in Seq(Counts), Distinct(memo), Len(memo) <= Capacity + 1
    PROVE  LET kept == L!EvictOldest(memo)
           IN /\ kept \in Seq(Counts) /\ Distinct(kept) /\ Len(kept) <= Capacity
              /\ \A i \in 1..Len(kept) : \E j \in 1..Len(memo) : kept[i] = memo[j]
<1>1. CASE Len(memo) <= Capacity
  <2>1. L!EvictOldest(memo) = memo
    BY <1>1, ListAssumption DEF L!EvictOldest
  <2> QED BY <1>1, <2>1
<1>2. CASE ~(Len(memo) <= Capacity)
  <2> DEFINE kept == Tail(memo)
  <2>1. L!EvictOldest(memo) = kept
    BY <1>2, ListAssumption DEF L!EvictOldest
  <2>2. memo # <<>> /\ Len(memo) \in Nat /\ Len(memo) = Capacity + 1
    BY <1>2, ListAssumption
  <2>3. /\ kept \in Seq(Counts) /\ Len(kept) = Len(memo) - 1
        /\ \A i \in 1..Len(kept) : kept[i] = memo[i + 1]
    BY <2>2
  <2> HIDE DEF kept
  <2>4. \A i \in 1..Len(kept) : i + 1 \in 1..Len(memo)
    BY <2>2, <2>3
  <2>5. Distinct(kept)
    BY <2>3, <2>4 DEF Distinct
  <2> QED BY <2>1, <2>2, <2>3, <2>4, <2>5, ListAssumption
<1> QED BY <1>1, <1>2

(* Every memory a step leaves behind: distinct, and what is in it was      *)
(* there, or is what is recorded.                                          *)
Comes(from, to, new) ==
    /\ to \in Seq(Counts) /\ Distinct(to) /\ Len(to) <= Capacity
    /\ \A i \in 1..Len(to) : to[i] \in new \/ \E j \in 1..Len(from) : to[i] = from[j]

LEMMA MemoryKeeps ==
    ASSUME NEW memo \in Seq(Counts), Distinct(memo), Len(memo) <= Capacity
    PROVE  /\ Comes(memo, memo, {})
           /\ \A key : Comes(memo, L!Forget(memo, key), {})
           /\ \A key \in L!Keys \cup {<<>>} : Comes(memo, L!AfterHint(memo, key), {})
           /\ \A c, p : Comes(memo, L!InvalidateAround(memo, c, p), {})
           /\ \A key \in L!Keys \cup {<<>>}, count \in Nat :
                 Comes(memo, L!Record(memo, key, count), {[key |-> key, count |-> count]})
<1>len. Len(memo) \in Nat /\ Capacity \in Nat
  BY ListAssumption
<1>1. Comes(memo, memo, {})
  BY DEF Comes
<1>2. ASSUME NEW key PROVE Comes(memo, L!Forget(memo, key), {})
  BY <1>len, ForgetKeeps DEF Comes
<1>3. ASSUME NEW key \in L!Keys \cup {<<>>} PROVE Comes(memo, L!AfterHint(memo, key), {})
  <2>1. CASE key \notin L!Remembered(memo)
    BY <1>1, <2>1 DEF L!AfterHint
  <2>2. CASE key \in L!Remembered(memo)
    <3> DEFINE left == L!Forget(memo, key)
               m == L!Recall(memo, key)
    <3>1. \E j \in 1..Len(memo) : memo[j].key = key
      BY <2>2 DEF L!Remembered
    <3>2. m \in L!ToSet(memo) /\ m.key = key
      BY <3>1 DEF L!Recall, L!ToSet
    <3>3. \E j \in 1..Len(memo) : m = memo[j]
      BY <3>2 DEF L!ToSet
    <3>4. m \in Counts
      BY <3>3
    <3> HIDE DEF m
    <3>5. /\ left \in Seq(Counts) /\ Distinct(left) /\ Len(left) < Len(memo)
          /\ \A i \in 1..Len(left) : left[i].key # key /\ \E j \in 1..Len(memo) : left[i] = memo[j]
      BY <2>2, ForgetKeeps
    <3> HIDE DEF left
    <3> DEFINE more == Append(left, m)
    <3>6. /\ more \in Seq(Counts) /\ Distinct(more) /\ Len(more) = Len(left) + 1
          /\ \A i \in 1..Len(more) : more[i] = m \/ \E j \in 1..Len(left) : more[i] = left[j]
      BY <3>2, <3>4, <3>5, AppendKeeps
    <3>7. L!AfterHint(memo, key) = more
      BY <2>2 DEF L!AfterHint, L!Touch, left, m
    <3> HIDE DEF more
    <3>8. Len(more) <= Capacity
      BY <1>len, <3>5, <3>6
    <3>9. \A i \in 1..Len(more) : \E j \in 1..Len(memo) : more[i] = memo[j]
      BY <3>3, <3>5, <3>6
    <3> QED BY <3>6, <3>7, <3>8, <3>9 DEF Comes
  <2> QED BY <2>1, <2>2
<1>4. ASSUME NEW c, NEW p PROVE Comes(memo, L!InvalidateAround(memo, c, p), {})
  <2> DEFINE k == <<c, p>>
             up == <<c, L!ParentOf(p)>>
             one == L!Forget(memo, k)
             two == L!Forget(one, up)
  <2>2. L!InvalidateAround(memo, c, p) = two
    BY DEF L!InvalidateAround
  <2> HIDE DEF k, up
  <2>1. /\ one \in Seq(Counts) /\ Distinct(one) /\ Len(one) <= Len(memo)
        /\ \A i \in 1..Len(one) : \E j \in 1..Len(memo) : one[i] = memo[j]
    BY ForgetKeeps
  <2> HIDE DEF one
  <2>3. /\ two \in Seq(Counts) /\ Distinct(two) /\ Len(two) <= Len(one)
        /\ \A i \in 1..Len(two) : \E j \in 1..Len(one) : two[i] = one[j]
    BY <2>1, ForgetKeeps
  <2> HIDE DEF two
  <2>4. Len(two) <= Capacity
    BY <1>len, <2>1, <2>3
  <2> QED BY <2>1, <2>2, <2>3, <2>4 DEF Comes
<1>5. ASSUME NEW key \in L!Keys \cup {<<>>}, NEW count \in Nat
      PROVE  Comes(memo, L!Record(memo, key, count), {[key |-> key, count |-> count]})
  <2> DEFINE left == L!Forget(memo, key)
             m == [key |-> key, count |-> count]
             more == Append(left, m)
             kept == L!EvictOldest(more)
  <2>1. /\ left \in Seq(Counts) /\ Distinct(left) /\ Len(left) <= Len(memo)
        /\ \A i \in 1..Len(left) : left[i].key # key /\ \E j \in 1..Len(memo) : left[i] = memo[j]
    BY ForgetKeeps
  <2>2. L!Record(memo, key, count) = kept
    BY DEF L!Record
  <2>3. m \in Counts /\ m.key = key
    BY DEF Counts
  <2> HIDE DEF left, m
  <2>4. /\ more \in Seq(Counts) /\ Distinct(more) /\ Len(more) = Len(left) + 1
        /\ \A i \in 1..Len(more) : more[i] = m \/ \E j \in 1..Len(left) : more[i] = left[j]
    BY <2>1, <2>3, AppendKeeps
  <2> HIDE DEF more
  <2>5. Len(more) <= Capacity + 1
    BY <1>len, <2>1, <2>4
  <2>6. /\ kept \in Seq(Counts) /\ Distinct(kept) /\ Len(kept) <= Capacity
        /\ \A i \in 1..Len(kept) : \E j \in 1..Len(more) : kept[i] = more[j]
    BY <2>4, <2>5, EvictKeeps
  <2> HIDE DEF kept
  <2>7. \A i \in 1..Len(kept) : kept[i] = m \/ \E j \in 1..Len(memo) : kept[i] = memo[j]
    BY SMTT(30), <2>1, <2>4, <2>6
  <2> QED BY <2>2, <2>6, <2>7 DEF Comes, m
<1> QED BY <1>1, <1>2, <1>3, <1>4, <1>5

(* Distinct directories, counted.                                          *)
LEMMA DistinctCount ==
    ASSUME NEW memo \in Seq(Counts), Distinct(memo)
    PROVE  Cardinality(L!Remembered(memo)) = Len(memo)
<1> DEFINE f == [i \in 1..Len(memo) |-> memo[i].key]
<1>1. Len(memo) \in Nat /\ DOMAIN memo = 1..Len(memo)
  OBVIOUS
<1>2. f \in Bijection(1..Len(memo), L!Remembered(memo))
  BY <1>1 DEF Distinct, L!Remembered, Bijection, Injection, Surjection, IsInjective
<1>3. IsFiniteSet(1..Len(memo)) /\ Cardinality(1..Len(memo)) = Len(memo)
  BY <1>1, FS_Interval
<1>4. ExistsBijection(1..Len(memo), L!Remembered(memo))
  BY <1>2 DEF ExistsBijection
<1> QED BY <1>3, <1>4, FS_Bijection

------------------------------------------------------------------------------
(* Frames held back, replayed.                                             *)
Replays(g, p, frames) ==
    /\ g[0] = p
    /\ \A i \in 1..Len(frames) : g[i] = L!Takes(g[i - 1], frames[i])
    /\ L!Replayed(p, frames) = g[Len(frames)]

LEMMA ReplayedUnfolds ==
    ASSUME NEW frames \in Seq(FrameStates), NEW p
    PROVE  \E g : Replays(g, p, frames)
<1> DEFINE Goes(g, n) == g[0] = p /\ \A i \in 1..n : g[i] = L!Takes(g[i - 1], frames[i])
           S == {n \in Nat : n <= Len(frames) => \E g : DOMAIN g = 0..n /\ Goes(g, n)}
<1>1. 0 \in S
  <2> DEFINE g == [i \in 0..0 |-> p]
  <2>1. DOMAIN g = 0..0 /\ Goes(g, 0)
    OBVIOUS
  <2> HIDE DEF g, Goes
  <2> QED BY <2>1
<1>2. ASSUME NEW n \in S PROVE n + 1 \in S
  <2> HIDE DEF Goes
  <2> SUFFICES ASSUME n + 1 <= Len(frames) PROVE \E g : DOMAIN g = 0..(n + 1) /\ Goes(g, n + 1)
    OBVIOUS
  <2>1. PICK g : DOMAIN g = 0..n /\ Goes(g, n)
    OBVIOUS
  <2> DEFINE new == [i \in 0..(n + 1) |-> IF i = n + 1 THEN L!Takes(g[n], frames[n + 1]) ELSE g[i]]
  <2>2. new[0] = p
    BY <2>1 DEF Goes
  <2>3. ASSUME NEW i \in 1..(n + 1) PROVE new[i] = L!Takes(new[i - 1], frames[i])
    <3>1. CASE i = n + 1
      BY <3>1
    <3>2. CASE i # n + 1
      <4>1. i \in 1..n /\ new[i] = g[i] /\ new[i - 1] = g[i - 1]
        BY <3>2
      <4> QED BY <2>1, <4>1 DEF Goes
    <3> QED BY <3>1, <3>2
  <2>4. DOMAIN new = 0..(n + 1)
    OBVIOUS
  <2> HIDE DEF new
  <2> QED BY <2>2, <2>3, <2>4 DEF Goes
<1>3. S = Nat
  <2> HIDE DEF S
  <2>1. S \subseteq Nat
    BY DEF S
  <2> QED BY <1>1, <1>2, <2>1, SetInduction
<1>4. PICK g : DOMAIN g = 0..Len(frames) /\ Goes(g, Len(frames))
  <2> HIDE DEF Goes
  <2>1. Len(frames) \in S
    BY <1>3
  <2> QED BY <2>1
<1> DEFINE After(f) == [i \in 0..Len(frames) |-> IF i = 0 THEN p ELSE L!Takes(f[i - 1], frames[i])]
           after == CHOOSE f : f = After(f)
<1>5. \E f : f = After(f)
  <2> DEFINE h == [i \in 0..Len(frames) |-> g[i]]
  <2>1. ASSUME NEW i \in 0..Len(frames)
        PROVE  h[i] = IF i = 0 THEN p ELSE L!Takes(h[i - 1], frames[i])
    <3>1. CASE i = 0
      BY <1>4, <3>1
    <3>2. CASE i # 0
      <4>1. i \in 1..Len(frames) /\ i - 1 \in 0..Len(frames)
        BY <3>2
      <4> QED BY <1>4, <3>2, <4>1
    <3> QED BY <3>1, <3>2
  <2>2. h = [i \in 0..Len(frames) |-> h[i]]
    OBVIOUS
  <2> HIDE DEF h
  <2>3. h = After(h)
    BY <2>1, <2>2
  <2> HIDE DEF After
  <2> QED BY <2>3
<1>6. after = After(after)
  <2> HIDE DEF After
  <2> QED BY <1>5
<1>7. L!Replayed(p, frames) = after[Len(frames)]
  BY DEF L!Replayed
<1> HIDE DEF after
<1>8. \A i \in 0..Len(frames) : after[i] = IF i = 0 THEN p ELSE L!Takes(after[i - 1], frames[i])
  BY <1>6
<1> QED BY <1>7, <1>8 DEF Replays

(* Of a session that has not ended, what the frames taken up to place k    *)
(* make of the pane.                                                       *)
Reads(x, c, k, size) ==
    /\ x \in PaneStates /\ x.at \in {"reading", "whole", "failed"} /\ ~x.missed
    /\ x.at = "reading" => x.last = k /\ x.got = c[k]
    /\ x.at = "whole" => x.got = size

LEMMA TakesType ==
    ASSUME NEW x \in PaneStates, NEW f \in FrameStates
    PROVE  /\ L!Takes(x, f) \in PaneStates /\ L!Takes(x, f).missed = x.missed
           /\ x.at # "reading" => L!Takes(x, f) = x
           /\ x.at = "reading" => L!Takes(x, f).at \in {"reading", "whole", "failed"}
BY DEF L!Takes, PaneStates, FrameStates

LEMMA TakesReads ==
    ASSUME NEW c \in [Nat -> Nat], NEW k \in Nat, NEW size, NEW x, Reads(x, c, k, size),
           NEW f \in FrameStates, Chained(f, c, k + 1, size)
    PROVE  Reads(L!Takes(x, f), c, k + 1, size)
<1>1. CASE x.at # "reading"
  BY <1>1, TakesType DEF Reads
<1>2. CASE x.at = "reading"
  <2>1. x.last = k /\ x.got = c[k] /\ f.seq = k + 1 /\ c[k + 1] = c[k] + f.entries
    BY <1>2 DEF Reads, Chained
  <2>2. f.seq > x.last
    BY <2>1
  <2> DEFINE y == L!Takes(x, f)
  <2>3. /\ y.last = k + 1 /\ y.got = c[k + 1]
        /\ y.at = (CASE f.end = "done" -> "whole" [] f.end = "error" -> "failed" [] OTHER -> "reading")
    BY <1>2, <2>1, <2>2 DEF L!Takes, Reads, PaneStates
  <2>4. y \in PaneStates /\ ~y.missed /\ y.at \in {"reading", "whole", "failed"}
    BY <1>2, TakesType DEF Reads
  <2>5. f.end = "done" => c[k + 1] = size
    BY DEF Chained
  <2>6. y.at = "whole" => f.end = "done"
    BY <2>3
  <2> HIDE DEF y
  <2>7. Reads(y, c, k + 1, size)
    BY <2>3, <2>4, <2>5, <2>6 DEF Reads
  <2> QED BY <2>7 DEF y
<1> QED BY <1>1, <1>2

LEMMA ReplayedReads ==
    ASSUME NEW c \in [Nat -> Nat], NEW size, NEW x, Reads(x, c, 0, size),
           NEW frames \in Seq(FrameStates),
           \A i \in 1..Len(frames) : Chained(frames[i], c, i, size)
    PROVE  Reads(L!Replayed(x, frames), c, Len(frames), size)
<1>1. PICK g : Replays(g, x, frames)
  BY ReplayedUnfolds
<1> DEFINE S == {n \in Nat : n <= Len(frames) => Reads(g[n], c, n, size)}
<1>2. 0 \in S
  BY <1>1 DEF Replays
<1>3. ASSUME NEW n \in S PROVE n + 1 \in S
  <2> SUFFICES ASSUME n + 1 <= Len(frames) PROVE Reads(g[n + 1], c, n + 1, size)
    OBVIOUS
  <2>1. n \in Nat /\ n + 1 \in 1..Len(frames) /\ Reads(g[n], c, n, size)
    OBVIOUS
  <2>2. g[n + 1] = L!Takes(g[n], frames[n + 1])
    BY <1>1, <2>1 DEF Replays
  <2>3. frames[n + 1] \in FrameStates /\ Chained(frames[n + 1], c, n + 1, size)
    BY <2>1
  <2> QED BY <2>1, <2>2, <2>3, TakesReads
<1>4. S = Nat
  <2> HIDE DEF S
  <2>1. S \subseteq Nat
    BY DEF S
  <2> QED BY <1>2, <1>3, <2>1, SetInduction
<1>5. Len(frames) \in S
  BY <1>4
<1> QED BY <1>1, <1>5 DEF Replays

LEMMA ReplayedType ==
    ASSUME NEW x \in PaneStates, NEW frames \in Seq(FrameStates),
           x.at = "reading"
    PROVE  /\ L!Replayed(x, frames) \in PaneStates /\ L!Replayed(x, frames).missed = x.missed
           /\ L!Replayed(x, frames).at \in {"reading", "whole", "failed"}
<1>1. PICK g : Replays(g, x, frames)
  BY ReplayedUnfolds
<1> DEFINE Ok(y) == /\ y \in PaneStates /\ y.missed = x.missed
                    /\ y.at \in {"reading", "whole", "failed"}
           S == {n \in Nat : n <= Len(frames) => Ok(g[n])}
<1>2. 0 \in S
  BY <1>1 DEF Replays
<1>3. ASSUME NEW n \in S PROVE n + 1 \in S
  <2> SUFFICES ASSUME n + 1 <= Len(frames) PROVE Ok(g[n + 1])
    OBVIOUS
  <2>1. n \in Nat /\ n + 1 \in 1..Len(frames) /\ Ok(g[n])
    OBVIOUS
  <2>2. g[n + 1] = L!Takes(g[n], frames[n + 1])
    BY <1>1, <2>1 DEF Replays
  <2> DEFINE y == g[n]
             f == frames[n + 1]
  <2>3. f \in FrameStates /\ Ok(y)
    BY <2>1
  <2> HIDE DEF y, f
  <2>4. Ok(L!Takes(y, f))
    <3>1. CASE y.at # "reading"
      BY <2>3, <3>1, TakesType
    <3>2. CASE y.at = "reading"
      BY <2>3, <3>2, TakesType
    <3> QED BY <3>1, <3>2
  <2> QED BY <2>2, <2>4 DEF y, f
<1>4. S = Nat
  <2> HIDE DEF S
  <2>1. S \subseteq Nat
    BY DEF S
  <2> QED BY <1>2, <1>3, <2>1, SetInduction
<1>5. Len(frames) \in S
  BY <1>4
<1> QED BY <1>1, <1>5 DEF Replays

------------------------------------------------------------------------------
(* Steps.                                                                  *)
LEMMA StreamStays ==
    ASSUME NEW q, NEW c, NEW n, Streams(q, c, n),
           listing'[q] = listing[q], pane'[q] = pane[q],
           wire'[q] = wire[q], held'[q] = held[q]
    PROVE  Streams(q, c, n)'
BY DEF Streams

LEMMA OthersStream ==
    ASSUME Streamed, NEW r \in Requests,
           \A q \in Requests \ {r} : /\ listing'[q] = listing[q] /\ pane'[q] = pane[q]
                                     /\ wire'[q] = wire[q] /\ held'[q] = held[q],
           \E c, n : Streams(r, c, n)'
    PROVE  Streamed'
<1>1. ASSUME NEW q \in Requests \ {r} PROVE \E e, l : Streams(q, e, l)'
  <2>1. PICK e, l : Streams(q, e, l)
    BY DEF Streamed
  <2> QED BY <2>1, StreamStays
<1> QED BY <1>1 DEF Streamed

(* A step that leaves the panes and the wires alone, and a session where   *)
(* it is or before its stream.                                             *)
LEMMA QuietSession ==
    ASSUME ListsTyped, Streamed, NEW r \in Requests,
           pane' = pane, wire' = wire, held' = held,
           \A q \in Requests \ {r} : listing'[q] = listing[q],
           listing'[r] = listing[r] \/
              /\ listing[r].at \in {"asked", "ready", "decide", "fast", "spawn"}
              /\ listing'[r].at \in {"ready", "decide", "fast", "spawn", "stream"}
              /\ listing'[r].seq = listing[r].seq /\ listing'[r].read = listing[r].read
              /\ listing'[r].pending = listing[r].pending /\ listing'[r].size = listing[r].size
    PROVE  Streamed'
<1>1. PICK c, n : Streams(r, c, n)
  BY DEF Streamed
<1>2. Streams(r, c, n)'
  BY <1>1 DEF Streams, StreamOf, Sent, Fresh
<1> QED BY <1>2, OthersStream

(* Frames that take a listing on, and counts that go on.                   *)
Carries(frames, size, c, n) == \A i \in 1..Len(frames) : Chained(frames[i], c, n + i, size)
Same(c, d, n) == \A k \in 0..n : d[k] = c[k]

LEMMA SameChain ==
    ASSUME NEW c, NEW d, NEW n \in Nat, Same(c, d, n), NEW f, NEW size,
           NEW k \in 1..n, Chained(f, c, k, size)
    PROVE  Chained(f, d, k, size)
<1>1. k \in 0..n /\ k - 1 \in 0..n
  OBVIOUS
<1>2. d[k] = c[k] /\ d[k - 1] = c[k - 1]
  BY <1>1 DEF Same
<1> QED BY <1>2 DEF Chained

(* They are put on the wire.                                               *)
LEMMA WireGrows ==
    ASSUME NEW w \in Seq(FrameStates), NEW frames \in Seq(FrameStates), NEW size,
           NEW c, NEW d, NEW n \in Nat, Wired(w, size, c, n), Same(c, d, n),
           Carries(frames, size, d, n)
    PROVE  /\ Wired(w \o frames, size, d, n + Len(frames))
           /\ w \o frames \in Seq(FrameStates)
           /\ n + Len(frames) - Len(w \o frames) = n - Len(w)
<1> DEFINE more == w \o frames
           m == n + Len(frames)
<1>l. Len(w) \in Nat /\ Len(frames) \in Nat
  BY LenProperties
<1>1. /\ more \in Seq(FrameStates) /\ Len(more) = Len(w) + Len(frames)
      /\ \A i \in 1..(Len(w) + Len(frames)) :
            more[i] = IF i <= Len(w) THEN w[i] ELSE frames[i - Len(w)]
  BY ConcatProperties
<1>2. Len(w) <= n
  BY DEF Wired
<1>h. w \o frames = more /\ n + Len(frames) = m
  OBVIOUS
<1> HIDE DEF more, m
<1>4. m \in Nat /\ m - Len(more) = n - Len(w) /\ Len(more) <= m
  BY <1>1, <1>2, <1>l, <1>h
<1>5. ASSUME NEW i \in 1..Len(more) PROVE Chained(more[i], d, m - Len(more) + i, size)
  <2>0. i \in Nat /\ 1 <= i /\ i <= Len(w) + Len(frames)
    BY <1>1, <1>l
  <2>1. CASE i <= Len(w)
    <3> DEFINE k == n - Len(w) + i
    <3>1. k \in 1..n /\ m - Len(more) + i = k
      BY <1>2, <1>4, <1>l, <2>0, <2>1
    <3>2. i \in 1..Len(w)
      BY <1>l, <2>0, <2>1
    <3>3. Chained(w[i], c, k, size)
      BY <3>2 DEF Wired
    <3> HIDE DEF k
    <3>4. more[i] = w[i]
      BY <1>1, <2>0, <2>1, <1>l
    <3> QED BY <3>1, <3>3, <3>4, SameChain
  <2>2. CASE ~(i <= Len(w))
    <3> DEFINE j == i - Len(w)
    <3>1. j \in 1..Len(frames) /\ m - Len(more) + i = n + j
      BY <1>l, <1>4, <2>0, <2>2
    <3>2. more[i] = frames[j]
      BY <1>1, <2>0, <2>2, <1>l
    <3> HIDE DEF j
    <3> QED BY <3>1, <3>2 DEF Carries
  <2> QED BY <2>1, <2>2
<1>6. Wired(more, size, d, m)
  BY <1>4, <1>5 DEF Wired
<1>7. more \in Seq(FrameStates) /\ m - Len(more) = n - Len(w)
  BY <1>1, <1>4
<1> QED BY <1>6, <1>7 DEF more, m

(* What was taken of it stays.                                             *)
LEMMA TakenStays ==
    ASSUME NEW p, NEW h, NEW size, NEW c, NEW d, NEW k \in Nat,
           Taken(p, h, size, c, k), Same(c, d, k)
    PROVE  Taken(p, h, size, d, k)
<1>1. ASSUME Kept(h, size, c, k) PROVE Kept(h, size, d, k)
  <2>1. Len(h) = k /\ \A i \in 1..k : Chained(h[i], c, i, size)
    BY <1>1 DEF Kept
  <2>2. \A i \in 1..k : Chained(h[i], d, i, size)
    BY <2>1, SameChain
  <2> QED BY <2>1, <2>2 DEF Kept
<1>2. d[k] = c[k]
  BY DEF Same
<1> QED BY <1>1, <1>2 DEF Taken

(* A step that sends.                                                      *)
LEMMA SendsStream ==
    ASSUME ListsTyped, Streamed, NEW r \in Requests, NEW c, NEW n \in Nat, Streams(r, c, n),
           listing[r].at # "none",
           NEW frames \in Seq(FrameStates), wire' = [wire EXCEPT ![r] = @ \o frames],
           pane' = pane, held' = held,
           \A q \in Requests \ {r} : listing'[q] = listing[q],
           listing'[r].size = listing[r].size,
           NEW d \in [Nat -> Nat], Same(c, d, n), Carries(frames, listing[r].size, d, n),
           listing'[r].at \in {"stream", "over"},
           listing'[r].at = "stream" => /\ listing'[r].seq = n + Len(frames)
                                        /\ listing'[r].read = d[n + Len(frames)] + listing'[r].pending
    PROVE  Streamed'
<1> DEFINE w == wire[r]
           m == n + Len(frames)
           size == listing[r].size
<1>1. w \in Seq(FrameStates) /\ wire'[r] = w \o frames
      /\ \A q \in Requests \ {r} : wire'[q] = wire[q]
  BY DEF ListsTyped
<1>2. /\ Sent(listing[r], c, n) /\ Wired(w, size, c, n) /\ Fresh(listing[r], pane[r], held[r])
      /\ Taken(pane[r], held[r], size, c, n - Len(w))
  BY DEF Streams, StreamOf
<1>3. c[0] = 0 /\ Len(w) <= n
  BY <1>2 DEF Sent, Wired
<1>l. Len(w) \in Nat /\ Len(frames) \in Nat
  BY <1>1, LenProperties
<1>4. n - Len(w) \in Nat /\ m \in Nat
  BY <1>3, <1>l
<1>m. listing'[r].at = "stream" => listing'[r].seq = m /\ listing'[r].read = d[m] + listing'[r].pending
  OBVIOUS
<1>s. /\ listing'[r].size = size /\ Carries(frames, size, d, n) /\ n + Len(frames) = m
      /\ w = wire[r]
  OBVIOUS
<1> HIDE DEF w, size, m
<1>5. Wired(w \o frames, size, d, m) /\ m - Len(w \o frames) = n - Len(w)
  <2>1. Carries(frames, size, d, n) /\ Same(c, d, n)
    BY <1>s
  <2>2. /\ Wired(w \o frames, size, d, n + Len(frames))
        /\ n + Len(frames) - Len(w \o frames) = n - Len(w)
    BY <1>1, <1>2, <2>1, WireGrows
  <2> QED BY <2>2 DEF m
<1>6. Taken(pane[r], held[r], size, d, n - Len(w))
  <2>1. Same(c, d, n - Len(w))
    BY <1>3, <1>4, <1>l DEF Same
  <2> QED BY <1>2, <1>4, <2>1, TakenStays
<1>7. d[0] = 0
  <2>1. 0 \in 0..n
    OBVIOUS
  <2> QED BY <1>3, <2>1 DEF Same
<1>8. Sent(listing'[r], d, m)
  BY <1>4, <1>7, <1>m DEF Sent
<1>9. Fresh(listing'[r], pane[r], held[r])
  BY <1>2 DEF Fresh
<1>10. Streams(r, d, m)'
  BY <1>1, <1>5, <1>6, <1>8, <1>9, <1>s DEF Streams, StreamOf
<1> QED BY <1>1, <1>10, OthersStream

------------------------------------------------------------------------------
(* A listing that is over stays as it is; what is remembered was before,   *)
(* or is of a listing that is over now.                                    *)
LEMMA RemembersStep ==
    ASSUME Remembers, NEW new, Comes(memory, memory', new),
           \A q \in Requests : listing[q].at = "over" => listing'[q] = listing[q],
           \A m \in new : Earned(m)'
    PROVE  Remembers'
<1>1. ASSUME NEW m, Earned(m) PROVE Earned(m)'
  BY <1>1 DEF Earned
<1>2. ASSUME NEW i \in 1..Len(memory') PROVE Earned(memory[i])'
  <2>h. PICK m : m = memory'[i]
    OBVIOUS
  <2>1. m \in new \/ \E j \in 1..Len(memory) : m = memory[j]
    BY <2>h DEF Comes
  <2>2. CASE \E j \in 1..Len(memory) : m = memory[j]
    <3>1. PICK j \in 1..Len(memory) : m = memory[j]
      BY <2>2
    <3>2. Earned(memory[j])
      BY DEF Remembers
    <3>3. Earned(m)
      BY <3>1, <3>2
    <3>4. Earned(m)'
      BY <3>3, <1>1
    <3> QED BY <3>4, <2>h DEF Earned
  <2>3. CASE m \in new
    <3>1. \E r \in Requests : listing'[r].key = m.key /\ listing'[r].at = "over" /\ listing'[r].size = m.count
      BY <2>3 DEF Earned
    <3> QED BY <3>1, <2>h DEF Earned
  <2> QED BY <2>1, <2>2, <2>3
<1> QED BY <1>2 DEF Comes, Remembers

LEMMA MemoryRests ==
    ASSUME ListsTyped, Remembers, UNCHANGED memory
    PROVE  Comes(memory, memory', {})
BY MemoryKeeps DEF ListsTyped, Remembers

LEMMA ListFields ==
    ASSUME NEW x \in ListSessions
    PROVE  /\ \A l \in ListStages : [x EXCEPT !.at = l] \in ListSessions
           /\ x.seq \in Nat /\ x.read \in Nat /\ x.pending \in Nat /\ x.size \in Nat
           /\ x.key \in L!Keys \cup {<<>>}
           /\ x.pending + 1 < BatchMax =>
                 [x EXCEPT !.read = @ + 1, !.pending = @ + 1] \in ListSessions
           /\ \A n \in Nat : [x EXCEPT !.read = n, !.pending = 0, !.seq = @ + 1] \in ListSessions
           /\ [L!NoSession EXCEPT !.at = "over", !.key = x.key, !.size = x.size] \in ListSessions
<1> USE DEF ListSessions
<1>1. /\ x.seq \in Nat /\ x.read \in Nat /\ x.pending \in 0..BatchMax /\ x.size \in Sizes \cup {0}
      /\ x.key \in L!Keys \cup {<<>>} /\ x.at \in ListStages
  OBVIOUS
<1>2. x.pending \in Nat /\ x.size \in Nat /\ 0 \in 0..BatchMax
  <2> HIDE DEF ListSessions
  <2>1. BatchMax \in Nat /\ \A n \in Sizes : n \in Nat
    BY ListAssumption
  <2>2. x.pending \in Nat /\ 0 \in 0..BatchMax
    BY <1>1, <2>1
  <2>3. x.size \in Nat
    BY <1>1, <2>1
  <2> QED BY <2>2, <2>3
<1>3. x.pending + 1 < BatchMax => x.pending + 1 \in 0..BatchMax /\ x.read + 1 \in Nat
  <2> HIDE DEF ListSessions
  <2> QED BY <1>1, <1>2, ListAssumption
<1>4. \A n, m \in Nat : [x EXCEPT !.read = n, !.pending = 0, !.seq = m] \in ListSessions
  BY <1>2
<1>8. x.seq + 1 \in Nat
  BY <1>1
<1>5. [L!NoSession EXCEPT !.at = "over", !.key = x.key, !.size = x.size] \in ListSessions
  BY <1>1, <1>2 DEF L!NoSession, ListStages
<1>6. \A n \in Nat, m \in 0..BatchMax : [x EXCEPT !.read = n, !.pending = m] \in ListSessions
  OBVIOUS
<1>7. \A l \in ListStages : [x EXCEPT !.at = l] \in ListSessions
  OBVIOUS
<1> HIDE DEF ListSessions
<1> QED BY <1>1, <1>2, <1>3, <1>4, <1>5, <1>6, <1>7, <1>8

LEMMA PaneFields ==
    ASSUME NEW x \in PaneStates
    PROVE  /\ \A l \in {"asking", "reading", "left", "stale", "fallback"} : [x EXCEPT !.at = l] \in PaneStates
           /\ \A b \in BOOLEAN : [x EXCEPT !.missed = b] \in PaneStates
BY DEF PaneStates

(* Steps of a session up to its stream.                                    *)
LEMMA BecomesStep ==
    ASSUME ListInv, NEW r \in Requests, NEW label \in {"ready", "decide", "fast", "spawn", "stream"},
           listing[r].at \in {"asked", "ready", "decide", "fast", "spawn"}, L!Becomes(r, label),
           listing[r].at \in {"asked", "ready"} \/ label # "ready",
           UNCHANGED <<flagged, cancels, wire, pane, held>>,
           Comes(memory, memory', {})
    PROVE  ListInv'
<1>1. ListsTyped /\ Streamed /\ Remembers
  BY DEF ListInv
<1>2. /\ listing' \in [Requests -> ListSessions]
      /\ \A q \in Requests \ {r} : listing'[q] = listing[q]
      /\ listing'[r] = [listing[r] EXCEPT !.at = label]
      /\ listing[r] \in ListSessions
  BY <1>1, ListFields DEF L!Becomes, ListsTyped, ListStages
<1>3. listing'[r].at = label /\ listing'[r].seq = listing[r].seq /\ listing'[r].read = listing[r].read
      /\ listing'[r].pending = listing[r].pending /\ listing'[r].size = listing[r].size
  BY <1>2 DEF ListSessions
<1>4. L!Registered \subseteq L!Registered'
  BY <1>2, <1>3 DEF L!Registered
<1>5. ListsTyped'
  BY <1>1, <1>2, <1>4 DEF ListsTyped, Comes
<1>6. Streamed'
  BY <1>1, <1>2, <1>3, QuietSession
<1>7. Remembers'
  BY <1>1, <1>2, RemembersStep
<1> QED BY <1>5, <1>6, <1>7 DEF ListInv

LEMMA QuietStep ==
    ASSUME ListInv, NEW r \in Requests,
           L!TakesSlot(r) \/ L!Registers(r) \/ L!Decides(r) \/ L!FastIsSlow(r) \/ L!Spawns(r)
    PROVE  ListInv'
<1>1. ListsTyped /\ Streamed /\ Remembers
  BY DEF ListInv
<1>2. listing[r] \in ListSessions /\ memory \in Seq(Counts) /\ Distinct(memory) /\ Len(memory) <= Capacity
  BY <1>1 DEF ListsTyped, Remembers
<1>3. CASE L!Decides(r)
  <2>1. listing[r].key \in L!Keys \cup {<<>>}
    BY <1>2, ListFields
  <2>2. Comes(memory, memory', {})
    BY <1>2, <1>3, <2>1, MemoryKeeps DEF L!Decides
  <2>3. /\ L!Is(r, "decide") /\ (L!Becomes(r, "spawn") \/ L!Becomes(r, "fast"))
        /\ UNCHANGED <<flagged, cancels, wire, pane, held>>
    BY <1>3 DEF L!Decides
  <2>4. listing[r].at = "decide"
    BY <1>3 DEF L!Decides, L!Is
  <2> QED BY <2>2, <2>3, <2>4, BecomesStep
<1>4. CASE ~L!Decides(r)
  <2>1. L!Here(r) /\ UNCHANGED memory
    BY <1>4 DEF L!Here, L!TakesSlot, L!Registers, L!FastIsSlow, L!Spawns
  <2>2. Comes(memory, memory', {})
    BY <1>1, <2>1, MemoryRests
  <2>3. UNCHANGED <<flagged, cancels, wire, pane, held>>
    BY <2>1 DEF L!Here
  <2>4. \/ listing[r].at = "asked" /\ L!Becomes(r, "ready")
        \/ listing[r].at = "ready" /\ L!Becomes(r, "decide")
        \/ listing[r].at = "fast" /\ L!Becomes(r, "spawn")
        \/ listing[r].at = "spawn" /\ L!Becomes(r, "stream")
    BY <1>4 DEF L!Is, L!TakesSlot, L!Registers, L!FastIsSlow, L!Spawns
  <2> QED BY <2>2, <2>3, <2>4, BecomesStep
<1> QED BY <1>3, <1>4

LEMMA AsksStep ==
    ASSUME ListInv, NEW r \in Requests, L!Asks(r)
    PROVE  ListInv'
<1>1. ListsTyped /\ Streamed /\ Remembers
  BY DEF ListInv
<1>2. PICK a \in Connections, p \in {<<>>}, n \in Sizes :
         listing' = [listing EXCEPT ![r] = [L!NoSession EXCEPT !.at = "asked", !.key = <<a, p>>, !.size = n]]
  BY DEF L!Asks
<1> DEFINE new == [L!NoSession EXCEPT !.at = "asked", !.key = <<a, p>>, !.size = n]
<1>3. /\ pane[r].at = "off" /\ pane' = [pane EXCEPT ![r].at = "asking"]
      /\ UNCHANGED <<flagged, cancels, wire, held, memory>>
  BY DEF L!Asks
<1>4. /\ new \in ListSessions /\ new.at = "asked" /\ new.seq = 0 /\ new.read = 0 /\ new.pending = 0
  <2>1. <<a, p>> \in L!Keys /\ n \in Sizes /\ 0 \in 0..BatchMax
    BY ListAssumption DEF L!Keys
  <2> QED BY <2>1 DEF ListSessions, L!NoSession, ListStages
<1>s. listing' = [listing EXCEPT ![r] = new]
  BY <1>2
<1> HIDE DEF new
<1>5. PICK c, l : Streams(r, c, l)
  BY <1>1 DEF Streamed
<1>6. /\ listing[r].at = "none" /\ pane[r] = L!NoPane /\ held[r] = <<>>
  BY <1>3, <1>5 DEF Streams, StreamOf, Fresh
<1>7. /\ l = 0 /\ c \in [Nat -> Nat] /\ c[0] = 0 /\ Len(wire[r]) <= 0
  BY <1>5, <1>6 DEF Streams, StreamOf, Sent, Wired
<1>8. Len(wire[r]) = 0
  <2>1. Len(wire[r]) \in Nat
    BY <1>1, LenProperties DEF ListsTyped
  <2> QED BY <1>7, <2>1
<1>9. /\ listing'[r] = new /\ \A q \in Requests \ {r} : listing'[q] = listing[q] /\ pane'[q] = pane[q]
      /\ listing' \in [Requests -> ListSessions] /\ pane' \in [Requests -> PaneStates]
      /\ pane'[r] = [L!NoPane EXCEPT !.at = "asking"]
  BY <1>1, <1>3, <1>4, <1>6, <1>s, PaneFields DEF ListsTyped
<1>10. /\ pane'[r].at = "asking" /\ pane'[r].last = 0 /\ pane'[r].got = 0
  BY <1>9 DEF L!NoPane
<1>11. Streams(r, c, 0)'
  <2>1. Sent(new, c, 0)
    BY <1>4, <1>7 DEF Sent
  <2>2. Wired(wire[r], new.size, c, 0)
    BY <1>8 DEF Wired
  <2>3. Fresh(new, pane'[r], held[r])
    BY <1>4, <1>10 DEF Fresh
  <2>4. Kept(<<>>, new.size, c, 0)
    BY DEF Kept
  <2>5. Taken(pane'[r], held[r], new.size, c, 0 - Len(wire[r]))
    BY <1>6, <1>8, <1>10, <2>4 DEF Taken
  <2> QED BY <1>3, <1>9, <2>1, <2>2, <2>3, <2>5 DEF Streams, StreamOf
<1>12. Streamed'
  BY <1>1, <1>3, <1>9, <1>11, OthersStream
<1>13. ListsTyped'
  <2>1. L!Registered \subseteq L!Registered'
    BY <1>6, <1>9 DEF L!Registered
  <2> QED BY <1>1, <1>3, <1>9, <2>1 DEF ListsTyped
<1>14. Remembers'
  <2>1. \A q \in Requests : listing[q].at = "over" => listing'[q] = listing[q]
    BY <1>6, <1>9
  <2> QED BY <1>1, <1>3, <2>1, MemoryRests, RemembersStep
<1> QED BY <1>12, <1>13, <1>14 DEF ListInv

LEMMA RefusedStep ==
    ASSUME ListInv, NEW r \in Requests, L!IsBusy(r) \/ L!FailsGate(r) \/ L!LacksGroup(r)
    PROVE  ListInv'
<1>1. ListsTyped /\ Streamed /\ Remembers
  BY DEF ListInv
<1>2. listing[r].at \in {"asked", "ready"} /\ L!Refused(r)
  BY DEF L!IsBusy, L!FailsGate, L!LacksGroup, L!Is
<1>3. /\ listing' = [listing EXCEPT ![r].at = "over"]
      /\ pane' = [pane EXCEPT ![r].at = IF @ = "asking" THEN "fallback" ELSE @]
      /\ UNCHANGED <<flagged, cancels, wire, held, memory>>
  BY <1>2 DEF L!Refused, L!Becomes
<1>t. listing[r] \in ListSessions /\ pane[r] \in PaneStates
  BY <1>1 DEF ListsTyped
<1>4. /\ listing'[r] = [listing[r] EXCEPT !.at = "over"] /\ listing'[r] \in ListSessions
      /\ \A q \in Requests \ {r} : listing'[q] = listing[q] /\ pane'[q] = pane[q]
      /\ listing' \in [Requests -> ListSessions] /\ pane' \in [Requests -> PaneStates]
      /\ pane'[r] \in {pane[r], [pane[r] EXCEPT !.at = "fallback"]}
      /\ pane[r].at = "asking" => pane'[r] = [pane[r] EXCEPT !.at = "fallback"]
      /\ pane[r].at # "asking" => pane'[r] = pane[r]
  <2>1. [listing[r] EXCEPT !.at = "over"] \in ListSessions
    BY <1>t, ListFields DEF ListStages
  <2>2. [pane[r] EXCEPT !.at = "fallback"] \in PaneStates
    BY <1>t, PaneFields
  <2>3. [pane[r] EXCEPT !.at = @] = pane[r]
    BY <1>t DEF PaneStates
  <2> QED BY <1>1, <1>3, <2>1, <2>2, <2>3 DEF ListsTyped
<1>5. listing'[r].at = "over" /\ listing'[r].size = listing[r].size
  BY <1>4, <1>t DEF ListSessions
<1>6. PICK c, n : Streams(r, c, n)
  BY <1>1 DEF Streamed
<1>7. Streams(r, c, n)'
  <2>1. Sent(listing'[r], c, n)
    BY <1>2, <1>5, <1>6 DEF Streams, StreamOf, Sent
  <2>2. Wired(wire[r], listing'[r].size, c, n)
    BY <1>5, <1>6 DEF Streams, StreamOf
  <2>3. Fresh(listing'[r], pane'[r], held[r])
    BY <1>2, <1>4, <1>5, <1>6, <1>t DEF Streams, StreamOf, Fresh, PaneStates
  <2>4. Taken(pane'[r], held[r], listing'[r].size, c, n - Len(wire[r]))
    <3>1. Taken(pane[r], held[r], listing'[r].size, c, n - Len(wire[r]))
      BY <1>5, <1>6 DEF Streams, StreamOf
    <3>2. CASE pane[r].at = "asking"
      <4>1. pane'[r].at = "fallback"
        BY <1>4, <1>t, <3>2 DEF PaneStates
      <4> QED BY <4>1 DEF Taken
    <3>3. CASE pane[r].at # "asking"
      BY <1>4, <3>1, <3>3
    <3> QED BY <3>2, <3>3
  <2> QED BY <1>3, <2>1, <2>2, <2>3, <2>4 DEF Streams, StreamOf
<1>8. Streamed'
  BY <1>1, <1>3, <1>4, <1>7, OthersStream
<1>9. ListsTyped'
  <2>1. L!Registered \subseteq L!Registered'
    BY <1>2, <1>4 DEF L!Registered
  <2> QED BY <1>1, <1>3, <1>4, <2>1 DEF ListsTyped
<1>10. Remembers'
  <2>1. \A q \in Requests : listing[q].at = "over" => listing'[q] = listing[q]
    BY <1>2, <1>4
  <2> QED BY <1>1, <1>3, <2>1, MemoryRests, RemembersStep
<1> QED BY <1>8, <1>9, <1>10 DEF ListInv

(* The end of a session.                                                   *)
LEMMA EndsStep ==
    ASSUME ListInv, NEW r \in Requests, listing[r].at \in {"fast", "spawn", "stream"},
           NEW c, NEW n \in Nat, Streams(r, c, n),
           NEW frames \in Seq(FrameStates), L!Ends(r, frames),
           NEW d \in [Nat -> Nat], Same(c, d, n), Carries(frames, listing[r].size, d, n),
           memory' = memory \/ memory' = L!Record(memory, listing[r].key, listing[r].size)
    PROVE  ListInv'
<1>1. ListsTyped /\ Streamed /\ Remembers
  BY DEF ListInv
<1>t. /\ listing[r] \in ListSessions /\ wire[r] \in Seq(FrameStates)
      /\ memory \in Seq(Counts) /\ Distinct(memory) /\ Len(memory) <= Capacity
  BY <1>1 DEF ListsTyped, Remembers
<1> DEFINE new == [L!NoSession EXCEPT !.at = "over", !.key = listing[r].key, !.size = listing[r].size]
<1>2. /\ listing' = [listing EXCEPT ![r] = new] /\ wire' = [wire EXCEPT ![r] = @ \o frames]
      /\ flagged' = flagged \ {r} /\ UNCHANGED <<cancels, pane, held>>
  BY DEF L!Ends
<1>3. /\ new \in ListSessions /\ new.at = "over" /\ new.size = listing[r].size
      /\ new.key = listing[r].key
  BY <1>t, ListFields DEF L!NoSession
<1> HIDE DEF new
<1>4. /\ listing' \in [Requests -> ListSessions] /\ listing'[r] = new
      /\ \A q \in Requests \ {r} : listing'[q] = listing[q]
  BY <1>1, <1>2, <1>3 DEF ListsTyped
<1>5. Streamed'
  BY <1>1, <1>2, <1>3, <1>4, SendsStream
<1>6. wire' \in [Requests -> Seq(FrameStates)]
  <2>1. wire[r] \o frames \in Seq(FrameStates)
    BY <1>t, ConcatProperties
  <2> QED BY <1>1, <1>2, <2>1 DEF ListsTyped
<1>7. \E set : Comes(memory, memory', set) /\ \A m \in set : Earned(m)'
  <2>1. CASE memory' = memory
    BY <1>1, <2>1, MemoryRests
  <2>2. CASE memory' = L!Record(memory, listing[r].key, listing[r].size)
    <3> DEFINE m == [key |-> listing[r].key, count |-> listing[r].size]
    <3>1. listing[r].key \in L!Keys \cup {<<>>} /\ listing[r].size \in Nat
      BY <1>t, ListFields
    <3>2. Comes(memory, memory', {m})
      BY <1>t, <2>2, <3>1, MemoryKeeps
    <3>3. m.key = new.key /\ m.count = new.size
      BY <1>3
    <3>p. PICK x : x = m
      OBVIOUS
    <3> HIDE DEF m
    <3>4. Earned(x)'
      BY <1>3, <1>4, <3>3, <3>p DEF Earned
    <3>5. Comes(memory, memory', {x}) /\ \A y \in {x} : Earned(y)'
      BY <3>2, <3>4, <3>p
    <3> QED BY <3>5
  <2> QED BY <2>1, <2>2
<1>8. Remembers'
  <2>1. \A q \in Requests : listing[q].at = "over" => listing'[q] = listing[q]
    BY <1>4
  <2>2. PICK set : Comes(memory, memory', set) /\ \A m \in set : Earned(m)'
    BY <1>7
  <2> QED BY <1>1, <2>1, <2>2, RemembersStep
<1>9. ListsTyped'
  <2>1. L!Registered \ {r} \subseteq L!Registered'
    BY <1>4 DEF L!Registered
  <2>2. memory' \in Seq(Counts)
    BY <1>7 DEF Comes
  <2> QED BY <1>1, <1>2, <1>4, <1>6, <2>1, <2>2 DEF ListsTyped
<1> QED BY <1>5, <1>8, <1>9 DEF ListInv

(* What is known of a session that runs.                                   *)
LEMMA Running ==
    ASSUME ListInv, NEW r \in Requests, listing[r].at \in {"fast", "spawn", "stream"}
    PROVE  /\ listing[r] \in ListSessions
           /\ \E c \in [Nat -> Nat], n \in Nat :
                 /\ Streams(r, c, n) /\ n = listing[r].seq /\ c[0] = 0
                 /\ listing[r].read = c[n] + listing[r].pending
                 /\ listing[r].at # "stream" => n = 0
<1>1. listing[r] \in ListSessions
  BY DEF ListInv, ListsTyped
<1>2. PICK c, n : Streams(r, c, n)
  BY DEF ListInv, Streamed
<1>3. Sent(listing[r], c, n)
  BY <1>2 DEF Streams, StreamOf
<1>4. /\ c \in [Nat -> Nat] /\ n \in Nat /\ n = listing[r].seq /\ c[0] = 0
      /\ listing[r].read = c[n] + listing[r].pending
      /\ listing[r].at # "stream" => n = 0
  BY <1>3 DEF Sent
<1> QED BY <1>1, <1>2, <1>4

(* Counts with one more place.                                             *)
LEMMA OneMore ==
    ASSUME NEW c \in [Nat -> Nat], NEW n \in Nat, NEW v \in Nat
    PROVE  LET d == [c EXCEPT ![n + 1] = v]
           IN d \in [Nat -> Nat] /\ Same(c, d, n) /\ d[n + 1] = v /\ d[n] = c[n]
<1> DEFINE d == [c EXCEPT ![n + 1] = v]
<1>1. d \in [Nat -> Nat] /\ d[n + 1] = v
  OBVIOUS
<1>2. ASSUME NEW k \in 0..n PROVE d[k] = c[k]
  <2>1. k # n + 1 /\ k \in Nat
    OBVIOUS
  <2> QED BY <2>1
<1>3. n \in 0..n
  OBVIOUS
<1>h. d = [c EXCEPT ![n + 1] = v]
  OBVIOUS
<1> HIDE DEF d
<1>4. Same(c, d, n) /\ d[n] = c[n]
  BY <1>2, <1>3 DEF Same
<1> QED BY <1>1, <1>4, <1>h

(* Counts up to one more frame.                                            *)
LEMMA NextFrame ==
    ASSUME NEW c \in [Nat -> Nat], NEW n \in Nat, NEW size, NEW e \in Nat,
           NEW end \in {"no", "done", "error"}, end = "done" => c[n] + e = size
    PROVE  /\ L!Frame(n + 1, e, end) \in FrameStates
           /\ \E d \in [Nat -> Nat] : /\ Same(c, d, n) /\ d[n + 1] = c[n] + e
                                      /\ Chained(L!Frame(n + 1, e, end), d, n + 1, size)
<1> DEFINE v == c[n] + e
           d == [c EXCEPT ![n + 1] = v]
           k == n + 1
           f == L!Frame(k, e, end)
<1>1. v \in Nat /\ k \in Nat
  OBVIOUS
<1>2. d \in [Nat -> Nat] /\ Same(c, d, n) /\ d[n + 1] = v /\ d[n] = c[n]
  <2> HIDE DEF v
  <2> QED BY <1>1, OneMore
<1>h. k = n + 1 /\ v = c[n] + e /\ k - 1 = n
  OBVIOUS
<1> HIDE DEF k, d, v
<1>3. f \in FrameStates /\ f.seq = k /\ f.entries = e /\ f.end = end
  BY <1>1 DEF L!Frame, FrameStates
<1> HIDE DEF f
<1>4. Chained(f, d, k, size)
  BY <1>2, <1>3, <1>h DEF Chained
<1> QED BY <1>2, <1>3, <1>4, <1>h DEF f

LEMMA FailsStep ==
    ASSUME ListInv, NEW r \in Requests, listing[r].at \in {"fast", "spawn", "stream"},
           L!Fails(r), UNCHANGED memory
    PROVE  ListInv'
<1>1. PICK c \in [Nat -> Nat], n \in Nat : Streams(r, c, n) /\ n = listing[r].seq
  BY Running
<1> DEFINE f == L!Frame(n + 1, 0, "error")
<1>e. L!Ends(r, <<f>>)
  BY <1>1 DEF L!Fails
<1>2. /\ f \in FrameStates
      /\ \E d \in [Nat -> Nat] : Same(c, d, n) /\ Chained(f, d, n + 1, listing[r].size)
  BY NextFrame
<1> HIDE DEF f
<1>3. PICK d \in [Nat -> Nat] : Same(c, d, n) /\ Chained(f, d, n + 1, listing[r].size)
  BY <1>2
<1>5. <<f>> \in Seq(FrameStates) /\ Len(<<f>>) = 1 /\ <<f>>[1] = f
  BY <1>2
<1>6. Carries(<<f>>, listing[r].size, d, n)
  BY <1>3, <1>5 DEF Carries
<1> QED BY <1>1, <1>3, <1>5, <1>6, <1>e, EndsStep

(* The frames of a listing that was read: what is pending, and the end.    *)
LEMMA FlushedStep ==
    ASSUME ListInv, NEW r \in Requests, listing[r].at = "stream",
           NEW end \in {"done", "error"}, end = "done" => listing[r].read = listing[r].size,
           L!Ends(r, L!Flushed(listing[r], end)),
           memory' = memory \/ memory' = L!Record(memory, listing[r].key, listing[r].size)
    PROVE  ListInv'
<1>1. PICK c \in [Nat -> Nat], n \in Nat :
         Streams(r, c, n) /\ n = listing[r].seq /\ listing[r].read = c[n] + listing[r].pending
  BY Running
<1>t. listing[r] \in ListSessions
  BY Running
<1> DEFINE s == listing[r]
           e == s.pending
           size == s.size
<1>2. e \in Nat
  BY <1>t, ListFields
<1>3. CASE e > 0
  <2> DEFINE f == L!Frame(n + 1, e, "no")
             m == n + 1
             g == L!Frame(m + 1, 0, end)
  <2>1. L!Flushed(s, end) = <<f>> \o <<g>>
    <3>1. L!Rest(s) = <<f>>
      BY <1>1, <1>3 DEF L!Rest
    <3>2. Len(<<f>>) = 1 /\ s.seq + 1 + 1 = m + 1
      BY <1>1
    <3> QED BY <3>1, <3>2 DEF L!Flushed
  <2>2. /\ f \in FrameStates
        /\ \E d \in [Nat -> Nat] : Same(c, d, n) /\ d[n + 1] = c[n] + e /\ Chained(f, d, n + 1, size)
    <3> HIDE DEF e, size
    <3> QED BY <1>2, NextFrame
  <2>3. PICK b \in [Nat -> Nat] : Same(c, b, n) /\ b[n + 1] = c[n] + e /\ Chained(f, b, n + 1, size)
    BY <2>2
  <2>4. m \in Nat /\ (end = "done" => b[m] + 0 = size) /\ end \in {"no", "done", "error"}
    BY <1>1, <2>3
  <2>m. m = n + 1
    OBVIOUS
  <2> HIDE DEF f, m, e, size
  <2>5. /\ g \in FrameStates
        /\ \E d \in [Nat -> Nat] : Same(b, d, m) /\ Chained(g, d, m + 1, size)
    BY <2>4, NextFrame
  <2>6. PICK d \in [Nat -> Nat] : Same(b, d, m) /\ Chained(g, d, m + 1, size)
    BY <2>5
  <2> HIDE DEF g
  <2>7. Chained(f, d, n + 1, size)
    <3>1. m \in 1..m
      BY <2>m
    <3> QED BY <2>3, <2>4, <2>6, <2>m, <3>1, SameChain
  <2>8. Same(c, d, n)
    <3>1. \A k \in 0..n : k \in 0..m
      BY <2>m
    <3> QED BY <2>3, <2>6, <3>1 DEF Same
  <2>9. /\ <<f>> \o <<g>> \in Seq(FrameStates) /\ Len(<<f>> \o <<g>>) = 2
        /\ (<<f>> \o <<g>>)[1] = f /\ (<<f>> \o <<g>>)[2] = g
    BY <2>2, <2>5
  <2>10. Carries(<<f>> \o <<g>>, size, d, n)
    <3>1. m + 1 = n + 2
      BY <2>m
    <3> QED BY <2>6, <2>7, <2>9, <3>1 DEF Carries
  <2>11. L!Ends(r, <<f>> \o <<g>>)
    BY <2>1
  <2> QED BY <1>1, <2>8, <2>9, <2>10, <2>11, EndsStep DEF size
<1>4. CASE ~(e > 0)
  <2> DEFINE g == L!Frame(n + 1, 0, end)
  <2>1. L!Flushed(s, end) = <<g>>
    <3>1. L!Rest(s) = <<>>
      BY <1>4 DEF L!Rest
    <3>2. n + 1 + 0 = n + 1
      OBVIOUS
    <3> QED BY <1>1, <3>1, <3>2 DEF L!Flushed
  <2>2. /\ g \in FrameStates
        /\ \E d \in [Nat -> Nat] : Same(c, d, n) /\ Chained(g, d, n + 1, size)
    <3>1. e = 0
      BY <1>2, <1>4
    <3>2. end = "done" => c[n] + 0 = size
      BY <1>1, <3>1
    <3> QED BY <3>2, NextFrame
  <2> HIDE DEF g
  <2>3. PICK d \in [Nat -> Nat] : Same(c, d, n) /\ Chained(g, d, n + 1, size)
    BY <2>2
  <2>4. <<g>> \in Seq(FrameStates) /\ Len(<<g>>) = 1 /\ <<g>>[1] = g
    BY <2>2
  <2>5. Carries(<<g>>, size, d, n)
    BY <2>3, <2>4 DEF Carries
  <2>6. L!Ends(r, <<g>>)
    BY <2>1
  <2> QED BY <1>1, <2>3, <2>4, <2>5, <2>6, EndsStep
<1> QED BY <1>3, <1>4

(* Full frames and what is left over, for a listing that comes at once.    *)
LEMMA Division ==
    ASSUME NEW a \in Nat, NEW b \in Nat \ {0}
    PROVE  /\ a \div b \in Nat /\ a % b \in Nat
           /\ a = (a \div b) * b + (a % b)
           /\ \A i \in Nat : i * b \in Nat /\ (i + 1) * b = i * b + b
OBVIOUS

LEMMA OneAfter ==
    ASSUME NEW F, NEW s \in Seq(F), NEW e \in F, NEW n \in Nat, Len(s) = n
    PROVE  /\ s \o <<e>> \in Seq(F) /\ Len(s \o <<e>>) = n + 1 /\ (s \o <<e>>)[n + 1] = e
           /\ \A i \in 1..n : (s \o <<e>>)[i] = s[i]
BY AppendIsConcat, AppendProperties

LEMMA FastListsStep ==
    ASSUME ListInv, NEW r \in Requests, L!FastLists(r)
    PROVE  ListInv'
<1>0. listing[r].at = "fast" /\ L!Ends(r, L!Frames(listing[r], listing[r].size, "done"))
      /\ memory' = L!Record(memory, listing[r].key, listing[r].size)
  BY DEF L!FastLists, L!Is
<1>1. PICK c \in [Nat -> Nat], n \in Nat :
         Streams(r, c, n) /\ n = listing[r].seq /\ c[0] = 0 /\ n = 0
  BY <1>0, Running
<1>t. listing[r] \in ListSessions
  BY <1>0, Running
<1> DEFINE size == listing[r].size
           full == L!Batches(size)
           left == size % BatchMax
           m == full + 1
           frames == L!Frames(listing[r], size, "done")
           d == [k \in Nat |-> IF k <= full THEN k * BatchMax ELSE size]
<1>2. size \in Nat /\ listing[r].seq = 0
  BY <1>1, <1>t, ListFields
<1>3. /\ full \in Nat /\ left \in Nat /\ size = full * BatchMax + left
      /\ \A i \in Nat : i * BatchMax \in Nat /\ (i + 1) * BatchMax = i * BatchMax + BatchMax
  <2> HIDE DEF size
  <2> QED BY <1>2, Division, ListAssumption DEF L!Batches
<1>4. /\ DOMAIN frames = 1..m /\ m \in Nat
      /\ \A i \in 1..full : frames[i] = L!Frame(i, BatchMax, "no")
      /\ frames[m] = L!Frame(m, left, "done")
      /\ frames \in Seq(FrameStates) /\ Len(frames) = m
  <2> DEFINE first == [i \in 1..full |-> L!Frame(listing[r].seq + i, BatchMax, "no")]
             last == L!Frame(listing[r].seq + full + 1, left, "done")
  <2>1. frames = first \o <<last>>
    BY DEF L!Frames
  <2>2. last = L!Frame(m, left, "done") /\ m \in Nat
    <3> HIDE DEF full, left, size
    <3> QED BY <1>2, <1>3
  <2>3. L!Frame(m, left, "done") \in FrameStates
    <3> HIDE DEF full, left, size
    <3> QED BY <1>3, <2>2 DEF L!Frame, FrameStates
  <2>4. ASSUME NEW i \in 1..full
        PROVE  first[i] = L!Frame(i, BatchMax, "no") /\ first[i] \in FrameStates
    <3> HIDE DEF full, left, size
    <3> QED BY <1>2, <1>3, ListAssumption DEF L!Frame, FrameStates
  <2> HIDE DEF last, frames, full, left, size
  <2>5. first \in Seq(FrameStates) /\ Len(first) = full
    <3>1. first \in [1..full -> FrameStates] /\ full \in Nat
      <4>1. DOMAIN first = 1..full /\ first = [i \in 1..full |-> first[i]]
        OBVIOUS
      <4> HIDE DEF first
      <4> QED BY <1>3, <2>4, <4>1
    <3> HIDE DEF first
    <3> QED BY <3>1
  <2> HIDE DEF first
  <2>6. last \in FrameStates /\ full \in Nat
    BY <1>3, <2>2, <2>3
  <2>7. /\ frames \in Seq(FrameStates) /\ Len(frames) = full + 1 /\ frames[full + 1] = last
        /\ \A i \in 1..full : frames[i] = first[i]
    <3> DEFINE more == first \o <<last>>
    <3>1. /\ more \in Seq(FrameStates) /\ Len(more) = full + 1 /\ more[full + 1] = last
          /\ \A i \in 1..full : more[i] = first[i]
      <4>1. \A n1 \in Nat : Len(first) = n1 =>
               /\ more \in Seq(FrameStates) /\ Len(more) = n1 + 1 /\ more[n1 + 1] = last
               /\ \A i \in 1..n1 : more[i] = first[i]
        BY <2>5, <2>6, OneAfter
      <4> HIDE DEF more
      <4> QED BY <2>5, <2>6, <4>1
    <3> HIDE DEF more
    <3>2. frames = more
      BY <2>1 DEF more
    <3> QED BY <3>1, <3>2
  <2>8. frames[m] = last
    <3>1. m = full + 1
      OBVIOUS
    <3> HIDE DEF m
    <3> QED BY <2>7, <3>1
  <2>9. \A i \in 1..full : frames[i] = first[i]
    BY <2>7
  <2>10. DOMAIN frames = 1..m
    BY <2>2, <2>7
  <2> QED BY <2>2, <2>4, <2>7, <2>8, <2>9, <2>10
<1> HIDE DEF frames, full, left, size
<1>5. /\ d \in [Nat -> Nat] /\ d[m] = size
      /\ \A k \in 0..full : d[k] = k * BatchMax
  BY <1>2, <1>3
<1> HIDE DEF d
<1>6. ASSUME NEW i \in 1..full PROVE Chained(frames[i], d, i, size)
  <2>1. i - 1 \in 0..full /\ i \in 0..full /\ i - 1 \in Nat /\ i - 1 + 1 = i
    BY <1>3
  <2>2. d[i] = d[i - 1] + BatchMax
    BY <1>3, <1>5, <2>1
  <2>3. frames[i].seq = i /\ frames[i].entries = BatchMax /\ frames[i].end = "no"
    <3>1. frames[i] = L!Frame(i, BatchMax, "no")
      BY <1>4
    <3> QED BY <3>1 DEF L!Frame
  <2> QED BY <2>2, <2>3 DEF Chained
<1>7. Chained(frames[m], d, m, size)
  <2>1. m - 1 = full /\ full \in 0..full
    BY <1>3
  <2>2. d[m] = d[m - 1] + left
    BY <1>3, <1>5, <2>1
  <2>3. frames[m].seq = m /\ frames[m].entries = left /\ frames[m].end = "done"
    BY <1>4 DEF L!Frame
  <2> QED BY <1>5, <2>2, <2>3 DEF Chained
<1>8. Carries(frames, size, d, 0)
  <2> SUFFICES ASSUME NEW i \in 1..m PROVE Chained(frames[i], d, 0 + i, size)
    BY <1>4 DEF Carries
  <2>1. 0 + i = i /\ (i \in 1..full \/ i = m)
    BY <1>3
  <2> QED BY <1>6, <1>7, <2>1
<1>9. Same(c, d, 0)
  <2>1. \A k \in 0..0 : k = 0
    OBVIOUS
  <2>2. d[0] = 0
    <3>1. 0 \in 0..full /\ 0 * BatchMax = 0
      BY <1>3, ListAssumption
    <3> QED BY <1>5, <3>1
  <2> QED BY <1>1, <2>1, <2>2 DEF Same
<1>10. L!Ends(r, frames)
  BY <1>0 DEF frames, size
<1> QED BY <1>0, <1>1, <1>4, <1>5, <1>8, <1>9, <1>10, EndsStep DEF size

(* A batch of a session that streams.                                      *)
LEMMA SendsStep ==
    ASSUME ListInv, NEW r \in Requests, listing[r].at = "stream",
           NEW read \in Nat, NEW entries \in Nat,
           read + listing[r].pending = listing[r].read + entries,
           L!Sends(r, read, entries)
    PROVE  ListInv'
<1>1. ListsTyped /\ Streamed /\ Remembers
  BY DEF ListInv
<1>2. PICK c \in [Nat -> Nat], n \in Nat :
         Streams(r, c, n) /\ n = listing[r].seq /\ listing[r].read = c[n] + listing[r].pending
  BY Running
<1>t. listing[r] \in ListSessions
  BY Running
<1> DEFINE new == [listing[r] EXCEPT !.read = read, !.pending = 0, !.seq = @ + 1]
           f == L!Frame(n + 1, entries, "no")
<1>3. /\ listing' = [listing EXCEPT ![r] = new] /\ wire' = [wire EXCEPT ![r] = Append(@, f)]
      /\ UNCHANGED <<flagged, cancels, pane, held, memory>>
  BY <1>2 DEF L!Sends
<1>4. /\ new \in ListSessions /\ new.at = "stream" /\ new.size = listing[r].size
      /\ new.seq = n + 1 /\ new.read = read /\ new.pending = 0
  <2>1. new \in ListSessions
    BY <1>t, ListFields
  <2> QED BY <1>2, <1>t, <2>1 DEF ListSessions
<1> HIDE DEF new
<1>5. /\ f \in FrameStates
      /\ \E d \in [Nat -> Nat] : Same(c, d, n) /\ d[n + 1] = c[n] + entries
                                 /\ Chained(f, d, n + 1, listing[r].size)
  BY NextFrame
<1> HIDE DEF f
<1>6. PICK d \in [Nat -> Nat] : Same(c, d, n) /\ d[n + 1] = c[n] + entries
                                /\ Chained(f, d, n + 1, listing[r].size)
  BY <1>5
<1>7. <<f>> \in Seq(FrameStates) /\ Len(<<f>>) = 1 /\ <<f>>[1] = f
  BY <1>5
<1>8. Carries(<<f>>, listing[r].size, d, n)
  BY <1>6, <1>7 DEF Carries
<1>9. wire' = [wire EXCEPT ![r] = @ \o <<f>>]
  <2>1. wire[r] \in Seq(FrameStates)
    BY <1>1 DEF ListsTyped
  <2>2. Append(wire[r], f) = wire[r] \o <<f>>
    BY <1>5, <2>1, AppendIsConcat
  <2> QED BY <1>3, <2>2
<1>10. /\ listing' \in [Requests -> ListSessions] /\ listing'[r] = new
       /\ \A q \in Requests \ {r} : listing'[q] = listing[q]
  BY <1>1, <1>3, <1>4 DEF ListsTyped
<1>11. read = d[n + 1] + 0
  <2>1. c[n] \in Nat /\ listing[r].pending \in Nat
    BY <1>t, ListFields
  <2> QED BY <1>2, <1>6, <2>1
<1>12. Streamed'
  BY <1>1, <1>2, <1>3, <1>4, <1>6, <1>7, <1>8, <1>9, <1>10, <1>11, SendsStream
<1>13. ListsTyped'
  <2>1. Append(wire[r], f) \in Seq(FrameStates)
    BY <1>1, <1>5 DEF ListsTyped
  <2>2. wire' \in [Requests -> Seq(FrameStates)]
    BY <1>1, <1>3, <2>1 DEF ListsTyped
  <2>3. L!Registered \subseteq L!Registered'
    BY <1>4, <1>10 DEF L!Registered
  <2> QED BY <1>1, <1>3, <1>10, <2>2, <2>3 DEF ListsTyped
<1>14. Remembers'
  <2>1. \A q \in Requests : listing[q].at = "over" => listing'[q] = listing[q]
    BY <1>10
  <2> QED BY <1>1, <1>3, <2>1, MemoryRests, RemembersStep
<1> QED BY <1>12, <1>13, <1>14 DEF ListInv

LEMMA ReadsStep ==
    ASSUME ListInv, NEW r \in Requests, L!ReadsEntry(r) \/ L!Ticks(r)
    PROVE  ListInv'
<1>1. ListsTyped /\ Streamed /\ Remembers
  BY DEF ListInv
<1>2. listing[r].at = "stream"
  BY DEF L!ReadsEntry, L!Ticks, L!Listening, L!Is
<1>t. listing[r] \in ListSessions
  BY <1>2, Running
<1>3. listing[r].pending \in Nat /\ listing[r].read \in Nat
  BY <1>t, ListFields
<1>4. CASE L!Ticks(r)
  <2>1. L!Sends(r, listing[r].read, listing[r].pending)
    BY <1>4 DEF L!Ticks
  <2> QED BY <1>2, <1>3, <2>1, SendsStep
<1>5. CASE L!ReadsEntry(r) /\ listing[r].pending + 1 >= BatchMax
  <2>1. L!Sends(r, listing[r].read + 1, listing[r].pending + 1)
    BY <1>5 DEF L!ReadsEntry
  <2>2. listing[r].read + 1 + listing[r].pending = listing[r].read + (listing[r].pending + 1)
        /\ listing[r].read + 1 \in Nat /\ listing[r].pending + 1 \in Nat
    BY <1>3
  <2> QED BY <1>2, <2>1, <2>2, SendsStep
<1>6. CASE L!ReadsEntry(r) /\ ~(listing[r].pending + 1 >= BatchMax)
  <2> DEFINE new == [listing[r] EXCEPT !.read = @ + 1, !.pending = @ + 1]
  <2>1. listing' = [listing EXCEPT ![r] = new] /\ L!Here(r)
    <3>1. listing' = [listing EXCEPT ![r].read = @ + 1, ![r].pending = @ + 1]
      BY <1>6 DEF L!ReadsEntry
    <3> QED BY <1>1, <1>6, <1>t, <3>1 DEF L!ReadsEntry, ListsTyped, ListSessions
  <2>2. /\ new \in ListSessions /\ new.at = "stream" /\ new.size = listing[r].size
        /\ new.seq = listing[r].seq /\ new.read = listing[r].read + 1
        /\ new.pending = listing[r].pending + 1
    <3>1. listing[r].pending + 1 < BatchMax
      BY <1>3, <1>6, ListAssumption
    <3>2. new \in ListSessions
      BY <1>t, <3>1, ListFields
    <3> QED BY <1>2, <1>t, <3>2 DEF ListSessions
  <2> HIDE DEF new
  <2>3. /\ listing' \in [Requests -> ListSessions] /\ listing'[r] = new
        /\ \A q \in Requests \ {r} : listing'[q] = listing[q]
        /\ UNCHANGED <<flagged, cancels, wire, pane, held, memory>>
    BY <1>1, <2>1, <2>2 DEF ListsTyped, L!Here
  <2>4. PICK c \in [Nat -> Nat], n \in Nat :
           Streams(r, c, n) /\ n = listing[r].seq /\ listing[r].read = c[n] + listing[r].pending
    BY <1>2, Running
  <2>5. Streams(r, c, n)'
    <3>1. Sent(new, c, n)
      <4>1. listing[r].read + 1 = c[n] + (listing[r].pending + 1)
        BY <1>3, <2>4
      <4>2. Sent(listing[r], c, n)
        BY <2>4 DEF Streams, StreamOf
      <4> QED BY <1>2, <2>2, <2>4, <4>1, <4>2 DEF Sent
    <3>2. Fresh(new, pane[r], held[r])
      BY <1>2, <2>2, <2>4 DEF Streams, StreamOf, Fresh
    <3> QED BY <2>2, <2>3, <2>4, <3>1, <3>2 DEF Streams, StreamOf
  <2>6. Streamed'
    BY <1>1, <2>3, <2>5, OthersStream
  <2>7. ListsTyped'
    <3>1. L!Registered \subseteq L!Registered'
      BY <2>2, <2>3 DEF L!Registered
    <3> QED BY <1>1, <2>3, <3>1 DEF ListsTyped
  <2>8. Remembers'
    <3>1. \A q \in Requests : listing[q].at = "over" => listing'[q] = listing[q]
      BY <1>2, <2>3
    <3> QED BY <1>1, <2>3, <3>1, MemoryRests, RemembersStep
  <2> QED BY <2>6, <2>7, <2>8 DEF ListInv
<1> QED BY <1>4, <1>5, <1>6

(* Cancels, and a memory that forgets.                                     *)
LEMMA AsideStep ==
    ASSUME ListInv,
           \/ \E r \in Requests : L!CancelArrives(r)
           \/ L!KillsGroup \/ L!Expires
           \/ \E a \in Connections, p \in {<<>>} : L!Writes(a, p)
    PROVE  ListInv'
<1>1. ListsTyped /\ Streamed /\ Remembers
  BY DEF ListInv
<1>m. memory \in Seq(Counts) /\ Distinct(memory) /\ Len(memory) <= Capacity
  BY <1>1 DEF ListsTyped, Remembers
<1>2. /\ UNCHANGED <<listing, wire, pane, held>>
      /\ flagged' \subseteq flagged \cup L!Registered /\ cancels' \subseteq cancels
  BY DEF L!CancelArrives, L!KillsGroup, L!Expires, L!Writes, L!Flags
<1>3. Comes(memory, memory', {})
  <2>1. CASE UNCHANGED memory
    BY <1>1, <2>1, MemoryRests
  <2>2. CASE L!Expires
    BY <1>m, <2>2, MemoryKeeps DEF L!Expires
  <2>3. CASE \E a \in Connections, p \in {<<>>} : L!Writes(a, p)
    BY <1>m, <2>3, MemoryKeeps DEF L!Writes
  <2> QED BY <2>1, <2>2, <2>3 DEF L!CancelArrives, L!KillsGroup
<1>4. ListsTyped'
  <2>1. L!Registered' = L!Registered
    BY <1>2 DEF L!Registered
  <2> QED BY <1>1, <1>2, <1>3, <2>1 DEF ListsTyped, Comes
<1>5. Streamed'
  <2> SUFFICES ASSUME NEW q \in Requests PROVE \E c, n : Streams(q, c, n)'
    BY DEF Streamed
  <2>1. PICK c, n : Streams(q, c, n)
    BY <1>1 DEF Streamed
  <2> QED BY <1>2, <2>1, StreamStays
<1>6. Remembers'
  BY <1>1, <1>2, <1>3, RemembersStep
<1> QED BY <1>4, <1>5, <1>6 DEF ListInv

(* Steps of a pane.                                                        *)
LEMMA PaneStep ==
    ASSUME ListInv, NEW r \in Requests,
           UNCHANGED <<listing, flagged, memory>>, cancels' \subseteq Requests,
           NEW p \in PaneStates, NEW w \in Seq(FrameStates), NEW h \in Seq(FrameStates),
           Len(h) <= HoldCap, pane' = [pane EXCEPT ![r] = p],
           wire' = [wire EXCEPT ![r] = w], held' = [held EXCEPT ![r] = h],
           NEW c, NEW n, StreamOf(listing[r], p, w, h, c, n)
    PROVE  ListInv'
<1>1. ListsTyped /\ Streamed /\ Remembers
  BY DEF ListInv
<1>2. /\ pane'[r] = p /\ wire'[r] = w /\ held'[r] = h
      /\ pane' \in [Requests -> PaneStates] /\ wire' \in [Requests -> Seq(FrameStates)]
      /\ held' \in [Requests -> Seq(FrameStates)]
      /\ \A q \in Requests \ {r} : pane'[q] = pane[q] /\ wire'[q] = wire[q] /\ held'[q] = held[q]
  BY <1>1 DEF ListsTyped
<1>3. Streams(r, c, n)'
  BY <1>2 DEF Streams
<1>4. Streamed'
  BY <1>1, <1>2, <1>3, OthersStream
<1>5. ListsTyped'
  <2>1. L!Registered' = L!Registered
    BY DEF L!Registered
  <2>2. \A q \in Requests : Len(held'[q]) <= HoldCap
    BY <1>1, <1>2 DEF ListsTyped
  <2> QED BY <1>1, <1>2, <2>1, <2>2 DEF ListsTyped
<1>6. Remembers'
  BY <1>1, MemoryRests, RemembersStep
<1> QED BY <1>4, <1>5, <1>6 DEF ListInv

(* A pane that moves on.                                                   *)
LEMMA LeavesStep ==
    ASSUME ListInv, NEW r \in Requests, L!AcksLate(r) \/ L!Abandons(r)
    PROVE  ListInv'
<1>1. ListsTyped
  BY DEF ListInv
<1>2. PICK c, n : Streams(r, c, n)
  BY DEF ListInv, Streamed
<1>t. /\ pane[r] \in PaneStates /\ wire[r] \in Seq(FrameStates) /\ held[r] \in Seq(FrameStates)
      /\ Len(held[r]) <= HoldCap /\ Len(<<>>) <= HoldCap /\ <<>> \in Seq(FrameStates)
  BY <1>1, ListAssumption DEF ListsTyped
<1>3. PICK label \in {"left", "stale"}, h \in {<<>>, held[r]} :
         /\ pane[r].at \in {"asking", "reading", "left"}
         /\ pane' = [pane EXCEPT ![r].at = label] /\ held' = [held EXCEPT ![r] = h]
         /\ cancels' \subseteq cancels \cup {r}
         /\ UNCHANGED <<listing, flagged, wire, memory>>
  <2>1. held = [held EXCEPT ![r] = held[r]]
    BY <1>1 DEF ListsTyped
  <2>2. CASE L!AcksLate(r)
    BY <2>1, <2>2 DEF L!AcksLate
  <2>3. CASE L!Abandons(r)
    <3>1. PICK label : label = IF pane[r].at = "asking" THEN "left" ELSE "stale"
      OBVIOUS
    <3> QED BY <2>3, <3>1 DEF L!Abandons
  <2> QED BY <2>2, <2>3
<1> DEFINE p == [pane[r] EXCEPT !.at = label]
<1>4. p \in PaneStates /\ p.at = label
  BY SMTT(30), <1>t, PaneFields DEF PaneStates
<1>5. pane' = [pane EXCEPT ![r] = p] /\ wire' = [wire EXCEPT ![r] = wire[r]]
  BY <1>1, <1>3 DEF ListsTyped
<1> HIDE DEF p
<1>6. StreamOf(listing[r], p, wire[r], h, c, n)
  <2>1. Fresh(listing[r], p, h)
    <3>1. pane[r] # L!NoPane
      BY <1>3 DEF L!NoPane
    <3> QED BY <1>2, <1>4, <3>1 DEF Streams, StreamOf, Fresh
  <2>2. Taken(p, h, listing[r].size, c, n - Len(wire[r]))
    BY <1>4 DEF Taken
  <2> QED BY <1>2, <2>1, <2>2 DEF Streams, StreamOf
<1>7. cancels' \subseteq Requests
  BY <1>1, <1>3 DEF ListsTyped
<1> QED BY <1>3, <1>4, <1>5, <1>6, <1>7, <1>t, PaneStep

LEMMA AcksStep ==
    ASSUME ListInv, NEW r \in Requests, L!Acks(r)
    PROVE  ListInv'
<1>1. ListsTyped
  BY DEF ListInv
<1>2. PICK c, n : Streams(r, c, n)
  BY DEF ListInv, Streamed
<1>t. /\ pane[r] \in PaneStates /\ wire[r] \in Seq(FrameStates) /\ held[r] \in Seq(FrameStates)
      /\ 0 <= HoldCap /\ Len(<<>>) = 0 /\ <<>> \in Seq(FrameStates)
  BY <1>1, ListAssumption DEF ListsTyped
<1> DEFINE x == [pane[r] EXCEPT !.at = "reading"]
           p == L!Replayed(x, held[r])
           k == n - Len(wire[r])
           size == listing[r].size
<1>3. /\ pane[r].at = "asking" /\ listing[r].at # "none"
      /\ pane' = [pane EXCEPT ![r] = p] /\ held' = [held EXCEPT ![r] = <<>>]
      /\ UNCHANGED <<listing, flagged, cancels, wire, memory>>
  BY DEF L!Acks, L!Acknowledged
<1>4. /\ x \in PaneStates /\ x.at = "reading" /\ x.missed = pane[r].missed
      /\ x.last = pane[r].last /\ x.got = pane[r].got
  BY <1>t, PaneFields DEF PaneStates
<1> HIDE DEF x
<1>5. /\ p \in PaneStates /\ p.missed = pane[r].missed
      /\ p.at \in {"reading", "whole", "failed"}
  BY <1>4, <1>t, ReplayedType
<1>6. /\ Sent(listing[r], c, n) /\ Wired(wire[r], size, c, n)
      /\ Taken(pane[r], held[r], size, c, k)
  BY <1>2 DEF Streams, StreamOf
<1>7. Taken(p, <<>>, size, c, k)
  <2>1. CASE p.missed
    BY <1>5, <2>1 DEF Taken
  <2>2. CASE ~p.missed
    <3>1. x.last = 0 /\ x.got = 0 /\ Kept(held[r], size, c, k)
      BY <1>3, <1>4, <1>5, <1>6, <2>2 DEF Taken
    <3>2. c \in [Nat -> Nat] /\ c[0] = 0
      BY <1>6 DEF Sent
    <3>3. Reads(x, c, 0, size)
      BY <1>4, <1>5, <2>2, <3>1, <3>2 DEF Reads
    <3>4. Len(held[r]) = k /\ \A i \in 1..Len(held[r]) : Chained(held[r][i], c, i, size)
      BY <3>1 DEF Kept
    <3>5. Reads(p, c, Len(held[r]), size)
      BY <1>t, <3>2, <3>3, <3>4, ReplayedReads
    <3> HIDE DEF p, k
    <3> QED BY <1>5, <3>4, <3>5 DEF Taken, Reads
  <2> QED BY <2>1, <2>2
<1> HIDE DEF p
<1>8. Fresh(listing[r], p, <<>>)
  BY <1>3, <1>5 DEF Fresh
<1>9. StreamOf(listing[r], p, wire[r], <<>>, c, n)
  BY <1>6, <1>7, <1>8 DEF StreamOf
<1>10. wire' = [wire EXCEPT ![r] = wire[r]] /\ cancels' \subseteq Requests
  BY <1>1, <1>3 DEF ListsTyped
<1> QED BY <1>3, <1>5, <1>9, <1>10, <1>t, PaneStep

LEMMA ArrivesStep ==
    ASSUME ListInv, NEW r \in Requests, L!Arrives(r)
    PROVE  ListInv'
<1>1. ListsTyped
  BY DEF ListInv
<1>2. PICK c, n : Streams(r, c, n)
  BY DEF ListInv, Streamed
<1> DEFINE w == wire[r]
           h == held[r]
           f == Head(w)
           k == n - Len(w)
           rest == Tail(w)
           size == listing[r].size
<1>t. /\ pane[r] \in PaneStates /\ w \in Seq(FrameStates) /\ h \in Seq(FrameStates)
      /\ Len(h) <= HoldCap /\ HoldCap \in Nat
  BY <1>1, ListAssumption DEF ListsTyped
<1>3. /\ Sent(listing[r], c, n) /\ Wired(w, size, c, n)
      /\ Taken(pane[r], h, size, c, k) /\ Fresh(listing[r], pane[r], h)
  BY <1>2 DEF Streams, StreamOf
<1>4. /\ w # <<>> /\ wire' = [wire EXCEPT ![r] = rest]
      /\ UNCHANGED <<listing, flagged, cancels, memory>>
  BY DEF L!Arrives
<1>5. /\ rest \in Seq(FrameStates) /\ Len(rest) = Len(w) - 1 /\ f = w[1] /\ f \in FrameStates
      /\ \A i \in 1..Len(rest) : rest[i] = w[i + 1]
      /\ Len(w) \in Nat /\ Len(w) >= 1 /\ Len(h) \in Nat
  BY <1>4, <1>t
<1>s. /\ n \in Nat /\ c \in [Nat -> Nat] /\ Len(w) <= n
      /\ \A i \in 1..Len(w) : Chained(w[i], c, n - Len(w) + i, size)
  BY <1>3 DEF Sent, Wired
<1>h. k = n - Len(w)
  OBVIOUS
<1> DEFINE a == Len(w)
           b == Len(rest)
<1>k. n \in Nat /\ a \in Nat /\ a <= n /\ 1 <= a /\ b = a - 1
  BY <1>5, <1>s
<1> HIDE DEF a, b
<1>n. listing[r].at # "none" /\ pane[r].at # "off"
  <2>1. listing[r].at = "none" => n = 0
    BY <1>3 DEF Sent
  <2>2. listing[r].at # "none"
    BY <1>k, <2>1
  <2> QED BY <1>3, <2>2 DEF Fresh
<1> HIDE DEF rest, f, k, size
<1>6. k \in Nat /\ n - Len(rest) = k + 1
  BY <1>5, <1>s, <1>h
<1>7. Chained(f, c, k + 1, size)
  <2>1. 1 \in 1..Len(w) /\ n - Len(w) + 1 = k + 1
    BY <1>5, <1>h
  <2> QED BY <1>5, <1>s, <2>1
<1>8. Wired(rest, size, c, n)
  <2>1. ASSUME NEW i \in 1..Len(rest) PROVE Chained(rest[i], c, n - Len(rest) + i, size)
    <3>1. i + 1 \in 1..Len(w) /\ n - Len(w) + (i + 1) = n - Len(rest) + i
      <4>1. i \in 1..b
        BY DEF b
      <4>2. i + 1 \in 1..a /\ n - a + (i + 1) = n - b + i
        BY <1>k, <4>1
      <4> QED BY <4>2 DEF a, b
    <3> QED BY <1>5, <1>s, <3>1
  <2>2. Len(rest) <= n
    <3>1. b <= n
      BY <1>k
    <3> QED BY <3>1 DEF b
  <2> QED BY <2>1, <2>2 DEF Wired
<1>c. cancels' \subseteq Requests
  BY <1>1, <1>4 DEF ListsTyped
<1>9. CASE pane[r].at = "asking"
  <2> DEFINE p == [pane[r] EXCEPT !.missed = @ \/ Len(h) >= HoldCap]
             more == L!Holds(h, f)
  <2>1. pane' = [pane EXCEPT ![r] = p] /\ held' = [held EXCEPT ![r] = more]
    <3>1. /\ held' = [held EXCEPT ![r] = L!Holds(@, Head(wire[r]))]
          /\ pane' = [pane EXCEPT ![r].missed = @ \/ Len(held[r]) >= HoldCap]
      BY <1>9 DEF L!Arrives
    <3> QED BY <1>1, <3>1 DEF ListsTyped, f
  <2>2. /\ p \in PaneStates /\ p.at = "asking" /\ p.last = pane[r].last /\ p.got = pane[r].got
        /\ p.missed = (pane[r].missed \/ Len(h) >= HoldCap)
    <3>1. (pane[r].missed \/ Len(h) >= HoldCap) \in BOOLEAN
      OBVIOUS
    <3> QED BY <1>9, <1>t, <3>1, PaneFields DEF PaneStates
  <2>3. more \in Seq(FrameStates) /\ Len(more) <= HoldCap
    <3>1. CASE Len(h) < HoldCap
      <4>1. more = Append(h, f) /\ Append(h, f) \in Seq(FrameStates)
            /\ Len(Append(h, f)) = Len(h) + 1
        BY <1>5, <1>t, <3>1 DEF L!Holds
      <4> QED BY <1>5, <1>t, <3>1, <4>1
    <3>2. CASE ~(Len(h) < HoldCap)
      BY <1>t, <3>2 DEF L!Holds
    <3> QED BY <3>1, <3>2
  <2>4. ~p.missed => Kept(more, size, c, k + 1)
    <3> SUFFICES ASSUME ~p.missed PROVE Kept(more, size, c, k + 1)
      OBVIOUS
    <3>1. ~pane[r].missed /\ Len(h) < HoldCap
      <4>1. ~pane[r].missed /\ ~(Len(h) >= HoldCap)
        BY <2>2
      <4>2. Len(h) \in Nat /\ HoldCap \in Nat
        BY <1>5, <1>t
      <4> HIDE DEF h
      <4> QED BY <4>1, <4>2
    <3>2. Len(h) = k /\ \A i \in 1..Len(h) : Chained(h[i], c, i, size)
      BY <1>3, <1>9, <3>1 DEF Taken, Kept
    <3>3. more = Append(h, f)
      BY <3>1 DEF L!Holds
    <3>4. /\ Len(more) = k + 1 /\ more[k + 1] = f
          /\ \A i \in 1..k : more[i] = h[i]
      BY <1>5, <1>t, <3>2, <3>3
    <3> HIDE DEF more
    <3>5. \A i \in 1..Len(more) : i \in 1..k \/ i = k + 1
      BY <1>6, <3>4
    <3> QED BY <1>7, <3>2, <3>4, <3>5 DEF Kept
  <2> HIDE DEF p, more
  <2>5. Taken(p, more, size, c, k + 1)
    <3>1. p.last = 0 /\ p.got = 0
      BY <1>3, <1>9, <2>2 DEF Taken
    <3> QED BY <2>2, <2>4, <3>1 DEF Taken
  <2>6. Fresh(listing[r], p, more)
    BY <1>n, <2>2 DEF Fresh
  <2>7. StreamOf(listing[r], p, rest, more, c, n)
    BY <1>3, <1>6, <1>8, <2>5, <2>6 DEF StreamOf, size
  <2> QED BY <1>4, <1>5, <1>c, <2>1, <2>2, <2>3, <2>7, PaneStep
<1>10. CASE pane[r].at # "asking"
  <2> DEFINE p == L!Takes(pane[r], f)
  <2>1. pane' = [pane EXCEPT ![r] = p] /\ held' = [held EXCEPT ![r] = h]
    <3>1. pane' = [pane EXCEPT ![r] = L!Takes(@, Head(wire[r]))] /\ UNCHANGED held
      BY <1>10 DEF L!Arrives
    <3> QED BY <1>1, <3>1 DEF ListsTyped, f
  <2>2. /\ p \in PaneStates /\ p.missed = pane[r].missed
        /\ pane[r].at # "reading" => p = pane[r]
        /\ pane[r].at = "reading" => p.at \in {"reading", "whole", "failed"}
    BY <1>5, <1>t, TakesType
  <2>3. Taken(p, h, size, c, k + 1)
    <3>1. CASE pane[r].at # "reading"
      <4> HIDE DEF p
      <4> QED BY <1>3, <1>10, <2>2, <3>1 DEF Taken
    <3>2. CASE pane[r].at = "reading" /\ pane[r].missed
      <4> HIDE DEF p
      <4> QED BY <2>2, <3>2 DEF Taken
    <3>3. CASE pane[r].at = "reading" /\ ~pane[r].missed
      <4>1. Reads(pane[r], c, k, size)
        BY <1>3, <1>t, <3>3 DEF Taken, Reads
      <4>2. Reads(p, c, k + 1, size)
        BY <1>5, <1>6, <1>7, <1>s, <4>1, TakesReads
      <4> HIDE DEF p
      <4> QED BY <4>2 DEF Taken, Reads
    <3> QED BY <3>1, <3>2, <3>3
  <2> HIDE DEF p
  <2>4. Fresh(listing[r], p, h)
    BY <1>n, <2>2 DEF Fresh
  <2>5. StreamOf(listing[r], p, rest, h, c, n)
    BY <1>3, <1>6, <1>8, <2>3, <2>4 DEF StreamOf, size
  <2> QED BY <1>4, <1>5, <1>c, <1>t, <2>1, <2>2, <2>5, PaneStep
<1> QED BY <1>9, <1>10

------------------------------------------------------------------------------
LEMMA ListStep ==
    ASSUME ListInv, [L!ListNext]_(L!listVars)
    PROVE  ListInv'
<1>1. CASE UNCHANGED L!listVars
  BY <1>1 DEF L!listVars, ListInv, ListsTyped, L!Registered, Streamed, Streams, Remembers, Earned
<1>2. CASE \E r \in Requests : L!Asks(r) \/ L!Sidecar(r) \/ L!Workbench(r) \/ L!Abandons(r)
  <2>1. PICK r \in Requests : L!Asks(r) \/ L!Sidecar(r) \/ L!Workbench(r) \/ L!Abandons(r)
    BY <1>2
  <2>2. CASE L!Asks(r)
    BY <2>2, AsksStep
  <2>3. CASE L!Abandons(r)
    BY <2>3, LeavesStep
  <2>4. CASE L!Workbench(r)
    <3>1. CASE L!Arrives(r)
      BY <3>1, ArrivesStep
    <3>2. CASE L!Acks(r)
      BY <3>2, AcksStep
    <3>3. CASE L!AcksLate(r)
      BY <3>3, LeavesStep
    <3> QED BY <2>4, <3>1, <3>2, <3>3 DEF L!Workbench
  <2>5. CASE L!Sidecar(r)
    <3>1. CASE L!IsBusy(r) \/ L!FailsGate(r) \/ L!LacksGroup(r)
      BY <3>1, RefusedStep
    <3>2. CASE L!TakesSlot(r) \/ L!Registers(r) \/ L!Decides(r) \/ L!FastIsSlow(r) \/ L!Spawns(r)
      BY <3>2, QuietStep
    <3>3. CASE L!FastLists(r)
      BY <3>3, FastListsStep
    <3>4. CASE L!FastFails(r) \/ L!CancelsFast(r) \/ L!SpawnFails(r) \/ L!IsKilled(r) \/ L!TimesOut(r)
      <4>1. listing[r].at \in {"fast", "spawn", "stream"} /\ L!Fails(r) /\ UNCHANGED memory
        BY <3>4 DEF L!FastFails, L!CancelsFast, L!SpawnFails, L!IsKilled, L!TimesOut, L!Listening, L!Is
      <4> QED BY <4>1, FailsStep
    <3>5. CASE L!ReadsEntry(r) \/ L!Ticks(r)
      BY <3>5, ReadsStep
    <3>6. CASE L!Closes(r)
      BY <3>6, FlushedStep DEF L!Closes, L!Listening, L!Is
    <3>7. CASE L!BreaksOff(r)
      BY <3>7, FlushedStep DEF L!BreaksOff, L!Listening, L!Is
    <3>8. CASE L!CancelArrives(r)
      BY <3>8, AsideStep
    <3> QED BY <2>5, <3>1, <3>2, <3>3, <3>4, <3>5, <3>6, <3>7, <3>8 DEF L!Sidecar
  <2> QED BY <2>1, <2>2, <2>3, <2>4, <2>5
<1>3. CASE L!KillsGroup \/ L!Expires \/ \E c \in Connections, p \in {<<>>} : L!Writes(c, p)
  BY <1>3, AsideStep
<1> QED BY <1>1, <1>2, <1>3 DEF L!ListNext

LEMMA ListStart ==
    ASSUME L!ListInit
    PROVE  ListInv
<1>1. ListsTyped
  <2>1. L!NoSession \in ListSessions /\ L!NoPane \in PaneStates
    BY ListAssumption DEF L!NoSession, L!NoPane, ListSessions, PaneStates, ListStages
  <2>2. <<>> \in Seq(FrameStates) /\ Len(<<>>) = 0 /\ <<>> \in Seq(Counts) /\ 0 <= HoldCap
    BY ListAssumption
  <2> QED BY <2>1, <2>2 DEF L!ListInit, ListsTyped
<1>2. Streamed
  <2> SUFFICES ASSUME NEW r \in Requests PROVE \E c, n : Streams(r, c, n)
    BY DEF Streamed
  <2> DEFINE c == [k \in Nat |-> 0]
  <2>1. c \in [Nat -> Nat] /\ c[0] = 0
    OBVIOUS
  <2> HIDE DEF c
  <2>2. listing[r] = L!NoSession /\ pane[r] = L!NoPane /\ wire[r] = <<>> /\ held[r] = <<>>
    BY DEF L!ListInit
  <2>3. Sent(L!NoSession, c, 0)
    BY <2>1 DEF Sent, L!NoSession
  <2>4. Wired(<<>>, L!NoSession.size, c, 0) /\ Fresh(L!NoSession, L!NoPane, <<>>)
    BY DEF Wired, Fresh, L!NoSession
  <2>5. Taken(L!NoPane, <<>>, L!NoSession.size, c, 0 - Len(<<>>))
    BY DEF Taken, L!NoPane
  <2> QED BY <2>2, <2>3, <2>4, <2>5 DEF Streams, StreamOf
<1>3. Remembers
  BY ListAssumption DEF L!ListInit, Remembers, Distinct
<1> QED BY <1>1, <1>2, <1>3 DEF ListInv

LEMMA ListImplies ==
    ASSUME ListInv
    PROVE  L!ListTypeOK /\ L!DoneIsWhole /\ L!CountsAreEarned
<1>1. ListsTyped /\ Streamed /\ Remembers
  BY DEF ListInv
<1>2. L!ListTypeOK
  <2>1. memory \in Seq(Counts) /\ Distinct(memory) /\ Len(memory) <= Capacity
    BY <1>1 DEF ListsTyped, Remembers
  <2>2. Cardinality(L!Remembered(memory)) = Len(memory)
    BY <2>1, DistinctCount
  <2>3. \A S : L!Cardinality(S) = Cardinality(S)
    BY DEF L!Cardinality, Cardinality
  <2> QED BY <1>1, <2>1, <2>2, <2>3
          DEF L!ListTypeOK, L!Keys, ListsTyped, ListSessions, ListStages, PaneStates
<1>3. L!DoneIsWhole
  <2> SUFFICES ASSUME NEW r \in Requests, pane[r].at = "whole", ~pane[r].missed
               PROVE  pane[r].got = listing[r].size
    BY DEF L!DoneIsWhole
  <2>1. PICK c, n : Streams(r, c, n)
    BY <1>1 DEF Streamed
  <2> QED BY <2>1 DEF Streams, StreamOf, Taken
<1>4. L!CountsAreEarned
  <2> SUFFICES ASSUME NEW m \in L!ToSet(memory) PROVE Earned(m)
    BY DEF L!CountsAreEarned, Earned
  <2>1. PICK i \in 1..Len(memory) : m = memory[i]
    BY <1>1 DEF L!ToSet, ListsTyped
  <2> QED BY <1>1, <2>1 DEF Remembers
<1> QED BY <1>2, <1>3, <1>4

(* Every reachable state of the listings is well typed; a pane that takes  *)
(* a listing for whole has every entry of it, on either path, in whatever  *)
(* frames and however late the acknowledgement (list_stream.rs,            *)
(* listStream.ts), unless it missed frames; and the decision cache         *)
(* (list_decision.rs) counts what a listing delivered.                     *)
THEOREM ListingsTrue == L!ListSpec => [](L!ListTypeOK /\ ListingsAreTrue)
<1>1. L!ListInit => ListInv
  BY ListStart
<1>2. ListInv /\ [L!ListNext]_(L!listVars) => ListInv'
  BY ListStep
<1>3. ListInv => L!ListTypeOK /\ ListingsAreTrue
  BY ListImplies DEF ListingsAreTrue
<1> QED BY <1>1, <1>2, <1>3, PTL DEF L!ListSpec

------------------------------------------------------------------------------
(* The three beside each other.                                            *)
WorkInv == Inv /\ ListInv /\ EditInv

LEMMA WorkStep == WorkInv /\ [WorkbenchNext]_allVars => WorkInv'
<1> SUFFICES ASSUME WorkInv, [WorkbenchNext]_allVars PROVE WorkInv'
  OBVIOUS
<1>1. Inv /\ ListInv /\ EditInv
  BY DEF WorkInv
<1>2. [Next]_vars /\ [L!ListNext]_(L!listVars) /\ [E!EditNext]_(E!editVars)
  BY DEF WorkbenchNext, allVars, listings, edits, L!listVars, E!editVars
<1>3. Inv'
  BY <1>1, <1>2, InvStep
<1>4. ListInv'
  BY <1>1, <1>2, ListStep
<1>5. EditInv'
  BY <1>1, <1>2, EditStep
<1> QED BY <1>3, <1>4, <1>5 DEF WorkInv

LEMMA SpecWorkInv == WorkbenchSpec => []WorkInv
<1>1. WorkbenchInit => WorkInv
  BY InitInv, ListStart, EditStart DEF WorkbenchInit, WorkInv
<1> QED BY <1>1, WorkStep, PTL DEF WorkbenchSpec

LEMMA WorkTypes == WorkInv => WorkbenchTypeOK
<1> SUFFICES ASSUME WorkInv PROVE WorkbenchTypeOK
  OBVIOUS
<1>1. TypeOK
  BY DEF WorkInv, Inv
<1>2. L!ListTypeOK
  BY ListImplies DEF WorkInv
<1>3. E!EditTypeOK
  BY EditImplies DEF WorkInv
<1> QED BY <1>1, <1>2, <1>3 DEF WorkbenchTypeOK

(* All that the run "upload" checks of the states of the uploads, of the   *)
(* listings and of the remote edits, for any tasks, directories, frames,   *)
(* caches, sessions and failures.                                          *)
THEOREM WorkbenchIsSafe ==
    WorkbenchSpec => [](/\ WorkbenchTypeOK
                        /\ OneOwner /\ OneRow /\ OutcomeIsTrue
                        /\ ListingsAreTrue /\ SyncedIsTrue)
<1>1. WorkInv => OneOwner /\ OneRow /\ OutcomeIsTrue
  BY RowsMean, OutcomesMean DEF WorkInv, Inv
<1>2. WorkInv => ListingsAreTrue
  BY ListImplies DEF WorkInv, ListingsAreTrue
<1>3. WorkInv => SyncedIsTrue
  BY EditImplies DEF WorkInv
<1> QED BY <1>1, <1>2, <1>3, WorkTypes, SpecWorkInv, PTL
==============================================================================
