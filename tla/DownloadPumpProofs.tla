------------------------- MODULE DownloadPumpProofs -------------------------
(***************************************************************************)
(* Proofs about DownloadPump for any set of tasks, of workers and of sizes.*)
(***************************************************************************)
EXTENDS DownloadPump, TLAPS

(* Recording a row keeps the history well typed.                           *)
LEMMA RecordRowType ==
    ASSUME history \in [Tasks -> Seq(Terminal)],
           NEW t \in Tasks, NEW o \in Terminal, RecordRow(t, o)
    PROVE  history' \in [Tasks -> Seq(Terminal)]
<1>1. history[t] \in Seq(Terminal)
  OBVIOUS
<1>2. Append(history[t], o) \in Seq(Terminal)
  BY <1>1
<1> QED BY <1>2 DEF RecordRow

(* The row of a task that has none becomes its only one.                   *)
LEMMA FirstRow ==
    ASSUME history \in [Tasks -> Seq(Terminal)],
           NEW t \in Tasks, NEW o \in Terminal, RecordRow(t, o), history[t] = <<>>
    PROVE  /\ history'[t] = <<o>>
           /\ \A u \in Tasks : u # t => history'[u] = history[u]
           /\ \A p \in Terminal : history'[t] = <<p>> => p = o
<1>1. Append(history[t], o) = <<o>>
  OBVIOUS
<1>2. history' = [history EXCEPT ![t] = <<o>>]
  BY <1>1 DEF RecordRow
<1>3. \A p \in Terminal : <<p>> = <<o>> => p = o
  OBVIOUS
<1> QED BY <1>2, <1>3

(* Settling a job sets the verdict if the job is live, and nothing else.   *)
LEMMA CompleteEffect ==
    ASSUME status \in [Tasks -> Statuses],
           NEW t \in Tasks, NEW o \in Terminal, Complete(t, o)
    PROVE  /\ status' \in [Tasks -> Statuses]
           /\ \A u \in Tasks : u # t => status'[u] = status[u]
           /\ Accepts(t) => status[t] \in Live /\ status'[t] = o
           /\ ~Accepts(t) => status[t] \notin Live /\ status'[t] = status[t]
BY DEF Complete, Accepts, Statuses

(* A task with at most one row shows an outcome only as the state of its   *)
(* job or as that row.                                                     *)
LEMMA OutcomeIsWritten ==
    ASSUME NEW t \in Tasks, NEW o \in Outcomes(t),
           history[t] = <<>> \/ \E p \in Terminal : history[t] = <<p>>
    PROVE  status[t] = o \/ history[t] = <<o>>
<1>1. CASE o = status[t]
  BY <1>1
<1>2. CASE \E i \in 1..Len(history[t]) : o = history[t][i]
  <2>1. CASE history[t] = <<>>
    BY <1>2, <2>1
  <2>2. CASE \E p \in Terminal : history[t] = <<p>>
    <3>1. PICK p \in Terminal : history[t] = <<p>>
      BY <2>2
    <3>2. Len(history[t]) = 1 /\ history[t][1] = p
      BY <3>1
    <3>3. o = p
      BY <1>2, <3>2
    <3> QED BY <3>1, <3>3
  <2> QED BY <2>1, <2>2
<1> QED BY <1>1, <1>2 DEF Outcomes

------------------------------------------------------------------------------

(* A worker about to write the row of t, and one about to remove t.        *)
Records(w, t) == Task(w) = t /\ At(w, "record")
Drops(w, t) == At(w, "drop") /\ t \in call[w].ids

(* A task that has not started is nobody's, and no row is or is about to   *)
(* be written of a job that is not settled.                                *)
Unsettled ==
    \A t \in Tasks :
        /\ status[t] = "new" =>
              ~slot[t] /\ got[t] = 0 /\ PumpAt(t, "none") /\ \A w \in Workers : Task(w) # t
        /\ status[t] \in {"new"} \cup Live =>
              /\ history[t] = <<>>
              /\ ~PumpAt(t, "record")
              /\ \A w \in Workers : ~Records(w, t) /\ ~Drops(w, t)

(* There is one writer of the row of t, it has the outcome of the job, and *)
(* before it there is no row.                                              *)
OneWriter ==
    \A t \in Tasks :
        /\ \A v, w \in Workers : Records(v, t) /\ Records(w, t) => v = w
        /\ \A w \in Workers : Records(w, t) =>
              ~PumpAt(t, "record") /\ history[t] = <<>> /\ status[t] \in {call[w].as, "gone"}
        /\ PumpAt(t, "record") => history[t] = <<>> /\ status[t] \in {pump[t].as, "gone"}

(* The rows of a task: none, or one.                                       *)
Rows ==
    \A t \in Tasks : history[t] = <<>> \/ \E o \in Terminal : history[t] = <<o>>

(* A completed outcome of a local download that is on its way or written   *)
(* down comes from a promoted file.                                        *)
CompletedRow == <<"completed">>
OnDisk(t) == final[t] # <<>>
PromotedOf(t) ==
    kind[t] = "local" /\ status[t] # "new" =>
        /\ pump[t].at \in {"sweep", "settle", "record"} => pump[t].as # "completed"
        /\ \A w \in Workers :
              Task(w) = t /\ call[w].at \in {"settle", "record"} /\ call[w].as = "completed"
                 => OnDisk(t)
        /\ status[t] = "completed" => OnDisk(t)
        /\ history[t] = CompletedRow => OnDisk(t)
Promoted == \A t \in Tasks : PromotedOf(t)

(* A .part file holds what the pump has pulled, and so does the file it is *)
(* renamed to, of which there is then only one.  That is of the announced  *)
(* size unless its pump was still at it.                                   *)
Exact(t) ==
    /\ got[t] = size[t] \/ (held[t] /\ got[t] > size[t])
    /\ PumpAt(t, "stream") => held[t]
FiledOf(t) ==
    /\ status[t] = "new" => final[t] = <<>>
    /\ kind[t] = "local" /\ part[t] # <<>> => part[t] = <<got[t]>> /\ final[t] = <<>>
    /\ final[t] # <<>> => kind[t] = "local" /\ final[t] = <<got[t]>> /\ Exact(t)
    /\ \A w \in Workers : Task(w) = t /\ At(w, "promote") => kind[t] = "local"
Filed == \A t \in Tasks : FiledOf(t)

Inv == TypeOK /\ Unsettled /\ OneWriter /\ Rows /\ Promoted /\ Filed

LEMMA InitInv == Init => Inv
<1> SUFFICES ASSUME Init PROVE Inv
    OBVIOUS
<1> USE NoTaskAssumption DEF Init, JobsInit, Idle, Call, At, Task, PumpAt, Pump
<1>1. TypeOK
  BY DEF TypeOK, JobsTypeOK, DownloadPhases, PumpPhases, Kinds, Statuses, Live, Terminal
<1>2. Unsettled
  BY DEF Unsettled, Records, Drops, Live
<1>3. OneWriter /\ Rows
  BY DEF OneWriter, Rows, Records
<1>4. Promoted
  BY DEF Promoted, PromotedOf, CompletedRow, OnDisk
<1>5. Filed
  BY DEF Filed, FiledOf
<1> QED BY <1>1, <1>2, <1>3, <1>4, <1>5 DEF Inv

(* Sweeping a .part file keeps the files well typed.                       *)
LEMMA SweepType ==
    ASSUME TypeOK, NEW t \in Tasks, SweepPart(t)
    PROVE  part' \in [Tasks -> Seq(Nat)]
<1>1. <<>> \in Seq(Nat)
  OBVIOUS
<1> QED BY <1>1 DEF SweepPart, TypeOK

(* Every action keeps the types.                                           *)
LEMMA TypeStep ==
    TypeOK /\ Unsettled /\ [Next]_vars => TypeOK'
<1> SUFFICES ASSUME TypeOK, Unsettled, [Next]_vars PROVE TypeOK'
    OBVIOUS
<1> USE NoTaskAssumption, SizesAssumption
    DEF TypeOK, JobsTypeOK, DownloadPhases, PumpPhases, Kinds, Statuses, Live, Terminal,
        At, Task, Go, Call, Idle, Settling, Recording, PumpAt, PumpGo, Pump, Onward, Cleanup,
        DropSlot, jobVars, downloadVars, fixed, saved
<1>1. ASSUME NEW w \in Workers, NEW t \in Tasks, NEW k \in Kinds, NEW n \in Sizes,
             StartDownload(w, t, k, n)
      PROVE  TypeOK'
  <2>1. n \in Nat /\ got[t] \in Nat
    OBVIOUS
  <2>2. <<>> \in Seq(Nat) /\ <<0>> \in Seq(Nat) /\ <<n>> \in Seq(Nat)
    BY <2>1
  <2>3. part' \in [Tasks -> Seq(Nat)]
    BY <1>1, <2>2 DEF StartDownload
  <2> QED BY <1>1, <2>1, <2>3 DEF StartDownload
<1>2. ASSUME NEW w \in Workers, NEW t \in Tasks, FinishCall(w, t) PROVE TypeOK'
  BY <1>2 DEF FinishCall
<1>3. ASSUME NEW w \in Workers, NEW t \in Tasks, CancelDownload(w, t) PROVE TypeOK'
  BY <1>3 DEF CancelDownload
<1>4. ASSUME NEW t \in Tasks, PumpStarts(t) PROVE TypeOK'
  BY <1>4 DEF PumpStarts, MarkRunning
<1>5. ASSUME NEW t \in Tasks, PumpChecks(t) PROVE TypeOK'
  BY <1>5 DEF PumpChecks
<1>6. ASSUME NEW t \in Tasks, PumpOpens(t) PROVE TypeOK'
  BY <1>6 DEF PumpOpens
<1>7. ASSUME NEW t \in Tasks, PumpCannotOpen(t) PROVE TypeOK'
  BY <1>7 DEF PumpCannotOpen
<1>8. ASSUME NEW t \in Tasks, PumpChunk(t) PROVE TypeOK'
  BY <1>8 DEF PumpChunk
<1>9. ASSUME NEW t \in Tasks, PumpStreamFails(t) PROVE TypeOK'
  <2>1. PICK v \in {"failed", "canceled"} : PumpGo(t, Cleanup(v, FALSE))
    BY <1>9 DEF PumpStreamFails
  <2> QED BY <1>9, <2>1 DEF PumpStreamFails
<1>10. ASSUME NEW t \in Tasks, PumpStreamEnds(t) PROVE TypeOK'
  BY <1>10 DEF PumpStreamEnds
<1>11. ASSUME NEW t \in Tasks, PumpHandsOver(t) PROVE TypeOK'
  BY <1>11 DEF PumpHandsOver
<1>12. ASSUME NEW t \in Tasks, PumpIsOver(t) PROVE TypeOK'
  BY <1>12 DEF PumpIsOver
<1>13. ASSUME NEW t \in Tasks, PumpSweeps(t) PROVE TypeOK'
  <2>1. part' \in [Tasks -> Seq(Nat)]
    BY <1>13, SweepType DEF PumpSweeps
  <2> QED BY <1>13, <2>1 DEF PumpSweeps
<1>14. ASSUME NEW t \in Tasks, PumpSettles(t) PROVE TypeOK'
  <2>1. pump[t].as \in Terminal
    OBVIOUS
  <2>2. status' \in [Tasks -> Statuses]
    BY <1>14, <2>1, CompleteEffect DEF PumpSettles
  <2> QED BY <1>14, <2>1, <2>2 DEF PumpSettles
<1>15. ASSUME NEW t \in Tasks, PumpRecords(t) PROVE TypeOK'
  <2>1. history' \in [Tasks -> Seq(Terminal)]
    <3>1. RecordRow(t, pump[t].as) /\ history \in [Tasks -> Seq(Terminal)]
      BY <1>15 DEF PumpRecords
    <3>2. pump[t].as \in Terminal
      OBVIOUS
    <3> QED BY <3>1, <3>2, RecordRowType
  <2> QED BY <1>15, <2>1 DEF PumpRecords
<1>16. ASSUME NEW t \in Tasks, PumpRecordFails(t) PROVE TypeOK'
  BY <1>16 DEF PumpRecordFails
<1>17. ASSUME NEW t \in Tasks, PumpExits(t) PROVE TypeOK'
  <2>1. part' \in [Tasks -> Seq(Nat)]
    <3>1. <<>> \in Seq(Nat)
      OBVIOUS
    <3> QED BY <1>17, <3>1 DEF PumpExits
  <2>2. slot' \in [Tasks -> BOOLEAN]
    BY <1>17 DEF PumpExits
  <2>3. pump' \in [Tasks -> [at : PumpPhases, as : Terminal, clear : BOOLEAN]]
    BY <1>17 DEF PumpExits
  <2> QED BY <1>17, <2>1, <2>2, <2>3 DEF PumpExits
<1>18. ASSUME NEW w \in Workers, FinishCanceled(w) PROVE TypeOK'
  <2>1. Task(w) \in Tasks
    BY <1>18 DEF FinishCanceled
  <2>2. part' \in [Tasks -> Seq(Nat)]
    BY <1>18, <2>1, SweepType DEF FinishCanceled
  <2> QED BY <1>18, <2>1, <2>2 DEF FinishCanceled
<1>19. ASSUME NEW w \in Workers, FinishGrace(w) PROVE TypeOK'
  BY <1>19 DEF FinishGrace
<1>20. ASSUME NEW w \in Workers, FinishTakes(w) PROVE TypeOK'
  BY <1>20 DEF FinishTakes
<1>21. ASSUME NEW w \in Workers, FinishNotFound(w) PROVE TypeOK'
  BY <1>21 DEF FinishNotFound
<1>22. ASSUME NEW w \in Workers, FinishReplays(w) PROVE TypeOK'
  <2>1. Task(w) \in Tasks
    BY <1>22 DEF FinishReplays
  <2>2. part' \in [Tasks -> Seq(Nat)]
    BY <1>22, <2>1, SweepType DEF FinishReplays
  <2> QED BY <1>22, <2>1, <2>2 DEF FinishReplays
<1>23. ASSUME NEW w \in Workers, FinishProceeds(w) PROVE TypeOK'
  BY <1>23 DEF FinishProceeds
<1>24. ASSUME NEW w \in Workers, Promote(w) PROVE TypeOK'
  <2>1. Task(w) \in Tasks /\ part[Task(w)] \in Seq(Nat)
    BY <1>24 DEF Promote
  <2>2. part' \in [Tasks -> Seq(Nat)]
    BY <1>24, <2>1, SweepType DEF Promote
  <2>3. final' \in [Tasks -> Seq(Nat)] /\ held' \in [Tasks -> BOOLEAN]
    BY <1>24, <2>1 DEF Promote
  <2> QED BY <1>24, <2>1, <2>2, <2>3 DEF Promote
<1>25. ASSUME NEW w \in Workers, PromoteFails(w) PROVE TypeOK'
  <2>1. Task(w) \in Tasks
    BY <1>25 DEF PromoteFails
  <2>2. part' \in [Tasks -> Seq(Nat)]
    BY <1>25, <2>1, SweepType DEF PromoteFails
  <2> QED BY <1>25, <2>1, <2>2 DEF PromoteFails
<1>26. ASSUME NEW w \in Workers, CancelRaises(w) PROVE TypeOK'
  BY <1>26 DEF CancelRaises
<1>27. ASSUME NEW w \in Workers, CancelSweeps(w) PROVE TypeOK'
  <2>1. Task(w) \in Tasks
    BY <1>27 DEF CancelSweeps
  <2>2. part' \in [Tasks -> Seq(Nat)]
    BY <1>27, <2>1, SweepType DEF CancelSweeps
  <2> QED BY <1>27, <2>1, <2>2 DEF CancelSweeps, PumpDone
<1>28. ASSUME NEW w \in Workers, CancelLeaves(w) PROVE TypeOK'
  BY <1>28 DEF CancelLeaves, PumpDone
<1>29. ASSUME NEW w \in Workers, ClearCollect(w), UNCHANGED downloadVars PROVE TypeOK'
  BY <1>29 DEF ClearCollect
<1>30. ASSUME NEW w \in Workers, Settle(w), UNCHANGED downloadVars PROVE TypeOK'
  BY <1>30 DEF Settle, Complete, Accepts
<1>31. ASSUME NEW w \in Workers, Record(w), UNCHANGED downloadVars PROVE TypeOK'
  <2>1. Task(w) \in Tasks /\ call[w].as \in Terminal
    BY <1>31 DEF Record
  <2>2. history' \in [Tasks -> Seq(Terminal)]
    BY <1>31, <2>1, RecordRowType DEF Record
  <2> QED BY <1>31, <2>1, <2>2 DEF Record
<1>32. ASSUME NEW w \in Workers, RecordFails(w), UNCHANGED downloadVars PROVE TypeOK'
  BY <1>32 DEF RecordFails
<1>33. ASSUME NEW w \in Workers, ClearDrop(w), UNCHANGED downloadVars PROVE TypeOK'
  BY <1>33 DEF ClearDrop, Remove
<1>34. ASSUME NEW w \in Workers, NEW t \in Tasks, Delete(w, t), UNCHANGED downloadVars
      PROVE  TypeOK'
  BY <1>34 DEF Delete, Remove
<1>35. CASE UNCHANGED vars
  BY <1>35 DEF vars
<1>36. CASE \E t \in Tasks : PumpStep(t)
  BY <1>36, <1>4, <1>5, <1>6, <1>7, <1>8, <1>9, <1>10, <1>11, <1>12, <1>13, <1>14, <1>15,
     <1>16, <1>17 DEF PumpStep
<1>37. CASE \E w \in Workers : Work(w)
  BY <1>37, <1>18, <1>19, <1>20, <1>21, <1>22, <1>23, <1>24, <1>25, <1>26, <1>27, <1>28,
     <1>30, <1>31, <1>32, <1>33 DEF Work, Jobs
<1>38. CASE \E w \in Workers : Arrive(w)
  <2> HIDE DEF TypeOK
  <2>1. PICK w \in Workers : Arrive(w)
    BY <1>38
  <2>2. CASE \E t \in Tasks, k \in Kinds, n \in Sizes : StartDownload(w, t, k, n)
    BY <1>1, <2>2
  <2>3. CASE \E t \in Tasks : FinishCall(w, t) \/ CancelDownload(w, t)
    BY <1>2, <1>3, <2>3
  <2>4. CASE (\E t \in Tasks : Delete(w, t)) /\ UNCHANGED downloadVars
    BY <1>34, <2>4
  <2>5. CASE ClearCollect(w) /\ UNCHANGED downloadVars
    BY <1>29, <2>5
  <2> HIDE DEF downloadVars
  <2> QED BY <2>1, <2>2, <2>3, <2>4, <2>5 DEF Arrive
<1> QED BY <1>35, <1>36, <1>37, <1>38 DEF Next

(* Every action keeps Unsettled.                                           *)
LEMMA UnsettledStep ==
    TypeOK /\ Unsettled /\ [Next]_vars => Unsettled'
<1> SUFFICES ASSUME TypeOK, Unsettled, [Next]_vars PROVE Unsettled'
    OBVIOUS
<1>types. /\ status \in [Tasks -> Statuses]
          /\ history \in [Tasks -> Seq(Terminal)]
          /\ call \in [Workers -> [at : DownloadPhases, task : Tasks \cup {NoTask},
                                  as : Terminal, offset : Nat, ids : SUBSET Tasks]]
          /\ \A w \in Workers : Task(w) = NoTask => call[w].at \in {"idle", "drop"}
          /\ pump \in [Tasks -> [at : PumpPhases, as : Terminal, clear : BOOLEAN]]
          /\ slot \in [Tasks -> BOOLEAN] /\ got \in [Tasks -> Nat]
          /\ kind \in [Tasks -> Kinds] /\ size \in [Tasks -> Nat] /\ final \in [Tasks -> Seq(Nat)]
          /\ held \in [Tasks -> BOOLEAN]
  BY DEF TypeOK, JobsTypeOK
<1> USE <1>types
<1> USE NoTaskAssumption, SizesAssumption
    DEF DownloadPhases, PumpPhases, Kinds, Statuses, Live, Terminal,
        At, Task, Go, Call, Idle, Settling, Recording, PumpAt, PumpGo, Pump, Onward, Cleanup,
        DropSlot, jobVars, downloadVars, fixed, saved,
        Unsettled, Records, Drops
<1>1. ASSUME NEW w \in Workers, NEW t \in Tasks, NEW k \in Kinds, NEW n \in Sizes,
             StartDownload(w, t, k, n)
      PROVE  Unsettled'
  BY <1>1 DEF StartDownload
<1>2. ASSUME NEW w \in Workers, NEW t \in Tasks, FinishCall(w, t) PROVE Unsettled'
  BY <1>2 DEF FinishCall
<1>3. ASSUME NEW w \in Workers, NEW t \in Tasks, CancelDownload(w, t) PROVE Unsettled'
  BY <1>3 DEF CancelDownload
<1>4. ASSUME NEW t \in Tasks, PumpStarts(t) PROVE Unsettled'
  BY <1>4 DEF PumpStarts, MarkRunning
<1>5. ASSUME NEW t \in Tasks, PumpChecks(t) PROVE Unsettled'
  BY <1>5 DEF PumpChecks
<1>6. ASSUME NEW t \in Tasks, PumpOpens(t) PROVE Unsettled'
  BY <1>6 DEF PumpOpens
<1>7. ASSUME NEW t \in Tasks, PumpCannotOpen(t) PROVE Unsettled'
  BY <1>7 DEF PumpCannotOpen
<1>8. ASSUME NEW t \in Tasks, PumpChunk(t) PROVE Unsettled'
  BY <1>8 DEF PumpChunk
<1>9. ASSUME NEW t \in Tasks, PumpStreamFails(t) PROVE Unsettled'
  <2>1. PICK v \in {"failed", "canceled"} : PumpGo(t, Cleanup(v, FALSE))
    BY <1>9 DEF PumpStreamFails
  <2> QED BY <1>9, <2>1 DEF PumpStreamFails
<1>10. ASSUME NEW t \in Tasks, PumpStreamEnds(t) PROVE Unsettled'
  BY <1>10 DEF PumpStreamEnds
<1>11. ASSUME NEW t \in Tasks, PumpHandsOver(t) PROVE Unsettled'
  BY <1>11 DEF PumpHandsOver
<1>12. ASSUME NEW t \in Tasks, PumpIsOver(t) PROVE Unsettled'
  BY <1>12 DEF PumpIsOver
<1>13. ASSUME NEW t \in Tasks, PumpSweeps(t) PROVE Unsettled'
  BY <1>13 DEF PumpSweeps, SweepPart
<1>14. ASSUME NEW t \in Tasks, PumpSettles(t) PROVE Unsettled'
  <2>1. pump[t].as \in Terminal
    OBVIOUS
  <2>2. /\ \A u \in Tasks : u # t => status'[u] = status[u]
        /\ Accepts(t) => status'[t] = pump[t].as
        /\ ~Accepts(t) => status'[t] = status[t]
    BY <1>14, <2>1, CompleteEffect DEF PumpSettles
  <2>3. \A u \in Tasks : u # t => pump'[u] = pump[u]
    BY <1>14 DEF PumpSettles
  <2>4. status[t] # "new" /\ UNCHANGED <<history, call, slot, got>>
    BY <1>14 DEF PumpSettles
  <2>5. (~Accepts(t) => pump'[t].at = "exit") /\ pump'[t].at # "none"
    BY <1>14 DEF PumpSettles
  <2> QED BY <2>1, <2>2, <2>3, <2>4, <2>5
<1>15. ASSUME NEW t \in Tasks, PumpRecords(t) PROVE Unsettled'
  BY <1>15 DEF PumpRecords, RecordRow
<1>16. ASSUME NEW t \in Tasks, PumpRecordFails(t) PROVE Unsettled'
  BY <1>16 DEF PumpRecordFails
<1>17. ASSUME NEW t \in Tasks, PumpExits(t) PROVE Unsettled'
  BY <1>17 DEF PumpExits
<1>18. ASSUME NEW w \in Workers, FinishCanceled(w) PROVE Unsettled'
  BY <1>18 DEF FinishCanceled, SweepPart
<1>19. ASSUME NEW w \in Workers, FinishGrace(w) PROVE Unsettled'
  BY <1>19 DEF FinishGrace
<1>20. ASSUME NEW w \in Workers, FinishTakes(w) PROVE Unsettled'
  BY <1>20 DEF FinishTakes
<1>21. ASSUME NEW w \in Workers, FinishNotFound(w) PROVE Unsettled'
  BY <1>21 DEF FinishNotFound
<1>22. ASSUME NEW w \in Workers, FinishReplays(w) PROVE Unsettled'
  BY <1>22 DEF FinishReplays, SweepPart
<1>23. ASSUME NEW w \in Workers, FinishProceeds(w) PROVE Unsettled'
  BY <1>23 DEF FinishProceeds
<1>24. ASSUME NEW w \in Workers, Promote(w) PROVE Unsettled'
  BY <1>24 DEF Promote, SweepPart, IsWhole
<1>25. ASSUME NEW w \in Workers, PromoteFails(w) PROVE Unsettled'
  BY <1>25 DEF PromoteFails, SweepPart
<1>26. ASSUME NEW w \in Workers, CancelRaises(w) PROVE Unsettled'
  BY <1>26 DEF CancelRaises
<1>27. ASSUME NEW w \in Workers, CancelSweeps(w) PROVE Unsettled'
  BY <1>27 DEF CancelSweeps, SweepPart, PumpDone
<1>28. ASSUME NEW w \in Workers, CancelLeaves(w) PROVE Unsettled'
  BY <1>28 DEF CancelLeaves, PumpDone
<1>29. ASSUME NEW w \in Workers, ClearCollect(w), UNCHANGED downloadVars PROVE Unsettled'
  BY <1>29 DEF ClearCollect
<1>30. ASSUME NEW w \in Workers, Settle(w), UNCHANGED downloadVars PROVE Unsettled'
  <2>1. PICK t \in Tasks : t = Task(w) /\ call[w].as \in Terminal
    BY <1>30 DEF Settle
  <2>2. /\ \A u \in Tasks : u # t => status'[u] = status[u]
        /\ Accepts(t) => status'[t] = call[w].as
        /\ ~Accepts(t) => status'[t] = status[t]
    BY <1>30, <2>1, CompleteEffect DEF Settle
  <2>3. status[t] # "new" /\ UNCHANGED <<history, slot, pump, got>>
    BY <1>30, <2>1 DEF Settle
  <2>4. /\ \A v \in Workers : v # w => call'[v] = call[v]
        /\ call'[w].at \in {"record", "idle"} /\ call'[w].task \in {t, NoTask}
    BY <1>30, <2>1 DEF Settle
  <2>6. Accepts(t) \/ status[t] \notin Live
    BY DEF Accepts
  <2>7. status'[t] \notin {"new"} \cup Live
    BY <2>1, <2>2, <2>3, <2>6
  <2>8. ASSUME NEW u \in Tasks, u # t
        PROVE  \A v \in Workers : /\ Task(v)' = u => Task(v) = u
                                  /\ Records(v, u)' => Records(v, u)
                                  /\ Drops(v, u)' => Drops(v, u)
    <3>1. TAKE v \in Workers
    <3>2. CASE v = w
      BY <2>1, <2>4, <2>8, <3>2
    <3>3. CASE v # w
      BY <2>4, <3>3
    <3> QED BY <3>2, <3>3
  <2> QED BY <2>2, <2>3, <2>7, <2>8
<1>31. ASSUME NEW w \in Workers, Record(w), UNCHANGED downloadVars PROVE Unsettled'
  BY <1>31 DEF Record, RecordRow
<1>32. ASSUME NEW w \in Workers, RecordFails(w), UNCHANGED downloadVars PROVE Unsettled'
  BY <1>32 DEF RecordFails
<1>33. ASSUME NEW w \in Workers, ClearDrop(w), UNCHANGED downloadVars PROVE Unsettled'
  BY <1>33 DEF ClearDrop, Remove
<1>34. ASSUME NEW w \in Workers, NEW t \in Tasks, Delete(w, t), UNCHANGED downloadVars
      PROVE  Unsettled'
  BY <1>34 DEF Delete, Remove
<1>35. CASE UNCHANGED vars
  BY <1>35 DEF vars
<1>36. CASE \E t \in Tasks : PumpStep(t)
  BY <1>36, <1>4, <1>5, <1>6, <1>7, <1>8, <1>9, <1>10, <1>11, <1>12, <1>13, <1>14, <1>15,
     <1>16, <1>17 DEF PumpStep
<1>37. CASE \E w \in Workers : Work(w)
  BY <1>37, <1>18, <1>19, <1>20, <1>21, <1>22, <1>23, <1>24, <1>25, <1>26, <1>27, <1>28,
     <1>30, <1>31, <1>32, <1>33 DEF Work, Jobs
<1>38. CASE \E w \in Workers : Arrive(w)
  <2> HIDE DEF Unsettled
  <2>1. PICK w \in Workers : Arrive(w)
    BY <1>38
  <2>2. CASE \E t \in Tasks, k \in Kinds, n \in Sizes : StartDownload(w, t, k, n)
    BY <1>1, <2>2
  <2>3. CASE \E t \in Tasks : FinishCall(w, t) \/ CancelDownload(w, t)
    BY <1>2, <1>3, <2>3
  <2>4. CASE (\E t \in Tasks : Delete(w, t)) /\ UNCHANGED downloadVars
    BY <1>34, <2>4
  <2>5. CASE ClearCollect(w) /\ UNCHANGED downloadVars
    BY <1>29, <2>5
  <2> HIDE DEF downloadVars
  <2> QED BY <2>1, <2>2, <2>3, <2>4, <2>5 DEF Arrive
<1> QED BY <1>35, <1>36, <1>37, <1>38 DEF Next

(* Every action keeps the single writer.                                   *)
LEMMA WriterStep ==
    TypeOK /\ Unsettled /\ OneWriter /\ [Next]_vars => OneWriter'
<1> SUFFICES ASSUME TypeOK, Unsettled, OneWriter, [Next]_vars PROVE OneWriter'
    OBVIOUS
<1>types. /\ status \in [Tasks -> Statuses]
          /\ history \in [Tasks -> Seq(Terminal)]
          /\ call \in [Workers -> [at : DownloadPhases, task : Tasks \cup {NoTask},
                                  as : Terminal, offset : Nat, ids : SUBSET Tasks]]
          /\ \A w \in Workers : Task(w) = NoTask => call[w].at \in {"idle", "drop"}
          /\ pump \in [Tasks -> [at : PumpPhases, as : Terminal, clear : BOOLEAN]]
          /\ slot \in [Tasks -> BOOLEAN] /\ got \in [Tasks -> Nat]
          /\ kind \in [Tasks -> Kinds] /\ size \in [Tasks -> Nat] /\ final \in [Tasks -> Seq(Nat)]
          /\ held \in [Tasks -> BOOLEAN]
  BY DEF TypeOK, JobsTypeOK
<1> USE <1>types
<1> USE NoTaskAssumption, SizesAssumption
    DEF DownloadPhases, PumpPhases, Kinds, Statuses, Live, Terminal,
        At, Task, Go, Call, Idle, Settling, Recording, PumpAt, PumpGo, Pump, Onward, Cleanup,
        DropSlot, jobVars, downloadVars, fixed, saved,
        Unsettled, OneWriter, Records, Drops
<1>1. ASSUME NEW w \in Workers, NEW t \in Tasks, NEW k \in Kinds, NEW n \in Sizes,
             StartDownload(w, t, k, n)
      PROVE  OneWriter'
  BY <1>1 DEF StartDownload
<1>2. ASSUME NEW w \in Workers, NEW t \in Tasks, FinishCall(w, t) PROVE OneWriter'
  BY <1>2 DEF FinishCall
<1>3. ASSUME NEW w \in Workers, NEW t \in Tasks, CancelDownload(w, t) PROVE OneWriter'
  BY <1>3 DEF CancelDownload
<1>4. ASSUME NEW t \in Tasks, PumpStarts(t) PROVE OneWriter'
  BY <1>4 DEF PumpStarts, MarkRunning
<1>5. ASSUME NEW t \in Tasks, PumpChecks(t) PROVE OneWriter'
  BY <1>5 DEF PumpChecks
<1>6. ASSUME NEW t \in Tasks, PumpOpens(t) PROVE OneWriter'
  BY <1>6 DEF PumpOpens
<1>7. ASSUME NEW t \in Tasks, PumpCannotOpen(t) PROVE OneWriter'
  BY <1>7 DEF PumpCannotOpen
<1>8. ASSUME NEW t \in Tasks, PumpChunk(t) PROVE OneWriter'
  BY <1>8 DEF PumpChunk
<1>9. ASSUME NEW t \in Tasks, PumpStreamFails(t) PROVE OneWriter'
  <2>1. PICK v \in {"failed", "canceled"} : PumpGo(t, Cleanup(v, FALSE))
    BY <1>9 DEF PumpStreamFails
  <2> QED BY <1>9, <2>1 DEF PumpStreamFails
<1>10. ASSUME NEW t \in Tasks, PumpStreamEnds(t) PROVE OneWriter'
  BY <1>10 DEF PumpStreamEnds
<1>11. ASSUME NEW t \in Tasks, PumpHandsOver(t) PROVE OneWriter'
  BY <1>11 DEF PumpHandsOver
<1>12. ASSUME NEW t \in Tasks, PumpIsOver(t) PROVE OneWriter'
  BY <1>12 DEF PumpIsOver
<1>13. ASSUME NEW t \in Tasks, PumpSweeps(t) PROVE OneWriter'
  BY <1>13 DEF PumpSweeps, SweepPart
<1>14. ASSUME NEW t \in Tasks, PumpSettles(t) PROVE OneWriter'
  BY <1>14 DEF PumpSettles, Complete, Accepts
<1>15. ASSUME NEW t \in Tasks, PumpRecords(t) PROVE OneWriter'
  BY <1>15 DEF PumpRecords, RecordRow
<1>16. ASSUME NEW t \in Tasks, PumpRecordFails(t) PROVE OneWriter'
  BY <1>16 DEF PumpRecordFails
<1>17. ASSUME NEW t \in Tasks, PumpExits(t) PROVE OneWriter'
  BY <1>17 DEF PumpExits
<1>18. ASSUME NEW w \in Workers, FinishCanceled(w) PROVE OneWriter'
  BY <1>18 DEF FinishCanceled, SweepPart
<1>19. ASSUME NEW w \in Workers, FinishGrace(w) PROVE OneWriter'
  BY <1>19 DEF FinishGrace
<1>20. ASSUME NEW w \in Workers, FinishTakes(w) PROVE OneWriter'
  BY <1>20 DEF FinishTakes
<1>21. ASSUME NEW w \in Workers, FinishNotFound(w) PROVE OneWriter'
  BY <1>21 DEF FinishNotFound
<1>22. ASSUME NEW w \in Workers, FinishReplays(w) PROVE OneWriter'
  BY <1>22 DEF FinishReplays, SweepPart
<1>23. ASSUME NEW w \in Workers, FinishProceeds(w) PROVE OneWriter'
  BY <1>23 DEF FinishProceeds
<1>24. ASSUME NEW w \in Workers, Promote(w) PROVE OneWriter'
  BY <1>24 DEF Promote, SweepPart, IsWhole
<1>25. ASSUME NEW w \in Workers, PromoteFails(w) PROVE OneWriter'
  BY <1>25 DEF PromoteFails, SweepPart
<1>26. ASSUME NEW w \in Workers, CancelRaises(w) PROVE OneWriter'
  BY <1>26 DEF CancelRaises
<1>27. ASSUME NEW w \in Workers, CancelSweeps(w) PROVE OneWriter'
  BY <1>27 DEF CancelSweeps, SweepPart, PumpDone
<1>28. ASSUME NEW w \in Workers, CancelLeaves(w) PROVE OneWriter'
  BY <1>28 DEF CancelLeaves, PumpDone
<1>29. ASSUME NEW w \in Workers, ClearCollect(w), UNCHANGED downloadVars PROVE OneWriter'
  <2>1. UNCHANGED <<status, history, pump>>
    BY <1>29 DEF ClearCollect
  <2>2. call'[w].at = "drop" /\ \A v \in Workers : v # w => call'[v] = call[v]
    BY <1>29 DEF ClearCollect
  <2>3. \A v \in Workers, t \in Tasks : Records(v, t)' => v # w /\ Records(v, t) /\ call'[v] = call[v]
    BY <2>2
  <2> HIDE DEF Records
  <2> QED BY <2>1, <2>3
<1>30. ASSUME NEW w \in Workers, Settle(w), UNCHANGED downloadVars PROVE OneWriter'
  BY <1>30 DEF Settle, Complete, Accepts
<1>31. ASSUME NEW w \in Workers, Record(w), UNCHANGED downloadVars PROVE OneWriter'
  BY <1>31 DEF Record, RecordRow
<1>32. ASSUME NEW w \in Workers, RecordFails(w), UNCHANGED downloadVars PROVE OneWriter'
  BY <1>32 DEF RecordFails
<1>33. ASSUME NEW w \in Workers, ClearDrop(w), UNCHANGED downloadVars PROVE OneWriter'
  BY <1>33 DEF ClearDrop, Remove
<1>34. ASSUME NEW w \in Workers, NEW t \in Tasks, Delete(w, t), UNCHANGED downloadVars
      PROVE  OneWriter'
  BY <1>34 DEF Delete, Remove
<1>35. CASE UNCHANGED vars
  BY <1>35 DEF vars
<1>36. CASE \E t \in Tasks : PumpStep(t)
  BY <1>36, <1>4, <1>5, <1>6, <1>7, <1>8, <1>9, <1>10, <1>11, <1>12, <1>13, <1>14, <1>15,
     <1>16, <1>17 DEF PumpStep
<1>37. CASE \E w \in Workers : Work(w)
  BY <1>37, <1>18, <1>19, <1>20, <1>21, <1>22, <1>23, <1>24, <1>25, <1>26, <1>27, <1>28,
     <1>30, <1>31, <1>32, <1>33 DEF Work, Jobs
<1>38. CASE \E w \in Workers : Arrive(w)
  <2> HIDE DEF OneWriter
  <2>1. PICK w \in Workers : Arrive(w)
    BY <1>38
  <2>2. CASE \E t \in Tasks, k \in Kinds, n \in Sizes : StartDownload(w, t, k, n)
    BY <1>1, <2>2
  <2>3. CASE \E t \in Tasks : FinishCall(w, t) \/ CancelDownload(w, t)
    BY <1>2, <1>3, <2>3
  <2>4. CASE (\E t \in Tasks : Delete(w, t)) /\ UNCHANGED downloadVars
    BY <1>34, <2>4
  <2>5. CASE ClearCollect(w) /\ UNCHANGED downloadVars
    BY <1>29, <2>5
  <2> HIDE DEF downloadVars
  <2> QED BY <2>1, <2>2, <2>3, <2>4, <2>5 DEF Arrive
<1> QED BY <1>35, <1>36, <1>37, <1>38 DEF Next

(* Every action keeps at most one row.                                     *)
LEMMA RowsStep ==
    TypeOK /\ OneWriter /\ Rows /\ [Next]_vars => Rows'
<1> SUFFICES ASSUME TypeOK, OneWriter, Rows, [Next]_vars PROVE Rows'
    OBVIOUS
<1>types. /\ status \in [Tasks -> Statuses]
          /\ history \in [Tasks -> Seq(Terminal)]
          /\ call \in [Workers -> [at : DownloadPhases, task : Tasks \cup {NoTask},
                                  as : Terminal, offset : Nat, ids : SUBSET Tasks]]
          /\ \A w \in Workers : Task(w) = NoTask => call[w].at \in {"idle", "drop"}
          /\ pump \in [Tasks -> [at : PumpPhases, as : Terminal, clear : BOOLEAN]]
          /\ slot \in [Tasks -> BOOLEAN] /\ got \in [Tasks -> Nat]
          /\ kind \in [Tasks -> Kinds] /\ size \in [Tasks -> Nat] /\ final \in [Tasks -> Seq(Nat)]
          /\ held \in [Tasks -> BOOLEAN]
  BY DEF TypeOK, JobsTypeOK
<1> USE <1>types
<1> USE NoTaskAssumption, SizesAssumption
    DEF DownloadPhases, PumpPhases, Kinds, Statuses, Live, Terminal,
        At, Task, Go, Call, Idle, Settling, Recording, PumpAt, PumpGo, Pump, Onward, Cleanup,
        DropSlot, jobVars, downloadVars, fixed, saved,
        OneWriter, Records, Rows
<1>1. ASSUME NEW w \in Workers, NEW t \in Tasks, NEW k \in Kinds, NEW n \in Sizes,
             StartDownload(w, t, k, n)
      PROVE  Rows'
  BY <1>1 DEF StartDownload
<1>2. ASSUME NEW w \in Workers, NEW t \in Tasks, FinishCall(w, t) PROVE Rows'
  BY <1>2 DEF FinishCall
<1>3. ASSUME NEW w \in Workers, NEW t \in Tasks, CancelDownload(w, t) PROVE Rows'
  BY <1>3 DEF CancelDownload
<1>4. ASSUME NEW t \in Tasks, PumpStarts(t) PROVE Rows'
  BY <1>4 DEF PumpStarts, MarkRunning
<1>5. ASSUME NEW t \in Tasks, PumpChecks(t) PROVE Rows'
  BY <1>5 DEF PumpChecks
<1>6. ASSUME NEW t \in Tasks, PumpOpens(t) PROVE Rows'
  BY <1>6 DEF PumpOpens
<1>7. ASSUME NEW t \in Tasks, PumpCannotOpen(t) PROVE Rows'
  BY <1>7 DEF PumpCannotOpen
<1>8. ASSUME NEW t \in Tasks, PumpChunk(t) PROVE Rows'
  BY <1>8 DEF PumpChunk
<1>9. ASSUME NEW t \in Tasks, PumpStreamFails(t) PROVE Rows'
  <2>1. PICK v \in {"failed", "canceled"} : PumpGo(t, Cleanup(v, FALSE))
    BY <1>9 DEF PumpStreamFails
  <2> QED BY <1>9, <2>1 DEF PumpStreamFails
<1>10. ASSUME NEW t \in Tasks, PumpStreamEnds(t) PROVE Rows'
  BY <1>10 DEF PumpStreamEnds
<1>11. ASSUME NEW t \in Tasks, PumpHandsOver(t) PROVE Rows'
  BY <1>11 DEF PumpHandsOver
<1>12. ASSUME NEW t \in Tasks, PumpIsOver(t) PROVE Rows'
  BY <1>12 DEF PumpIsOver
<1>13. ASSUME NEW t \in Tasks, PumpSweeps(t) PROVE Rows'
  BY <1>13 DEF PumpSweeps, SweepPart
<1>14. ASSUME NEW t \in Tasks, PumpSettles(t) PROVE Rows'
  BY <1>14 DEF PumpSettles, Complete, Accepts
<1>15. ASSUME NEW t \in Tasks, PumpRecords(t) PROVE Rows'
  <2>1. pump[t].as \in Terminal /\ history[t] = <<>>
    BY <1>15 DEF PumpRecords, OneWriter
  <2>2. /\ history'[t] = <<pump[t].as>>
        /\ \A u \in Tasks : u # t => history'[u] = history[u]
        /\ \A p \in Terminal : history'[t] = <<p>> => p = pump[t].as
    BY <1>15, <2>1, FirstRow DEF PumpRecords
  <2> QED BY <2>1, <2>2
<1>16. ASSUME NEW t \in Tasks, PumpRecordFails(t) PROVE Rows'
  BY <1>16 DEF PumpRecordFails
<1>17. ASSUME NEW t \in Tasks, PumpExits(t) PROVE Rows'
  BY <1>17 DEF PumpExits
<1>18. ASSUME NEW w \in Workers, FinishCanceled(w) PROVE Rows'
  BY <1>18 DEF FinishCanceled, SweepPart
<1>19. ASSUME NEW w \in Workers, FinishGrace(w) PROVE Rows'
  BY <1>19 DEF FinishGrace
<1>20. ASSUME NEW w \in Workers, FinishTakes(w) PROVE Rows'
  BY <1>20 DEF FinishTakes
<1>21. ASSUME NEW w \in Workers, FinishNotFound(w) PROVE Rows'
  BY <1>21 DEF FinishNotFound
<1>22. ASSUME NEW w \in Workers, FinishReplays(w) PROVE Rows'
  BY <1>22 DEF FinishReplays, SweepPart
<1>23. ASSUME NEW w \in Workers, FinishProceeds(w) PROVE Rows'
  BY <1>23 DEF FinishProceeds
<1>24. ASSUME NEW w \in Workers, Promote(w) PROVE Rows'
  BY <1>24 DEF Promote, SweepPart, IsWhole
<1>25. ASSUME NEW w \in Workers, PromoteFails(w) PROVE Rows'
  BY <1>25 DEF PromoteFails, SweepPart
<1>26. ASSUME NEW w \in Workers, CancelRaises(w) PROVE Rows'
  BY <1>26 DEF CancelRaises
<1>27. ASSUME NEW w \in Workers, CancelSweeps(w) PROVE Rows'
  BY <1>27 DEF CancelSweeps, SweepPart, PumpDone
<1>28. ASSUME NEW w \in Workers, CancelLeaves(w) PROVE Rows'
  BY <1>28 DEF CancelLeaves, PumpDone
<1>29. ASSUME NEW w \in Workers, ClearCollect(w), UNCHANGED downloadVars PROVE Rows'
  BY <1>29 DEF ClearCollect
<1>30. ASSUME NEW w \in Workers, Settle(w), UNCHANGED downloadVars PROVE Rows'
  BY <1>30 DEF Settle, Complete, Accepts
<1>31. ASSUME NEW w \in Workers, Record(w), UNCHANGED downloadVars PROVE Rows'
  <2>0. Task(w) \in Tasks /\ call[w].as \in Terminal /\ history[Task(w)] = <<>>
    BY <1>31 DEF Record, OneWriter, Records
  <2>1. PICK t \in Tasks : t = Task(w) /\ call[w].as \in Terminal /\ history[t] = <<>>
    BY <2>0
  <2>2. /\ history'[t] = <<call[w].as>>
        /\ \A u \in Tasks : u # t => history'[u] = history[u]
        /\ \A p \in Terminal : history'[t] = <<p>> => p = call[w].as
    BY <1>31, <2>1, FirstRow DEF Record
  <2> QED BY <2>1, <2>2
<1>32. ASSUME NEW w \in Workers, RecordFails(w), UNCHANGED downloadVars PROVE Rows'
  BY <1>32 DEF RecordFails
<1>33. ASSUME NEW w \in Workers, ClearDrop(w), UNCHANGED downloadVars PROVE Rows'
  BY <1>33 DEF ClearDrop, Remove
<1>34. ASSUME NEW w \in Workers, NEW t \in Tasks, Delete(w, t), UNCHANGED downloadVars
      PROVE  Rows'
  BY <1>34 DEF Delete, Remove
<1>35. CASE UNCHANGED vars
  BY <1>35 DEF vars
<1>36. CASE \E t \in Tasks : PumpStep(t)
  BY <1>36, <1>4, <1>5, <1>6, <1>7, <1>8, <1>9, <1>10, <1>11, <1>12, <1>13, <1>14, <1>15,
     <1>16, <1>17 DEF PumpStep
<1>37. CASE \E w \in Workers : Work(w)
  BY <1>37, <1>18, <1>19, <1>20, <1>21, <1>22, <1>23, <1>24, <1>25, <1>26, <1>27, <1>28,
     <1>30, <1>31, <1>32, <1>33 DEF Work, Jobs
<1>38. CASE \E w \in Workers : Arrive(w)
  <2> HIDE DEF Rows
  <2>1. PICK w \in Workers : Arrive(w)
    BY <1>38
  <2>2. CASE \E t \in Tasks, k \in Kinds, n \in Sizes : StartDownload(w, t, k, n)
    BY <1>1, <2>2
  <2>3. CASE \E t \in Tasks : FinishCall(w, t) \/ CancelDownload(w, t)
    BY <1>2, <1>3, <2>3
  <2>4. CASE (\E t \in Tasks : Delete(w, t)) /\ UNCHANGED downloadVars
    BY <1>34, <2>4
  <2>5. CASE ClearCollect(w) /\ UNCHANGED downloadVars
    BY <1>29, <2>5
  <2> HIDE DEF downloadVars
  <2> QED BY <2>1, <2>2, <2>3, <2>4, <2>5 DEF Arrive
<1> QED BY <1>35, <1>36, <1>37, <1>38 DEF Next

(* Every action keeps Promoted.                                            *)
LEMMA PromotedStep ==
    TypeOK /\ Unsettled /\ OneWriter /\ Rows /\ Promoted /\ [Next]_vars => Promoted'
<1> SUFFICES ASSUME TypeOK, Unsettled, OneWriter, Rows, Promoted, [Next]_vars PROVE Promoted'
    OBVIOUS
<1>types. /\ status \in [Tasks -> Statuses]
          /\ history \in [Tasks -> Seq(Terminal)]
          /\ call \in [Workers -> [at : DownloadPhases, task : Tasks \cup {NoTask},
                                  as : Terminal, offset : Nat, ids : SUBSET Tasks]]
          /\ \A w \in Workers : Task(w) = NoTask => call[w].at \in {"idle", "drop"}
          /\ pump \in [Tasks -> [at : PumpPhases, as : Terminal, clear : BOOLEAN]]
          /\ slot \in [Tasks -> BOOLEAN] /\ got \in [Tasks -> Nat]
          /\ kind \in [Tasks -> Kinds] /\ size \in [Tasks -> Nat] /\ final \in [Tasks -> Seq(Nat)]
          /\ held \in [Tasks -> BOOLEAN]
  BY DEF TypeOK, JobsTypeOK
<1> USE <1>types
<1> USE NoTaskAssumption, SizesAssumption
    DEF DownloadPhases, PumpPhases, Kinds, Statuses, Live, Terminal,
        At, Task, Go, Call, Idle, Settling, Recording, PumpAt, PumpGo, Pump, Onward, Cleanup,
        DropSlot, jobVars, downloadVars, fixed, saved, Promoted,
        PromotedOf, OnDisk, CompletedRow
<1>1. ASSUME NEW w \in Workers, NEW t \in Tasks, NEW k \in Kinds, NEW n \in Sizes,
             StartDownload(w, t, k, n)
      PROVE  Promoted'
  <2>1. \A v \in Workers : Task(v) # t
    BY <1>1 DEF StartDownload, Unsettled
  <2>0. <<>> # CompletedRow
    OBVIOUS
  <2>2. status[t] = "new" /\ history[t] # CompletedRow /\ UNCHANGED <<call, history>>
    <3> HIDE DEF CompletedRow
    <3> QED BY <1>1, <2>0 DEF StartDownload, Unsettled
  <2>3. status'[t] = "queued" /\ pump'[t].at = "start"
    BY <1>1 DEF StartDownload
  <2>4. \A u \in Tasks : u # t => /\ status'[u] = status[u] /\ pump'[u] = pump[u]
                                   /\ kind'[u] = kind[u] /\ OnDisk(u)' = OnDisk(u)
    BY <1>1 DEF StartDownload
  <2>7. ASSUME NEW u \in Tasks PROVE PromotedOf(u)'
    <3> HIDE <1>types DEF OnDisk, CompletedRow
    <3>1. PromotedOf(u)
      OBVIOUS
    <3> HIDE DEF Promoted
    <3>2. CASE u = t
      BY <2>1, <2>2, <2>3, <2>4, <3>1, <3>2
    <3>3. CASE u # t
      BY <2>1, <2>2, <2>3, <2>4, <3>1, <3>3
    <3> QED BY <3>2, <3>3
  <2> HIDE DEF PromotedOf
  <2> QED BY <2>7
<1>2. ASSUME NEW w \in Workers, NEW t \in Tasks, FinishCall(w, t) PROVE Promoted'
  BY <1>2 DEF FinishCall
<1>3. ASSUME NEW w \in Workers, NEW t \in Tasks, CancelDownload(w, t) PROVE Promoted'
  BY <1>3 DEF CancelDownload
<1>4. ASSUME NEW t \in Tasks, PumpStarts(t) PROVE Promoted'
  BY <1>4 DEF PumpStarts, MarkRunning
<1>5. ASSUME NEW t \in Tasks, PumpChecks(t) PROVE Promoted'
  BY ZenonT(60), <1>5 DEF PumpChecks
<1>6. ASSUME NEW t \in Tasks, PumpOpens(t) PROVE Promoted'
  BY ZenonT(60), <1>6 DEF PumpOpens
<1>7. ASSUME NEW t \in Tasks, PumpCannotOpen(t) PROVE Promoted'
  BY ZenonT(60), <1>7 DEF PumpCannotOpen
<1>8. ASSUME NEW t \in Tasks, PumpChunk(t) PROVE Promoted'
  <2>1. UNCHANGED <<status, history, call, pump, kind>>
    BY <1>8 DEF PumpChunk
  <2>2. \A n : <<n>> # <<>>
    OBVIOUS
  <2>3. \A u \in Tasks : OnDisk(u) => OnDisk(u)'
    BY <1>8, <2>2 DEF PumpChunk
  <2> HIDE <1>types DEF OnDisk
  <2> QED BY <2>1, <2>3
<1>9. ASSUME NEW t \in Tasks, PumpStreamFails(t) PROVE Promoted'
  <2>1. PICK v \in {"failed", "canceled"} : PumpGo(t, Cleanup(v, FALSE))
    BY <1>9 DEF PumpStreamFails
  <2> QED BY <1>9, <2>1 DEF PumpStreamFails
<1>10. ASSUME NEW t \in Tasks, PumpStreamEnds(t) PROVE Promoted'
  BY ZenonT(60), <1>10 DEF PumpStreamEnds
<1>11. ASSUME NEW t \in Tasks, PumpHandsOver(t) PROVE Promoted'
  BY ZenonT(60), <1>11 DEF PumpHandsOver
<1>12. ASSUME NEW t \in Tasks, PumpIsOver(t) PROVE Promoted'
  BY ZenonT(60), <1>12 DEF PumpIsOver
<1>13. ASSUME NEW t \in Tasks, PumpSweeps(t) PROVE Promoted'
  BY ZenonT(60), <1>13 DEF PumpSweeps, SweepPart
<1>14. ASSUME NEW t \in Tasks, PumpSettles(t) PROVE Promoted'
  BY <1>14 DEF PumpSettles, Complete, Accepts
<1>15. ASSUME NEW t \in Tasks, PumpRecords(t) PROVE Promoted'
  <2>1. pump[t].as \in Terminal /\ history[t] = <<>>
    BY <1>15 DEF PumpRecords, OneWriter
  <2>2. /\ history'[t] = <<pump[t].as>>
        /\ \A u \in Tasks : u # t => history'[u] = history[u]
        /\ \A p \in Terminal : history'[t] = <<p>> => p = pump[t].as
    BY <1>15, <2>1, FirstRow DEF PumpRecords
  <2>3. /\ pump'[t].at = "exit" /\ \A u \in Tasks : u # t => pump'[u] = pump[u]
        /\ UNCHANGED <<status, call, kind>> /\ \A u \in Tasks : OnDisk(u)' = OnDisk(u)
    BY <1>15 DEF PumpRecords
  <2>4. kind[t] = "local" /\ status[t] # "new" => pump[t].as # "completed"
    BY <1>15 DEF PumpRecords
  <2>5. history'[t] = CompletedRow => pump[t].as = "completed"
    BY <2>2
  <2>7. ASSUME NEW u \in Tasks PROVE PromotedOf(u)'
    <3> HIDE <1>types DEF OnDisk, CompletedRow
    <3>1. PromotedOf(u)
      OBVIOUS
    <3> HIDE DEF Promoted
    <3>2. CASE u = t
      BY <2>1, <2>2, <2>3, <2>4, <2>5, <3>1, <3>2
    <3>3. CASE u # t
      BY <2>1, <2>2, <2>3, <2>4, <2>5, <3>1, <3>3
    <3> QED BY <3>2, <3>3
  <2> HIDE DEF PromotedOf
  <2> QED BY <2>7
<1>16. ASSUME NEW t \in Tasks, PumpRecordFails(t) PROVE Promoted'
  BY ZenonT(60), <1>16 DEF PumpRecordFails
<1>17. ASSUME NEW t \in Tasks, PumpExits(t) PROVE Promoted'
  BY ZenonT(60), <1>17 DEF PumpExits
<1>18. ASSUME NEW w \in Workers, FinishCanceled(w) PROVE Promoted'
  BY <1>18 DEF FinishCanceled, SweepPart
<1>19. ASSUME NEW w \in Workers, FinishGrace(w) PROVE Promoted'
  BY <1>19 DEF FinishGrace
<1>20. ASSUME NEW w \in Workers, FinishTakes(w) PROVE Promoted'
  BY <1>20 DEF FinishTakes
<1>21. ASSUME NEW w \in Workers, FinishNotFound(w) PROVE Promoted'
  BY <1>21 DEF FinishNotFound
<1>22. ASSUME NEW w \in Workers, FinishReplays(w) PROVE Promoted'
  BY <1>22 DEF FinishReplays, SweepPart
<1>23. ASSUME NEW w \in Workers, FinishProceeds(w) PROVE Promoted'
  BY <1>23 DEF FinishProceeds
<1>24. ASSUME NEW w \in Workers, Promote(w) PROVE Promoted'
  <2>1. PICK t \in Tasks : t = Task(w) /\ part[t] = <<size[t]>>
    BY <1>24 DEF Promote, IsWhole
  <2>2. final' = [final EXCEPT ![t] = <<size[t]>>] /\ <<size[t]>> # <<>>
    BY <1>24, <2>1 DEF Promote
  <2>3. /\ call'[w].task = t /\ \A v \in Workers : v # w => call'[v] = call[v]
        /\ UNCHANGED <<status, history, pump, kind>>
    BY <1>24, <2>1 DEF Promote
  <2>4. OnDisk(t)' /\ \A u \in Tasks : u # t => OnDisk(u)' = OnDisk(u)
    BY <2>1, <2>2
  <2>7. ASSUME NEW u \in Tasks PROVE PromotedOf(u)'
    <3> HIDE <1>types DEF OnDisk, CompletedRow
    <3>1. PromotedOf(u)
      OBVIOUS
    <3> HIDE DEF Promoted
    <3>2. CASE u = t
      BY <2>1, <2>3, <2>4, <3>1, <3>2
    <3>3. CASE u # t
      BY <2>1, <2>3, <2>4, <3>1, <3>3
    <3> QED BY <3>2, <3>3
  <2> HIDE DEF PromotedOf
  <2> QED BY <2>7
<1>25. ASSUME NEW w \in Workers, PromoteFails(w) PROVE Promoted'
  BY <1>25 DEF PromoteFails, SweepPart
<1>26. ASSUME NEW w \in Workers, CancelRaises(w) PROVE Promoted'
  BY <1>26 DEF CancelRaises
<1>27. ASSUME NEW w \in Workers, CancelSweeps(w) PROVE Promoted'
  <2>1. /\ call'[w].as # "completed" /\ \A v \in Workers : v # w => call'[v] = call[v]
        /\ UNCHANGED <<status, history, pump, kind>> /\ \A u \in Tasks : OnDisk(u)' = OnDisk(u)
    BY <1>27 DEF CancelSweeps
  <2> HIDE <1>types DEF OnDisk, CompletedRow
  <2> QED BY <2>1
<1>28. ASSUME NEW w \in Workers, CancelLeaves(w) PROVE Promoted'
  BY <1>28 DEF CancelLeaves, PumpDone
<1>29. ASSUME NEW w \in Workers, ClearCollect(w), UNCHANGED downloadVars PROVE Promoted'
  BY <1>29 DEF ClearCollect
<1>30. ASSUME NEW w \in Workers, Settle(w), UNCHANGED downloadVars PROVE Promoted'
  <2>1. PICK t \in Tasks : t = Task(w) /\ call[w].as \in Terminal
    BY <1>30 DEF Settle
  <2>6. call' = [call EXCEPT ![w] = IF Accepts(t) THEN Recording(t, call[w].as) ELSE Idle]
    BY <1>30, <2>1 DEF Settle
  <2>7. call'[w] = Recording(t, call[w].as) \/ call'[w] = Idle
    BY <2>6
  <2>8. /\ call[w].at = "settle" /\ UNCHANGED <<history, pump, kind>>
        /\ status[t] # "new"
    BY <1>30, <2>1 DEF Settle, Unsettled
  <2>2. /\ status[t] # "new" /\ UNCHANGED <<history, pump, kind>>
        /\ call[w].at = "settle" /\ call'[w].at \in {"record", "idle"}
        /\ call'[w].at = "record" => call'[w].task = t /\ call'[w].as = call[w].as
        /\ \A v \in Workers : v # w => call'[v] = call[v]
    BY <2>6, <2>7, <2>8
  <2>3. /\ \A u \in Tasks : u # t => status'[u] = status[u]
        /\ status'[t] = "completed" => status[t] = "completed" \/ call[w].as = "completed"
    BY <1>30, <2>1, CompleteEffect DEF Settle
  <2>4. \A u \in Tasks : OnDisk(u)' = OnDisk(u)
    BY <1>30
  <2>5. ASSUME NEW u \in Tasks PROVE PromotedOf(u)'
    <3> HIDE <1>types DEF OnDisk, CompletedRow
    <3>1. PromotedOf(u)
      OBVIOUS
    <3> HIDE DEF Promoted
    <3>2. CASE u = t
      BY <2>1, <2>2, <2>3, <2>4, <3>1, <3>2
    <3>3. CASE u # t
      BY <2>1, <2>2, <2>3, <2>4, <3>1, <3>3
    <3> QED BY <3>2, <3>3
  <2> HIDE DEF PromotedOf
  <2> QED BY <2>5
<1>31. ASSUME NEW w \in Workers, Record(w), UNCHANGED downloadVars PROVE Promoted'
  <2>0. Task(w) \in Tasks /\ call[w].as \in Terminal /\ history[Task(w)] = <<>>
    BY <1>31 DEF Record, OneWriter, Records
  <2>1. PICK t \in Tasks : t = Task(w) /\ call[w].as \in Terminal /\ history[t] = <<>>
    BY <2>0
  <2>2. /\ history'[t] = <<call[w].as>>
        /\ \A u \in Tasks : u # t => history'[u] = history[u]
        /\ \A p \in Terminal : history'[t] = <<p>> => p = call[w].as
    BY <1>31, <2>1, FirstRow DEF Record
  <2>3. /\ call'[w].at = "idle" /\ \A v \in Workers : v # w => call'[v] = call[v]
        /\ UNCHANGED <<status, pump, kind>> /\ \A u \in Tasks : OnDisk(u)' = OnDisk(u)
    BY <1>31 DEF Record
  <2>4. PromotedOf(t)
    OBVIOUS
  <2>5. kind[t] = "local" /\ status[t] # "new" /\ call[w].as = "completed" => OnDisk(t)
    BY <1>31, <2>1, <2>4 DEF Record
  <2>6. history'[t] = CompletedRow => call[w].as = "completed"
    BY <2>2
  <2>7. ASSUME NEW u \in Tasks PROVE PromotedOf(u)'
    <3> HIDE <1>types DEF OnDisk, CompletedRow
    <3>1. PromotedOf(u)
      OBVIOUS
    <3> HIDE DEF Promoted
    <3>2. CASE u = t
      BY <2>1, <2>2, <2>3, <2>5, <2>6, <3>1, <3>2
    <3>3. CASE u # t
      BY <2>1, <2>2, <2>3, <2>5, <2>6, <3>1, <3>3
    <3> QED BY <3>2, <3>3
  <2> HIDE DEF PromotedOf
  <2> QED BY <2>7
<1>32. ASSUME NEW w \in Workers, RecordFails(w), UNCHANGED downloadVars PROVE Promoted'
  BY <1>32 DEF RecordFails
<1>33. ASSUME NEW w \in Workers, ClearDrop(w), UNCHANGED downloadVars PROVE Promoted'
  <2>1. UNCHANGED <<pump, kind>> /\ (\A u \in Tasks : OnDisk(u)' = OnDisk(u))
       /\ call'[w].at = "idle" /\ \A v \in Workers : v # w => call'[v] = call[v]
    BY <1>33 DEF ClearDrop
  <2>2. \A u \in Tasks : status'[u] \in {status[u], "gone"} /\ history'[u] \in {history[u], <<>>}
    BY <1>33 DEF ClearDrop, Remove
  <2>3. \A u \in Tasks : status'[u] # "new" => status[u] # "new"
    BY <1>33 DEF ClearDrop, Remove, Unsettled, Drops
  <2>4. <<>> # CompletedRow
    OBVIOUS
  <2>5. \A u \in Tasks : /\ status'[u] = "completed" => status[u] = "completed"
                         /\ history'[u] = CompletedRow => history[u] = CompletedRow
    <3> HIDE DEF CompletedRow
    <3> QED BY <2>2, <2>4
  <2>7. ASSUME NEW u \in Tasks PROVE PromotedOf(u)'
    <3> HIDE <1>types DEF OnDisk, CompletedRow
    <3>1. PromotedOf(u)
      OBVIOUS
    <3> HIDE DEF Promoted
    <3> QED BY <2>1, <2>3, <2>5, <3>1
  <2> HIDE DEF PromotedOf
  <2> QED BY <2>7
<1>34. ASSUME NEW w \in Workers, NEW t \in Tasks, Delete(w, t), UNCHANGED downloadVars
      PROVE  Promoted'
  <2>1. UNCHANGED <<pump, kind>> /\ (\A u \in Tasks : OnDisk(u)' = OnDisk(u)) /\ UNCHANGED call
    BY <1>34 DEF Delete
  <2>2. \A u \in Tasks : status'[u] \in {status[u], "gone"} /\ history'[u] \in {history[u], <<>>}
    BY <1>34 DEF Delete, Remove
  <2>3. \A u \in Tasks : status'[u] # "new" => status[u] # "new"
    BY <1>34 DEF Delete, Remove, Unsettled, Drops
  <2>4. <<>> # CompletedRow
    OBVIOUS
  <2>5. \A u \in Tasks : /\ status'[u] = "completed" => status[u] = "completed"
                         /\ history'[u] = CompletedRow => history[u] = CompletedRow
    <3> HIDE DEF CompletedRow
    <3> QED BY <2>2, <2>4
  <2>7. ASSUME NEW u \in Tasks PROVE PromotedOf(u)'
    <3> HIDE <1>types DEF OnDisk, CompletedRow
    <3>1. PromotedOf(u)
      OBVIOUS
    <3> HIDE DEF Promoted
    <3> QED BY <2>1, <2>3, <2>5, <3>1
  <2> HIDE DEF PromotedOf
  <2> QED BY <2>7
<1>35. CASE UNCHANGED vars
  BY <1>35 DEF vars
<1>36. CASE \E t \in Tasks : PumpStep(t)
  BY <1>36, <1>4, <1>5, <1>6, <1>7, <1>8, <1>9, <1>10, <1>11, <1>12, <1>13, <1>14, <1>15,
     <1>16, <1>17 DEF PumpStep
<1>37. CASE \E w \in Workers : Work(w)
  BY <1>37, <1>18, <1>19, <1>20, <1>21, <1>22, <1>23, <1>24, <1>25, <1>26, <1>27, <1>28,
     <1>30, <1>31, <1>32, <1>33 DEF Work, Jobs
<1>38. CASE \E w \in Workers : Arrive(w)
  <2> HIDE DEF Promoted
  <2>1. PICK w \in Workers : Arrive(w)
    BY <1>38
  <2>2. CASE \E t \in Tasks, k \in Kinds, n \in Sizes : StartDownload(w, t, k, n)
    BY <1>1, <2>2
  <2>3. CASE \E t \in Tasks : FinishCall(w, t) \/ CancelDownload(w, t)
    BY <1>2, <1>3, <2>3
  <2>4. CASE (\E t \in Tasks : Delete(w, t)) /\ UNCHANGED downloadVars
    BY <1>34, <2>4
  <2>5. CASE ClearCollect(w) /\ UNCHANGED downloadVars
    BY <1>29, <2>5
  <2> HIDE DEF downloadVars
  <2> QED BY <2>1, <2>2, <2>3, <2>4, <2>5 DEF Arrive
<1> QED BY <1>35, <1>36, <1>37, <1>38 DEF Next

(* Every action keeps Filed.                                               *)
LEMMA FiledStep ==
    TypeOK /\ Unsettled /\ Filed /\ [Next]_vars => Filed'
<1> SUFFICES ASSUME TypeOK, Unsettled, Filed, [Next]_vars PROVE Filed'
    OBVIOUS
<1>types. /\ status \in [Tasks -> Statuses]
          /\ call \in [Workers -> [at : DownloadPhases, task : Tasks \cup {NoTask},
                                  as : Terminal, offset : Nat, ids : SUBSET Tasks]]
          /\ \A w \in Workers : Task(w) = NoTask => call[w].at \in {"idle", "drop"}
          /\ pump \in [Tasks -> [at : PumpPhases, as : Terminal, clear : BOOLEAN]]
          /\ got \in [Tasks -> Nat] /\ part \in [Tasks -> Seq(Nat)]
          /\ kind \in [Tasks -> Kinds] /\ size \in [Tasks -> Nat] /\ final \in [Tasks -> Seq(Nat)]
          /\ held \in [Tasks -> BOOLEAN]
  BY DEF TypeOK, JobsTypeOK
<1>single. \A n : <<n>> # <<>>
  OBVIOUS
<1>kept. ASSUME UNCHANGED <<kind, size, got, final, held>>,
                \A u \in Tasks : /\ part'[u] \in {part[u], <<>>}
                                 /\ status'[u] = "new" => status[u] = "new"
                                 /\ PumpAt(u, "stream")' => PumpAt(u, "stream"),
                \A v \in Workers : At(v, "promote")' => At(v, "promote") /\ Task(v)' = Task(v)
         PROVE  Filed'
  BY <1>kept DEF Filed, FiledOf, Exact
<1>done. ASSUME NEW t \in Tasks, NEW o \in Terminal, Complete(t, o)
         PROVE  \A u \in Tasks : status'[u] = "new" => status[u] = "new"
  BY <1>done, <1>types DEF Complete, Terminal
<1>gone. ASSUME NEW ids, Remove(ids)
         PROVE  \A u \in Tasks : status'[u] = "new" => status[u] = "new"
  BY <1>gone, <1>types DEF Remove
<1> USE NoTaskAssumption
    DEF At, Task, Go, Call, Idle, Settling, Recording, PumpAt, PumpGo, Pump, Onward, Cleanup,
        DropSlot, jobVars, downloadVars, fixed, saved
<1>1. ASSUME NEW w \in Workers, NEW t \in Tasks, NEW k \in Kinds, NEW n \in Sizes,
             StartDownload(w, t, k, n)
      PROVE  Filed'
  <2>1. /\ status[t] = "new" /\ status'[t] = "queued" /\ got[t] = 0 /\ final[t] = <<>>
        /\ \A v \in Workers : Task(v) # t
    BY <1>1, <1>types DEF StartDownload, Unsettled, Filed, FiledOf
  <2>2. UNCHANGED <<call, got, final, held>> /\ (k = "local" => part'[t] = <<0>>) /\ kind'[t] = k
    BY <1>1, <1>types DEF StartDownload
  <2>3. \A u \in Tasks : u # t => /\ kind'[u] = kind[u] /\ size'[u] = size[u]
                                  /\ status'[u] = status[u] /\ part'[u] = part[u]
                                  /\ pump'[u] = pump[u]
    BY <1>1, <1>types DEF StartDownload
  <2>4. FiledOf(t)'
    BY <2>1, <2>2 DEF FiledOf
  <2>5. ASSUME NEW u \in Tasks, u # t PROVE FiledOf(u)'
    BY <2>2, <2>3, <2>5 DEF Filed, FiledOf, Exact
  <2> QED BY <2>4, <2>5 DEF Filed
<1>2. ASSUME NEW w \in Workers, NEW t \in Tasks, FinishCall(w, t) PROVE Filed'
  BY <1>2, <1>kept, <1>types DEF FinishCall
<1>3. ASSUME NEW w \in Workers, NEW t \in Tasks, CancelDownload(w, t) PROVE Filed'
  BY <1>3, <1>kept, <1>types DEF CancelDownload
<1>4. ASSUME NEW t \in Tasks, PumpStarts(t) PROVE Filed'
  BY <1>4, <1>kept, <1>types DEF PumpStarts, MarkRunning
<1>5. ASSUME NEW t \in Tasks, PumpChecks(t) PROVE Filed'
  BY <1>5, <1>kept, <1>types DEF PumpChecks
<1>6. ASSUME NEW t \in Tasks, PumpOpens(t) PROVE Filed'
  <2>1. UNCHANGED <<status, kind, size, got, final, held, part, call>>
    BY <1>6 DEF PumpOpens
  <2>2. final[t] = <<>>
    BY <1>6 DEF PumpOpens, Filed, FiledOf
  <2>3. \A u \in Tasks : u # t => pump'[u] = pump[u]
    BY <1>6, <1>types DEF PumpOpens
  <2> QED BY <2>1, <2>2, <2>3 DEF Filed, FiledOf, Exact
<1>7. ASSUME NEW t \in Tasks, PumpCannotOpen(t) PROVE Filed'
  BY <1>7, <1>kept, <1>types DEF PumpCannotOpen
<1>8. ASSUME NEW t \in Tasks, PumpChunk(t) PROVE Filed'
  <2>1. UNCHANGED <<status, kind, size, held, pump, call>>
    BY <1>8 DEF PumpChunk
  <2>2. /\ got'[t] = got[t] + 1 /\ PumpAt(t, "stream")
        /\ part'[t] = IF kind[t] = "local" /\ part[t] # <<>> THEN <<got[t] + 1>> ELSE part[t]
        /\ final'[t] = IF final[t] # <<>> THEN <<got[t] + 1>> ELSE final[t]
    BY <1>8, <1>types DEF PumpChunk
  <2>3. \A u \in Tasks : u # t => got'[u] = got[u] /\ part'[u] = part[u] /\ final'[u] = final[u]
    BY <1>8, <1>types DEF PumpChunk
  <2>4. FiledOf(t)'
    <3>1. CASE final[t] # <<>>
      <4>1. /\ kind[t] = "local" /\ part[t] = <<>> /\ Exact(t) /\ held[t]
            /\ status[t] # "new"
        BY <2>2, <3>1 DEF Filed, FiledOf, Exact
      <4>2. got'[t] > size[t] /\ final'[t] = <<got'[t]>> /\ part'[t] = <<>>
        BY <2>2, <3>1, <4>1, <1>types DEF Exact
      <4> QED BY <2>1, <4>1, <4>2 DEF Filed, FiledOf, Exact
    <3>2. CASE final[t] = <<>>
      <4>1. final'[t] = <<>>
        BY <2>2, <3>2
      <4>2. kind[t] = "local" /\ part'[t] # <<>> => part'[t] = <<got'[t]>>
        BY <2>2
      <4> QED BY <2>1, <4>1, <4>2 DEF Filed, FiledOf
    <3> QED BY <3>1, <3>2
  <2>5. ASSUME NEW u \in Tasks, u # t PROVE FiledOf(u)'
    BY <2>1, <2>3, <2>5 DEF Filed, FiledOf, Exact
  <2> QED BY <2>4, <2>5 DEF Filed
<1>9. ASSUME NEW t \in Tasks, PumpStreamFails(t) PROVE Filed'
  BY <1>9, <1>kept, <1>types DEF PumpStreamFails
<1>10. ASSUME NEW t \in Tasks, PumpStreamEnds(t) PROVE Filed'
  BY <1>10, <1>kept, <1>types DEF PumpStreamEnds
<1>11. ASSUME NEW t \in Tasks, PumpHandsOver(t) PROVE Filed'
  BY <1>11, <1>kept, <1>types DEF PumpHandsOver
<1>12. ASSUME NEW t \in Tasks, PumpIsOver(t) PROVE Filed'
  BY <1>12, <1>kept, <1>types DEF PumpIsOver
<1>13. ASSUME NEW t \in Tasks, PumpSweeps(t) PROVE Filed'
  BY <1>13, <1>kept, <1>types DEF PumpSweeps, SweepPart
<1>14. ASSUME NEW t \in Tasks, PumpSettles(t) PROVE Filed'
  <2>1. \A u \in Tasks : status'[u] = "new" => status[u] = "new"
    BY <1>14, <1>done, <1>types DEF PumpSettles
  <2> QED BY <1>14, <2>1, <1>kept, <1>types DEF PumpSettles
<1>15. ASSUME NEW t \in Tasks, PumpRecords(t) PROVE Filed'
  BY <1>15, <1>kept, <1>types DEF PumpRecords
<1>16. ASSUME NEW t \in Tasks, PumpRecordFails(t) PROVE Filed'
  BY <1>16, <1>kept, <1>types DEF PumpRecordFails
<1>17. ASSUME NEW t \in Tasks, PumpExits(t) PROVE Filed'
  BY <1>17, <1>kept, <1>types DEF PumpExits
<1>18. ASSUME NEW w \in Workers, FinishCanceled(w) PROVE Filed'
  BY <1>18, <1>kept, <1>types DEF FinishCanceled, SweepPart
<1>19. ASSUME NEW w \in Workers, FinishGrace(w) PROVE Filed'
  BY <1>19, <1>kept, <1>types DEF FinishGrace
<1>20. ASSUME NEW w \in Workers, FinishTakes(w) PROVE Filed'
  BY <1>20, <1>kept, <1>types DEF FinishTakes
<1>21. ASSUME NEW w \in Workers, FinishNotFound(w) PROVE Filed'
  BY <1>21, <1>kept, <1>types DEF FinishNotFound
<1>22. ASSUME NEW w \in Workers, FinishReplays(w) PROVE Filed'
  BY <1>22, <1>kept, <1>types DEF FinishReplays, SweepPart
<1>23. ASSUME NEW w \in Workers, FinishProceeds(w) PROVE Filed'
  <2>1. UNCHANGED <<status, kind, size, got, final, held, part, pump>>
    BY <1>23 DEF FinishProceeds
  <2>2. /\ \A v \in Workers : v # w => call'[v] = call[v]
        /\ At(w, "promote")' => kind[Task(w)] = "local" /\ Task(w)' = Task(w)
    BY <1>23, <1>types DEF FinishProceeds
  <2> QED BY <2>1, <2>2 DEF Filed, FiledOf, Exact
<1>24. ASSUME NEW w \in Workers, Promote(w) PROVE Filed'
  <2>1. PICK t \in Tasks : t = Task(w)
    BY <1>24, <1>types DEF Promote
  <2>2. UNCHANGED <<status, kind, size, got, pump>> /\ kind[t] = "local"
    BY <1>24, <2>1 DEF Promote, Filed, FiledOf
  <2>3. /\ part[t] = <<size[t]>> /\ part'[t] = <<>> /\ final'[t] = <<size[t]>>
        /\ held'[t] = PumpAt(t, "stream")
    BY <1>24, <2>1, <2>2, <1>types DEF Promote, SweepPart, IsWhole
  <2>4. \A u \in Tasks : u # t => part'[u] = part[u] /\ final'[u] = final[u] /\ held'[u] = held[u]
    BY <1>24, <2>1, <1>types DEF Promote, SweepPart
  <2>5. \A v \in Workers : At(v, "promote")' => At(v, "promote") /\ Task(v)' = Task(v)
    BY <1>24, <1>types DEF Promote
  <2>6. part[t] = <<got[t]>> /\ status[t] # "new"
    BY <2>1, <2>2, <2>3, <1>single DEF Filed, FiledOf, Unsettled
  <2>7. got[t] = size[t]
    BY <2>3, <2>6, <1>types
  <2>8. FiledOf(t)'
    BY <2>2, <2>3, <2>6, <2>7, <1>single DEF FiledOf, Exact
  <2>9. ASSUME NEW u \in Tasks, u # t PROVE FiledOf(u)'
    BY <2>2, <2>4, <2>5, <2>9 DEF Filed, FiledOf, Exact
  <2> QED BY <2>8, <2>9 DEF Filed
<1>25. ASSUME NEW w \in Workers, PromoteFails(w) PROVE Filed'
  BY <1>25, <1>kept, <1>types DEF PromoteFails, SweepPart
<1>26. ASSUME NEW w \in Workers, CancelRaises(w) PROVE Filed'
  BY <1>26, <1>kept, <1>types DEF CancelRaises
<1>27. ASSUME NEW w \in Workers, CancelSweeps(w) PROVE Filed'
  BY <1>27, <1>kept, <1>types DEF CancelSweeps, SweepPart
<1>28. ASSUME NEW w \in Workers, CancelLeaves(w) PROVE Filed'
  BY <1>28, <1>kept, <1>types DEF CancelLeaves
<1>29. ASSUME NEW w \in Workers, ClearCollect(w), UNCHANGED downloadVars PROVE Filed'
  BY <1>29, <1>kept, <1>types DEF ClearCollect
<1>30. ASSUME NEW w \in Workers, Settle(w), UNCHANGED downloadVars PROVE Filed'
  <2>1. Task(w) \in Tasks /\ call[w].as \in Terminal
    BY <1>30, <1>types DEF Settle
  <2>2. \A u \in Tasks : status'[u] = "new" => status[u] = "new"
    BY <1>30, <1>done, <2>1 DEF Settle
  <2> QED BY <1>30, <2>2, <1>kept, <1>types DEF Settle
<1>31. ASSUME NEW w \in Workers, Record(w), UNCHANGED downloadVars PROVE Filed'
  BY <1>31, <1>kept, <1>types DEF Record
<1>32. ASSUME NEW w \in Workers, RecordFails(w), UNCHANGED downloadVars PROVE Filed'
  BY <1>32, <1>kept, <1>types DEF RecordFails
<1>33. ASSUME NEW w \in Workers, ClearDrop(w), UNCHANGED downloadVars PROVE Filed'
  <2>1. \A u \in Tasks : status'[u] = "new" => status[u] = "new"
    BY <1>33, <1>gone DEF ClearDrop
  <2> QED BY <1>33, <2>1, <1>kept, <1>types DEF ClearDrop
<1>34. ASSUME NEW w \in Workers, NEW t \in Tasks, Delete(w, t), UNCHANGED downloadVars
      PROVE  Filed'
  <2>1. \A u \in Tasks : status'[u] = "new" => status[u] = "new"
    BY <1>34, <1>gone DEF Delete
  <2> QED BY <1>34, <2>1, <1>kept, <1>types DEF Delete
<1>35. CASE UNCHANGED vars
  BY <1>35, <1>kept DEF vars
<1>36. CASE \E t \in Tasks : PumpStep(t)
  BY <1>36, <1>4, <1>5, <1>6, <1>7, <1>8, <1>9, <1>10, <1>11, <1>12, <1>13, <1>14, <1>15,
     <1>16, <1>17 DEF PumpStep
<1>37. CASE \E w \in Workers : Work(w)
  BY <1>37, <1>18, <1>19, <1>20, <1>21, <1>22, <1>23, <1>24, <1>25, <1>26, <1>27, <1>28,
     <1>30, <1>31, <1>32, <1>33 DEF Work, Jobs
<1>38. CASE \E w \in Workers : Arrive(w)
  <2> HIDE DEF Filed
  <2>1. PICK w \in Workers : Arrive(w)
    BY <1>38
  <2>2. CASE \E t \in Tasks, k \in Kinds, n \in Sizes : StartDownload(w, t, k, n)
    BY <1>1, <2>2
  <2>3. CASE \E t \in Tasks : FinishCall(w, t) \/ CancelDownload(w, t)
    BY <1>2, <1>3, <2>3
  <2>4. CASE (\E t \in Tasks : Delete(w, t)) /\ UNCHANGED downloadVars
    BY <1>34, <2>4
  <2>5. CASE ClearCollect(w) /\ UNCHANGED downloadVars
    BY <1>29, <2>5
  <2> HIDE DEF downloadVars
  <2> QED BY <2>1, <2>2, <2>3, <2>4, <2>5 DEF Arrive
<1> QED BY <1>35, <1>36, <1>37, <1>38 DEF Next

(* What is left of a local download has someone who will sweep it: the     *)
(* pump before its cleanup; finish between taking the slot and promoting;  *)
(* after a cancel, the cancel that found the pump done.  The temporary     *)
(* archive goes with the pump, and a channel leaves nothing.               *)
Empty(t) == part[t] = <<>>
Promotes(w, t) == Task(w) = t /\ call[w].at \in {"check", "promote"}
Probes(w, t) == Task(w) = t /\ At(w, "probe")
Ends(w, t) == Task(w) = t /\ call[w].at \in {"settle", "record"}
SweptOf(t) ==
    /\ \A w \in Workers : Probes(w, t) => flag[t]
    /\ kind[t] = "channel" => Empty(t)
    /\ kind[t] = "archive" /\ PumpDone(t) => Empty(t)
    /\ PumpAt(t, "handover") => kind[t] = "local"
    /\ kind[t] = "local" /\ ~Empty(t) =>
          /\ pump[t].at \notin {"settle", "record", "exit"}
          /\ ~flag[t] => /\ status[t] \in Live
                         /\ slot[t] \/ \E w \in Workers : Promotes(w, t)
                         /\ \A w \in Workers : ~Ends(w, t)
          /\ flag[t] /\ PumpDone(t) => \E w \in Workers : Probes(w, t)
Swept == \A t \in Tasks : SweptOf(t)

(* Every action keeps Swept.                                               *)
LEMMA SweptStep ==
    TypeOK /\ Unsettled /\ Swept /\ [Next]_vars => Swept'
<1> SUFFICES ASSUME TypeOK, Unsettled, Swept, [Next]_vars PROVE Swept'
    OBVIOUS
<1>types. /\ status \in [Tasks -> Statuses]
          /\ history \in [Tasks -> Seq(Terminal)]
          /\ call \in [Workers -> [at : DownloadPhases, task : Tasks \cup {NoTask},
                                  as : Terminal, offset : Nat, ids : SUBSET Tasks]]
          /\ \A w \in Workers : Task(w) = NoTask => call[w].at \in {"idle", "drop"}
          /\ pump \in [Tasks -> [at : PumpPhases, as : Terminal, clear : BOOLEAN]]
          /\ slot \in [Tasks -> BOOLEAN] /\ got \in [Tasks -> Nat]
          /\ kind \in [Tasks -> Kinds] /\ size \in [Tasks -> Nat] /\ final \in [Tasks -> Seq(Nat)]
          /\ held \in [Tasks -> BOOLEAN]
          /\ flag \in [Tasks -> BOOLEAN] /\ part \in [Tasks -> Seq(Nat)]
  BY DEF TypeOK, JobsTypeOK
<1> USE <1>types
<1> USE NoTaskAssumption, SizesAssumption
    DEF DownloadPhases, PumpPhases, Kinds, Statuses, Live, Terminal,
        At, Task, Go, Call, Idle, Settling, Recording, PumpAt, PumpGo, Pump, Onward, Cleanup,
        DropSlot, jobVars, downloadVars, fixed, saved,
        Unsettled, Records, Drops, Swept, SweptOf, Promotes, Probes, Ends, PumpDone, Empty,
        SweepPart
<1>1. ASSUME NEW w \in Workers, NEW t \in Tasks, NEW k \in Kinds, NEW n \in Sizes,
             StartDownload(w, t, k, n)
      PROVE  Swept'
  BY <1>1 DEF StartDownload
<1>2. ASSUME NEW w \in Workers, NEW t \in Tasks, FinishCall(w, t) PROVE Swept'
  BY <1>2 DEF FinishCall
<1>3. ASSUME NEW w \in Workers, NEW t \in Tasks, CancelDownload(w, t) PROVE Swept'
  BY <1>3 DEF CancelDownload
<1>4. ASSUME NEW t \in Tasks, PumpStarts(t) PROVE Swept'
  BY <1>4 DEF PumpStarts, MarkRunning
<1>5. ASSUME NEW t \in Tasks, PumpChecks(t) PROVE Swept'
  BY <1>5 DEF PumpChecks
<1>6. ASSUME NEW t \in Tasks, PumpOpens(t) PROVE Swept'
  BY <1>6 DEF PumpOpens
<1>7. ASSUME NEW t \in Tasks, PumpCannotOpen(t) PROVE Swept'
  BY <1>7 DEF PumpCannotOpen
<1>8. ASSUME NEW t \in Tasks, PumpChunk(t) PROVE Swept'
  <2>1. /\ UNCHANGED <<jobVars, slot, flag, pump, fixed>>
        /\ \A u \in Tasks : Empty(u) => Empty(u)'
    BY <1>8 DEF PumpChunk
  <2>2. PumpAt(t, "stream") /\ \A u \in Tasks : u # t => Empty(u)' = Empty(u)
    BY <1>8 DEF PumpChunk
  <2> HIDE DEF Empty
  <2> QED BY <2>1, <2>2
<1>9. ASSUME NEW t \in Tasks, PumpStreamFails(t) PROVE Swept'
  <2>1. PICK v \in {"failed", "canceled"} : PumpGo(t, Cleanup(v, FALSE))
    BY <1>9 DEF PumpStreamFails
  <2> QED BY <1>9, <2>1 DEF PumpStreamFails
<1>10. ASSUME NEW t \in Tasks, PumpStreamEnds(t) PROVE Swept'
  BY <1>10 DEF PumpStreamEnds
<1>11. ASSUME NEW t \in Tasks, PumpHandsOver(t) PROVE Swept'
  BY <1>11 DEF PumpHandsOver
<1>12. ASSUME NEW t \in Tasks, PumpIsOver(t) PROVE Swept'
  BY <1>12 DEF PumpIsOver
<1>13. ASSUME NEW t \in Tasks, PumpSweeps(t) PROVE Swept'
  BY <1>13 DEF PumpSweeps, SweepPart
<1>14. ASSUME NEW t \in Tasks, PumpSettles(t) PROVE Swept'
  <2>1. pump[t].as \in Terminal
    OBVIOUS
  <2>2. /\ \A u \in Tasks : u # t => status'[u] = status[u] /\ pump'[u] = pump[u]
        /\ pump[t].at = "settle" /\ pump'[t].at \in {"record", "exit"}
        /\ UNCHANGED <<call>>
    BY <1>14, <2>1, CompleteEffect DEF PumpSettles
  <2>9. UNCHANGED <<flag, kind, part, slot>>
    BY <1>14 DEF PumpSettles
  <2> HIDE <1>types DEF Empty, Live
  <2>10. ASSUME NEW u \in Tasks PROVE SweptOf(u)'
    <3>1. SweptOf(u) /\ Empty(u)' = Empty(u)
      BY <2>9 DEF Empty
    <3> HIDE DEF Swept
    <3>2. CASE u = t
      BY <2>2, <2>9, <3>1, <3>2
    <3>3. CASE u # t
      BY <2>2, <2>9, <3>1, <3>3
    <3> QED BY <3>2, <3>3
  <2> HIDE DEF SweptOf
  <2> QED BY <2>10
<1>15. ASSUME NEW t \in Tasks, PumpRecords(t) PROVE Swept'
  BY <1>15 DEF PumpRecords, RecordRow
<1>16. ASSUME NEW t \in Tasks, PumpRecordFails(t) PROVE Swept'
  BY <1>16 DEF PumpRecordFails
<1>17. ASSUME NEW t \in Tasks, PumpExits(t) PROVE Swept'
  BY <1>17 DEF PumpExits
<1>18. ASSUME NEW w \in Workers, FinishCanceled(w) PROVE Swept'
  BY <1>18 DEF FinishCanceled, SweepPart
<1>19. ASSUME NEW w \in Workers, FinishGrace(w) PROVE Swept'
  <2>1. /\ call[w].at = "wait" /\ call'[w].at = "grace"
        /\ \A v \in Workers : v # w => call'[v] = call[v]
        /\ UNCHANGED <<status, pump, kind, slot, flag, part>>
    BY <1>19 DEF FinishGrace
  <2> HIDE <1>types DEF Empty, Live
  <2>2. ASSUME NEW u \in Tasks PROVE SweptOf(u)'
    <3>1. SweptOf(u) /\ Empty(u)' = Empty(u)
      BY <2>1 DEF Empty
    <3> HIDE DEF Swept
    <3> QED BY <2>1, <3>1
  <2> HIDE DEF SweptOf
  <2> QED BY <2>2
<1>20. ASSUME NEW w \in Workers, FinishTakes(w) PROVE Swept'
  BY <1>20 DEF FinishTakes
<1>21. ASSUME NEW w \in Workers, FinishNotFound(w) PROVE Swept'
  <2>1. /\ call[w].at = "grace" /\ call'[w].at = "idle"
        /\ \A v \in Workers : v # w => call'[v] = call[v]
        /\ UNCHANGED <<status, pump, kind, slot, flag, part>>
    BY <1>21 DEF FinishNotFound
  <2> HIDE <1>types DEF Empty, Live
  <2>2. ASSUME NEW u \in Tasks PROVE SweptOf(u)'
    <3>1. SweptOf(u) /\ Empty(u)' = Empty(u)
      BY <2>1 DEF Empty
    <3> HIDE DEF Swept
    <3> QED BY <2>1, <3>1
  <2> HIDE DEF SweptOf
  <2> QED BY <2>2
<1>22. ASSUME NEW w \in Workers, FinishReplays(w) PROVE Swept'
  BY <1>22 DEF FinishReplays, SweepPart
<1>23. ASSUME NEW w \in Workers, FinishProceeds(w) PROVE Swept'
  BY <1>23 DEF FinishProceeds
<1>24. ASSUME NEW w \in Workers, Promote(w) PROVE Swept'
  <2>1. PICK t \in Tasks : t = Task(w) /\ kind[t] \in Kinds
    BY ZenonT(40), <1>24 DEF Promote
  <2>2. /\ kind[t] = "local" => Empty(t)'
        /\ \A u \in Tasks : u # t \/ kind[t] # "local" => Empty(u)' = Empty(u)
    BY <1>24, <2>1 DEF Promote
  <2>3. /\ call'[w].at = "settle" /\ call'[w].task = t
        /\ \A v \in Workers : v # w => call'[v] = call[v]
        /\ UNCHANGED <<status, history, pump, kind, slot, flag>>
    BY <1>24, <2>1 DEF Promote
  <2> HIDE <1>types DEF Empty, Live
  <2>4. ASSUME NEW u \in Tasks PROVE SweptOf(u)'
    <3>1. SweptOf(u)
      OBVIOUS
    <3> HIDE DEF Swept
    <3>2. CASE u = t /\ kind[t] = "local"
      BY <2>1, <2>2, <2>3, <3>1, <3>2
    <3>4. CASE u = t /\ kind[t] # "local"
      <4>1. Empty(t)' = Empty(t) /\ ~Probes(w, t)' /\ kind'[t] # "local"
        BY <2>1, <2>2, <2>3, <3>4
      <4> QED BY <2>1, <2>3, <3>1, <3>4, <4>1
    <3>3. CASE u # t
      BY <2>1, <2>2, <2>3, <3>1, <3>3
    <3> QED BY <3>2, <3>3, <3>4
  <2> HIDE DEF SweptOf
  <2> QED BY <2>4
<1>25. ASSUME NEW w \in Workers, PromoteFails(w) PROVE Swept'
  BY <1>25 DEF PromoteFails, SweepPart
<1>26. ASSUME NEW w \in Workers, CancelRaises(w) PROVE Swept'
  BY <1>26 DEF CancelRaises
<1>27. ASSUME NEW w \in Workers, CancelSweeps(w) PROVE Swept'
  BY <1>27 DEF CancelSweeps, SweepPart, PumpDone
<1>28. ASSUME NEW w \in Workers, CancelLeaves(w) PROVE Swept'
  <2>1. PICK t \in Tasks : t = Task(w) /\ kind[t] \in Kinds
    BY ZenonT(40), <1>28 DEF CancelLeaves
  <2>2. /\ call[w].at = "probe" /\ call'[w].task = t /\ pump[t].at # "done"
        /\ \A v \in Workers : v # w => call'[v] = call[v]
        /\ UNCHANGED <<status, history, pump, kind, slot, flag, part>>
    BY <1>28, <2>1 DEF CancelLeaves
  <2> HIDE <1>types DEF Empty, Live
  <2>3. ASSUME NEW u \in Tasks PROVE SweptOf(u)'
    <3>1. SweptOf(u) /\ Empty(u)' = Empty(u)
      BY <2>2 DEF Empty
    <3> HIDE DEF Swept
    <3>2. CASE u = t
      BY <2>1, <2>2, <3>1, <3>2
    <3>3. CASE u # t
      BY <2>1, <2>2, <3>1, <3>3
    <3> QED BY <3>2, <3>3
  <2> HIDE DEF SweptOf
  <2> QED BY <2>3
<1>29. ASSUME NEW w \in Workers, ClearCollect(w), UNCHANGED downloadVars PROVE Swept'
  BY <1>29 DEF ClearCollect
<1>30. ASSUME NEW w \in Workers, Settle(w), UNCHANGED downloadVars PROVE Swept'
  <2>1. PICK t \in Tasks : t = Task(w) /\ call[w].as \in Terminal
    BY <1>30 DEF Settle
  <2>2. /\ \A u \in Tasks : u # t => status'[u] = status[u]
        /\ call[w].at = "settle"
        /\ \A v \in Workers : v # w => call'[v] = call[v]
        /\ call'[w].at \in {"record", "idle"} /\ call'[w].task \in {t, NoTask}
        /\ UNCHANGED pump
    BY <1>30, <2>1, CompleteEffect DEF Settle
  <2>9. UNCHANGED <<flag, kind, part, slot>>
    BY <1>30 DEF Settle
  <2> HIDE <1>types DEF Empty, Live
  <2>10. ASSUME NEW u \in Tasks PROVE SweptOf(u)'
    <3>1. SweptOf(u) /\ Empty(u)' = Empty(u)
      BY <2>9 DEF Empty
    <3> HIDE DEF Swept
    <3>2. CASE u = t
      BY <2>1, <2>2, <2>9, <3>1, <3>2
    <3>3. CASE u # t
      BY <2>1, <2>2, <2>9, <3>1, <3>3
    <3> QED BY <3>2, <3>3
  <2> HIDE DEF SweptOf
  <2> QED BY <2>10
<1>31. ASSUME NEW w \in Workers, Record(w), UNCHANGED downloadVars PROVE Swept'
  BY <1>31 DEF Record, RecordRow
<1>32. ASSUME NEW w \in Workers, RecordFails(w), UNCHANGED downloadVars PROVE Swept'
  BY <1>32 DEF RecordFails
<1>33. ASSUME NEW w \in Workers, ClearDrop(w), UNCHANGED downloadVars PROVE Swept'
  <2>1. /\ UNCHANGED <<pump, kind, slot, flag, part>>
        /\ call'[w].at = "idle" /\ call[w].at = "drop"
        /\ call'[w].task = NoTask /\ \A v \in Workers : v # w => call'[v] = call[v]
    BY <1>33 DEF ClearDrop
  <2>2. \A u \in Tasks : status[u] \in Live => status'[u] = status[u]
    BY <1>33 DEF ClearDrop, Remove
  <2> HIDE DEF Live
  <2>3. ASSUME NEW u \in Tasks PROVE SweptOf(u)'
    <3>1. SweptOf(u) /\ Empty(u)' = Empty(u)
      BY <2>1
    <3> HIDE <1>types DEF Swept, Empty
    <3> QED BY <2>1, <2>2, <3>1
  <2> HIDE DEF SweptOf
  <2> QED BY <2>3
<1>34. ASSUME NEW w \in Workers, NEW t \in Tasks, Delete(w, t), UNCHANGED downloadVars
      PROVE  Swept'
  BY <1>34 DEF Delete, Remove
<1>35. CASE UNCHANGED vars
  BY <1>35 DEF vars
<1>36. CASE \E t \in Tasks : PumpStep(t)
  BY <1>36, <1>4, <1>5, <1>6, <1>7, <1>8, <1>9, <1>10, <1>11, <1>12, <1>13, <1>14, <1>15,
     <1>16, <1>17 DEF PumpStep
<1>37. CASE \E w \in Workers : Work(w)
  BY <1>37, <1>18, <1>19, <1>20, <1>21, <1>22, <1>23, <1>24, <1>25, <1>26, <1>27, <1>28,
     <1>30, <1>31, <1>32, <1>33 DEF Work, Jobs
<1>38. CASE \E w \in Workers : Arrive(w)
  <2> HIDE DEF Swept
  <2>1. PICK w \in Workers : Arrive(w)
    BY <1>38
  <2>2. CASE \E t \in Tasks, k \in Kinds, n \in Sizes : StartDownload(w, t, k, n)
    BY <1>1, <2>2
  <2>3. CASE \E t \in Tasks : FinishCall(w, t) \/ CancelDownload(w, t)
    BY <1>2, <1>3, <2>3
  <2>4. CASE (\E t \in Tasks : Delete(w, t)) /\ UNCHANGED downloadVars
    BY <1>34, <2>4
  <2>5. CASE ClearCollect(w) /\ UNCHANGED downloadVars
    BY <1>29, <2>5
  <2> HIDE DEF downloadVars
  <2> QED BY <2>1, <2>2, <2>3, <2>4, <2>5 DEF Arrive
<1> QED BY <1>35, <1>36, <1>37, <1>38 DEF Next


LEMMA InvStep == Inv /\ [Next]_vars => Inv'
BY TypeStep, UnsettledStep, WriterStep, RowsStep, PromotedStep, FiledStep DEF Inv

LEMMA SpecInv == Spec => []Inv
BY InitInv, InvStep, PTL DEF Spec

-----------------------------------------------------------------------------
(* Downloads are well typed for any tasks, workers and sizes.              *)
THEOREM DownloadTypes == Spec => []TypeOK
<1>1. Inv => TypeOK
  BY DEF Inv
<1> QED BY SpecInv, <1>1, PTL

(* However pump, finish and cancels race, a download gets one history row. *)
THEOREM DownloadOneRow == Spec => []OneRow
<1>1. ASSUME Inv, NEW t \in Tasks PROVE Len(history[t]) <= 1
  <2>1. CASE history[t] = <<>>
    BY <2>1
  <2>2. CASE \E o \in Terminal : history[t] = <<o>>
    BY <2>2
  <2> QED BY <1>1, <2>1, <2>2 DEF Inv, Rows
<1>2. Inv => OneRow
  BY <1>1 DEF OneRow
<1> QED BY SpecInv, <1>2, PTL

(* A local download is reported completed only with its whole file on      *)
(* disk, and a longer one only if its pump was at it when finish promoted. *)
THEOREM DownloadCompletedIsOnDisk == Spec => []CompletedIsOnDisk
<1>1. Inv => CompletedIsOnDisk
  <2> SUFFICES ASSUME Inv, NEW t \in Tasks, kind[t] = "local", "completed" \in Outcomes(t)
               PROVE  /\ final[t] = <<got[t]>>
                      /\ got[t] = size[t] \/ (held[t] /\ got[t] > size[t])
    BY DEF CompletedIsOnDisk
  <2>1. PromotedOf(t) /\ (history[t] = <<>> \/ \E o \in Terminal : history[t] = <<o>>)
    BY DEF Inv, Promoted, Rows
  <2>2. status[t] = "completed" \/ history[t] = <<"completed">>
    BY <2>1, OutcomeIsWritten
  <2>3. status[t] # "new"
    BY <2>2 DEF Inv, Unsettled
  <2>4. OnDisk(t)
    BY <2>1, <2>2, <2>3 DEF PromotedOf, CompletedRow
  <2> QED BY <2>4 DEF OnDisk, Inv, Filed, FiledOf, Exact
<1> QED BY SpecInv, <1>1, PTL

(* When a download is over nothing of it is left behind on disk.           *)
THEOREM DownloadNoResidue == Spec => []NoResidue
<1>1. Init => Swept
  BY NoTaskAssumption DEF Init, JobsInit, Swept, SweptOf, Empty, Pump, PumpAt, PumpDone,
     Idle, Call, Probes, Task, At
<1>2. Inv /\ Swept /\ [Next]_vars => Swept'
  BY SweptStep DEF Inv
<1>3. Inv /\ Swept => NoResidue
  <2> SUFFICES ASSUME Inv, Swept, NEW t \in Tasks, PumpDone(t), \A w \in Workers : Task(w) # t,
                      status[t] \in Terminal \cup {"gone"} \/ ~slot[t]
               PROVE  Empty(t)
    BY DEF NoResidue, Empty
  <2>1. SweptOf(t) /\ kind[t] \in Kinds
    BY DEF Swept, Inv, TypeOK
  <2> QED BY <2>1 DEF SweptOf, Kinds, Promotes, Probes, Live, Terminal
<1> QED BY SpecInv, <1>1, <1>2, <1>3, PTL DEF Spec

-----------------------------------------------------------------------------
(* Every step of a download is a step of the job lifecycle or none.        *)
Shared == <<status, history>>

LEMMA LifecycleStep ==
    Inv /\ [Next]_vars => [Lifecycle!Next]_(Lifecycle!vars)
<1> SUFFICES ASSUME Inv, [Next]_vars PROVE Lifecycle!Next \/ UNCHANGED Shared
    BY DEF Shared, Lifecycle!vars
<1>types. /\ status \in [Tasks -> Statuses] /\ history \in [Tasks -> Seq(Terminal)]
          /\ call \in [Workers -> [at : DownloadPhases, task : Tasks \cup {NoTask},
                                  as : Terminal, offset : Nat, ids : SUBSET Tasks]]
          /\ pump \in [Tasks -> [at : PumpPhases, as : Terminal, clear : BOOLEAN]]
          /\ \A w \in Workers : Task(w) = NoTask => call[w].at \in {"idle", "drop"}
  BY DEF Inv, TypeOK, JobsTypeOK
<1>begin. ASSUME NEW t \in Tasks, Lifecycle!Begin(t) \/ Lifecycle!Run(t) PROVE Lifecycle!Next
  BY <1>begin DEF Lifecycle!Next
<1>end. ASSUME NEW t \in Tasks, NEW o \in Terminal, Lifecycle!End(t, o) \/ Lifecycle!Write(t, o)
        PROVE  Lifecycle!Next
  BY <1>end DEF Lifecycle!Next, Lifecycle!Ended, Terminal
<1>forget. ASSUME NEW S \in SUBSET Tasks, NEW kept \in SUBSET Tasks, Lifecycle!Forget(S, kept) PROVE Lifecycle!Next
  BY <1>forget DEF Lifecycle!Next
<1>settles. ASSUME NEW t \in Tasks, NEW o \in Terminal, Complete(t, o), UNCHANGED history
            PROVE  Lifecycle!Next \/ UNCHANGED Shared
  <2>1. CASE Accepts(t)
    BY <1>settles, <1>end, <1>types, <2>1
       DEF Complete, Accepts, Live, Lifecycle!End, Lifecycle!Active
  <2>2. CASE ~Accepts(t)
    BY <1>settles, <1>types, <2>2 DEF Complete, Shared
  <2> QED BY <2>1, <2>2
<1>records. ASSUME NEW t \in Tasks, NEW o \in Terminal, RecordRow(t, o), UNCHANGED status,
                   history[t] = <<>>, status[t] \in {o, "gone"}
            PROVE  Lifecycle!Next
  <2>1. history' = [history EXCEPT ![t] = <<o>>]
    BY <1>records, <1>types DEF RecordRow
  <2> QED BY <1>records, <1>end, <2>1 DEF Lifecycle!Write
<1>removes. ASSUME NEW S \in SUBSET Tasks, Remove(S),
                   \A t \in S : status[t] \in Terminal \cup {"gone"}
            PROVE  Lifecycle!Next
  <2>1. PICK stuck \in SUBSET S :
           /\ status' = [t \in Tasks |-> IF t \in S THEN "gone" ELSE status[t]]
           /\ history' = [t \in Tasks |->
                            IF t \in S \ stuck /\ status[t] # "gone" THEN <<>> ELSE history[t]]
    BY <1>removes DEF Remove
  <2> DEFINE F == {t \in S : status[t] # "gone"}
  <2>2. Lifecycle!Forget(F, stuck)
    BY <1>removes, <2>1 DEF Terminal, Lifecycle!Forget, Lifecycle!Ended
  <2> QED BY <1>forget, <2>2
<1>1. CASE UNCHANGED vars
  BY <1>1 DEF vars, jobVars, Shared
<1>2. ASSUME NEW t \in Tasks, PumpStep(t) PROVE Lifecycle!Next \/ UNCHANGED Shared
  <2>1. CASE PumpStarts(t)
    <3>1. CASE status[t] = "queued"
      BY <1>begin, <2>1, <3>1 DEF PumpStarts, MarkRunning, Lifecycle!Run
    <3>2. CASE status[t] # "queued"
      BY <1>types, <2>1, <3>2 DEF PumpStarts, MarkRunning, Shared
    <3> QED BY <3>1, <3>2
  <2>2. CASE PumpSettles(t)
    BY <1>settles, <1>types, <2>2 DEF PumpSettles
  <2>3. CASE PumpRecords(t)
    BY <1>records, <1>types, <2>3 DEF PumpRecords, PumpAt, Inv, OneWriter
  <2>4. CASE \/ PumpChecks(t) \/ PumpOpens(t) \/ PumpCannotOpen(t) \/ PumpChunk(t)
             \/ PumpStreamFails(t) \/ PumpStreamEnds(t) \/ PumpHandsOver(t) \/ PumpIsOver(t)
             \/ PumpSweeps(t) \/ PumpRecordFails(t) \/ PumpExits(t)
    BY <2>4 DEF PumpChecks, PumpOpens, PumpCannotOpen, PumpChunk, PumpStreamFails,
       PumpStreamEnds,
                PumpHandsOver, PumpIsOver, PumpSweeps, PumpRecordFails, PumpExits, jobVars, Shared
  <2> QED BY <1>2, <2>1, <2>2, <2>3, <2>4 DEF PumpStep
<1>3. ASSUME NEW w \in Workers, Work(w) PROVE Lifecycle!Next \/ UNCHANGED Shared
  <2>1. CASE Settle(w)
    <3>1. Task(w) \in Tasks /\ call[w].as \in Terminal
      BY <1>types, <2>1 DEF Settle, At, Task
    <3> QED BY <1>settles, <2>1, <3>1 DEF Settle
  <2>2. CASE Record(w)
    <3>1. Task(w) \in Tasks /\ call[w].as \in Terminal
      BY <1>types, <2>2 DEF Record, At, Task
    <3>2. history[Task(w)] = <<>> /\ status[Task(w)] \in {call[w].as, "gone"}
      BY <2>2, <3>1 DEF Record, Inv, OneWriter, Records
    <3> QED BY <1>records, <2>2, <3>1, <3>2 DEF Record
  <2>3. CASE ClearDrop(w)
    <3>1. call[w].ids \in SUBSET Tasks
      BY <1>types
    <3>2. \A t \in call[w].ids : status[t] \in Terminal \cup {"gone"}
      BY <1>types, <2>3, <3>1 DEF ClearDrop, Inv, Unsettled, Drops, Statuses
    <3> QED BY <1>removes, <2>3, <3>1, <3>2 DEF ClearDrop
  <2>4. CASE \/ FinishCanceled(w) \/ FinishGrace(w) \/ FinishTakes(w) \/ FinishNotFound(w)
             \/ FinishReplays(w) \/ FinishProceeds(w) \/ Promote(w) \/ PromoteFails(w)
             \/ CancelRaises(w) \/ CancelSweeps(w) \/ CancelLeaves(w) \/ RecordFails(w)
    BY <2>4 DEF FinishCanceled, FinishGrace, FinishTakes, FinishNotFound, FinishReplays,
                FinishProceeds, Promote, PromoteFails, CancelRaises, CancelSweeps, CancelLeaves,
                RecordFails, Shared
  <2> QED BY <1>3, <2>1, <2>2, <2>3, <2>4 DEF Work, Jobs
<1>4. ASSUME NEW w \in Workers, Arrive(w) PROVE Lifecycle!Next \/ UNCHANGED Shared
  <2>1. CASE \E t \in Tasks, k \in Kinds, n \in Sizes : StartDownload(w, t, k, n)
    BY <1>begin, <2>1 DEF StartDownload, Lifecycle!Begin
  <2>2. CASE \E t \in Tasks : FinishCall(w, t) \/ CancelDownload(w, t)
    BY <2>2 DEF FinishCall, CancelDownload, Shared
  <2>3. CASE \E t \in Tasks : Delete(w, t)
    <3>1. PICK t \in Tasks : Delete(w, t)
      BY <2>3
    <3> QED BY <1>removes, <3>1 DEF Delete
  <2>4. CASE ClearCollect(w)
    BY <2>4 DEF ClearCollect, Shared
  <2> QED BY <1>4, <2>1, <2>2, <2>3, <2>4 DEF Arrive
<1> QED BY <1>1, <1>2, <1>3, <1>4 DEF Next

(* Downloads keep the promise of the job mirror: a job is queued, runs and *)
(* settles once, its outcome is written once and as it was, and only a     *)
(* settled job is removed.                                                 *)
THEOREM DownloadKeepsLifecycle == Spec => KeepsLifecycle
<1>1. Init => Lifecycle!Init
  BY DEF Init, JobsInit, Lifecycle!Init
<1> QED BY SpecInv, LifecycleStep, <1>1, PTL DEF Spec, KeepsLifecycle, Lifecycle!Spec

=============================================================================
