----------------------------- MODULE RemoteEdit -----------------------------
(***************************************************************************)
(* Editing one remote file through a local copy.  The first open inserts a *)
(* session and pulls the file; its task then watches the copy and streams  *)
(* settled saves back.  Opening the file again spawns a task that may pull *)
(* once more and launches the application.  An editor, the user and other  *)
(* clients of the storage act at any time.  A stamp stands for size and    *)
(* modification time: each write of the copy has a new one.                *)
(***************************************************************************)
EXTENDS Integers, FiniteSets

CONSTANTS Sessions, Refreshes,
          StableTicks, ErrorRetryTicks,
          MaxStamps,  \* bound: writes of the local copy
          MaxFaults   \* bound: failed transfers and launches, moves of the remote

VARIABLES
    session,  \* the sessions in the map
    task,     \* the open task of a session, which becomes its watcher
    refresh,  \* the tasks of later opens
    local,    \* the local copy
    remote,   \* the text of the remote file
    stamp,    \* the last stamp given
    known,    \* texts the remote has had since the last save
    waived,   \* texts dismissed since, or taken for what a pull had left
    faults

editVars == <<session, task, refresh, local, remote, stamp, known, waived, faults>>

Torn == -1                \* a copy that is not written to its end
Missing == [stamp |-> 0, text |-> Torn]
NoSession == [status |-> "none", baseline |-> 0, stable |-> 0, errors |-> 0, closing |-> FALSE,
              ask |-> FALSE, always |-> FALSE, pending |-> FALSE, requested |-> FALSE]

Live(s) == session[s].status # "none"
Faulty == faults < MaxFaults /\ faults' = faults + 1

EditInit ==
    /\ session = [s \in Sessions |-> NoSession]
    /\ task = [s \in Sessions |-> [at |-> "none", pre |-> 0, text |-> Torn]]
    /\ refresh = [x \in Refreshes |-> [at |-> "idle"]]
    /\ local = Missing
    /\ remote = 0 /\ stamp = 0 /\ known = {0} /\ waived = {} /\ faults = 0

Stamps(text) ==
    /\ stamp < MaxStamps
    /\ stamp' = stamp + 1
    /\ local' = [stamp |-> stamp + 1, text |-> text]
Copy == <<local, stamp>>
Far == <<remote, known>>

TaskAt(s, label) == task[s].at = label
Turns(s, label) == task' = [task EXCEPT ![s].at = label]
RefreshAt(x, label) == refresh[x].at = label
Moves(x, label) == refresh' = [refresh EXCEPT ![x].at = label]
Leaves(x) == refresh' = [refresh EXCEPT ![x] = [at |-> "over"]]

(* An update of a session that has gone changes nothing.                   *)
Updated(s, new) == session' = [session EXCEPT ![s] = IF Live(s) THEN new ELSE @]
Errs(s) == Updated(s, [session[s] EXCEPT !.status = "error"])
Watched(s, baseline) ==
    Updated(s, [session[s] EXCEPT !.status = "watching", !.baseline = baseline])

(* A closed session takes the local copy with it.                          *)
ClosesSession(s) ==
    /\ session' = [session EXCEPT ![s] = NoSession]
    /\ local' = IF Live(s) THEN Missing ELSE local

------------------------------------------------------------------------------
(* files/remote-edit/open: a session of the path is reused.                *)
OpensFirst(s, ask) ==
    /\ ~\E q \in Sessions : Live(q)
    /\ TaskAt(s, "none")
    /\ session' = [session EXCEPT ![s] = [NoSession EXCEPT !.status = "downloading", !.ask = ask]]
    /\ Turns(s, "pull")
    /\ UNCHANGED <<refresh, Copy, Far, waived, faults>>

OpensAgain(s, x, ask) ==
    /\ Live(s) /\ RefreshAt(x, "idle")
    /\ session' = [session EXCEPT ![s].ask = ask]
    /\ IF session[s].status \in {"downloading", "syncing"}
         THEN UNCHANGED refresh
         ELSE refresh' = [refresh EXCEPT ![x] = [at |-> "size", of |-> s, base |-> session[s].baseline]]
    /\ UNCHANGED <<task, Copy, Far, waived, faults>>

Pulls(s) ==
    /\ TaskAt(s, "pull") /\ Turns(s, "pulled") /\ Stamps(remote)
    /\ UNCHANGED <<session, refresh, Far, waived, faults>>

(* The pull writes the copy in place.  A session whose first pull failed   *)
(* stays, and nobody watches it.                                           *)
PullFails(s) ==
    /\ TaskAt(s, "pull") /\ Faulty
    /\ Turns(s, "over") /\ Errs(s)
    /\ Stamps(Torn) \/ UNCHANGED Copy
    /\ UNCHANGED <<refresh, Far, waived>>

(* What is there when the pull has ended is taken for what was pulled,     *)
(* though the editor of an earlier session may have saved meanwhile.       *)
Launches(s) ==
    /\ TaskAt(s, "pulled")
    /\ IF session[s].closing
         THEN ClosesSession(s) /\ Turns(s, "over") /\ UNCHANGED waived
         ELSE /\ Watched(s, local.stamp) /\ Turns(s, "watch")
              /\ waived' = waived \cup {local.text} /\ UNCHANGED local
    /\ UNCHANGED <<refresh, stamp, Far, faults>>

LaunchFails(s) ==
    /\ TaskAt(s, "pulled") /\ ~session[s].closing /\ Faulty
    /\ Updated(s, [session[s] EXCEPT !.status = "error", !.baseline = local.stamp])
    /\ Turns(s, "watch")
    /\ waived' = waived \cup {local.text}
    /\ UNCHANGED <<refresh, Copy, Far>>

------------------------------------------------------------------------------
(* tick_watch: the session after one look at the copy, and what to do.     *)
Steady(s) == [on |-> "continue", session |-> s]
(* Mistake: one tick more before a save counts as settled.                 *)
DeviatesLate(s) == Steady([s EXCEPT !.stable = @ + 1])
Deviates(s) ==
    IF s.stable + 1 < StableTicks THEN Steady([s EXCEPT !.stable = @ + 1])
    ELSE LET settled == [s EXCEPT !.stable = 0, !.errors = 0] IN
         IF s.ask /\ ~s.always
           THEN [on |-> "ask", session |-> [settled EXCEPT !.pending = TRUE]]
           ELSE [on |-> "sync", session |-> settled]
Compares(s, current) ==
    IF s.baseline = current.stamp THEN Steady([s EXCEPT !.stable = 0]) ELSE Deviates(s)
(* Mistake: a sync that failed is not tried again.                         *)
RetriesNever(s, current) == Steady(s)
Retries(s, current) ==
    IF s.errors + 1 < ErrorRetryTicks THEN Steady([s EXCEPT !.errors = @ + 1])
    ELSE Compares([s EXCEPT !.errors = 0, !.stable = IF s.baseline = current.stamp THEN @
                                                     ELSE StableTicks - 1], current)

TickWatch(s, current) ==
    CASE s.closing \/ current = Missing -> [on |-> "close", session |-> s]
      [] ~s.closing /\ current # Missing /\ s.pending -> Steady(s)
      [] ~s.closing /\ current # Missing /\ ~s.pending /\ s.requested ->
            [on |-> "sync", session |-> [s EXCEPT !.requested = FALSE, !.stable = 0, !.errors = 0]]
      [] OTHER -> CASE s.status = "syncing" -> Steady(s)
                    [] s.status = "error" -> Retries(s, current)
                    [] OTHER -> Compares(s, current)

Ticks(s) ==
    LET t == TickWatch(session[s], local) IN
    /\ TaskAt(s, "watch") /\ Live(s)
    /\ CASE t.on = "close" -> ClosesSession(s) /\ Turns(s, "over")
         [] t.on = "sync" -> /\ session' = [session EXCEPT ![s] = t.session]
                             /\ Turns(s, "sync") /\ UNCHANGED local
         [] OTHER -> session' = [session EXCEPT ![s] = t.session] /\ UNCHANGED <<task, local>>
    /\ UNCHANGED <<refresh, stamp, Far, waived, faults>>

Ends(s) ==
    /\ TaskAt(s, "watch") /\ ~Live(s) /\ Turns(s, "over")
    /\ UNCHANGED <<session, refresh, Copy, Far, waived, faults>>

(* remote_edit_sync_back: the stamp is taken before the copy is read.      *)
SyncBegins(s) ==
    /\ TaskAt(s, "sync")
    /\ IF ~Live(s) \/ session[s].closing
         THEN Turns(s, "watch") /\ UNCHANGED session
         ELSE /\ task' = [task EXCEPT ![s].at = "read", ![s].pre = local.stamp]
              /\ session' = [session EXCEPT ![s].status = "syncing", ![s].stable = 0]
    /\ UNCHANGED <<refresh, Copy, Far, waived, faults>>

Reads(s) ==
    /\ TaskAt(s, "read") /\ local # Missing
    /\ task' = [task EXCEPT ![s].at = "upload", ![s].text = local.text]
    /\ UNCHANGED <<session, refresh, Copy, Far, waived, faults>>

Rests(s) == task' = [task EXCEPT ![s] = [at |-> "watch", pre |-> 0, text |-> Torn]]

(* Mistake: the baseline is the stamp at the end of the upload.            *)
StampAfter(s) == local.stamp
StampOf(s) == task[s].pre

Lands(s) ==
    /\ TaskAt(s, "upload") /\ Rests(s)
    /\ remote' = task[s].text /\ known' = known \cup {task[s].text}
    /\ Watched(s, StampOf(s))
    /\ UNCHANGED <<refresh, Copy, waived, faults>>

SyncFails(s) ==
    /\ \/ TaskAt(s, "read") /\ local = Missing /\ UNCHANGED faults
       \/ task[s].at \in {"read", "upload"} /\ Faulty
    /\ Rests(s) /\ Errs(s)
    /\ UNCHANGED <<refresh, Copy, Far, waived>>

------------------------------------------------------------------------------
(* A later open: a pull only if the remote has moved on and the copy is    *)
(* the baseline, or if there is neither.                                   *)
NeedsRefresh(x) ==
    \/ refresh[x].base = 0 /\ local = Missing
    \/ refresh[x].base # 0 /\ local.stamp = refresh[x].base /\ remote # local.text

SizeRead(x) ==
    LET s == refresh[x].of IN
    /\ RefreshAt(x, "size")
    /\ IF NeedsRefresh(x)
         THEN Moves(x, "pull") /\ Updated(s, [session[s] EXCEPT !.status = "downloading"])
         ELSE Moves(x, "launch") /\ UNCHANGED session
    /\ UNCHANGED <<task, Copy, Far, waived, faults>>

(* The size alone is compared, and it may not be to be had.                *)
SizeUnmoved(x) ==
    /\ RefreshAt(x, "size") /\ Moves(x, "launch")
    /\ UNCHANGED <<session, task, Copy, Far, waived, faults>>

NoClient(x) ==
    /\ RefreshAt(x, "size") /\ Faulty /\ Leaves(x)
    /\ UNCHANGED <<session, task, Copy, Far, waived>>

RefreshBegins(x) ==
    /\ RefreshAt(x, "pull") /\ Moves(x, "pulling") /\ Stamps(Torn)
    /\ UNCHANGED <<session, task, Far, waived, faults>>

RefreshEnds(x) ==
    /\ RefreshAt(x, "pulling") /\ Moves(x, "stamp") /\ Stamps(remote)
    /\ UNCHANGED <<session, task, Far, waived, faults>>

RefreshFails(x) ==
    /\ refresh[x].at \in {"pull", "pulling"} /\ Faulty /\ Leaves(x)
    /\ Errs(refresh[x].of)
    /\ UNCHANGED <<task, Copy, Far, waived>>

(* Here too.                                                               *)
RefreshStamps(x) ==
    /\ RefreshAt(x, "stamp")
    /\ IF Live(refresh[x].of) THEN Moves(x, "launch") ELSE Leaves(x)
    /\ Watched(refresh[x].of, local.stamp)
    /\ waived' = waived \cup {local.text}
    /\ UNCHANGED <<task, Copy, Far, faults>>

Relaunches(x) ==
    LET s == refresh[x].of IN
    /\ RefreshAt(x, "launch") /\ Leaves(x)
    /\ \/ session[s].closing /\ ClosesSession(s) /\ UNCHANGED faults
       \/ ~session[s].closing /\ UNCHANGED <<session, local, faults>>
       \/ ~session[s].closing /\ Faulty /\ Errs(s) /\ UNCHANGED local
    /\ UNCHANGED <<task, stamp, Far, waived>>

------------------------------------------------------------------------------
(* The other calls.  The workbench offers a decision while one is pending. *)
RequestsClose(s) ==
    /\ Live(s) /\ session' = [session EXCEPT ![s].closing = TRUE]
    /\ UNCHANGED <<task, refresh, Copy, Far, waived, faults>>

DecidesUpload(s, always) ==
    /\ session[s].pending
    /\ session' = [session EXCEPT ![s].pending = FALSE, ![s].requested = TRUE,
                                  ![s].always = @ \/ always]
    /\ UNCHANGED <<task, refresh, Copy, Far, waived, faults>>

DecidesDismiss(s) ==
    /\ session[s].pending
    /\ session' = [session EXCEPT ![s].pending = FALSE, ![s].baseline = local.stamp]
    /\ waived' = waived \cup {local.text}
    /\ UNCHANGED <<task, refresh, Copy, Far, faults>>

(* The editor, the user, and other clients of the storage.                 *)
Launched ==
    \/ \E s \in Sessions : task[s].at \in {"watch", "sync", "read", "upload"}
    \/ \E x \in Refreshes : RefreshAt(x, "over")
Saves ==
    /\ Launched /\ local # Missing /\ Stamps(stamp + 1)
    /\ known' = {remote} /\ waived' = {}
    /\ UNCHANGED <<session, task, refresh, remote, faults>>
Deletes ==
    /\ local # Missing /\ local' = Missing
    /\ UNCHANGED <<session, task, refresh, stamp, Far, waived, faults>>
RemoteMoves ==
    /\ Faulty /\ remote' = MaxStamps + faults' /\ known' = known \cup {remote'}
    /\ UNCHANGED <<session, task, refresh, Copy, waived>>

Works(s) ==
    \/ Pulls(s) \/ Launches(s) \/ Ticks(s) \/ Ends(s) \/ SyncBegins(s)
    \/ Reads(s) \/ Lands(s) \/ SyncFails(s)
Reopens(x) ==
    \/ SizeRead(x) \/ SizeUnmoved(x) \/ RefreshBegins(x) \/ RefreshEnds(x) \/ RefreshStamps(x)
    \/ Relaunches(x)
EditNext ==
    \/ \E s \in Sessions : Works(s) \/ PullFails(s) \/ LaunchFails(s)
    \/ \E x \in Refreshes : Reopens(x) \/ NoClient(x) \/ RefreshFails(x)
    \/ \E s \in Sessions, ask \in BOOLEAN : OpensFirst(s, ask) \/ DecidesUpload(s, ask)
    \/ \E s \in Sessions, x \in Refreshes, ask \in BOOLEAN : OpensAgain(s, x, ask)
    \/ \E s \in Sessions : RequestsClose(s) \/ DecidesDismiss(s)
    \/ Saves \/ Deletes \/ RemoteMoves

(* Timers tick, and transfers end one way or the other.                    *)
EditFairness ==
    /\ \A s \in Sessions : WF_editVars(Works(s))
    /\ \A x \in Refreshes : WF_editVars(Reopens(x))
EditSpec == EditInit /\ [][EditNext]_editVars /\ EditFairness

------------------------------------------------------------------------------
EditTypeOK ==
    /\ \A s \in Sessions :
          /\ session[s].status \in {"none", "downloading", "watching", "syncing", "error"}
          /\ session[s].stable \in 0..(StableTicks - 1)
          /\ session[s].errors \in 0..(ErrorRetryTicks - 1)
          /\ session[s].baseline <= stamp
          /\ task[s].at \in {"none", "pull", "pulled", "watch", "sync", "read", "upload",
                             "over"}
    /\ \A x \in Refreshes :
          refresh[x].at \in {"idle", "size", "pull", "pulling", "stamp", "launch", "over"}
    /\ local.stamp <= stamp
    /\ remote \in known

(* The watcher of a session that counts its copy as synced is right: the   *)
(* remote has had this text, also when the editor saved while the previous *)
(* save was on its way; unless the user dismissed the text, or a pull that *)
(* had just ended found it in the copy.                                    *)
SyncedIsTrue ==
    \A s \in Sessions :
        (/\ TaskAt(s, "watch") /\ session[s].status = "watching"
         /\ local # Missing /\ session[s].baseline = local.stamp)
            => local.text \in known \cup waived

(* A save in a watched session gets to the remote, after failures too,     *)
(* unless the session asks, is closed, or is opened again and pulled.      *)
Unsynced(s) ==
    /\ task[s].at \in {"watch", "sync", "read", "upload"} /\ Live(s)
    /\ ~session[s].closing /\ ~session[s].ask /\ ~session[s].pending
    /\ local # Missing /\ local.stamp # session[s].baseline
SavesAreSynced == \A s \in Sessions : Unsynced(s) ~> ~Unsynced(s)

(* What a sync-back streams to the remote is an editor's save or what the  *)
(* remote had: "the watcher only treats deviations from this stamp as      *)
(* editor saves".                                                          *)
OnlySavesAreSynced == remote # Torn
=============================================================================
