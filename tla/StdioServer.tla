---------------------------- MODULE StdioServer ----------------------------
(***************************************************************************)
(* The sidecar as an MCP server of its own (--mcp): lines of JSON-RPC from *)
(* stdin, a task for each, a limited number of them at work at a time, and *)
(* a line of stdout as its answer.  A tool call on a connection that this  *)
(* session does not know is handed to the DBX app, if that is there, over  *)
(* the port it has published; the port file outlives the app.              *)
(***************************************************************************)
EXTENDS Naturals, FiniteSets

CONSTANTS
    Lines,        \* the lines of the session
    Permits,      \* STDIO_DISPATCH_CONCURRENCY
    MaxApps       \* bound: starts of the app

NoPort == 0

(* bad: not a request that can be read; note: a notification; meta: any    *)
(* request that no tool serves, refused ones among them; inline: a call    *)
(* with a connection in it, under the id that saved calls name; session: a *)
(* call that needs no connection, or names the built-in one.               *)
Kinds == {"bad", "note", "meta", "inline", "saved", "session"}

VARIABLES
    line,       \* the task of each line: [at, kind, leg]
    server,     \* "reading", "draining", "over", or "cut" when the drain took too long
    pooled,     \* the id of the inline connection is in the registry
    appPort,    \* where the app listens
    published,  \* what the port file says
    apps,       \* starts of the app so far: each has a port of its own
    relay,      \* what the app has of a line: "none", "taken", "done", "refused"
    done,       \* how often the call of a line was carried out
    answered    \* the answers of a line on stdout

stdioVars == <<line, server, pooled, appPort, published, apps, relay, done, answered>>
bridge == <<appPort, published, apps, relay>>

Unread == [at |-> "unread", kind |-> "bad", leg |-> "none", says |-> "error"]

StdioInit ==
    /\ line = [l \in Lines |-> Unread]
    /\ server = "reading"
    /\ pooled = FALSE
    /\ appPort = NoPort /\ published \in {NoPort, MaxApps + 1} /\ apps = 0
    /\ relay = [l \in Lines |-> "none"]
    /\ done = [l \in Lines |-> 0]
    /\ answered = [l \in Lines |-> {}]

------------------------------------------------------------------------------
Is(l, label) == line[l].at = label
Runs == server \in {"reading", "draining"}
AtWork == {l \in Lines : line[l].at \notin {"unread", "waits", "ended"}}
Step(l, from, next) == Runs /\ Is(l, from) /\ line' = [line EXCEPT ![l] = next]
Goes(l, from, to) == Step(l, from, [line[l] EXCEPT !.at = to])
Tells(l, from, says) == Step(l, from, [line[l] EXCEPT !.at = "write", !.says = says])
OnlyLine == UNCHANGED <<server, pooled, done, answered>> /\ UNCHANGED bridge

(* A line is read.  The reader answers one that does not parse, or is too  *)
(* long, itself; for any other it starts a task.                           *)
Reads(l) ==
    /\ server = "reading"
    /\ \E kind \in Kinds :
          /\ Step(l, "unread", [Unread EXCEPT !.at = IF kind = "bad" THEN "ended" ELSE "waits",
                                   !.kind = kind])
          /\ answered' = [answered EXCEPT ![l] = IF kind = "bad" THEN {"error"} ELSE {}]
    /\ UNCHANGED <<server, pooled, done>> /\ UNCHANGED bridge

(* The permit is acquired in the task.                                     *)
Acquires(l) == Cardinality(AtWork) < Permits /\ Goes(l, "waits", "dispatch") /\ OnlyLine

(* dispatch and call_tool: a notification has no answer, and what no tool  *)
(* serves is answered at once.                                             *)
Dispatches(l) ==
    /\ CASE line[l].kind = "note" -> Goes(l, "dispatch", "ended")
         [] line[l].kind = "meta" -> \E says \in {"ok", "error"} : Tells(l, "dispatch", says)
         [] OTHER -> Goes(l, "dispatch", "plan")
    /\ OnlyLine

(* bridge_forward_plan: only an id that is unknown here goes to the app.   *)
Forwards(l) == line[l].kind = "saved" /\ ~pooled
Plans(l) ==
    /\ Goes(l, "plan", IF Forwards(l) THEN "probe" ELSE "prepare")
    /\ OnlyLine

(* prepare_arguments: an inline connection is registered, and stays in the *)
(* registry; or that fails, and the call with it.                          *)
Prepares(l) ==
    /\ \/ /\ Goes(l, "prepare", "local")
          /\ pooled' = (pooled \/ line[l].kind = "inline")
       \/ /\ line[l].kind = "inline" /\ Tells(l, "prepare", "error")
          /\ UNCHANGED pooled
    /\ UNCHANGED <<server, done, answered>> /\ UNCHANGED bridge

(* run_tool.                                                               *)
CarriesOut(l) ==
    /\ \/ Tells(l, "local", "ok") /\ done' = [done EXCEPT ![l] = @ + 1]
       \/ Tells(l, "local", "error") /\ done' \in {done, [done EXCEPT ![l] = @ + 1]}
    /\ UNCHANGED <<server, pooled, answered>> /\ UNCHANGED bridge

------------------------------------------------------------------------------
(* appbridge::ensure: the published port is probed; if nobody is there the *)
(* app is launched, and the port file is read and probed again until the   *)
(* wait is over.                                                           *)
AliveAt(port) == port # NoPort /\ port = appPort
Launched == apps < MaxApps /\ appPort = NoPort
Probes(l) ==
    \/ /\ AliveAt(published)
       /\ Goes(l, "probe", "post") /\ OnlyLine
    \/ /\ ~AliveAt(published)
       /\ Goes(l, "probe", "poll")
       /\ \/ UNCHANGED <<appPort, apps>>
          \/ Launched /\ apps' = apps + 1 /\ appPort' = apps'
       /\ UNCHANGED <<published, relay, server, pooled, done, answered>>
Polls(l) ==
    /\ \/ AliveAt(published) /\ Goes(l, "poll", "post")
       \/ ~AliveAt(published) /\ Tells(l, "poll", "error")
    /\ OnlyLine

(* post: the port is read once more; the app takes the request, or it is   *)
(* not to be reached.                                                      *)
Posts(l) ==
    \/ /\ AliveAt(published)
       /\ Goes(l, "post", "await")
       /\ relay' = [relay EXCEPT ![l] = "taken"]
       /\ UNCHANGED <<appPort, published, apps, server, pooled, done, answered>>
    \/ Tells(l, "post", "error") /\ OnlyLine

(* Mistake: the call is then made here.                                    *)
UnansweredLocally(l) == Goes(l, "await", "local")

(* The answer of the app is passed on; without one (the app is gone, it    *)
(* answers with a status, or the time is over) the call has failed.        *)
(* The caller is told how it may get there itself.                         *)
Unanswered(l) == Tells(l, "await", "error")
Hears(l) ==
    /\ \/ relay[l] = "done" /\ \E says \in {"ok", "error"} : Tells(l, "await", says)
       \/ Unanswered(l)
    /\ OnlyLine

------------------------------------------------------------------------------
(* One line of stdout, under its lock; then the permit is let go.          *)
Writes(l) ==
    /\ Goes(l, "write", "ended")
    /\ answered' = [answered EXCEPT ![l] = @ \cup {line[l].says}]
    /\ UNCHANGED <<server, pooled, done>> /\ UNCHANGED bridge

(* stdin is closed: what is under way may come to its end, for a time.     *)
Closes ==
    /\ server = "reading"
    /\ server' = "draining"
    /\ UNCHANGED <<line, pooled, done, answered>> /\ UNCHANGED bridge
Leaves ==
    /\ server = "draining"
    /\ server' = IF \A l \in Lines : line[l].at \in {"unread", "ended"} THEN "over" ELSE "cut"
    /\ UNCHANGED <<line, pooled, done, answered>> /\ UNCHANGED bridge

(* The app starts, publishes its port, serves what it has taken, and dies. *)
AppStarts ==
    /\ Launched
    /\ apps' = apps + 1 /\ appPort' = apps'
    /\ UNCHANGED <<line, server, pooled, published, relay, done, answered>>
AppPublishes ==
    /\ appPort # NoPort /\ published # appPort
    /\ published' = appPort
    /\ UNCHANGED <<line, server, pooled, appPort, apps, relay, done, answered>>
AppServes(l) ==
    /\ appPort # NoPort /\ relay[l] = "taken"
    /\ \/ relay' = [relay EXCEPT ![l] = "done"] /\ done' = [done EXCEPT ![l] = @ + 1]
       \/ relay' = [relay EXCEPT ![l] = "refused"] /\ UNCHANGED done
    /\ UNCHANGED <<line, server, pooled, appPort, published, apps, answered>>
AppDies ==
    /\ appPort # NoPort
    /\ appPort' = NoPort
    /\ relay' = [l \in Lines |-> IF relay[l] = "taken" THEN "refused" ELSE relay[l]]
    /\ UNCHANGED <<line, server, pooled, published, apps, done, answered>>

StdioNext ==
    \/ Closes \/ Leaves \/ AppStarts \/ AppPublishes \/ AppDies
    \/ \E l \in Lines :
          \/ Reads(l) \/ Acquires(l) \/ Dispatches(l) \/ Plans(l) \/ Prepares(l) \/ CarriesOut(l)
          \/ Probes(l) \/ Polls(l) \/ Posts(l) \/ Hears(l) \/ Writes(l) \/ AppServes(l)

StdioSpec == StdioInit /\ [][StdioNext]_stdioVars

------------------------------------------------------------------------------
StdioTypeOK ==
    /\ Cardinality(AtWork) <= Permits
    /\ server \in {"reading", "draining", "over", "cut"}
    /\ \A l \in Lines : line[l].kind \in Kinds /\ answered[l] \subseteq {"ok", "error"}

(* A call is carried out once at most, here or in the app, and has been    *)
(* when its answer says so, whatever became of the app meanwhile; a line   *)
(* has one answer at most, a notification none, and a server that was not  *)
(* cut off has answered every other line (stdio.rs:626-634, 409-416).      *)
CallsAreOnce ==
    \A l \in Lines :
        /\ done[l] <= 1
        /\ "ok" \in answered[l] /\ line[l].kind # "meta" => done[l] = 1
        /\ Cardinality(answered[l]) <= 1
        /\ line[l].kind = "note" => answered[l] = {}
        /\ server = "over" /\ line[l].kind # "note" /\ ~Is(l, "unread") => answered[l] # {}
=============================================================================
