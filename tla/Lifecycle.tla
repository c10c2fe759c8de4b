------------------------------ MODULE Lifecycle ------------------------------
(***************************************************************************)
(* Starting a server and stopping it: cli.rs and server.rs for the command *)
(* that serves until it is asked to stop, and the wheel's lib.rs with its  *)
(* _server.py for the handle a Python process holds, hands to a fork, and  *)
(* closes, drops or forgets.  What must not be left behind is the port,    *)
(* the directory the engine spills the graph into (removed when the last   *)
(* reference to the session goes) and a caller that waits for ever.        *)
(***************************************************************************)
EXTENDS Source, Commands

CONSTANTS Forms,       \* the ways the program may have been started
          MaxSignals   \* bound: how often it is asked to stop

VARIABLES form,     \* "serve", "wheel" or "command"
          server,   \* the process, or the wheel's thread, that serves
          handle,   \* "owner", "fork" -> the PyServer each process holds
          asked     \* ghost: who asked for a stop that counts

lifeVars == <<form, server, handle, asked>>
vars == <<sourceVars, commandVars, lifeVars>>

Down == [phase |-> "start", port |-> FALSE, spill |-> FALSE, armed |-> "no",
         polled |-> FALSE, pending |-> {}, signals |-> 0, printed |-> FALSE, busy |-> FALSE]
NoHandle == [here |-> FALSE, live |-> FALSE, sender |-> FALSE, thread |-> FALSE,
             call |-> "none", port |-> FALSE]

LifeInit ==
    /\ SourceInit /\ CommandsInit
    /\ form \in Forms /\ server = Down /\ asked = {}
    /\ handle = [p \in {"owner", "fork"} |-> NoHandle]

Ended == server.phase \in {"gone", "killed"}
Serving == server.phase = "serving"

-----------------------------------------------------------------------------
(* Both faces.  The session is open, and what the engine spilled is on     *)
(* disk, before the port is bound; a failure anywhere on the way drops the *)
(* session with everything it holds.                                       *)
Become(new) == server' = new /\ UNCHANGED <<form, handle, asked>>
Gone(s) == [s EXCEPT !.phase = "gone", !.port = FALSE, !.spill = FALSE]
Reach(from, to) == server.phase = from /\ Become([server EXCEPT !.phase = to])
Fail(from) == server.phase = from /\ Become(Gone(server))

OpenSession == /\ server.phase = "start" /\ form # "command"
               /\ Opened
               /\ Become([server EXCEPT !.phase = "open", !.spill = TRUE])
RefuseSession == /\ server.phase = "start" /\ form # "command"
                 /\ source.phase = "refused"
                 /\ Become(Gone(server))
Bind == \/ server.phase = "open"
           /\ Become([server EXCEPT !.phase = "bound", !.port = TRUE])
        \/ Fail("open")

\* A query inside spawn_blocking holds the session and cannot be cancelled;
\* its own deadline ends it.
QueryStarts == Serving /\ ~server.busy /\ Become([server EXCEPT !.busy = TRUE])
QueryEnds == /\ server.busy
             /\ Become([server EXCEPT !.busy = FALSE,
                                      !.spill = server.spill /\ server.phase # "gone"])

-----------------------------------------------------------------------------
(* The command: build the runtime, arm the handler, print the line, open a *)
(* browser, serve.  The handler of SIGTERM is installed when it is armed;  *)
(* the one of Ctrl-C when the future is first polled.  A signal nobody     *)
(* listens for ends the process where it stands.                           *)
Build == \/ form = "serve" /\ Reach("bound", "built")
         \/ form = "serve" /\ Fail("bound")

\* Seeded fault: the handlers are installed when serving starts.
ArmShutdown_Late ==
    \/ server.phase = "built" /\ Become([server EXCEPT !.phase = "armed"])
    \/ server.phase = "serving" /\ server.armed = "no"
       /\ Become([server EXCEPT !.armed = "yes"])

ArmShutdown == /\ server.phase = "built"
               /\ \E outcome \in {"yes", "failed"} :
                      Become([server EXCEPT !.phase = "armed", !.armed = outcome])

PrintLaunchInfo == \/ server.phase = "armed"
                      /\ Become([server EXCEPT !.phase = "printed", !.printed = TRUE])
                   \/ Fail("armed")

ServeUntil == \/ server.phase = "printed"
                 /\ Become([server EXCEPT !.phase = "serving", !.polled = TRUE])
              \/ Fail("printed")

Signal(s) ==
    /\ form = "serve" /\ ~Ended
    /\ server.signals < MaxSignals
    /\ server' = IF (s = "TERM" /\ server.armed = "yes") \/ (s = "INT" /\ server.polled)
                 THEN [server EXCEPT !.pending = @ \cup {s}, !.signals = @ + 1]
                 ELSE [server EXCEPT !.phase = "killed", !.port = FALSE, !.signals = @ + 1]
    /\ asked' = asked \cup {[by |-> s, printed |-> server.printed, armed |-> server.armed,
                             polled |-> server.polled]}
    /\ UNCHANGED <<form, handle>>

\* The future resolves, the listener closes without waiting for connections.
Hears == \/ form = "serve" /\ server.pending # {}
         \/ form = "wheel" /\ ~handle["owner"].sender
StopServing == /\ Serving /\ Hears
               /\ Become([server EXCEPT !.phase = "stopping", !.port = FALSE])

\* Dropping the command's runtime waits for what is blocking; the wheel's
\* waits a quarter of a second and lets it go on.
\* Seeded fault: a background task keeps the session after the server ends.
Outlives_Always == TRUE
Outlives == server.busy
LeaveRuntime ==
    /\ server.phase = "stopping"
    /\ form = "serve" => ~server.busy
    /\ Become([server EXCEPT !.phase = "gone", !.spill = Outlives])

-----------------------------------------------------------------------------
(* The wheel.  start() binds on the caller's thread, spawns the thread and *)
(* waits to hear whether a runtime was built; only then is there a handle. *)
SpawnThread == \/ form = "wheel" /\ Reach("bound", "spawned")
               \/ form = "wheel" /\ Fail("bound")

ThreadReady ==
    \/ /\ server.phase = "spawned"
       /\ server' = [server EXCEPT !.phase = "serving", !.printed = TRUE]
       /\ handle' = [handle EXCEPT !["owner"] =
              [here |-> TRUE, live |-> TRUE, sender |-> TRUE, thread |-> TRUE,
               call |-> "none", port |-> FALSE]]
       /\ UNCHANGED <<form, asked>>
    \/ Fail("spawned")

\* A fork copies the handle, the sender and the open listener, and no thread.
Fork == /\ handle["owner"].here /\ ~handle["fork"].here
        /\ handle["owner"].call # "joining"
        /\ handle' = [handle EXCEPT !["fork"] =
               [handle["owner"] EXCEPT !.port = server.port]]
        /\ UNCHANGED <<form, server, asked>>

Free(p) == handle[p].here /\ handle[p].live /\ handle[p].call # "joining"
Hold(p, new) == handle' = [handle EXCEPT ![p] = new] /\ UNCHANGED <<form, server>>
Ask(p) == asked' = asked \cup {[by |-> p]}
\* Seeded fault: the process id is not looked at.
Stale_Never(p) == FALSE
Stale(p) == p = "fork"

CloseStale(p) ==
    /\ Free(p) /\ Stale(p)
    /\ Hold(p, [handle[p] EXCEPT !.call = "stale-after-fork",
                                 !.sender = FALSE, !.thread = FALSE])
    /\ UNCHANGED asked

CloseAgain(p) ==
    /\ Free(p) /\ ~Stale(p) /\ ~handle[p].thread
    /\ Hold(p, [handle[p] EXCEPT !.call = "already-closed"])
    /\ UNCHANGED asked

\* take the thread, signal, join with the interpreter lock released.
CloseBegin(p) ==
    /\ Free(p) /\ ~Stale(p) /\ handle[p].thread
    /\ Hold(p, [handle[p] EXCEPT !.call = "joining", !.thread = FALSE, !.sender = FALSE])
    /\ Ask(p)

\* There is a thread to join only in the process that started it.
CloseEnd(p) ==
    /\ handle[p].call = "joining" /\ p = "owner"
    /\ server.phase = "gone"
    /\ Hold(p, [handle[p] EXCEPT !.call = "closed"])
    /\ UNCHANGED asked

\* Seeded fault: a handle that is collected says nothing to its server.
DropHandle_Silent(p) ==
    /\ Free(p)
    /\ Hold(p, [handle[p] EXCEPT !.live = FALSE])
    /\ IF Stale(p) THEN UNCHANGED asked ELSE Ask(p)

\* Drop: signal only, never join; a stale copy is let go of untouched.
DropHandle(p) ==
    /\ Free(p)
    /\ Hold(p, [handle[p] EXCEPT !.live = FALSE, !.sender = FALSE])
    /\ IF Stale(p) THEN UNCHANGED asked ELSE Ask(p)

\* The process leaves.  atexit has closed what was still live and not
\* dropped; a fork's worker may skip it.  Its copy of the port goes with it.
ExitProcess(p) ==
    /\ handle[p].here /\ handle[p].call # "joining"
    /\ \/ p = "fork"
       \/ handle[p].live => ~handle[p].thread
    /\ handle' = [handle EXCEPT ![p] = [NoHandle EXCEPT !.call = "exited"]]
    /\ server' = IF p = "owner" /\ ~Ended
                 THEN [server EXCEPT !.phase = "killed", !.port = FALSE, !.busy = FALSE]
                 ELSE IF p = "owner" THEN [server EXCEPT !.busy = FALSE] ELSE server
    /\ UNCHANGED <<form, asked>>

-----------------------------------------------------------------------------
ServerStep == \/ OpenSession \/ RefuseSession \/ Bind \/ Build \/ ArmShutdown
              \/ PrintLaunchInfo \/ ServeUntil \/ StopServing \/ LeaveRuntime
              \/ SpawnThread \/ ThreadReady \/ QueryEnds
HandleStep == \E p \in {"owner", "fork"} :
                  \/ CloseStale(p) \/ CloseAgain(p) \/ CloseBegin(p)
                  \/ CloseEnd(p) \/ DropHandle(p) \/ ExitProcess(p)
LifeStep == ServerStep \/ QueryStarts \/ Fork \/ HandleStep
            \/ \E s \in {"TERM", "INT"} : Signal(s)

LifeNext ==
    \/ LifeStep /\ UNCHANGED <<sourceVars, commandVars>>
    \/ /\ form \in {"serve", "wheel"} /\ Loading
       /\ UNCHANGED <<commandVars, lifeVars>>
    \/ /\ form = "bookmark" /\ (Others \/ Loading \/ Fingerprinting)
       /\ UNCHANGED <<commandVars, lifeVars>>
    \/ /\ form = "command" /\ CommandsNext
       /\ UNCHANGED <<sourceVars, lifeVars>>

(* Both event loops run what is ready, and so does a Python caller that    *)
(* waits in close().  The command's query ends at its deadline; the wheel  *)
(* counts on no such thing.                                                *)
Starting == \/ OpenSession \/ RefuseSession \/ Bind \/ Build \/ ArmShutdown
            \/ PrintLaunchInfo \/ ServeUntil \/ SpawnThread \/ ThreadReady
LifeSpec ==
    /\ LifeInit /\ [][LifeNext]_vars
    /\ WF_vars(Starting /\ UNCHANGED <<sourceVars, commandVars>>)
    /\ WF_vars(StopServing /\ UNCHANGED <<sourceVars, commandVars>>)
    /\ WF_vars(LeaveRuntime /\ UNCHANGED <<sourceVars, commandVars>>)
    /\ WF_vars(form = "serve" /\ QueryEnds /\ UNCHANGED <<sourceVars, commandVars>>)
    /\ WF_vars(CloseEnd("owner") /\ UNCHANGED <<sourceVars, commandVars>>)

-----------------------------------------------------------------------------
(* What stopping leaves.  A command killed where it stands was asked       *)
(* before its line was out, or could not install the handler, or by a      *)
(* Ctrl-C before the future was polled; a server that is gone has released *)
(* its port, and the spill with it unless, in the wheel, a query was still *)
(* running; and a close that answers "closed" names a server that is gone. *)
StopLeavesNothing ==
    /\ form = "serve" /\ server.phase = "killed" =>
           \E a \in asked : \/ ~a.printed \/ a.armed = "failed"
                            \/ a.by = "INT" /\ ~a.polled
    /\ server.phase = "gone" =>
           /\ ~server.port
           /\ server.spill => form = "wheel"
                              /\ (server.busy \/ handle["owner"].call = "exited")
    /\ handle["owner"].call = "closed" => server.phase = "gone"
    /\ form = "wheel" /\ server.phase = "stopping" => [by |-> "owner"] \in asked

(* Every stop that is heard ends the server, and every close returns, in   *)
(* the process that owns the server and in a fork of it, whatever is still *)
(* running.                                                                *)
Heard == \/ [by |-> "owner"] \in asked
         \/ server.armed = "yes" /\ server.pending # {}
StopsReturn == /\ Heard ~> Ended
               /\ \A p \in {"owner", "fork"} :
                      handle[p].call = "joining" ~> handle[p].call # "joining"
=============================================================================
