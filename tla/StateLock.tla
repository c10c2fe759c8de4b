----------------------------- MODULE StateLock -----------------------------
(***************************************************************************)
(* The locks of a session: the std RwLock around the shared state          *)
(* (session.rs) and the mutex that orders publications (broadcast.rs).     *)
(* Every caller is the sequence of its lock operations, each on a thread   *)
(* of its own of the blocking pool; what it does in between is left out.   *)
(***************************************************************************)
EXTENDS Naturals, Sequences

CONSTANTS
  Callers,   \* the calls the server is answering
  Calls,     \* what each of them is: the name of one of the programs below
  Nobody

VARIABLES
  program,   \* the operations each caller has still to do
  reading,   \* how many read guards each caller holds
  writing,   \* the caller that holds the write guard
  queued,    \* the writers that wait for it
  gate       \* the caller that holds the publication gate

lockVars == <<program, reading, writing, queued, gate>>

\* A read guard for the length of one expression.
Glance == <<"read", "unread">>

(***************************************************************************)
(* live_scene keeps its guard on the view to its end, and asks the session *)
(* for its state and, for the status lines, its info.                      *)
(***************************************************************************)
LiveScene == <<"read">> \o Glance \o Glance \o <<"unread">>

CommitShared == <<"write", "unwrite">>

\* prepare_shared runs before the gate, on a copy of the state.
Execute == Glance \o <<"gate">> \o CommitShared \o <<"ungate">>

\* What a saved view or a deleted one does to the marker is prepared under the gate.
MarkSaved == <<"gate">> \o Glance \o CommitShared \o <<"ungate">>

\* A socket: the snapshot and the session's info.
Attach == <<"gate">> \o Glance \o Glance \o <<"ungate">>

Program(call) ==
  CASE call = "live picture" -> LiveScene
    [] call = "private read" -> Glance
    [] call = "shared request" -> Execute
    [] call = "saved marker" -> MarkSaved
    [] call = "attach" -> Attach

LockInit ==
  /\ program = [c \in Callers |-> Program(Calls[c])]
  /\ reading = [c \in Callers |-> 0]
  /\ writing = Nobody
  /\ queued = {}
  /\ gate = Nobody

ToDo(c, operation) == program[c] # <<>> /\ Head(program[c]) = operation
Advance(c) == program' = [program EXCEPT ![c] = Tail(@)]

\* A reader waits for a writer that holds the lock or has asked for it.
ReadLock(c) ==
  /\ ToDo(c, "read")
  /\ writing = Nobody /\ queued = {}
  /\ reading' = [reading EXCEPT ![c] = @ + 1]
  /\ Advance(c)
  /\ UNCHANGED <<writing, queued, gate>>

ReadUnlock(c) ==
  /\ ToDo(c, "unread")
  /\ reading' = [reading EXCEPT ![c] = @ - 1]
  /\ Advance(c)
  /\ UNCHANGED <<writing, queued, gate>>

WriteQueue(c) ==
  /\ ToDo(c, "write")
  /\ c \notin queued
  /\ queued' = queued \cup {c}
  /\ UNCHANGED <<program, reading, writing, gate>>

WriteLock(c) ==
  /\ ToDo(c, "write")
  /\ c \in queued
  /\ writing = Nobody
  /\ \A r \in Callers : reading[r] = 0
  /\ writing' = c
  /\ queued' = queued \ {c}
  /\ Advance(c)
  /\ UNCHANGED <<reading, gate>>

WriteUnlock(c) ==
  /\ ToDo(c, "unwrite")
  /\ writing' = Nobody
  /\ Advance(c)
  /\ UNCHANGED <<reading, queued, gate>>

GateLock(c) ==
  /\ ToDo(c, "gate")
  /\ gate = Nobody
  /\ gate' = c
  /\ Advance(c)
  /\ UNCHANGED <<reading, writing, queued>>

GateUnlock(c) ==
  /\ ToDo(c, "ungate")
  /\ gate' = Nobody
  /\ Advance(c)
  /\ UNCHANGED <<reading, writing, queued>>

LockStep(c) ==
  \/ ReadLock(c) \/ ReadUnlock(c)
  \/ WriteQueue(c) \/ WriteLock(c) \/ WriteUnlock(c)
  \/ GateLock(c) \/ GateUnlock(c)

LockNext == \E c \in Callers : LockStep(c)

\* A thread runs, and a lock that is free is given to one that waits for it.
LockSpec == LockInit /\ [][LockNext]_lockVars /\ \A c \in Callers : WF_lockVars(LockStep(c))

-----------------------------------------------------------------------------
(***************************************************************************)
(* A picture does not hold up the sockets (api.rs: it runs on a thread of  *)
(* its own because otherwise it "is the WebSocket feeding the renderer     *)
(* stalling for all of them"): whoever asks for something gets to its end. *)
(***************************************************************************)
PicturesHoldUpNobody == \A c \in Callers : <>(program[c] = <<>>)
=============================================================================
