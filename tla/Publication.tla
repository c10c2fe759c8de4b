---------------------------- MODULE Publication ----------------------------
(***************************************************************************)
(* Ordered commits and coherent attachment (broadcast.rs), and the socket  *)
(* loop that follows them (ws.rs).                                         *)
(*                                                                         *)
(* A caller prepares a request on the state it reads, outside the gate,    *)
(* then takes the publication gate to commit it, if the revision it was    *)
(* prepared on is still the current one, and to publish the snapshot.      *)
(* A socket attaches under the same gate, and then receives; one that is   *)
(* answering its own request does not receive meanwhile.                   *)
(*                                                                         *)
(* The state is the log of the requests it is the result of; its revision  *)
(* is the log's length, and a broadcast carries the whole of it.           *)
(***************************************************************************)
EXTENDS Integers, Sequences, FiniteSets

CONSTANTS
  Clients,      \* sockets, which make requests too
  Others,       \* the HTTP twin, MCP, and the jobs of the saved views
  BusCapacity,  \* BUS_CAPACITY
  MaxRequests,  \* bound: the requests of each caller
  MaxAttaches   \* bound: the times a client attaches

ASSUME PublicationAssumption ==
  /\ Clients \cap Others = {}
  /\ IsFiniteSet(Clients \cup Others)
  /\ "free" \notin Clients \cup Others
  /\ BusCapacity \in Nat \ {0}
  /\ MaxRequests \in Nat
  /\ MaxAttaches \in Nat

VARIABLES
  log,       \* the shared state
  gate,      \* who holds the publication gate
  task,      \* what each caller is doing
  made,      \* how many requests each caller has made
  acked,     \* the requests whose caller was told they are committed
  bus,       \* every snapshot published; a receiver can only read the last ones
  socket,    \* the state of each client's socket
  cursor,    \* its receiver: the snapshots it has taken or that preceded it
  shown,     \* the state the client shows
  attaches   \* how often it has attached

vars == <<log, gate, task, made, acked, bus, socket, cursor, shown, attaches>>

Callers == Clients \cup Others
Free == "free"
Anywhere == -1

\* A request: whose, its number, and the revision it expects.
Requests == [by : Callers, nth : 1..MaxRequests,
             expected : {Anywhere} \cup 0..(MaxRequests * Cardinality(Callers))]

Idle == [pc |-> "idle"]

Init ==
  /\ log = <<>>
  /\ gate = Free
  /\ task = [c \in Callers |-> Idle]
  /\ made = [c \in Callers |-> 0]
  /\ acked = {}
  /\ bus = <<>>
  /\ socket = [k \in Clients |-> "away"]
  /\ cursor = [k \in Clients |-> 0]
  /\ shown = [k \in Clients |-> <<>>]
  /\ attaches = [k \in Clients |-> 0]

clientVars == <<socket, cursor, shown, attaches>>

-----------------------------------------------------------------------------
(* A request, from its caller to the bus. *)

MayAsk(c) ==
  /\ task[c] = Idle
  /\ made[c] < MaxRequests
  /\ c \in Clients => socket[c] = "live"

\* A socket expects the revision it shows; anyone else any it was told of.
Stamps(c) ==
  {Anywhere} \cup (IF c \in Clients THEN {Len(shown[c])} ELSE 0..Len(log))

\* prepare_shared: the request applied to a copy, or the conflict it meets.
PreparedBy(c, expected) ==
  IF expected \in {Anywhere, Len(log)}
  THEN [pc |-> "prepared", base |-> Len(log),
        request |-> [by |-> c, nth |-> made[c] + 1, expected |-> expected],
        state |-> Append(log, [by |-> c, nth |-> made[c] + 1, expected |-> expected])]
  ELSE Idle

Prepare(c) ==
  /\ MayAsk(c)
  /\ \E expected \in Stamps(c) :
       task' = [task EXCEPT ![c] = PreparedBy(c, expected)]
  /\ made' = [made EXCEPT ![c] = @ + 1]
  /\ UNCHANGED <<log, gate, acked, bus, clientVars>>

\* The caller leaves between preparing and committing: nothing happened.
Abandon(c) ==
  /\ task[c].pc = "prepared"
  /\ gate # c
  /\ c \in Others
  /\ task' = [task EXCEPT ![c] = Idle]
  /\ UNCHANGED <<log, gate, made, acked, bus, clientVars>>

\* commit_ordered_blocking takes the gate with what was prepared.
Enter(c) ==
  /\ task[c].pc = "prepared"
  /\ gate = Free
  /\ gate' = c
  /\ UNCHANGED <<log, task, made, acked, bus, clientVars>>

\* The tail of a saved-view job takes the gate first and prepares inside it.
EnterUnprepared(c) ==
  /\ c \in Others
  /\ MayAsk(c)
  /\ gate = Free
  /\ gate' = c
  /\ task' = [task EXCEPT ![c] = [pc |-> "gated"]]
  /\ UNCHANGED <<log, made, acked, bus, clientVars>>

PrepareInside(c) ==
  /\ task[c].pc = "gated"
  /\ task' = [task EXCEPT ![c] = PreparedBy(c, Anywhere)]
  /\ made' = [made EXCEPT ![c] = @ + 1]
  /\ UNCHANGED <<log, gate, acked, bus, clientVars>>

\* Seeded fault: what was prepared replaces the state, whatever happened since.
BaseIsCurrent_Assumed(c) == TRUE

\* check_stamp(base, current)
BaseIsCurrent(c) == task[c].base = Len(log)

\* Seeded fault: the gate is left before the snapshot is published.
Commit_LeavesGate(c) ==
  /\ task[c].pc = "prepared"
  /\ gate = c
  /\ BaseIsCurrent(c)
  /\ log' = task[c].state
  /\ gate' = Free
  /\ task' = [task EXCEPT ![c].pc = "committed"]
  /\ UNCHANGED <<made, acked, bus, clientVars>>

Commit(c) ==
  /\ task[c].pc = "prepared"
  /\ gate = c
  /\ BaseIsCurrent(c)
  /\ log' = task[c].state
  /\ task' = [task EXCEPT ![c].pc = "committed"]
  /\ UNCHANGED <<gate, made, acked, bus, clientVars>>

\* Seeded fault: a refused commit does not give the gate back.
Conflict_KeepsGate(c) ==
  /\ task[c].pc = "prepared"
  /\ gate = c
  /\ ~BaseIsCurrent(c)
  /\ task' = [task EXCEPT ![c] = Idle]
  /\ UNCHANGED <<log, gate, made, acked, bus, clientVars>>

Conflict(c) ==
  /\ task[c].pc = "prepared"
  /\ gate = c
  /\ ~BaseIsCurrent(c)
  /\ gate' = Free
  /\ task' = [task EXCEPT ![c] = Idle]
  /\ UNCHANGED <<log, made, acked, bus, clientVars>>

\* Seeded fault: a commit nobody hears of.
Publish_Silent(c) ==
  /\ task[c].pc = "committed"
  /\ gate' = Free
  /\ acked' = acked \cup {task[c].request}
  /\ task' = [task EXCEPT ![c] = Idle]
  /\ UNCHANGED <<log, made, bus, clientVars>>

\* Publish the committed snapshot, leave the gate, answer the caller.
Publish(c) ==
  /\ task[c].pc = "committed"
  /\ bus' = Append(bus, task[c].state)
  /\ gate' = Free
  /\ acked' = acked \cup {task[c].request}
  /\ task' = [task EXCEPT ![c] = Idle]
  /\ UNCHANGED <<log, made, clientVars>>

-----------------------------------------------------------------------------
(* A socket. *)

\* Seeded fault: attach does not take the gate.
MayAttach_Ungated(k) == TRUE

MayAttach(k) == gate = Free

\* attach, first half: the gate is taken and the receiver subscribed.
Subscribe(k) ==
  /\ socket[k] = "away"
  /\ attaches[k] < MaxAttaches
  /\ MayAttach(k)
  /\ gate' = IF gate = Free THEN k ELSE gate
  /\ socket' = [socket EXCEPT ![k] = "subscribed"]
  /\ cursor' = [cursor EXCEPT ![k] = Len(bus)]
  /\ attaches' = [attaches EXCEPT ![k] = @ + 1]
  /\ UNCHANGED <<log, task, made, acked, bus, shown>>

\* attach, second half: the snapshot that greets the client.
Greet(k) ==
  /\ socket[k] = "subscribed"
  /\ gate' = IF gate = k THEN Free ELSE gate
  /\ socket' = [socket EXCEPT ![k] = "live"]
  /\ shown' = [shown EXCEPT ![k] = log]
  /\ UNCHANGED <<log, task, made, acked, bus, cursor, attaches>>

\* The serve loop turns to the bus only when it is not answering its client.
Listening(k) == socket[k] = "live" /\ task[k] = Idle /\ cursor[k] < Len(bus)

\* Seeded fault: a receiver that was lapped goes on from the oldest snapshot left.
HandleUpdate_SkipsLagged(k) ==
  /\ Listening(k)
  /\ LET oldest == Len(bus) - BusCapacity + 1
         next == IF cursor[k] + 1 < oldest THEN oldest ELSE cursor[k] + 1
     IN  /\ shown' = [shown EXCEPT ![k] = bus[next]]
         /\ cursor' = [cursor EXCEPT ![k] = next]
  /\ UNCHANGED <<log, gate, task, made, acked, bus, socket, attaches>>

\* handle_update: the next snapshot, if the bus still holds it.
HandleUpdate(k) ==
  /\ Listening(k)
  /\ Len(bus) - cursor[k] <= BusCapacity
  /\ shown' = [shown EXCEPT ![k] = bus[cursor[k] + 1]]
  /\ cursor' = [cursor EXCEPT ![k] = @ + 1]
  /\ UNCHANGED <<log, gate, task, made, acked, bus, socket, attaches>>

\* handle_update, Lagged: an error frame, then the socket is closed.
Lagged(k) ==
  /\ Listening(k)
  /\ Len(bus) - cursor[k] > BusCapacity
  /\ socket' = [socket EXCEPT ![k] = "away"]
  /\ UNCHANGED <<log, gate, task, made, acked, bus, cursor, shown, attaches>>

\* The loop meets the end of the stream; it does not while it is answering.
Leave(k) ==
  /\ socket[k] = "live"
  /\ task[k] = Idle
  /\ socket' = [socket EXCEPT ![k] = "away"]
  /\ UNCHANGED <<log, gate, task, made, acked, bus, cursor, shown, attaches>>

Next ==
  \/ \E c \in Callers :
       \/ Prepare(c)
       \/ Abandon(c)
       \/ Enter(c)
       \/ EnterUnprepared(c)
       \/ PrepareInside(c)
       \/ Commit(c)
       \/ Conflict(c)
       \/ Publish(c)
  \/ \E k \in Clients :
       \/ Subscribe(k)
       \/ Greet(k)
       \/ HandleUpdate(k)
       \/ Lagged(k)
       \/ Leave(k)

(***************************************************************************)
(* A closure given to the blocking pool runs to its end, and the loop of a *)
(* socket turns to what the bus holds for it.  Asking, attaching, leaving  *)
(* and abandoning are up to the users.                                     *)
(***************************************************************************)
Fairness ==
  /\ \A c \in Callers :
       WF_vars(Enter(c) \/ PrepareInside(c) \/ Commit(c) \/ Conflict(c) \/ Publish(c))
  /\ \A k \in Clients : WF_vars(Greet(k)) /\ WF_vars(HandleUpdate(k) \/ Lagged(k))

Spec == Init /\ [][Next]_vars /\ Fairness

-----------------------------------------------------------------------------
Prefix(n) == SubSeq(log, 1, n)

(***************************************************************************)
(* The bus carries the commits in the order they were made, each once,     *)
(* and lags the state by the one commit whose caller still has the gate.   *)
(***************************************************************************)
BusIsTheLog ==
  /\ \A i \in 1..Len(bus) : bus[i] = Prefix(i)
  /\ Len(log) = Len(bus) + Cardinality({c \in Callers : task[c].pc = "committed"})

(***************************************************************************)
(* What a client shows is a state that was committed, and its receiver     *)
(* continues exactly there: between the greeting and the first broadcast   *)
(* nothing is missed and nothing comes twice (attach).                     *)
(***************************************************************************)
ShownMeetsTheBus ==
  /\ BusIsTheLog
  /\ \A k \in Clients :
       socket[k] = "live" =>
         /\ shown[k] = Prefix(Len(shown[k]))
         /\ cursor[k] = Len(shown[k])

Promise == INSTANCE SharedLog WITH
  Expected <- [r \in Requests |-> r.expected],
  at <- [k \in Clients |-> IF socket[k] = "live" THEN Len(shown[k]) ELSE -1]

(***************************************************************************)
(* The server keeps the promise of SharedLog: a single log that loses and  *)
(* repeats nothing, a request that names a revision committed right on it, *)
(* and clients that join at the present and follow without a gap.          *)
(***************************************************************************)
KeepsThePromise == Promise!LogSpec

\* Once nobody asks any more, every client still attached shows the last state.
ClientsCatchUp == \A k \in Clients : <>[](socket[k] = "live" => shown[k] = log)

\* A request is committed or refused in the end: nobody keeps the gate.
RequestsEnd == \A c \in Callers : task[c] # Idle ~> task[c] = Idle
=============================================================================
