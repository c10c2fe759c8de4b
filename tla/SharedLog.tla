----------------------------- MODULE SharedLog -----------------------------
(***************************************************************************)
(* What the server promises about the exploration its clients share: one   *)
(* log of requests, each in it once, and every client attached somewhere   *)
(* along it, moving forward one request at a time.  A request that named   *)
(* the revision it was meant for is in the log right after that revision.  *)
(***************************************************************************)
EXTENDS Integers, Sequences

CONSTANTS
  Clients,   \* the sockets
  Requests,  \* what can be asked
  Expected,  \* the revision a request names, or Anywhere
  Anywhere

VARIABLES
  log,       \* the requests committed, in order: revision n is its prefix of length n
  at         \* the revision each client shows, or Detached

logVars == <<log, at>>

Detached == -1

Member(request) == \E i \in 1..Len(log) : log[i] = request

LogInit ==
  /\ log = <<>>
  /\ at = [k \in Clients |-> Detached]

Take(request) ==
  /\ ~Member(request)
  /\ Expected[request] \in {Anywhere, Len(log)}
  /\ log' = Append(log, request)
  /\ at' = at

\* A client attaches at the present, whatever it had seen before.
Join(k) ==
  /\ at[k] = Detached
  /\ at' = [at EXCEPT ![k] = Len(log)]
  /\ log' = log

Follow(k) ==
  /\ at[k] # Detached
  /\ at[k] < Len(log)
  /\ at' = [at EXCEPT ![k] = @ + 1]
  /\ log' = log

Part(k) ==
  /\ at[k] # Detached
  /\ at' = [at EXCEPT ![k] = Detached]
  /\ log' = log

LogNext ==
  \/ \E request \in Requests : Take(request)
  \/ \E k \in Clients : Join(k) \/ Follow(k) \/ Part(k)

LogSpec == LogInit /\ [][LogNext]_logVars
=============================================================================
