--------------------------- MODULE MCPublication ---------------------------
(***************************************************************************)
(* Two sockets and one other caller on a bus that holds one snapshot.      *)
(***************************************************************************)
EXTENDS Publication

CONSTANTS k1, k2, o1

MCClients == {k1, k2}
MCOthers == {o1}
=============================================================================
