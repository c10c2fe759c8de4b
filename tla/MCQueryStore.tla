---------------------------- MODULE MCQueryStore ----------------------------
(* Three callers of two sessions, in two processes or in one. *)
EXTENDS QueryStore

CONSTANTS c1, c2, c3, s1, s2, p1, p2

MCStoreOf == c1 :> s1 @@ c2 :> s1 @@ c3 :> s2
Apart == s1 :> p1 @@ s2 :> p2
Together == s1 :> p1 @@ s2 :> p1
=============================================================================
