--------------------------- MODULE MCViewCatalog ---------------------------
(* Two viewers on one catalog, two names for one place. *)
EXTENDS ViewCatalog
=============================================================================
