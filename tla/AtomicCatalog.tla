--------------------------- MODULE AtomicCatalog ---------------------------
(***************************************************************************)
(* What the saved-view catalog promises everyone who shares it: requests   *)
(* change it one name at a time, within its quota, and only if it can be   *)
(* read; a power loss gives back what it holds or what it held since it    *)
(* was last settled, never part of either.                                 *)
(***************************************************************************)
EXTENDS Naturals, FiniteSets

CONSTANTS
  Names,        \* names of saved views
  Payloads,     \* what requests save
  Strange,      \* payloads of another build, which this one cannot validate
  Absent,       \* the name holds nothing
  Unreadable,   \* a catalog that does not parse, or of another version
  MaxViews      \* quota

VARIABLES
  catalog,    \* what each name holds, or Unreadable
  mayReturn   \* older catalogs a power loss can bring back

Held(c) == {n \in Names : c[n] # Absent}

Catalogs == {c \in [Names -> Payloads \cup Strange \cup {Absent}] :
               Cardinality(Held(c)) <= MaxViews}

Empty == [n \in Names |-> Absent]

-----------------------------------------------------------------------------
Init == catalog \in Catalogs \cup {Unreadable} /\ mayReturn = {}

\* A save of a name, or a deletion.  A payload of another build can be deleted.
Change(n, p) ==
  /\ catalog # Unreadable
  /\ catalog[n] \in Strange => p = Absent
  /\ catalog' = [catalog EXCEPT ![n] = p]
  /\ catalog' \in Catalogs
  /\ mayReturn' = mayReturn \cup {catalog}

Settle ==
  /\ mayReturn' = {}
  /\ UNCHANGED catalog

PowerLoss ==
  /\ catalog' \in mayReturn \cup {catalog}
  /\ mayReturn' = {}

Next ==
  \/ \E n \in Names, p \in Payloads \cup {Absent} : Change(n, p)
  \/ Settle
  \/ PowerLoss

Spec == Init /\ [][Next]_<<catalog, mayReturn>>
=============================================================================
