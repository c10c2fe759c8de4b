-------------------------------- MODULE Filters --------------------------------
(***************************************************************************)
(* A predicate on a property, and the distribution that is shown with it   *)
(* (subset.rs).  A number is an integer of a limited width, or a float,    *)
(* written in halves: a float may lie between two integers or beyond them  *)
(* all, where not every integer is a float.                                *)
(***************************************************************************)
EXTENDS Lists

CONSTANTS
  IntLimit,       \* the first integer that is too large: 2^63
  MaxCategories   \* the values that a distribution counts one by one

ASSUME FilterAssumption == {IntLimit, MaxCategories} \subseteq Nat

Integer(n) == [t |-> "int", n |-> n]
Float(halves) == [t |-> "float", n |-> halves]
Unbounded == [t |-> "none"]

\* numeric
IsNumber(v) == v.t \in {"int", "float"}

\* An integer has its width; a float may be any number of halves.
IsOfWidth(v) ==
  /\ v.t = "int" => v.n \in -IntLimit..IntLimit - 1
  /\ v.t = "float" => v.n \in Int

Sign(n) == CASE n < 0 -> -1 [] n = 0 -> 0 [] n > 0 -> 1
Toward0(halves) == Sign(halves) * ((Sign(halves) * halves) \div 2)

\* Seeded fault: the integer becomes a float first, and above 4 that is an even one.
IntFloat_Rounded(a, halves) == Sign(2 * (IF a > 4 THEN 2 * (a \div 2) ELSE a) - halves)

\* int_float
IntFloat(a, halves) ==
  CASE halves >= 2 * IntLimit -> -1
    [] halves < -2 * IntLimit -> 1
    [] -2 * IntLimit <= halves /\ halves < 2 * IntLimit ->
         IF a # Toward0(halves) THEN Sign(a - Toward0(halves)) ELSE -Sign(halves - 2 * Toward0(halves))

\* compare, of two numbers
Compare(x, y) ==
  CASE x.t = y.t                       -> Sign(x.n - y.n)
    [] x.t = "int" /\ y.t = "float"    -> IntFloat(x.n, y.n)
    [] x.t = "float" /\ y.t = "int"    -> -IntFloat(y.n, x.n)

AtLeast(v, min) == min = Unbounded \/ Compare(v, min) >= 0
AtMost(v, max) == max = Unbounded \/ Compare(v, max) <= 0

\* validate
Admissible(p) ==
  /\ p.kind = "category" => \A v \in p.values : v.t # "list"
  /\ p.kind = "range" => /\ \A b \in {p.min, p.max} : b = Unbounded \/ IsNumber(b)
                         /\ Unbounded \in {p.min, p.max} \/ Compare(p.min, p.max) <= 0

\* node_matches: what a cell without a value is, is for the predicate to say.
CellMatches(cell, p) ==
  \/ cell.state \in p.include
  \/ /\ cell.state = "value"
     /\ \/ p.kind = "category" /\ cell.value \in p.values
        \/ p.kind = "range" /\ IsNumber(cell.value) /\ AtLeast(cell.value, p.min) /\ AtMost(cell.value, p.max)

-----------------------------------------------------------------------------
(* The distribution of the cells a predicate was put to. *)

NothingObserved == [min |-> Unbounded, max |-> Unbounded, null |-> 0, missing |-> 0, unavailable |-> 0,
                    categories |-> <<>>, other |-> 0]

CountOne(out, value) ==
  LET at == {i \in DOMAIN out.categories : out.categories[i].value = value}
  IN  CASE at # {} -> [out EXCEPT !.categories[Min(at)].count = @ + 1]
        [] at = {} /\ Len(out.categories) < MaxCategories ->
             [out EXCEPT !.categories = Append(@, [value |-> value, count |-> 1])]
        [] at = {} /\ Len(out.categories) >= MaxCategories -> [out EXCEPT !.other = @ + 1]

\* observe
Observe(out, cell) ==
  CASE cell.state \in {"null", "missing"} -> [out EXCEPT ![cell.state] = @ + 1]
    [] cell.state \in {"unavailable", "truncated"} -> [out EXCEPT !.unavailable = @ + 1]
    [] cell.state = "value" /\ ~IsNumber(cell.value) -> CountOne(out, cell.value)
    [] cell.state = "value" /\ IsNumber(cell.value) ->
         CountOne([out EXCEPT !.min = IF @ = Unbounded \/ Compare(cell.value, @) < 0 THEN cell.value ELSE @,
                              !.max = IF @ = Unbounded \/ Compare(cell.value, @) > 0 THEN cell.value ELSE @],
                  cell.value)

Distribution(cells) == Carried(cells, NothingObserved, Observe)

\* evaluate, of one predicate
Filtered(cells, p) ==
  IF Admissible(p)
  THEN [state |-> "filtered", kept |-> {i \in DOMAIN cells : CellMatches(cells[i], p)}, found |-> Distribution(cells)]
  ELSE [state |-> "refused"]
=============================================================================
