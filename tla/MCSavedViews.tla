---------------------------- MODULE MCSavedViews ----------------------------
(***************************************************************************)
(* Two explorations, two selections, two names, and room for one view.     *)
(***************************************************************************)
EXTENDS SavedViews, TLC

CONSTANTS j1, j2, a, b, x, s

MCJobs == {j1, j2}

MCNames == {a, b}
MCInitial == [work |-> x, selected |-> s]

\* Jobs are alike, and so are names; every property checked with it is a safety one.
MCSymmetry == Permutations(MCJobs) \cup Permutations(MCNames)
=============================================================================
