----------------------------- MODULE MCLifecycle -----------------------------
(* A server started each way, signalled twice at most, with one fork; a    *)
(* source of two files of two pieces, changed up to twice each; and two    *)
(* commands in one directory.                                              *)
EXTENDS Lifecycle

Invocation(face, of, type, rel, format, out) ==
    [face |-> face, of |-> of, type |-> type, rel |-> rel, format |-> format, out |-> out]

InvocationsThere == {
    Invocation("render", "meta", "", "", "svg", ""),
    Invocation("render", "cypher", "", "", "svg", ""),
    Invocation("render", "expand", "A/B", "", "svg", ""),
    Invocation("render", "expand", "A_B", "", "svg", ""),
    Invocation("render", "expand", "meta", "", "svg", ""),
    Invocation("render", "expand", "", "", "svg", ""),
    Invocation("render", "expand", "A", "unknown key", "svg", ""),
    Invocation("export", "all", "", "", "csv", ""),
    Invocation("export", "all", "", "", "csv-edges", ""),
    Invocation("export", "cypher", "", "", "csv", "view.csv"),
    Invocation("export", "cypher", "", "", "csv-edges", ""),
    Invocation("export", "cypher", "", "", "json", "")}
=============================================================================
