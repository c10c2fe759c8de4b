------------------------------ MODULE Commands ------------------------------
(***************************************************************************)
(* The commands that draw or dump a graph and exit: render_cmd.rs and      *)
(* export_cmd.rs.  A command parses its source, loads, draws, writes its   *)
(* file in place and then prints one line that names it.  Several run in   *)
(* one directory, under names they derive from what they were asked for.   *)
(***************************************************************************)
EXTENDS Naturals, Sequences

CONSTANTS Commands,    \* the commands run in one directory
          Invocations  \* the invocations: [face, of, type, rel, format, out]

VARIABLES command,   \* command -> [phase, args], what each is doing
          folder     \* file name -> who has filled it since it was emptied

commandVars == <<command, folder>>

CommandsInit == command = [c \in Commands |-> [phase |-> "new", args |-> <<>>]]
                /\ folder = <<>>

(* parse_source: a query wins over an expansion, nothing means the         *)
(* meta-graph; an expansion needs a type and knows three keys.             *)
ParseSource(args) ==
    CASE args.of = "cypher" -> [ok |-> TRUE, source |-> <<"cypher">>]
      [] args.of = "expand" ->
            [ok |-> args.type # "" /\ args.rel # "unknown key",
             source |-> <<"expand", args.type, args.rel>>]
      [] OTHER -> [ok |-> TRUE, source |-> <<args.of>>]

(* default_out_path of both commands: the graph's stem, what was asked     *)
(* for, and the extension of the format.  sanitize maps every character    *)
(* that is not plain to an underscore.                                     *)
Sanitize(type) == IF type \in {"A/B", "A B"} THEN "A_B" ELSE type
Extension(format) == IF format = "csv-edges" THEN "csv" ELSE format

OutPath(args) ==
    IF args.out # "" THEN <<args.out>> ELSE
    CASE args.face = "render" /\ args.of = "expand" ->
            <<"graph-expand", Sanitize(args.type), args.format>>
      [] args.face = "render" /\ args.of # "expand" -> <<"graph", args.of, args.format>>
      [] args.face = "export" /\ args.format = "csv-edges" ->
            <<"graph-edges", Extension(args.format)>>
      [] args.face = "export" /\ args.format # "csv-edges" /\ args.of = "cypher" ->
            <<"graph-query", Extension(args.format)>>
      [] OTHER -> <<"graph", Extension(args.format)>>

At(c, phase) == command[c].phase = phase
Step(c, from, to) == At(c, from) /\ command' = [command EXCEPT ![c].phase = to]
Put(name, file) == folder' = [n \in DOMAIN folder \cup {name} |->
                                 IF n = name THEN file ELSE folder[n]]

Invoke(c) == /\ At(c, "new")
             /\ \E args \in Invocations :
                    command' = [command EXCEPT ![c] =
                        [phase |-> IF ParseSource(args).ok THEN "loading" ELSE "failed",
                         args |-> args]]
             /\ UNCHANGED folder

\* Load and draw; either may refuse, and then nothing is on stdout or on disk.
Draw(c) == (Step(c, "loading", "drawn") \/ Step(c, "loading", "failed")) /\ UNCHANGED folder

(* std::fs::write: the file is emptied, then filled, and may stop in       *)
(* between; two that fill one file without emptying it leave a mixture.    *)
Truncate(c) == /\ Step(c, "drawn", "writing")
               /\ Put(OutPath(command[c].args), {})
Fill(c) == /\ Step(c, "writing", "written")
           /\ LET name == OutPath(command[c].args)
              IN Put(name, folder[name] \cup {c})
WriteFails(c) == (Step(c, "drawn", "failed") \/ Step(c, "writing", "failed"))
                 /\ UNCHANGED folder

\* Seeded fault: the line goes out when the file is opened.
PrintLine_Early(c) == Step(c, "writing", "printed") /\ UNCHANGED folder
PrintLine(c) == Step(c, "written", "printed") /\ UNCHANGED folder

CommandsNext == \E c \in Commands :
    \/ Invoke(c) \/ Draw(c) \/ Truncate(c) \/ Fill(c) \/ WriteFails(c) \/ PrintLine(c)

-----------------------------------------------------------------------------
(* A line on stdout names a file that is on disk, whole, and drawn by the  *)
(* command that printed it, unless another command was asked for the same  *)
(* name; and two pictures of different sources of one graph do not get the *)
(* same name by themselves, unless their types differ only in characters a *)
(* file name cannot hold, or they are two queries or two expansions of one *)
(* type.                                                                   *)
LineNamesItsFile ==
    \A c \in Commands : At(c, "printed") =>
        LET name == OutPath(command[c].args)
        IN /\ name \in DOMAIN folder
           /\ \/ folder[name] = {c}
              \/ \E d \in Commands \ {c} : /\ ~At(d, "new") /\ ~At(d, "loading")
                                         /\ OutPath(command[d].args) = name

OwnNames ==
    \A a, b \in Invocations :
        /\ a.out = "" /\ b.out = "" /\ OutPath(a) = OutPath(b)
        /\ a.face = "render" /\ b.face = "render"
        => /\ a.of = b.of /\ a.format = b.format
           /\ a.of = "expand" => Sanitize(a.type) = Sanitize(b.type)

AnswerIsOnDisk == LineNamesItsFile /\ OwnNames
=============================================================================
