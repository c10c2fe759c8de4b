---------------------------- MODULE MCStateLock ----------------------------
(***************************************************************************)
(* A picture of the live view, two requests of its viewers, a saved view   *)
(* and a socket that attaches.                                             *)
(***************************************************************************)
EXTENDS StateLock

CONSTANTS picture, change, look, saving, socket

MCCallers == {picture, change, look, saving, socket}
MCCalls ==
  [c \in MCCallers |->
     CASE c = picture -> "live picture"
       [] c = change -> "shared request"
       [] c = look -> "private read"
       [] c = saving -> "saved marker"
       [] c = socket -> "attach"]
=============================================================================
