------------------------------- MODULE Source -------------------------------
(***************************************************************************)
(* Where the graph on screen came from: source_identity.rs and loader.rs.  *)
(* A session is opened from a path that may be an alias, on a disk others  *)
(* write to.  What it names in a bookmark is the file it canonicalised,    *)
(* the identity the engine reads off the file system (GraphFileIdentity,   *)
(* here a stamp that a write advances unless the write preserves it) and,  *)
(* when asked, a hash of the bytes.  A file is two pieces here, so that a  *)
(* read of it can be torn.                                                 *)
(***************************************************************************)
EXTENDS Naturals, FiniteSets, Functions

CONSTANTS Targets,   \* the files an alias may point at
          Contents,  \* what one piece of a file may hold
          Calls,     \* the requests that may ask for a fingerprint at a time
          MaxStamp,  \* bound: how often a file is visibly changed
          None

ASSUME SourceAssumption == /\ MaxStamp \in Nat
                           /\ None \notin Targets \cup (Contents \X Contents)

VARIABLES alias,   \* where the path the user gave points
          disk,    \* target -> [stamp, head, tail]
          source,  \* the SourceIdentity of the session being opened
          calls,   \* the durable_fingerprint calls in flight
          given,   \* ghost: every fingerprint handed out
          named,   \* ghost: the bytes the captured identity stood for
          sly      \* ghost: the bytes changed under an unchanged stamp

sourceVars == <<alias, disk, source, calls, given, named, sly>>

Bytes(f) == <<f.head, f.tail>>
Quiet == [phase |-> "idle", verify |-> FALSE, head |-> None, tail |-> None]
Unopened == [phase |-> "none", path |-> None, stamp |-> 0, kind |-> None,
             head |-> None, tail |-> None, known |-> None]

SourceInit ==
    /\ alias \in Targets
    /\ \E held \in Injection(Targets, Contents) :
           disk = [t \in Targets |-> [stamp |-> 1, head |-> held[t], tail |-> held[t]]]
    /\ source = Unopened /\ calls = [c \in Calls |-> Quiet]
    /\ given = {} /\ named = None /\ sly = FALSE

-----------------------------------------------------------------------------
(* Others: the alias is pointed elsewhere, a piece of a file is rewritten, *)
(* with its identity advancing or, within the file system's resolution,    *)
(* not.  Only what a session is opened from is worth changing.             *)
Watched(t) == source.path = t /\ source.phase # "refused"

Retarget == /\ source.phase \notin {"open", "image", "refused"}
            /\ alias' \in Targets \ {alias}
            /\ UNCHANGED <<disk, source, calls, given, named, sly>>

Rewritten(t, stamp) ==
    \/ \E c \in Contents \ {disk[t].head} :
           disk' = [disk EXCEPT ![t].stamp = stamp, ![t].head = c]
    \/ \E c \in Contents \ {disk[t].tail} :
           disk' = [disk EXCEPT ![t].stamp = stamp, ![t].tail = c]

Rewrite(t) == /\ Watched(t)
              /\ disk[t].stamp < MaxStamp
              /\ Rewritten(t, disk[t].stamp + 1)
              /\ UNCHANGED <<alias, source, calls, given, named, sly>>

RewriteUnseen(t) == /\ Watched(t) /\ ~sly
                    /\ Rewritten(t, disk[t].stamp)
                    /\ sly' = TRUE
                    /\ UNCHANGED <<alias, source, calls, given, named>>

-----------------------------------------------------------------------------
(* load_session_with: capture the identity of the canonical target, load   *)
(* that target, and refuse the result if its identity moved meanwhile.  A  *)
(* file, and a directory with a CURRENT, can be named durably.             *)
Unchanged == disk[source.path].stamp = source.stamp
\* Seeded fault: the engine is given the path as the user wrote it.
LoadedFrom_Alias == alias
LoadedFrom == source.path

CaptureIdentity ==
    /\ source.phase = "none"
    /\ \E kind \in {"durable", None} :
           source' = [source EXCEPT !.phase = "captured", !.path = alias,
                                    !.stamp = disk[alias].stamp, !.kind = kind]
    /\ named' = Bytes(disk[alias])
    /\ UNCHANGED <<alias, disk, calls, given, sly>>

LoadHead == /\ source.phase = "captured"
            /\ source' = [source EXCEPT !.phase = "half", !.head = disk[LoadedFrom].head]
            /\ UNCHANGED <<alias, disk, calls, given, named, sly>>

LoadTail == /\ source.phase = "half"
            /\ source' = [source EXCEPT !.phase = "loaded", !.tail = disk[LoadedFrom].tail]
            /\ UNCHANGED <<alias, disk, calls, given, named, sly>>

VerifyLoaded ==
    /\ source.phase = "loaded"
    /\ source' = [source EXCEPT !.phase = IF Unchanged THEN "open" ELSE "refused"]
    /\ UNCHANGED <<alias, disk, calls, given, named, sly>>

\* load_graph itself refuses: a ceiling on memory, a newer format, a bad file.
LoadRefused == /\ source.phase \in {"none", "captured", "half"}
               /\ source' = [source EXCEPT !.phase = "refused"]
               /\ UNCHANGED <<alias, disk, calls, given, named, sly>>

\* GraphSource::Bytes: an image in memory has no provenance at all.
LoadBytes == /\ source.phase = "none"
             /\ source' = [source EXCEPT !.phase = "image"]
             /\ UNCHANGED <<alias, disk, calls, given, named, sly>>

Opened == source.phase \in {"open", "image"}

-----------------------------------------------------------------------------
(* durable_fingerprint, one step per read of the disk or of the recorded   *)
(* fingerprint; a bookmark's capture takes the recorded one (verify_bytes  *)
(* FALSE), a restore hashes again.  The hash may be refused at any read,   *)
(* by its deadline or by a CURRENT file above 4096 bytes.                  *)
Call(c, new) == calls' = [calls EXCEPT ![c] = new]
Refuse(c) == Call(c, Quiet) /\ UNCHANGED <<source, given>>

AskFingerprint(c, verify) ==
    /\ source.phase = "open" /\ source.kind # None
    /\ calls[c] = Quiet
    /\ Unchanged
    /\ Call(c, [Quiet EXCEPT !.phase = "asked", !.verify = verify])
    /\ UNCHANGED <<alias, disk, source, given, named, sly>>

TakeRecorded(c) ==
    /\ calls[c].phase = "asked"
    /\ IF ~calls[c].verify /\ source.known # None
       THEN Call(c, Quiet) /\ given' = given \cup {source.known}
       ELSE Call(c, [calls[c] EXCEPT !.phase = "head"]) /\ given' = given
    /\ UNCHANGED <<alias, disk, source, named, sly>>

HashHead(c) ==
    /\ calls[c].phase = "head"
    /\ \/ Call(c, [calls[c] EXCEPT !.phase = "tail", !.head = disk[source.path].head])
          /\ UNCHANGED <<source, given>>
       \/ Refuse(c)
    /\ UNCHANGED <<alias, disk, named, sly>>

HashTail(c) ==
    /\ calls[c].phase = "tail"
    /\ \/ Call(c, [calls[c] EXCEPT !.phase = "verify", !.tail = disk[source.path].tail])
          /\ UNCHANGED <<source, given>>
       \/ Refuse(c)
    /\ UNCHANGED <<alias, disk, named, sly>>

\* Seeded fault: the identity is checked before the hash and not after it.
VerifyHash_Before(c) ==
    /\ calls[c].phase = "verify"
    /\ Call(c, [calls[c] EXCEPT !.phase = "record"])
    /\ UNCHANGED <<source, given, alias, disk, named, sly>>

VerifyHash(c) ==
    /\ calls[c].phase = "verify"
    /\ IF Unchanged
       THEN Call(c, [calls[c] EXCEPT !.phase = "record"]) /\ UNCHANGED <<source, given>>
       ELSE Refuse(c)
    /\ UNCHANGED <<alias, disk, named, sly>>

\* Seeded fault: whatever was hashed last is the fingerprint.
Agrees_Always(hash) == TRUE
\* Compared and recorded under one lock; a hash that differs is refused.
Agrees(hash) == source.known \in {None, hash}

RecordFingerprint(c) ==
    /\ calls[c].phase = "record"
    /\ LET hash == <<calls[c].head, calls[c].tail>>
       IN IF Agrees(hash)
          THEN /\ source' = [source EXCEPT !.known = hash]
               /\ given' = given \cup {hash}
               /\ Call(c, Quiet)
          ELSE Refuse(c)
    /\ UNCHANGED <<alias, disk, named, sly>>

Others == Retarget \/ \E t \in Targets : Rewrite(t) \/ RewriteUnseen(t)
Loading == \/ CaptureIdentity \/ LoadHead \/ LoadTail \/ VerifyLoaded
           \/ LoadRefused \/ LoadBytes
Fingerprinting ==
    \E c \in Calls :
        \/ \E verify \in BOOLEAN : AskFingerprint(c, verify)
        \/ TakeRecorded(c) \/ HashHead(c) \/ HashTail(c)
        \/ VerifyHash(c) \/ RecordFingerprint(c)

-----------------------------------------------------------------------------
(* The graph that is served is the one whose identity was captured, every  *)
(* fingerprint given out is the same one, and it is the hash of the bytes  *)
(* that are served: whatever is written to the disk or to the alias while  *)
(* the graph is read or hashed, unless the bytes changed under an          *)
(* unchanged identity, which only the agreement survives.                  *)
ServesWhatItNamed ==
    /\ source.phase = "open" /\ ~sly => <<source.head, source.tail>> = named
    /\ Cardinality(given) <= 1
    /\ ~sly => given \subseteq {named}
=============================================================================
