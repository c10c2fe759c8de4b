-------------------------- MODULE Lifecycle_proofs --------------------------
(***************************************************************************)
(* The safety of Lifecycle and of the two modules it composes, for any     *)
(* files, contents, fingerprint requests, commands and invocations.        *)
(*                                                                         *)
(* SourceIInv follows a read of the file through its pieces: as long as    *)
(* the file's identity is the captured one, what was read so far is what   *)
(* the identity stood for, and a write that advances the identity leaves   *)
(* it different for good.  CommandsIInv follows a command that writes: its *)
(* file is empty, or a rival has been asked for the same name.  LifeIInv   *)
(* says in which phases a server may hold its port, and what has been      *)
(* asked of it.                                                            *)
(***************************************************************************)
EXTENDS Lifecycle, FiniteSetTheorems, TLAPS

-----------------------------------------------------------------------------
(* The source. *)

Pieces == Contents \cup {None}

SourceTyped ==
  /\ alias \in Targets
  /\ disk \in [Targets -> [stamp : Nat, head : Contents, tail : Contents]]
  /\ source \in [phase : {"none", "captured", "half", "loaded", "open", "refused", "image"},
                 path : Targets \cup {None}, stamp : Nat, kind : {"durable", None},
                 head : Pieces, tail : Pieces, known : (Contents \X Contents) \cup {None}]
  /\ calls \in [Calls -> [phase : {"idle", "asked", "head", "tail", "verify", "record"},
                          verify : BOOLEAN, head : Pieces, tail : Pieces]]
  /\ sly \in BOOLEAN

\* The identity has been captured, and is not yet found to be another.
Captured == source.phase \in {"captured", "half", "loaded", "open"}

CapturedHonest ==
  Captured => /\ source.path \in Targets
              /\ named \in Contents \X Contents
              /\ source.stamp <= disk[source.path].stamp
              /\ ~sly /\ Unchanged => Bytes(disk[source.path]) = named

LoadedHonest ==
  ~sly => /\ source.phase = "half" /\ Unchanged => source.head = named[1]
          /\ source.phase = "loaded" /\ Unchanged => <<source.head, source.tail>> = named
          /\ source.phase = "open" => <<source.head, source.tail>> = named

CallHonest(c) ==
  /\ calls[c].phase # "idle" => source.phase = "open"
  /\ calls[c].phase \in {"tail", "verify", "record"} => calls[c].head \in Contents
  /\ calls[c].phase \in {"verify", "record"} => calls[c].tail \in Contents
  /\ ~sly => /\ calls[c].phase = "tail" /\ Unchanged => calls[c].head = named[1]
             /\ calls[c].phase = "verify" /\ Unchanged
                  => <<calls[c].head, calls[c].tail>> = named
             /\ calls[c].phase = "record" => <<calls[c].head, calls[c].tail>> = named

GivenHonest ==
  /\ source.phase # "open" => source.known = None
  /\ source.known = None => given = {}
  /\ given \subseteq {source.known}
  /\ ~sly /\ source.known # None => source.known = named

SourceIInv ==
  /\ SourceTyped
  /\ CapturedHonest
  /\ LoadedHonest
  /\ \A c \in Calls : CallHonest(c)
  /\ GivenHonest

LEMMA SourceInitIInv == SourceInit => SourceIInv
<1> SUFFICES ASSUME SourceInit PROVE SourceIInv
  OBVIOUS
<1> USE DEF SourceInit, Unopened, Quiet
<1>1. PICK held \in [Targets -> Contents] :
         disk = [t \in Targets |-> [stamp |-> 1, head |-> held[t], tail |-> held[t]]]
  BY DEF Injection
<1>2. SourceTyped
  BY <1>1 DEF SourceTyped, Pieces
<1>3. CapturedHonest /\ LoadedHonest /\ GivenHonest
  BY DEF CapturedHonest, LoadedHonest, GivenHonest, Captured
<1>4. \A c \in Calls : CallHonest(c)
  BY DEF CallHonest
<1> QED
  BY <1>2, <1>3, <1>4 DEF SourceIInv

-----------------------------------------------------------------------------
(* A write to the file under the alias: it advances the identity, or the   *)
(* ghost says that it did not.                                             *)

LEMMA RewrittenKeepsType ==
  ASSUME SourceTyped, NEW t \in Targets, NEW stamp \in Nat, Rewritten(t, stamp)
  PROVE  /\ disk' \in [Targets -> [stamp : Nat, head : Contents, tail : Contents]]
         /\ disk'[t].stamp = stamp
         /\ \A u \in Targets \ {t} : disk'[u] = disk[u]
BY DEF SourceTyped, Rewritten

LEMMA RewriteKeepsSource ==
  ASSUME SourceIInv, NEW t \in Targets, Rewrite(t)
  PROVE  SourceIInv'
<1> USE DEF SourceIInv
<1>1. /\ source.path = t /\ disk[t].stamp \in Nat /\ Rewritten(t, disk[t].stamp + 1)
      /\ alias' = alias /\ source' = source /\ calls' = calls /\ given' = given
      /\ named' = named /\ sly' = sly
  BY DEF Rewrite, Watched, SourceTyped
<1>2. /\ disk' \in [Targets -> [stamp : Nat, head : Contents, tail : Contents]]
      /\ disk'[t].stamp = disk[t].stamp + 1
  BY <1>1, RewrittenKeepsType
<1>3. SourceTyped'
  BY <1>1, <1>2 DEF SourceTyped
<1>4. source.stamp \in Nat
  BY DEF SourceTyped
<1>5. Captured => ~Unchanged' /\ source.stamp <= disk'[t].stamp
  BY <1>1, <1>2, <1>4 DEF CapturedHonest, Unchanged
<1>6. CapturedHonest' /\ LoadedHonest'
  BY <1>1, <1>5 DEF CapturedHonest, LoadedHonest, Captured
<1>7. \A c \in Calls : CallHonest(c)'
  BY <1>1, <1>5 DEF CallHonest, Captured
<1>8. GivenHonest'
  BY <1>1 DEF GivenHonest
<1> QED
  BY <1>3, <1>6, <1>7, <1>8

LEMMA RewriteUnseenKeepsSource ==
  ASSUME SourceIInv, NEW t \in Targets, RewriteUnseen(t)
  PROVE  SourceIInv'
<1> USE DEF SourceIInv
<1>1. /\ source.path = t /\ disk[t].stamp \in Nat /\ Rewritten(t, disk[t].stamp)
      /\ alias' = alias /\ source' = source /\ calls' = calls /\ given' = given
      /\ named' = named /\ sly' = TRUE
  BY DEF RewriteUnseen, Watched, SourceTyped
<1>2. /\ disk' \in [Targets -> [stamp : Nat, head : Contents, tail : Contents]]
      /\ disk'[t].stamp = disk[t].stamp
  BY <1>1, RewrittenKeepsType
<1>3. SourceTyped'
  BY <1>1, <1>2 DEF SourceTyped
<1>4. CapturedHonest'
  BY <1>1, <1>2 DEF CapturedHonest, Captured
<1>5. LoadedHonest' /\ GivenHonest'
  BY <1>1 DEF LoadedHonest, GivenHonest
<1>6. \A c \in Calls : CallHonest(c)'
  BY <1>1 DEF CallHonest
<1> QED
  BY <1>3, <1>4, <1>5, <1>6

LEMMA OthersKeepSource ==
  ASSUME SourceIInv, Others
  PROVE  SourceIInv'
<1>1. CASE Retarget
  <2>1. /\ alias' \in Targets /\ disk' = disk /\ source' = source /\ calls' = calls
        /\ given' = given /\ named' = named /\ sly' = sly
    BY <1>1 DEF Retarget
  <2>2. SourceTyped'
    BY <2>1 DEF SourceIInv, SourceTyped
  <2> QED
    BY <2>1, <2>2 DEF SourceIInv, CapturedHonest, LoadedHonest, GivenHonest, CallHonest,
                      Captured, Unchanged
<1>2. CASE \E t \in Targets : Rewrite(t) \/ RewriteUnseen(t)
  BY <1>2, RewriteKeepsSource, RewriteUnseenKeepsSource
<1> QED
  BY <1>1, <1>2 DEF Others

-----------------------------------------------------------------------------
(* Opening a session. *)

LEMMA LoadingKeepsSource ==
  ASSUME SourceIInv, Loading
  PROVE  SourceIInv'
<1> USE DEF SourceIInv
<1>1. /\ alias' = alias /\ disk' = disk /\ calls' = calls /\ given' = given /\ sly' = sly
  BY DEF Loading, CaptureIdentity, LoadHead, LoadTail, VerifyLoaded, LoadRefused, LoadBytes
<1>2. source.phase # "open" => \A c \in Calls : calls[c].phase = "idle"
  BY DEF CallHonest
<1>3. source.phase # "open"
  BY DEF Loading, CaptureIdentity, LoadHead, LoadTail, VerifyLoaded, LoadRefused, LoadBytes
<1>4. \A c \in Calls : CallHonest(c)'
  BY <1>1, <1>2, <1>3 DEF CallHonest
<1>5. source'.known = source.known
  BY DEF SourceTyped, Loading, CaptureIdentity, LoadHead, LoadTail, VerifyLoaded, LoadRefused,
         LoadBytes
<1>6. GivenHonest'
  BY <1>1, <1>3, <1>5 DEF GivenHonest
<1>7. CASE CaptureIdentity
  <2>1. PICK kind \in {"durable", None} :
          source' = [source EXCEPT !.phase = "captured", !.path = alias,
                                   !.stamp = disk[alias].stamp, !.kind = kind]
    BY <1>7 DEF CaptureIdentity
  <2>2. named' = Bytes(disk[alias])
    BY <1>7 DEF CaptureIdentity
  <2>3. disk[alias] \in [stamp : Nat, head : Contents, tail : Contents] /\ alias \in Targets
    BY DEF SourceTyped
  <2>4. SourceTyped'
    BY <1>1, <2>1, <2>3 DEF SourceTyped
  <2>5. /\ source'.phase = "captured" /\ source'.path = alias
        /\ source'.stamp = disk[alias].stamp
    BY <2>1 DEF SourceTyped
  <2>6. CapturedHonest'
    BY <1>1, <2>2, <2>3, <2>5 DEF CapturedHonest, Bytes
  <2>7. LoadedHonest'
    BY <2>5 DEF LoadedHonest
  <2> QED
    BY <1>4, <1>6, <2>4, <2>6, <2>7
<1>8. CASE LoadHead
  <2>1. /\ source.phase = "captured" /\ named' = named
        /\ source' = [source EXCEPT !.phase = "half", !.head = disk[source.path].head]
    BY <1>8 DEF LoadHead, LoadedFrom
  <2>2. source.path \in Targets /\ named \in Contents \X Contents
    BY <2>1 DEF CapturedHonest, Captured
  <2>3. disk[source.path].head \in Contents
    BY <2>2 DEF SourceTyped
  <2>4. SourceTyped'
    BY <1>1, <2>1, <2>3 DEF SourceTyped, Pieces
  <2>5. /\ source'.phase = "half" /\ source'.path = source.path /\ source'.stamp = source.stamp
        /\ source'.head = disk[source.path].head
    BY <2>1 DEF SourceTyped
  <2>6. CapturedHonest' /\ LoadedHonest'
    BY <1>1, <2>1, <2>2, <2>5 DEF CapturedHonest, LoadedHonest, Captured, Unchanged, Bytes
  <2> QED
    BY <1>4, <1>6, <2>4, <2>6
<1>9. CASE LoadTail
  <2>1. /\ source.phase = "half" /\ named' = named
        /\ source' = [source EXCEPT !.phase = "loaded", !.tail = disk[source.path].tail]
    BY <1>9 DEF LoadTail, LoadedFrom
  <2>2. source.path \in Targets /\ named \in Contents \X Contents
    BY <2>1 DEF CapturedHonest, Captured
  <2>3. disk[source.path].tail \in Contents
    BY <2>2 DEF SourceTyped
  <2>4. SourceTyped'
    BY <1>1, <2>1, <2>3 DEF SourceTyped, Pieces
  <2>5. /\ source'.phase = "loaded" /\ source'.path = source.path /\ source'.stamp = source.stamp
        /\ source'.head = source.head /\ source'.tail = disk[source.path].tail
    BY <2>1 DEF SourceTyped
  <2>6. CapturedHonest' /\ LoadedHonest'
    BY <1>1, <2>1, <2>2, <2>5 DEF CapturedHonest, LoadedHonest, Captured, Unchanged, Bytes
  <2> QED
    BY <1>4, <1>6, <2>4, <2>6
<1>10. CASE VerifyLoaded
  <2>1. /\ source.phase = "loaded" /\ named' = named
        /\ source' = [source EXCEPT !.phase = IF Unchanged THEN "open" ELSE "refused"]
    BY <1>10 DEF VerifyLoaded
  <2>2. SourceTyped'
    BY <1>1, <2>1 DEF SourceTyped
  <2>3. /\ source'.phase = IF Unchanged THEN "open" ELSE "refused"
        /\ source'.path = source.path /\ source'.stamp = source.stamp
        /\ source'.head = source.head /\ source'.tail = source.tail
    BY <2>1 DEF SourceTyped
  <2>4. CapturedHonest' /\ LoadedHonest'
    BY <1>1, <2>1, <2>3 DEF CapturedHonest, LoadedHonest, Captured, Unchanged, Bytes
  <2> QED
    BY <1>4, <1>6, <2>2, <2>4
<1>11. CASE LoadRefused \/ LoadBytes
  <2>1. /\ named' = named
        /\ \E phase \in {"refused", "image"} : source' = [source EXCEPT !.phase = phase]
    BY <1>11 DEF LoadRefused, LoadBytes
  <2>2. SourceTyped' /\ source'.phase \in {"refused", "image"}
    BY <1>1, <2>1 DEF SourceTyped
  <2>3. CapturedHonest' /\ LoadedHonest'
    BY <2>2 DEF CapturedHonest, LoadedHonest, Captured
  <2> QED
    BY <1>4, <1>6, <2>2, <2>3
<1> QED
  BY <1>7, <1>8, <1>9, <1>10, <1>11 DEF Loading

-----------------------------------------------------------------------------
(* Fingerprints.  A call changes itself and at most what was recorded.     *)

CallType == [phase : {"idle", "asked", "head", "tail", "verify", "record"},
             verify : BOOLEAN, head : Pieces, tail : Pieces]

\* CallHonest, of a call that would stand as new.
Honest(new) ==
  /\ new.phase # "idle" => source.phase = "open"
  /\ new.phase \in {"tail", "verify", "record"} => new.head \in Contents
  /\ new.phase \in {"verify", "record"} => new.tail \in Contents
  /\ ~sly => /\ new.phase = "tail" /\ Unchanged => new.head = named[1]
             /\ new.phase = "verify" /\ Unchanged => <<new.head, new.tail>> = named
             /\ new.phase = "record" => <<new.head, new.tail>> = named

LEMMA CallKeepsSource ==
  ASSUME SourceIInv, NEW c \in Calls, NEW new \in CallType, Honest(new), Call(c, new),
         UNCHANGED <<alias, disk, source, named, sly>>, GivenHonest'
  PROVE  SourceIInv'
<1> USE DEF SourceIInv
<1>1. calls' = [calls EXCEPT ![c] = new]
  BY DEF Call
<1>2. SourceTyped'
  BY <1>1 DEF SourceTyped, CallType
<1>3. CapturedHonest' /\ LoadedHonest'
  BY DEF CapturedHonest, LoadedHonest, Captured, Unchanged
<1>4. \A d \in Calls : CallHonest(d)'
  <2> TAKE d \in Calls
  <2>1. calls'[d] = IF d = c THEN new ELSE calls[d]
    BY <1>1 DEF SourceTyped
  <2>2. CallHonest(d)
    OBVIOUS
  <2> QED
    BY <2>1, <2>2 DEF CallHonest, Honest, Unchanged
<1> QED
  BY <1>2, <1>3, <1>4

LEMMA QuietIsHonest == Quiet \in CallType /\ Honest(Quiet) /\ Quiet.phase = "idle"
BY DEF Quiet, CallType, Honest, Pieces

LEMMA RefuseKeepsSource ==
  ASSUME SourceIInv, NEW c \in Calls, Refuse(c), UNCHANGED <<alias, disk, named, sly>>
  PROVE  SourceIInv'
<1>1. Call(c, Quiet) /\ source' = source /\ given' = given
  BY DEF Refuse
<1>2. GivenHonest'
  BY <1>1 DEF SourceIInv, GivenHonest
<1> QED
  BY <1>1, <1>2, QuietIsHonest, CallKeepsSource

LEMMA CallFacts ==
  ASSUME SourceIInv, NEW c \in Calls, calls[c].phase # "idle"
  PROVE  /\ calls[c] \in CallType /\ Honest(calls[c])
         /\ source.phase = "open" /\ source.path \in Targets
         /\ disk[source.path].head \in Contents /\ disk[source.path].tail \in Contents
         /\ ~sly /\ Unchanged =>
              named = <<disk[source.path].head, disk[source.path].tail>>
<1>1. calls[c] \in CallType
  BY DEF SourceIInv, SourceTyped, CallType
<1>2. Honest(calls[c])
  BY DEF SourceIInv, CallHonest, Honest
<1>3. source.phase = "open"
  BY <1>2 DEF Honest
<1>4. source.path \in Targets /\ (~sly /\ Unchanged => Bytes(disk[source.path]) = named)
  BY <1>3 DEF SourceIInv, CapturedHonest, Captured
<1>5. disk[source.path].head \in Contents /\ disk[source.path].tail \in Contents
  BY <1>4 DEF SourceIInv, SourceTyped
<1> QED
  BY <1>1, <1>2, <1>3, <1>4, <1>5 DEF Bytes

LEMMA FingerprintingKeepsSource ==
  ASSUME SourceIInv, Fingerprinting
  PROVE  SourceIInv'
<1> PICK c \in Calls : \/ \E verify \in BOOLEAN : AskFingerprint(c, verify)
                       \/ TakeRecorded(c) \/ HashHead(c) \/ HashTail(c)
                       \/ VerifyHash(c) \/ RecordFingerprint(c)
  BY DEF Fingerprinting
<1>0. calls[c] \in [phase : {"idle", "asked", "head", "tail", "verify", "record"},
                    verify : BOOLEAN, head : Pieces, tail : Pieces]
  BY DEF SourceIInv, SourceTyped
<1>1. ASSUME NEW verify \in BOOLEAN, AskFingerprint(c, verify) PROVE SourceIInv'
  <2> DEFINE new == [Quiet EXCEPT !.phase = "asked", !.verify = verify]
  <2>1. /\ source.phase = "open" /\ Call(c, new) /\ given' = given
        /\ UNCHANGED <<alias, disk, source, named, sly>>
    BY <1>1 DEF AskFingerprint
  <2>2. new \in CallType /\ new.phase = "asked"
    BY DEF Quiet, CallType, Pieces
  <2>3. Honest(new)
    BY <2>1, <2>2 DEF Honest
  <2>4. GivenHonest'
    BY <2>1 DEF SourceIInv, GivenHonest
  <2> HIDE DEF new
  <2> QED
    BY <2>1, <2>2, <2>3, <2>4, CallKeepsSource
<1>2. CASE TakeRecorded(c)
  <2> DEFINE new == [calls[c] EXCEPT !.phase = "head"]
  <2>1. calls[c].phase = "asked" /\ UNCHANGED <<alias, disk, source, named, sly>>
    BY <1>2 DEF TakeRecorded
  <2>2. new \in CallType /\ Honest(new)
    <3>1. source.phase = "open"
      BY <2>1, CallFacts
    <3>2. new \in CallType /\ new.phase = "head"
      BY <1>0 DEF CallType
    <3> QED
      BY <3>1, <3>2 DEF Honest
  <2>3. CASE ~calls[c].verify /\ source.known # None
    <3>1. Call(c, Quiet) /\ given' = given \cup {source.known}
      BY <1>2, <2>3 DEF TakeRecorded
    <3>2. GivenHonest'
      BY <2>1, <2>3, <3>1 DEF SourceIInv, GivenHonest
    <3> QED
      BY <2>1, <3>1, <3>2, QuietIsHonest, CallKeepsSource
  <2>4. CASE ~(~calls[c].verify /\ source.known # None)
    <3>1. Call(c, new) /\ given' = given
      BY <1>2, <2>4 DEF TakeRecorded
    <3>2. GivenHonest'
      BY <2>1, <3>1 DEF SourceIInv, GivenHonest
    <3> HIDE DEF new
    <3> QED
      BY <2>1, <2>2, <3>1, <3>2, CallKeepsSource
  <2> QED
    BY <2>3, <2>4
<1>3. CASE HashHead(c)
  <2> DEFINE new == [calls[c] EXCEPT !.phase = "tail", !.head = disk[source.path].head]
  <2>1. calls[c].phase = "head" /\ UNCHANGED <<alias, disk, named, sly>>
    BY <1>3 DEF HashHead
  <2>2. CASE Refuse(c)
    BY <2>1, <2>2, RefuseKeepsSource
  <2>3. CASE Call(c, new) /\ UNCHANGED <<source, given>>
    <3>1. /\ source.phase = "open" /\ disk[source.path].head \in Contents
          /\ ~sly /\ Unchanged => named = <<disk[source.path].head, disk[source.path].tail>>
      BY <2>1, CallFacts
    <3>2. /\ new \in CallType /\ new.phase = "tail" /\ new.head = disk[source.path].head
      BY <1>0, <3>1 DEF CallType, Pieces
    <3>3. Honest(new)
      BY <3>1, <3>2 DEF Honest
    <3>4. GivenHonest'
      BY <2>1, <2>3 DEF SourceIInv, GivenHonest
    <3> HIDE DEF new
    <3> QED
      BY <2>1, <2>3, <3>2, <3>3, <3>4, CallKeepsSource
  <2> QED
    BY <1>3, <2>2, <2>3 DEF HashHead
<1>4. CASE HashTail(c)
  <2> DEFINE new == [calls[c] EXCEPT !.phase = "verify", !.tail = disk[source.path].tail]
  <2>1. calls[c].phase = "tail" /\ UNCHANGED <<alias, disk, named, sly>>
    BY <1>4 DEF HashTail
  <2>2. CASE Refuse(c)
    BY <2>1, <2>2, RefuseKeepsSource
  <2>3. CASE Call(c, new) /\ UNCHANGED <<source, given>>
    <3>1. /\ source.phase = "open" /\ disk[source.path].tail \in Contents
          /\ Honest(calls[c])
          /\ ~sly /\ Unchanged => named = <<disk[source.path].head, disk[source.path].tail>>
      BY <2>1, CallFacts
    <3>2. /\ new \in CallType /\ new.phase = "verify" /\ new.tail = disk[source.path].tail
          /\ new.head = calls[c].head
      BY <1>0, <3>1 DEF CallType, Pieces
    <3>3. Honest(new)
      BY <2>1, <3>1, <3>2 DEF Honest
    <3>4. GivenHonest'
      BY <2>1, <2>3 DEF SourceIInv, GivenHonest
    <3> HIDE DEF new
    <3> QED
      BY <2>1, <2>3, <3>2, <3>3, <3>4, CallKeepsSource
  <2> QED
    BY <1>4, <2>2, <2>3 DEF HashTail
<1>5. CASE VerifyHash(c)
  <2> DEFINE new == [calls[c] EXCEPT !.phase = "record"]
  <2>1. calls[c].phase = "verify" /\ UNCHANGED <<alias, disk, named, sly>>
    BY <1>5 DEF VerifyHash
  <2>2. CASE Refuse(c)
    BY <2>1, <2>2, RefuseKeepsSource
  <2>3. CASE Unchanged /\ Call(c, new) /\ UNCHANGED <<source, given>>
    <3>1. source.phase = "open" /\ Honest(calls[c])
      BY <2>1, CallFacts
    <3>2. /\ new \in CallType /\ new.phase = "record" /\ new.tail = calls[c].tail
          /\ new.head = calls[c].head
      BY <1>0 DEF CallType
    <3>3. Honest(new)
      BY <2>1, <2>3, <3>1, <3>2 DEF Honest
    <3>4. GivenHonest'
      BY <2>1, <2>3 DEF SourceIInv, GivenHonest
    <3> HIDE DEF new
    <3> QED
      BY <2>1, <2>3, <3>2, <3>3, <3>4, CallKeepsSource
  <2> QED
    BY <1>5, <2>2, <2>3 DEF VerifyHash
<1>6. CASE RecordFingerprint(c)
  <2> DEFINE hash == <<calls[c].head, calls[c].tail>>
  <2>1. calls[c].phase = "record" /\ UNCHANGED <<alias, disk, named, sly>>
    BY <1>6 DEF RecordFingerprint
  <2>2. CASE Refuse(c)
    BY <2>1, <2>2, RefuseKeepsSource
  <2>3. CASE /\ Agrees(hash) /\ source' = [source EXCEPT !.known = hash]
             /\ given' = given \cup {hash} /\ Call(c, Quiet)
    <3>1. /\ source.phase = "open" /\ hash \in Contents \X Contents /\ (~sly => hash = named)
      BY <2>1, CallFacts DEF Honest
    <3>2. calls' = [calls EXCEPT ![c] = Quiet] /\ Quiet \in CallType /\ Quiet.phase = "idle"
      BY <2>3, QuietIsHonest DEF Call
    <3>3. /\ source'.known = hash /\ source'.phase = source.phase /\ source'.path = source.path
          /\ source'.stamp = source.stamp /\ source'.head = source.head
          /\ source'.tail = source.tail
      BY <2>3 DEF SourceIInv, SourceTyped
    <3>4. SourceTyped'
      BY <2>1, <2>3, <3>1, <3>2 DEF SourceIInv, SourceTyped, CallType
    <3>5. CapturedHonest' /\ LoadedHonest'
      BY <2>1, <3>3 DEF SourceIInv, CapturedHonest, LoadedHonest, Captured, Unchanged
    <3>6. \A d \in Calls : CallHonest(d)'
      <4> TAKE d \in Calls
      <4>1. calls'[d] = IF d = c THEN Quiet ELSE calls[d]
        BY <3>2 DEF SourceIInv, SourceTyped
      <4>2. CallHonest(d)
        BY DEF SourceIInv
      <4> QED
        BY <2>1, <3>2, <3>3, <4>1, <4>2 DEF CallHonest, Unchanged
    <3>7. GivenHonest'
      <4>1. hash # None
        BY <3>1, SourceAssumption
      <4>2. given' = {hash}
        BY <2>3 DEF Agrees, SourceIInv, GivenHonest
      <4> QED
        BY <2>1, <3>1, <3>3, <4>1, <4>2 DEF GivenHonest
    <3> QED
      BY <3>4, <3>5, <3>6, <3>7 DEF SourceIInv
  <2> QED
    BY <1>6, <2>2, <2>3 DEF RecordFingerprint
<1> QED
  BY <1>1, <1>2, <1>3, <1>4, <1>5, <1>6

SourceNext == Others \/ Loading \/ Fingerprinting

LEMMA SourceNextIInv == SourceIInv /\ [SourceNext]_sourceVars => SourceIInv'
<1>1. ASSUME SourceIInv, UNCHANGED sourceVars PROVE SourceIInv'
  BY <1>1 DEF sourceVars, SourceIInv, SourceTyped, CapturedHonest, LoadedHonest, GivenHonest,
              CallHonest, Captured, Unchanged
<1> QED
  BY <1>1, OthersKeepSource, LoadingKeepsSource, FingerprintingKeepsSource DEF SourceNext

LEMMA SourceIInvServes == SourceIInv => ServesWhatItNamed
<1> SUFFICES ASSUME SourceIInv PROVE ServesWhatItNamed
  OBVIOUS
<1>1. source.phase = "open" /\ ~sly => <<source.head, source.tail>> = named
  BY DEF SourceIInv, LoadedHonest
<1>2. given \subseteq {source.known}
  BY DEF SourceIInv, GivenHonest
<1>3. Cardinality(given) <= 1
  <2>1. IsFiniteSet({source.known}) /\ Cardinality({source.known}) = 1
    BY FS_Singleton
  <2> QED
    BY <1>2, <2>1, FS_Subset
<1>4. ~sly => given \subseteq {named}
  BY <1>2 DEF SourceIInv, GivenHonest
<1> QED
  BY <1>1, <1>3, <1>4 DEF ServesWhatItNamed

-----------------------------------------------------------------------------
(* The commands that draw or dump.                                         *)

CommandPhases == {"new", "loading", "drawn", "writing", "written", "printed", "failed"}

CommandsTyped ==
  command \in [Commands -> [phase : CommandPhases, args : Invocations \cup {<<>>}]]

Name(c) == OutPath(command[c].args)

\* Another command that has got as far as the disk was asked for this name.
Rival(c) == \E d \in Commands \ {c} : ~At(d, "new") /\ ~At(d, "loading") /\ Name(d) = Name(c)

FileHonest(c) ==
  /\ At(c, "writing") => Name(c) \in DOMAIN folder /\ (folder[Name(c)] = {} \/ Rival(c))
  /\ At(c, "written") \/ At(c, "printed") =>
       Name(c) \in DOMAIN folder /\ (folder[Name(c)] = {c} \/ Rival(c))

CommandsIInv ==
  /\ CommandsTyped
  /\ \A c \in Commands : FileHonest(c)

LEMMA CommandsInitIInv == CommandsInit => CommandsIInv
BY DEF CommandsInit, CommandsIInv, CommandsTyped, CommandPhases, FileHonest, At

\* A step of one command leaves the invocations of those that go on alone.
LEMMA StepFacts ==
  ASSUME CommandsTyped, NEW c \in Commands, NEW from \in CommandPhases, NEW to \in CommandPhases,
         Step(c, from, to)
  PROVE  /\ CommandsTyped'
         /\ At(c, from) /\ At(c, to)'
         /\ \A d \in Commands : Name(d)' = Name(d)
         /\ \A d \in Commands \ {c} : \A phase : At(d, phase)' = At(d, phase)
         /\ \A phase : At(c, phase)' = (phase = to)
<1>1. command[c].phase = from /\ command' = [command EXCEPT ![c].phase = to]
  BY DEF Step, At
<1>2. CommandsTyped'
  BY <1>1 DEF CommandsTyped
<1>3. command'[c].phase = to /\ command'[c].args = command[c].args
  BY <1>1 DEF CommandsTyped
<1>4. \A d \in Commands \ {c} : command'[d] = command[d]
  BY <1>1 DEF CommandsTyped
<1>5. \A d \in Commands : command'[d].args = command[d].args
  BY <1>3, <1>4
<1>6. \A d \in Commands : Name(d)' = Name(d)
  BY <1>5 DEF Name
<1>7. \A d \in Commands \ {c} : \A phase : At(d, phase)' = At(d, phase)
  BY <1>4 DEF At
<1>8. \A phase : At(c, phase)' = (phase = to)
  <2> TAKE phase
  <2>1. At(c, phase)' <=> command'[c].phase = phase
    BY DEF At
  <2>2. At(c, phase)' <=> phase = to
    BY <1>3, <2>1
  <2> QED
    BY <2>2 DEF At
<1> QED
  BY <1>1, <1>2, <1>3, <1>6, <1>7, <1>8 DEF At

LEMMA InvokeKeepsCommands ==
  ASSUME CommandsIInv, NEW c \in Commands, Invoke(c)
  PROVE  CommandsIInv'
<1>1. PICK args \in Invocations, phase \in {"loading", "failed"} :
        command' = [command EXCEPT ![c] = [phase |-> phase, args |-> args]]
  <2>1. PICK args \in Invocations :
          command' = [command EXCEPT ![c] =
                        [phase |-> IF ParseSource(args).ok THEN "loading" ELSE "failed",
                         args |-> args]]
    BY DEF Invoke
  <2> QED
    BY <2>1
<1>2. command[c].phase = "new" /\ folder' = folder
  BY DEF Invoke, At
<1>3. CommandsTyped'
  BY <1>1 DEF CommandsIInv, CommandsTyped, CommandPhases
<1>4. command'[c].phase \in {"loading", "failed"} /\ \A d \in Commands \ {c} : command'[d] = command[d]
  BY <1>1 DEF CommandsIInv, CommandsTyped
<1>5. \A d \in Commands : FileHonest(d)'
  <2> TAKE d \in Commands
  <2>1. CASE d = c
    BY <1>4, <2>1 DEF FileHonest, At
  <2>2. CASE d # c
    <3>1. FileHonest(d) /\ command'[d] = command[d]
      BY <1>4, <2>2 DEF CommandsIInv
    <3>2. Rival(d) => Rival(d)'
      BY <1>2, <1>4, <2>2 DEF Rival, At, Name
    <3> QED
      BY <1>2, <3>1, <3>2 DEF FileHonest, At, Name
  <2> QED
    BY <2>1, <2>2
<1> QED
  BY <1>3, <1>5 DEF CommandsIInv

\* Nobody who counts as a rival ceases to be one.
LEMMA RivalsStay ==
  ASSUME CommandsTyped, NEW c \in Commands, NEW from \in CommandPhases \ {"new"},
         NEW to \in CommandPhases \ {"new", "loading"}, Step(c, from, to), NEW d \in Commands, Rival(d)
  PROVE  Rival(d)'
<1>1. PICK e \in Commands \ {d} : ~At(e, "new") /\ ~At(e, "loading") /\ Name(e) = Name(d)
  BY DEF Rival
<1>2. ~At(e, "new")' /\ ~At(e, "loading")'
  <2>1. CASE e = c
    <3>1. \A phase : At(c, phase)' = (phase = to)
      BY StepFacts
    <3> QED
      BY <2>1, <3>1
  <2>2. CASE e # c
    <3>1. \A phase : At(e, phase)' = At(e, phase)
      BY <2>2, StepFacts
    <3> QED
      BY <1>1, <3>1
  <2> QED
    BY <2>1, <2>2
<1>3. Name(e)' = Name(d)'
  BY <1>1, StepFacts
<1> QED
  BY <1>1, <1>2, <1>3 DEF Rival

\* Steps that leave the folder alone.
LEMMA PlainStepKeepsCommands ==
  ASSUME CommandsIInv, NEW c \in Commands, UNCHANGED folder,
         NEW from \in CommandPhases, NEW to \in CommandPhases, Step(c, from, to),
         <<from, to>> \in {<<"loading", "drawn">>, <<"loading", "failed">>, <<"drawn", "failed">>,
                           <<"writing", "failed">>, <<"written", "printed">>}
  PROVE  CommandsIInv'
<1> USE DEF CommandsIInv
<1>1. from # "new" /\ to # "new" /\ to # "loading"
  OBVIOUS
<1>2. CommandsTyped'
  BY StepFacts
<1>3. \A d \in Commands : FileHonest(d)'
  <2> TAKE d \in Commands
  <2>1. FileHonest(d) /\ folder' = folder /\ Name(d)' = Name(d)
    BY StepFacts
  <2>2. Rival(d) => Rival(d)'
    BY <1>1, RivalsStay
  <2>3. CASE d # c
    <3>1. \A phase : At(d, phase)' = At(d, phase)
      BY <2>3, StepFacts
    <3> QED
      BY <2>1, <2>2, <3>1 DEF FileHonest
  <2>4. CASE d = c
    <3>1. At(c, from) /\ \A phase : At(c, phase)' = (phase = to)
      BY StepFacts
    <3>2. ~At(c, "writing")' /\ ~At(c, "written")' /\ (At(c, "printed")' => At(c, "written"))
      BY <3>1
    <3> QED
      BY <2>1, <2>2, <2>4, <3>2 DEF FileHonest
  <2> QED
    BY <2>3, <2>4
<1> QED
  BY <1>2, <1>3

LEMMA PutFacts ==
  ASSUME NEW name, NEW held, Put(name, held)
  PROVE  /\ DOMAIN folder' = DOMAIN folder \cup {name}
         /\ folder'[name] = held
         /\ \A n \in DOMAIN folder : n # name => folder'[n] = folder[n]
BY DEF Put

\* Emptying a file and filling it: whoever has the same name has a rival now.
LEMMA WriteKeepsCommands ==
  ASSUME CommandsIInv, NEW c \in Commands, Truncate(c) \/ Fill(c)
  PROVE  CommandsIInv'
<1> USE DEF CommandsIInv
<1>1. PICK from \in CommandPhases, to \in CommandPhases :
        /\ <<from, to>> \in {<<"drawn", "writing">>, <<"writing", "written">>}
        /\ Step(c, from, to)
        /\ from = "drawn" => Put(Name(c), {})
        /\ from = "writing" => Put(Name(c), folder[Name(c)] \cup {c})
  BY DEF Truncate, Fill, Name, CommandPhases
<1>2. from # "new" /\ to # "new" /\ to # "loading" /\ from # "loading"
  BY <1>1
<1>3. CommandsTyped'
  BY <1>1, StepFacts
<1>4. /\ DOMAIN folder' = DOMAIN folder \cup {Name(c)}
      /\ from = "drawn" => folder'[Name(c)] = {}
      /\ from = "writing" => folder'[Name(c)] = folder[Name(c)] \cup {c}
      /\ \A n \in DOMAIN folder : n # Name(c) => folder'[n] = folder[n]
  BY <1>1, PutFacts
<1>5. \A d \in Commands : FileHonest(d)'
  <2> TAKE d \in Commands
  <2>1. FileHonest(d) /\ Name(d)' = Name(d) /\ Name(c)' = Name(c)
    BY <1>1, StepFacts
  <2>2. Rival(d) => Rival(d)'
    BY <1>1, <1>2, RivalsStay
  <2>3. CASE d # c
    <3>1. \A phase : At(d, phase)' = At(d, phase)
      BY <1>1, <2>3, StepFacts
    <3>2. Name(c) = Name(d) => Rival(d)'
      <4>1. ~At(c, "new")' /\ ~At(c, "loading")'
        BY <1>1, <1>2, StepFacts
      <4> QED
        BY <2>1, <2>3, <4>1 DEF Rival
    <3>3. Name(d) \in DOMAIN folder => Name(d) \in DOMAIN folder'
      BY <1>4
    <3>4. Name(d) \in DOMAIN folder /\ Name(c) # Name(d) => folder'[Name(d)] = folder[Name(d)]
      BY <1>4
    <3> QED
      BY <2>1, <2>2, <3>1, <3>2, <3>3, <3>4 DEF FileHonest
  <2>4. CASE d = c
    <3>1. At(c, from) /\ \A phase : At(c, phase)' = (phase = to)
      BY <1>1, StepFacts
    <3>2. CASE from = "drawn" /\ to = "writing"
      <4>1. ~At(c, "written")' /\ ~At(c, "printed")'
        BY <3>1, <3>2
      <4>2. Name(c) \in DOMAIN folder' /\ folder'[Name(c)] = {}
        BY <1>4, <3>2
      <4> QED
        BY <2>1, <2>4, <4>1, <4>2 DEF FileHonest
    <3>3. CASE from = "writing" /\ to = "written"
      <4>1. ~At(c, "writing")' /\ At(c, "writing")
        BY <3>1, <3>3
      <4>2. folder[Name(c)] = {} \/ Rival(c)
        BY <2>1, <2>4, <4>1 DEF FileHonest
      <4>3. Name(c) \in DOMAIN folder' /\ (folder'[Name(c)] = {c} \/ Rival(c))
        BY <1>4, <3>3, <4>2
      <4> QED
        BY <2>1, <2>2, <2>4, <4>1, <4>3 DEF FileHonest
    <3> QED
      BY <1>1, <3>2, <3>3
  <2> QED
    BY <2>3, <2>4
<1> QED
  BY <1>3, <1>5

LEMMA CommandsNextIInv == CommandsIInv /\ [CommandsNext]_commandVars => CommandsIInv'
<1>1. ASSUME CommandsIInv, UNCHANGED commandVars PROVE CommandsIInv'
  BY <1>1 DEF commandVars, CommandsIInv, CommandsTyped, FileHonest, Rival, At, Name
<1>2. ASSUME CommandsIInv, CommandsNext PROVE CommandsIInv'
  <2>1. PICK c \in Commands : \/ Invoke(c) \/ Draw(c) \/ Truncate(c) \/ Fill(c)
                              \/ WriteFails(c) \/ PrintLine(c)
    BY <1>2 DEF CommandsNext
  <2>2. CASE Invoke(c)
    BY <1>2, <2>2, InvokeKeepsCommands
  <2>3. CASE Truncate(c) \/ Fill(c)
    BY <1>2, <2>3, WriteKeepsCommands
  <2>4. CASE Draw(c) \/ WriteFails(c) \/ PrintLine(c)
    <3>1. PICK from \in CommandPhases, to \in CommandPhases :
            /\ <<from, to>> \in {<<"loading", "drawn">>, <<"loading", "failed">>,
                                 <<"drawn", "failed">>, <<"writing", "failed">>,
                                 <<"written", "printed">>}
            /\ Step(c, from, to) /\ UNCHANGED folder
      BY <2>4 DEF Draw, WriteFails, PrintLine, CommandPhases
    <3> QED
      BY <1>2, <3>1, PlainStepKeepsCommands
  <2> QED
    BY <2>1, <2>2, <2>3, <2>4
<1> QED
  BY <1>1, <1>2

LEMMA CommandsIInvNames == CommandsIInv => LineNamesItsFile
BY DEF CommandsIInv, LineNamesItsFile, FileHonest, Rival, Name

-----------------------------------------------------------------------------
(* Names of their own: nothing but the sources enters them. *)

LEMMA DerivedNames ==
  ASSUME NEW a, a.out = "", a.face = "render"
  PROVE  OutPath(a) = IF a.of = "expand"
                      THEN <<"graph-expand", Sanitize(a.type), a.format>>
                      ELSE <<"graph", a.of, a.format>>
BY DEF OutPath

LEMMA RendersHaveOwnNames == OwnNames
<1> SUFFICES ASSUME NEW a \in Invocations, NEW b \in Invocations,
                    a.out = "", b.out = "", OutPath(a) = OutPath(b),
                    a.face = "render", b.face = "render"
             PROVE  /\ a.of = b.of /\ a.format = b.format
                    /\ a.of = "expand" => Sanitize(a.type) = Sanitize(b.type)
  BY DEF OwnNames
<1>1. /\ OutPath(a) = IF a.of = "expand" THEN <<"graph-expand", Sanitize(a.type), a.format>>
                      ELSE <<"graph", a.of, a.format>>
      /\ OutPath(b) = IF b.of = "expand" THEN <<"graph-expand", Sanitize(b.type), b.format>>
                      ELSE <<"graph", b.of, b.format>>
  BY DerivedNames
<1>2. PICK x, y, p, q, f, g : /\ x = Sanitize(a.type) /\ y = Sanitize(b.type)
                              /\ p = a.of /\ q = b.of /\ f = a.format /\ g = b.format
  OBVIOUS
<1>3. (IF p = "expand" THEN <<"graph-expand", x, f>> ELSE <<"graph", p, f>>)
        = (IF q = "expand" THEN <<"graph-expand", y, g>> ELSE <<"graph", q, g>>)
  BY <1>1, <1>2, Zenon
<1>4. <<"graph-expand", x, f>> # <<"graph", q, g>> /\ <<"graph", p, f>> # <<"graph-expand", y, g>>
  OBVIOUS
<1>5. p = q /\ f = g /\ (p = "expand" => x = y)
  <2>1. CASE p = "expand" /\ q = "expand"
    BY <1>3, <2>1
  <2>2. CASE p # "expand" /\ q # "expand"
    BY <1>3, <2>2
  <2> QED
    BY <1>3, <1>4, <2>1, <2>2
<1> QED
  BY <1>2, <1>5, Zenon

-----------------------------------------------------------------------------
(* Starting and stopping.                                                  *)

ServerPhases == {"start", "open", "bound", "built", "armed", "printed", "spawned", "serving",
                 "stopping", "gone", "killed"}
ServerType == [phase : ServerPhases, port : BOOLEAN, spill : BOOLEAN,
               armed : {"no", "yes", "failed"}, polled : BOOLEAN,
               pending : SUBSET {"TERM", "INT"}, signals : Nat, printed : BOOLEAN,
               busy : BOOLEAN]
HandleType == [here : BOOLEAN, live : BOOLEAN, sender : BOOLEAN, thread : BOOLEAN,
               call : {"none", "stale-after-fork", "already-closed", "joining", "closed", "exited"},
               port : BOOLEAN]

LifeTyped == server \in ServerType /\ handle \in [{"owner", "fork"} -> HandleType]

Sent == [by |-> "owner"] \in asked
Excused == \E a \in asked : \/ ~a.printed \/ a.armed = "failed"
                            \/ a.by = "INT" /\ ~a.polled

PortHonest == server.phase \in {"start", "open", "stopping", "gone"} => ~server.port

SpillHonest ==
  server.phase = "gone" /\ server.spill =>
    form = "wheel" /\ (server.busy \/ handle["owner"].call = "exited")

\* Which form of the program gets to which phase, and that the handler is
\* installed before the line is out.
StageHonest ==
  /\ server.phase \in {"built", "armed", "printed"} => form = "serve"
  /\ server.phase = "spawned" => form = "wheel"
  /\ server.phase \in {"serving", "stopping"} => form \in {"serve", "wheel"}
  /\ server.phase \in {"armed", "printed"} \/ server.printed =>
       form = "wheel" \/ server.armed # "no"
  /\ server.phase = "killed" /\ form = "serve" => Excused

\* A handle exists once the thread is ready; a close that has joined it
\* found it gone, and a sender that is dropped has asked.
HandleHonest ==
  /\ \A p \in {"owner", "fork"} :
       handle[p].here \/ handle[p].call # "none" =>
         form = "wheel" /\ server.phase \in {"serving", "stopping", "gone", "killed"}
  /\ handle["owner"].call = "closed" => server.phase = "gone"
  /\ handle["owner"].call = "exited" => ~handle["owner"].here
  /\ form = "wheel" => /\ server.phase = "serving" /\ ~handle["owner"].sender => Sent
                       /\ server.phase = "stopping" => Sent

LifeIInv ==
  /\ LifeTyped
  /\ PortHonest
  /\ SpillHonest
  /\ StageHonest
  /\ HandleHonest

LEMMA LifeInitIInv == LifeInit => LifeIInv
<1> SUFFICES ASSUME LifeInit PROVE LifeIInv
  OBVIOUS
<1>1. server = Down /\ handle = [p \in {"owner", "fork"} |-> NoHandle]
  BY DEF LifeInit
<1>2. LifeTyped
  BY <1>1 DEF LifeTyped, ServerType, ServerPhases, HandleType, Down, NoHandle
<1>3. PortHonest /\ SpillHonest /\ StageHonest
  BY <1>1 DEF PortHonest, SpillHonest, StageHonest, Down
<1>4. HandleHonest
  BY <1>1 DEF HandleHonest, Down, NoHandle
<1> QED
  BY <1>2, <1>3, <1>4 DEF LifeIInv

\* A step of the server that leaves the handles alone.
ServerHolds(new) ==
  /\ new \in ServerType
  /\ new.phase \in {"start", "open", "stopping", "gone"} => ~new.port
  /\ new.phase = "gone" /\ new.spill =>
       form = "wheel" /\ (new.busy \/ handle["owner"].call = "exited")
  /\ new.phase \in {"built", "armed", "printed"} => form = "serve"
  /\ new.phase = "spawned" => form = "wheel"
  /\ new.phase \in {"serving", "stopping"} => form \in {"serve", "wheel"}
  /\ new.phase \in {"armed", "printed"} \/ new.printed => form = "wheel" \/ new.armed # "no"
  /\ new.phase = "killed" /\ form = "serve" => server.phase = "killed"
  /\ server.phase \in {"serving", "stopping", "gone", "killed"} =>
       new.phase \in {"serving", "stopping", "gone", "killed"}
  /\ server.phase = "gone" => new.phase = "gone"
  /\ form = "wheel" =>
       /\ new.phase = "serving" => server.phase = "serving"
       /\ new.phase = "stopping" =>
            server.phase = "stopping" \/ (server.phase = "serving" /\ ~handle["owner"].sender)

LEMMA BecomeKeepsLife ==
  ASSUME LifeIInv, NEW new, Become(new), ServerHolds(new)
  PROVE  LifeIInv'
<1>1. server' = new /\ form' = form /\ handle' = handle /\ asked' = asked
  BY DEF Become
<1>2. LifeTyped'
  BY <1>1 DEF LifeIInv, LifeTyped, ServerHolds
<1>3. PortHonest' /\ SpillHonest'
  BY <1>1 DEF PortHonest, SpillHonest, ServerHolds
<1>4. Excused => Excused'
  BY <1>1 DEF Excused
<1>5. StageHonest'
  BY <1>1, <1>4 DEF LifeIInv, StageHonest, ServerHolds
<1>6. HandleHonest'
  BY <1>1 DEF LifeIInv, HandleHonest, ServerHolds, Sent
<1> QED
  BY <1>2, <1>3, <1>5, <1>6 DEF LifeIInv

LEMMA GoneHolds ==
  ASSUME LifeIInv, server.phase \notin {"serving", "stopping", "killed"}
  PROVE  ServerHolds(Gone(server))
BY DEF LifeIInv, LifeTyped, ServerType, ServerPhases, StageHonest, ServerHolds, Gone

LEMMA ServerStepKeepsLife ==
  ASSUME LifeIInv, ServerStep \/ QueryStarts
  PROVE  LifeIInv'
<1> USE DEF LifeIInv, LifeTyped
<1>1. CASE OpenSession
  <2>1. Become([server EXCEPT !.phase = "open", !.spill = TRUE]) /\ server.phase = "start"
    BY <1>1 DEF OpenSession
  <2>2. ServerHolds([server EXCEPT !.phase = "open", !.spill = TRUE])
    BY <2>1 DEF ServerHolds, ServerType, ServerPhases, PortHonest, StageHonest
  <2> QED
    BY <2>1, <2>2, BecomeKeepsLife
<1>2. CASE RefuseSession
  BY <1>2, GoneHolds, BecomeKeepsLife DEF RefuseSession
<1>3. CASE Bind
  <2>1. CASE Fail("open")
    BY <2>1, GoneHolds, BecomeKeepsLife DEF Fail
  <2>2. CASE server.phase = "open" /\ Become([server EXCEPT !.phase = "bound", !.port = TRUE])
    <3>1. ServerHolds([server EXCEPT !.phase = "bound", !.port = TRUE])
      BY <2>2 DEF ServerHolds, ServerType, ServerPhases, StageHonest
    <3> QED
      BY <2>2, <3>1, BecomeKeepsLife
  <2> QED
    BY <1>3, <2>1, <2>2 DEF Bind
<1>4. CASE Build
  <2>1. CASE Fail("bound")
    BY <2>1, GoneHolds, BecomeKeepsLife DEF Fail
  <2>2. CASE form = "serve" /\ Reach("bound", "built")
    <3>1. Become([server EXCEPT !.phase = "built"]) /\ server.phase = "bound"
      BY <2>2 DEF Reach
    <3>2. ServerHolds([server EXCEPT !.phase = "built"])
      BY <2>2, <3>1 DEF ServerHolds, ServerType, ServerPhases, StageHonest
    <3> QED
      BY <3>1, <3>2, BecomeKeepsLife
  <2> QED
    BY <1>4, <2>1, <2>2 DEF Build
<1>5. CASE ArmShutdown
  <2>1. PICK outcome \in {"yes", "failed"} :
          Become([server EXCEPT !.phase = "armed", !.armed = outcome])
    BY <1>5 DEF ArmShutdown
  <2>2. server.phase = "built"
    BY <1>5 DEF ArmShutdown
  <2>3. ServerHolds([server EXCEPT !.phase = "armed", !.armed = outcome])
    BY <2>2 DEF ServerHolds, ServerType, ServerPhases, StageHonest
  <2> QED
    BY <2>1, <2>3, BecomeKeepsLife
<1>6. CASE PrintLaunchInfo
  <2>1. CASE Fail("armed")
    BY <2>1, GoneHolds, BecomeKeepsLife DEF Fail
  <2>2. CASE server.phase = "armed" /\ Become([server EXCEPT !.phase = "printed", !.printed = TRUE])
    <3>1. ServerHolds([server EXCEPT !.phase = "printed", !.printed = TRUE])
      BY <2>2 DEF ServerHolds, ServerType, ServerPhases, StageHonest
    <3> QED
      BY <2>2, <3>1, BecomeKeepsLife
  <2> QED
    BY <1>6, <2>1, <2>2 DEF PrintLaunchInfo
<1>7. CASE ServeUntil
  <2>1. CASE Fail("printed")
    BY <2>1, GoneHolds, BecomeKeepsLife DEF Fail
  <2>2. CASE server.phase = "printed" /\ Become([server EXCEPT !.phase = "serving", !.polled = TRUE])
    <3>1. ServerHolds([server EXCEPT !.phase = "serving", !.polled = TRUE])
      BY <2>2 DEF ServerHolds, ServerType, ServerPhases, StageHonest
    <3> QED
      BY <2>2, <3>1, BecomeKeepsLife
  <2> QED
    BY <1>7, <2>1, <2>2 DEF ServeUntil
<1>8. CASE StopServing
  <2>1. /\ server.phase = "serving" /\ Become([server EXCEPT !.phase = "stopping", !.port = FALSE])
        /\ form = "wheel" => ~handle["owner"].sender
    BY <1>8 DEF StopServing, Serving, Hears
  <2>2. ServerHolds([server EXCEPT !.phase = "stopping", !.port = FALSE])
    BY <2>1 DEF ServerHolds, ServerType, ServerPhases, StageHonest
  <2> QED
    BY <2>1, <2>2, BecomeKeepsLife
<1>9. CASE LeaveRuntime
  <2>1. /\ server.phase = "stopping" /\ (form = "serve" => ~server.busy)
        /\ Become([server EXCEPT !.phase = "gone", !.spill = server.busy])
    BY <1>9 DEF LeaveRuntime, Outlives
  <2>2. ServerHolds([server EXCEPT !.phase = "gone", !.spill = server.busy])
    BY <2>1 DEF ServerHolds, ServerType, ServerPhases, StageHonest, PortHonest
  <2> QED
    BY <2>1, <2>2, BecomeKeepsLife
<1>10. CASE SpawnThread
  <2>1. CASE Fail("bound")
    BY <2>1, GoneHolds, BecomeKeepsLife DEF Fail
  <2>2. CASE form = "wheel" /\ Reach("bound", "spawned")
    <3>1. Become([server EXCEPT !.phase = "spawned"]) /\ server.phase = "bound"
      BY <2>2 DEF Reach
    <3>2. ServerHolds([server EXCEPT !.phase = "spawned"])
      BY <2>2, <3>1 DEF ServerHolds, ServerType, ServerPhases, StageHonest
    <3> QED
      BY <3>1, <3>2, BecomeKeepsLife
  <2> QED
    BY <1>10, <2>1, <2>2 DEF SpawnThread
<1>11. CASE ThreadReady
  <2>1. CASE Fail("spawned")
    BY <2>1, GoneHolds, BecomeKeepsLife DEF Fail
  <2>2. CASE ~Fail("spawned")
    <3> DEFINE there == [here |-> TRUE, live |-> TRUE, sender |-> TRUE, thread |-> TRUE,
                         call |-> "none", port |-> FALSE]
    <3>1. /\ server.phase = "spawned" /\ form' = form /\ asked' = asked
          /\ server' = [server EXCEPT !.phase = "serving", !.printed = TRUE]
          /\ handle' = [handle EXCEPT !["owner"] = there]
      BY <1>11, <2>2 DEF ThreadReady
    <3>2. form = "wheel" /\ handle["fork"].call = "none" /\ ~handle["fork"].here
      BY <3>1 DEF StageHonest, HandleHonest, HandleType
    <3>3. server' \in ServerType /\ server'.phase = "serving" /\ there \in HandleType
      BY <3>1 DEF ServerType, ServerPhases, HandleType
    <3>4. /\ handle' \in [{"owner", "fork"} -> HandleType]
          /\ handle'["owner"] = there /\ handle'["fork"] = handle["fork"]
      BY <3>1, <3>3
    <3>5. PortHonest' /\ SpillHonest' /\ StageHonest'
      BY <3>1, <3>2, <3>3 DEF PortHonest, SpillHonest, StageHonest
    <3>6. HandleHonest'
      BY <3>1, <3>2, <3>3, <3>4 DEF HandleHonest
    <3> QED
      BY <3>3, <3>4, <3>5, <3>6
  <2> QED
    BY <2>1, <2>2
<1>12. CASE QueryEnds
  <2> DEFINE new == [server EXCEPT !.busy = FALSE, !.spill = server.spill /\ server.phase # "gone"]
  <2>1. Become(new)
    BY <1>12 DEF QueryEnds
  <2>2. ServerHolds(new)
    BY DEF ServerHolds, ServerType, ServerPhases, StageHonest, PortHonest
  <2> QED
    BY <2>1, <2>2, BecomeKeepsLife
<1>13. CASE QueryStarts
  <2>1. server.phase = "serving" /\ Become([server EXCEPT !.busy = TRUE])
    BY <1>13 DEF QueryStarts, Serving
  <2>2. ServerHolds([server EXCEPT !.busy = TRUE])
    BY <2>1 DEF ServerHolds, ServerType, ServerPhases, StageHonest, PortHonest
  <2> QED
    BY <2>1, <2>2, BecomeKeepsLife
<1> QED
  BY <1>1, <1>2, <1>3, <1>4, <1>5, <1>6, <1>7, <1>8, <1>9, <1>10, <1>11, <1>12, <1>13
     DEF ServerStep

LEMMA SignalKeepsLife ==
  ASSUME LifeIInv, NEW s \in {"TERM", "INT"}, Signal(s)
  PROVE  LifeIInv'
<1> USE DEF LifeIInv, LifeTyped
<1> DEFINE record == [by |-> s, printed |-> server.printed, armed |-> server.armed,
                      polled |-> server.polled]
<1>1. /\ form = "serve" /\ ~Ended /\ form' = form /\ handle' = handle
      /\ asked' = asked \cup {record}
  BY DEF Signal
<1>2. \A p \in {"owner", "fork"} : ~handle[p].here /\ handle[p].call = "none"
  BY <1>1 DEF HandleHonest, HandleType
<1>3. CASE server' = [server EXCEPT !.pending = @ \cup {s}, !.signals = @ + 1]
  <2>1. /\ server' \in ServerType /\ server'.phase = server.phase /\ server'.port = server.port
        /\ server'.spill = server.spill /\ server'.busy = server.busy
        /\ server'.printed = server.printed /\ server'.armed = server.armed
    <3>1. server.pending \cup {s} \in SUBSET {"TERM", "INT"} /\ server.signals + 1 \in Nat
      BY DEF ServerType
    <3>2. PICK pending \in SUBSET {"TERM", "INT"}, signals \in Nat :
            server' = [server EXCEPT !.pending = pending, !.signals = signals]
      BY <1>3, <3>1
    <3> QED
      BY <3>2 DEF ServerType
  <2>2. PortHonest' /\ SpillHonest' /\ StageHonest'
    BY <1>1, <2>1 DEF PortHonest, SpillHonest, StageHonest, Ended
  <2>3. HandleHonest'
    BY <1>1, <1>2 DEF HandleHonest
  <2> QED
    BY <1>1, <2>1, <2>2, <2>3
<1>4. CASE server' # [server EXCEPT !.pending = @ \cup {s}, !.signals = @ + 1]
  <2>1. /\ server' = [server EXCEPT !.phase = "killed", !.port = FALSE, !.signals = @ + 1]
        /\ ~((s = "TERM" /\ server.armed = "yes") \/ (s = "INT" /\ server.polled))
    BY <1>4 DEF Signal
  <2>2. /\ server' \in ServerType /\ server'.phase = "killed"
        /\ server'.printed = server.printed /\ server'.armed = server.armed
    <3>1. server.signals + 1 \in Nat
      BY DEF ServerType
    <3>2. PICK signals \in Nat :
            server' = [server EXCEPT !.phase = "killed", !.port = FALSE, !.signals = signals]
      BY <2>1, <3>1
    <3> QED
      BY <3>2 DEF ServerType, ServerPhases
  <2>3. ~record.printed \/ record.armed = "failed" \/ (record.by = "INT" /\ ~record.polled)
    <3>1. server.printed => server.armed # "no"
      BY <1>1 DEF StageHonest
    <3>2. server.printed \in BOOLEAN /\ server.armed \in {"no", "yes", "failed"}
      BY DEF ServerType
    <3> QED
      BY <2>1, <3>1, <3>2
  <2>4. Excused'
    BY <1>1, <2>3 DEF Excused
  <2>5. PortHonest' /\ SpillHonest'
    BY <2>2 DEF PortHonest, SpillHonest
  <2>6. StageHonest'
    BY <1>1, <2>2, <2>4 DEF StageHonest
  <2>7. HandleHonest'
    BY <1>1, <1>2 DEF HandleHonest
  <2> QED
    BY <1>1, <2>2, <2>5, <2>6, <2>7
<1> QED
  BY <1>3, <1>4

\* A step of a handle that leaves the server alone.
LEMMA HoldKeepsLife ==
  ASSUME LifeIInv, NEW p \in {"owner", "fork"}, NEW new \in HandleType, Hold(p, new),
         handle[p].here \/ handle[p].call # "none",
         p = "owner" =>
           /\ new.call = "closed" => server.phase = "gone"
           /\ handle["owner"].call # "exited" /\ new.call # "exited"
           /\ new.sender \/ ~handle["owner"].sender \/ Sent',
         asked \subseteq asked'
  PROVE  LifeIInv'
<1> USE DEF LifeIInv
<1>1. handle' = [handle EXCEPT ![p] = new] /\ form' = form /\ server' = server
  BY DEF Hold
<1>2. form = "wheel" /\ server.phase \in {"serving", "stopping", "gone", "killed"}
  BY DEF HandleHonest
<1>3. LifeTyped'
  BY <1>1 DEF LifeTyped
<1>4. handle'[p] = new /\ \A q \in {"owner", "fork"} \ {p} : handle'[q] = handle[q]
  BY <1>1 DEF LifeTyped
<1>5. PortHonest'
  BY <1>1 DEF PortHonest
<1>6. SpillHonest'
  BY <1>1, <1>4 DEF SpillHonest
<1>7. StageHonest'
  BY <1>1, <1>2 DEF StageHonest
<1>8. Sent => Sent'
  BY DEF Sent
<1>9. HandleHonest'
  <2>1. p \in {"owner", "fork"}
    OBVIOUS
  <2>2. CASE p = "owner"
    BY <1>1, <1>2, <1>4, <1>8, <2>2 DEF HandleHonest
  <2>3. CASE p = "fork"
    BY <1>1, <1>2, <1>4, <1>8, <2>3 DEF HandleHonest
  <2> QED
    BY <2>1, <2>2, <2>3
<1> QED
  BY <1>3, <1>5, <1>6, <1>7, <1>9

LEMMA ExitKeepsLife ==
  ASSUME LifeIInv, NEW p \in {"owner", "fork"}, ExitProcess(p)
  PROVE  LifeIInv'
<1> USE DEF LifeIInv
<1> DEFINE left == [NoHandle EXCEPT !.call = "exited"]
<1>1. /\ handle[p].here /\ handle' = [handle EXCEPT ![p] = left]
      /\ form' = form /\ asked' = asked
  BY DEF ExitProcess
<1>2. form = "wheel" /\ server.phase \in {"serving", "stopping", "gone", "killed"}
  BY <1>1 DEF HandleHonest
<1>3. left \in HandleType /\ left.call = "exited" /\ ~left.here
  BY DEF NoHandle, HandleType
<1>4. /\ handle' \in [{"owner", "fork"} -> HandleType]
      /\ handle'[p] = left /\ \A q \in {"owner", "fork"} \ {p} : handle'[q] = handle[q]
  BY <1>1, <1>3 DEF LifeTyped
<1>5. CASE p = "fork"
  <2>1. server' = server
    BY <1>5 DEF ExitProcess
  <2>2. handle'["owner"] = handle["owner"]
    BY <1>4, <1>5
  <2>3. LifeTyped' /\ PortHonest' /\ SpillHonest' /\ StageHonest'
    BY <1>1, <1>2, <1>4, <2>1, <2>2 DEF LifeTyped, PortHonest, SpillHonest, StageHonest
  <2>4. HandleHonest'
    BY <1>1, <1>2, <1>4, <1>5, <2>1, <2>2 DEF HandleHonest, Sent
  <2> QED
    BY <2>3, <2>4
<1>6. CASE p = "owner" /\ ~Ended
  <2>1. server' = [server EXCEPT !.phase = "killed", !.port = FALSE, !.busy = FALSE]
    BY <1>6 DEF ExitProcess
  <2>2. server' \in ServerType /\ server'.phase = "killed"
    BY <2>1 DEF LifeTyped, ServerType, ServerPhases
  <2>3. LifeTyped' /\ PortHonest' /\ SpillHonest' /\ StageHonest'
    BY <1>1, <1>2, <1>4, <2>2 DEF LifeTyped, PortHonest, SpillHonest, StageHonest
  <2>4. HandleHonest'
    BY <1>1, <1>2, <1>3, <1>4, <1>6, <2>2 DEF HandleHonest
  <2> QED
    BY <2>3, <2>4
<1>7. CASE p = "owner" /\ Ended
  <2>1. server' = [server EXCEPT !.busy = FALSE] /\ server.phase \in {"gone", "killed"}
    BY <1>7 DEF ExitProcess, Ended
  <2>2. /\ server' \in ServerType /\ server'.phase = server.phase /\ server'.port = server.port
        /\ server'.spill = server.spill
    BY <2>1 DEF LifeTyped, ServerType
  <2>3. handle'["owner"].call = "exited"
    BY <1>3, <1>4, <1>7
  <2>4. LifeTyped' /\ PortHonest' /\ SpillHonest' /\ StageHonest'
    BY <1>1, <1>2, <1>4, <2>1, <2>2, <2>3 DEF LifeTyped, PortHonest, SpillHonest, StageHonest
  <2>5. HandleHonest'
    BY <1>1, <1>2, <1>3, <1>4, <1>7, <2>1, <2>2, <2>3 DEF HandleHonest
  <2> QED
    BY <2>4, <2>5
<1> QED
  BY <1>5, <1>6, <1>7

LEMMA HandleStepKeepsLife ==
  ASSUME LifeIInv, HandleStep \/ Fork
  PROVE  LifeIInv'
<1> USE DEF LifeIInv
<1>1. ASSUME NEW p \in {"owner", "fork"}, CloseStale(p) PROVE LifeIInv'
  <2> DEFINE new == [handle[p] EXCEPT !.call = "stale-after-fork", !.sender = FALSE,
                                      !.thread = FALSE]
  <2>1. handle[p].here /\ p = "fork" /\ Hold(p, new) /\ asked' = asked
    BY <1>1 DEF CloseStale, Free, Stale
  <2>2. new \in HandleType
    BY DEF LifeTyped, HandleType
  <2> HIDE DEF new
  <2> QED
    BY <2>1, <2>2, HoldKeepsLife
<1>2. ASSUME NEW p \in {"owner", "fork"}, CloseAgain(p) PROVE LifeIInv'
  <2> DEFINE new == [handle[p] EXCEPT !.call = "already-closed"]
  <2>1. handle[p].here /\ p = "owner" /\ Hold(p, new) /\ asked' = asked
    BY <1>2 DEF CloseAgain, Free, Stale
  <2>2. new \in HandleType /\ new.call = "already-closed" /\ new.sender = handle[p].sender
    BY DEF LifeTyped, HandleType
  <2>3. handle["owner"].call # "exited"
    BY <2>1 DEF HandleHonest
  <2> HIDE DEF new
  <2> QED
    BY <2>1, <2>2, <2>3, HoldKeepsLife
<1>3. ASSUME NEW p \in {"owner", "fork"}, CloseBegin(p) PROVE LifeIInv'
  <2> DEFINE new == [handle[p] EXCEPT !.call = "joining", !.thread = FALSE, !.sender = FALSE]
  <2>1. handle[p].here /\ p = "owner" /\ Hold(p, new) /\ asked' = asked \cup {[by |-> p]}
    BY <1>3 DEF CloseBegin, Free, Stale, Ask
  <2>2. new \in HandleType /\ new.call = "joining" /\ Sent'
    BY <2>1 DEF LifeTyped, HandleType, Sent
  <2>3. handle["owner"].call # "exited"
    BY <2>1 DEF HandleHonest
  <2> HIDE DEF new
  <2> QED
    BY <2>1, <2>2, <2>3, HoldKeepsLife
<1>4. ASSUME NEW p \in {"owner", "fork"}, CloseEnd(p) PROVE LifeIInv'
  <2> DEFINE new == [handle[p] EXCEPT !.call = "closed"]
  <2>1. /\ handle[p].call = "joining" /\ p = "owner" /\ server.phase = "gone"
        /\ Hold(p, new) /\ asked' = asked
    BY <1>4 DEF CloseEnd
  <2>2. new \in HandleType /\ new.call = "closed" /\ new.sender = handle[p].sender
    BY DEF LifeTyped, HandleType
  <2> HIDE DEF new
  <2> QED
    BY <2>1, <2>2, HoldKeepsLife
<1>5. ASSUME NEW p \in {"owner", "fork"}, DropHandle(p) PROVE LifeIInv'
  <2> DEFINE new == [handle[p] EXCEPT !.live = FALSE, !.sender = FALSE]
  <2>1. /\ handle[p].here /\ Hold(p, new)
        /\ asked' = IF p = "fork" THEN asked ELSE asked \cup {[by |-> p]}
    BY <1>5 DEF DropHandle, Free, Stale, Ask
  <2>2. new \in HandleType /\ new.call = handle[p].call /\ (p = "owner" => Sent')
    BY <2>1 DEF LifeTyped, HandleType, Sent
  <2>3. p = "owner" => /\ handle[p].call # "exited"
                       /\ handle[p].call = "closed" => server.phase = "gone"
    BY <2>1 DEF HandleHonest
  <2> HIDE DEF new
  <2> QED
    BY <2>1, <2>2, <2>3, HoldKeepsLife
<1>6. CASE Fork
  <2> DEFINE new == [handle["owner"] EXCEPT !.port = server.port]
  <2>1. /\ handle["owner"].here /\ handle' = [handle EXCEPT !["fork"] = new]
        /\ form' = form /\ server' = server /\ asked' = asked
    BY <1>6 DEF Fork
  <2>2. new \in HandleType
    BY DEF LifeTyped, HandleType, ServerType
  <2>3. form = "wheel" /\ server.phase \in {"serving", "stopping", "gone", "killed"}
    BY <2>1 DEF HandleHonest
  <2>4. handle'["owner"] = handle["owner"]
    BY <2>1 DEF LifeTyped
  <2>5. LifeTyped' /\ PortHonest' /\ SpillHonest' /\ StageHonest'
    BY <2>1, <2>2, <2>3, <2>4 DEF LifeTyped, PortHonest, SpillHonest, StageHonest
  <2>6. HandleHonest'
    BY <2>1, <2>3, <2>4 DEF HandleHonest, Sent
  <2> QED
    BY <2>5, <2>6
<1> QED
  BY <1>1, <1>2, <1>3, <1>4, <1>5, <1>6, ExitKeepsLife DEF HandleStep

LEMMA LifeNextIInv == LifeIInv /\ [LifeStep]_lifeVars => LifeIInv'
<1>1. ASSUME LifeIInv, UNCHANGED lifeVars PROVE LifeIInv'
  BY <1>1 DEF lifeVars, LifeIInv, LifeTyped, PortHonest, SpillHonest, StageHonest, HandleHonest,
              Excused, Sent
<1> QED
  BY <1>1, ServerStepKeepsLife, SignalKeepsLife, HandleStepKeepsLife DEF LifeStep

LEMMA LifeIInvStops == LifeIInv => StopLeavesNothing
<1> SUFFICES ASSUME LifeIInv PROVE StopLeavesNothing
  OBVIOUS
<1> USE DEF LifeIInv
<1>1. form = "serve" /\ server.phase = "killed" => Excused
  BY DEF StageHonest
<1>2. server.phase = "gone" =>
        /\ ~server.port
        /\ server.spill => form = "wheel" /\ (server.busy \/ handle["owner"].call = "exited")
  BY DEF PortHonest, SpillHonest
<1>3. handle["owner"].call = "closed" => server.phase = "gone"
  BY DEF HandleHonest
<1>4. form = "wheel" /\ server.phase = "stopping" => Sent
  BY DEF HandleHonest
<1> QED
  BY <1>1, <1>2, <1>3, <1>4, Zenon DEF Excused, Sent, StopLeavesNothing

-----------------------------------------------------------------------------
(* The three together.  Each form of the program moves its own part.       *)

WholeIInv == SourceIInv /\ CommandsIInv /\ LifeIInv

LEMMA WholeInit == LifeInit => WholeIInv
BY SourceInitIInv, CommandsInitIInv, LifeInitIInv DEF LifeInit, WholeIInv

LEMMA PartsMoveAlone ==
  [LifeNext]_vars => [SourceNext]_sourceVars /\ [CommandsNext]_commandVars /\ [LifeStep]_lifeVars
<1>1. ASSUME LifeNext
      PROVE  [SourceNext]_sourceVars /\ [CommandsNext]_commandVars /\ [LifeStep]_lifeVars
  BY <1>1, Zenon DEF LifeNext, SourceNext
<1>2. ASSUME UNCHANGED vars
      PROVE  [SourceNext]_sourceVars /\ [CommandsNext]_commandVars /\ [LifeStep]_lifeVars
  BY <1>2 DEF vars
<1> QED
  BY <1>1, <1>2

LEMMA WholeNext == WholeIInv /\ [LifeNext]_vars => WholeIInv'
BY PartsMoveAlone, SourceNextIInv, CommandsNextIInv, LifeNextIInv, Zenon DEF WholeIInv

(***************************************************************************)
(* The inductive invariant of a server, its source and the commands.       *)
(***************************************************************************)
THEOREM LifecycleInvariant == LifeSpec => []WholeIInv
<1>1. LifeSpec => LifeInit /\ [][LifeNext]_vars
  BY PTL DEF LifeSpec
<1> QED
  BY <1>1, WholeInit, WholeNext, PTL

(***************************************************************************)
(* The graph that is served is the one whose identity was captured and     *)
(* every fingerprint handed out is the hash of it, whatever is written to  *)
(* the disk or the alias meanwhile (source_identity.rs, loader.rs).        *)
(***************************************************************************)
THEOREM SourceServesWhatItNamed == LifeSpec => []ServesWhatItNamed
<1>1. WholeIInv => ServesWhatItNamed
  BY SourceIInvServes DEF WholeIInv
<1> QED
  BY <1>1, LifecycleInvariant, PTL

(***************************************************************************)
(* A stopped server has released its port and its spilled graph, a killed  *)
(* one was asked before it could listen, and a close that returns found    *)
(* the server gone (server.rs, cli.rs, the wheel's lib.rs).                *)
(***************************************************************************)
THEOREM LifecycleStopLeavesNothing == LifeSpec => []StopLeavesNothing
<1>1. WholeIInv => StopLeavesNothing
  BY LifeIInvStops DEF WholeIInv
<1> QED
  BY <1>1, LifecycleInvariant, PTL

(***************************************************************************)
(* A line on stdout names a whole file that its command filled, unless a   *)
(* rival was asked for the same name, for any number of commands and any   *)
(* invocations (render_cmd.rs and export_cmd.rs, run).                     *)
(***************************************************************************)
THEOREM CommandsAnswerIsOnDisk == LifeSpec => []AnswerIsOnDisk
<1>1. WholeIInv => AnswerIsOnDisk
  BY CommandsIInvNames, RendersHaveOwnNames DEF WholeIInv, AnswerIsOnDisk
<1> QED
  BY <1>1, LifecycleInvariant, PTL
=============================================================================
