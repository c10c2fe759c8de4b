-------------------------------- MODULE Wire --------------------------------
(***************************************************************************)
(* protocol.rs and its mirror protocol.ts: a response as frames of one     *)
(* header each, arrays cut into chunks that name their own place, and the  *)
(* assembler that puts a response together again.  A frame is its header   *)
(* words, `header' bytes of which arrive, and its body, the payload with   *)
(* its padding; a JSON payload is a number per byte, a float four bytes    *)
(* that know their float.                                                  *)
(***************************************************************************)
EXTENDS Lists

CONSTANTS HeaderBytes, ArrayRecord, ProtocolVersion

ASSUME WireAssumption == {HeaderBytes, ArrayRecord} \subseteq Nat \ {0} /\ ProtocolVersion \in Nat

\* The message types, at the place their code is.
MessageTypes == <<"MetaGraphMeta", "Points", "Links", "SessionInfo", "Error", "QueryTable",
                  "ExpansionPreview", "GraphSlice", "NodeDetail", "SearchResult", "Compaction",
                  "PropertyStats", "Focus", "Highlight", "Appearance", "Layout", "Records",
                  "SharedUpdate", "FieldDetail">>
Code(type) == CHOOSE i \in DOMAIN MessageTypes : MessageTypes[i] = type
Terminal == 1

-----------------------------------------------------------------------------
(* ResponseEncoder: push_json, push_f32_chunked, finish.                   *)
FloatBytes(values) == FlattenSeq([i \in DOMAIN values |-> [b \in 1..4 |-> 4 * values[i] + b - 1]])

\* Seeded fault: whole floats, where a record is two of them.
ChunkBytes_Halves(target) == Max({ArrayRecord, target - (target % 4)})
\* A target that is no multiple of a record is rounded down, to one at least.
ChunkBytes(target) ==
    LET rounded == target - (target % ArrayRecord)
    IN IF rounded = 0 THEN ArrayRecord ELSE rounded

PushFrame(seq, type, payload, at) ==
    [header |-> HeaderBytes, version |-> ProtocolVersion, code |-> Code(type),
     seq |-> seq, flags |-> 0, length |-> Len(payload), offset |-> at,
     body |-> payload \o [i \in 1..((4 - (Len(payload) % 4)) % 4) |-> 0]]

PushJson(frames, type, json) == Append(frames, PushFrame(Len(frames), type, json, 0))

ChunkOf(bytes, stride, i) == SubSeq(bytes, i * stride + 1, Min({(i + 1) * stride, Len(bytes)}))

\* An empty array is a frame as well: it is an answer.
PushChunks(frames, type, bytes, stride) ==
    frames \o [i \in 1..Max({1, (Len(bytes) + stride - 1) \div stride}) |->
                   PushFrame(Len(frames) + i - 1, type, ChunkOf(bytes, stride, i - 1), (i - 1) * stride)]
PushFloats(frames, type, values, target) ==
    PushChunks(frames, type, FloatBytes(values), ChunkBytes(target))

Finish(frames) ==
    IF frames = <<>> THEN frames ELSE [frames EXCEPT ![Len(frames)].flags = Terminal]

(* response_frames, meta_graph_frames, session_info_frames, shared_frames, *)
(* private_frames, error_frames: the metadata first, a compaction with it, *)
(* then the arrays.  What answers one client carries its request's id.     *)
HasPoints(type) == type \in {"MetaGraphMeta", "GraphSlice", "SharedUpdate", "Layout"}
HasLinks(type) == HasPoints(type) /\ type # "Layout"

Metadata(r) == IF HasPoints(r.type) THEN r.json ELSE r.json \o r.request

ResponseFrames(r, target) ==
    LET meta == PushJson(<<>>, r.type, Metadata(r))
        compacted == IF r.compaction # <<>> THEN PushJson(meta, "Compaction", r.compaction) ELSE meta
        placed == IF HasPoints(r.type) THEN PushFloats(compacted, "Points", r.points, target)
                  ELSE compacted
    IN Finish(IF HasLinks(r.type) THEN PushFloats(placed, "Links", r.links, target) ELSE placed)

-----------------------------------------------------------------------------
(* decode_frame: the version before anything else, and a refusal of        *)
(* whatever this version does not define.                                  *)
PaddingOf(frame) == SubSeq(frame.body, frame.length + 1, Len(frame.body))

DecodeFrame(frame) ==
    CASE frame.header < HeaderBytes -> "TooShort"
      [] frame.version # ProtocolVersion -> "VersionMismatch"
      [] frame.code \notin DOMAIN MessageTypes -> "UnknownMessageType"
      [] frame.flags \div 2 # 0 -> "UnknownFlags"
      [] frame.length > Len(frame.body) -> "LengthMismatch"
      [] Len(PaddingOf(frame)) >= 4 \/ ToSet(PaddingOf(frame)) \ {0} # {} -> "BadPadding"
      [] OTHER -> "decoded"

-----------------------------------------------------------------------------
(* ResponseAssembler of the client: what each type of message said last    *)
(* and the chunks of the arrays.                                           *)
NewAssembler == [said |-> [t \in {} |-> <<>>], chunks |-> [t \in {"Points", "Links"} |-> <<>>]]

PushChunk(a, type, frame) ==
    [a EXCEPT !.chunks[type] = Append(@, [at |-> frame.offset, bytes |-> SubSeq(frame.body, 1, frame.length)])]

Assemble(a, frame) ==
    LET type == MessageTypes[frame.code]
        payload == SubSeq(frame.body, 1, frame.length)
    IN IF type \in {"Points", "Links"} THEN PushChunk(a, type, frame)
       ELSE [a EXCEPT !.said = [t \in DOMAIN @ \cup {type} |-> IF t = type THEN payload ELSE @[t]]]

\* Seeded fault: the chunks one after another, as they came.
JoinFloats_Appended(chunks) == FlattenSeq([i \in DOMAIN chunks |-> chunks[i].bytes])

\* Each chunk goes where its own header says, the later one over the earlier.
JoinFloats(chunks) ==
    LET End(k) == chunks[k].at + Len(chunks[k].bytes)
        Over(i) == {k \in DOMAIN chunks : i \in chunks[k].at + 1..End(k)}
    IN [i \in 1..Max({0} \cup {End(k) : k \in DOMAIN chunks}) |->
           IF Over(i) = {} THEN 0 ELSE LET k == Max(Over(i)) IN chunks[k].bytes[i - chunks[k].at]]

\* An error first, then whatever carries the arrays, then the rest.
Precedence == <<"Error", "SharedUpdate", "MetaGraphMeta", "GraphSlice", "Records", "FieldDetail",
                "QueryTable", "ExpansionPreview", "NodeDetail", "SearchResult", "PropertyStats",
                "Focus", "Highlight", "Appearance", "Layout", "SessionInfo">>
\* A response has the arrays of its type, and JSON has no zero byte.
JsonBytes == Seq(Nat \ {0})
Response ==
    {r \in [type : ToSet(Precedence), json : JsonBytes, compaction : JsonBytes, points : Seq(Nat), links : Seq(Nat), request : JsonBytes] :
       /\ r.json # <<>>
       /\ HasPoints(r.type) \/ r.points = <<>>
       /\ HasLinks(r.type) \/ r.links = <<>>}

Complete(a) ==
    LET type == Precedence[Min({i \in DOMAIN Precedence : Precedence[i] \in DOMAIN a.said})]
    IN [type |-> type, json |-> a.said[type],
        compaction |-> IF "Compaction" \in DOMAIN a.said THEN a.said["Compaction"] ELSE <<>>,
        points |-> IF HasPoints(type) THEN JoinFloats(a.chunks["Points"]) ELSE <<>>,
        links |-> IF HasLinks(type) THEN JoinFloats(a.chunks["Links"]) ELSE <<>>]

\* Seeded fault: the chunks stay.
AfterTerminal_Kept(a) == [NewAssembler EXCEPT !.chunks = a.chunks]
\* A completed response leaves nothing for the next one to be mixed with.
AfterTerminal(a) == NewAssembler

-----------------------------------------------------------------------------
(* What a response must become on the other side, and the orders in which  *)
(* the frames before its last may come, one of them again if it is retried.*)
Received(r) == [type |-> r.type, json |-> Metadata(r), compaction |-> r.compaction,
                points |-> FloatBytes(r.points), links |-> FloatBytes(r.links)]

Orders(n) == {f \in [1..n -> 1..n] : \A i, j \in 1..n : f[i] = f[j] => i = j}
Deliveries(frames) ==
    LET n == Len(frames) - 1
    IN {[j \in DOMAIN f |-> frames[f[j]]] :
            f \in {again \o o \o <<n + 1>> : again \in {<<>>} \cup {<<i>> : i \in 1..n}, o \in Orders(n)}}

\* A frame of another version, or one that lost or gained bytes on its way.  A
\* float that ends in a zero byte cannot be told from one cut short and padded.
Damaged(f) ==
    {[f EXCEPT !.header = @ - 1], [f EXCEPT !.version = @ + 1], [f EXCEPT !.code = Len(MessageTypes) + 1],
     [f EXCEPT !.flags = @ + 2], [f EXCEPT !.length = @ + 4], [f EXCEPT !.body = Append(@, 1)],
     [f EXCEPT !.body = @ \o <<0, 0, 0, 0>>], [f EXCEPT !.body = SubSeq(@, 1, f.length - 1)],
     [f EXCEPT !.body = SubSeq(@, 1, f.length)]}
      \cup IF MessageTypes[f.code] \in {"Points", "Links"} THEN {} ELSE {[f EXCEPT !.length = @ - 1]}
=============================================================================
