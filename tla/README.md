# TLA+ models of kglite-visual

kglite-visual serves one *exploration* of a property graph (a KGLite file) to any number of
browser tabs, to an HTTP twin of the browser protocol and to MCP tools. The exploration is shared:
whatever one client loads, colours, filters, lays out or saves, all of them see. The core is a
single-process Rust session (`src/crates/kglite-visual-core`); the server around it
(`src/crates/kglite-visual-cli`) orders commits, broadcasts them and keeps the saved views; the
client (`src/frontend`) mirrors what it is sent.

This directory holds TLA+ models of that system, TLC configurations that check them on small
instances, and TLAPS proofs of most of the safety properties for every instance. Two kinds of
model are kept apart: state machines, for what moves under several hands (the session, the server,
the files, the client), and pure operators under one reader, for what is computed from one state
(answers, pages, pictures, frames), where the question is what a ceiling does to the answer.

- [Inventory](#inventory): the parts, their state, how they interact, what is hard, what makes them right
- [Modules](#modules): which module models what, and how it corresponds to the code
- [Runs](#runs): what each run checks, its bounds and why they are enough
- [Fairness](#fairness)
- [Proofs](#proofs)
- [Where the code and its promises differ](#where-the-code-and-its-promises-differ)
- [What is not modelled](#what-is-not-modelled)
- [Plan](#plan)

To check everything by hand:

    tlc -workers 2 -config MCSlotMirror.cfg MCSlotMirror.tla    # and each line of "Runs"
    tlapm SlotSpace_proofs.tla                                  # and each module of "Proofs"

## Inventory

Core session (`kglite-visual-core`):

| part | state | operations | what is hard | what makes it right |
|---|---|---|---|---|
| slot space: `view.rs`, `slots.rs`, `session.rs` | entries by slot, `node_slot`, `type_slot`, links, tombstone count, allocator | browse, load, query, expand, collapse, reset; compaction at the end of a request | five structures kept in step by hand; a compaction renumbers them all at once; slots are held by clients, by layouts and by checkpoints | maps, entries and counters agree; links join their relationship's own nodes; a slot is append-only between compactions; the slot space is bounded |
| shared exploration: `shared.rs`, `request.rs`, `presentation.rs`, `control.rs` | view and settings, a derived subset and appearance mapping, four revision numbers, the saved-view marker | every shared request: fork, apply, `finish_preparation`, `finish_recovery`, commit | derived values recomputed only when an input is *believed* changed; fields compared, captured and restored by hand-written lists | caches are fresh, revisions name what they number, references and arrangements fit the view |
| recovery history: `recovery.rs`, `history.rs`, `history_actions.rs` | checkpoints, newest last, under a count and a byte ceiling | checkpoint on a content change, restore | a field missed in one list is lost; two ceilings; restore brings back an old numbering | a restore is exact, what it replaced can be restored in turn |
| subset, mapping, calculations: `subset.rs`, `appearance_mapping.rs`, `calculations.rs`, `calculation_kernels.rs` | predicates, calculation results frozen with the revision of their input | evaluate, compute, project | predicates may read a calculation's values, calculations run on the subset the predicates give | a result that claims the current input was run on it |
| bookmarks: `bookmark*.rs`, `source_identity.rs` | none of its own: a payload | capture, resolve against a source, restore | a payload from another session, source or build | restored content is the captured one, or it is refused |
| queries, records, statistics, schema: `query*.rs`, `records.rs`, `field_detail.rs`, `stats.rs`, `meta_graph.rs`, `validate.rs` | none (answers) | Cypher, table and field pages, search, previews, counts | the engine has one ceiling and this code two more; a page can end on bytes, on rows or on an error | a cell is whole or marked; pages meet; the total is exact or said to be a bound |
| bounds: `bound.rs` | none | admission under a ceiling | what is left out must be counted | never over the bound, and never silently |
| layout and rendering: `layout.rs`, `live_layout.rs`, `render/` | none (positions, SVG, PNG) | reading the shape, choosing a kernel, folding, naming, drawing | folding renumbers six arrays at once; a picture has less room than the graph | a picture says what it leaves out, and counts what it folds |
| exports and captured output: `export.rs`, `output*.rs` | none (files, images) | CSV, GraphML, JSON, still images of what is on screen | a download captures again, later than its preview | what is written is what was on screen, and what was previewed |
| source identity: `source_identity.rs` | path, stamp and cached hash of the loaded file | capture, verify, fingerprint | others write the file while it is read and hashed; a path can be an alias | what is served is what is named |
| locks: `session.rs`, `broadcast.rs` | one RwLock, one mutex | read and write guards, the gate | a guard kept to the end of a long computation, and taken twice | nobody waits for ever |

Server (`kglite-visual-cli`, `kglite-visual-py`):

| part | state | operations | what is hard | what makes it right |
|---|---|---|---|---|
| publication: `broadcast.rs` | the publication gate, the bus of snapshots | prepare, ordered commit and publish, attach | prepare is outside the gate; commit and publish are two steps; subscribe and snapshot are two steps; a slow receiver is lapped | one order of commits, each broadcast once; a client attaches without a gap |
| socket loop: `ws.rs` | one task per socket | greet, serve a request, forward the bus, close a lagging socket | it does not receive while it answers | a client shows a committed state, and catches up or is cut off |
| saved-view jobs: `views_api.rs` | a marker in the exploration | save = capture, store, mark; delete = check, remove, clear; restore = get, prepare, commit | nothing is locked from one step to the next | a view shown as saved *is* saved |
| saved-view catalog: `views.rs` | a JSON file shared by processes, or memory | locked read-modify-write, staged and renamed | crashes, two processes, a lock with a time limit, quotas | nothing is lost unasked; old file or new file |
| saved queries: `queries.rs` | a JSON file | save, delete, record, run | a temporary file per process, a lock per session, none between processes | last writer wins, and never half a file |
| HTTP twin, MCP: `api.rs`, `mcp*.rs`, `output_api.rs` | none | the same requests by other doors; read, then act on what was read | a stamp that is stale, a slot that was renumbered, between two calls of one caller | what is done is done to what was read, or refused |
| lifecycle: `cli.rs`, `server.rs`, wheel `lib.rs`, Python `_server.py` | port, thread, spilled graph, handle | start, print, wait, stop, fork, close | start-up that fails half-way, stopping twice, a handle in a fork, a query that outlives the runtime | no orphan, one server per handle, a stop that returns |
| commands: `render_cmd.rs`, `export_cmd.rs` | a file in the working directory | parse, draw, write, print | a default name shared by two commands; a line printed for a file | the printed file is the one that was asked for |
| loader: `loader.rs` | none | open a graph or fail | a file replaced between its check and its load | a clear refusal |

Client (`src/frontend`):

| part | state | operations | what is hard | what makes it right |
|---|---|---|---|---|
| slot map: `view.ts` | labels by slot, slot by node, holes, links | apply a slice, apply a snapshot, remap | one slice is in two numberings when it compacts | it equals the session's view |
| wire: `protocol.rs`, `protocol.ts`, `transport.ts` | frame assembly | encode, decode, reassemble | arrays cut into chunks that name their own place; a damaged or foreign frame | a response arrives whole, or is refused |
| shared client: `main.ts`, `shared.ts`, `state.ts`, `request-id.ts` | shown revision, outstanding requests, reconnection | ask, adopt a snapshot, reconnect | an answer and a broadcast of the same commit; a private answer of another revision | the newest state is shown, once |
| panels and drawing | view state | render, filter, inspect | presentation | — |

**How they interact.** A caller (a socket, an HTTP or MCP handler, the tail of a saved-view job)
runs `Session::prepare_shared` on a copy of the state, off the async runtime. `commit_ordered`
takes the publication gate, `Session::commit_shared` compares the base stamp under the session's
lock and swaps the state in, and the snapshot goes out on a tokio broadcast channel before the
gate is left. `attach` takes the same gate to subscribe and to take the greeting snapshot. Socket
loops forward what they receive; a receiver that was lapped is told and closed, and its client
reconnects. Saved-view jobs touch three stores in turn: the session (capture), the catalog
(store), and the session again (mark).

Every hazard found in this code is listed in `PROJECT.json` at its line, with the properties that
would catch it going wrong, and what they do not cover.

## Modules

| module | models | composes |
|---|---|---|
| `SlotView` | `view.rs`, `slots.rs`: the slot space and its pure operations, compaction included | |
| `SlotSpace` | the requests of `session.rs` and `expand.rs` that move it; `finish_slice` | extends `SlotView` |
| `SlotMirror` | a client's `SlotView` (`view.ts`), the slices on their way to it, reconnection | extends `SlotSpace` |
| `SharedState` | `shared.rs`, `recovery.rs`, `history.rs`; what they call in the subset, mapping and calculation modules | extends `SlotSpace` |
| `BookmarkRestore` | `bookmark_capture.rs`, `bookmark_restore.rs`: saving the exploration in a payload, and restoring one | extends `SharedState` |
| `Doors` | `api.rs`, `mcp.rs`, `mcp_output.rs`, `output*.rs`: a caller that reads, and then acts on what it read | extends `SharedState` |
| `SharedLog` | abstract: what the server promises its clients | |
| `Publication` | `broadcast.rs`, `ws.rs`: gate, bus, sockets | implements `SharedLog` |
| `StateLock` | the session's `RwLock` and the gate, as the calls that take them take them | |
| `SavedViews` | `views_api.rs`, and the parts of `views.rs` and `broadcast.rs` its jobs call | |
| `AtomicCatalog` | abstract: what the saved-view catalog promises | |
| `ViewCatalog` | `views.rs`: lock, read, stage, sync, rename; crashes, stalls, power loss | implements `AtomicCatalog` |
| `QueryStore` | `queries.rs` and its callers: the file of saved queries | |
| `Lists` | no code: sums, carried state and selections over a sequence, as recursive functions | |
| `Cells` | `query_cells.rs`, `values.rs`: a value as a cell under a budget | extends `Lists` |
| `Pages` | `records.rs`, `field_detail.rs`, `bound.rs`: pages and ceilings | extends `Cells` |
| `QueryTable` | `query.rs`, `query_provenance.rs`, `validate.rs`: the table and the graph of a query | extends `Pages` |
| `Schema` | `meta_graph.rs`, `stats.rs`, `expand.rs`: types, links, previews, colour suggestions | extends `QueryTable` |
| `Filters` | `subset.rs`: predicates and distributions on numbers of two kinds | extends `Lists` |
| `Wire` | `protocol.rs`, `protocol.ts`: frames and their assembly | pure |
| `Shape` | `structure.rs`, `live_layout.rs`: reading the shape of a graph, choosing a kernel | pure |
| `Pictures` | `render/`, `layout.rs`: the scene of a picture, its folds, names and status | extends `Schema`, `Shape` |
| `Reading` | one reader that asks for any of these, page after page, frame after frame | extends `Pictures`, `Wire`, `Filters` |
| `Source` | `loader.rs`, `source_identity.rs`: which bytes are served under which name | |
| `Commands` | `render_cmd.rs`, `export_cmd.rs`: commands that write a file and exit | |
| `Lifecycle` | `cli.rs`, `server.rs`, the wheel's `lib.rs` and `_server.py`: start, stop, fork, close | extends `Source`, `Commands` |
| `MC...` | instances for TLC | one per checked module |
| `..._proofs` | theorems about a module and their proofs, see [Proofs](#proofs) | extend the module |

### SlotView and SlotSpace

`view` is the Rust `View`: `entries` is the vector of entries (a type name, a graph node, or
`Tombstone`), `node_slot` and `type_slot` the two hash maps, `next` the allocator, `tombstones` the
counter, `edges` the links. Slots count from 1 here and from 0 there. `InternNodes`, `AddEdges`,
`TombstoneSlots`, `ShouldCompact` and `Compact` are the methods of the same names; each takes the
batch a request hands to it, where the code loops. `FinishSlice` is `finish_slice`: compaction is
part of every action, as it is part of every request. It reports added nodes and tombstones in the
numbering before the compaction, links and counts in the one after, exactly as the code does.

Each request is an action: `BrowseType`, `LoadNodes`, `LoadEntities`, `Cypher`, `Expand`,
`Collapse`, `Reset`. What the source answers (which nodes a page, a search or a query names, how
far an expansion gets before its bound) is any answer the source could give; `absorb` admits all
of it or refuses all of it (`Admissible`). A refused request changes nothing and is a stutter.

Abstracted: links are a set (the code keeps them in order; no property depends on it); labels,
fields and colours of an entry; the byte ceilings of a slice, which only refuse.

### SlotMirror

`replica` is the client's `SlotView`: `labels`, `slotOfNode`, `tombstones`, `blank` (the slots whose
position is NaN), `slot_count`, `edges`. `ApplySlice` is `applySlice` in its order: splice, append,
tombstone, and only then remap. `wire` is the ordered channel. `Rejoin` is a reconnection or a late
join: the whole view comes as one slice (`sync_slice`, `replaceSnapshot`).

The production socket now only ever sends whole snapshots. The slice frames are the documented
protocol, are still sent for each request by the session, and `view.ts` still applies them (its
tests and the benchmark drive them); `Publish` and `Receive` are that protocol, `Rejoin` is what
sockets use today.

### SharedState

`settings` is what requests set beside the view (predicates, appearance and presentation together,
caption, highlighted, selected, kernel and layout, calculations); `cache` what is derived (visible
subset, appearance mapping); `revs` the four revision numbers; `saved` the saved-view marker;
`history` the checkpoints; `event` what the last commit announced.

`MoveSlots` is any request of `SlotSpace`; the others are one action per request. Each runs
`Prepare` = `finish_preparation` (`Refresh`, `Settle`, `Renumber`: what is derived is recomputed,
stale arrangements and references dropped, revisions advanced) and then `Recover` and `Remark` =
`finish_recovery`. `Push` evicts checkpoints from the oldest. Restores pass `preserve_layout` as
the code does.

Abstracted: prepare and commit are one step (their separation is `Publication`'s subject); a
predicate list is the nodes and relations it lets through and the calculations it reads; the
mapping is represented by the inputs it is computed from, which is what staleness is about; a
checkpoint's byte size is its number of slots; a request names at most `MaxPicked` references. `was`, in a
checkpoint and in the marker, is not in the code: it remembers the content, so that properties can
compare with it.

### BookmarkRestore

A payload names nodes and types, never slots. `CaptureBookmark` is `capture_bookmark_with`: `Members`
is the order of live nodes, `Positions` gives each entry the coordinates of its slot; what was
captured is kept in `payloads`. `RestoreBookmark` is `prepare_bookmark_restore` committed: a new view, `LoadEntities` with the members, the saved
settings, coordinates laid down by slot of the new view (`RestoredLayout`), then the same `Prepare`
and `Recover` as every other request. It extends `SharedState`, so captures and restores happen in
the middle of any other requests.

A calculation carries the generation (the session) it was run in, and a payload of another session
(`Foreign`) brings results whose subset revisions number other subsets. `Here` is this session,
`Elsewhere` are the others. Another session that restored a payload of this one can pass its results
on in its own, as they were or run again under their identity (`PassedOn`). `PayloadsFrom` is what the deserializer can give, and no more is assumed
of a foreign payload: `Valid` is what the restore refuses it for otherwise, be it a bound
(`WithinBounds`), a repeated member or a relation that ends outside (`MembersResolve`), coordinates
that do not cover the view or do so twice (`PositionsCover`), or a reference to nothing in it.

Abstracted: how a member's key and a relationship's attributes are compared with the source, and
the fingerprint of the source, each of which can only refuse; the focus a payload suggests.

### Doors

`call` is one HTTP or MCP caller; its peers are the whole of `SharedNext`. A route and the tool of
the same name call one function of the session and are one action. `held` is the last answer the
caller holds: records, view state, search hits, a preview, each with its stamp (`SharedStamp`:
generation and revision), or one of a session that has ended (`There`). `BeginSearch`/`EndSearch`
are two steps, since `api::search` searches outside the lock and reads the slots afterwards;
`ToolSearch`, `ToolFound`, `ToolMark` are the three of the MCP tool that searches and marks.
`HighlightSlots`, `CalculateHeld` and `SetAppearance` check a stamp and act; `Preview`, `Download`
and `ExportView` are the captured outputs, where a download captures again and compares a digest.

Abstracted: what an answer says beside what its stamp promises; formats, except that the JSON
document cannot hold a relationship whose property names collide (`Colliding`).

### SharedLog and Publication

The state is the log of the requests it is the result of, so losing, repeating or reordering one
shows. `Prepare`, `Enter`, `Commit`, `Conflict`, `Publish` are the steps of `prepare_shared` and
`commit_ordered_blocking`; `EnterUnprepared` and `PrepareInside` are the saved-view tails, which
take the gate first. `Subscribe` and `Greet` are the two halves of `attach`. A socket answering its
own request is not `Listening`, since `serve` awaits the answer inside its loop. `Lagged` is the
broadcast channel's error; `cursor` is tokio's receiver.

`SharedLog` states the promise in five small actions: one log, each request in it once, clients
that join at the present and follow one request at a time, and a request that names a revision
committed right on it. `Publication` implements it under the mapping in `Promise`: `log` is the
log, and a live client is at the revision it shows.

The browser side is one line: a client adopts each snapshot it is given.

### StateLock

Each caller is the sequence of its lock operations (`Program`): a request reads, takes the gate,
writes and leaves; a picture of the live view reads and, before it lets go, reads twice more
(`LiveScene`). `ReadLock` is the standard library's futex lock: a reader waits when a writer holds
the lock or is in the queue for it (`queued`), which is what turns the second read of one thread into a wait for itself.
What callers do between two operations is left out, since it takes no lock.

### SavedViews

`content` is the live exploration as far as a saved view records it, split in `work` and what is
`selected`; `revs` its revision and content revision; `marker` the saved-view marker; `catalog`
what each name holds; `job` where each save, delete or restore is. `Change` is any shared request
of any client; `unseen` is a change only the session sees (a slot number, a hole). Catalog
transactions are atomic here, with their two failures: refused, and in place but not acknowledged
(`StoreUnacknowledged`, `RemoveUnacknowledged`: the directory sync fails after the rename; only
when the catalog is a file, `Durable`).

### AtomicCatalog and ViewCatalog

A viewer is one request of some server process. `Acquire` and `TimeOut` are `CatalogLock::acquire`;
`Read`, `Stage`, `Sync`, `Rename` and `Acknowledge` are the steps of `transaction` and
`replace_catalog`; `Answer` is a list, a get or a refusal, `Fail` a bound or an error after the
decision. `Kill`, `Stall` and `PowerLoss` are the world's. `file` is what the catalog's name leads
to, `olds` what it led to before the renames that the directory may not have on disk, `staging` the
one staging file all processes use. `owed` is not in the code: what each name was last
acknowledged to hold.

`AtomicCatalog` is what the others rely on: one name at a time, within the quota, and a power loss
that undoes whole unacknowledged changes or nothing. `ViewCatalog` implements it, with the bytes of
`file` for the catalog. `SavedViews` has the same atomic changes, and their two failures.

Abstracted: bytes and their bounds; the creation of the directory, which the code does not sync; a
catalog file that does not exist is an empty one.

### QueryStore

`file` is the store (nothing, torn, unreadable, or saved queries, a history and whether a newer
version wrote it), `temp` the temporary file of each process, `job` where each caller's request is.
A session's requests take turns (`Lock`); `Read`, `Open`, `Fill`, `Rename` are the steps of a
replacement. A handle follows the file it opened (`Follows`): the write of a caller whose temporary
file was renamed by another lands in the store. `Fail`, `Kill`, `RemoveStoreFile` and `PruneStore`
are the world's and the person's.

### Lists, Cells, Pages, QueryTable, Schema, Filters, Wire, Shape, Pictures, Reading

Eight modules of operators, over the folds of `Lists`, translate the functions that compute an answer from one state, each
written over the ceilings of the code as constants, and `Reading` is the program that runs them: a
reader asks something (`inquiry`), follows `next_offset` from page to page or takes frame after
frame, and compares what it gathered (`answer`) with a definition of what it should have got. The
engine is external: `Engine` is what the code relies on.

- `Cells`: a value is a tree, written down as the sequence of what a walk meets, each with its depth
  and the place of what it is in, so that nothing needs recursion and a budget is a prefix.
  `Json`, `Typed`, `Written`: a value under a budget of bytes, a depth and a width; every cut is marked.
  Strings are lengths.
- `Pages`: `BoundInfo`, `NextOffset`, record pages under a row count and a byte count, field pages.
- `QueryTable`: rows under the engine's ceiling and this code's two, their total, the warnings
  forwarded, and the graph of the nodes and relationships the table names.
- `Schema`: the meta-graph, which types link, previews of an expansion from a type and from a node,
  the statistics of a column and the suggestion to colour by it.
- `Filters`: `IntFloat`, the comparison of an integer with a float without rounding the integer,
  at a width of integers (`IntLimit`) small enough for TLC to have both kinds at their limits.
- `Wire`: `PushChunks`, `DecodeFrame`, `Assemble`: a response as frames, in any order of arrival,
  damaged or not, with another response before or after it.
- `Shape`: breadth-first walk, two-colouring, communities, and the choice of a kernel; walks are
  functions from the number of rounds, which no graph exceeds.
- `Pictures`: `BuildScene`, folding of fans (`FoldLeafFans`), naming (`PlaceNames`), what a canvas has
  room for, the status lines, the arrangement of the live view. Text is measured in cells.

Abstracted: formatting; the floats of layouts (a kernel is its choice, a place a grid cell); a
modularity of integers instead of floats; the strings of cells, labels and headings.

### Source, Commands, Lifecycle

`Source`: a disk others write to (`Retarget`, `Rewrite`, `RewriteUnseen`: a write that preserves
the stamp), a file of two pieces so that a read can be torn, the capture of an identity, the load,
the check after it, and the fingerprint of a bookmark with its cache. `Commands`: two commands in
one directory, the file truncated, filled and then named in a printed line. `Lifecycle`: the
command that serves until a signal, and the wheel whose handle is closed, dropped, inherited by a
fork, or left to the interpreter's exit; `server` is the runtime with its port and the directory it
spilled the graph into, `handle` the Python object in each process, `asked` who asked for the stop
and how far the server was. `form`, chosen at the start, says which of the four a behaviour is
about: they share the source and nothing else.

## Runs

| run | module, config | distinct states | checks |
|---|---|---|---|
| `mirror` | `MCSlotMirror` | 126 922 | `TypeOK`, `SlotsAgree`, `LinksFaithful`, `SpaceBounded`, `SlotKeepsItsEntry`, `ReplayAgrees` |
| `shared` | `MCSharedState` | 103 539 | `NothingStale`, `CalculationsHonest`, `MarkerHonest`, `RevisionsNameTheirParts`, `RestoreExact`, `ChangesRecoverable` |
| `bookmarks` | `MCBookmarkRestore` | 132 882 | `RestoresWhatWasSaved` |
| `doors` | `MCDoors` | 97 198 | `CurrentAnswersHold`, `ActsOnWhatItRead`, `FinalIsItsPreview` |
| `publication` | `MCPublication` | 72 635 | `ShownMeetsTheBus`, `KeepsThePromise`, `ClientsCatchUp`, `RequestsEnd` |
| `render_lock` | `MCStateLock` | (violation) | `PicturesHoldUpNobody` |
| `savedviews` | `MCSavedViews` | 4.6 million | `CleanMarkerNamesItsPayload`, `StoresWhatItCaptured`, `NothingLostUnasked` |
| `savedviews_race` | `MCSavedViews`, `MCSavedViewsRace.cfg` | (violation) | `NoOlderPayloadUnderCleanMarker` |
| `catalog` | `MCViewCatalog` | 432 062 | `AcknowledgedSurvives`, `ImplementsCatalog`, `RequestsAreAnswered` |
| `querystore` | `MCQueryStore` | 126 099 | `NeverHalfWritten`, `LosesNothingElse`, `StoreAnswers` |
| `reading` | `MCReading` | 42 426 | `CellsAreWholeOrMarked`, `PagesMeet`, `AnswersArePrefixes`, `SchemaIsSound`, `ColoursCoverTheType`, `ResponsesArriveWhole`, `PicturesAreHonest` |
| `lifecycle` | `MCLifecycle` | 243 472 | `ServesWhatItNamed`, `StopLeavesNothing`, `AnswerIsOnDisk`, `StopsReturn` |

**`mirror`.** The slot space and its client, without a bound on the length of a behaviour: the slot
space bounds itself, which is what `SpaceBounded` says. Two types, four nodes, a self-loop, two
parallel relationships and a meta-graph link, limits that refuse some loads, and a compaction
threshold small enough that collapses compact. The code's threshold (64 slots, 30 per cent) only
scales this; the proofs cover every threshold. At most two slices are in flight, enough to have one
in the numbering before a compaction and one after it on their way together, and the client may
rejoin at any moment. `ReplayAgrees` says that applying what is in flight gives exactly the
session's view, and that a position is blank exactly at a hole.

**`shared`.** One type, two nodes, one relationship: enough to load, hide and collapse each end
separately and to compact. Four commits: a change, a second change that a derived value should or
should not notice, a restore, and what follows the restore. Two checkpoints and a total weight of
five slots, so that each of the two ceilings evicts. Two durations for a layout, since an
arrangement recomputed in another time is another content. `NothingStale` is that what is derived
is what its inputs give, that an arrangement fits the view it arranges, and that what is selected,
highlighted or captioned is on screen.

**`bookmarks`.** The instance of `shared` without references, captions and colours, one capture, and
three payloads of another session: one with the members in the other order and one calculation,
one that names its only node twice and one that highlights a node it does not hold. Four
revisions: enough to come to the subset revision a payload names, to restore it and to calculate
afresh. The first payload shows why a predicate by calculation must be evaluated again although neither
the view nor the predicates changed; the others are refused, and without the refusal of the last the
property fails.

**`doors`.** The instance of `shared` with style arguments, appearances of two colours and two looks,
two choices of output (a document and an image) and a caller with an answer of this session or of one that ended. Three commits of peers:
one before the answer, one between the answer and the act, one between a preview and its download.
`CurrentAnswersHold` says what a current stamp is worth, `ActsOnWhatItRead` what a stamped act is,
`FinalIsItsPreview` what a download is.

**`publication`.** Two sockets and one other caller, one request each, a bus of one snapshot (the
smallest that can lap a receiver, and three commits lap it), and two attaches per client, so that a
lapped client comes back. Two requests prepared on the same revision, a commit between a
subscription and its greeting, a broadcast while the client waits for its own answer: all happen.
`ShownMeetsTheBus` includes that the bus is the log, in order.

**`render_lock`.** One picture, one request, one private read, one saved view and one attach, each a
single call.

**`savedviews`.** Two jobs, two names, room for one view, two explorations, two selections, three
revisions, and a durable catalog. Jobs are interchangeable, and so are names: the configuration
uses that symmetry, and checks no liveness. Three revisions let a capture, a foreign change and a
mark follow one another while the second job does the same. `CleanMarkerNamesItsPayload` is the
promise of the documentation, an exploration shown as saved is what the catalog holds; it holds
only as long as no two jobs overlapped and every write was acknowledged (`apart`), and the property
says so. Four things break it otherwise: the two saves of `savedviews_race`; a save and a delete of
one name interleaved as store, remove, clear, mark; a delete between a restore's read and its
commit; and a store or a removal that took effect but was not acknowledged, or was made by another
process on the same file.

**`catalog`.** Two viewers, two names, room for one view, three requests in all, one power loss, and
an initial file of any content, unreadable or of another build included. Three requests let one be
acknowledged, one be killed between its rename and its end, and one come after both.

**`querystore`.** Three callers, two of one session, in two processes (`Apart`), two requests in all,
two names, two queries and one that is too long, ceilings of two saved and one recorded. With
`ProcessOf <- Together`, two sessions of one process, `NeverHalfWritten` fails: see below.

**`reading`.** Inputs are chosen on both sides of each ceiling: values that just fit and just do not,
tables cut by rows and by bytes, a page of exactly its limit, a query whose engine drops rows before
this code does, schemas and columns of four values with ties, integers and floats where not every
integer is a float, responses of each message type in every order of their frames and damaged in one
word, graphs of six nodes (every subset of eight links), fans of two types on canvases too small,
full and roomy. The ceilings are small numbers that every such input reaches (five items, cells of 30
bytes, pages of 31, records of 70, answers of 115). A state is one step of one reader; nothing interleaves. Each compound property lists
its parts by name in `Reading.tla`.

**`lifecycle`.** A server started each way with every failure on the way, at most two signals, at most
one query and one fork; two files of two pieces changed twice each while two calls fingerprint them;
two commands of twelve invocations in one directory.

All bounds are constants: `MaxInFlight`, `MaxPicked`, `MaxRevision`, `MaxRequests`, `MaxAttaches`,
`MaxCaptures`, `MaxLosses`, `MaxStamp`, `MaxSignals`. The code's own limits (`MaxLoadedNodes`,
`MaxCheckpoints`, `MaxViews`, `BusCapacity`, `MinSlots`, `QueryRows`, `PageBytes`, ...) are constants
too, given small values. Runs whose bound ends every behaviour, or whose program ends, say
`CHECK_DEADLOCK FALSE`; `mirror` does check deadlock.

For every property of a passing run `PROJECT.json` names a *mutant*: a plausible bug, kept beside
the definition it replaces (the operators marked "Seeded fault"), with which that run fails. They
show that the properties can be violated at these bounds. A compound property has one for each of
its parts that a bug could break alone.

## Fairness

`Publication` assumes weak fairness of

- the steps of a request that was prepared: they run in `spawn_blocking` closures, which the
  runtime runs to the end even if the task that awaits them is dropped;
- `Greet`: the second half of `attach`, in such a closure too;
- `HandleUpdate` or `Lagged`: the `select!` of the serve loop turns to a bus that has something.

Nothing makes users ask, attach, leave or give up: these have no fairness. A mutex is not fair
either, but each caller makes boundedly many requests, so one that waits for the gate gets it in
the end; the model does not claim that a gate under endless traffic starves nobody.

`ViewCatalog` assumes that a request which is neither killed nor stalled takes its next step: a
transaction is straight-line code, and waiting for the lock is a loop that ends by the clock. A
stalled viewer never steps again, and the others have to end without it.

`QueryStore` assumes that a caller's own next step is taken (`Step`): straight-line code under a
mutex that every path, refusal and failure releases. A killed process's requests end with it.

`LifeSpec` assumes that both event loops run what is ready (`Starting`, `StopServing`,
`LeaveRuntime`), that a Python caller in `close()` goes on once the thread has ended
(`CloseEnd("owner")`), and, for the command only, that a query ends by its deadline (`QueryEnds`):
the wheel counts on no such thing. Signals, forks, closes and drops have no fairness.

`LockSpec` assumes that each caller takes its next step while it can. The violation does not rest
on a caller that is passed over: the locks are never free again.

## Proofs

`SlotSpace_proofs` proves about `SlotSpace`, for every source graph, every pair of limits and every
compaction threshold and ratio below one:

| theorem | establishes |
|---|---|
| `SlotSpaceInvariant` | `Spec => []IInv`, the inductive invariant |
| `SlotSpaceTypeOK` | `Spec => []TypeOK` |
| `SlotSpaceSlotsAgree` | `Spec => []SlotsAgree` |
| `SlotSpaceLinksFaithful` | `Spec => []LinksFaithful` |
| `SlotSpaceBounded` | `Spec => []SpaceBounded` |
| `SlotSpaceKeepsEntries` | `Spec => SlotKeepsItsEntry` |

Assumptions (all in `SlotView` and `SlotSpace`, evaluated by TLC on every run): types are listed
once and are not nodes, nodes and relationships are finite sets with their types and ends, limits
are natural numbers, the ratio lies strictly between zero and one and the threshold is positive.

The invariant is

    IInv ==  view has its type
          /\ Coherent(view)         \* maps, prefix of types, counters, links
          /\ WithinLimits(view)     \* nodes and relationships loaded
          /\ ~ShouldCompact(view)   \* no committed view is sparse
          /\ slice.slot_count = Len(view.entries)

None of the properties is inductive alone. Links are kept faithful only if `node_slot` finds the
right slot; collapsing keeps the counter exact only if each node has one slot; compaction keeps
the type prefix only because types are live and come first. `SpaceBounded` needs the counter, the
limits, and the fact that every request ends by compacting a sparse view: from the first two the
live slots are at most the types and the limit, from the third the holes are less than the ratio
of all slots. The proof shows once that a compacted view is dense, since it has no holes at all.

It is laid out by operator: a lemma that each of `InternNodes`, `AddEdges`, `TombstoneSlots` and
`Compact` keeps each part of `Coherent`, with lemmas about counting live slots under them
(`NewSlot` is a strictly increasing bijection onto the kept positions), then what `FinishSlice`
does with any coherent view, then one step per request.

### SharedState

`SharedState_proofs` (on top of `SlotSpace_proofs`) proves, for every source, every set of filters,
appearances, captions, kernels and timings, all ceilings of the history and any number of revisions:

| theorem | establishes |
|---|---|
| `SharedStateInvariant` | `SharedSpec => []SharedIInv` |
| `SharedStateNothingStale` | `SharedSpec => []NothingStale` |
| `SharedStateCalculationsHonest` | `SharedSpec => []CalculationsHonest` |
| `SharedStateMarkerHonest` | `SharedSpec => []MarkerHonest` |
| `SharedStateRevisionsName` | `SharedSpec => RevisionsNameTheirParts` |
| `SharedStateRestoreExact` | `SharedSpec => RestoreExact` |
| `SharedStateChangesRecoverable` | `SharedSpec => ChangesRecoverable` |
| `SharedStateKeepsSlots` | `SharedSpec => [](SlotsAgree /\ LinksFaithful /\ SpaceBounded)` |

    SharedIInv ==  types
               /\ StateFits(view, settings)   \* Sound(view), settings and calculations that fit it
               /\ CachesFresh                 \* the derived parts are what they are derived from
               /\ MarkerHolds                 \* placed in the past; if on this content, then of it
               /\ HistoryHolds                \* StateFits for each checkpoint, and `was` is its content
               /\ HistoryBounded

`NothingStale` alone is not inductive for two reasons. The caches are recomputed only when the
entries, the links or an input moved, and the subset is computed from the *loaded nodes*, which
are kept in the hash map and not in the entries: that entries decide who is loaded needs `Sound`,
the slot space's own invariant, so that is carried along. And a restore puts back a view and
settings nobody checks again: they were checked when the checkpoint was taken, so `StateFits` must
hold of every checkpoint, too. It goes on holding because revisions only grow: a calculation of an old
checkpoint names a subset revision at most the present one, and, if it names the present one, then the
nodes and relations it ran on are the visible ones still. That a calculation's identity is new
needs its stamp to be below the present revision.

`SharedStateKeepsSlots` is what carries the slot space's theorems to the server: its requests are
the only ones that move a view, and an old view that comes back is sound, limits included.

The total weight of a history is a sum, a recursive function. What is proved of it (it is defined,
it is unique, it grows by one weight with a push and shrinks with an eviction) is proved by the
least counterexample (`LeastOf`, from the well-foundedness of `<` on the natural numbers), since
the induction theorems of the library take an operator and cannot be cited here. The proofs about
`SlotMirror` do the same for the slices on a wire.

### SlotMirror

`SlotSpace_proofs` goes on to the client:

| theorem | establishes |
|---|---|
| `SlotMirrorInvariant` | `MirrorSpec => []MirrorIInv` |
| `SlotMirrorReplayAgrees` | `MirrorSpec => []ReplayAgrees` |
| `SlotMirrorIsSlotSpace` | `MirrorSpec => Spec`: a lagging client changes nothing in the slot space |

For every source, limits, ratio and number of slices in flight. `ReplayAgrees` is about the end of a
replay; the invariant is about each step of it. It says that there is a `Trail` of views the client
lags behind by: the first has the client's screen, each slice on the wire leads from one screen to
the next (`Follows`), and the last is the session's view. Every view of the trail is `Coherent`,
and that is what makes a slice applicable: the client finds a node's slot by its own map, and a
remap by the client and `Compact` by the session renumber alike only if holes are the same in both.
`ApplySlice` is proved to lead from a screen to the next for a plain slice, for one that compacts,
and for the snapshot of a rejoin.

### Doors

`SharedState_proofs` goes on to prove about one caller among any number of commits of its peers:

| theorem | establishes |
|---|---|
| `DoorsInvariant` | `DoorsSpec => []DoorsIInv` |
| `DoorsCurrentAnswersHold` | `DoorsSpec => []CurrentAnswersHold` |
| `DoorsActsOnWhatItRead` | `DoorsSpec => []ActsOnWhatItRead` |
| `DoorsFinalIsItsPreview` | `DoorsSpec => []FinalIsItsPreview` |

`DoorsIInv` is `SharedIInv`, that no stamp of this session is from the future, and that what was told
under the current stamp is what would be told now. Every commit takes a new revision, so it makes
all stamps stale at once; only the visible part outlives a commit, under the subset revision, and
for that the invariant has a clause of its own. Beside the assumptions of `SharedState`, it
uses that a styled appearance is an appearance (`StyleAssumption`), which is why `MCDoors` has every combination of
its two colours and two looks.

### BookmarkRestore

`SharedState_proofs` ends with saved views among the shared requests:

| theorem | establishes |
|---|---|
| `BookmarkInvariant` | `BookmarkSpec => []BookmarkIInv` |
| `BookmarkRestoresWhatWasSaved` | `BookmarkSpec => []RestoresWhatWasSaved` |
| `BookmarkKeepsPromises` | `BookmarkSpec => [](NothingStale /\ CalculationsHonest /\ MarkerHonest)` |

The second says that capture undoes restore, for any accepted payload, on any screen. The hard part is
the order of members: `Members` numbers the live nodes by counting those before each, which is a
bijection (`NodesUpToTells`, `NodesUpToOnto`), and a view made of the types and then the members in
order gives the members back (`MembersOrder`, `RestoredMembers`); coordinates come back because each
live entry has one (`RestoredArrangement`). That needs what `Valid` refuses: members once each, ends
and references inside, coordinates for all.

The third says that a restore of anybody's payload breaks nothing the exploration promises. A restored
calculation is checked by nothing, so `SharedIInv` speaks of calculations of all sessions: it bounds
the identity and the stamp only of those of `Here`, and one of another generation is never current,
whatever its revision says. `BookmarkIInv` adds `PayloadHolds`, that each calculation of each payload
could be one of this session, then and ever since. It says so of each calculation by itself, since that
identities are not shared within a payload is the restore's own check. Beside the assumptions of
`SharedState` it uses `BookmarkAssumption`: this session is not another one, foreign payloads have
the deserializer's type, what they bring of their own was run in other sessions, and a coordinate belongs
to its entry. What was run in this session comes back only in its own payloads or passed on by
another session (`PassedOnHolds`): a file edited by hand to claim it is outside the model.

### Publication

| theorem | establishes |
|---|---|
| `PublicationInvariant` | `Spec => []IInv` |
| `PublicationShownMeetsTheBus` | `Spec => []ShownMeetsTheBus` |
| `PublicationKeepsThePromise` | `Spec => KeepsThePromise`, the refinement of `SharedLog` |

For any number of clients and other callers, any bus, any number of requests. `IInv`: whoever is in the
middle of something has the gate; the log has no request twice; what is prepared was prepared on
a prefix of the log; the bus is the log but for one commit, whose caller has the gate; a live
socket's receiver stands where what its client shows ends. The refinement needs all of it: that a
commit appends one request no log has is `TasksFit` with `RequestsOnce`, that a client follows by one is
`ClientsFollow`, and that it joins at the present is the gate, held from `Subscribe` to `Greet`.

### ViewCatalog

| theorem | establishes |
|---|---|
| `ViewCatalogInvariant` | `Spec => []IInv` |
| `ViewCatalogKeepsItsWord` | `Spec => []AcknowledgedSurvives` |
| `ViewCatalogIsAtomic` | `Spec => ImplementsCatalog`, the refinement of `AtomicCatalog` |

For any viewers, names, payloads and quota, any number of kills, stalls and power losses. `IInv` says
what the place a request is at says of the disk (`Stands`): from `changed` to `synced` its copy is
the file with its one change, `staged` and `synced` that the staging file is exactly that copy; and
that every file that could become the catalog, those before an unsynced rename
included, holds what was acknowledged. A staged file that belongs to the lock's owner is what makes
the one staging name safe.

### SavedViews

| theorem | establishes |
|---|---|
| `SavedViewsInvariant` | `Spec => []IInv` |
| `SavedViewsMarkerIsTrue` | `Spec => []CleanMarkerNamesItsPayload` |
| `SavedViewsLosesNothing` | `Spec => NothingLostUnasked` |
| `SavedViewsStoresItsCapture` | `Spec => StoresWhatItCaptured` |

For any jobs and names. A capture is of a revision that is past, so `IInv` remembers every content by
its revision (`past`, a ghost of the model) and says that a save carries the one at its stamp. While
`apart` holds, at most one job is under way, and either the marker names what the catalog holds or the job that
will clear or place it is one step from doing so.

### QueryStore

| theorem | establishes |
|---|---|
| `QueryStoreInvariant` | `SessionsApart` implies `Spec => []StoreIInv` |
| `QueryStoreNeverHalfWritten` | `SessionsApart` implies `Spec => []NeverHalfWritten` |
| `QueryStoreLosesNothingElse` | `SessionsApart` implies `Spec => LosesNothingElse` |

For any callers, names, queries and ceilings, any number of requests, kills and removals.
`SessionsApart`, no two sessions in one process, is what the command line gives; with `Together`,
two servers of one Python process, TLC finds the store torn. `StoreIInv` says that whoever has the
turn of its session is alone in its process, that the temporary file it filled is its copy, and that
its copy is `Kept` from the file it read: the file that is still there, unless the last writer was
another session. That an edit of a sound file is sound and keeps the rest is a lemma for each edit
(`SavedSound`, `DeletedSound`, `RecordedSound`), on what `Without` (Rust's `retain`) leaves of a
sequence.

### Lifecycle

`Lifecycle_proofs` proves about `LifeSpec`, for any files, writes, commands, signals and processes:

| theorem | establishes |
|---|---|
| `LifecycleInvariant` | `LifeSpec => []WholeIInv` |
| `SourceServesWhatItNamed` | `LifeSpec => []ServesWhatItNamed` |
| `LifecycleStopLeavesNothing` | `LifeSpec => []StopLeavesNothing` |
| `CommandsAnswerIsOnDisk` | `LifeSpec => []AnswerIsOnDisk` |

`WholeIInv` has a part for each module, and each form of the program moves one part only:

- `SourceIInv`: as long as the file's identity is the captured one, what was read so far is what that
  identity stood for, be it in the middle of a load or of a hash. A visible write makes the stamp
  differ from every captured one for good, since stamps grow; writes that preserve the stamp are
  remembered (`sly`), and the property excepts them.
- `CommandsIInv`: a command's file is empty or its own, unless a rival was asked for the same name.
- `LifeIInv`: no port before it is bound and none once the server is on its way down (`PortHonest`); a
  spill that outlives the server is one a query still holds, or an interpreter that exited left
  (`SpillHonest`); the signal handler is armed before the line is out (`StageHonest`); a handle exists
  once its server serves, and a close that has returned found it gone (`HandleHonest`).

It assumes of the source that its bound on stamps is a number and that no file and no content is the
absence of one (`SourceAssumption`).

### Reading

`Reading_proofs` proves about `ReadSpec`, for any values, tables, texts, queries, schemas, graphs,
columns, responses, cells and predicates, and any ceilings:

| theorem | establishes |
|---|---|
| `PagesMeetHolds` | `ReadSpec => []PagesMeet` |
| `CellsAreWholeOrMarkedHolds` | `ReadSpec => []CellsAreWholeOrMarked` |
| `ColoursCoverTheTypeHolds` | `ReadSpec => []ColoursCoverTheType` |
| `SchemaIsSoundHolds` | `ReadSpec => []SchemaIsSound` |
| `ResponsesArriveWholeHolds` | `ReadSpec => []ResponsesArriveWhole` |
| `FiltersAreExactHolds` | `ReadSpec => []FiltersAreExact` |
| `AnswersArePrefixesHolds` | `ReadSpec => []AnswersArePrefixes` |

A reader gets most answers in one step. There the invariant (`CellsHold`, `StatsHold`, `SchemaHolds`,
`FiltersHold`, `AnswersHold`) says that the answer is the function of the question that the action names,
and what has to be proved is a lemma about that function. Two readings take many steps:

- *Pages* (`PagesHold`): what was read is a chain of pages from zero, the offset is the end of the last,
  and it is a boundary of the text or an index of the rows. That each page advances is what `Fitting`
  gives: a page of items has room for the largest cell (`PageAssumption`), a page of records says
  `truncated` when its first row does not fit.
- *Frames* (`WireHolds`): what a client hears `Travels`: the frames of one response after another, each
  until its last one, by when all the others were there, since a delivery may reorder and repeat frames
  but keeps the last one last (`DeliveriesAre`). What the assembler `Holds` is what the frames
  heard of the present response say, each at its place, so that order and repetition change nothing
  (`AssembleHolds`) and the last frame finds everything there (`CompleteIs`).

The lemmas that carry the rest:

- *Walks over values.* A walk that nothing stops met nothing it refuses (`StopIs`). What a record or a path
  is then shown as is made of `Fine` parts only, no record and nothing too long (`ShownFine`,
  `PreviewFine`), and its JSON writes digits for what JavaScript would round and takes no more bytes than the
  typed form (`JsonIs`), so the typed cell of a query is never shown without its JSON.
- *References.* What a row names is gathered by a fold that gives up when a ceiling is reached, so the
  invariant of the fold (`AllNamed`) is that it named everything met so far and both ends of every
  relationship, or has given up.
- *Order.* A finite set under a total order, each element numbered by how many come before it, is a
  sequence (`RankedIs`), and what is cut off its end comes after what is kept (`FirstRanked`). Ties are
  why `SchemasAssumption` says that a type has one name and a triple one count.
- *Numbers.* An integer and a float compare as their halves do (`CompareIs`) although the code never
  converts the integer: a float beyond every integer, or between two, is decided by its sign or its
  whole part.

What is assumed of the inputs is their shape: the ceilings are natural numbers (`CellAssumption`,
`PageAssumption`, `QueryAssumption`, `SchemaAssumption`, `WireAssumption`, `FilterAssumption`), values
are what a walk can meet (`IsValue`), rows, columns and responses are sequences of them
(`ReadingAssumption`, `QueriesAssumption`, `ColumnsAssumption`, `TalksAssumption`), graphs are finite
(`SchemasAssumption`), an integer has the width the code gives it and a predicate asks for a range of
numbers (`FieldsAssumption`, what the deserializer of `subset.rs` accepts). TLC evaluates all of them
on the instance of `reading`.

### What stays with TLC

Only model-checked, and why:

- *Liveness*: `ClientsCatchUp`, `RequestsEnd`, `RequestsAreAnswered`, `StoreAnswers`, `StopsReturn`. Fairness and
  ENABLED are out of the prover's reach.
- `PicturesAreHonest`: that a plan does not depend on the order of the links, that hops are distances
  and that groups are connected and better than none is graph theory by induction over walks and merges.

## Where the code and its promises differ

Two have a run of their own.

**An older save can lie under a newer clean marker** (`savedviews_race`). Two saves of one name:
the older writes last, but its conflict is handled before the newer one's marker is placed, so the
marker it should clear is not there yet. The test at `views_api.rs:487` promises otherwise, and
checks only the other order.

**A picture of the live view can stop the server for ever** (`render_lock`). `live_scene` keeps its
read guard on the session (`render/mod.rs:1164`) and reads the session again before it lets go
(`:1286`, `:1287`). A commit that comes to wait in between keeps the second read out, and waits for
the first; it holds the gate, so every later request, read and attach waits too. The comment of the
route (`api.rs:217-219`) gives stalling nobody as the reason for its own thread.

Others were met while the models were written. Those the models contain are named with the place:

- *A restored checkpoint reuses slots without a compaction.* `view.rs:18-19` and
  `docs/concepts/protocol.md:76-78` say that compaction is the only event that reuses a slot. A
  history restore brings back the checkpoint's whole numbering with `compacted: false`
  (`SharedState`). Browsers adopt whole snapshots and are not misled; a caller that keeps slot
  numbers by the documented rule is.
- *Two sessions of one process share a temporary file* (`queries.rs:334`; `QueryStore`, `Together`):
  one truncates what the other renames, and the store is torn.
- *A store of a newer version is not left alone* (`queries.rs:270` against `:318`;
  `NewerStoreLeftAlone` states the comment, no run checks it): it is read without looking at its
  version and written back without what this version does not know.
- *`close()` of the wheel can answer false* although `docs/python.md:78` promises otherwise: in a fork,
  and beside another close. An interpreter that exits during a query leaves the spilled graph
  (`StopLeavesNothing` names these cases).
- *Ctrl-C before the future is polled* ends the command without a clean stop (`server.rs:70-91`,
  `cli.rs:307-309`): its handler is registered when polled, the one for SIGTERM before the line is
  printed (`StopLeavesNothing`).
- *The default name of an edge table* does not say whether it is of a query (`export_cmd.rs:184-190`),
  although the suffixes are there so that a second run does not overwrite the first (`OwnNames` says
  which names are apart).
- *A query cut by the session* (`session.rs:733-757`) is sent with `truncated: false`, against
  `docs/viewer/honesty.md:25`, `query.rs:33-34` and `mcp.rs:139-141`.
- *An explicit kernel `auto`* is not the same as none (`render/mod.rs:498-502` against `:178-181`);
  the doc of `RenderRequest.kernel` (`:183`) has `simulation` refused where it is not;
  `Rendered.links` counts self-loops its doc leaves out; `Rendered.truncated` stays false when only the
  canvas left types out (`PicturesSayWhatTheyLeaveOut` has it as the code does, next to the status
  line that does say it).
- *`decodeFrame` of the browser* (`protocol.ts:66`) checks neither the flags nor the padding, and
  `decode_frame` accepts a frame that lacks padding, although the text of `BadPadding`
  (`protocol.rs:286`) speaks of a boundary (`Wire.DecodeFrame` is the Rust one).
- *The browser's inspector of another client's selection* keeps its slot number across a compaction
  (`main.ts:991-993`): an answer for the old number describes another node. *A caption cleared while
  its type is off screen* comes back with its nodes. *A late close of an old socket* shows
  "disconnected" over an open one (`transport.ts`). None of these is modelled.

## What is not modelled

- The browser's own queues, private lanes, selection and captions, its panels and its drawing: user
  interface over the client's state. What a client shows of the shared state is `Publication`'s and
  `SlotMirror`'s, what it assembles is `Wire`'s.
- Numeric code: layout kernels, projection, radii, widths and colours, emission of SVG and PNG, the
  coastline; the kernels of calculations (components, degree) and the colour buckets of a mapping.
- The engine: loading, Cypher, deadlines and memory ceilings are what it answers or refuses.
- In answers: the ceiling on the length of a key (4096) and on a whole field response (256 KiB), the
  formatting of values, the wording of warnings.
- In the session: a lock poisoned by a panic; the order of links; titles of nodes.
- In bookmarks: how a member's key and a relationship's attributes are compared with the source, and
  the migration of older formats; each can only refuse.
- In the server: routes, assets, opening a browser, tool schemas; nothing there keeps state.

Components marked `partly` in `PROJECT.json` say what is missing.

## Plan

The order is by how much a mistake would cost and how little a test would reach it. Done: everything
under "Modules". To do:

1. **Proofs.** The parts of `PicturesAreHonest` that are no walk over a graph: the folds that are counted
   and the types left out.
2. **The browser client** over `SharedState`: gaps and resync, the private lanes, captions.
3. **The calculation kernels** against a definition of components and degree.
