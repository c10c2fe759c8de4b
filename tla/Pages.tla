-------------------------------- MODULE Pages --------------------------------
(***************************************************************************)
(* Answers that are cut: a list cut at a count and a byte ceiling          *)
(* (bound.rs), records read a page at a time (records.rs), and one value   *)
(* read a page at a time, down a path (field_detail.rs).                   *)
(***************************************************************************)
EXTENDS Cells

CONSTANTS
  MaxHandles, MaxFields,          \* MAX_RECORD_HANDLES, MAX_RECORD_FIELDS
  MaxRows, RecordBytes, RecordHead, \* MAX_RECORD_ROWS, MAX_RECORD_BYTES, 16 KiB
  MaxPageItems, PageBytes,        \* MAX_FIELD_PAGE_ITEMS; MAX_FIELD_DETAIL_BYTES less 64 KiB
  TextBytes                       \* MAX_TEXT_PAGE_BYTES

\* A page of items has room for the largest cell.
ASSUME PageAssumption ==
  /\ {MaxHandles, MaxFields, MaxRows, RecordBytes, RecordHead, MaxPageItems, PageBytes, TextBytes} \subseteq Nat
  /\ MaxPageItems > 0
  /\ MaxCell > 0 /\ MaxCell < PageBytes

Least(a, b) == IF a < b THEN a ELSE b
Refused == [state |-> "refused"]
NoOffset == -1

\* BoundInfo::new
BoundInfo(returned, total) == [returned |-> returned, total |-> total, truncated |-> returned < total]

\* How many of the first items fit in a room of bytes.
Fitting(sizes, room) ==
  CHOOSE k \in 0..Len(sizes) :
    /\ k = 0 \/ Sums(sizes)[k] <= room
    /\ k = Len(sizes) \/ Sums(sizes)[k + 1] > room

\* bound::apply: one item is returned, however large.
Apply(sizes, max_items, max_bytes) ==
  LET kept == SubSeq(sizes, 1, Least(Len(sizes), max_items))
      n    == IF kept = <<>> THEN 0 ELSE LET k == Fitting(kept, max_bytes) IN IF k = 0 THEN 1 ELSE k
  IN  BoundInfo(n, Len(sizes))

-----------------------------------------------------------------------------
(* Records.  A field is an operator from handles to values; a row is its   *)
(* cells, and its size is theirs.                                          *)

CellSize(c) == IF c.state = "value" THEN Written(c.value, Tag) ELSE 1
RowSize(cells) == Sum(cells, LAMBDA c : CellSize(c) + 1)

\* Seeded fault: where the next page starts does not count where this one did.
Next_FromZero(from, kept, total) == IF kept < total /\ kept > 0 THEN kept ELSE NoOffset

\* Seeded fault: an empty page has a page after it.
Next_Empty(from, kept, total) == IF from + kept < total THEN from + kept ELSE NoOffset

\* The page after, when there is more and this page was not empty.
NextOffset(from, kept, total) == IF from + kept < total /\ kept > 0 THEN from + kept ELSE NoOffset

\* column_types: what the cells of a page say, of those that say anything.
ColumnTypes(rows, c) ==
  {Kind(rows[i][c].value) : i \in {j \in DOMAIN rows : rows[j][c].state = "value"}}
    \cup {"null" : i \in {j \in DOMAIN rows : rows[j][c].state = "null"}}

\* Session::records over the rows of all the handles asked for; head is what the columns take.
Records(rows, offset, limit, head) ==
  LET from == Least(offset, Len(rows))
      page == SubSeq(rows, from + 1, Least(Len(rows), from + Least(limit, MaxRows)))
      sizes == [i \in DOMAIN page |-> RowSize(page[i])]
      kept == Fitting(sizes, RecordBytes - RecordHead)
  IN  IF Len(rows) > MaxHandles \/ \E i \in DOMAIN rows : Len(rows[i]) > MaxFields
         \/ head + Sums(sizes)[kept] > RecordBytes
      THEN Refused
      ELSE [state |-> "page", from |-> from, to |-> from + kept, rows |-> SubSeq(page, 1, kept),
            types |-> IF kept = 0 THEN <<>> ELSE [c \in DOMAIN page[1] |-> ColumnTypes(SubSeq(page, 1, kept), c)],
            next |-> NextOffset(from, kept, Len(rows)), bound |-> BoundInfo(kept, Len(rows) - from)]

-----------------------------------------------------------------------------
(* One value, down a path of positions. *)

\* descend
Descend(v, path) ==
  LET Step(at, k) ==
        IF at.state # "found" THEN at
        ELSE IF Kind(at.value) \notin Collections THEN [state |-> "unavailable"]
        ELSE IF k > Len(ItemsOf(at.value)) THEN [state |-> "missing"]
        ELSE [state |-> "found", value |-> ItemsOf(at.value)[k]]
      at[k \in 0..Len(path)] == IF k = 0 THEN [state |-> "found", value |-> v] ELSE Step(at[k - 1], path[k])
  IN  at[Len(path)]

(***************************************************************************)
(* text_page.  A text is the widths of its characters; pages begin and end *)
(* between characters.                                                     *)
(***************************************************************************)
Boundaries(widths) == {Sums(widths)[k] : k \in 0..Len(widths)}

TextPage(widths, offset) ==
  LET size == Sums(widths)[Len(widths)]
      end  == CHOOSE b \in Boundaries(widths) :
                /\ b <= Least(offset + TextBytes, size)
                /\ \A c \in Boundaries(widths) : c <= Least(offset + TextBytes, size) => c <= b
  IN  IF offset \notin Boundaries(widths) THEN Refused
      ELSE [state |-> "page", from |-> offset, to |-> end, next |-> IF end < size THEN end ELSE NoOffset]

\* bounded_page over the cells of a container; an item alone too large is refused.
ItemPage(items, offset, limit) ==
  LET page == SubSeq(items, offset + 1, Least(Len(items), offset + Least(limit, MaxPageItems)))
      sizes == [i \in DOMAIN page |-> CellSize(Cell(page[i])) + 1]
      kept == Fitting(sizes, PageBytes)
  IN  IF kept = 0 /\ page # <<>> /\ sizes[1] > PageBytes + 1 THEN Refused
      ELSE [state |-> "page", from |-> offset, to |-> offset + kept,
            next |-> NextOffset(offset, kept, Len(items))]

\* page_value and its validation: the cell, and the page of a text, list or map.
FieldDetail(v, path, offset, limit) ==
  LET found == Descend(v, path)
  IN  IF Len(path) > MaxDepth \/ limit = 0 THEN Refused
      ELSE IF found.state # "found" THEN [state |-> "cell", cell |-> found]
      ELSE CASE Kind(found.value) = "text" -> TextPage([i \in 1..found.value[1].n |-> 1], offset)
             [] Kind(found.value) \in Collections -> ItemPage(ItemsOf(found.value), offset, limit)
             [] OTHER -> [state |-> "cell", cell |-> Cell(found.value)]
=============================================================================
