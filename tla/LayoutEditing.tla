--------------------------- MODULE LayoutEditing ---------------------------
(***************************************************************************)
(* A canvas of blocks in rows, arranged by several owners.  Each owner     *)
(* drags, resizes, hides and restores blocks in a draft of the layout;     *)
(* saving merges the draft, the layout it was made from and the one the    *)
(* server has by now.  What is stored of a layout (rows, widths, preferred *)
(* widths, widths chosen for a block alone) is not what is shown: hidden   *)
(* blocks keep their places in the stored rows, and every row is balanced  *)
(* to the canvas each time it is shown.                                    *)
(*                                                                         *)
(* Code: src/report-site/src/block-layout.js, presentation-state.js,       *)
(* components/SortableRegion.jsx and use-sortable-blocks.js.  One canvas   *)
(* region, one authored revision; where the pointer is, and so which       *)
(* target and side a drag proposes, is any choice.                         *)
(***************************************************************************)
EXTENDS Integers, FiniteSets, SequencesExt, FiniteSetsExt

CONSTANTS
    Owners,         \* those who may edit, each in one tab
    Blocks,         \* the region's blocks
    Locked,         \* those the author fixed in place
    Columns,        \* width of the canvas
    Widths,         \* bound: widths an owner chooses
    MaxItems,       \* most blocks a drop may leave in a row
    Minimum,        \* narrowest width of each block
    AuthoredSpan,   \* width of each block as authored
    AuthoredRows,   \* rows as authored: each block in one of them
    NoLayout,       \* nothing stored yet, or no drag going on
    MaxEdits,       \* bound: edits, of all owners together
    FirstEdit       \* bound: how many of them a region nobody saved has used

\* The members of a sequence that are in a set, in their order.
Among(s, S) ==
    LET kept[n \in 0..Len(s)] ==
            IF n = 0 THEN <<>>
            ELSE IF s[n] \in S THEN Append(kept[n - 1], s[n])
            ELSE kept[n - 1]
    IN  kept[Len(s)]

RowIds(rows) == {rows[i].id : i \in DOMAIN rows}
Held(rows) == UNION {ToSet(rows[i].items) : i \in DOMAIN rows}

\* Rows with different ids that hold each block of a set once, and no other.
Partition(rows, blocks) ==
    /\ \A i, j \in DOMAIN rows : i # j =>
           rows[i].id # rows[j].id /\ ToSet(rows[i].items) \cap ToSet(rows[j].items) = {}
    /\ \A i \in DOMAIN rows : IsInjective(rows[i].items)
    /\ Held(rows) = blocks

ASSUME LayoutAssumption ==
    /\ Locked \subseteq Blocks
    /\ Columns \in 1..12 /\ Widths \subseteq 1..Columns /\ MaxItems \in Nat \ {0}
    /\ Minimum \in [Blocks -> 1..Columns]
    /\ AuthoredSpan \in [Blocks -> 1..Columns]
    /\ AuthoredRows \in Seq([id : RowIds(AuthoredRows), items : Seq(Blocks)])
    /\ Partition(AuthoredRows, Blocks)
    /\ MaxEdits \in Nat /\ FirstEdit \in 0..MaxEdits

VARIABLES
    stored,     \* what the server holds: a layout and the hidden blocks
    base,       \* what each owner's draft was made from
    draft,      \* what each owner has now
    drag,       \* each owner's drag: the block and the layout it previews
    edits       \* edits so far, bounded by MaxEdits

vars == <<stored, base, draft, drag, edits>>

-----------------------------------------------------------------------------
(* Layouts.  A width of 0 is a width the layout does not have.             *)

NoWidths == [b \in Blocks |-> 0]

\* The same function with the widths of `more` where it has any.
Over(widths, more) == [b \in Blocks |-> IF more[b] # 0 THEN more[b] ELSE widths[b]]

Position(b, items) == CHOOSE i \in DOMAIN items : items[i] = b
BlocksIn(rows) == FlattenSeq([i \in DOMAIN rows |-> rows[i].items])
IndexOfRow(rows, id) == SelectInSeq(rows, LAMBDA row : row.id = id)
IndexOfBlock(rows, b) ==
    CHOOSE i \in DOMAIN rows : \E j \in DOMAIN rows[i].items : rows[i].items[j] = b
RowOf(rows, b) == rows[IndexOfBlock(rows, b)].id

\* Every row restricted to the blocks of a set.
Only(rows, blocks) ==
    [i \in DOMAIN rows |->
        [rows[i] EXCEPT !.items = Among(@, blocks)]]

\* The rows with other blocks in the i-th.
WithItems(rows, i, items) ==
    [j \in DOMAIN rows |-> IF j = i THEN [id |-> rows[i].id, items |-> items] ELSE rows[j]]

\* What can be saved: such rows, and no width greater than the canvas's.
Accepted(value) ==
    value.layout # NoLayout =>
        /\ Partition(value.layout.rows, Blocks)
        /\ {value.layout.spans, value.layout.preferred, value.layout.solo}
               \subseteq [Blocks -> 0..Columns]

-----------------------------------------------------------------------------
(* Balancing a row: blocks give way, the one with most to give first, until *)
(* the row fits, and take what is left, the furthest below its preferred   *)
(* width first.  Some rows cannot be balanced.                             *)

TotalOf(widths, items) == FoldLeft(LAMBDA sum, b : sum + widths[b], 0, items)

\* The first of some blocks that have most to spare.
Roomiest(widths, giving) ==
    LET Spare(b) == widths[b] - Minimum[b]
    IN  FoldLeft(LAMBDA best, b : IF Spare(b) > Spare(best) THEN b ELSE best,
                 giving[1], giving)

\* One column less for it; NoWidths once no block can give any.
Narrower(widths, items) ==
    LET giving == Among(items, {b \in Blocks \ Locked : widths[b] > Minimum[b]})
    IN  IF giving = <<>> THEN NoWidths ELSE [widths EXCEPT ![Roomiest(widths, giving)] = @ - 1]

\* The first of some blocks that are furthest behind what they want.
Neediest(widths, wanted, taking) ==
    LET Lags(b, c) == widths[b] * wanted[c] < widths[c] * wanted[b]
    IN  FoldLeft(LAMBDA best, b : IF Lags(b, best) THEN b ELSE best, taking[1], taking)

\* One column more for it.
Wider(widths, items, wanted) ==
    LET taking == Among(items, Blocks \ Locked)
    IN  IF taking = <<>> THEN widths
        ELSE [widths EXCEPT ![Neediest(widths, wanted, taking)] = @ + 1]

Shrink(widths, items) ==
    FoldLeft(LAMBDA w, step : Narrower(w, items), widths,
             [step \in 1..(TotalOf(widths, items) - Columns) |-> step])

Grow(widths, items, wanted) ==
    FoldLeft(LAMBDA w, step : Wider(w, items, wanted), widths,
             [step \in 1..(Columns - TotalOf(widths, items)) |-> step])

\* The widths of a row's blocks, or NoWidths if they cannot share it.
RebalanceBlockRow(items, current, preferred, fill, most) ==
    LET AtLeast(b, width) == IF width > Minimum[b] THEN width ELSE Minimum[b]
        wanted == [b \in Blocks |-> AtLeast(b, Over(Over(AuthoredSpan, current), preferred)[b])]
        start == [b \in Blocks |-> IF b \notin ToSet(items) THEN 0
                                   ELSE AtLeast(b, Over(wanted, current)[b])]
        fitted == Shrink(start, items)
    IN  IF items = <<>> \/ Len(items) > most \/ TotalOf(Minimum, items) > Columns
           THEN NoWidths
        ELSE IF fill /\ fitted # NoWidths THEN Grow(fitted, items, wanted)
        ELSE fitted

\* The same with the width chosen for the block when it is alone in its row.
BalancedRow(items, layout, widths, most) ==
    LET alone == Len(items) = 1
        chosen == IF alone THEN Over(widths, layout.solo) ELSE widths
    IN  RebalanceBlockRow(items, chosen, layout.preferred,
                          ~alone \/ layout.solo[items[1]] = 0, most)

-----------------------------------------------------------------------------
(* What an owner sees of a draft.                                          *)

\* The i-th authored row, when it is lacking, before the one it was authored before.
Reinsert(rows, i) ==
    LET next == IF i = Len(AuthoredRows) THEN 0 ELSE IndexOfRow(rows, AuthoredRows[i + 1].id)
    IN  IF AuthoredRows[i].id \in RowIds(rows) THEN rows
        ELSE InsertAt(rows, IF next = 0 THEN Len(rows) + 1 ELSE next,
                      [id |-> AuthoredRows[i].id, items |-> <<>>])

\* A block that no row has in its authored row.
Place(rows, b) ==
    LET at == IndexOfRow(rows, RowOf(AuthoredRows, b))
    IN  IF b \in Held(rows) THEN rows
        ELSE WithItems(rows, at, Append(rows[at].items, b))

\* Saved rows completed with authored rows, the last first, and with blocks.
Completed(saved) ==
    LET last == Len(AuthoredRows)
    IN  FoldLeft(Reinsert, saved, [n \in 1..last |-> last + 1 - n])

ReconcileBlockRows(saved) == FoldLeft(Place, Completed(saved), BlocksIn(AuthoredRows))

FullRows(value) ==
    IF value.layout = NoLayout THEN AuthoredRows ELSE ReconcileBlockRows(value.layout.rows)

Saved(value, field) == IF value.layout = NoLayout THEN NoWidths ELSE value.layout[field]

\* Mutant: only rows with something to see are kept.
RetainedVisible(full, hidden) ==
    {full[i].id : i \in {j \in DOMAIN full : ~(ToSet(full[j].items) \subseteq hidden)}}

\* The rows to keep though they look empty, for a hidden block is in them.
RetainedRowIds(full, hidden) ==
    {full[i].id : i \in {j \in DOMAIN full : ToSet(full[j].items) \cap hidden # {}}}

\* The widths of a layout with every row balanced.
Balanced(layout) ==
    LET Balance(widths, row) ==
            Over(widths, BalancedRow(row.items, layout, layout.spans, Cardinality(Blocks)))
    IN  FoldLeft(Balance, layout.spans, layout.rows)

\* The layout shown: visible blocks only, and every row balanced.
Region(value) ==
    LET visible == Blocks \ value.hidden
        full == FullRows(value)
        Clamp(width) == IF width > Columns THEN Columns ELSE width
        Visible(widths) == [b \in Blocks |-> IF b \in visible THEN Clamp(widths[b]) ELSE 0]
        unbalanced == [rows |-> Only(full, visible),
                       spans |-> Visible(Over(AuthoredSpan, Saved(value, "spans"))),
                       preferred |-> Visible(Over(AuthoredSpan, Saved(value, "preferred"))),
                       solo |-> Saved(value, "solo"),
                       retained |-> RetainedRowIds(full, value.hidden)]
    IN  [unbalanced EXCEPT !.spans = Balanced(unbalanced)]

\* The width each visible block has on the screen.
Shown(layout) ==
    LET InRow(widths, row) ==
            LET alone == Len(row.items) = 1
            IN  Over(widths, RebalanceBlockRow(row.items, layout.spans, layout.preferred,
                                 ~alone \/ layout.solo[row.items[1]] = 0, Cardinality(Blocks)))
    IN  FoldLeft(InRow, layout.spans, layout.rows)

-----------------------------------------------------------------------------
(* Moving and resizing.                                                    *)

Beside == {"before", "after"}
Apart == {"above", "below"}

\* The id of a row made for a block: the first of row:b, row:b:2, ... not used.
UniqueRowId(rows, b) ==
    <<b, CHOOSE n \in 1..(Len(rows) + 1) :
            /\ <<b, n>> \notin RowIds(rows)
            /\ \A m \in 1..(n - 1) : <<b, m>> \in RowIds(rows)>>

\* Rows made by a drop end with it once they are empty; authored ones stay.
IsMade(id) == id \notin RowIds(AuthoredRows)

\* Where the block would be: the rows, and the index of the row it is in.
Placed(rows, b, target, placement) ==
    LET without == Only(rows, Blocks \ {b})
        at == IndexOfBlock(rows, target)
        new == at + (IF placement = "below" THEN 1 ELSE 0)
        position == Position(target, without[at].items)
                       + (IF placement = "after" THEN 1 ELSE 0)
    IN  IF placement \in Apart
        THEN [rows |-> InsertAt(without, new,
                          [id |-> UniqueRowId(without, b), items |-> <<b>>]), at |-> new]
        ELSE [rows |-> WithItems(without, at, InsertAt(without[at].items, position, b)), at |-> at]

\* The layout after a move, or NoLayout if the move is refused.
ResolveCanvasMove(layout, b, target, placement) ==
    LET rows == layout.rows
        from == IndexOfBlock(rows, b)
        to == IndexOfBlock(rows, target)
        placed == Placed(rows, b, target, placement)
        joined == placed.rows[placed.at].items
        inRow == from = to /\ placement \in Beside
        even == [c \in Blocks |-> IF c \in ToSet(joined) THEN Columns \div Len(joined) ELSE 0]
        widths == IF from # to /\ placement \in Beside THEN even ELSE layout.spans
        entered == IF inRow THEN NoWidths ELSE BalancedRow(joined, layout, widths, MaxItems)
        left == Among(rows[from].items, Blocks \ {b})
        vacated == IF inRow \/ left = <<>> THEN NoWidths
                   ELSE BalancedRow(left, layout, layout.spans, MaxItems)
        kept == Among(placed.rows, {row \in ToSet(placed.rows) :
                    row.items # <<>> \/ ~IsMade(row.id) \/ row.id \in layout.retained})
        InPlace(c) == Position(c, BlocksIn(kept)) = Position(c, BlocksIn(rows))
    IN  IF \/ b \in Locked
           \/ /\ placement \in Apart
              /\ Len(rows[from].items) = 1
              /\ from = to + (IF placement = "below" THEN 1 ELSE -1)
           \/ ~inRow /\ entered = NoWidths
           \/ ~inRow /\ left # <<>> /\ vacated = NoWidths
           \/ \E c \in Locked \cap Held(rows) : ~InPlace(c)
           \/ kept = rows
        THEN NoLayout
        ELSE [layout EXCEPT !.rows = kept,
                            !.spans = Over(Over(@, entered), vacated)]

\* What blocks of a row give, each as much as it can spare, until it is enough.
Borrowed(layout, donors, wanted) ==
    LET Spare(c) == IF layout.spans[c] > Minimum[c] THEN layout.spans[c] - Minimum[c] ELSE 0
        Borrow(so, c) ==
            LET taken == IF Spare(c) < so.wanted THEN Spare(c) ELSE so.wanted
            IN  [wanted |-> so.wanted - taken,
                 given |-> IF taken = 0 THEN so.given
                           ELSE [so.given EXCEPT ![c] = layout.spans[c] - taken]]
    IN  FoldLeft(Borrow, [wanted |-> wanted, given |-> NoWidths], donors)

\* The layout after a block is given a width: one that shares its row takes
\* it from, or gives it to, its right-hand neighbours; one alone just has it.
ResizeBlockRow(layout, b, span) ==
    LET items == layout.rows[IndexOfBlock(layout.rows, b)].items
        at == Position(b, items)
        current == layout.spans[b]
        neighbour == items[at + 1]
        donors == Among(SubSeq(items, at + 1, Len(items)), Blocks \ Locked)
        borrowed == Borrowed(layout, donors, span - current)
        given == IF span > current THEN borrowed.given
                 ELSE IF span = current THEN NoWidths
                 ELSE [NoWidths EXCEPT ![neighbour] = layout.spans[neighbour] + (current - span)]
        alone == Len(items) = 1
        change == IF alone THEN [NoWidths EXCEPT ![b] = span] ELSE [given EXCEPT ![b] = span]
    IN  IF \/ b \in Locked \/ span < Minimum[b]
           \/ ~alone /\ \/ at = Len(items)
                        \/ span = Columns
                        \/ neighbour \in Locked
                        \/ Len(items) > MaxItems
                        \/ span > current /\ borrowed.wanted > 0
        THEN NoLayout
        ELSE [layout EXCEPT !.spans = Over(@, change),
                            !.preferred = Over(@, change),
                            !.solo = IF alone THEN [@ EXCEPT ![b] = span] ELSE @]

\* A row too wide for the canvas goes on in a second line: where the last of
\* some blocks of it ends.
Flow(layout, items) ==
    FoldLeft(LAMBDA used, c : IF used + layout.spans[c] > Columns THEN layout.spans[c]
                              ELSE used + layout.spans[c], 0, items)

\* The handle between two neighbours is there when they are on one line; a
\* block alone has its own.
HandleShown(layout, b) ==
    LET items == layout.rows[IndexOfBlock(layout.rows, b)].items
        at == Position(b, items)
    IN  IF at = Len(items) THEN at = 1
        ELSE Flow(layout, SubSeq(items, 1, at)) + layout.spans[items[at + 1]] <= Columns

-----------------------------------------------------------------------------
(* Committing what was previewed.                                          *)

\* How far the visible blocks are used, and what is put in the places passed.
Walked(previous, visible, hidden) ==
    LET Walk(so, b) ==
            IF b \in hidden THEN [so EXCEPT !.items = Append(@, b)]
            ELSE IF b \in ToSet(visible) /\ so.used < Len(visible)
                 THEN [items |-> Append(so.items, visible[so.used + 1]), used |-> so.used + 1]
            ELSE so
    IN  FoldLeft(Walk, [items |-> <<>>, used |-> 0], previous)

\* A row's visible blocks in their new order, its hidden ones where they were.
PreserveHiddenBlockPositions(previous, visible, hidden) ==
    LET walked == Walked(previous, visible, hidden)
    IN  walked.items \o SubSeq(visible, walked.used + 1, Len(visible))

Commit(value, next) ==
    LET full == FullRows(value)
        WithHidden(row) ==
            IF row.id \notin RowIds(full) THEN row
            ELSE [row EXCEPT !.items = PreserveHiddenBlockPositions(
                     full[IndexOfRow(full, row.id)].items, @, value.hidden)]
    IN  [rows |-> [i \in DOMAIN next.rows |-> WithHidden(next.rows[i])],
         spans |-> Over(Saved(value, "spans"), next.spans),
         preferred |-> Over(Saved(value, "preferred"), next.preferred),
         solo |-> next.solo]

-----------------------------------------------------------------------------
(* Merging a draft into what the server has by now.                        *)

\* A longest part of the draft's order that is still in the base's order:
\* the blocks the owner did not move.
Stable(previous, next) ==
    LET Lengthen(so, b) ==
            LET end == SelectInSeq(so.tails, LAMBDA c : Position(c, previous) >= Position(b, previous))
                at == IF end = 0 THEN Len(so.tails) + 1 ELSE end
            IN  [tails |-> IF end = 0 THEN Append(so.tails, b) ELSE [so.tails EXCEPT ![end] = b],
                 chain |-> [so.chain EXCEPT ![b] =
                     {b} \cup IF at = 1 THEN {} ELSE so.chain[so.tails[at - 1]]]]
        found == FoldLeft(Lengthen, [tails |-> <<>>, chain |-> [b \in Blocks |-> {}]], next)
    IN  found.chain[Last(found.tails)]

\* An order with the i-th block of another put before the next of its blocks
\* that stayed, or after the one it follows.
Put(order, next, stable, i) ==
    LET rest == Among(order, Blocks \ {next[i]})
        after == SelectInSeq(next, LAMBDA b : b \in stable /\ Position(b, next) > i)
        at == IF after # 0 THEN Position(next[after], rest)
              ELSE IF i > 1 THEN Position(next[i - 1], rest) + 1
              ELSE Len(rest) + 1
    IN  IF next[i] \in stable THEN order ELSE InsertAt(rest, at, next[i])

\* The server's order with each block the owner moved put in the draft's place.
MergeOrder(next, stable, latest) ==
    FoldLeftDomain(LAMBDA order, i : Put(order, next, stable, i), latest, next)

\* The rows with the one of this id, placed before the row the draft has next.
WithRow(rows, id, next) ==
    LET following == SelectInSeq(next, LAMBDA row :
            row.id \in RowIds(rows) /\ IndexOfRow(next, row.id) > IndexOfRow(next, id))
        new == IF following = 0 THEN Len(rows) + 1 ELSE IndexOfRow(rows, next[following].id)
    IN  IF id \in RowIds(rows) THEN rows
        ELSE InsertAt(rows, new, [id |-> id, items |-> <<>>])

PutInRow(rows, id, next, b) ==
    LET ready == WithRow(rows, id, next)
        at == IndexOfRow(ready, id)
    IN  WithItems(ready, at, Append(ready[at].items, b))

\* Mutant: every block goes to the draft's row, moved by the owner or not.
MoveToRowAlways(rows, b, previous, next) ==
    PutInRow(Only(rows, Blocks \ {b}), RowOf(next, b), next, b)

\* Mutant: a block is put in its new row and stays in the one it was in.
MoveToRowKeeping(rows, b, previous, next) ==
    IF RowOf(next, b) = RowOf(previous, b) THEN rows
    ELSE PutInRow(rows, RowOf(next, b), next, b)

\* A block the owner put in another row goes there.
MoveToRow(rows, b, previous, next) ==
    IF RowOf(next, b) = RowOf(previous, b) THEN rows
    ELSE PutInRow(Only(rows, Blocks \ {b}), RowOf(next, b), next, b)

\* The server's rows with each block the owner put in another row moved there.
Moved(previous, next, latest) ==
    FoldLeft(LAMBDA rows, b : MoveToRow(rows, b, previous, next), latest, BlocksIn(next))

\* Those that are not empty, each in the merged order.
MergeRows(previous, next, latest, order) ==
    LET moved == Moved(previous, next, latest)
        filled == Among(moved, {row \in ToSet(moved) : row.items # <<>>})
    IN  [i \in DOMAIN filled |-> [filled[i] EXCEPT !.items = Among(order, ToSet(@))]]

MergeBlockLayout(previous, next, latest) ==
    LET Mine(was, is, theirs) == [b \in Blocks |-> IF was[b] # is[b] THEN is[b] ELSE theirs[b]]
        stable == Stable(BlocksIn(previous.rows), BlocksIn(next.rows))
        order == MergeOrder(BlocksIn(next.rows), stable, BlocksIn(latest.rows))
    IN  IF previous = NoLayout \/ latest = NoLayout \/ previous = latest THEN next
        ELSE IF previous = next THEN latest
        ELSE [rows |-> MergeRows(previous.rows, next.rows, latest.rows, order),
              spans |-> Mine(previous.spans, next.spans, latest.spans),
              preferred |-> Mine(previous.preferred, next.preferred, latest.preferred),
              solo |-> Mine(previous.solo, next.solo, latest.solo)]

Merge(previous, next, latest) ==
    [layout |-> IF previous.layout = next.layout THEN latest.layout
                ELSE MergeBlockLayout(previous.layout, next.layout, latest.layout),
     hidden |-> IF previous.hidden = next.hidden THEN latest.hidden ELSE next.hidden]

-----------------------------------------------------------------------------
Nothing == [layout |-> NoLayout, hidden |-> {}]

\* The authored layout, once it was committed and saved.
AsAuthored == [layout |-> Commit(Nothing, Region(Nothing)), hidden |-> {}]

\* (Bound: a region nobody saved yet has its edits from FirstEdit on.)
Init ==
    /\ stored \in {Nothing, AsAuthored}
    /\ base = [o \in Owners |-> stored]
    /\ draft = [o \in Owners |-> stored]
    /\ drag = [o \in Owners |-> NoLayout]
    /\ edits = IF stored = Nothing THEN FirstEdit ELSE 0

Visible(o) == Blocks \ draft[o].hidden

\* The pointer, or a key, brings a block to a side of another.
DragTo(o) ==
    /\ edits < MaxEdits /\ edits' = edits + 1
    /\ LET now == IF drag[o] = NoLayout THEN Region(draft[o]) ELSE drag[o].layout
           dragged == IF drag[o] = NoLayout THEN Visible(o) ELSE {drag[o].block}
       IN  \E b \in dragged : \E target \in Visible(o) \ {b}, placement \in Beside \cup Apart :
              LET next == ResolveCanvasMove(now, b, target, placement)
              IN  /\ next # NoLayout
                  /\ drag' = [drag EXCEPT ![o] = [block |-> b, layout |-> next]]
    /\ UNCHANGED <<stored, base, draft>>

\* The drag ends where it is: what it previews is the draft's layout.
Drop(o) ==
    /\ drag[o] # NoLayout
    /\ LET next == drag[o].layout
           changed == next.retained = {} \/ next # Region(draft[o])
       IN  draft' = IF changed THEN [draft EXCEPT ![o].layout = Commit(draft[o], next)] ELSE draft
    /\ drag' = [drag EXCEPT ![o] = NoLayout]
    /\ UNCHANGED <<stored, base, edits>>

\* Escape, a lost pointer, or the end of the session.
CancelDrag(o) ==
    /\ drag[o] # NoLayout
    /\ drag' = [drag EXCEPT ![o] = NoLayout]
    /\ UNCHANGED <<stored, base, draft, edits>>

SetBlockWidth(o) ==
    /\ drag[o] = NoLayout /\ edits < MaxEdits /\ edits' = edits + 1
    /\ LET now == Region(draft[o])
       IN  \E b \in {c \in Visible(o) : HandleShown(now, c)}, span \in Widths :
              LET next == ResizeBlockRow(now, b, span)
              IN  /\ next # NoLayout
                  /\ draft' = [draft EXCEPT ![o].layout = Commit(draft[o], next)]
    /\ UNCHANGED <<stored, base, drag>>

\* One block is hidden; all that are hidden come back together.
HideOrRestore(o) ==
    /\ drag[o] = NoLayout /\ edits < MaxEdits /\ edits' = edits + 1
    /\ \/ \E b \in Visible(o) : draft' = [draft EXCEPT ![o].hidden = @ \cup {b}]
       \/ draft[o].hidden # {} /\ draft' = [draft EXCEPT ![o].hidden = {}]
    /\ UNCHANGED <<stored, base, drag>>

\* The draft as it goes to the server: as it is when nobody saved in between,
\* or merged with what somebody did.
Sent(o) == IF stored = base[o] THEN draft[o] ELSE Merge(base[o], draft[o], stored)

\* It is stored, unless it is something no layout may be.
Save(o) ==
    /\ drag[o] = NoLayout /\ draft[o] # base[o]
    /\ \E next \in {Sent(o)} :
           /\ Accepted(next)
           /\ stored' = next
           /\ base' = [base EXCEPT ![o] = next]
           /\ draft' = [draft EXCEPT ![o] = next]
    /\ UNCHANGED <<drag, edits>>

\* The page is loaded again.  (Bound: only to go on editing.)
Reload(o) ==
    /\ stored # base[o] /\ edits < MaxEdits
    /\ base' = [base EXCEPT ![o] = stored]
    /\ draft' = [draft EXCEPT ![o] = stored]
    /\ drag' = [drag EXCEPT ![o] = NoLayout]
    /\ UNCHANGED <<stored, edits>>

Next ==
    \E o \in Owners :
        \/ DragTo(o) \/ SetBlockWidth(o) \/ HideOrRestore(o)
        \/ Drop(o) \/ CancelDrag(o) \/ Save(o) \/ Reload(o)

Spec == Init /\ [][Next]_vars

-----------------------------------------------------------------------------
(* Properties.                                                             *)

\* TypeOK: every draft can be saved, and so can what a save makes of it and of
\* what another owner saved meanwhile: each block in one row, no row id twice,
\* no width greater than the canvas.  validatePresentation throws on anything
\* else, and the owner would be left with work that no save takes.
TypeOK ==
    /\ \A value \in {stored} \cup {base[o] : o \in Owners} \cup {draft[o] : o \in Owners} :
           Accepted(value) /\ value.hidden \subseteq Blocks
    /\ \A o \in Owners :
           /\ drag[o] # NoLayout => drag[o].block \in Visible(o)
           /\ \A sent \in {Sent(o)} : Accepted(sent)
    /\ edits \in 0..MaxEdits

\* CommitsWhatWasShown: dropping a block, after any detours the drag took,
\* leaves on the screen exactly the rows and widths the drag showed, although
\* what is stored is something else (hidden blocks, unbalanced widths) and is
\* balanced again; and a hidden block, which no drag shows, is in the row it
\* was in, between the same rows' blocks, with the widths it had, so that
\* restoring it finds its place.
FilledRows(rows) == SelectSeq(rows, LAMBDA row : row.items # <<>>)

HiddenPlaces(value) ==
    [b \in value.hidden |->
        [row |-> RowOf(FullRows(value), b),
         spans |-> Saved(value, "spans")[b],
         preferred |-> Saved(value, "preferred")[b],
         solo |-> Saved(value, "solo")[b]]]

CommitsWhatWasShown ==
    [][\A o \in Owners :
          drag[o] # NoLayout /\ base'[o] = base[o] /\ draft'[o] # draft[o] =>
          LET before == drag[o].layout
              after == Region(draft'[o])
          IN  /\ FilledRows(after.rows) = FilledRows(before.rows)
              /\ Shown(after) = Shown(before)
              /\ HiddenPlaces(draft'[o]) = HiddenPlaces(draft[o])]_vars

\* MergeKeepsBoth: when two owners changed the same saved layout, the later
\* save keeps, for each block, the row and the widths its owner gave it, and
\* where its owner gave none, those the other had saved.
Kept(was, is, theirs, merged) == merged = IF was # is THEN is ELSE theirs

MergeKeepsBoth ==
    [][\A o \in Owners :
          LET was == base[o].layout
              is == draft[o].layout
              theirs == stored.layout
              merged == stored'.layout
          IN  base'[o] # base[o] /\ stored' # stored /\ NoLayout \notin {was, is, theirs} =>
              \A b \in Blocks :
                 /\ Kept(RowOf(was.rows, b), RowOf(is.rows, b),
                         RowOf(theirs.rows, b), RowOf(merged.rows, b))
                 /\ \A f \in {"spans", "preferred", "solo"} :
                       Kept(was[f][b], is[f][b], theirs[f][b], merged[f][b])]_vars

=============================================================================
