--------------------------- MODULE SheetCollabProofs ---------------------------
(***************************************************************************)
(* Proofs about SheetCollab, for grids, sessions and bounds of any size.   *)
(***************************************************************************)
EXTENDS SheetCollab, TLAPS

-------------------------------------------------------------------------------
(* The invariant.                                                          *)

\* No deletion empties a position: the sheet has a row for each that is shown,
\* and one more for every structure change that may still come.
Sized == Len(rows) >= Last + MaxRev + 1 - rev

\* A structure change of this tab is under way only from a revision that
\* leaves room for it.
OwnFits == own.phase = "sent" => rev <= session.rev

\* Every operation that waits or is sent is an edit that was made.
Numbered(op) == op = NoOp \/ op.id \in 1 .. edits
AllNumbered ==
  \A p \in Pos : /\ Numbered(queue[p]) /\ Numbered(form.ops[p])
                 /\ \A n \in Batches : Numbered(save[n].ops[p])

\* Every place the user holds on to is one of the grid.
AllPlaced == \A t \in {editor, bar, undo} : t = NoTarget \/ t.pos \in Pos

\* The formula bar sends one operation.
BarHasOne ==
  form.phase # "idle" =>
    \E p \in Pos : form.ops[p] # NoOp /\ \A q \in Pos \ {p} : form.ops[q] = NoOp

TypeInv == TypeOK /\ Sized /\ OwnFits /\ AllNumbered /\ AllPlaced /\ BarHasOne

\* A batch that the server has made is settled.
SettledBatch(b) ==
  b.phase \in {"ok", "reload"} => \A p \in Pos : b.ops[p] # NoOp => b.ops[p].id \in settled
SavedSettled == (\A n \in Batches : SettledBatch(save[n])) /\ SettledBatch(form)

\* The row r is the one position p has at the newest revision.
OnRow(r, p) == r \in {NoRow, rows[p]}

\* What is known of positions at revision r, where r is the newest.
Sound(r, aim, p) == /\ r <= rev
                    /\ r = rev => OnRow(aim, p)
                    /\ r = NoRev => aim = NoRow

\* What the answer to a batch says of its revision.
Told(b) == /\ b.phase \in {"ok", "conflict"} => b.rev \in 0 .. rev
           /\ b.phase = "ok" => \A p \in Pos : Sound(b.rev, b.cells[p].row, p)

\* What answers and broadcasts say of their revision.
NewsSound ==
  /\ \A x \in reads : /\ x.rev # NoRev => x.rev \in 0 .. rev
                      /\ x.done => x.rev # NoRev /\ Sound(x.rev, x.cell.row, x.tile)
  /\ \A m \in inbox : m.rev \in 0 .. rev /\ (m.kind = "cells" => Sound(m.rev, m.cell.row, m.pos))
  /\ \A n \in Batches : Told(save[n])
  /\ Told(form)
  /\ own.phase \in {"ok", "conflict"} => own.rev \in 0 .. rev

\* What the tab shows and has queued is of the revision it has heard of, unless
\* a response moved that past the grid, or a refresh is due.
ScreenSound ==
  /\ store <= rev
  /\ ~stale /\ ~due => \A p \in Pos : Sound(store, grid[p].row, p)
  /\ store = NoRev => \A p \in Pos : grid[p].row = NoRow
  /\ ~due => \A p \in Pos : queue[p].why = {} => Sound(store, queue[p].aim, p)
  /\ ~due /\ editor # NoTarget /\ editor.why = {} =>
       Sound(store, editor.aim, editor.pos) /\ Sound(editor.seen, editor.aim, editor.pos)

\* What the user holds on to is of the revision it was taken at.
HandsSound ==
  /\ editor # NoTarget /\ editor.why = {} => editor.seen <= store
  /\ \A t \in {bar, undo} : t # NoTarget /\ t.why = {} => t.seen <= store /\ Sound(t.seen, t.aim, t.pos)

\* A batch that is sent is of the revision it is sent with.
Aimed(b) ==
  b.phase = "sent" => \A p \in Pos : b.ops[p].why = {} => Sound(b.base, b.ops[p].aim, p)

SentSound ==
  /\ \A n \in Batches : Aimed(save[n])
  /\ Aimed(form)

LandInv == NewsSound /\ ScreenSound /\ HandsSound /\ SentSound /\ EditLandsWhereTyped

-------------------------------------------------------------------------------
(* What the operators return.                                              *)

LEMMA SessionFacts ==
  ASSUME TypeOK
  PROVE  /\ session.rev \in 0 .. MaxRev /\ session.clock \in Nat
         /\ session.edits \in 0 .. MaxEdits /\ session.faults \in Nat
         /\ session.kinds \subseteq Kinds
<1>1. session \in Session BY SheetAssumption DEF TypeOK
<1> QED BY <1>1 DEF Session

LEMMA ConstantTypes ==
  /\ Blank \in Cell /\ Blank.row = NoRow /\ Blank.ver = 0 /\ Blank.full = FALSE
  /\ NoOp \in Op /\ NoOp.id = 0 /\ NoOp.aim = NoRow /\ NoOp.why = {}
  /\ NoTarget \in Target
  /\ NoBatch \in Batch /\ NoBatch.phase = "idle" /\ NoBatch.ops = [p \in Pos |-> NoOp]
  /\ NoChange \in Change /\ NoChange.phase = "idle"
  /\ NoQueue \in [Pos -> Op]
<1>1. /\ Blank \in Cell /\ Blank.row = NoRow /\ Blank.ver = 0 /\ Blank.full = FALSE
  BY DEF Blank, Cell
<1>2. NoOp \in Op /\ NoOp.id = 0 /\ NoOp.aim = NoRow /\ NoOp.why = {}
  BY SheetAssumption DEF NoOp, Op
<1>3. NoTarget \in Target BY DEF NoTarget, Target
<1>4. NoBatch \in Batch /\ NoBatch.phase = "idle" /\ NoBatch.ops = [p \in Pos |-> NoOp]
  BY <1>1, <1>2 DEF NoBatch, Batch, Rev
<1>5. NoChange \in Change /\ NoChange.phase = "idle"
  BY SheetAssumption DEF NoChange, Change, Kinds, Pos, Rev
<1>6. NoQueue \in [Pos -> Op] BY <1>2 DEF NoQueue
<1> QED BY <1>1, <1>2, <1>3, <1>4, <1>5, <1>6

\* A position of the grid has a row, and a read of it a cell.
LEMMA RowAt ==
  ASSUME TypeOK, Sized, NEW p \in Pos
  PROVE  /\ rows[p] \in Row /\ full[rows[p]] \in BOOLEAN /\ ver[rows[p]] \in Nat
         /\ Canonical(p) \in Cell /\ Stored(p) \in Cell
         /\ Canonical(p).row \in {NoRow, rows[p]}
<1>1. /\ rows \in Seq(Row) /\ rev \in 0 .. MaxRev + 1 /\ p \in 1 .. Last
      /\ ver \in [Row -> Nat] /\ full \in [Row -> BOOLEAN]
      /\ Len(rows) \in Nat /\ Len(rows) >= Last + MaxRev + 1 - rev
      /\ Last \in Nat /\ MaxRev \in Nat
  BY SheetAssumption DEF TypeOK, Sized, Pos
<1>2. p \in 1 .. Len(rows) BY <1>1
<1>3. rows[p] \in Row BY <1>1, <1>2
<1>4. Stored(p) \in Cell /\ Stored(p).row = rows[p] BY <1>1, <1>3 DEF Cell, Stored
<1>5. full[rows[p]] \in BOOLEAN /\ ver[rows[p]] \in Nat BY <1>1, <1>3
<1>6. Canonical(p) \in {Stored(p), Blank} BY DEF Canonical
<1> QED BY <1>3, <1>4, <1>5, <1>6, ConstantTypes

LEMMA RestructuredType ==
  ASSUME TypeOK, Sized, rev <= MaxRev, NEW kind \in Kinds, NEW p \in Pos
  PROVE  /\ Restructured(kind, p) \in Seq(Row)
         /\ Len(Restructured(kind, p)) >= Len(rows) - 1
<1>1. /\ rows \in Seq(Row) /\ rev \in 0 .. MaxRev + 1 /\ p \in 1 .. Last
      /\ Len(rows) \in Nat /\ Len(rows) > Last
      /\ Last \in Nat /\ MaxRev \in Nat
  BY SheetAssumption DEF TypeOK, Sized, Pos
<1>2. \A i \in 1 .. Len(rows) : rows[i] \in Row BY <1>1
<1>3. NewRow \in Row BY <1>1 DEF NewRow, Row
<1>4. CASE kind = "insert"
  <2> DEFINE s == [i \in 1 .. Len(rows) + 1 |->
                     IF i < p THEN rows[i] ELSE IF i = p THEN NewRow ELSE rows[i - 1]]
  <2>1. \A i \in 1 .. Len(rows) + 1 :
          (IF i < p THEN rows[i] ELSE IF i = p THEN NewRow ELSE rows[i - 1]) \in Row
    BY <1>1, <1>2, <1>3
  <2>2. s \in [1 .. Len(rows) + 1 -> Row] BY <2>1
  <2>3. s \in Seq(Row) /\ Len(s) = Len(rows) + 1 BY <2>2, <1>1
  <2>4. Restructured(kind, p) = s BY <1>4 DEF Restructured
  <2> QED BY <2>3, <2>4, <1>1
<1>5. CASE kind = "delete"
  <2> DEFINE s == [i \in 1 .. Len(rows) - 1 |-> IF i < p THEN rows[i] ELSE rows[i + 1]]
  <2>1. \A i \in 1 .. Len(rows) - 1 : (IF i < p THEN rows[i] ELSE rows[i + 1]) \in Row
    BY <1>1, <1>2
  <2>2. s \in [1 .. Len(rows) - 1 -> Row] BY <2>1
  <2>3. s \in Seq(Row) /\ Len(s) = Len(rows) - 1 BY <2>2, <1>1
  <2>4. Restructured(kind, p) = s BY <1>5 DEF Restructured
  <2> QED BY <2>3, <2>4, <1>1
<1>6. CASE kind = "sort"
  <2> DEFINE s == [i \in 1 .. Len(rows) |-> rows[Len(rows) + 1 - i]]
  <2>1. \A i \in 1 .. Len(rows) : rows[Len(rows) + 1 - i] \in Row
    BY <1>1, <1>2
  <2>2. s \in [1 .. Len(rows) -> Row] BY <2>1
  <2>3. s \in Seq(Row) /\ Len(s) = Len(rows) BY <2>2, <1>1
  <2>4. Restructured(kind, p) = s BY <1>6 DEF Restructured
  <2> QED BY <2>3, <2>4, <1>1
<1> QED BY <1>4, <1>5, <1>6 DEF Kinds

LEMMA DoneType ==
  ASSUME TypeOK, Sized, NEW b \in Batch
  PROVE  /\ Done(b) \in Batch /\ Refused(b) \in Batch
         /\ Done(b).phase = "ok" /\ Refused(b).phase = "conflict"
         /\ Done(b).ops = b.ops /\ Refused(b).ops = b.ops
         /\ Done(b).rev = rev /\ Refused(b).rev = rev
         /\ \A p \in Pos : Done(b).cells[p].row \in {NoRow, rows[p]}
<1> DEFINE c == [p \in Pos |-> IF p \in Written(b)
                               THEN [row |-> rows[p], ver |-> clock + 1, full |-> ~b.ops[p].clear]
                               ELSE Blank]
<1>1. rev \in Rev /\ clock + 1 \in Nat BY SheetAssumption DEF TypeOK, Rev
<1>2. \A p \in Pos : /\ (IF p \in Written(b)
                         THEN [row |-> rows[p], ver |-> clock + 1, full |-> ~b.ops[p].clear]
                         ELSE Blank) \in Cell
                     /\ (IF p \in Written(b)
                         THEN [row |-> rows[p], ver |-> clock + 1, full |-> ~b.ops[p].clear]
                         ELSE Blank).row \in {NoRow, rows[p]}
  <2> TAKE p \in Pos
  <2>1. (~b.ops[p].clear) \in BOOLEAN OBVIOUS
  <2>2. [row |-> rows[p], ver |-> clock + 1, full |-> ~b.ops[p].clear] \in Cell
    BY <1>1, <2>1, RowAt DEF Cell
  <2> QED BY <2>2, ConstantTypes
<1>3. c \in [Pos -> Cell] BY <1>2
<1>4. \A p \in Pos : c[p].row \in {NoRow, rows[p]} BY <1>2
<1> HIDE DEF c
<1>5. Done(b) = [b EXCEPT !.phase = "ok", !.rev = rev, !.cells = c] BY DEF Done, c
<1>6. Refused(b) = [b EXCEPT !.phase = "conflict", !.rev = rev] BY DEF Refused
<1>7. /\ Done(b) \in Batch /\ Done(b).phase = "ok" /\ Done(b).ops = b.ops
      /\ Done(b).rev = rev /\ Done(b).cells = c
  BY <1>5, <1>3, <1>1 DEF Batch
<1>8. /\ Refused(b) \in Batch /\ Refused(b).phase = "conflict" /\ Refused(b).ops = b.ops
      /\ Refused(b).rev = rev
  BY <1>6, <1>1 DEF Batch
<1> QED BY <1>4, <1>7, <1>8

LEMMA MarkedFacts ==
  ASSUME NEW op \in Op, NEW why \in SUBSET Ways
  PROVE  /\ Marked(op, why) \in Op
         /\ Marked(op, why).id = op.id /\ Marked(op, why).aim = op.aim
         /\ Marked(op, why) = NoOp \/ (op # NoOp /\ Marked(op, why).why = op.why \cup why)
         /\ op = NoOp => Marked(op, why) = NoOp
<1>1. CASE op = NoOp BY <1>1, ConstantTypes DEF Marked
<1>2. CASE op # NoOp
  <2>1. Marked(op, why) = [op EXCEPT !.why = op.why \cup why] BY <1>2 DEF Marked
  <2> QED BY <2>1, <1>2 DEF Op
<1> QED BY <1>1, <1>2

LEMMA MarkedTargetFacts ==
  ASSUME NEW t \in Target, NEW why \in SUBSET Ways
  PROVE  /\ MarkedTarget(t, why) \in Target
         /\ MarkedTarget(t, why).pos = t.pos
         /\ MarkedTarget(t, why) = NoTarget
              \/ (t # NoTarget /\ MarkedTarget(t, why).why = t.why \cup why)
<1>1. CASE t = NoTarget BY <1>1, ConstantTypes DEF MarkedTarget
<1>2. CASE t # NoTarget
  <2>1. MarkedTarget(t, why) = [t EXCEPT !.why = t.why \cup why] BY <1>2 DEF MarkedTarget
  <2> QED BY <2>1, <1>2 DEF Target
<1> QED BY <1>1, <1>2

\* xs tells nothing that ys does not, and what it is about to tell, ys is.
Within(xs, ys) ==
  \A x \in xs : x.done \/ x.rev # NoRev =>
    \E y \in ys : /\ y.done = x.done /\ y.rev = x.rev /\ y.cell = x.cell
                  /\ y.tile = x.tile /\ (x.current => y.current)

LEMMA FreshReadType ==
  ASSUME NEW t \in Pos, NEW tags \in SUBSET Tags
  PROVE  FreshRead(t, tags) \in Read /\ ~FreshRead(t, tags).done /\ FreshRead(t, tags).rev = NoRev
BY ConstantTypes DEF FreshRead, Read, Rev

LEMMA AskedType ==
  ASSUME NEW xs \in SUBSET Read, NEW tiles \in SUBSET Pos,
         NEW tags \in SUBSET Tags
  PROVE  Asked(xs, tiles, tags) \subseteq Read /\ Within(Asked(xs, tiles, tags), xs)
<1> SUFFICES ASSUME NEW x \in Asked(xs, tiles, tags)
             PROVE  x \in Read /\ (x.done \/ x.rev # NoRev =>
                                    \E y \in xs : /\ y.done = x.done /\ y.rev = x.rev
                                                  /\ y.cell = x.cell /\ y.tile = x.tile
                                                  /\ (x.current => y.current))
  BY DEF Within
<1>1. \/ \E y \in xs : x = IF y.listed /\ y.tile \in tiles THEN [y EXCEPT !.tags = @ \cup tags] ELSE y
      \/ \E t \in tiles : x = FreshRead(t, tags)
  BY DEF Asked
<1>2. CASE \E t \in tiles : x = FreshRead(t, tags) BY <1>2, FreshReadType
<1>3. ASSUME NEW y \in xs,
             x = IF y.listed /\ y.tile \in tiles THEN [y EXCEPT !.tags = @ \cup tags] ELSE y
      PROVE  /\ x \in Read /\ y.done = x.done /\ y.rev = x.rev
             /\ y.cell = x.cell /\ y.tile = x.tile /\ (x.current => y.current)
  <2>1. y \in Read OBVIOUS
  <2>2. CASE x = [y EXCEPT !.tags = y.tags \cup tags] BY <2>1, <2>2 DEF Read
  <2>3. CASE x = y BY <2>1, <2>3
  <2> QED BY <1>3, <2>2, <2>3
<1> QED BY <1>1, <1>2, <1>3

LEMMA OutdatedType ==
  ASSUME NEW xs \in SUBSET Read
  PROVE  Outdated(xs) \subseteq Read /\ Within(Outdated(xs), xs)
<1> SUFFICES ASSUME NEW x \in Outdated(xs)
             PROVE  x \in Read /\ (x.done \/ x.rev # NoRev =>
                                    \E y \in xs : /\ y.done = x.done /\ y.rev = x.rev
                                                  /\ y.cell = x.cell /\ y.tile = x.tile
                                                  /\ (x.current => y.current))
  BY DEF Within
<1>1. PICK y \in xs : x = [y EXCEPT !.current = FALSE, !.listed = FALSE] BY DEF Outdated
<1>2. y \in Read OBVIOUS
<1>3. /\ x \in Read /\ y.done = x.done /\ y.rev = x.rev
      /\ y.cell = x.cell /\ y.tile = x.tile /\ (x.current => y.current)
  BY <1>1, <1>2 DEF Read
<1> QED BY <1>3

LEMMA EndedType ==
  ASSUME NEW xs \in SUBSET Read, NEW z
  PROVE  Ended(xs, z) \subseteq Read /\ Within(Ended(xs, z), xs)
<1> SUFFICES ASSUME NEW x \in Ended(xs, z)
             PROVE  x \in Read /\ (x.done \/ x.rev # NoRev =>
                                    \E y \in xs : /\ y.done = x.done /\ y.rev = x.rev
                                                  /\ y.cell = x.cell /\ y.tile = x.tile
                                                  /\ (x.current => y.current))
  BY DEF Within
<1>1. PICK y \in xs : x = IF y.tile = z.tile THEN [y EXCEPT !.listed = FALSE] ELSE y BY DEF Ended
<1>2. y \in Read OBVIOUS
<1>3. /\ x \in Read /\ y.done = x.done /\ y.rev = x.rev
      /\ y.cell = x.cell /\ y.tile = x.tile /\ (x.current => y.current)
  <2>1. CASE x = y BY <2>1, <1>2
  <2>2. CASE x = [y EXCEPT !.listed = FALSE] BY <2>2, <1>2 DEF Read
  <2> QED BY <1>1, <2>1, <2>2
<1> QED BY <1>3

-------------------------------------------------------------------------------
(* Types.                                                                   *)

USE DEF server, socket, screen, pending, hands, calls, ledger, holes, meter

\* A change of the screen that keeps types, whatever else the action does.
ScreenTyped ==
  /\ grid' \in [Pos -> Cell] /\ loaded' \subseteq Pos
  /\ reads' \subseteq Read /\ Within(reads', reads)
  /\ stale' \in BOOLEAN /\ covered' \in BOOLEAN

LEMMA WithinItself == ASSUME NEW xs PROVE Within(xs, xs)
BY DEF Within

LEMMA ResetTyped ==
  ASSUME TypeOK, NEW tags \in SUBSET Tags, ResetScreen(tags)
  PROVE  ScreenTyped
<1>1. Outdated(reads) \in SUBSET Read /\ Within(Outdated(reads), reads)
  BY OutdatedType DEF TypeOK
<1>2. reads' = Asked(Outdated(reads), Visible, tags) BY DEF ResetScreen
<1>3. reads' \subseteq Read /\ Within(reads', Outdated(reads))
  BY <1>1, <1>2, AskedType, SheetAssumption DEF Pos
<1>4. Within(reads', reads) BY <1>1, <1>3 DEF Within
<1> QED BY <1>3, <1>4, ConstantTypes DEF ResetScreen, ScreenTyped

\* What a refresh leaves behind.
Refreshed(busy) ==
  /\ queue' = NoQueue /\ editor' = NoTarget /\ armed' = FALSE /\ due' = busy
  /\ blind' \in BOOLEAN /\ ScreenTyped
  /\ busy => grid' = grid
  /\ ~busy => grid' = [p \in Pos |-> Blank]

LEMMA RefreshTyped ==
  ASSUME TypeOK, NEW busy \in BOOLEAN, RefreshSheet(busy)
  PROVE  Refreshed(busy)
<1>1. CASE busy
  <2>1. ScreenTyped BY <1>1, WithinItself DEF RefreshSheet, ScreenTyped, TypeOK
  <2>2. /\ queue' = NoQueue /\ editor' = NoTarget /\ armed' = FALSE /\ due' = busy
        /\ UNCHANGED <<grid, blind>>
    BY <1>1 DEF RefreshSheet
  <2>3. blind \in BOOLEAN BY DEF TypeOK
  <2>4. blind' \in BOOLEAN BY <2>2, <2>3
  <2>5. (busy => grid' = grid) /\ (~busy => grid' = [p \in Pos |-> Blank]) BY <1>1, <2>2
  <2> QED BY <2>1, <2>2, <2>4, <2>5, Zenon DEF Refreshed
<1>2. CASE ~busy
  <2>4. {"refresh"} \in SUBSET Tags BY DEF Tags
  <2>5. ResetScreen({"refresh"}) BY <1>2 DEF RefreshSheet
  <2>1. ScreenTyped BY <2>4, <2>5, ResetTyped
  <2>2. /\ queue' = NoQueue /\ editor' = NoTarget /\ armed' = FALSE /\ due' = busy
        /\ blind' = FALSE /\ ResetScreen({"refresh"})
    BY <1>2 DEF RefreshSheet
  <2>3. grid' = [p \in Pos |-> Blank] BY <2>2 DEF ResetScreen
  <2> QED BY <1>2, <2>1, <2>2, <2>3 DEF Refreshed
<1> QED BY <1>1, <1>2

\* The operations of q are those of the queue.
FromQueue(q) == q \in [Pos -> Op] /\ \A p \in Pos : q[p] \in {NoOp, queue[p]}

\* What an answer of revision r leaves of the queue q.
Captured(r, q, taken) ==
  /\ store' = Newest(store, r)
  /\ queue' \in [Pos -> Op] /\ editor' \in Target /\ stale' \in BOOLEAN
  /\ \A p \in Pos : /\ queue'[p].id = q[p].id /\ (q[p] = NoOp => queue'[p] = NoOp)
                    /\ r <= store => queue'[p] = q[p]
                    /\ r > store => queue'[p] = NoOp \/ queue'[p].why # {}
  /\ editor' = NoTarget \/ (editor # NoTarget /\ editor'.pos = editor.pos)
  /\ r <= store => editor' = editor /\ stale' = (stale \/ (taken /\ r < store))
  /\ r > store => /\ editor' = NoTarget \/ editor'.why # {}
                  /\ stale' = (stale \/ loaded # {} \/ \E p \in Pos : grid[p] # Blank)

LEMMA CaptureTyped ==
  ASSUME TypeOK, NEW r \in Rev, NEW q \in [Pos -> Op], NEW taken \in BOOLEAN,
         Capture(r, q, taken)
  PROVE  Captured(r, q, taken)
<1>1. store \in Int /\ r \in Int /\ {"read"} \in SUBSET Ways BY DEF TypeOK, Rev, NoRev, Ways
<1>2. CASE r > store
  <2>1. /\ queue' = [p \in Pos |-> Marked(q[p], {"read"})]
        /\ editor' = MarkedTarget(editor, {"read"})
        /\ stale' = (stale \/ loaded # {} \/ \E p \in Pos : grid[p] # Blank)
    BY <1>2 DEF Capture
  <2>2. \A p \in Pos : /\ Marked(q[p], {"read"}) \in Op
                       /\ Marked(q[p], {"read"}).id = q[p].id
                       /\ q[p] = NoOp => Marked(q[p], {"read"}) = NoOp
                       /\ Marked(q[p], {"read"}) = NoOp \/ Marked(q[p], {"read"}).why # {}
    <3> TAKE p \in Pos
    <3>1. q[p] \in Op OBVIOUS
    <3> QED BY <3>1, <1>1, MarkedFacts
  <2>3. queue' \in [Pos -> Op] BY <2>1, <2>2
  <2>4. editor \in Target BY DEF TypeOK
  <2>5. /\ editor' \in Target
        /\ editor' = NoTarget \/ (editor # NoTarget /\ editor'.pos = editor.pos /\ editor'.why # {})
    BY <2>1, <2>4, <1>1, MarkedTargetFacts
  <2>6. ~(r <= store) BY <1>1, <1>2
  <2>7. stale' \in BOOLEAN BY <2>1 DEF TypeOK
  <2>8. \A p \in Pos : queue'[p] = Marked(q[p], {"read"}) BY <2>1
  <2> QED BY <1>2, <2>1, <2>2, <2>3, <2>5, <2>6, <2>7, <2>8 DEF Captured, Capture
<1>3. CASE ~(r > store)
  <2>1. /\ queue' = q /\ editor' = editor /\ stale' = (stale \/ (taken /\ r < store))
    BY <1>3 DEF Capture
  <2>2. stale' \in BOOLEAN BY <2>1, <1>1 DEF TypeOK
  <2> QED BY <1>3, <1>1, <2>1, <2>2 DEF Captured, Capture, TypeOK
<1> QED BY <1>2, <1>3

LEMMA NewestType ==
  ASSUME TypeOK, NEW r \in Rev
  PROVE  /\ Newest(store, r) \in Rev /\ Newest(store, r) \in {store, r}
         /\ Newest(store, r) >= store /\ Newest(store, r) >= r
BY DEF TypeOK, Newest, Rev, NoRev

\* The end of a save.
Stopped ==
  /\ queue' \in {queue, NoQueue} /\ editor' \in {editor, NoTarget}
  /\ due' = FALSE /\ armed' \in BOOLEAN /\ saving' = FALSE /\ blind' \in BOOLEAN
  /\ ScreenTyped
  /\ due => queue' = NoQueue /\ editor' = NoTarget /\ grid' = [p \in Pos |-> Blank]
  /\ ~due => queue' = queue /\ editor' = editor /\ grid' = grid /\ stale' = stale

LEMMA StopTyped ==
  ASSUME TypeOK, NEW lost \in BOOLEAN, StopSaving(lost)
  PROVE  Stopped
<1>1. CASE due
  <2>1. Refreshed(FALSE) BY <1>1, RefreshTyped DEF StopSaving
  <2> QED BY <1>1, <2>1 DEF Refreshed, Stopped, StopSaving
<1>2. CASE ~due
  <2>1. ScreenTyped BY <1>2, WithinItself DEF StopSaving, ScreenTyped, TypeOK
  <2> QED BY <1>2, <2>1 DEF StopSaving, Stopped, TypeOK
<1> QED BY <1>1, <1>2

LEMMA ConflictTyped ==
  ASSUME TypeOK, NEW r \in Rev, ConflictWhileSaving(r)
  PROVE  /\ Refreshed(FALSE) /\ saving' = FALSE
         /\ store' = Newest(store, r) /\ store' \in Rev
BY RefreshTyped, NewestType DEF ConflictWhileSaving

LEMMA QueuedFacts ==
  ASSUME TypeInv
  PROVE  QueuedIds \subseteq 1 .. edits /\ QueuedIds \subseteq 1 .. MaxEdits
<1>1. \A p \in Pos : queue[p] # NoOp => queue[p].id \in 1 .. edits
  BY DEF TypeInv, AllNumbered, Numbered
<1>2. edits \in 0 .. MaxEdits /\ MaxEdits \in Nat BY SheetAssumption DEF TypeInv, TypeOK
<1>3. QueuedIds \subseteq 1 .. edits BY <1>1 DEF QueuedIds
<1> QED BY <1>2, <1>3

\* The operations of a batch, and the place of a target, as the invariant has them.
GoodBatch(b) == b \in Batch /\ \A p \in Pos : Numbered(b.ops[p])
Held(t) == t \in Target /\ (t = NoTarget \/ t.pos \in Pos)

\* The parts of TypeInv.
ServerTyped ==
  /\ rows \in Seq(Row) /\ Sized
  /\ rev \in 0 .. MaxRev + 1 /\ ver \in [Row -> Nat] /\ full \in [Row -> BOOLEAN] /\ clock \in Nat
  /\ own \in Change /\ OwnFits
  /\ conn \in {"never", "open", "down"} /\ inbox \subseteq Message
  /\ session \in Sessions /\ faults \in 0 .. session.faults
  /\ blind \in BOOLEAN
TabTyped ==
  /\ store \in Rev /\ grid \in [Pos -> Cell] /\ loaded \subseteq Pos /\ reads \subseteq Read
  /\ queue \in [Pos -> Op] /\ (\A p \in Pos : Numbered(queue[p]))
  /\ armed \in BOOLEAN /\ saving \in BOOLEAN /\ due \in BOOLEAN
  /\ Held(editor) /\ Held(bar) /\ Held(undo)
  /\ stale \in BOOLEAN /\ covered \in BOOLEAN
BatchesTyped ==
  /\ save \in [Batches -> Batch] /\ \A n \in Batches : GoodBatch(save[n])
  /\ GoodBatch(form) /\ BarHasOne
LedgerTyped ==
  /\ edits \in 0 .. MaxEdits
  /\ settled \subseteq 1 .. MaxEdits /\ swallowed \subseteq 1 .. MaxEdits
  /\ misplaced \subseteq SUBSET Ways

LEMMA Parts == TypeInv <=> ServerTyped /\ TabTyped /\ BatchesTyped /\ LedgerTyped
BY DEF TypeInv, TypeOK, AllNumbered, AllPlaced, ServerTyped, TabTyped, BatchesTyped, LedgerTyped,
       GoodBatch, Held

LEMMA PartsNext == TypeInv' <=> ServerTyped' /\ TabTyped' /\ BatchesTyped' /\ LedgerTyped'
BY DEF TypeInv, TypeOK, AllNumbered, AllPlaced, ServerTyped, TabTyped, BatchesTyped, LedgerTyped,
       GoodBatch, Held

LEMMA ServerKept ==
  ASSUME ServerTyped, UNCHANGED <<server, conn, own, session>>,
         inbox' \subseteq inbox, faults' \in {faults, faults + 1}, faults' <= session.faults,
         blind' \in BOOLEAN
  PROVE  ServerTyped'
<1>1. session \in Session BY SheetAssumption DEF ServerTyped
<1>2. session.faults \in Nat BY <1>1 DEF Session
<1>3. faults' \in 0 .. session'.faults BY <1>2 DEF ServerTyped
<1> QED BY <1>3 DEF ServerTyped, Sized, OwnFits

\* Batches that were good stay so while the tab goes on editing.
LEMMA BatchKept ==
  ASSUME TypeInv, edits' \in Nat, edits' >= edits, NEW b, GoodBatch(b)
  PROVE  b \in Batch /\ \A p \in Pos : b.ops[p] = NoOp \/ b.ops[p].id \in 1 .. edits'
<1>1. \A p \in Pos : b.ops[p] = NoOp \/ b.ops[p].id \in 1 .. edits'
  <2> TAKE p \in Pos
  <2>1. b.ops[p] = NoOp \/ b.ops[p].id \in 1 .. edits BY DEF GoodBatch, Numbered
  <2>2. edits \in Nat /\ edits' \in Nat /\ edits <= edits'
    BY SheetAssumption DEF TypeInv, TypeOK
  <2> QED BY <2>1, <2>2
<1> QED BY <1>1 DEF GoodBatch, Numbered

LEMMA BatchesKept ==
  ASSUME TypeInv, UNCHANGED <<save, form>>, edits' \in Nat, edits' >= edits
  PROVE  BatchesTyped'
<1>1. BatchesTyped BY Parts
<1>2. \A n \in Batches : GoodBatch(save[n])'
  <2> TAKE n \in Batches
  <2>1. GoodBatch(save[n]) BY <1>1 DEF BatchesTyped
  <2>2. save[n] \in Batch /\ \A p \in Pos : save[n].ops[p] = NoOp \/ save[n].ops[p].id \in 1 .. edits'
    BY <2>1, BatchKept
  <2> QED BY <2>2 DEF GoodBatch, Numbered
<1>3. GoodBatch(form)'
  <2>1. GoodBatch(form) BY <1>1 DEF BatchesTyped
  <2>2. form \in Batch /\ \A p \in Pos : form.ops[p] = NoOp \/ form.ops[p].id \in 1 .. edits'
    BY <2>1, BatchKept
  <2> QED BY <2>2 DEF GoodBatch, Numbered
<1>4. BarHasOne' BY <1>1 DEF BatchesTyped, BarHasOne
<1> QED BY <1>1, <1>2, <1>3, <1>4 DEF BatchesTyped

LEMMA InitTyped == Init => TypeInv
<1> SUFFICES ASSUME Init PROVE TypeInv OBVIOUS
<1> DEFINE n0 == Last + MaxRev + 1
<1>1. /\ Last \in Nat \ {0} /\ MaxRev \in Nat /\ MaxEdits \in Nat /\ Visible \subseteq Pos
      /\ Sessions \subseteq Session
  BY SheetAssumption DEF Pos
<1>2. rows \in Seq(Row) /\ Len(rows) = n0
  <2>1. n0 \in Nat BY <1>1
  <2>2. \A i \in 1 .. n0 : i \in Row BY <1>1 DEF Row
  <2>3. rows = [i \in 1 .. n0 |-> i] BY DEF Init
  <2>4. rows \in [1 .. n0 -> Row] BY <2>2, <2>3
  <2> QED BY <2>1, <2>3, <2>4
<1>3. ver \in [Row -> Nat] /\ full \in [Row -> BOOLEAN] BY DEF Init
<1>4. session \in Session /\ session.faults \in Nat BY <1>1 DEF Init, Session
<1>5. reads \subseteq Read
  <2>1. \A t \in Visible : FreshRead(t, {}) \in Read BY <1>1, FreshReadType
  <2> QED BY <2>1 DEF Init
<1>6. Sized BY <1>1, <1>2 DEF Init, Sized
<1>7. ServerTyped
  <2>1. rev \in 0 .. MaxRev + 1 /\ clock \in Nat /\ faults \in 0 .. session.faults
    BY <1>1, <1>4 DEF Init
  <2>2. own \in Change /\ OwnFits BY ConstantTypes DEF Init, OwnFits
  <2> QED BY <1>2, <1>3, <1>6, <2>1, <2>2 DEF Init, ServerTyped
<1>8. TabTyped
  BY <1>5, ConstantTypes DEF Init, TabTyped, Held, Numbered, Rev
<1>9. BatchesTyped
  BY ConstantTypes DEF Init, BatchesTyped, GoodBatch, Numbered, BarHasOne
<1>10. LedgerTyped BY <1>1 DEF Init, LedgerTyped
<1> QED BY <1>7, <1>8, <1>9, <1>10, Parts

-------------------------------------------------------------------------------
(* Steps of the server.                                                     *)

LEMMA BroadcastTyped ==
  ASSUME TypeInv, NEW m \in Message, Broadcast(m)
  PROVE  /\ inbox' \subseteq Message /\ blind' \in BOOLEAN
         /\ session' = session /\ faults' \in 0 .. session.faults
<1>1. faults \in Nat /\ session.faults \in Nat /\ faults <= session.faults
  BY SessionFacts DEF TypeInv, TypeOK
<1>2. inbox' \in {inbox, inbox \cup {m}} BY DEF Broadcast
<1>4. blind' \in BOOLEAN BY DEF Broadcast
<1>3. session' = session /\ (faults' = faults \/ (faults < session.faults /\ faults' = faults + 1))
  BY DEF Broadcast, Fault
<1>5. faults' \in 0 .. session.faults BY <1>1, <1>3
<1> QED BY <1>2, <1>3, <1>4, <1>5 DEF TypeInv, TypeOK

LEMMA PeerRestructuresTyped ==
  ASSUME TypeInv, NEW kind \in session.kinds, NEW p \in Pos, PeerRestructures(kind, p)
  PROVE  TypeInv'
<1>1. /\ TypeOK /\ ServerTyped /\ TabTyped /\ BatchesTyped /\ LedgerTyped BY Parts DEF TypeInv
<1>2. /\ rev < session.rev /\ session.rev \in 0 .. MaxRev /\ kind \in Kinds
  BY <1>1, SessionFacts DEF PeerRestructures
<1>3. rev \in Nat /\ MaxRev \in Nat /\ Last \in Nat BY <1>1, SheetAssumption DEF TypeOK
<1>4. rows' \in Seq(Row) /\ Len(rows') >= Len(rows) - 1
  BY <1>1, <1>2, <1>3, RestructuredType DEF PeerRestructures, TypeInv
<1>5. Len(rows) \in Nat /\ Len(rows') \in Nat BY <1>1, <1>4 DEF TypeOK
<1>6. Sized' BY <1>3, <1>4, <1>5 DEF PeerRestructures, TypeInv, Sized
<1>7. /\ inbox' \subseteq Message /\ blind' \in BOOLEAN
      /\ session' = session /\ faults' \in 0 .. session.faults
  <2>1. [kind |-> "refresh", rev |-> rev + 1] \in Message BY <1>3 DEF Message, Rev
  <2> QED BY <2>1, BroadcastTyped DEF PeerRestructures
<1>8. rev' \in 0 .. MaxRev + 1 /\ OwnFits'
  BY <1>2, <1>3, <1>7 DEF PeerRestructures, OwnFits
<1>9. ServerTyped'
  BY <1>1, <1>4, <1>6, <1>7, <1>8 DEF ServerTyped, PeerRestructures
<1>10. TabTyped' BY <1>1 DEF TabTyped, Held, Numbered, PeerRestructures
<1>11. BatchesTyped' BY <1>1 DEF BatchesTyped, GoodBatch, Numbered, BarHasOne, PeerRestructures
<1>12. LedgerTyped' BY <1>1 DEF LedgerTyped, PeerRestructures
<1> QED BY <1>9, <1>10, <1>11, <1>12, PartsNext

LEMMA PeerWritesTyped ==
  ASSUME TypeInv, NEW p \in Pos, PeerWrites(p)
  PROVE  TypeInv'
<1>1. /\ TypeOK /\ Sized /\ ServerTyped /\ TabTyped /\ BatchesTyped /\ LedgerTyped
  BY Parts DEF TypeInv
<1>2. rows[p] \in Row /\ clock + 1 \in Nat /\ rev \in Nat BY <1>1, RowAt, SheetAssumption DEF TypeOK
<1>3. PICK value \in BOOLEAN :
        /\ full' = [full EXCEPT ![rows[p]] = value]
        /\ Broadcast([kind |-> "cells", pos |-> p, rev |-> rev,
                      cell |-> [row |-> rows[p], ver |-> clock + 1, full |-> value]])
        /\ covered' = (covered \/ (~value /\ OnItsWay(p)))
  BY DEF PeerWrites
<1>4. /\ inbox' \subseteq Message /\ blind' \in BOOLEAN
      /\ session' = session /\ faults' \in 0 .. session.faults
  <2>1. [row |-> rows[p], ver |-> clock + 1, full |-> value] \in Cell BY <1>2 DEF Cell
  <2>2. [kind |-> "cells", pos |-> p, rev |-> rev,
         cell |-> [row |-> rows[p], ver |-> clock + 1, full |-> value]] \in Message
    BY <2>1, <1>2 DEF Message, Rev
  <2> QED BY <1>3, <2>2, BroadcastTyped
<1>5. ServerTyped'
  <2>1. ver' \in [Row -> Nat] /\ clock' \in Nat BY <1>1, <1>2 DEF PeerWrites, TypeOK
  <2>2. full' \in [Row -> BOOLEAN] BY <1>1, <1>3 DEF TypeOK
  <2> QED BY <1>1, <1>4, <2>1, <2>2 DEF ServerTyped, Sized, OwnFits, PeerWrites
<1>6. TabTyped'
  <2>1. covered' \in BOOLEAN BY <1>3
  <2> QED BY <1>1, <2>1 DEF TabTyped, Held, Numbered, PeerWrites
<1>7. BatchesTyped' BY <1>1 DEF BatchesTyped, GoodBatch, Numbered, BarHasOne, PeerWrites
<1>8. LedgerTyped' BY <1>1 DEF LedgerTyped, PeerWrites
<1> QED BY <1>5, <1>6, <1>7, <1>8, PartsNext

\* What serving a batch does to the server.
LEMMA ServeBatchTyped ==
  ASSUME TypeInv, NEW b, GoodBatch(b), NEW answer, ServeBatch(b, answer)
  PROVE  /\ answer \in Batch /\ answer.ops = b.ops
         /\ ver' \in [Row -> Nat] /\ full' \in [Row -> BOOLEAN] /\ clock' \in Nat
         /\ covered' \in BOOLEAN
         /\ settled \subseteq settled' /\ settled' \subseteq 1 .. MaxEdits
         /\ misplaced' \subseteq SUBSET Ways
         /\ answer.phase = "ok" =>
              \A p \in Pos : b.ops[p] # NoOp => b.ops[p].id \in settled'
         /\ answer.phase \in {"ok", "conflict"}
<1>1. TypeOK /\ Sized BY DEF TypeInv
<1>2. \A p \in Pos : b.ops[p] \in Op /\ (b.ops[p] # NoOp => b.ops[p].id \in 1 .. MaxEdits)
  <2> TAKE p \in Pos
  <2>1. b.ops[p] = NoOp \/ b.ops[p].id \in 1 .. edits BY DEF GoodBatch, Numbered
  <2>2. edits \in 0 .. MaxEdits /\ MaxEdits \in Nat BY <1>1, SheetAssumption DEF TypeOK
  <2>3. b.ops[p] \in Op BY DEF GoodBatch, Batch
  <2> QED BY <2>1, <2>2, <2>3
<1>3. \A p \in Submitted(b) : /\ p \in Pos /\ b.ops[p].id \in 1 .. MaxEdits
                              /\ b.ops[p].why \in SUBSET Ways
  BY <1>2 DEF Submitted, Op
<1>4. Misses(b) \subseteq SUBSET Ways BY <1>3 DEF Misses
<1>5. CASE /\ answer = Done(b) /\ clock' = clock + 1
           /\ ver' = [r \in Row |-> IF \E p \in Written(b) : rows[p] = r THEN clock + 1 ELSE ver[r]]
           /\ full' = [r \in Row |-> IF \E p \in Written(b) : rows[p] = r
                                     THEN \E p \in Written(b) : rows[p] = r /\ ~b.ops[p].clear
                                     ELSE full[r]]
           /\ covered' = (covered \/ \E p \in Written(b) : b.ops[p].clear /\ OnItsWay(p))
           /\ settled' = settled \cup {b.ops[p].id : p \in Submitted(b)}
           /\ misplaced' = misplaced \cup Misses(b)
  <2>1. answer \in Batch /\ answer.ops = b.ops /\ answer.phase = "ok"
    BY <1>1, <1>5, DoneType DEF GoodBatch
  <2>2. /\ clock' \in Nat /\ ver' \in [Row -> Nat] /\ full' \in [Row -> BOOLEAN]
        /\ covered' \in BOOLEAN
    <3>1. clock' \in Nat /\ ver' \in [Row -> Nat] BY <1>1, <1>5 DEF TypeOK
    <3>2. \A r \in Row : (IF \E p \in Written(b) : rows[p] = r
                          THEN \E p \in Written(b) : rows[p] = r /\ ~b.ops[p].clear
                          ELSE full[r]) \in BOOLEAN
      BY <1>1 DEF TypeOK
    <3>3. full' \in [Row -> BOOLEAN] BY <1>5, <3>2
    <3>4. covered' \in BOOLEAN BY <1>5
    <3> QED BY <3>1, <3>3, <3>4
  <2>3. settled \subseteq settled' /\ settled' \subseteq 1 .. MaxEdits
    BY <1>1, <1>3, <1>5 DEF TypeOK
  <2>4. \A p \in Pos : b.ops[p] # NoOp => b.ops[p].id \in settled' BY <1>5 DEF Submitted
  <2>5. misplaced' \subseteq SUBSET Ways BY <1>1, <1>4, <1>5 DEF TypeOK
  <2> QED BY <2>1, <2>2, <2>3, <2>4, <2>5
<1>6. CASE answer = Refused(b) /\ UNCHANGED <<ver, full, clock, covered, settled, misplaced>>
  <2>1. answer \in Batch /\ answer.ops = b.ops /\ answer.phase = "conflict"
    BY <1>1, <1>6, DoneType DEF GoodBatch
  <2> QED BY <1>1, <1>6, <2>1 DEF TypeOK
<1> QED BY <1>5, <1>6 DEF ServeBatch

LEMMA ServeSaveTyped ==
  ASSUME TypeInv, NEW n \in Batches, ServeSave(n)
  PROVE  TypeInv'
<1>1. /\ TypeOK /\ Sized /\ ServerTyped /\ TabTyped /\ BatchesTyped /\ LedgerTyped
  BY Parts DEF TypeInv
<1>2. PICK b \in {Done(save[n]), Refused(save[n])} :
        ServeBatch(save[n], b) /\ save' = [save EXCEPT ![n] = b]
  BY DEF ServeSave
<1>3. GoodBatch(save[n]) BY <1>1 DEF BatchesTyped
<1>4. /\ b \in Batch /\ b.ops = save[n].ops
      /\ ver' \in [Row -> Nat] /\ full' \in [Row -> BOOLEAN] /\ clock' \in Nat
      /\ covered' \in BOOLEAN
      /\ settled' \subseteq 1 .. MaxEdits /\ misplaced' \subseteq SUBSET Ways
  BY <1>2, <1>3, ServeBatchTyped
<1>5. ServerTyped' BY <1>1, <1>4 DEF ServerTyped, Sized, OwnFits, ServeSave
<1>6. TabTyped' BY <1>1, <1>4 DEF TabTyped, Held, Numbered, ServeSave
<1>7. save' \in [Batches -> Batch] /\ \A m \in Batches : save'[m] \in {save[m]} \/ (m = n /\ save'[m] = b)
  BY <1>1, <1>2, <1>4 DEF BatchesTyped
<1>8. \A m \in Batches : save'[m].ops = save[m].ops BY <1>4, <1>7
<1>9. BatchesTyped'
  BY <1>1, <1>7, <1>8 DEF BatchesTyped, GoodBatch, Numbered, BarHasOne, ServeSave
<1>10. LedgerTyped' BY <1>1, <1>4 DEF LedgerTyped, ServeSave
<1> QED BY <1>5, <1>6, <1>9, <1>10, PartsNext

LEMMA ServeFormulaTyped ==
  ASSUME TypeInv, ServeFormula
  PROVE  TypeInv'
<1>1. /\ TypeOK /\ Sized /\ ServerTyped /\ TabTyped /\ BatchesTyped /\ LedgerTyped
  BY Parts DEF TypeInv
<1>2. PICK b \in {Done(form), Refused(form)} : ServeBatch(form, b) /\ form' = b
  BY DEF ServeFormula
<1>3. GoodBatch(form) BY <1>1 DEF BatchesTyped
<1>4. /\ b \in Batch /\ b.ops = form.ops
      /\ ver' \in [Row -> Nat] /\ full' \in [Row -> BOOLEAN] /\ clock' \in Nat
      /\ covered' \in BOOLEAN
      /\ settled' \subseteq 1 .. MaxEdits /\ misplaced' \subseteq SUBSET Ways
  BY <1>2, <1>3, ServeBatchTyped
<1>5. ServerTyped' BY <1>1, <1>4 DEF ServerTyped, Sized, OwnFits, ServeFormula
<1>6. TabTyped' BY <1>1, <1>4 DEF TabTyped, Held, Numbered, ServeFormula
<1>7. form' \in Batch /\ form'.ops = form.ops /\ form.phase # "idle"
  BY <1>2, <1>4 DEF ServeFormula
<1>8. BarHasOne' BY <1>1, <1>7 DEF BatchesTyped, BarHasOne
<1>9. BatchesTyped'
  BY <1>1, <1>7, <1>8 DEF BatchesTyped, GoodBatch, Numbered, ServeFormula
<1>10. LedgerTyped' BY <1>1, <1>4 DEF LedgerTyped, ServeFormula
<1> QED BY <1>5, <1>6, <1>9, <1>10, PartsNext

LEMMA ServeStructureTyped ==
  ASSUME TypeInv, ServeStructure
  PROVE  TypeInv'
<1>1. /\ TypeOK /\ Sized /\ OwnFits /\ ServerTyped /\ TabTyped /\ BatchesTyped /\ LedgerTyped
  BY Parts DEF TypeInv
<1>2. /\ rev <= session.rev /\ session.rev \in 0 .. MaxRev
      /\ rev \in Nat /\ MaxRev \in Nat /\ Last \in Nat /\ own \in Change
  BY <1>1, SessionFacts, SheetAssumption DEF TypeOK, OwnFits, ServeStructure
<1>3. /\ rows' \in Seq(Row) /\ Sized' /\ rev' \in 0 .. MaxRev + 1
      /\ own' \in Change /\ own'.phase \in {"ok", "conflict"}
  <2>1. CASE /\ rows' = Restructured(own.kind, own.pos) /\ rev' = rev + 1
             /\ own' = [own EXCEPT !.phase = "ok", !.rev = rev + 1]
    <3>1. own.kind \in Kinds /\ own.pos \in Pos BY <1>2 DEF Change
    <3>2. rev <= MaxRev BY <1>2
    <3>3. rows' \in Seq(Row) /\ Len(rows') >= Len(rows) - 1
      BY <1>1, <3>1, <3>2, <2>1, RestructuredType
    <3>4. Len(rows) \in Nat /\ Len(rows') \in Nat BY <1>1, <3>3 DEF TypeOK
    <3>5. Sized' BY <1>1, <1>2, <3>3, <3>4, <2>1 DEF Sized
    <3>6. rev + 1 \in Rev BY <1>2 DEF Rev
    <3>7. own' \in Change /\ own'.phase = "ok" BY <1>2, <2>1, <3>6 DEF Change
    <3> QED BY <1>2, <2>1, <3>3, <3>5, <3>7
  <2>2. CASE own' = [own EXCEPT !.phase = "conflict", !.rev = rev] /\ UNCHANGED <<rows, rev>>
    <3>1. own' \in Change /\ own'.phase = "conflict" BY <1>2, <2>2 DEF Change, Rev
    <3> QED BY <1>1, <2>2, <3>1 DEF TypeOK, Sized
  <2> QED BY <2>1, <2>2 DEF ServeStructure
<1>4. ServerTyped' BY <1>1, <1>3 DEF ServerTyped, OwnFits, ServeStructure
<1>5. TabTyped' BY <1>1 DEF TabTyped, Held, Numbered, ServeStructure
<1>6. BatchesTyped' BY <1>1 DEF BatchesTyped, GoodBatch, Numbered, BarHasOne, ServeStructure
<1>7. LedgerTyped' BY <1>1 DEF LedgerTyped, ServeStructure
<1> QED BY <1>4, <1>5, <1>6, <1>7, PartsNext

LEMMA ServeReadTyped ==
  ASSUME TypeInv, NEW x \in reads, ReadSheet(x) \/ ServeRead(x)
  PROVE  TypeInv'
<1>1. /\ TypeOK /\ Sized /\ ServerTyped /\ TabTyped /\ BatchesTyped /\ LedgerTyped
  BY Parts DEF TypeInv
<1>2. x \in Read /\ rev \in Nat BY <1>1, SheetAssumption DEF TypeOK
<1>3. Canonical(x.tile) \in Cell BY <1>1, <1>2, RowAt DEF Read
<1>4. /\ [x EXCEPT !.rev = rev] \in Read
      /\ [x EXCEPT !.done = TRUE, !.cell = Canonical(x.tile)] \in Read
  BY <1>2, <1>3 DEF Read, Rev
<1>5. UNCHANGED <<server, socket, store, grid, loaded, pending, hands, calls, ledger, holes, meter>>
  BY DEF ReadSheet, ServeRead
<1>6. reads' \subseteq Read BY <1>1, <1>4 DEF ReadSheet, ServeRead, TypeOK
<1>7. ServerTyped' BY <1>1, <1>5 DEF ServerTyped, Sized, OwnFits
<1>8. TabTyped' BY <1>1, <1>5, <1>6 DEF TabTyped, Held, Numbered
<1>9. BatchesTyped' BY <1>1, <1>5 DEF BatchesTyped, GoodBatch, Numbered, BarHasOne
<1>10. LedgerTyped' BY <1>1, <1>5 DEF LedgerTyped
<1> QED BY <1>7, <1>8, <1>9, <1>10, PartsNext

-------------------------------------------------------------------------------
(* Steps of the tab.                                                        *)

LEMMA CaptureKeeps ==
  ASSUME TypeInv, NEW r \in Rev, NEW q, FromQueue(q), NEW taken \in BOOLEAN,
         Capture(r, q, taken), edits' = edits
  PROVE  /\ queue' \in [Pos -> Op] /\ (\A p \in Pos : Numbered(queue[p])')
         /\ Held(editor)' /\ stale' \in BOOLEAN /\ store' \in Rev
<1>1. TypeOK /\ TabTyped BY Parts DEF TypeInv
<1>2. Captured(r, q, taken) BY <1>1, CaptureTyped DEF FromQueue
<1>3. \A p \in Pos : queue'[p] = NoOp \/ queue'[p].id \in 1 .. edits
  <2> TAKE p \in Pos
  <2>1. q[p] = NoOp \/ (q[p] # NoOp /\ q[p] = queue[p] /\ q[p].id \in 1 .. edits)
    BY <1>1 DEF FromQueue, TabTyped, Numbered
  <2>2. queue'[p].id = q[p].id /\ (q[p] = NoOp => queue'[p] = NoOp) BY <1>2 DEF Captured
  <2> QED BY <2>1, <2>2
<1>4. Held(editor)' BY <1>1, <1>2 DEF Captured, TabTyped, Held
<1>5. store' \in Rev BY <1>1, <1>2, NewestType DEF Captured
<1> QED BY <1>2, <1>3, <1>4, <1>5 DEF Captured, Numbered

LEMMA RefreshKeeps ==
  ASSUME Refreshed(TRUE) \/ Refreshed(FALSE)
  PROVE  /\ queue' \in [Pos -> Op] /\ (\A p \in Pos : Numbered(queue[p])')
         /\ Held(editor)' /\ armed' \in BOOLEAN /\ due' \in BOOLEAN /\ blind' \in BOOLEAN
         /\ ScreenTyped
<1>1. queue' = NoQueue /\ editor' = NoTarget BY DEF Refreshed
<1>2. \A p \in Pos : queue'[p] = NoOp BY <1>1 DEF NoQueue
<1> QED BY <1>1, <1>2, ConstantTypes DEF Refreshed, Numbered, Held

LEMMA StopKeeps ==
  ASSUME TypeInv, Stopped, edits' = edits
  PROVE  /\ queue' \in [Pos -> Op] /\ (\A p \in Pos : Numbered(queue[p])')
         /\ Held(editor)' /\ armed' \in BOOLEAN /\ due' \in BOOLEAN /\ blind' \in BOOLEAN
         /\ saving' \in BOOLEAN /\ ScreenTyped
<1>1. TabTyped BY Parts
<1>2. queue' \in {queue, NoQueue} /\ editor' \in {editor, NoTarget} BY DEF Stopped
<1>3. \A p \in Pos : queue'[p] \in {queue[p], NoOp} BY <1>2 DEF NoQueue
<1> QED BY <1>1, <1>2, <1>3, ConstantTypes DEF Stopped, TabTyped, Numbered, Held

LEMMA SaveSetTyped ==
  ASSUME TypeInv, NEW n \in Batches, NEW b, GoodBatch(b),
         save' = [save EXCEPT ![n] = b], UNCHANGED <<form, edits>>
  PROVE  BatchesTyped'
<1>1. BatchesTyped BY Parts
<1>2. save' \in [Batches -> Batch] /\ \A m \in Batches : save'[m] \in {save[m], b}
  BY <1>1 DEF BatchesTyped, GoodBatch
<1>3. \A m \in Batches : GoodBatch(save'[m]) BY <1>1, <1>2 DEF BatchesTyped
<1> QED BY <1>1, <1>2, <1>3 DEF BatchesTyped, GoodBatch, Numbered, BarHasOne

LEMMA NoBatchGood == GoodBatch(NoBatch)
BY ConstantTypes DEF GoodBatch, Numbered

LEMMA FormEndTyped ==
  ASSUME TypeInv, form' = NoBatch, UNCHANGED <<save, edits>>
  PROVE  BatchesTyped'
<1>1. BatchesTyped BY Parts
<1>2. BarHasOne' BY ConstantTypes DEF BarHasOne
<1> QED BY <1>1, <1>2, NoBatchGood DEF BatchesTyped, GoodBatch, Numbered

LEMMA SetCellTyped ==
  ASSUME TypeInv, NEW p \in Pos, NEW aim \in Row \cup {NoRow}, NEW why \in SUBSET Ways,
         SetCellValue(p, aim, why)
  PROVE  /\ edits' = edits + 1 /\ edits \in Nat /\ edits' \in 0 .. MaxEdits
         /\ queue' \in [Pos -> Op] /\ (\A q \in Pos : Numbered(queue[q])')
         /\ grid' \in [Pos -> Cell] /\ armed' \in BOOLEAN /\ settled' \subseteq 1 .. MaxEdits
<1>1. TypeOK /\ TabTyped BY Parts DEF TypeInv
<1>2. edits' = edits + 1 /\ edits \in Nat /\ edits' \in 0 .. MaxEdits /\ MaxEdits \in Nat
  <2>1. session.edits \in 0 .. MaxEdits /\ MaxEdits \in Nat /\ edits \in 0 .. MaxEdits
    BY <1>1, SessionFacts, SheetAssumption DEF TypeOK
  <2>2. edits < session.edits /\ edits' = edits + 1 BY DEF SetCellValue
  <2> QED BY <2>1, <2>2
<1>3. PICK clear \in BOOLEAN :
        /\ queue' = [queue EXCEPT ![p] = [id |-> edits + 1, aim |-> aim, why |-> why, clear |-> clear]]
        /\ grid' = [grid EXCEPT ![p].ver = 0, ![p].full = ~clear]
  BY DEF SetCellValue
<1> DEFINE op == [id |-> edits + 1, aim |-> aim, why |-> why, clear |-> clear]
<1>4. op \in Op /\ op.id = edits + 1 BY <1>2 DEF Op
<1> HIDE DEF op
<1>5. queue' \in [Pos -> Op] /\ \A q \in Pos : queue'[q] = IF q = p THEN op ELSE queue[q]
  BY <1>1, <1>3, <1>4 DEF TypeOK, op
<1>6. \A q \in Pos : queue'[q] = NoOp \/ queue'[q].id \in 1 .. edits'
  <2> TAKE q \in Pos
  <2>1. CASE q = p BY <2>1, <1>2, <1>4, <1>5
  <2>2. CASE q # p
    <3>1. queue[q] = NoOp \/ queue[q].id \in 1 .. edits BY <1>1 DEF TabTyped, Numbered
    <3>2. queue'[q] = queue[q] BY <2>2, <1>5
    <3> QED BY <3>1, <3>2, <1>2
  <2> QED BY <2>1, <2>2
<1>7. grid' \in [Pos -> Cell]
  <2>1. grid[p] \in Cell BY <1>1 DEF TypeOK
  <2>2. (~clear) \in BOOLEAN OBVIOUS
  <2>3. [grid[p] EXCEPT !.ver = 0, !.full = ~clear] \in Cell BY <2>1, <2>2 DEF Cell
  <2> QED BY <2>3, <1>1, <1>3 DEF TypeOK
<1>8. settled' \subseteq 1 .. MaxEdits
  <2>1. queue[p] # NoOp => queue[p].id \in QueuedIds BY DEF QueuedIds
  <2> QED BY <2>1, <1>1, QueuedFacts DEF SetCellValue, TypeOK
<1> QED BY <1>2, <1>5, <1>6, <1>7, <1>8 DEF SetCellValue, Numbered

LEMMA AtTyped ==
  ASSUME TypeInv, NEW p \in Pos, NEW why \in SUBSET Ways
  PROVE  Held(At(p, why)) /\ Taint \in SUBSET Ways /\ grid[p].row \in Row \cup {NoRow}
<1>1. grid[p] \in Cell /\ store \in Rev BY DEF TypeInv, TypeOK
<1>2. grid[p].row \in Row \cup {NoRow} BY <1>1 DEF Cell
<1>3. At(p, why) \in Target /\ At(p, why).pos = p BY <1>1, <1>2 DEF At, Target, Rev
<1>4. Taint \in SUBSET Ways BY DEF Taint, Ways
<1> QED BY <1>2, <1>3, <1>4 DEF Held

\* The steps that leave rows, batches and ledger alone.
LEMMA ReadStepsTyped ==
  ASSUME TypeInv,
         \/ \E x \in reads : ReadAnswered(x) \/ ReadFails(x)
         \/ \E p \in Pos : Scroll(p)
  PROVE  TypeInv'
<1>1. /\ TypeOK /\ ServerTyped /\ TabTyped /\ BatchesTyped /\ LedgerTyped
  BY Parts DEF TypeInv
<1>2. /\ UNCHANGED <<server, conn, inbox, own, session, save, form, edits, settled, swallowed,
                     misplaced, blind, armed, saving, due, bar, undo, covered>>
      /\ faults' \in {faults, faults + 1} /\ faults' <= session.faults
  <2>1. faults \in Nat /\ session.faults \in Nat /\ faults <= session.faults
    BY <1>1, SessionFacts DEF TypeOK
  <2>2. ASSUME NEW x \in reads, ReadAnswered(x) PROVE <1>2
    BY <2>1, <2>2 DEF ReadAnswered
  <2>3. ASSUME NEW x \in reads, ReadFails(x) PROVE <1>2
    <3>1. faults < session.faults /\ faults' = faults + 1 /\ session' = session
      BY <2>3 DEF ReadFails, Fault
    <3>2. faults' <= session.faults BY <2>1, <3>1
    <3> QED BY <2>3, <3>1, <3>2 DEF ReadFails
  <2>4. ASSUME NEW p \in Pos, Scroll(p) PROVE <1>2
    BY <2>1, <2>4 DEF Scroll
  <2> QED BY <2>2, <2>3, <2>4
<1>3. ServerTyped' BY <1>1, <1>2, ServerKept DEF ServerTyped
<1>4. BatchesTyped' BY <1>1, <1>2 DEF BatchesTyped, GoodBatch, Numbered, BarHasOne
<1>5. LedgerTyped' BY <1>1, <1>2 DEF LedgerTyped
<1>6. TabTyped'
  <2>1. ASSUME NEW x \in reads, ReadAnswered(x) PROVE TabTyped'
    <3>1. x \in Read /\ x.rev \in Rev /\ x.current \in BOOLEAN /\ x.tile \in Pos /\ x.cell \in Cell
      BY <1>1 DEF TypeOK, Read
    <3>2. Capture(x.rev, queue, x.current) BY <2>1 DEF ReadAnswered
    <3>3. FromQueue(queue) BY <1>1 DEF FromQueue, TypeOK
    <3>4. /\ queue' \in [Pos -> Op] /\ (\A p \in Pos : Numbered(queue[p])')
          /\ Held(editor)' /\ stale' \in BOOLEAN /\ store' \in Rev
      BY <3>1, <3>2, <3>3, <1>2, CaptureKeeps
    <3>5. Merged(grid[x.tile], x.cell) \in Cell BY <3>1, <1>1 DEF Merged, TypeOK
    <3>6. grid' \in [Pos -> Cell] /\ loaded' \subseteq Pos
      BY <3>1, <3>5, <1>1, <2>1 DEF ReadAnswered, TypeOK
    <3>7. reads' \subseteq Read BY <1>1, <2>1, EndedType DEF ReadAnswered, TypeOK
    <3> QED BY <1>1, <1>2, <3>4, <3>6, <3>7 DEF TabTyped, Held
  <2>2. ASSUME NEW x \in reads, ReadFails(x) PROVE TabTyped'
    <3>1. reads' \subseteq Read BY <1>1, <2>2, EndedType DEF ReadFails, TypeOK
    <3> QED BY <1>1, <2>2, <3>1 DEF TabTyped, Held, Numbered, ReadFails
  <2>3. ASSUME NEW p \in Pos, Scroll(p) PROVE TabTyped'
    <3>1. reads' \subseteq Read BY <1>1, <2>3, AskedType DEF Scroll, TypeOK
    <3> QED BY <1>1, <2>3, <3>1 DEF TabTyped, Held, Numbered, Scroll
  <2> QED BY <2>1, <2>2, <2>3
<1> QED BY <1>3, <1>4, <1>5, <1>6, PartsNext

LEMMA HandStepsTyped ==
  ASSUME TypeInv, (\E p \in Pos : OpenEditor(p) \/ FocusBar(p)) \/ DropEdit
  PROVE  TypeInv'
<1>1. /\ TypeOK /\ ServerTyped /\ TabTyped /\ BatchesTyped /\ LedgerTyped
  BY Parts DEF TypeInv
<1>2. Held(editor)' /\ Held(bar)'
  <2>1. ASSUME NEW p \in Pos, OpenEditor(p) PROVE Held(editor)' /\ Held(bar)'
    <3>1. editor' = At(p, Taint) /\ bar' = bar BY <2>1 DEF OpenEditor
    <3>2. Held(At(p, Taint)) BY AtTyped
    <3> QED BY <1>1, <3>1, <3>2 DEF TabTyped, Held
  <2>2. ASSUME NEW p \in Pos, FocusBar(p) PROVE Held(editor)' /\ Held(bar)'
    <3> DEFINE why == Taint \cup (IF due THEN {"formula"} ELSE {})
    <3>1. why \in SUBSET Ways BY DEF Taint, Ways
    <3>2. Held(At(p, why)) BY <3>1, AtTyped
    <3>3. bar' = At(p, why) /\ editor' = editor BY <2>2 DEF FocusBar
    <3> QED BY <1>1, <3>2, <3>3 DEF TabTyped, Held
  <2>3. CASE DropEdit BY <1>1, <2>3, ConstantTypes DEF DropEdit, TabTyped, Held
  <2> QED BY <2>1, <2>2, <2>3
<1>3. UNCHANGED <<server, socket, store, screen, pending, undo, calls, ledger, holes, meter>>
  BY DEF OpenEditor, FocusBar, DropEdit
<1>4. ServerTyped' BY <1>1, <1>3 DEF ServerTyped, Sized, OwnFits
<1>5. TabTyped' BY <1>1, <1>2, <1>3 DEF TabTyped, Held, Numbered
<1>6. BatchesTyped' BY <1>1, <1>3 DEF BatchesTyped, GoodBatch, Numbered, BarHasOne
<1>7. LedgerTyped' BY <1>1, <1>3 DEF LedgerTyped
<1> QED BY <1>4, <1>5, <1>6, <1>7, PartsNext

LEMMA EditStepsTyped ==
  ASSUME TypeInv, CommitEdit \/ (\E p \in Pos : Paste(p)) \/ Undo
  PROVE  TypeInv'
<1>1. /\ TypeOK /\ ServerTyped /\ TabTyped /\ BatchesTyped /\ LedgerTyped
  BY Parts DEF TypeInv
<1>2. PICK p \in Pos, aim \in Row \cup {NoRow}, why \in SUBSET Ways : SetCellValue(p, aim, why)
  <2>1. CASE CommitEdit
    <3>1. Held(editor) /\ editor # NoTarget BY <1>1, <2>1 DEF TabTyped, CommitEdit
    <3>2. editor.pos \in Pos /\ editor.aim \in Row \cup {NoRow} /\ editor.why \in SUBSET Ways
      BY <3>1 DEF Held, Target
    <3> QED BY <2>1, <3>2 DEF CommitEdit
  <2>2. ASSUME NEW p \in Pos, Paste(p)
        PROVE  SetCellValue(p, grid[p].row, Taint) /\ Taint \in SUBSET Ways
               /\ grid[p].row \in Row \cup {NoRow}
    BY <2>2, AtTyped DEF Paste
  <2>3. CASE Undo
    <3>1. Held(undo) /\ undo # NoTarget BY <1>1, <2>3 DEF TabTyped, Undo
    <3>2. undo.pos \in Pos /\ undo.aim \in Row \cup {NoRow} /\ undo.why \in SUBSET Ways
      BY <3>1 DEF Held, Target
    <3>3. undo.why \cup (IF undo.seen = store THEN {} ELSE {"undo"}) \in SUBSET Ways
      BY <3>2 DEF Ways
    <3> QED BY <2>3, <3>2, <3>3 DEF Undo
  <2> QED BY <2>1, <2>2, <2>3
<1>3. /\ edits' = edits + 1 /\ edits \in Nat /\ edits' \in 0 .. MaxEdits
      /\ queue' \in [Pos -> Op] /\ (\A q \in Pos : Numbered(queue[q])')
      /\ grid' \in [Pos -> Cell] /\ armed' \in BOOLEAN /\ settled' \subseteq 1 .. MaxEdits
  BY <1>2, SetCellTyped
<1>4. Held(editor)' /\ Held(undo)'
  <2>1. CASE CommitEdit
    BY <1>1, <2>1, ConstantTypes DEF CommitEdit, TabTyped, Held
  <2>2. ASSUME NEW q \in Pos, Paste(q) PROVE Held(editor)' /\ Held(undo)'
    <3> DEFINE w == Taint \cup (IF due THEN {"undo"} ELSE {})
    <3>1. w \in SUBSET Ways BY DEF Taint, Ways
    <3>2. Held(At(q, w)) BY <3>1, AtTyped
    <3>3. undo' = At(q, w) /\ editor' = editor BY <2>2 DEF Paste
    <3> QED BY <1>1, <3>2, <3>3 DEF TabTyped, Held
  <2>3. CASE Undo
    BY <1>1, <2>3, ConstantTypes DEF Undo, TabTyped, Held
  <2> QED BY <2>1, <2>2, <2>3
<1>5. UNCHANGED <<server, socket, store, loaded, reads, saving, due, bar, calls,
                  swallowed, misplaced, holes, meter>>
  BY DEF CommitEdit, Paste, Undo
<1>6. ServerTyped' BY <1>1, <1>5 DEF ServerTyped, Sized, OwnFits
<1>7. TabTyped' BY <1>1, <1>3, <1>4, <1>5 DEF TabTyped, Held
<1>8. BatchesTyped'
  <2>1. edits' \in Nat /\ edits' >= edits BY <1>3
  <2> QED BY <2>1, <1>5, BatchesKept
<1>9. LedgerTyped' BY <1>1, <1>3, <1>5 DEF LedgerTyped
<1> QED BY <1>6, <1>7, <1>8, <1>9, PartsNext

LEMMA FaultCounts ==
  ASSUME TypeOK
  PROVE  /\ faults' = faults => faults' <= session.faults
         /\ faults < session.faults /\ faults' = faults + 1 => faults' <= session.faults
<1>1. faults \in Nat /\ session.faults \in Nat /\ faults <= session.faults
  BY SessionFacts DEF TypeOK
<1> QED BY <1>1

LEMMA FlushTyped ==
  ASSUME TypeInv, FlushPendingOps
  PROVE  TypeInv'
<1>1. /\ TypeOK /\ ServerTyped /\ TabTyped /\ BatchesTyped /\ LedgerTyped
  BY Parts DEF TypeInv
<1>2. /\ UNCHANGED <<server, socket, store, screen, queue, due, hands, form, own, ledger, holes, meter>>
      /\ armed' \in BOOLEAN /\ saving' \in BOOLEAN
  BY <1>1 DEF FlushPendingOps, TypeOK
<1>3. ServerTyped' BY <1>1, <1>2 DEF ServerTyped, Sized, OwnFits
<1>4. TabTyped' BY <1>1, <1>2 DEF TabTyped, Held, Numbered
<1>5. BatchesTyped'
  <2>1. CASE UNCHANGED save
    BY <1>1, <1>2, <2>1 DEF BatchesTyped, GoodBatch, Numbered, BarHasOne
  <2>2. CASE \E n \in Batches :
               save' = [save EXCEPT ![n] = [NoBatch EXCEPT !.phase = "sent", !.ops = queue, !.base = store]]
    <3> DEFINE b == [NoBatch EXCEPT !.phase = "sent", !.ops = queue, !.base = store]
    <3>1. b \in Batch /\ b.ops = queue BY <1>1, ConstantTypes DEF Batch, TypeOK
    <3>2. GoodBatch(b) BY <1>1, <3>1 DEF GoodBatch, TabTyped
    <3> HIDE DEF b
    <3>3. PICK n \in Batches : save' = [save EXCEPT ![n] = b] BY <2>2 DEF b
    <3> QED BY <1>2, <3>2, <3>3, SaveSetTyped
  <2> QED BY <2>1, <2>2 DEF FlushPendingOps
<1>6. LedgerTyped' BY <1>1, <1>2 DEF LedgerTyped
<1> QED BY <1>3, <1>4, <1>5, <1>6, PartsNext

LEMMA UnsavedFacts ==
  ASSUME TypeInv, NEW b \in Batch
  PROVE  FromQueue(Unsaved(b, queue))
<1>1. queue \in [Pos -> Op] BY DEF TypeInv, TypeOK
<1> QED BY <1>1, ConstantTypes DEF Unsaved, FromQueue

LEMMA SaveAnsweredTyped ==
  ASSUME TypeInv, NEW n \in Batches, SaveAnswered(n)
  PROVE  TypeInv'
<1>1. /\ TypeOK /\ ServerTyped /\ TabTyped /\ BatchesTyped /\ LedgerTyped
  BY Parts DEF TypeInv
<1>2. save[n] \in Batch /\ save[n].rev \in Rev /\ save[n].cells \in [Pos -> Cell]
  BY <1>1 DEF TypeOK, Batch
<1>3. UNCHANGED <<server, socket, saving, due, bar, undo, form, own, ledger, blind, meter>>
  BY DEF SaveAnswered
<1>4. Capture(save[n].rev, Unsaved(save[n], queue), TRUE) BY DEF SaveAnswered
<1>5. /\ queue' \in [Pos -> Op] /\ (\A p \in Pos : Numbered(queue[p])')
      /\ Held(editor)' /\ stale' \in BOOLEAN /\ store' \in Rev
  BY <1>2, <1>3, <1>4, UnsavedFacts, CaptureKeeps
<1>6. Submitted(save[n]) \subseteq Pos BY DEF Submitted
<1>7. grid' \in [Pos -> Cell] /\ loaded' \subseteq Pos /\ armed' \in BOOLEAN /\ covered' \in BOOLEAN
  <2>1. \A p \in Pos : Applied(grid[p], save[n].cells[p]) \in Cell /\ grid[p] \in Cell
    BY <1>1, <1>2 DEF Applied, TypeOK
  <2>2. grid' \in [Pos -> Cell] BY <2>1 DEF SaveAnswered
  <2>3. covered' \in BOOLEAN BY DEF SaveAnswered
  <2> QED BY <1>1, <2>2, <2>3 DEF SaveAnswered, TypeOK
<1>8. reads' \subseteq Read
  <2>1. {n} \in SUBSET Tags BY DEF Tags
  <2> QED BY <1>1, <1>6, <2>1, AskedType DEF SaveAnswered, TypeOK
<1>9. ServerTyped' BY <1>1, <1>3 DEF ServerTyped, Sized, OwnFits
<1>10. TabTyped' BY <1>1, <1>3, <1>5, <1>7, <1>8 DEF TabTyped, Held
<1>11. BatchesTyped'
  <2> DEFINE b == [save[n] EXCEPT !.phase = "reload"]
  <2>1. b \in Batch /\ b.ops = save[n].ops BY <1>2 DEF Batch
  <2>2. GoodBatch(b) BY <1>1, <2>1 DEF GoodBatch, BatchesTyped
  <2>3. save' = [save EXCEPT ![n] = b] BY DEF SaveAnswered
  <2> HIDE DEF b
  <2> QED BY <1>3, <2>2, <2>3, SaveSetTyped
<1>12. LedgerTyped' BY <1>1, <1>3 DEF LedgerTyped
<1> QED BY <1>9, <1>10, <1>11, <1>12, PartsNext

LEMMA SaveEndsTyped ==
  ASSUME TypeInv, NEW n \in Batches, SaveRefused(n) \/ SaveFails(n) \/ SaveReloaded(n)
  PROVE  TypeInv'
<1>1. /\ TypeOK /\ ServerTyped /\ TabTyped /\ BatchesTyped /\ LedgerTyped
  BY Parts DEF TypeInv
<1>2. /\ save' = [save EXCEPT ![n] = NoBatch]
      /\ UNCHANGED <<server, socket, session, bar, undo, form, own, edits, swallowed, misplaced>>
      /\ faults' \in {faults, faults + 1} /\ faults' <= session.faults
      /\ settled' \in {settled, settled \cup QueuedIds}
  BY <1>1, FaultCounts DEF SaveRefused, SaveFails, SaveReloaded, Fault
<1>3. /\ queue' \in [Pos -> Op] /\ (\A p \in Pos : Numbered(queue[p])')
      /\ Held(editor)' /\ armed' \in BOOLEAN /\ due' \in BOOLEAN /\ blind' \in BOOLEAN
      /\ saving' \in BOOLEAN /\ store' \in Rev /\ ScreenTyped
  <2>1. CASE SaveRefused(n)
    <3>1. save[n].rev \in Rev BY <1>1 DEF TypeOK, Batch
    <3>2. Refreshed(FALSE) /\ saving' = FALSE /\ store' \in Rev
      BY <1>1, <2>1, <3>1, ConflictTyped DEF SaveRefused
    <3> QED BY <3>2, RefreshKeeps
  <2>2. CASE SaveFails(n) \/ SaveReloaded(n)
    <3>1. (\E lost \in BOOLEAN : StopSaving(lost)) /\ store' = store BY <2>2 DEF SaveFails, SaveReloaded
    <3>2. Stopped BY <1>1, <3>1, StopTyped
    <3> QED BY <1>1, <1>2, <3>1, <3>2, StopKeeps DEF TypeOK
  <2> QED BY <2>1, <2>2
<1>4. ServerTyped' BY <1>1, <1>2, <1>3, ServerKept DEF ServerTyped
<1>5. TabTyped' BY <1>1, <1>2, <1>3 DEF TabTyped, Held, ScreenTyped
<1>6. BatchesTyped' BY <1>2, NoBatchGood, SaveSetTyped
<1>7. LedgerTyped' BY <1>1, <1>2, QueuedFacts DEF LedgerTyped
<1> QED BY <1>4, <1>5, <1>6, <1>7, PartsNext

LEMMA SubmitBarTyped ==
  ASSUME TypeInv, SubmitBar
  PROVE  /\ TypeInv'
         /\ \E why \in SUBSET Ways, op \in Op :
              /\ why = bar.why \cup (IF bar.seen = store THEN {} ELSE {"formula"})
              /\ op.id = edits + 1 /\ op.aim = bar.aim /\ op.why = why /\ bar.pos \in Pos
              /\ form'.base = store /\ form'.phase = "sent"
              /\ \A q \in Pos : form'.ops[q] = IF q = bar.pos THEN op ELSE NoOp
<1>1. /\ TypeOK /\ ServerTyped /\ TabTyped /\ BatchesTyped /\ LedgerTyped
  BY Parts DEF TypeInv
<1>2. edits' = edits + 1 /\ edits \in Nat /\ edits' \in 0 .. MaxEdits /\ MaxEdits \in Nat
  <2>1. session.edits \in 0 .. MaxEdits /\ MaxEdits \in Nat /\ edits \in 0 .. MaxEdits
    BY <1>1, SessionFacts, SheetAssumption DEF TypeOK
  <2>2. edits < session.edits /\ edits' = edits + 1 BY DEF SubmitBar
  <2> QED BY <2>1, <2>2
<1>3. /\ UNCHANGED <<server, socket, store, screen, queue, armed, due, editor, undo, save, own,
                     settled, swallowed, misplaced, holes, meter>>
      /\ saving' = TRUE /\ bar' = NoTarget
  BY DEF SubmitBar
<1>4. /\ bar.pos \in Pos /\ bar.aim \in Row \cup {NoRow} /\ bar.why \in SUBSET Ways
  <2>1. Held(bar) /\ bar # NoTarget BY <1>1 DEF TabTyped, SubmitBar
  <2> QED BY <2>1 DEF Held, Target
<1> DEFINE why == bar.why \cup (IF bar.seen = store THEN {} ELSE {"formula"})
<1>5. why \in SUBSET Ways BY <1>4 DEF Ways
<1>6. PICK clear \in BOOLEAN :
        form' = [NoBatch EXCEPT !.phase = "sent", !.base = store,
                                !.ops[bar.pos] = [id |-> edits + 1, aim |-> bar.aim, clear |-> clear,
                                                  why |-> why]]
  BY DEF SubmitBar
<1> DEFINE op == [id |-> edits + 1, aim |-> bar.aim, clear |-> clear, why |-> why]
<1>7. op \in Op /\ op.id = edits + 1 /\ op.aim = bar.aim /\ op.why = why
  BY <1>2, <1>4, <1>5 DEF Op
<1>20. form' = [NoBatch EXCEPT !.phase = "sent", !.base = store, !.ops[bar.pos] = op]
  BY <1>6
<1> HIDE DEF op, why
<1>8. /\ form' \in Batch /\ form'.phase = "sent" /\ form'.base = store
      /\ form'.ops = [NoQueue EXCEPT ![bar.pos] = op]
  <2>1. NoBatch \in Batch /\ NoBatch.ops = NoQueue BY ConstantTypes DEF NoQueue
  <2>2. [NoQueue EXCEPT ![bar.pos] = op] \in [Pos -> Op] BY <1>4, <1>7, ConstantTypes
  <2> QED BY <1>1, <1>20, <2>1, <2>2 DEF Batch, TypeOK
<1>9. \A q \in Pos : form'.ops[q] = IF q = bar.pos THEN op ELSE NoOp
  BY <1>4, <1>8 DEF NoQueue
<1>10. op # NoOp BY <1>2, <1>7, ConstantTypes
<1>11. BarHasOne' BY <1>4, <1>9, <1>10 DEF BarHasOne
<1>12. GoodBatch(form)'
  <2>1. \A q \in Pos : form'.ops[q] = NoOp \/ form'.ops[q].id \in 1 .. edits'
    BY <1>2, <1>7, <1>9
  <2> QED BY <1>8, <2>1 DEF GoodBatch, Numbered
<1>13. \A n \in Batches : GoodBatch(save[n])'
  <2> TAKE n \in Batches
  <2>1. GoodBatch(save[n]) BY <1>1 DEF BatchesTyped
  <2>2. edits' \in Nat /\ edits' >= edits BY <1>2
  <2>3. save[n] \in Batch /\ \A p \in Pos : save[n].ops[p] = NoOp \/ save[n].ops[p].id \in 1 .. edits'
    BY <2>1, <2>2, BatchKept
  <2>4. save' = save BY <1>3
  <2> QED BY <2>3, <2>4 DEF GoodBatch, Numbered
<1>14. BatchesTyped' BY <1>1, <1>3, <1>11, <1>12, <1>13 DEF BatchesTyped
<1>15. ServerTyped' BY <1>1, <1>3 DEF ServerTyped, Sized, OwnFits
<1>16. TabTyped'
  <2>1. \A p \in Pos : queue[p] = NoOp \/ queue[p].id \in 1 .. edits'
    <3> TAKE p \in Pos
    <3>1. queue[p] = NoOp \/ queue[p].id \in 1 .. edits BY <1>1 DEF TabTyped, Numbered
    <3> QED BY <3>1, <1>2
  <2> QED BY <1>1, <1>3, <2>1, ConstantTypes DEF TabTyped, Held, Numbered
<1>17. LedgerTyped' BY <1>1, <1>2, <1>3 DEF LedgerTyped
<1>18. TypeInv' BY <1>14, <1>15, <1>16, <1>17, PartsNext
<1> QED BY <1>18, <1>4, <1>5, <1>7, <1>8, <1>9 DEF why

LEMMA BarPosFacts ==
  ASSUME TypeInv, form.phase # "idle"
  PROVE  /\ BarPos \in Pos /\ form.ops[BarPos] # NoOp /\ form.ops[BarPos].id \in 1 .. edits
         /\ form.ops[BarPos].id \in 1 .. MaxEdits
         /\ \A q \in Pos : form.ops[q] # NoOp => q = BarPos
<1>1. PICK p \in Pos : form.ops[p] # NoOp /\ \A q \in Pos \ {p} : form.ops[q] = NoOp
  BY DEF TypeInv, BarHasOne
<1>2. BarPos \in Pos /\ form.ops[BarPos] # NoOp BY <1>1 DEF BarPos
<1>3. form.ops[BarPos].id \in 1 .. edits BY <1>2 DEF TypeInv, AllNumbered, Numbered
<1>4. edits \in 0 .. MaxEdits /\ MaxEdits \in Nat BY SheetAssumption DEF TypeInv, TypeOK
<1>5. form.ops[BarPos].id \in 1 .. MaxEdits BY <1>3, <1>4
<1> QED BY <1>1, <1>2, <1>3, <1>5

\* What the answer of the formula bar shows, and what it takes from the queue.
LEMMA BarShowsTyped ==
  ASSUME TypeInv, form.phase # "idle", BarShows(BarPos), edits' = edits
  PROVE  /\ queue' \in [Pos -> Op] /\ (\A q \in Pos : Numbered(queue[q])')
         /\ Held(editor)' /\ armed' \in BOOLEAN /\ due' = due /\ blind' = blind
         /\ store' \in Rev /\ grid' \in [Pos -> Cell]
         /\ stale' \in BOOLEAN /\ covered' \in BOOLEAN
<1> DEFINE p == BarPos
           left == [queue EXCEPT ![p] = NoOp]
<1>1. TypeOK BY DEF TypeInv
<1>2. p \in Pos BY BarPosFacts
<1>3. form.rev \in Rev /\ form.cells \in [Pos -> Cell] BY <1>1 DEF TypeOK, Batch
<1>4. /\ Capture(form.rev, left, TRUE) /\ armed' = (left # NoQueue)
      /\ grid' = [grid EXCEPT ![p] = Applied(grid[p], form.cells[p])]
      /\ covered' \in BOOLEAN
      /\ UNCHANGED <<due, blind>>
  BY DEF BarShows
<1>5. FromQueue(left) BY <1>1, <1>2, ConstantTypes DEF FromQueue, TypeOK
<1>6. grid' \in [Pos -> Cell]
  <2>1. Applied(grid[p], form.cells[p]) \in Cell BY <1>1, <1>2, <1>3 DEF Applied, TypeOK
  <2> QED BY <1>1, <1>4, <2>1 DEF TypeOK
<1> HIDE DEF left
<1>7. /\ queue' \in [Pos -> Op] /\ (\A q \in Pos : Numbered(queue[q])')
      /\ Held(editor)' /\ stale' \in BOOLEAN /\ store' \in Rev
  BY <1>3, <1>4, <1>5, CaptureKeeps
<1> QED BY <1>1, <1>4, <1>6, <1>7 DEF TypeOK

LEMMA UnqueueTyped ==
  ASSUME TypeInv, form.phase # "idle", NEW all \in BOOLEAN, Unqueue(BarPos, all)
  PROVE  settled' \subseteq 1 .. MaxEdits /\ swallowed' \subseteq 1 .. MaxEdits
<1> DEFINE p == BarPos
<1>1. TypeOK /\ p \in Pos BY BarPosFacts DEF TypeInv
<1>2. queue[p].id > form.ops[p].id => queue[p].id \in 1 .. MaxEdits
  <2>1. queue[p] = NoOp => queue[p].id = 0 BY ConstantTypes
  <2>2. queue[p] # NoOp => queue[p].id \in QueuedIds BY <1>1 DEF QueuedIds
  <2>3. form.ops[p].id \in 1 .. MaxEdits BY BarPosFacts
  <2> QED BY <2>1, <2>2, <2>3, QueuedFacts
<1>3. settled' \subseteq settled \cup QueuedIds BY DEF Unqueue, QueuedIds
<1>4. swallowed' \in {swallowed, swallowed \cup {queue[p].id}}
      /\ (swallowed' = swallowed \/ queue[p].id > form.ops[p].id)
  BY DEF Unqueue
<1> QED BY <1>1, <1>2, <1>3, <1>4, QueuedFacts DEF TypeOK

LEMMA BarAnsweredTyped ==
  ASSUME TypeInv, BarAnswered
  PROVE  TypeInv'
<1>1. /\ TypeOK /\ ServerTyped /\ TabTyped /\ BatchesTyped /\ LedgerTyped
  BY Parts DEF TypeInv
<1>2. /\ form' = NoBatch /\ saving' = FALSE /\ form.phase # "idle" /\ Unqueue(BarPos, due)
      /\ UNCHANGED <<server, socket, bar, undo, save, own, edits, misplaced, meter>>
  BY DEF BarAnswered
<1>3. /\ queue' \in [Pos -> Op] /\ (\A q \in Pos : Numbered(queue[q])')
      /\ Held(editor)' /\ armed' \in BOOLEAN /\ due' \in BOOLEAN /\ blind' \in BOOLEAN
      /\ store' \in Rev /\ grid' \in [Pos -> Cell] /\ loaded' \subseteq Pos
      /\ reads' \subseteq Read /\ stale' \in BOOLEAN /\ covered' \in BOOLEAN
  <2>1. CASE due
    <3>1. store' = Newest(store, form.rev) /\ RefreshSheet(FALSE) BY <2>1 DEF BarAnswered
    <3>2. form.rev \in Rev BY <1>1 DEF TypeOK, Batch
    <3>3. Refreshed(FALSE) /\ store' \in Rev BY <1>1, <3>1, <3>2, RefreshTyped, NewestType
    <3> QED BY <3>3, RefreshKeeps DEF ScreenTyped
  <2>2. CASE ~due
    <3>1. BarShows(BarPos) /\ UNCHANGED <<loaded, reads>> BY <2>2 DEF BarAnswered
    <3> QED BY <1>1, <1>2, <3>1, BarShowsTyped DEF TypeOK
  <2> QED BY <2>1, <2>2
<1>4. settled' \subseteq 1 .. MaxEdits /\ swallowed' \subseteq 1 .. MaxEdits
  BY <1>1, <1>2, UnqueueTyped DEF TypeOK
<1>5. ServerTyped' BY <1>1, <1>2, <1>3 DEF ServerTyped, Sized, OwnFits
<1>6. TabTyped' BY <1>1, <1>2, <1>3 DEF TabTyped, Held
<1>7. BatchesTyped' BY <1>2, FormEndTyped
<1>8. LedgerTyped' BY <1>1, <1>2, <1>4 DEF LedgerTyped
<1> QED BY <1>5, <1>6, <1>7, <1>8, PartsNext

LEMMA FormReloads ==
  ASSUME TypeInv, form.phase # "idle", form' = [form EXCEPT !.phase = "reload"],
         UNCHANGED <<save, edits>>
  PROVE  BatchesTyped' /\ form'.ops = form.ops /\ form'.phase = "reload"
<1>1. BatchesTyped BY Parts
<1>2. form \in Batch BY <1>1 DEF BatchesTyped, GoodBatch
<1>3. form' \in Batch /\ form'.ops = form.ops /\ form'.phase = "reload" BY <1>2 DEF Batch
<1>4. BarHasOne' BY <1>1, <1>3 DEF BatchesTyped, BarHasOne
<1> QED BY <1>1, <1>3, <1>4 DEF BatchesTyped, GoodBatch, Numbered

LEMMA BarWithoutTyped ==
  ASSUME TypeInv, BarWithout
  PROVE  TypeInv'
<1>1. /\ TypeOK /\ ServerTyped /\ TabTyped /\ BatchesTyped /\ LedgerTyped
  BY Parts DEF TypeInv
<1>2. /\ form' = [form EXCEPT !.phase = "reload"] /\ form.phase # "idle"
      /\ Unqueue(BarPos, FALSE) /\ BarShows(BarPos)
      /\ UNCHANGED <<server, socket, saving, bar, undo, save, own, edits, misplaced, meter>>
  BY DEF BarWithout
<1>3. /\ queue' \in [Pos -> Op] /\ (\A q \in Pos : Numbered(queue[q])')
      /\ Held(editor)' /\ armed' \in BOOLEAN /\ due' = due /\ blind' = blind
      /\ store' \in Rev /\ grid' \in [Pos -> Cell] /\ stale' \in BOOLEAN /\ covered' \in BOOLEAN
  BY <1>2, BarShowsTyped
<1>4. loaded' \subseteq Pos /\ reads' \subseteq Read
  <2>1. {BarPos} \in SUBSET Pos /\ {"bar"} \in SUBSET Tags BY <1>2, BarPosFacts DEF Tags
  <2> QED BY <1>1, <2>1, AskedType DEF BarWithout, TypeOK
<1>5. settled' \subseteq 1 .. MaxEdits /\ swallowed' \subseteq 1 .. MaxEdits
  BY <1>2, UnqueueTyped
<1>6. ServerTyped' BY <1>1, <1>2, <1>3 DEF ServerTyped, Sized, OwnFits
<1>7. TabTyped' BY <1>1, <1>2, <1>3, <1>4 DEF TabTyped, Held
<1>8. BatchesTyped' BY <1>2, FormReloads
<1>9. LedgerTyped' BY <1>1, <1>2, <1>5 DEF LedgerTyped
<1> QED BY <1>6, <1>7, <1>8, <1>9, PartsNext

LEMMA BarEndsTyped ==
  ASSUME TypeInv, BarRefused \/ BarFails \/ BarReloaded
  PROVE  TypeInv'
<1>1. /\ TypeOK /\ ServerTyped /\ TabTyped /\ BatchesTyped /\ LedgerTyped
  BY Parts DEF TypeInv
<1>2. /\ form' = NoBatch
      /\ UNCHANGED <<server, socket, session, bar, undo, save, own, edits, swallowed, misplaced>>
      /\ faults' \in {faults, faults + 1} /\ faults' <= session.faults
      /\ settled' \subseteq settled \cup QueuedIds \cup {form.ops[BarPos].id}
  BY <1>1, FaultCounts DEF BarRefused, BarFails, BarReloaded, Fault
<1>3. /\ queue' \in [Pos -> Op] /\ (\A p \in Pos : Numbered(queue[p])')
      /\ Held(editor)' /\ armed' \in BOOLEAN /\ due' \in BOOLEAN /\ blind' \in BOOLEAN
      /\ saving' \in BOOLEAN /\ store' \in Rev /\ ScreenTyped
  <2>1. CASE BarRefused
    <3>1. form.rev \in Rev BY <1>1 DEF TypeOK, Batch
    <3>2. Refreshed(FALSE) /\ saving' = FALSE /\ store' \in Rev
      BY <1>1, <2>1, <3>1, ConflictTyped DEF BarRefused
    <3> QED BY <3>2, RefreshKeeps
  <2>2. CASE BarFails \/ BarReloaded
    <3>1. (\E lost \in BOOLEAN : StopSaving(lost)) /\ store' = store BY <2>2 DEF BarFails, BarReloaded
    <3>2. Stopped BY <1>1, <3>1, StopTyped
    <3> QED BY <1>1, <1>2, <3>1, <3>2, StopKeeps DEF TypeOK
  <2> QED BY <2>1, <2>2
<1>4. ServerTyped' BY <1>1, <1>2, <1>3, ServerKept DEF ServerTyped
<1>5. TabTyped' BY <1>1, <1>2, <1>3 DEF TabTyped, Held, ScreenTyped
<1>6. BatchesTyped' BY <1>2, FormEndTyped
<1>7. LedgerTyped'
  <2>1. form.ops[BarPos].id \in 1 .. MaxEdits BY BarPosFacts DEF BarRefused, BarFails, BarReloaded, Fault
  <2> QED BY <1>1, <1>2, <2>1, QueuedFacts DEF LedgerTyped
<1> QED BY <1>4, <1>5, <1>6, <1>7, PartsNext

LEMMA StartStructureTyped ==
  ASSUME TypeInv, NEW kind \in session.kinds, NEW p \in Pos, StartStructure(kind, p)
  PROVE  TypeInv'
<1>1. /\ TypeOK /\ ServerTyped /\ TabTyped /\ BatchesTyped /\ LedgerTyped
  BY Parts DEF TypeInv
<1>2. UNCHANGED <<server, socket, store, screen, pending, hands, save, form, ledger, holes, meter>>
  BY DEF StartStructure
<1>3. own' \in Change
  <2>1. kind \in Kinds /\ store \in Rev BY <1>1, SessionFacts DEF TypeOK
  <2> QED BY <2>1 DEF StartStructure, Change, Rev
<1>4. OwnFits'
  <2>1. rev < session.rev /\ rev \in Int /\ session.rev \in Int
    BY <1>1, SessionFacts, SheetAssumption DEF StartStructure, TypeOK
  <2> QED BY <1>2, <2>1 DEF OwnFits
<1>5. ServerTyped' BY <1>1, <1>2, <1>3, <1>4 DEF ServerTyped, Sized
<1>6. TabTyped' BY <1>1, <1>2 DEF TabTyped, Held, Numbered
<1>7. BatchesTyped' BY <1>1, <1>2 DEF BatchesTyped, GoodBatch, Numbered, BarHasOne
<1>8. LedgerTyped' BY <1>1, <1>2 DEF LedgerTyped
<1> QED BY <1>5, <1>6, <1>7, <1>8, PartsNext

\* What becomes of the queue and the editor when the tab's own change answers.
LEMMA OwnMarks ==
  ASSUME TypeInv, StructureAnswered
  PROVE  /\ queue' \in [Pos -> Op]
         /\ \A p \in Pos : /\ queue'[p].id = queue[p].id
                           /\ queue'[p] = NoOp \/ (queue[p] # NoOp /\ queue'[p].why # {})
         /\ editor' \in Target
         /\ editor' = NoTarget \/ (editor # NoTarget /\ editor'.pos = editor.pos /\ editor'.why # {})
<1>1. {"own"} \in SUBSET Ways BY DEF Ways
<1>2. queue \in [Pos -> Op] /\ editor \in Target BY DEF TypeInv, TypeOK
<1>3. queue' = [p \in Pos |-> Marked(queue[p], {"own"})] /\ editor' = MarkedTarget(editor, {"own"})
  BY DEF StructureAnswered
<1>4. \A p \in Pos : /\ Marked(queue[p], {"own"}) \in Op
                     /\ Marked(queue[p], {"own"}).id = queue[p].id
                     /\ \/ Marked(queue[p], {"own"}) = NoOp
                        \/ queue[p] # NoOp /\ Marked(queue[p], {"own"}).why # {}
  <2> TAKE p \in Pos
  <2>1. queue[p] \in Op BY <1>2
  <2> QED BY <2>1, <1>1, MarkedFacts
<1>5. \A p \in Pos : queue'[p] = Marked(queue[p], {"own"}) BY <1>3
<1>6. queue' \in [Pos -> Op] BY <1>3, <1>4
<1>7. /\ editor' \in Target
      /\ editor' = NoTarget \/ (editor # NoTarget /\ editor'.pos = editor.pos /\ editor'.why # {})
  BY <1>1, <1>2, <1>3, MarkedTargetFacts
<1> QED BY <1>4, <1>5, <1>6, <1>7

LEMMA StructureAnsweredTyped ==
  ASSUME TypeInv, StructureAnswered
  PROVE  TypeInv'
<1>1. /\ TypeOK /\ ServerTyped /\ TabTyped /\ BatchesTyped /\ LedgerTyped
  BY Parts DEF TypeInv
<1>2. /\ UNCHANGED <<server, socket, armed, saving, due, bar, undo, save, form, ledger, blind, meter>>
      /\ own' = NoChange /\ ResetScreen({})
  BY DEF StructureAnswered
<1>3. own' \in Change /\ OwnFits' BY <1>2, ConstantTypes DEF OwnFits
<1>4. ScreenTyped BY <1>1, <1>2, ResetTyped
<1>5. queue' \in [Pos -> Op] /\ (\A p \in Pos : Numbered(queue[p])') /\ Held(editor)'
  <2>1. \A p \in Pos : queue'[p] = NoOp \/ queue'[p].id \in 1 .. edits
    <3> TAKE p \in Pos
    <3>1. queue[p] = NoOp \/ queue[p].id \in 1 .. edits BY <1>1 DEF TabTyped, Numbered
    <3> QED BY <3>1, OwnMarks
  <2> QED BY <1>1, <1>2, <2>1, OwnMarks DEF Numbered, TabTyped, Held
<1>6. store' \in Rev
  <2>1. own.rev \in Rev BY <1>1 DEF TypeOK, Change
  <2> QED BY <1>1, <2>1, NewestType DEF StructureAnswered
<1>7. ServerTyped' BY <1>1, <1>2, <1>3 DEF ServerTyped, Sized
<1>8. TabTyped' BY <1>1, <1>2, <1>4, <1>5, <1>6 DEF TabTyped, Held, ScreenTyped
<1>9. BatchesTyped' BY <1>1, <1>2 DEF BatchesTyped, GoodBatch, Numbered, BarHasOne
<1>10. LedgerTyped' BY <1>1, <1>2 DEF LedgerTyped
<1> QED BY <1>7, <1>8, <1>9, <1>10, PartsNext

LEMMA StructureRefusedTyped ==
  ASSUME TypeInv, StructureRefused
  PROVE  TypeInv'
<1>1. /\ TypeOK /\ ServerTyped /\ TabTyped /\ BatchesTyped /\ LedgerTyped
  BY Parts DEF TypeInv
<1>2. /\ UNCHANGED <<server, socket, saving, bar, undo, save, form, edits, swallowed, misplaced, meter>>
      /\ own' = NoChange /\ RefreshSheet(saving) /\ settled' = settled \cup QueuedIds
  BY DEF StructureRefused
<1>3. own' \in Change /\ OwnFits' BY <1>2, ConstantTypes DEF OwnFits
<1>4. saving \in BOOLEAN BY <1>1 DEF TypeOK
<1>5. Refreshed(TRUE) \/ Refreshed(FALSE)
  <2>1. Refreshed(saving) BY <1>1, <1>2, <1>4, RefreshTyped
  <2> QED BY <2>1, <1>4
<1>6. store' \in Rev
  <2>1. own.rev \in Rev BY <1>1 DEF TypeOK, Change
  <2> QED BY <1>1, <2>1, NewestType DEF StructureRefused
<1>7. ServerTyped' BY <1>1, <1>2, <1>3, <1>5, RefreshKeeps DEF ServerTyped, Sized
<1>8. TabTyped' BY <1>1, <1>2, <1>5, <1>6, RefreshKeeps DEF TabTyped, Held, ScreenTyped
<1>9. BatchesTyped' BY <1>1, <1>2 DEF BatchesTyped, GoodBatch, Numbered, BarHasOne
<1>10. LedgerTyped' BY <1>1, <1>2, QueuedFacts DEF LedgerTyped
<1> QED BY <1>7, <1>8, <1>9, <1>10, PartsNext

LEMMA StructureFailsTyped ==
  ASSUME TypeInv, StructureFails
  PROVE  TypeInv'
<1>1. /\ TypeOK /\ ServerTyped /\ TabTyped /\ BatchesTyped /\ LedgerTyped
  BY Parts DEF TypeInv
<1>2. /\ UNCHANGED <<server, socket, store, screen, pending, hands, save, form, ledger, stale, covered, session>>
      /\ own' = NoChange /\ blind' \in BOOLEAN
      /\ faults < session.faults /\ faults' = faults + 1
  BY <1>1 DEF StructureFails, Fault, TypeOK
<1>3. own' \in Change /\ OwnFits' BY <1>2, ConstantTypes DEF OwnFits
<1>4. faults' \in 0 .. session.faults
  <2>1. faults \in Nat /\ session.faults \in Nat BY <1>1, SessionFacts DEF TypeOK
  <2> QED BY <1>2, <2>1
<1>5. ServerTyped' BY <1>1, <1>2, <1>3, <1>4 DEF ServerTyped, Sized
<1>6. TabTyped' BY <1>1, <1>2 DEF TabTyped, Held, Numbered
<1>7. BatchesTyped' BY <1>1, <1>2 DEF BatchesTyped, GoodBatch, Numbered, BarHasOne
<1>8. LedgerTyped' BY <1>1, <1>2 DEF LedgerTyped
<1> QED BY <1>5, <1>6, <1>7, <1>8, PartsNext

\* The steps of the socket that do not refresh.
LEMMA QuietSocketTyped ==
  ASSUME TypeInv, Join \/ Disconnect \/ \E m \in inbox : OldNews(m)
  PROVE  TypeInv'
<1>1. /\ TypeOK /\ ServerTyped /\ TabTyped /\ BatchesTyped /\ LedgerTyped
  BY Parts DEF TypeInv
<1>2. /\ UNCHANGED <<server, store, screen, pending, hands, calls, ledger, holes, session>>
      /\ conn' \in {"never", "open", "down"} /\ inbox' \subseteq inbox
  BY <1>1 DEF Join, Disconnect, OldNews, Fault, TypeOK
<1>3. faults' \in 0 .. session.faults
  <2>1. faults \in Nat /\ session.faults \in Nat /\ faults <= session.faults
    BY <1>1, SessionFacts DEF TypeOK
  <2>2. faults' = faults \/ (faults < session.faults /\ faults' = faults + 1)
    BY DEF Join, Disconnect, OldNews, Fault
  <2> QED BY <2>1, <2>2
<1>4. ServerTyped' BY <1>1, <1>2, <1>3 DEF ServerTyped, Sized, OwnFits
<1>5. TabTyped' BY <1>1, <1>2 DEF TabTyped, Held, Numbered
<1>6. BatchesTyped' BY <1>1, <1>2 DEF BatchesTyped, GoodBatch, Numbered, BarHasOne
<1>7. LedgerTyped' BY <1>1, <1>2 DEF LedgerTyped
<1> QED BY <1>4, <1>5, <1>6, <1>7, PartsNext

LEMMA MessageFacts ==
  ASSUME TypeOK, NEW m \in inbox
  PROVE  /\ m.rev \in Rev
         /\ m.kind \in {"cells", "refresh"}
         /\ m.kind = "cells" => m.pos \in Pos /\ m.cell \in Cell
<1>1. m \in Message BY DEF TypeOK
<1> QED BY <1>1 DEF Message

LEMMA SocketRefreshTyped ==
  ASSUME TypeInv, Rejoin \/ \E m \in inbox : NewStructure(m)
  PROVE  TypeInv'
<1>1. /\ TypeOK /\ ServerTyped /\ TabTyped /\ BatchesTyped /\ LedgerTyped
  BY Parts DEF TypeInv
<1>2. /\ UNCHANGED <<server, saving, bar, undo, calls, edits, swallowed, misplaced, meter>>
      /\ conn' \in {conn, "open"} /\ inbox' \subseteq inbox
      /\ RefreshSheet(saving) /\ settled' = settled \cup QueuedIds
  BY DEF Rejoin, NewStructure
<1>3. saving \in BOOLEAN BY <1>1 DEF TypeOK
<1>4. Refreshed(TRUE) \/ Refreshed(FALSE)
  <2>1. Refreshed(saving) BY <1>1, <1>2, <1>3, RefreshTyped
  <2> QED BY <2>1, <1>3
<1>5. store' \in Rev
  <2>1. CASE Rejoin BY <1>1, <2>1 DEF Rejoin, TypeOK
  <2>2. ASSUME NEW m \in inbox, NewStructure(m) PROVE store' \in Rev
    BY <1>1, <2>2, MessageFacts DEF NewStructure
  <2> QED BY <2>1, <2>2
<1>6. ServerTyped' BY <1>1, <1>2, <1>4, RefreshKeeps DEF ServerTyped, Sized, OwnFits
<1>7. TabTyped' BY <1>1, <1>2, <1>4, <1>5, RefreshKeeps DEF TabTyped, Held, ScreenTyped
<1>8. BatchesTyped' BY <1>1, <1>2 DEF BatchesTyped, GoodBatch, Numbered, BarHasOne
<1>9. LedgerTyped' BY <1>1, <1>2, QueuedFacts DEF LedgerTyped
<1> QED BY <1>6, <1>7, <1>8, <1>9, PartsNext

LEMMA PeerCellsTyped ==
  ASSUME TypeInv, NEW m \in inbox, PeerCells(m)
  PROVE  TypeInv'
<1>1. /\ TypeOK /\ ServerTyped /\ TabTyped /\ BatchesTyped /\ LedgerTyped
  BY Parts DEF TypeInv
<1>2. /\ UNCHANGED <<server, conn, loaded, reads, pending, hands, calls, ledger, holes, meter>>
      /\ inbox' \subseteq inbox
  BY DEF PeerCells
<1>3. store' \in Rev /\ grid' \in [Pos -> Cell]
  <2>1. m.pos \in Pos /\ m.cell \in Cell /\ m.rev \in Rev
    BY <1>1, MessageFacts DEF PeerCells
  <2>2. Merged(grid[m.pos], m.cell) \in Cell BY <1>1, <2>1 DEF Merged, TypeOK
  <2>3. grid' = grid \/ grid' = [grid EXCEPT ![m.pos] = Merged(grid[m.pos], m.cell)]
    BY DEF PeerCells
  <2> QED BY <1>1, <2>1, <2>2, <2>3 DEF PeerCells, TypeOK
<1>4. ServerTyped' BY <1>1, <1>2 DEF ServerTyped, Sized, OwnFits
<1>5. TabTyped' BY <1>1, <1>2, <1>3 DEF TabTyped, Held, Numbered
<1>6. BatchesTyped' BY <1>1, <1>2 DEF BatchesTyped, GoodBatch, Numbered, BarHasOne
<1>7. LedgerTyped' BY <1>1, <1>2 DEF LedgerTyped
<1> QED BY <1>4, <1>5, <1>6, <1>7, PartsNext

LEMMA TypeStep == TypeInv /\ [Next]_vars => TypeInv'
<1> SUFFICES ASSUME TypeInv, [Next]_vars PROVE TypeInv' OBVIOUS
<1>1. CASE Peers
  BY <1>1, PeerRestructuresTyped, PeerWritesTyped DEF Peers
<1>2. CASE Server
  BY <1>2, ServeFormulaTyped, ServeStructureTyped, ServeSaveTyped, ServeReadTyped DEF Server
<1>3. CASE User
  BY <1>3, ReadStepsTyped, HandStepsTyped, EditStepsTyped, SubmitBarTyped, StartStructureTyped DEF User
<1>4. CASE FlushPendingOps BY <1>4, FlushTyped
<1>5. CASE Answers
  BY <1>5, SaveAnsweredTyped, SaveEndsTyped, BarAnsweredTyped, BarWithoutTyped, BarEndsTyped,
     StructureAnsweredTyped, StructureRefusedTyped, ReadStepsTyped DEF Answers
<1>6. CASE Faults
  BY <1>6, SaveEndsTyped, BarEndsTyped, StructureFailsTyped, QuietSocketTyped, ReadStepsTyped DEF Faults
<1>7. CASE Socket
  BY <1>7, QuietSocketTyped, SocketRefreshTyped, PeerCellsTyped DEF Socket
<1>8. CASE UNCHANGED vars
  BY <1>8 DEF vars, TypeInv, TypeOK, Sized, OwnFits, AllNumbered, Numbered, AllPlaced, BarHasOne
<1> QED BY <1>1, <1>2, <1>3, <1>4, <1>5, <1>6, <1>7, <1>8 DEF Next

\* Every variable keeps its type: no interleaving makes a session count too
\* many edits, faults or revisions, or leaves a position without a row.
THEOREM TypeCorrect == Spec => []TypeOK
<1>1. TypeInv => TypeOK BY DEF TypeInv
<1> QED BY <1>1, InitTyped, TypeStep, PTL DEF Spec

-------------------------------------------------------------------------------
(* No edit vanishes.                                                        *)

\* An edit stays accounted for while its operation is queued, or is settled.
LEMMA StillKnown ==
  ASSUME TypeInv, NoEditVanishes, edits' = edits,
         settled \subseteq settled', swallowed \subseteq swallowed',
         \A p \in Pos : queue[p] # NoOp => \/ queue[p].id \in settled' \cup swallowed'
                                           \/ queue'[p].id = queue[p].id,
         form.phase # "idle" =>
           \/ form'.phase # "idle" /\ form'.ops = form.ops
           \/ \A p \in Pos : form.ops[p] # NoOp => form.ops[p].id \in settled'
  PROVE  NoEditVanishes'
<1> SUFFICES ASSUME NEW i \in 1 .. edits
             PROVE  \/ i \in QueuedIds' \cup settled' \cup swallowed'
                    \/ form'.phase # "idle" /\ \E p \in Pos : form'.ops[p].id = i
  BY DEF NoEditVanishes
<1>1. i # NoOp.id /\ NoOp.id = 0 BY ConstantTypes
<1>2. CASE i \in QueuedIds
  <2>1. PICK p \in Pos : queue[p] # NoOp /\ queue[p].id = i BY <1>2 DEF QueuedIds
  <2>2. CASE queue'[p].id = queue[p].id
    <3>1. queue'[p] # NoOp BY <1>1, <2>1, <2>2
    <3>2. i \in QueuedIds' BY <2>1, <2>2, <3>1 DEF QueuedIds
    <3> QED BY <3>2
  <2> QED BY <2>1, <2>2
<1>3. CASE i \in settled \cup swallowed BY <1>3
<1>4. CASE form.phase # "idle" /\ \E p \in Pos : form.ops[p].id = i
  <2>1. PICK p \in Pos : form.ops[p].id = i BY <1>4
  <2>2. form.ops[p] # NoOp BY <1>1, <2>1
  <2> QED BY <1>4, <2>1, <2>2
<1> QED BY <1>2, <1>3, <1>4 DEF NoEditVanishes

\* A batch stays settled when its operations stay and nothing is unsettled.
LEMMA StillSettled ==
  ASSUME SavedSettled, settled \subseteq settled',
         \A n \in Batches : \/ save'[n].phase \notin {"ok", "reload"}
                            \/ save'[n].ops = save[n].ops /\ save[n].phase \in {"ok", "reload"}
                            \/ SettledBatch(save[n])' ,
         \/ form'.phase \notin {"ok", "reload"}
         \/ form'.ops = form.ops /\ form.phase \in {"ok", "reload"}
         \/ SettledBatch(form)'
  PROVE  SavedSettled'
<1>1. \A n \in Batches : SettledBatch(save[n])'
  <2> TAKE n \in Batches
  <2>1. SettledBatch(save[n]) BY DEF SavedSettled
  <2> QED BY <2>1 DEF SettledBatch
<1>2. SettledBatch(form)' BY DEF SettledBatch, SavedSettled
<1> QED BY <1>1, <1>2 DEF SavedSettled

SettledInv == TypeInv /\ SavedSettled /\ NoEditVanishes

LEMMA CaptureKnown ==
  ASSUME TypeInv, NEW x \in reads, ReadAnswered(x)
  PROVE  \A p \in Pos : queue'[p].id = queue[p].id
<1>1. TypeOK BY DEF TypeInv
<1>2. x.rev \in Rev /\ x.current \in BOOLEAN /\ queue \in [Pos -> Op] BY <1>1 DEF TypeOK, Read
<1>3. Captured(x.rev, queue, x.current) BY <1>1, <1>2, CaptureTyped DEF ReadAnswered
<1> QED BY <1>3 DEF Captured

\* A step that touches none of the queue, the batches and the ledger.
Aside == UNCHANGED <<queue, edits, settled, swallowed, save, form>>

LEMMA AsideSettled ==
  ASSUME SettledInv, Aside \/ (\E x \in reads : ReadAnswered(x)) \/ StructureAnswered
  PROVE  SavedSettled' /\ NoEditVanishes'
<1>1. TypeInv /\ SavedSettled /\ NoEditVanishes BY DEF SettledInv
<1>2. UNCHANGED <<edits, settled, swallowed, save, form>>
  BY DEF Aside, ReadAnswered, StructureAnswered
<1>3. \A p \in Pos : queue'[p].id = queue[p].id
  BY <1>1, CaptureKnown, OwnMarks DEF Aside
<1>4. SavedSettled' BY <1>1, <1>2 DEF SavedSettled, SettledBatch
<1> QED BY <1>1, <1>2, <1>3, <1>4, StillKnown

LEMMA ServeSettled ==
  ASSUME SettledInv, ServeFormula \/ \E n \in Batches : ServeSave(n)
  PROVE  SavedSettled' /\ NoEditVanishes'
<1>1. TypeInv /\ SavedSettled /\ NoEditVanishes /\ BatchesTyped BY Parts DEF SettledInv
<1>2. UNCHANGED <<queue, edits, swallowed>> BY DEF ServeFormula, ServeSave
<1>3. CASE ServeFormula
  <2>1. PICK b \in {Done(form), Refused(form)} : ServeBatch(form, b) /\ form' = b
    BY <1>3 DEF ServeFormula
  <2>2. GoodBatch(form) BY <1>1 DEF BatchesTyped
  <2>3. /\ b.ops = form.ops /\ settled \subseteq settled'
        /\ b.phase \in {"ok", "conflict"}
        /\ b.phase = "ok" => \A p \in Pos : form.ops[p] # NoOp => form.ops[p].id \in settled'
    BY <1>1, <2>1, <2>2, ServeBatchTyped
  <2>4. SettledBatch(form)' BY <2>1, <2>3 DEF SettledBatch
  <2>5. save' = save BY <1>3 DEF ServeFormula
  <2>6. SavedSettled' BY <1>1, <2>3, <2>4, <2>5, StillSettled
  <2>7. form'.phase # "idle" /\ form'.ops = form.ops BY <2>1, <2>3
  <2>8. NoEditVanishes' BY <1>1, <1>2, <2>3, <2>7, StillKnown
  <2> QED BY <2>6, <2>8
<1>4. ASSUME NEW n \in Batches, ServeSave(n) PROVE SavedSettled' /\ NoEditVanishes'
  <2>1. PICK b \in {Done(save[n]), Refused(save[n])} :
          ServeBatch(save[n], b) /\ save' = [save EXCEPT ![n] = b]
    BY <1>4 DEF ServeSave
  <2>2. GoodBatch(save[n]) /\ save \in [Batches -> Batch] BY <1>1 DEF BatchesTyped
  <2>3. /\ b.ops = save[n].ops /\ settled \subseteq settled'
        /\ b.phase \in {"ok", "conflict"}
        /\ b.phase = "ok" => \A p \in Pos : save[n].ops[p] # NoOp => save[n].ops[p].id \in settled'
    BY <1>1, <2>1, <2>2, ServeBatchTyped
  <2>4. \A m \in Batches : save'[m] = IF m = n THEN b ELSE save[m] BY <2>1, <2>2
  <2>5. SettledBatch(save[n])' BY <2>3, <2>4 DEF SettledBatch
  <2>6. form' = form BY <1>4 DEF ServeSave
  <2>7. \A m \in Batches : SettledBatch(save[m])'
    <3> TAKE m \in Batches
    <3>1. CASE m = n BY <3>1, <2>5
    <3>2. CASE m # n
      <4>1. SettledBatch(save[m]) /\ save'[m] = save[m] BY <1>1, <2>4, <3>2 DEF SavedSettled
      <4> QED BY <4>1, <2>3 DEF SettledBatch
    <3> QED BY <3>1, <3>2
  <2>8. SavedSettled' BY <1>1, <2>3, <2>6, <2>7, StillSettled DEF SavedSettled, SettledBatch
  <2>9. NoEditVanishes' BY <1>1, <1>2, <2>3, <2>6, StillKnown
  <2> QED BY <2>8, <2>9
<1> QED BY <1>3, <1>4

LEMMA FlushSettled ==
  ASSUME SettledInv, FlushPendingOps
  PROVE  SavedSettled' /\ NoEditVanishes'
<1>1. TypeInv /\ SavedSettled /\ NoEditVanishes /\ TypeOK BY DEF SettledInv, TypeInv
<1>2. UNCHANGED <<queue, edits, swallowed, settled, form>> BY DEF FlushPendingOps
<1>3. \A n \in Batches : save'[n] = save[n] \/ save'[n].phase = "sent"
  <2>1. CASE UNCHANGED save BY <2>1
  <2>2. CASE \E n \in Batches :
               save' = [save EXCEPT ![n] = [NoBatch EXCEPT !.phase = "sent", !.ops = queue, !.base = store]]
    <3> DEFINE b == [NoBatch EXCEPT !.phase = "sent", !.ops = queue, !.base = store]
    <3>1. b.phase = "sent" BY ConstantTypes DEF Batch
    <3> HIDE DEF b
    <3>2. PICK n \in Batches : save' = [save EXCEPT ![n] = b] BY <2>2 DEF b
    <3> QED BY <1>1, <3>1, <3>2 DEF TypeOK
  <2> QED BY <2>1, <2>2 DEF FlushPendingOps
<1>4. SavedSettled' BY <1>1, <1>2, <1>3, StillSettled
<1> QED BY <1>1, <1>2, <1>4, StillKnown

\* What leaves the queue with the answer to a batch was in the batch, and the
\* server has it.
LEMMA SaveAnsweredSettled ==
  ASSUME SettledInv, NEW n \in Batches, SaveAnswered(n)
  PROVE  SavedSettled' /\ NoEditVanishes'
<1>1. TypeInv /\ SavedSettled /\ NoEditVanishes /\ TypeOK BY DEF SettledInv, TypeInv
<1>2. UNCHANGED <<edits, swallowed, settled, form>> /\ save[n].phase = "ok" BY DEF SaveAnswered
<1>3. save[n] \in Batch /\ save[n].rev \in Rev /\ save \in [Batches -> Batch]
  BY <1>1 DEF TypeOK, Batch
<1> DEFINE left == Unsaved(save[n], queue)
<1>4. FromQueue(left) BY <1>1, <1>3, UnsavedFacts
<1>5. Captured(save[n].rev, left, TRUE) BY <1>1, <1>3, <1>4, CaptureTyped DEF SaveAnswered, FromQueue
<1>6. \A p \in Pos : queue[p] # NoOp => \/ queue[p].id \in settled
                                        \/ queue'[p].id = queue[p].id
  <2> SUFFICES ASSUME NEW p \in Pos, queue[p] # NoOp
               PROVE  queue[p].id \in settled \/ queue'[p].id = queue[p].id
    OBVIOUS
  <2>1. queue'[p].id = left[p].id BY <1>5 DEF Captured
  <2>2. CASE queue[p].id = save[n].ops[p].id
    <3>1. queue[p].id \in 1 .. edits BY <1>1 DEF TypeInv, AllNumbered, Numbered
    <3>2. save[n].ops[p] # NoOp BY <2>2, <3>1, ConstantTypes
    <3>3. SettledBatch(save[n]) BY <1>1 DEF SavedSettled
    <3> QED BY <1>2, <2>2, <3>2, <3>3 DEF SettledBatch
  <2>3. CASE queue[p].id # save[n].ops[p].id
    <3>1. left[p] = queue[p] BY <2>3 DEF Unsaved
    <3> QED BY <2>1, <3>1
  <2> QED BY <2>2, <2>3
<1>7. \A m \in Batches : save'[m].ops = save[m].ops /\ (save'[m] = save[m] \/ m = n)
  <2>1. save' = [save EXCEPT ![n] = [save[n] EXCEPT !.phase = "reload"]] BY DEF SaveAnswered
  <2>2. [save[n] EXCEPT !.phase = "reload"].ops = save[n].ops BY <1>3 DEF Batch
  <2> QED BY <1>3, <2>1, <2>2
<1>8. SavedSettled' BY <1>1, <1>2, <1>7, StillSettled
<1>9. NoEditVanishes' BY <1>1, <1>2, <1>6, StillKnown
<1> QED BY <1>8, <1>9

\* A refresh throws the queue away, and the user is told.
LEMMA RefreshSettled ==
  ASSUME SettledInv,
         \/ StructureRefused \/ Rejoin \/ BarRefused \/ BarFails \/ BarReloaded
         \/ \E m \in inbox : NewStructure(m)
         \/ \E n \in Batches : SaveRefused(n) \/ SaveFails(n) \/ SaveReloaded(n)
  PROVE  SavedSettled' /\ NoEditVanishes'
<1>1. TypeInv /\ SavedSettled /\ NoEditVanishes /\ TypeOK BY DEF SettledInv, TypeInv
<1>2. edits' = edits /\ swallowed' = swallowed /\ settled \subseteq settled'
  BY DEF StructureRefused, Rejoin, BarRefused, BarFails, BarReloaded, NewStructure,
         SaveRefused, SaveFails, SaveReloaded
<1>3. QueuedIds \subseteq settled' \/ queue' = queue
  BY DEF StructureRefused, Rejoin, BarRefused, BarFails, BarReloaded, NewStructure,
         SaveRefused, SaveFails, SaveReloaded, StopSaving
<1>4. \A p \in Pos : queue[p] # NoOp => queue[p].id \in settled' \/ queue'[p].id = queue[p].id
  BY <1>3 DEF QueuedIds
<1>5. \A n \in Batches : save'[n] = save[n] \/ save'[n].phase = "idle"
  <2>1. save' = save \/ \E n \in Batches : save' = [save EXCEPT ![n] = NoBatch]
    BY DEF StructureRefused, Rejoin, BarRefused, BarFails, BarReloaded, NewStructure,
           SaveRefused, SaveFails, SaveReloaded
  <2> QED BY <1>1, <2>1, ConstantTypes DEF TypeOK
<1>6. form' = form \/ (form' = NoBatch /\ form.phase # "idle" /\ form.ops[BarPos].id \in settled')
  <2>1. form.phase = "reload" => form.ops[BarPos].id \in settled
    BY <1>1, BarPosFacts DEF SavedSettled, SettledBatch
  <2> QED BY <1>2, <2>1 DEF StructureRefused, Rejoin, BarRefused, BarFails, BarReloaded, NewStructure,
         SaveRefused, SaveFails, SaveReloaded
<1>7. SavedSettled' BY <1>1, <1>2, <1>5, <1>6, ConstantTypes, StillSettled
<1>8. form.phase # "idle" =>
        \/ form'.phase # "idle" /\ form'.ops = form.ops
        \/ \A p \in Pos : form.ops[p] # NoOp => form.ops[p].id \in settled'
  BY <1>1, <1>6, BarPosFacts
<1>9. NoEditVanishes' BY <1>1, <1>2, <1>4, <1>8, StillKnown
<1> QED BY <1>7, <1>9

LEMMA EditSettled ==
  ASSUME SettledInv, CommitEdit \/ (\E p \in Pos : Paste(p)) \/ Undo
  PROVE  SavedSettled' /\ NoEditVanishes'
<1>1. TypeInv /\ SavedSettled /\ NoEditVanishes /\ TypeOK BY DEF SettledInv, TypeInv
<1>2. UNCHANGED <<swallowed, save, form>> BY DEF CommitEdit, Paste, Undo
<1>3. \E p \in Pos : \E aim, why : SetCellValue(p, aim, why)
  <2>1. CASE CommitEdit
    <3>1. editor.pos \in Pos BY <1>1, <2>1 DEF TypeInv, AllPlaced, CommitEdit
    <3> QED BY <2>1, <3>1 DEF CommitEdit
  <2>2. CASE \E p \in Pos : Paste(p) BY <2>2 DEF Paste
  <2>3. CASE Undo
    <3>1. undo.pos \in Pos BY <1>1, <2>3 DEF TypeInv, AllPlaced, Undo
    <3> QED BY <2>3, <3>1 DEF Undo
  <2> QED BY <2>1, <2>2, <2>3
<1>4. PICK p \in Pos : \E aim, why : SetCellValue(p, aim, why) BY <1>3
<1>5. PICK aim, why : SetCellValue(p, aim, why) BY <1>4
<1>6. /\ edits' = edits + 1 /\ edits \in Nat
      /\ settled' = IF queue[p] = NoOp THEN settled ELSE settled \cup {queue[p].id}
  BY <1>1, <1>5, SheetAssumption DEF SetCellValue, TypeOK
<1>13. PICK clear \in BOOLEAN :
         queue' = [queue EXCEPT ![p] = [id |-> edits + 1, aim |-> aim, why |-> why, clear |-> clear]]
  BY <1>5 DEF SetCellValue
<1> DEFINE op == [id |-> edits + 1, aim |-> aim, why |-> why, clear |-> clear]
<1>7. op.id = edits + 1 OBVIOUS
<1>8. queue' = [queue EXCEPT ![p] = op] BY <1>13
<1> HIDE DEF op
<1>9. \A q \in Pos : queue'[q] = IF q = p THEN op ELSE queue[q] BY <1>1, <1>8 DEF TypeOK
<1>10. op # NoOp BY <1>6, <1>7, ConstantTypes
<1>11. SavedSettled' BY <1>1, <1>2, <1>6 DEF SavedSettled, SettledBatch
<1>12. NoEditVanishes'
  <2> SUFFICES ASSUME NEW i \in 1 .. edits'
               PROVE  \/ i \in QueuedIds' \cup settled' \cup swallowed'
                      \/ form'.phase # "idle" /\ \E q \in Pos : form'.ops[q].id = i
    BY DEF NoEditVanishes
  <2>1. CASE i = edits + 1
    <3>1. queue'[p] = op BY <1>9
    <3>2. i \in QueuedIds' BY <2>1, <1>7, <1>10, <3>1 DEF QueuedIds
    <3> QED BY <3>2
  <2>2. CASE i # edits + 1
    <3>1. i \in 1 .. edits BY <2>2, <1>6
    <3>2. CASE i \in QueuedIds
      <4>1. PICK q \in Pos : queue[q] # NoOp /\ queue[q].id = i BY <3>2 DEF QueuedIds
      <4>2. CASE q = p BY <4>1, <4>2, <1>6
      <4>3. CASE q # p
        <5>1. queue'[q] = queue[q] BY <4>3, <1>9
        <5>2. i \in QueuedIds' BY <4>1, <5>1 DEF QueuedIds
        <5> QED BY <5>2
      <4> QED BY <4>2, <4>3
    <3>3. CASE i \notin QueuedIds BY <1>1, <1>2, <1>6, <3>1, <3>3 DEF NoEditVanishes
    <3> QED BY <3>2, <3>3
  <2> QED BY <2>1, <2>2
<1> QED BY <1>11, <1>12

LEMMA SubmitBarSettled ==
  ASSUME SettledInv, SubmitBar
  PROVE  SavedSettled' /\ NoEditVanishes'
<1>1. TypeInv /\ SavedSettled /\ NoEditVanishes /\ TypeOK BY DEF SettledInv, TypeInv
<1>2. UNCHANGED <<queue, swallowed, settled, save>> /\ form.phase = "idle" /\ edits' = edits + 1
  BY DEF SubmitBar
<1>3. edits \in Nat BY <1>1, SheetAssumption DEF TypeOK
<1>4. form'.phase = "sent" /\ \E q \in Pos : form'.ops[q].id = edits + 1
  <2>1. PICK why \in SUBSET Ways, op \in Op :
              /\ op.id = edits + 1 /\ bar.pos \in Pos /\ form'.phase = "sent"
              /\ \A q \in Pos : form'.ops[q] = IF q = bar.pos THEN op ELSE NoOp
    BY <1>1, SubmitBarTyped
  <2> QED BY <2>1
<1>5. SavedSettled' BY <1>1, <1>2, <1>4, StillSettled
<1>6. NoEditVanishes'
  <2> SUFFICES ASSUME NEW i \in 1 .. edits'
               PROVE  \/ i \in QueuedIds' \cup settled' \cup swallowed'
                      \/ form'.phase # "idle" /\ \E q \in Pos : form'.ops[q].id = i
    BY DEF NoEditVanishes
  <2>1. CASE i = edits + 1 BY <2>1, <1>4
  <2>2. CASE i # edits + 1
    <3>1. i \in 1 .. edits BY <2>2, <1>2, <1>3
    <3>2. i \in QueuedIds \cup settled \cup swallowed BY <1>1, <1>2, <3>1 DEF NoEditVanishes
    <3> QED BY <3>2, <1>2 DEF QueuedIds
  <2> QED BY <2>1, <2>2
<1> QED BY <1>5, <1>6

\* What the answer of the formula bar takes from the queue is accounted for.
LEMMA BarAnsweredSettled ==
  ASSUME SettledInv, BarAnswered \/ BarWithout
  PROVE  SavedSettled' /\ NoEditVanishes'
<1>1. TypeInv /\ SavedSettled /\ NoEditVanishes /\ TypeOK BY DEF SettledInv, TypeInv
<1> DEFINE p == BarPos
           left == [queue EXCEPT ![p] = NoOp]
           newer == queue[p].id > form.ops[p].id
<1>2. /\ p \in Pos /\ form.phase = "ok" /\ form.rev \in Rev /\ form \in Batch
      /\ \A q \in Pos : form.ops[q] # NoOp => q = p
  BY <1>1, BarPosFacts DEF BarAnswered, BarWithout, TypeOK, Batch
<1>3. PICK all \in BOOLEAN : Unqueue(p, all) /\ (all \/ BarShows(p))
  <2>1. due \in BOOLEAN BY <1>1 DEF TypeOK
  <2>2. CASE BarAnswered BY <2>1, <2>2 DEF BarAnswered
  <2>3. CASE BarWithout BY <2>3 DEF BarWithout
  <2> QED BY <2>2, <2>3
<1>4. /\ swallowed' = IF newer THEN swallowed \cup {queue[p].id} ELSE swallowed
      /\ settled' = settled \cup {queue[q].id : q \in {r \in Pos : /\ queue[r] # NoOp
                                                                  /\ (all \/ r = p)
                                                                  /\ ~(newer /\ r = p)}}
  BY <1>3 DEF Unqueue
<1>5. edits' = edits /\ save' = save /\ form' \in {NoBatch, [form EXCEPT !.phase = "reload"]}
  BY DEF BarAnswered, BarWithout
<1>6. \A q \in Pos : queue[q] # NoOp => \/ queue[q].id \in settled' \cup swallowed'
                                        \/ queue'[q].id = queue[q].id
  <2> SUFFICES ASSUME NEW q \in Pos, queue[q] # NoOp
               PROVE  queue[q].id \in settled' \cup swallowed' \/ queue'[q].id = queue[q].id
    OBVIOUS
  <2>1. CASE all \/ q = p
    <3>1. CASE newer /\ q = p BY <1>4, <3>1
    <3>2. CASE ~(newer /\ q = p)
      <4>1. q \in {r \in Pos : queue[r] # NoOp /\ (all \/ r = p) /\ ~(newer /\ r = p)}
        BY <2>1, <3>2
      <4> QED BY <4>1, <1>4
    <3> QED BY <3>1, <3>2
  <2>2. CASE ~all /\ q # p
    <3>1. left \in [Pos -> Op] /\ left[q] = queue[q]
      BY <1>1, <1>2, <2>2, ConstantTypes DEF TypeOK
    <3>2. Capture(form.rev, left, TRUE) BY <1>3, <2>2 DEF BarShows
    <3> HIDE DEF left
    <3>3. Captured(form.rev, left, TRUE) BY <1>1, <1>2, <3>1, <3>2, CaptureTyped
    <3> QED BY <3>1, <3>3 DEF Captured
  <2> QED BY <2>1, <2>2
<1>7. \A q \in Pos : form.ops[q] # NoOp => form.ops[q].id \in settled
  BY <1>1, <1>2 DEF SavedSettled, SettledBatch
<1>8. settled \subseteq settled' /\ swallowed \subseteq swallowed' BY <1>4
<1>9. form' = NoBatch \/ (form'.phase = "reload" /\ form'.ops = form.ops)
  BY <1>2, <1>5 DEF Batch
<1>10. SavedSettled'
  <2>1. form'.phase \notin {"ok", "reload"} \/ (form'.ops = form.ops /\ form.phase \in {"ok", "reload"})
    BY <1>2, <1>9, ConstantTypes
  <2> QED BY <1>1, <1>5, <1>8, <2>1, StillSettled DEF SavedSettled, SettledBatch
<1>11. NoEditVanishes'
  <2>1. \/ form'.phase # "idle" /\ form'.ops = form.ops
        \/ \A q \in Pos : form.ops[q] # NoOp => form.ops[q].id \in settled'
    BY <1>7, <1>8
  <2> QED BY <1>1, <1>5, <1>6, <1>8, <2>1, StillKnown
<1> QED BY <1>10, <1>11

LEMMA SettledStep == SettledInv /\ [Next]_vars => SettledInv'
<1> SUFFICES ASSUME SettledInv, [Next]_vars PROVE SavedSettled' /\ NoEditVanishes'
  BY TypeStep DEF SettledInv
<1>1. CASE Peers
  <2>1. Aside BY <1>1 DEF Peers, PeerRestructures, PeerWrites, Aside
  <2> QED BY <2>1, AsideSettled
<1>2. CASE Server
  <2>1. CASE ServeStructure \/ \E x \in reads : ReadSheet(x) \/ ServeRead(x)
    <3>1. Aside BY <2>1 DEF ServeStructure, ReadSheet, ServeRead, Aside
    <3> QED BY <3>1, AsideSettled
  <2> QED BY <1>2, <2>1, ServeSettled DEF Server
<1>3. CASE User
  <2>1. CASE CommitEdit \/ Undo \/ \E p \in Pos : Paste(p) BY <2>1, EditSettled
  <2>2. CASE SubmitBar BY <2>2, SubmitBarSettled
  <2>3. CASE \/ DropEdit \/ \E p \in Pos : Scroll(p) \/ OpenEditor(p) \/ FocusBar(p)
             \/ \E k \in session.kinds, p \in Pos : StartStructure(k, p)
    <3>1. Aside BY <2>3 DEF DropEdit, Scroll, OpenEditor, FocusBar, StartStructure, Aside
    <3> QED BY <3>1, AsideSettled
  <2> QED BY <1>3, <2>1, <2>2, <2>3 DEF User
<1>4. CASE FlushPendingOps BY <1>4, FlushSettled
<1>5. CASE Answers
  BY <1>5, SaveAnsweredSettled, RefreshSettled, BarAnsweredSettled, AsideSettled DEF Answers
<1>6. CASE Faults
  <2>1. CASE StructureFails \/ Disconnect \/ \E x \in reads : ReadFails(x)
    <3>1. Aside BY <2>1 DEF StructureFails, Disconnect, ReadFails, Aside
    <3> QED BY <3>1, AsideSettled
  <2> QED BY <1>6, <2>1, RefreshSettled DEF Faults
<1>7. CASE Socket
  <2>1. CASE Join \/ \E m \in inbox : OldNews(m) \/ PeerCells(m)
    <3>1. Aside BY <2>1 DEF Join, OldNews, PeerCells, Aside
    <3> QED BY <3>1, AsideSettled
  <2> QED BY <1>7, <2>1, RefreshSettled DEF Socket
<1>8. CASE UNCHANGED vars
  <2>1. Aside BY <1>8 DEF vars, Aside
  <2> QED BY <2>1, AsideSettled
<1> QED BY <1>1, <1>2, <1>3, <1>4, <1>5, <1>6, <1>7, <1>8 DEF Next

LEMMA InitSettled == Init => SettledInv
<1> SUFFICES ASSUME Init PROVE SavedSettled /\ NoEditVanishes
  BY InitTyped DEF SettledInv
<1>1. SavedSettled BY ConstantTypes DEF Init, SavedSettled, SettledBatch
<1>2. NoEditVanishes BY DEF Init, NoEditVanishes
<1> QED BY <1>1, <1>2

\* Whatever batches, refreshes, conflicts and failures meet, an edit of this tab
\* is queued, or on its way, or made by the server, or replaced by a later one,
\* or given up with a message; but for what the answer of the formula bar takes.
THEOREM NoEditVanishesHolds == Spec => []NoEditVanishes
<1>1. SettledInv => NoEditVanishes BY DEF SettledInv
<1> QED BY <1>1, InitSettled, SettledStep, PTL DEF Spec

-------------------------------------------------------------------------------
(* An edit lands where it was typed.                                        *)

LandAll == TypeInv /\ LandInv

LEMMA Revisions ==
  ASSUME TypeOK
  PROVE  rev \in Nat /\ store \in Int /\ NoRev \in Int /\ NoRev < 0
BY SheetAssumption DEF TypeOK, Rev, NoRev

\* Nothing is said of the new structure when a change is made.
LEMMA SoundMoves ==
  ASSUME TypeOK, rev' = rev + 1, NEW r \in Int, NEW aim, NEW p, Sound(r, aim, p)
  PROVE  r <= rev' /\ r # rev' /\ (r = NoRev => aim = NoRow)
BY Revisions DEF Sound

LEMMA MovedLands ==
  ASSUME LandAll, rev' = rev + 1,
         UNCHANGED <<store, grid, reads, queue, due, hands, save, form, misplaced, stale>>,
         inbox' \subseteq inbox \cup {[kind |-> "refresh", rev |-> rev + 1]},
         own' = own \/ own'.rev = rev + 1
  PROVE  LandInv'
<1>1. /\ TypeInv /\ TypeOK /\ NewsSound /\ ScreenSound /\ HandsSound /\ SentSound
      /\ EditLandsWhereTyped
  BY DEF LandAll, LandInv, TypeInv
<1>2. rev \in Nat /\ rev' \in Nat /\ store \in Int /\ NoRev \in Int /\ NoRev < 0 BY <1>1, Revisions
<1>3. \A r \in Int : \A aim, p : Sound(r, aim, p) =>
        r <= rev' /\ r # rev' /\ (r = NoRev => aim = NoRow)
  BY <1>1, SoundMoves
<1>4. NewsSound'
  <2>1. \A x \in reads : x.rev # NoRev => x.rev \in 0 .. rev' /\ x.rev # rev'
    <3> SUFFICES ASSUME NEW x \in reads, x.rev # NoRev
                 PROVE  x.rev \in 0 .. rev' /\ x.rev # rev'
      OBVIOUS
    <3>1. x.rev \in 0 .. rev BY <1>1 DEF NewsSound
    <3> QED BY <3>1, <1>2
  <2>2. \A m \in inbox' : m.rev \in 0 .. rev' /\ m.rev # NoRev /\ (m.kind = "cells" => m.rev # rev')
    <3> SUFFICES ASSUME NEW m \in inbox'
                 PROVE  m.rev \in 0 .. rev' /\ m.rev # NoRev /\ (m.kind = "cells" => m.rev # rev')
      OBVIOUS
    <3>1. CASE m \in inbox
      <4>1. m.rev \in 0 .. rev BY <1>1, <3>1 DEF NewsSound
      <4> QED BY <4>1, <1>2
    <3>2. CASE m = [kind |-> "refresh", rev |-> rev + 1] BY <3>2, <1>2
    <3> QED BY <3>1, <3>2
  <2>3. ASSUME NEW b, Told(b)
        PROVE  /\ b.phase \in {"ok", "conflict"} => b.rev \in 0 .. rev'
               /\ b.phase = "ok" => b.rev # rev' /\ b.rev # NoRev /\ b.rev <= rev'
    <3> SUFFICES ASSUME b.phase \in {"ok", "conflict"}
                 PROVE  b.rev \in 0 .. rev' /\ b.rev # rev' /\ b.rev # NoRev /\ b.rev <= rev'
      OBVIOUS
    <3>1. b.rev \in 0 .. rev BY <2>3 DEF Told
    <3> QED BY <3>1, <1>2
  <2>4. (\A n \in Batches : Told(save[n])) /\ Told(form) BY <1>1 DEF NewsSound
  <2>5. \A n \in Batches : Told(save[n])' BY <2>3, <2>4 DEF Told, Sound
  <2>6. Told(form)' BY <2>3, <2>4 DEF Told, Sound
  <2>7. own'.phase \in {"ok", "conflict"} => own'.rev \in 0 .. rev'
    <3>1. CASE own' = own
      <4>1. own.phase \in {"ok", "conflict"} => own.rev \in 0 .. rev BY <1>1 DEF NewsSound
      <4> QED BY <3>1, <4>1, <1>2
    <3>2. CASE own'.rev = rev + 1 BY <3>2, <1>2
    <3> QED BY <3>1, <3>2
  <2>8. \A x \in reads' : /\ x.rev # NoRev => x.rev \in 0 .. rev'
                          /\ x.done => x.rev # NoRev /\ Sound(x.rev, x.cell.row, x.tile)'
    <3> SUFFICES ASSUME NEW x \in reads
                 PROVE  /\ x.rev # NoRev => x.rev \in 0 .. rev'
                        /\ x.done => x.rev # NoRev /\ Sound(x.rev, x.cell.row, x.tile)'
      OBVIOUS
    <3>1. x.done => x.rev # NoRev BY <1>1 DEF NewsSound
    <3>2. x.rev # NoRev => x.rev \in 0 .. rev' /\ x.rev # rev' BY <2>1
    <3> QED BY <3>1, <3>2, <1>2 DEF Sound
  <2>9. \A m \in inbox' : m.rev \in 0 .. rev' /\ (m.kind = "cells" => Sound(m.rev, m.cell.row, m.pos)')
    BY <2>2, <1>2 DEF Sound
  <2> QED BY <2>5, <2>6, <2>7, <2>8, <2>9 DEF NewsSound
<1>5. ScreenSound'
  <2>1. store <= rev' /\ store # rev' BY <1>1, <1>2 DEF ScreenSound
  <2>2. ~due /\ editor # NoTarget /\ editor.why = {} =>
          /\ Sound(store, editor.aim, editor.pos)'
          /\ Sound(editor.seen, editor.aim, editor.pos)'
    <3> SUFFICES ASSUME ~due, editor # NoTarget, editor.why = {}
                 PROVE  /\ Sound(store, editor.aim, editor.pos)'
                        /\ Sound(editor.seen, editor.aim, editor.pos)'
      OBVIOUS
    <3>1. editor.seen \in Int BY <1>1 DEF TypeOK, Target, NoRev
    <3>2. Sound(store, editor.aim, editor.pos) /\ Sound(editor.seen, editor.aim, editor.pos)
      BY <1>1 DEF ScreenSound
    <3>3. /\ editor.seen <= rev' /\ editor.seen # rev'
          /\ editor.seen = NoRev => editor.aim = NoRow
          /\ store = NoRev => editor.aim = NoRow
      BY <1>2, <1>3, <3>1, <3>2
    <3> QED BY <2>1, <3>3 DEF Sound
  <2>3. ~stale /\ ~due => \A p \in Pos : Sound(store, grid[p].row, p)'
    BY <1>1, <2>1 DEF ScreenSound, Sound
  <2>4. ~due => \A p \in Pos : queue[p].why = {} => Sound(store, queue[p].aim, p)'
    BY <1>1, <2>1 DEF ScreenSound, Sound
  <2> QED BY <1>1, <2>1, <2>2, <2>3, <2>4 DEF ScreenSound
<1>6. HandsSound'
  <2>1. \A t \in {bar, undo} : t # NoTarget /\ t.why = {} =>
          t.seen <= store /\ Sound(t.seen, t.aim, t.pos)'
    <3> SUFFICES ASSUME NEW t \in {bar, undo}, t # NoTarget, t.why = {}
                 PROVE  t.seen <= store /\ t.seen <= rev' /\ t.seen # rev'
                        /\ (t.seen = NoRev => t.aim = NoRow)
      BY DEF Sound
    <3>1. t.seen \in Int BY <1>1 DEF TypeOK, Target, NoRev
    <3>2. t.seen <= store /\ Sound(t.seen, t.aim, t.pos) BY <1>1 DEF HandsSound
    <3> QED BY <1>3, <3>1, <3>2
  <2> QED BY <1>1, <2>1 DEF HandsSound
<1>7. SentSound'
  <2>1. ASSUME NEW b \in Batch, Aimed(b)
        PROVE  b.phase = "sent" => \A p \in Pos : b.ops[p].why = {} =>
                 b.base <= rev' /\ b.base # rev' /\ (b.base = NoRev => b.ops[p].aim = NoRow)
    <3>1. b.base \in Int BY DEF Batch, Rev, NoRev
    <3> QED BY <1>3, <2>1, <3>1 DEF Aimed
  <2>2. save \in [Batches -> Batch] /\ form \in Batch BY <1>1 DEF TypeOK
  <2>3. \A n \in Batches : Aimed(save[n])' BY <1>1, <2>1, <2>2 DEF SentSound, Aimed, Sound
  <2>4. Aimed(form)' BY <1>1, <2>1, <2>2 DEF SentSound, Aimed, Sound
  <2> QED BY <2>3, <2>4 DEF SentSound
<1> QED BY <1>1, <1>4, <1>5, <1>6, <1>7 DEF LandInv, EditLandsWhereTyped

LEMMA LandFacts ==
  ASSUME LandAll
  PROVE  /\ TypeInv /\ TypeOK /\ Sized
         /\ NewsSound /\ ScreenSound /\ HandsSound /\ SentSound /\ EditLandsWhereTyped
         /\ rev \in Nat /\ store \in Int /\ store <= rev /\ NoRev = -1 /\ NoRev <= store
         /\ store # NoRev => store \in Nat
<1>1. /\ TypeInv /\ TypeOK /\ Sized
      /\ NewsSound /\ ScreenSound /\ HandsSound /\ SentSound /\ EditLandsWhereTyped
  BY DEF LandAll, LandInv, TypeInv
<1>2. store \in Nat \cup {-1} /\ NoRev = -1 BY <1>1 DEF TypeOK, Rev, NoRev
<1>3. store <= rev BY <1>1 DEF ScreenSound
<1> QED BY <1>1, <1>2, <1>3, Revisions

\* A position that shows nothing shows nothing wrong.
LEMMA SoundNothing ==
  ASSUME NEW r \in Int, r <= rev, NEW p
  PROVE  Sound(r, NoRow, p)
BY DEF Sound, OnRow

LEMMA NewsKept ==
  ASSUME NewsSound, UNCHANGED <<rows, rev>>, Within(reads', reads), inbox' \subseteq inbox,
         \A n \in Batches : save'[n] = save[n] \/ save'[n].phase \notin {"ok", "conflict"},
         form' = form \/ form'.phase \notin {"ok", "conflict"},
         own' = own \/ own'.phase \notin {"ok", "conflict"}
  PROVE  NewsSound'
<1>1. \A x \in reads' : /\ x.rev # NoRev => x.rev \in 0 .. rev
                        /\ x.done => x.rev # NoRev /\ Sound(x.rev, x.cell.row, x.tile)
  <2> SUFFICES ASSUME NEW x \in reads', x.done \/ x.rev # NoRev
               PROVE  /\ x.rev # NoRev => x.rev \in 0 .. rev
                      /\ x.done => x.rev # NoRev /\ Sound(x.rev, x.cell.row, x.tile)
    OBVIOUS
  <2>1. PICK y \in reads : /\ y.done = x.done /\ y.rev = x.rev /\ y.cell = x.cell
                           /\ y.tile = x.tile
    BY DEF Within
  <2>2. /\ y.rev # NoRev => y.rev \in 0 .. rev
        /\ y.done => y.rev # NoRev /\ Sound(y.rev, y.cell.row, y.tile)
    BY DEF NewsSound
  <2> QED BY <2>1, <2>2
<1>2. \A n \in Batches : Told(save[n])'
  <2> TAKE n \in Batches
  <2>1. Told(save[n]) BY DEF NewsSound
  <2> QED BY <2>1 DEF Told, Sound, OnRow
<1>3. Told(form)' BY DEF NewsSound, Told, Sound, OnRow
<1> QED BY <1>1, <1>2, <1>3 DEF NewsSound, Sound, OnRow

LEMMA SentKept ==
  ASSUME SentSound, UNCHANGED <<rows, rev>>,
         \A n \in Batches : save'[n] = save[n] \/ save'[n].phase # "sent",
         form' = form \/ form'.phase # "sent"
  PROVE  SentSound'
<1>1. \A n \in Batches : Aimed(save[n])'
  <2> TAKE n \in Batches
  <2>1. Aimed(save[n]) BY DEF SentSound
  <2> QED BY <2>1 DEF Aimed, Sound, OnRow
<1>2. Aimed(form)' BY DEF SentSound, Aimed, Sound, OnRow
<1> QED BY <1>1, <1>2 DEF SentSound

LEMMA HandsKept ==
  ASSUME LandAll, UNCHANGED <<rows, rev>>, store' \in Int, store <= store',
         editor' \in {editor, NoTarget} \/ editor'.why # {},
         bar' \in {bar, NoTarget}, undo' \in {undo, NoTarget}
  PROVE  HandsSound'
<1>1. HandsSound /\ TypeOK /\ store \in Int BY LandFacts
<1>2. editor.seen \in Int BY <1>1 DEF TypeOK, Target, NoRev
<1>3. editor' # NoTarget /\ editor'.why = {} => editor'.seen <= store'
  BY <1>1, <1>2 DEF HandsSound
<1>4. ASSUME NEW t \in {bar', undo'}, t # NoTarget, t.why = {}
      PROVE  t.seen <= store' /\ Sound(t.seen, t.aim, t.pos)
  <2>1. t \in {bar, undo} BY <1>4
  <2>2. t.seen \in Int BY <1>1, <2>1 DEF TypeOK, Target, NoRev
  <2>3. t.seen <= store /\ Sound(t.seen, t.aim, t.pos) BY <1>1, <1>4, <2>1 DEF HandsSound
  <2> QED BY <1>1, <2>2, <2>3
<1> QED BY <1>3, <1>4 DEF HandsSound, Sound, OnRow

LEMMA ScreenKept ==
  ASSUME ScreenSound, UNCHANGED <<rows, rev, store, grid, queue, due, stale>>,
         editor' \in {editor, NoTarget}
  PROVE  ScreenSound'
BY DEF ScreenSound, Sound, OnRow

LEMMA RefreshLands ==
  ASSUME LandAll, UNCHANGED <<rows, rev, bar, undo>>, Refreshed(TRUE) \/ Refreshed(FALSE),
         store' \in Rev, store <= store', store' <= rev
  PROVE  ScreenSound' /\ HandsSound'
<1>1. ScreenSound /\ rev \in Nat /\ store \in Int /\ NoRev <= store /\ NoRev = -1 BY LandFacts
<1>2. queue' = NoQueue /\ editor' = NoTarget BY DEF Refreshed
<1>3. store' \in Int BY <1>1 DEF Rev, NoRev
<1>4. store' = NoRev => store = NoRev BY <1>1, <1>3
<1>5. \/ due' = TRUE /\ grid' = grid
      \/ grid' = [p \in Pos |-> Blank]
  BY DEF Refreshed
<1>6. \A p \in Pos : queue'[p] = NoOp /\ Sound(store', NoRow, p)
  BY <1>1, <1>2, <1>3, SoundNothing DEF NoQueue
<1>7. store' = NoRev => \A p \in Pos : grid'[p].row = NoRow
  BY <1>1, <1>4, <1>5, ConstantTypes DEF ScreenSound
<1>8. ~due' => \A p \in Pos : grid'[p].row = NoRow BY <1>5, ConstantTypes
<1>9. ScreenSound'
  BY <1>2, <1>6, <1>7, <1>8, ConstantTypes DEF ScreenSound, Sound, OnRow
<1>10. HandsSound' BY <1>2, <1>3, HandsKept
<1> QED BY <1>9, <1>10

\* An answer of revision r either is of the grid's structure, or marks what is
\* queued and the screen.
LEMMA CaptureLands ==
  ASSUME LandAll, UNCHANGED <<rows, rev, due, bar, undo>>,
         NEW r \in 0 .. rev, NEW q, FromQueue(q), NEW taken \in BOOLEAN, Captured(r, q, taken),
         \A p \in Pos : \/ grid'[p] = grid[p]
                        \/ taken /\ Sound(r, grid'[p].row, p)
  PROVE  ScreenSound' /\ HandsSound'
<1>1. /\ TypeOK /\ ScreenSound /\ rev \in Nat /\ store \in Int /\ store <= rev
      /\ NoRev = -1 /\ NoRev <= store
  BY LandFacts
<1>2. r \in Nat /\ r <= rev BY <1>1
<1>3. CASE r > store
  <2>1. /\ store' = r /\ ~(r <= store)
        /\ editor' = NoTarget \/ editor'.why # {}
        /\ stale' = (stale \/ loaded # {} \/ \E p \in Pos : grid[p] # Blank)
        /\ \A p \in Pos : queue'[p] = NoOp \/ queue'[p].why # {}
    BY <1>1, <1>2, <1>3 DEF Captured, Newest
  <2>2. \A p \in Pos : Sound(r, NoRow, p) BY <1>2, SoundNothing
  <2>3. ~stale' => \A p \in Pos : Sound(r, grid'[p].row, p)
    <3> SUFFICES ASSUME ~stale', NEW p \in Pos PROVE Sound(r, grid'[p].row, p)
      OBVIOUS
    <3>1. grid[p] = Blank BY <2>1
    <3>2. CASE grid'[p] = grid[p] BY <2>2, <3>1, <3>2, ConstantTypes
    <3> QED BY <3>2
  <2>4. \A p \in Pos : queue'[p].why = {} => Sound(r, queue'[p].aim, p)
    BY <2>1, <2>2, ConstantTypes
  <2>5. r # NoRev BY <1>1, <1>2
  <2>6. ScreenSound' BY <1>2, <2>1, <2>3, <2>4, <2>5 DEF ScreenSound, Sound, OnRow
  <2>7. store' \in Int /\ store <= store' BY <1>1, <1>2, <1>3, <2>1
  <2>8. HandsSound' BY <2>1, <2>7, HandsKept
  <2> QED BY <2>6, <2>8
<1>4. CASE ~(r > store)
  <2>1. r <= store BY <1>1, <1>2, <1>4
  <2>2. /\ store' = store /\ editor' = editor /\ stale' = (stale \/ (taken /\ r < store))
        /\ \A p \in Pos : queue'[p] = q[p]
    <3>1. store' = Newest(store, r) BY DEF Captured
    <3>2. store' = store BY <1>1, <1>2, <2>1, <3>1 DEF Newest
    <3> QED BY <2>1, <3>2 DEF Captured
  <2>3. store # NoRev BY <1>1, <1>2, <2>1
  <2>4. \A p \in Pos : Sound(store, NoRow, p) BY <1>1, SoundNothing
  <2>5. ~stale' /\ ~due => \A p \in Pos : Sound(store, grid'[p].row, p)
    <3> SUFFICES ASSUME ~stale', ~due, NEW p \in Pos PROVE Sound(store, grid'[p].row, p)
      OBVIOUS
    <3>1. CASE grid'[p] = grid[p] BY <1>1, <2>2, <3>1 DEF ScreenSound
    <3>2. CASE taken /\ Sound(r, grid'[p].row, p)
      <4>1. ~(r < store) BY <2>2, <3>2
      <4>2. r = store BY <1>1, <1>2, <2>1, <4>1
      <4> QED BY <3>2, <4>2
    <3> QED BY <3>1, <3>2
  <2>6. ~due => \A p \in Pos : queue'[p].why = {} => Sound(store, queue'[p].aim, p)
    <3> SUFFICES ASSUME ~due, NEW p \in Pos, queue'[p].why = {}
                 PROVE  Sound(store, queue'[p].aim, p)
      OBVIOUS
    <3>1. queue'[p] \in {NoOp, queue[p]} BY <2>2 DEF FromQueue
    <3> QED BY <1>1, <2>4, <3>1, ConstantTypes DEF ScreenSound
  <2>7. ScreenSound' BY <1>1, <2>2, <2>3, <2>5, <2>6 DEF ScreenSound, Sound, OnRow
  <2>8. HandsSound' BY <1>1, <2>2, HandsKept
  <2> QED BY <2>7, <2>8
<1> QED BY <1>3, <1>4

\* The server refuses a batch of an old revision, and one of the newest has the
\* rows it was made for.
LEMMA ServeLands ==
  ASSUME LandAll, NEW b, GoodBatch(b), Aimed(b), b.phase = "sent",
         NEW answer, ServeBatch(b, answer)
  PROVE  /\ answer.phase # "sent" /\ Told(answer)
         /\ {} \notin misplaced'
<1>1. TypeOK /\ Sized /\ EditLandsWhereTyped /\ rev \in Nat BY LandFacts
<1>2. b \in Batch BY DEF GoodBatch
<1>3. CASE Current(b.base) /\ answer = Done(b) /\ misplaced' = misplaced \cup Misses(b)
  <2>1. /\ answer.phase = "ok" /\ answer.rev = rev
        /\ \A p \in Pos : answer.cells[p].row \in {NoRow, rows[p]}
    BY <1>1, <1>2, <1>3, DoneType
  <2>2. Told(answer)
    <3>1. rev \in 0 .. rev /\ rev <= rev /\ rev # NoRev BY <1>1 DEF NoRev
    <3> QED BY <2>1, <3>1 DEF Told, Sound, OnRow
  <2>3. {} \notin Misses(b)
    <3> SUFFICES ASSUME NEW p \in Submitted(b), b.ops[p].aim \notin {NoRow, rows[p]},
                        b.ops[p].why = {}
                 PROVE  FALSE
      BY DEF Misses
    <3>1. p \in Pos BY DEF Submitted
    <3>2. Sound(b.base, b.ops[p].aim, p) BY <3>1 DEF Aimed
    <3>3. b.base = NoRev \/ b.base = rev BY <1>3 DEF Current
    <3> QED BY <3>2, <3>3 DEF Sound, OnRow
  <2> QED BY <1>1, <1>3, <2>1, <2>2, <2>3 DEF EditLandsWhereTyped
<1>4. CASE answer = Refused(b) /\ misplaced' = misplaced
  <2>1. answer.phase = "conflict" /\ answer.rev = rev BY <1>1, <1>2, <1>4, DoneType
  <2>2. Told(answer) BY <1>1, <2>1 DEF Told
  <2> QED BY <1>1, <1>4, <2>1, <2>2 DEF EditLandsWhereTyped
<1> QED BY <1>3, <1>4 DEF ServeBatch

LEMMA PeersLand ==
  ASSUME LandAll, Peers
  PROVE  LandInv'
<1>1. /\ TypeInv /\ TypeOK /\ NewsSound /\ ScreenSound /\ HandsSound /\ SentSound
      /\ EditLandsWhereTyped /\ rev \in Nat /\ NoRev = -1
  BY LandFacts
<1>2. ASSUME NEW k \in session.kinds, NEW p \in Pos, PeerRestructures(k, p)
      PROVE  LandInv'
  <2>1. inbox' \subseteq inbox \cup {[kind |-> "refresh", rev |-> rev + 1]}
    BY <1>2 DEF PeerRestructures, Broadcast
  <2> QED BY <1>2, <2>1, MovedLands DEF PeerRestructures
<1>3. ASSUME NEW p \in Pos, PeerWrites(p)
      PROVE  LandInv'
  <2>9. PICK value \in BOOLEAN :
          Broadcast([kind |-> "cells", pos |-> p, rev |-> rev,
                     cell |-> [row |-> rows[p], ver |-> clock + 1, full |-> value]])
    BY <1>3 DEF PeerWrites
  <2> DEFINE m == [kind |-> "cells", pos |-> p, rev |-> rev,
                   cell |-> [row |-> rows[p], ver |-> clock + 1, full |-> value]]
  <2>1. UNCHANGED <<rows, rev, conn, store, screen, pending, hands, calls, ledger, stale>>
    BY <1>3 DEF PeerWrites
  <2>2. inbox' \subseteq inbox \cup {m} BY <2>9 DEF Broadcast
  <2>3. /\ m.rev = rev /\ m.rev \in 0 .. rev /\ m.cell.row = rows[m.pos]
        /\ Sound(m.rev, m.cell.row, m.pos)
    BY <1>1 DEF Sound, OnRow
  <2> HIDE DEF m
  <2>4. \A n \in inbox' : n.rev \in 0 .. rev /\ (n.kind = "cells" => Sound(n.rev, n.cell.row, n.pos))
    BY <1>1, <2>2, <2>3 DEF NewsSound
  <2>5. NewsSound' BY <1>1, <2>1, <2>4 DEF NewsSound, Told, Sound, OnRow
  <2>6. ScreenSound' BY <1>1, <2>1, ScreenKept
  <2>7. HandsSound' BY <1>1, <2>1 DEF HandsSound, Sound, OnRow
  <2>8. SentSound' BY <1>1, <2>1, SentKept
  <2> QED BY <1>1, <2>1, <2>5, <2>6, <2>7, <2>8 DEF LandInv, EditLandsWhereTyped
<1> QED BY <1>2, <1>3 DEF Peers

LEMMA ServerLands ==
  ASSUME LandAll, Server
  PROVE  LandInv'
<1>1. /\ TypeInv /\ TypeOK /\ Sized /\ NewsSound /\ ScreenSound /\ HandsSound /\ SentSound
      /\ EditLandsWhereTyped /\ rev \in Nat /\ NoRev = -1 /\ BatchesTyped
  BY LandFacts, Parts
<1>2. CASE ServeFormula
  <2>1. PICK b \in {Done(form), Refused(form)} : ServeBatch(form, b) /\ form' = b
    BY <1>2 DEF ServeFormula
  <2>2. UNCHANGED <<rows, rev, socket, store, screen, pending, hands, save, own, stale, blind>>
        /\ form.phase = "sent"
    BY <1>2 DEF ServeFormula
  <2>3. b.phase # "sent" /\ Told(b) /\ {} \notin misplaced'
    BY <1>1, <2>1, <2>2, ServeLands DEF BatchesTyped, SentSound
  <2>4. Told(form)' BY <2>1, <2>2, <2>3 DEF Told, Sound, OnRow
  <2>5. NewsSound' BY <1>1, <2>2, <2>4 DEF NewsSound, Told, Sound, OnRow
  <2>6. ScreenSound' BY <1>1, <2>2, ScreenKept
  <2>7. HandsSound' BY <1>1, <2>2 DEF HandsSound, Sound, OnRow
  <2>8. SentSound' BY <1>1, <2>1, <2>2, <2>3, SentKept
  <2> QED BY <2>3, <2>5, <2>6, <2>7, <2>8 DEF LandInv, EditLandsWhereTyped
<1>3. ASSUME NEW n \in Batches, ServeSave(n)
      PROVE  LandInv'
  <2>1. PICK b \in {Done(save[n]), Refused(save[n])} :
          ServeBatch(save[n], b) /\ save' = [save EXCEPT ![n] = b]
    BY <1>3 DEF ServeSave
  <2>2. UNCHANGED <<rows, rev, socket, store, screen, pending, hands, form, own, stale, blind>>
        /\ save[n].phase = "sent" /\ save \in [Batches -> Batch]
    BY <1>1, <1>3 DEF ServeSave, TypeOK
  <2>3. b.phase # "sent" /\ Told(b) /\ {} \notin misplaced'
    BY <1>1, <2>1, <2>2, ServeLands DEF BatchesTyped, SentSound
  <2>4. \A k \in Batches : save'[k] = IF k = n THEN b ELSE save[k] BY <2>1, <2>2
  <2>5. \A k \in Batches : Told(save'[k]) BY <1>1, <2>3, <2>4 DEF NewsSound
  <2>6. \A k \in Batches : Told(save[k])' BY <2>2, <2>5 DEF Told, Sound, OnRow
  <2>7. NewsSound' BY <1>1, <2>2, <2>6 DEF NewsSound, Told, Sound, OnRow
  <2>8. ScreenSound' BY <1>1, <2>2, ScreenKept
  <2>9. HandsSound' BY <1>1, <2>2 DEF HandsSound, Sound, OnRow
  <2>10. SentSound' BY <1>1, <2>2, <2>3, <2>4, SentKept
  <2> QED BY <2>3, <2>7, <2>8, <2>9, <2>10 DEF LandInv, EditLandsWhereTyped
<1>4. CASE ServeStructure
  <2>1. UNCHANGED <<socket, store, screen, pending, hands, save, form, ledger, holes>>
    BY <1>4 DEF ServeStructure
  <2>2. own \in Change BY <1>1 DEF TypeOK
  <2>3. CASE rev' = rev + 1 /\ own' = [own EXCEPT !.phase = "ok", !.rev = rev + 1]
    <3>1. own'.rev = rev + 1 BY <2>2, <2>3 DEF Change
    <3> QED BY <2>1, <2>3, <3>1, MovedLands
  <2>4. CASE own' = [own EXCEPT !.phase = "conflict", !.rev = rev] /\ UNCHANGED <<rows, rev>>
    <3>1. own'.rev = rev BY <2>2, <2>4 DEF Change
    <3>2. NewsSound' BY <1>1, <2>1, <2>4, <3>1 DEF NewsSound, Told, Sound, OnRow
    <3>3. ScreenSound' BY <1>1, <2>1, <2>4, ScreenKept
    <3>4. HandsSound' BY <1>1, <2>1, <2>4 DEF HandsSound, Sound, OnRow
    <3>5. SentSound' BY <1>1, <2>1, <2>4, SentKept
    <3> QED BY <1>1, <2>1, <3>2, <3>3, <3>4, <3>5 DEF LandInv, EditLandsWhereTyped
  <2> QED BY <1>4, <2>3, <2>4 DEF ServeStructure
<1>5. ASSUME NEW x \in reads, ReadSheet(x) \/ ServeRead(x)
      PROVE  LandInv'
  <2>1. UNCHANGED <<server, socket, store, grid, loaded, pending, hands, calls, ledger, holes>>
    BY <1>5 DEF ReadSheet, ServeRead
  <2>2. x \in Read /\ x.tile \in Pos BY <1>1 DEF TypeOK, Read
  <2>3. PICK y \in Read : /\ reads' \subseteq reads \cup {y} /\ y.rev \in 0 .. rev
                          /\ y.done => y.rev # NoRev /\ Sound(y.rev, y.cell.row, y.tile)
    <3>1. CASE ReadSheet(x)
      <4> DEFINE y == [x EXCEPT !.rev = rev]
      <4>1. y \in Read /\ y.rev = rev /\ ~y.done BY <1>1, <2>2, <3>1 DEF Read, Rev, ReadSheet
      <4>2. reads' \subseteq reads \cup {y} BY <3>1 DEF ReadSheet
      <4>3. y.rev \in 0 .. rev BY <1>1, <4>1
      <4> HIDE DEF y
      <4> QED BY <4>1, <4>2, <4>3
    <3>2. CASE ServeRead(x)
      <4> DEFINE y == [x EXCEPT !.done = TRUE, !.cell = Canonical(x.tile)]
      <4>1. Canonical(x.tile) \in Cell /\ Canonical(x.tile).row \in {NoRow, rows[x.tile]}
        BY <1>1, <2>2, RowAt
      <4>2. y \in Read /\ y.rev = x.rev /\ y.tile = x.tile /\ y.cell = Canonical(x.tile)
        BY <2>2, <4>1 DEF Read
      <4>3. reads' \subseteq reads \cup {y} BY <3>2 DEF ServeRead
      <4>4. x.rev \in 0 .. rev /\ x.rev # NoRev BY <1>1, <3>2 DEF NewsSound, ServeRead
      <4> HIDE DEF y
      <4>5. Sound(y.rev, y.cell.row, y.tile) BY <1>1, <4>1, <4>2, <4>4 DEF Sound, OnRow
      <4> QED BY <4>2, <4>3, <4>4, <4>5
    <3> QED BY <1>5, <3>1, <3>2
  <2>6. \A z \in reads' : /\ z.rev # NoRev => z.rev \in 0 .. rev
                          /\ z.done => z.rev # NoRev /\ Sound(z.rev, z.cell.row, z.tile)
    BY <1>1, <2>3 DEF NewsSound
  <2>7. NewsSound' BY <1>1, <2>1, <2>6 DEF NewsSound, Told, Sound, OnRow
  <2>8. ScreenSound' BY <1>1, <2>1, ScreenKept
  <2>9. HandsSound' BY <1>1, <2>1 DEF HandsSound, Sound, OnRow
  <2>10. SentSound' BY <1>1, <2>1, SentKept
  <2> QED BY <1>1, <2>1, <2>7, <2>8, <2>9, <2>10 DEF LandInv, EditLandsWhereTyped
<1> QED BY <1>2, <1>3, <1>4, <1>5 DEF Server

\* Steps after which the tab knows and shows what it did, or less.
LEMMA QuietLands ==
  ASSUME LandAll,
         UNCHANGED <<rows, rev, store, grid, queue, due, stale, bar, undo, form, misplaced>>,
         editor' \in {editor, NoTarget}, Within(reads', reads), inbox' \subseteq inbox,
         \A n \in Batches : save'[n] = save[n] \/ save'[n].phase = "idle",
         own' = own \/ own'.phase \in {"idle", "sent"}
  PROVE  LandInv'
<1>1. /\ NewsSound /\ ScreenSound /\ SentSound /\ EditLandsWhereTyped /\ store \in Int
  BY LandFacts
<1>2. NewsSound' BY <1>1, NewsKept
<1>3. ScreenSound' BY <1>1, ScreenKept
<1>4. HandsSound' BY <1>1, HandsKept
<1>5. SentSound' BY <1>1, SentKept
<1> QED BY <1>1, <1>2, <1>3, <1>4, <1>5 DEF LandInv, EditLandsWhereTyped

LEMMA ReadAnsweredLands ==
  ASSUME LandAll, NEW x \in reads, ReadAnswered(x)
  PROVE  LandInv'
<1>1. /\ TypeInv /\ TypeOK /\ NewsSound /\ ScreenSound /\ SentSound /\ EditLandsWhereTyped
      /\ rev \in Nat /\ NoRev = -1
  BY LandFacts
<1>2. UNCHANGED <<server, socket, armed, saving, due, bar, undo, calls, ledger>>
      /\ Capture(x.rev, queue, x.current) /\ reads' = Ended(reads, x) /\ x.done
  BY DEF ReadAnswered
<1>3. x \in Read /\ x.rev \in Rev /\ x.current \in BOOLEAN /\ queue \in [Pos -> Op]
      /\ x.tile \in Pos /\ grid \in [Pos -> Cell]
  BY <1>1 DEF TypeOK, Read
<1>4. x.rev \in 0 .. rev /\ Sound(x.rev, x.cell.row, x.tile) BY <1>1, <1>2 DEF NewsSound
<1>5. FromQueue(queue) BY <1>3 DEF FromQueue
<1>6. Captured(x.rev, queue, x.current) BY <1>1, <1>2, <1>3, CaptureTyped
<1>7. \A p \in Pos : grid'[p] = grid[p] \/ (x.current /\ Sound(x.rev, grid'[p].row, p))
  <2>1. CASE x.current
    <3>1. grid' = [grid EXCEPT ![x.tile] = Merged(grid[x.tile], x.cell)]
      BY <2>1 DEF ReadAnswered
    <3>2. Merged(grid[x.tile], x.cell) \in {grid[x.tile], x.cell} BY DEF Merged
    <3>3. \A p \in Pos : grid'[p] = grid[p] \/ (p = x.tile /\ grid'[p] = x.cell)
      BY <1>3, <3>1, <3>2
    <3> QED BY <1>4, <2>1, <3>3
  <2>2. CASE ~x.current BY <2>2 DEF ReadAnswered
  <2> QED BY <2>1, <2>2
<1>8. ScreenSound' /\ HandsSound' BY <1>2, <1>3, <1>4, <1>5, <1>6, <1>7, CaptureLands
<1>9. Within(reads', reads) BY <1>1, <1>2, EndedType DEF TypeOK
<1>10. NewsSound' BY <1>1, <1>2, <1>9, NewsKept
<1>11. SentSound' BY <1>1, <1>2, SentKept
<1> QED BY <1>1, <1>2, <1>8, <1>10, <1>11 DEF LandInv, EditLandsWhereTyped

LEMMA SaveAnsweredLands ==
  ASSUME LandAll, NEW n \in Batches, SaveAnswered(n)
  PROVE  LandInv'
<1>1. /\ TypeInv /\ TypeOK /\ NewsSound /\ ScreenSound /\ SentSound /\ EditLandsWhereTyped
      /\ rev \in Nat /\ NoRev = -1
  BY LandFacts
<1>2. /\ UNCHANGED <<server, socket, saving, due, bar, undo, form, own, ledger>>
      /\ save[n].phase = "ok" /\ Capture(save[n].rev, Unsaved(save[n], queue), TRUE)
      /\ \A p \in Pos : grid'[p] \in {grid[p], save[n].cells[p]}
      /\ reads' = Asked(reads, Submitted(save[n]), {n})
      /\ save' = [save EXCEPT ![n] = [save[n] EXCEPT !.phase = "reload"]]
  BY DEF SaveAnswered, Applied
<1>3. save[n] \in Batch /\ save[n].rev \in Rev /\ save \in [Batches -> Batch]
  BY <1>1 DEF TypeOK, Batch
<1>4. save[n].rev \in 0 .. rev /\ \A p \in Pos : Sound(save[n].rev, save[n].cells[p].row, p)
  BY <1>1, <1>2 DEF NewsSound, Told
<1> DEFINE left == Unsaved(save[n], queue)
<1>5. FromQueue(left) BY <1>1, <1>3, UnsavedFacts
<1>6. Captured(save[n].rev, left, TRUE) BY <1>1, <1>2, <1>3, <1>5, CaptureTyped DEF FromQueue
<1> HIDE DEF left
<1>7. \A p \in Pos : grid'[p] = grid[p] \/ (TRUE /\ Sound(save[n].rev, grid'[p].row, p))
  BY <1>2, <1>4
<1>8. ScreenSound' /\ HandsSound' BY <1>2, <1>4, <1>5, <1>6, <1>7, CaptureLands
<1>9. Within(reads', reads)
  <2>1. Submitted(save[n]) \subseteq Pos /\ {n} \in SUBSET Tags BY DEF Submitted, Tags
  <2> QED BY <1>1, <1>2, <2>1, AskedType DEF TypeOK
<1>10. \A k \in Batches : save'[k] = save[k] \/ save'[k].phase = "reload"
  <2>1. [save[n] EXCEPT !.phase = "reload"].phase = "reload" BY <1>3 DEF Batch
  <2> QED BY <1>2, <1>3, <2>1
<1>11. NewsSound' BY <1>1, <1>2, <1>9, <1>10, NewsKept
<1>12. SentSound' BY <1>1, <1>2, <1>10, SentKept
<1> QED BY <1>1, <1>2, <1>8, <1>11, <1>12 DEF LandInv, EditLandsWhereTyped

\* A place taken from a screen that is sound is sound.
LEMMA AtSound ==
  ASSUME LandAll, NEW p \in Pos, NEW why, Taint \subseteq why
  PROVE  /\ At(p, why).why = why /\ At(p, why).seen = store /\ At(p, why).pos = p
         /\ At(p, why).aim = grid[p].row
         /\ why = {} /\ ~due => Sound(store, grid[p].row, p)
<1>1. ScreenSound /\ stale \in BOOLEAN BY LandFacts DEF TypeOK
<1>2. why = {} => ~stale BY DEF Taint
<1>3. why = {} /\ ~due => Sound(store, grid[p].row, p) BY <1>1, <1>2 DEF ScreenSound
<1> QED BY <1>3 DEF At

LEMMA HandStepsLand ==
  ASSUME LandAll, \E p \in Pos : OpenEditor(p) \/ FocusBar(p)
  PROVE  LandInv'
<1>1. /\ TypeInv /\ TypeOK /\ NewsSound /\ ScreenSound /\ HandsSound /\ SentSound
      /\ EditLandsWhereTyped /\ store \in Int
  BY LandFacts
<1>2. UNCHANGED <<server, socket, store, screen, pending, undo, calls, ledger, holes>>
  BY DEF OpenEditor, FocusBar
<1>3. NewsSound' BY <1>1, <1>2, WithinItself, NewsKept
<1>4. SentSound' BY <1>1, <1>2, SentKept
<1>5. ASSUME NEW p \in Pos, OpenEditor(p) PROVE ScreenSound' /\ HandsSound'
  <2>1. editor' = At(p, Taint) /\ bar' = bar BY <1>5 DEF OpenEditor
  <2>2. editor'.why = {} /\ ~due =>
          Sound(store, editor'.aim, editor'.pos) /\ Sound(editor'.seen, editor'.aim, editor'.pos)
    BY <2>1, AtSound
  <2>3. editor'.seen = store BY <2>1, AtSound
  <2>4. ScreenSound' BY <1>1, <1>2, <2>2 DEF ScreenSound, Sound, OnRow
  <2>5. editor'.seen <= store BY <1>1, <2>3
  <2>6. HandsSound' BY <1>1, <1>2, <2>1, <2>5 DEF HandsSound, Sound, OnRow
  <2> QED BY <2>4, <2>6
<1>6. ASSUME NEW p \in Pos, FocusBar(p) PROVE ScreenSound' /\ HandsSound'
  <2> DEFINE why == Taint \cup (IF due THEN {"formula"} ELSE {})
  <2>1. bar' = At(p, why) /\ editor' = editor BY <1>6 DEF FocusBar
  <2>2. why = {} => ~due OBVIOUS
  <2>3. bar'.why = why /\ bar'.seen = store
        /\ (why = {} => Sound(store, bar'.aim, bar'.pos))
    BY <2>1, <2>2, AtSound
  <2> HIDE DEF why
  <2>4. ScreenSound' BY <1>1, <1>2, <2>1, ScreenKept
  <2>5. \A t \in {bar', undo'} : t # NoTarget /\ t.why = {} =>
          t.seen <= store /\ Sound(t.seen, t.aim, t.pos)
    BY <1>1, <1>2, <2>3 DEF HandsSound
  <2>6. HandsSound' BY <1>1, <1>2, <2>1, <2>5 DEF HandsSound, Sound, OnRow
  <2> QED BY <2>4, <2>6
<1> QED BY <1>1, <1>2, <1>3, <1>4, <1>5, <1>6 DEF LandInv, EditLandsWhereTyped

\* An edit that is sound when it is queued, or that nobody will send.
LEMMA SetCellLands ==
  ASSUME LandAll, NEW p \in Pos, NEW aim, NEW why, SetCellValue(p, aim, why),
         UNCHANGED <<rows, rev, store, due, stale>>, editor' \in {editor, NoTarget},
         ~due /\ why = {} => Sound(store, aim, p)
  PROVE  ScreenSound'
<1>1. ScreenSound /\ TypeOK BY LandFacts
<1>7. PICK clear \in BOOLEAN :
        /\ queue' = [queue EXCEPT ![p] = [id |-> edits + 1, aim |-> aim, why |-> why, clear |-> clear]]
        /\ grid' = [grid EXCEPT ![p] = [grid[p] EXCEPT !.ver = 0, !.full = ~clear]]
  BY <1>1 DEF SetCellValue, TypeOK
<1> DEFINE op == [id |-> edits + 1, aim |-> aim, why |-> why, clear |-> clear]
<1>2. op.why = why /\ op.aim = aim OBVIOUS
<1>3. queue' = [queue EXCEPT ![p] = op] BY <1>7
<1> HIDE DEF op
<1>4. \A q \in Pos : queue'[q] = IF q = p THEN op ELSE queue[q] BY <1>1, <1>3 DEF TypeOK
<1>5. \A q \in Pos : grid'[q].row = grid[q].row
  <2>1. grid[p] \in Cell /\ grid \in [Pos -> Cell] BY <1>1 DEF TypeOK
  <2>2. [grid[p] EXCEPT !.ver = 0, !.full = ~clear].row = grid[p].row BY <2>1 DEF Cell
  <2> QED BY <1>7, <2>1, <2>2
<1>6. ~due => \A q \in Pos : queue'[q].why = {} => Sound(store, queue'[q].aim, q)
  BY <1>1, <1>2, <1>4 DEF ScreenSound
<1> QED BY <1>1, <1>5, <1>6 DEF ScreenSound, Sound, OnRow

LEMMA EditStepsLand ==
  ASSUME LandAll, CommitEdit \/ (\E p \in Pos : Paste(p)) \/ Undo
  PROVE  LandInv'
<1>1. /\ TypeInv /\ TypeOK /\ NewsSound /\ ScreenSound /\ HandsSound /\ SentSound
      /\ EditLandsWhereTyped /\ store \in Int /\ due \in BOOLEAN
  BY LandFacts DEF TypeOK
<1>2. UNCHANGED <<server, socket, store, loaded, reads, saving, due, bar, calls,
                  misplaced, holes>>
  BY DEF CommitEdit, Paste, Undo
<1>3. NewsSound' BY <1>1, <1>2, WithinItself, NewsKept
<1>4. SentSound' BY <1>1, <1>2, SentKept
<1>5. CASE CommitEdit
  <2>1. /\ editor # NoTarget /\ ~due /\ SetCellValue(editor.pos, editor.aim, editor.why)
        /\ undo' = editor /\ editor' = NoTarget
    BY <1>5 DEF CommitEdit
  <2>2. editor.pos \in Pos BY <1>1, <2>1 DEF TypeInv, AllPlaced
  <2>3. editor.why = {} => /\ Sound(store, editor.aim, editor.pos)
                           /\ Sound(editor.seen, editor.aim, editor.pos)
                           /\ editor.seen <= store
    BY <1>1, <2>1 DEF ScreenSound, HandsSound
  <2>4. ScreenSound' BY <1>2, <2>1, <2>2, <2>3, SetCellLands
  <2>5. \A t \in {bar', undo'} : t # NoTarget /\ t.why = {} =>
          t.seen <= store /\ Sound(t.seen, t.aim, t.pos)
    BY <1>1, <1>2, <2>1, <2>3 DEF HandsSound
  <2>6. HandsSound' BY <1>2, <2>1, <2>5 DEF HandsSound, Sound, OnRow
  <2> QED BY <1>1, <1>2, <1>3, <1>4, <2>4, <2>6 DEF LandInv, EditLandsWhereTyped
<1>6. ASSUME NEW p \in Pos, Paste(p) PROVE LandInv'
  <2> DEFINE why == Taint \cup (IF due THEN {"undo"} ELSE {})
  <2>1. /\ SetCellValue(p, grid[p].row, Taint) /\ undo' = At(p, why) /\ editor' = editor
    BY <1>6 DEF Paste
  <2>2. ~due /\ Taint = {} => Sound(store, grid[p].row, p) BY AtSound
  <2>3. why = {} => ~due OBVIOUS
  <2>4. undo'.why = why /\ undo'.seen = store
        /\ (why = {} => Sound(store, undo'.aim, undo'.pos))
    BY <2>1, <2>3, AtSound
  <2> HIDE DEF why
  <2>5. ScreenSound' BY <1>2, <2>1, <2>2, SetCellLands
  <2>6. \A t \in {bar', undo'} : t # NoTarget /\ t.why = {} =>
          t.seen <= store /\ Sound(t.seen, t.aim, t.pos)
    BY <1>1, <1>2, <2>4 DEF HandsSound
  <2>7. HandsSound' BY <1>1, <1>2, <2>1, <2>6 DEF HandsSound, Sound, OnRow
  <2> QED BY <1>1, <1>2, <1>3, <1>4, <2>5, <2>7 DEF LandInv, EditLandsWhereTyped
<1>7. CASE Undo
  <2> DEFINE why == undo.why \cup (IF undo.seen = store THEN {} ELSE {"undo"})
  <2>1. /\ undo # NoTarget /\ SetCellValue(undo.pos, undo.aim, why)
        /\ undo' = NoTarget /\ editor' = editor
    BY <1>7 DEF Undo
  <2>2. undo.pos \in Pos BY <1>1, <2>1 DEF TypeInv, AllPlaced
  <2>3. why = {} => undo.why = {} /\ undo.seen = store OBVIOUS
  <2>4. why = {} => Sound(store, undo.aim, undo.pos) BY <1>1, <2>1, <2>3 DEF HandsSound
  <2> HIDE DEF why
  <2>5. ScreenSound' BY <1>2, <2>1, <2>2, <2>4, SetCellLands
  <2>6. HandsSound' BY <1>1, <1>2, <2>1, HandsKept
  <2> QED BY <1>1, <1>2, <1>3, <1>4, <2>5, <2>6 DEF LandInv, EditLandsWhereTyped
<1> QED BY <1>5, <1>6, <1>7

LEMMA FlushLands ==
  ASSUME LandAll, FlushPendingOps
  PROVE  LandInv'
<1>1. /\ TypeInv /\ TypeOK /\ NewsSound /\ ScreenSound /\ HandsSound /\ SentSound
      /\ EditLandsWhereTyped /\ store \in Int
  BY LandFacts
<1>2. UNCHANGED <<server, socket, store, screen, queue, due, hands, form, own, ledger, holes>>
  BY DEF FlushPendingOps
<1> DEFINE b == [NoBatch EXCEPT !.phase = "sent", !.ops = queue, !.base = store]
<1>3. b.phase = "sent" /\ b.ops = queue /\ b.base = store BY ConstantTypes DEF Batch
<1>4. \A n \in Batches : save'[n] = save[n] \/ (save'[n] = b /\ ~due)
  <2>1. CASE UNCHANGED save BY <2>1
  <2>2. CASE ~due /\ \E n \in Batches : save' = [save EXCEPT ![n] = b]
    <3> HIDE DEF b
    <3> QED BY <1>1, <2>2 DEF TypeOK
  <2> QED BY <2>1, <2>2 DEF FlushPendingOps
<1> HIDE DEF b
<1>5. NewsSound' BY <1>1, <1>2, <1>3, <1>4, WithinItself, NewsKept
<1>6. ScreenSound' BY <1>1, <1>2, ScreenKept
<1>7. HandsSound' BY <1>1, <1>2, HandsKept
<1>8. SentSound'
  <2>1. ~due => Aimed(b) BY <1>1, <1>3 DEF ScreenSound, Aimed
  <2>2. \A n \in Batches : Aimed(save'[n]) BY <1>1, <1>4, <2>1 DEF SentSound
  <2>3. \A n \in Batches : Aimed(save[n])' BY <1>2, <2>2 DEF Aimed, Sound, OnRow
  <2> QED BY <1>1, <1>2, <2>3 DEF SentSound, Aimed, Sound, OnRow
<1> QED BY <1>1, <1>2, <1>5, <1>6, <1>7, <1>8 DEF LandInv, EditLandsWhereTyped

LEMMA SubmitBarLands ==
  ASSUME LandAll, SubmitBar
  PROVE  LandInv'
<1>1. /\ TypeInv /\ TypeOK /\ NewsSound /\ ScreenSound /\ HandsSound /\ SentSound
      /\ EditLandsWhereTyped /\ store \in Int /\ store <= rev
  BY LandFacts
<1>2. /\ UNCHANGED <<server, socket, store, screen, queue, due, editor, undo, save, own, misplaced, holes>>
      /\ bar' = NoTarget /\ bar # NoTarget
  BY DEF SubmitBar
<1>3. PICK why \in SUBSET Ways, op \in Op :
        /\ why = bar.why \cup (IF bar.seen = store THEN {} ELSE {"formula"})
        /\ op.aim = bar.aim /\ op.why = why /\ bar.pos \in Pos
        /\ form'.base = store /\ form'.phase = "sent"
        /\ \A q \in Pos : form'.ops[q] = IF q = bar.pos THEN op ELSE NoOp
  BY <1>1, SubmitBarTyped
<1>4. op.why = {} => Sound(store, op.aim, bar.pos)
  <2>1. op.why = {} => bar.why = {} /\ bar.seen = store BY <1>3
  <2> QED BY <1>1, <1>2, <1>3, <2>1 DEF HandsSound
<1>5. \A q \in Pos : form'.ops[q].why = {} => Sound(store, form'.ops[q].aim, q)
  <2>1. \A q \in Pos : Sound(store, NoRow, q) BY <1>1, SoundNothing
  <2> QED BY <1>3, <1>4, <2>1, ConstantTypes
<1>6. Aimed(form)' BY <1>2, <1>3, <1>5 DEF Aimed, Sound, OnRow
<1>7. NewsSound' BY <1>1, <1>2, <1>3, WithinItself, NewsKept
<1>8. ScreenSound' BY <1>1, <1>2, ScreenKept
<1>9. HandsSound' BY <1>1, <1>2, HandsKept
<1>10. SentSound' BY <1>1, <1>2, <1>6 DEF SentSound, Aimed, Sound, OnRow
<1> QED BY <1>1, <1>2, <1>7, <1>8, <1>9, <1>10 DEF LandInv, EditLandsWhereTyped

\* A newest revision that was heard of is one the server has.
LEMMA NewestLands ==
  ASSUME LandAll, NEW r \in 0 .. rev
  PROVE  /\ Newest(store, r) \in Rev /\ Newest(store, r) \in Nat
         /\ store <= Newest(store, r) /\ Newest(store, r) <= rev
<1>1. rev \in Nat /\ store \in Int /\ store <= rev BY LandFacts
<1> QED BY <1>1 DEF Newest, Rev

\* The steps that end with a refresh.
LEMMA RefreshedLands ==
  ASSUME LandAll, UNCHANGED <<rows, rev, bar, undo, misplaced>>,
         Refreshed(TRUE) \/ Refreshed(FALSE),
         store' \in Rev, store <= store', store' <= rev, inbox' \subseteq inbox,
         \A n \in Batches : save'[n] = save[n] \/ save'[n].phase = "idle",
         form' = form \/ form'.phase = "idle",
         own' = own \/ own'.phase = "idle"
  PROVE  LandInv'
<1>1. NewsSound /\ SentSound /\ EditLandsWhereTyped BY LandFacts
<1>2. Within(reads', reads) BY DEF Refreshed, ScreenTyped
<1>3. ScreenSound' /\ HandsSound' BY RefreshLands
<1>4. NewsSound' BY <1>1, <1>2, NewsKept
<1>5. SentSound' BY <1>1, SentKept
<1> QED BY <1>1, <1>3, <1>4, <1>5 DEF LandInv, EditLandsWhereTyped

LEMMA SaveEndsLand ==
  ASSUME LandAll, NEW n \in Batches, SaveRefused(n) \/ SaveFails(n) \/ SaveReloaded(n)
  PROVE  LandInv'
<1>1. /\ TypeInv /\ TypeOK /\ NewsSound /\ SentSound /\ rev \in Nat /\ store \in Int
      /\ store <= rev
  BY LandFacts
<1>2. UNCHANGED <<server, socket, bar, undo, form, own, misplaced>>
      /\ save' = [save EXCEPT ![n] = NoBatch]
  BY DEF SaveRefused, SaveFails, SaveReloaded
<1>3. \A k \in Batches : save'[k] = save[k] \/ save'[k].phase = "idle"
  BY <1>1, <1>2, ConstantTypes DEF TypeOK
<1>4. CASE SaveRefused(n)
  <2>1. save[n].phase = "conflict" /\ ConflictWhileSaving(save[n].rev) BY <1>4 DEF SaveRefused
  <2>2. save[n].rev \in 0 .. rev BY <1>1, <2>1 DEF NewsSound, Told
  <2>3. save[n].rev \in Rev BY <1>1 DEF TypeOK, Batch
  <2>4. Refreshed(FALSE) /\ store' = Newest(store, save[n].rev)
    BY <1>1, <2>1, <2>3, ConflictTyped
  <2>5. store' \in Rev /\ store <= store' /\ store' <= rev BY <2>2, <2>4, NewestLands
  <2> QED BY <1>2, <1>3, <2>4, <2>5, RefreshedLands
<1>5. CASE SaveFails(n) \/ SaveReloaded(n)
  <2>1. (\E lost \in BOOLEAN : StopSaving(lost)) /\ store' = store BY <1>5 DEF SaveFails, SaveReloaded
  <2>2. Stopped BY <1>1, <2>1, StopTyped
  <2>3. CASE due
    <3>1. Refreshed(FALSE) BY <1>1, <2>1, <2>3, RefreshTyped DEF StopSaving
    <3>2. store' \in Rev BY <1>1, <2>1 DEF TypeOK
    <3> QED BY <1>1, <1>2, <1>3, <2>1, <3>1, <3>2, RefreshedLands
  <2>4. CASE ~due
    <3>1. UNCHANGED <<queue, due, editor, grid, stale>> /\ Within(reads', reads)
      BY <2>1, <2>4, WithinItself DEF StopSaving
    <3> QED BY <1>2, <1>3, <2>1, <3>1, QuietLands
  <2> QED BY <2>3, <2>4
<1> QED BY <1>4, <1>5

LEMMA BarEndsLand ==
  ASSUME LandAll, BarRefused \/ BarFails \/ BarReloaded
  PROVE  LandInv'
<1>1. /\ TypeInv /\ TypeOK /\ NewsSound /\ ScreenSound /\ SentSound /\ EditLandsWhereTyped
      /\ rev \in Nat /\ store \in Int /\ store <= rev
  BY LandFacts
<1>2. UNCHANGED <<server, socket, bar, undo, save, own, misplaced>> /\ form' = NoBatch
      /\ form'.phase = "idle"
  BY ConstantTypes DEF BarRefused, BarFails, BarReloaded
<1>3. CASE BarRefused
  <2>1. form.phase = "conflict" /\ ConflictWhileSaving(form.rev) BY <1>3 DEF BarRefused
  <2>2. form.rev \in 0 .. rev BY <1>1, <2>1 DEF NewsSound, Told
  <2>3. form.rev \in Rev BY <1>1 DEF TypeOK, Batch
  <2>4. Refreshed(FALSE) /\ store' = Newest(store, form.rev)
    BY <1>1, <2>1, <2>3, ConflictTyped
  <2>5. store' \in Rev /\ store <= store' /\ store' <= rev BY <2>2, <2>4, NewestLands
  <2> QED BY <1>2, <2>4, <2>5, RefreshedLands
<1>4. CASE BarFails \/ BarReloaded
  <2>1. (\E lost \in BOOLEAN : StopSaving(lost)) /\ store' = store BY <1>4 DEF BarFails, BarReloaded
  <2>2. CASE due
    <3>1. Refreshed(FALSE) BY <1>1, <2>1, <2>2, RefreshTyped DEF StopSaving
    <3>2. store' \in Rev BY <1>1, <2>1 DEF TypeOK
    <3> QED BY <1>1, <1>2, <2>1, <3>1, <3>2, RefreshedLands
  <2>3. CASE ~due
    <3>1. UNCHANGED <<queue, due, editor, grid, stale>> /\ reads' = reads
      BY <2>1, <2>3 DEF StopSaving
    <3>2. NewsSound' BY <1>1, <1>2, <3>1, WithinItself, NewsKept
    <3>3. ScreenSound' BY <1>1, <1>2, <2>1, <3>1, ScreenKept
    <3>4. HandsSound' BY <1>1, <1>2, <2>1, <3>1, HandsKept
    <3>5. SentSound' BY <1>1, <1>2, SentKept
    <3> QED BY <1>1, <1>2, <3>2, <3>3, <3>4, <3>5 DEF LandInv, EditLandsWhereTyped
  <2> QED BY <2>2, <2>3
<1> QED BY <1>3, <1>4

LEMMA BarAnsweredLands ==
  ASSUME LandAll, BarAnswered \/ BarWithout
  PROVE  LandInv'
<1>1. /\ TypeInv /\ TypeOK /\ NewsSound /\ ScreenSound /\ SentSound /\ EditLandsWhereTyped
      /\ rev \in Nat /\ NoRev = -1
  BY LandFacts
<1>2. /\ UNCHANGED <<server, socket, bar, undo, save, own, edits, misplaced>>
      /\ form'.phase \notin {"sent", "ok", "conflict"} /\ form.phase = "ok"
  <2>1. CASE BarAnswered BY <2>1, ConstantTypes DEF BarAnswered
  <2>2. CASE BarWithout
    <3>1. form \in Batch BY <1>1 DEF TypeOK
    <3>2. form'.phase = "reload" BY <2>2, <3>1 DEF BarWithout, Batch
    <3> QED BY <2>2, <3>2 DEF BarWithout
  <2> QED BY <2>1, <2>2
<1>3. form.rev \in 0 .. rev /\ \A p \in Pos : Sound(form.rev, form.cells[p].row, p)
  BY <1>1, <1>2 DEF NewsSound, Told
<1>4. form.rev \in Rev /\ queue \in [Pos -> Op] /\ grid \in [Pos -> Cell]
  BY <1>1 DEF TypeOK, Batch
<1>5. CASE due /\ BarAnswered
  <2>1. store' = Newest(store, form.rev) /\ RefreshSheet(FALSE) BY <1>5 DEF BarAnswered
  <2>2. Refreshed(FALSE) BY <1>1, <2>1, RefreshTyped
  <2>3. store' \in Rev /\ store <= store' /\ store' <= rev BY <1>3, <2>1, NewestLands
  <2>4. form'.phase = "idle" BY <1>5, ConstantTypes DEF BarAnswered
  <2> QED BY <1>2, <2>2, <2>3, <2>4, RefreshedLands
<1>6. CASE BarWithout \/ (~due /\ BarAnswered)
  <2> DEFINE p == BarPos
             left == [queue EXCEPT ![p] = NoOp]
  <2>2. p \in Pos BY <1>1, <1>2, BarPosFacts
  <2>9. BarShows(p) BY <1>6 DEF BarAnswered, BarWithout
  <2>1. /\ Capture(form.rev, left, TRUE) /\ due' = due
        /\ grid' = [grid EXCEPT ![p] = Applied(grid[p], form.cells[p])]
    BY <2>9 DEF BarShows
  <2>10. Within(reads', reads)
    <3>1. CASE ~due /\ BarAnswered
      <4>1. reads' = reads BY <3>1 DEF BarAnswered
      <4> QED BY <4>1, WithinItself
    <3>2. CASE BarWithout
      <4>1. {p} \in SUBSET Pos /\ {"bar"} \in SUBSET Tags BY <2>2 DEF Tags
      <4> QED BY <1>1, <3>2, <4>1, AskedType DEF BarWithout, TypeOK
    <3> QED BY <1>6, <3>1, <3>2
  <2>3. FromQueue(left) BY <1>4, <2>2, ConstantTypes DEF FromQueue
  <2>4. \A q \in Pos : grid'[q] = grid[q] \/ (TRUE /\ Sound(form.rev, grid'[q].row, q))
    <3>1. Applied(grid[p], form.cells[p]) \in {grid[p], form.cells[p]} BY DEF Applied
    <3> QED BY <1>3, <1>4, <2>1, <2>2, <3>1
  <2> HIDE DEF left, p
  <2>5. Captured(form.rev, left, TRUE) BY <1>1, <1>4, <2>1, <2>3, CaptureTyped DEF FromQueue
  <2>6. ScreenSound' /\ HandsSound' BY <1>2, <1>3, <2>1, <2>3, <2>4, <2>5, CaptureLands
  <2>7. NewsSound' BY <1>1, <1>2, <2>10, NewsKept
  <2>8. SentSound' BY <1>1, <1>2, SentKept
  <2> QED BY <1>1, <1>2, <2>6, <2>7, <2>8 DEF LandInv, EditLandsWhereTyped
<1> QED BY <1>5, <1>6

LEMMA StructureAnsweredLands ==
  ASSUME LandAll, StructureAnswered
  PROVE  LandInv'
<1>1. /\ TypeInv /\ TypeOK /\ NewsSound /\ ScreenSound /\ SentSound /\ EditLandsWhereTyped
      /\ rev \in Nat /\ store \in Int /\ NoRev = -1
  BY LandFacts
<1>2. /\ UNCHANGED <<server, socket, saving, due, bar, undo, save, form, ledger>>
      /\ own.phase = "ok" /\ store' = Newest(store, own.rev) /\ ResetScreen({})
      /\ own' = NoChange /\ own'.phase = "idle"
  BY ConstantTypes DEF StructureAnswered
<1>3. own.rev \in 0 .. rev BY <1>1, <1>2 DEF NewsSound
<1>4. store' \in Nat /\ store <= store' /\ store' <= rev BY <1>2, <1>3, NewestLands
<1>5. Within(reads', reads) BY <1>1, <1>2, ResetTyped DEF ScreenTyped
<1>6. \A p \in Pos : grid'[p].row = NoRow /\ Sound(store', NoRow, p)
  BY <1>2, <1>4, SoundNothing, ConstantTypes DEF ResetScreen
<1>7. \A p \in Pos : queue'[p].why = {} => Sound(store', queue'[p].aim, p)
  BY <1>1, <1>6, OwnMarks, ConstantTypes
<1>8. editor' = NoTarget \/ editor'.why # {} BY <1>1, OwnMarks
<1>9. ScreenSound' BY <1>1, <1>2, <1>4, <1>6, <1>7, <1>8 DEF ScreenSound, Sound, OnRow
<1>10. HandsSound' BY <1>2, <1>4, <1>8, HandsKept
<1>11. NewsSound' BY <1>1, <1>2, <1>5, NewsKept
<1>12. SentSound' BY <1>1, <1>2, SentKept
<1> QED BY <1>1, <1>2, <1>9, <1>10, <1>11, <1>12 DEF LandInv, EditLandsWhereTyped

LEMMA HeardRefreshLands ==
  ASSUME LandAll, StructureRefused \/ Rejoin \/ \E m \in inbox : NewStructure(m)
  PROVE  LandInv'
<1>1. /\ TypeInv /\ TypeOK /\ NewsSound /\ rev \in Nat /\ store \in Int /\ store <= rev
  BY LandFacts
<1>2. /\ UNCHANGED <<rows, rev, saving, bar, undo, save, form, misplaced>>
      /\ RefreshSheet(saving) /\ inbox' \subseteq inbox
      /\ own' = own \/ (own' = NoChange /\ own'.phase = "idle")
  BY ConstantTypes DEF StructureRefused, Rejoin, NewStructure
<1>3. saving \in BOOLEAN BY <1>1 DEF TypeOK
<1>4. Refreshed(TRUE) \/ Refreshed(FALSE)
  <2>1. Refreshed(saving) BY <1>1, <1>2, <1>3, RefreshTyped
  <2> QED BY <2>1, <1>3
<1>5. store' \in Rev /\ store <= store' /\ store' <= rev
  <2>1. CASE StructureRefused
    <3>1. own.rev \in 0 .. rev BY <1>1, <2>1 DEF NewsSound, StructureRefused
    <3> QED BY <2>1, <3>1, NewestLands DEF StructureRefused
  <2>2. CASE Rejoin BY <1>1, <2>2 DEF Rejoin, TypeOK
  <2>3. ASSUME NEW m \in inbox, NewStructure(m)
        PROVE  store' \in Rev /\ store <= store' /\ store' <= rev
    <3>1. store' = m.rev /\ m.rev > store /\ m.rev \in 0 .. rev
      BY <1>1, <2>3 DEF NewStructure, NewsSound
    <3> QED BY <1>1, <3>1 DEF Rev
  <2> QED BY <2>1, <2>2, <2>3
<1> QED BY <1>2, <1>4, <1>5, RefreshedLands

LEMMA PeerCellsLand ==
  ASSUME LandAll, NEW m \in inbox, PeerCells(m)
  PROVE  LandInv'
<1>1. /\ TypeInv /\ TypeOK /\ NewsSound /\ ScreenSound /\ SentSound /\ EditLandsWhereTyped
      /\ rev \in Nat /\ store \in Int /\ store <= rev /\ NoRev = -1
  BY LandFacts
<1>2. /\ UNCHANGED <<server, loaded, reads, pending, hands, calls, ledger, holes>>
      /\ store' = m.rev /\ (store = NoRev \/ m.rev = store) /\ inbox' \subseteq inbox
  BY DEF PeerCells
<1>3. m.rev \in 0 .. rev /\ Sound(m.rev, m.cell.row, m.pos) /\ m.pos \in Pos
  BY <1>1, MessageFacts DEF PeerCells, NewsSound
<1>4. m.rev \in Nat /\ m.rev <= rev /\ store <= m.rev /\ m.rev # NoRev BY <1>1, <1>2, <1>3
<1>5. \A p \in Pos : grid'[p] = grid[p] \/ (p = m.pos /\ grid'[p] = m.cell)
  <2>1. grid \in [Pos -> Cell] BY <1>1 DEF TypeOK
  <2>2. Merged(grid[m.pos], m.cell) \in {grid[m.pos], m.cell} BY DEF Merged
  <2>3. grid' = grid \/ grid' = [grid EXCEPT ![m.pos] = Merged(grid[m.pos], m.cell)]
    BY DEF PeerCells
  <2> QED BY <2>1, <2>2, <2>3
<1>6. \A aim, p : Sound(store, aim, p) => Sound(m.rev, aim, p)
  <2> SUFFICES ASSUME NEW aim, NEW p, Sound(store, aim, p) PROVE Sound(m.rev, aim, p)
    OBVIOUS
  <2>1. CASE store = m.rev BY <2>1
  <2>2. CASE store = NoRev
    <3>1. aim = NoRow BY <2>2 DEF Sound
    <3> QED BY <1>4, <3>1, SoundNothing
  <2> QED BY <1>2, <2>1, <2>2
<1>7. ~stale /\ ~due => \A p \in Pos : Sound(m.rev, grid'[p].row, p)
  BY <1>1, <1>3, <1>5, <1>6 DEF ScreenSound
<1>8. ~due => \A p \in Pos : queue[p].why = {} => Sound(m.rev, queue[p].aim, p)
  BY <1>1, <1>6 DEF ScreenSound
<1>9. ~due /\ editor # NoTarget /\ editor.why = {} =>
        Sound(m.rev, editor.aim, editor.pos) /\ Sound(editor.seen, editor.aim, editor.pos)
  BY <1>1, <1>6 DEF ScreenSound
<1>10. ScreenSound' BY <1>2, <1>4, <1>7, <1>8, <1>9 DEF ScreenSound, Sound, OnRow
<1>11. HandsSound' BY <1>2, <1>4, HandsKept
<1>12. NewsSound' BY <1>1, <1>2, WithinItself, NewsKept
<1>13. SentSound' BY <1>1, <1>2, SentKept
<1> QED BY <1>1, <1>2, <1>10, <1>11, <1>12, <1>13 DEF LandInv, EditLandsWhereTyped

\* The steps that bring nothing new to the grid, the queue or the batches.
LEMMA IdleLands ==
  ASSUME LandAll,
         \/ DropEdit \/ StructureFails \/ Join \/ Disconnect
         \/ \E m \in inbox : OldNews(m)
         \/ \E p \in Pos : Scroll(p)
         \/ \E k \in session.kinds, p \in Pos : StartStructure(k, p)
         \/ \E x \in reads : ReadFails(x)
  PROVE  LandInv'
<1>1. TypeOK BY LandFacts
<1>2. /\ UNCHANGED <<rows, rev, store, grid, queue, due, stale, bar, undo, save, form, misplaced>>
      /\ editor' \in {editor, NoTarget} /\ inbox' \subseteq inbox
  BY DEF DropEdit, StructureFails, Join, Disconnect, OldNews, Scroll, StartStructure, ReadFails, Fault
<1>3. own' = own \/ own'.phase \in {"idle", "sent"}
  <2>1. ASSUME NEW k, NEW p, StartStructure(k, p) PROVE own'.phase = "sent"
    BY <2>1 DEF StartStructure
  <2>2. StructureFails => own'.phase = "idle" BY ConstantTypes DEF StructureFails
  <2> QED BY <2>1, <2>2 DEF DropEdit, Join, Disconnect, OldNews, Scroll, ReadFails
<1>4. Within(reads', reads)
  <2>1. ASSUME NEW p \in Pos, Scroll(p) PROVE Within(reads', reads)
    BY <1>1, <2>1, AskedType DEF Scroll, TypeOK
  <2>2. ASSUME NEW x \in reads, ReadFails(x) PROVE Within(reads', reads)
    BY <1>1, <2>2, EndedType DEF ReadFails, TypeOK
  <2>3. reads' = reads => Within(reads', reads) BY WithinItself
  <2> QED BY <2>1, <2>2, <2>3
      DEF DropEdit, StructureFails, Join, Disconnect, OldNews, StartStructure
<1> QED BY <1>2, <1>3, <1>4, QuietLands

LEMMA LandStep == LandAll /\ [Next]_vars => LandAll'
<1> SUFFICES ASSUME LandAll, [Next]_vars PROVE LandInv'
  BY TypeStep DEF LandAll
<1>1. CASE Peers BY <1>1, PeersLand
<1>2. CASE Server BY <1>2, ServerLands
<1>3. CASE User
  BY <1>3, HandStepsLand, EditStepsLand, SubmitBarLands, IdleLands DEF User
<1>4. CASE FlushPendingOps BY <1>4, FlushLands
<1>5. CASE Answers
  BY <1>5, SaveAnsweredLands, SaveEndsLand, BarAnsweredLands, BarEndsLand,
     StructureAnsweredLands, HeardRefreshLands, ReadAnsweredLands DEF Answers
<1>6. CASE Faults
  BY <1>6, SaveEndsLand, BarEndsLand, IdleLands DEF Faults
<1>7. CASE Socket
  BY <1>7, IdleLands, HeardRefreshLands, PeerCellsLand DEF Socket
<1>8. CASE UNCHANGED vars
  <2>1. Within(reads', reads) BY <1>8, WithinItself DEF vars
  <2> QED BY <1>8, <2>1, QuietLands DEF vars
<1> QED BY <1>1, <1>2, <1>3, <1>4, <1>5, <1>6, <1>7, <1>8 DEF Next

LEMMA InitLands == Init => LandAll
<1> SUFFICES ASSUME Init PROVE LandInv BY InitTyped DEF LandAll
<1>1. rev = 0 /\ store = NoRev /\ NoRev = -1 BY DEF Init, NoRev
<1>2. NewsSound
  <2>1. \A x \in reads : ~x.done /\ x.rev = NoRev BY DEF Init, FreshRead
  <2> QED BY <2>1, ConstantTypes DEF Init, NewsSound, Told
<1>3. ScreenSound
  <2>1. \A p : Sound(store, NoRow, p) BY <1>1 DEF Sound, OnRow
  <2> QED BY <1>1, <2>1, ConstantTypes DEF Init, ScreenSound
<1>4. HandsSound BY DEF Init, HandsSound
<1>5. SentSound BY ConstantTypes DEF Init, SentSound, Aimed
<1>6. EditLandsWhereTyped BY DEF Init, EditLandsWhereTyped
<1> QED BY <1>2, <1>3, <1>4, <1>5, <1>6 DEF LandInv

\* An edit is written into the row the user saw, or went through one of the
\* ways: nothing else that the socket, the reads, the saves and the refreshes do
\* to the newest revision lets an edit pass under a revision it was not made at.
THEOREM EditLandsWhereTypedHolds == Spec => []EditLandsWhereTyped
<1>1. LandAll => EditLandsWhereTyped BY DEF LandAll, LandInv
<1> QED BY <1>1, InitLands, LandStep, PTL DEF Spec


-------------------------------------------------------------------------------
(* A quiet tab shows what the server has.  First, what holds of the rows and  *)
(* of the cells that are about, whatever the tab has heard of.                *)

LEMMA RestructuredDistinct ==
  ASSUME TypeOK, Sized, Distinct, rev <= MaxRev, NEW kind \in Kinds, NEW p \in Pos,
         rows' = Restructured(kind, p), rev' = rev + 1
  PROVE  Distinct'
<1>1. /\ rows \in Seq(Row) /\ rev \in Nat /\ p \in 1 .. Last
      /\ Len(rows) \in Nat /\ Len(rows) > Last
      /\ Last \in Nat /\ MaxRev \in Nat
  BY SheetAssumption DEF TypeOK, Sized, Pos
<1>2. \A i \in 1 .. Len(rows) : rows[i] \in Row /\ rows[i] \in Nat BY <1>1 DEF Row
<1>3. /\ \A i \in 1 .. Len(rows) : rows[i] < NewRow
      /\ \A i, j \in 1 .. Len(rows) : rows[i] = rows[j] => i = j
  BY <1>1 DEF Distinct
<1>4. NewRow \in Nat /\ NewRow' = NewRow + 1 BY <1>1 DEF NewRow
<1> DEFINE n == Len(rows')
<1>5. SUFFICES /\ DOMAIN rows' \subseteq 1 .. n
               /\ \A i \in 1 .. n : rows'[i] < NewRow'
               /\ \A i, j \in 1 .. n : rows'[i] = rows'[j] => i = j
  BY DEF Distinct
<1>6. CASE kind = "insert"
  <2> DEFINE f(i) == IF i < p THEN rows[i] ELSE IF i = p THEN NewRow ELSE rows[i - 1]
  <2>1. rows' = [i \in 1 .. Len(rows) + 1 |-> f(i)] BY <1>6 DEF Restructured
  <2>2. \A i \in 1 .. Len(rows) + 1 :
          \/ i < p /\ i \in 1 .. Len(rows) /\ f(i) = rows[i]
          \/ i = p /\ f(i) = NewRow
          \/ i > p /\ i - 1 \in 1 .. Len(rows) /\ f(i) = rows[i - 1]
    BY <1>1
  <2>3. DOMAIN rows' = 1 .. Len(rows) + 1 /\ \A i \in 1 .. Len(rows) + 1 : rows'[i] = f(i)
    BY <2>1
  <2>4. n = Len(rows) + 1 BY <1>1, <2>1
  <2> HIDE DEF f
  <2>5. \A i \in 1 .. Len(rows) + 1 : f(i) = NewRow \/ (f(i) \in Nat /\ f(i) < NewRow)
    BY <1>2, <1>3, <2>2
  <2>6. \A i \in 1 .. Len(rows) + 1 : i # p => f(i) < NewRow BY <1>3, <2>2
  <2>7. \A i \in 1 .. Len(rows) + 1 : f(i) < NewRow + 1 BY <1>4, <2>5
  <2>8. \A i, j \in 1 .. Len(rows) + 1 : f(i) = f(j) => i = j
    <3> SUFFICES ASSUME NEW i \in 1 .. Len(rows) + 1, NEW j \in 1 .. Len(rows) + 1, f(i) = f(j)
                 PROVE  i = j
      OBVIOUS
    <3>1. i \in Int /\ j \in Int /\ p \in Int BY <1>1
    <3>2. CASE i = p \/ j = p BY <1>4, <2>2, <2>6, <3>1, <3>2
    <3>3. CASE i < p /\ j < p BY <1>3, <2>2, <3>1, <3>3
    <3>4. CASE i > p /\ j > p
      <4>1. rows[i - 1] = rows[j - 1] /\ i - 1 \in 1 .. Len(rows) /\ j - 1 \in 1 .. Len(rows)
        BY <2>2, <3>1, <3>4
      <4>2. i - 1 = j - 1 BY <1>3, <4>1
      <4> QED BY <3>1, <4>2
    <3>5. CASE i < p /\ j > p
      <4>1. rows[i] = rows[j - 1] /\ i \in 1 .. Len(rows) /\ j - 1 \in 1 .. Len(rows)
        BY <2>2, <3>1, <3>5
      <4>2. i = j - 1 BY <1>3, <4>1
      <4> QED BY <3>1, <3>5, <4>2
    <3>6. CASE i > p /\ j < p
      <4>1. rows[i - 1] = rows[j] /\ i - 1 \in 1 .. Len(rows) /\ j \in 1 .. Len(rows)
        BY <2>2, <3>1, <3>6
      <4>2. i - 1 = j BY <1>3, <4>1
      <4> QED BY <3>1, <3>6, <4>2
    <3> QED BY <3>1, <3>2, <3>3, <3>4, <3>5, <3>6
  <2> QED BY <1>4, <2>3, <2>4, <2>7, <2>8
<1>7. CASE kind = "delete"
  <2> DEFINE f(i) == IF i < p THEN rows[i] ELSE rows[i + 1]
  <2>1. rows' = [i \in 1 .. Len(rows) - 1 |-> f(i)] BY <1>7 DEF Restructured
  <2>2. \A i \in 1 .. Len(rows) - 1 :
          \/ i < p /\ i \in 1 .. Len(rows) /\ f(i) = rows[i]
          \/ i >= p /\ i + 1 \in 1 .. Len(rows) /\ f(i) = rows[i + 1]
    BY <1>1
  <2>3. DOMAIN rows' = 1 .. Len(rows) - 1 /\ \A i \in 1 .. Len(rows) - 1 : rows'[i] = f(i)
    BY <2>1
  <2>4. n = Len(rows) - 1 BY <1>1, <2>1
  <2> HIDE DEF f
  <2>5. \A i \in 1 .. Len(rows) - 1 : f(i) < NewRow + 1 BY <1>2, <1>3, <1>4, <2>2
  <2>6. \A i, j \in 1 .. Len(rows) - 1 : f(i) = f(j) => i = j
    <3> SUFFICES ASSUME NEW i \in 1 .. Len(rows) - 1, NEW j \in 1 .. Len(rows) - 1, f(i) = f(j)
                 PROVE  i = j
      OBVIOUS
    <3>1. i \in Int /\ j \in Int BY <1>1
    <3> QED BY <1>1, <1>3, <2>2, <3>1
  <2> QED BY <1>4, <2>3, <2>4, <2>5, <2>6
<1>8. CASE kind = "sort"
  <2> DEFINE f(i) == rows[Len(rows) + 1 - i]
  <2>1. rows' = [i \in 1 .. Len(rows) |-> f(i)] BY <1>8 DEF Restructured
  <2>2. \A i \in 1 .. Len(rows) : Len(rows) + 1 - i \in 1 .. Len(rows) BY <1>1
  <2>3. DOMAIN rows' = 1 .. Len(rows) /\ \A i \in 1 .. Len(rows) : rows'[i] = f(i)
    BY <2>1
  <2>4. n = Len(rows) BY <1>1, <2>1
  <2>5. \A i \in 1 .. Len(rows) : f(i) < NewRow + 1 BY <1>2, <1>3, <1>4, <2>2
  <2>6. \A i, j \in 1 .. Len(rows) : f(i) = f(j) => i = j
    <3> SUFFICES ASSUME NEW i \in 1 .. Len(rows), NEW j \in 1 .. Len(rows), f(i) = f(j)
                 PROVE  i = j
      OBVIOUS
    <3>1. Len(rows) + 1 - i = Len(rows) + 1 - j BY <1>3, <2>2
    <3> QED BY <1>1, <3>1
  <2> QED BY <1>4, <2>3, <2>4, <2>5, <2>6
<1> QED BY <1>6, <1>7, <1>8 DEF Kinds

LEMMA DistinctStep == TypeInv /\ Distinct /\ [Next]_vars => Distinct'
<1> SUFFICES ASSUME TypeInv, Distinct, [Next]_vars PROVE Distinct' OBVIOUS
<1>1. TypeOK /\ Sized BY DEF TypeInv
<1>2. UNCHANGED <<rows, rev>> => Distinct' BY DEF Distinct, NewRow
<1>3. ASSUME NEW k \in session.kinds, NEW p \in Pos, PeerRestructures(k, p)
      PROVE  Distinct'
  <2>1. /\ rev < session.rev /\ session.rev \in 0 .. MaxRev /\ k \in Kinds
    BY <1>1, <1>3, SessionFacts DEF PeerRestructures
  <2>2. rev <= MaxRev BY <1>1, <2>1, SheetAssumption DEF TypeOK
  <2> QED BY <1>1, <1>3, <2>1, <2>2, RestructuredDistinct DEF PeerRestructures
<1>4. CASE ServeStructure
  <2>1. own \in Change BY <1>1 DEF TypeOK
  <2>2. own.kind \in Kinds /\ own.pos \in Pos BY <2>1 DEF Change
  <2>3. rev <= session.rev /\ session.rev \in 0 .. MaxRev
    BY <1>1, <1>4, SessionFacts DEF TypeInv, OwnFits, ServeStructure
  <2>4. rev <= MaxRev BY <1>1, <2>3, SheetAssumption DEF TypeOK
  <2> QED BY <1>1, <1>2, <1>4, <2>2, <2>4, RestructuredDistinct DEF ServeStructure
<1>5. CASE Peers BY <1>2, <1>3, <1>5 DEF Peers, PeerWrites
<1>6. CASE Server BY <1>2, <1>4, <1>6 DEF Server, ServeFormula, ServeSave, ReadSheet, ServeRead
<1>7. CASE User
  BY <1>2, <1>7 DEF User, Scroll, OpenEditor, Paste, FocusBar, DropEdit, CommitEdit, Undo, SubmitBar,
                    StartStructure
<1>8. CASE FlushPendingOps BY <1>2, <1>8 DEF FlushPendingOps
<1>9. CASE Answers
  BY <1>2, <1>9 DEF Answers, SaveAnswered, SaveRefused, SaveReloaded, BarAnswered, BarWithout, BarReloaded, BarRefused,
                    StructureAnswered, StructureRefused, ReadAnswered
<1>10. CASE Faults
  BY <1>2, <1>10 DEF Faults, SaveFails, BarFails, StructureFails, Disconnect, ReadFails
<1>11. CASE Socket
  BY <1>2, <1>11 DEF Socket, Join, Rejoin, NewStructure, OldNews, PeerCells
<1>12. CASE UNCHANGED vars BY <1>2, <1>12 DEF vars
<1> QED BY <1>5, <1>6, <1>7, <1>8, <1>9, <1>10, <1>11, <1>12 DEF Next


\* Cell c is known to a server whose cells were last written at the times v, and
\* have values as f says.
KnownAt(v, f, c) ==
  IF c.row = NoRow THEN c.ver = 0
  ELSE /\ v[c.row] > 0 /\ c.ver <= v[c.row]
       /\ c.ver = v[c.row] => c.full = f[c.row]

LEMMA KnownBlank == ASSUME NEW v, NEW f PROVE KnownAt(v, f, Blank)
BY ConstantTypes DEF KnownAt, Blank

\* A later server knows what an earlier one did.
LEMMA KnownLater ==
  ASSUME NEW v \in [Row -> Nat], NEW w \in [Row -> Nat], NEW f, NEW g,
         \A r \in Row : v[r] <= w[r] /\ (w[r] = v[r] => g[r] = f[r]),
         NEW c \in Cell, KnownAt(v, f, c)
  PROVE  KnownAt(w, g, c)
<1>1. CASE c.row = NoRow BY <1>1 DEF KnownAt
<1>2. CASE c.row # NoRow
  <2>1. c.row \in Row /\ c.ver \in Nat BY <1>2 DEF Cell
  <2>2. /\ v[c.row] \in Nat /\ w[c.row] \in Nat /\ v[c.row] <= w[c.row]
        /\ w[c.row] = v[c.row] => g[c.row] = f[c.row]
    BY <2>1
  <2>3. /\ v[c.row] > 0 /\ c.ver <= v[c.row]
        /\ c.ver = v[c.row] => c.full = f[c.row]
    BY <1>2 DEF KnownAt
  <2>4. v[c.row] > 0 /\ w[c.row] > 0 /\ c.ver <= w[c.row] BY <2>1, <2>2, <2>3
  <2>5. c.ver = w[c.row] => c.ver = v[c.row] /\ w[c.row] = v[c.row] BY <2>1, <2>2, <2>3
  <2> QED BY <1>2, <2>2, <2>3, <2>4, <2>5 DEF KnownAt
<1> QED BY <1>1, <1>2

LEMMA CellTypes ==
  ASSUME TypeOK
  PROVE  /\ \A p \in Pos : grid[p] \in Cell /\ form.cells[p] \in Cell
         /\ \A p \in Pos, n \in Batches : save[n].cells[p] \in Cell
         /\ \A x \in reads : x.cell \in Cell /\ x.tile \in Pos /\ x.rev \in Rev
         /\ \A m \in inbox : m.kind = "cells" => m.cell \in Cell
         /\ ver \in [Row -> Nat] /\ clock \in Nat
BY MessageFacts DEF TypeOK, Batch, Read

LEMMA KnownKept ==
  ASSUME TypeOK, AllKnown, ver' \in [Row -> Nat],
         \A r \in Row : /\ ver[r] <= ver'[r] /\ ver'[r] <= clock'
                        /\ ver'[r] = ver[r] => full'[r] = full[r]
                        /\ full'[r] => full[r] \/ ver'[r] # ver[r],
         \A p \in Pos : grid'[p] = grid[p] \/ KnownAt(ver', full', grid'[p]),
         \A p \in Pos : form'.cells[p] = form.cells[p] \/ KnownAt(ver', full', form'.cells[p]),
         \A n \in Batches, p \in Pos :
           save'[n].cells[p] = save[n].cells[p] \/ KnownAt(ver', full', save'[n].cells[p]),
         \A x \in reads' : x.done => \/ \E y \in reads : y.done /\ y.cell = x.cell
                                     \/ KnownAt(ver', full', x.cell),
         \A m \in inbox' : m \in inbox \/ (m.kind = "cells" => KnownAt(ver', full', m.cell))
  PROVE  AllKnown'
<1>1. \A c \in Cell : KnownAt(ver, full, c) => KnownAt(ver', full', c)
  <2> SUFFICES ASSUME NEW c \in Cell, KnownAt(ver, full, c) PROVE KnownAt(ver', full', c)
    OBVIOUS
  <2>1. ver \in [Row -> Nat] BY CellTypes
  <2> QED BY <2>1, KnownLater
<1>2. /\ \A p \in Pos : KnownAt(ver, full, grid[p]) /\ KnownAt(ver, full, form.cells[p])
      /\ \A p \in Pos, n \in Batches : KnownAt(ver, full, save[n].cells[p])
      /\ \A x \in reads : x.done => KnownAt(ver, full, x.cell)
      /\ \A m \in inbox : m.kind = "cells" => KnownAt(ver, full, m.cell)
  BY DEF AllKnown, Known, KnownAt
<1>3. \A p \in Pos : KnownAt(ver', full', grid'[p]) /\ KnownAt(ver', full', form'.cells[p])
  BY <1>1, <1>2, CellTypes
<1>4. \A p \in Pos, n \in Batches : KnownAt(ver', full', save'[n].cells[p])
  BY <1>1, <1>2, CellTypes
<1>5. \A x \in reads' : x.done => KnownAt(ver', full', x.cell) BY <1>1, <1>2, CellTypes
<1>6. \A m \in inbox' : m.kind = "cells" => KnownAt(ver', full', m.cell) BY <1>1, <1>2, CellTypes
<1>7. \A r \in Row : ver'[r] <= clock' /\ (full'[r] => ver'[r] > 0)
  <2> SUFFICES ASSUME NEW r \in Row, full'[r] PROVE ver'[r] > 0 OBVIOUS
  <2>1. ver[r] \in Nat /\ ver'[r] \in Nat /\ ver[r] <= ver'[r] BY CellTypes
  <2>2. full[r] => ver[r] > 0 BY DEF AllKnown
  <2> QED BY <2>1, <2>2
<1> QED BY <1>3, <1>4, <1>5, <1>6, <1>7 DEF AllKnown, Known, KnownAt

\* Steps that leave the server's cells alone.
LEMMA KnownQuiet ==
  ASSUME TypeOK, AllKnown, UNCHANGED <<ver, full, clock>>,
         \A p \in Pos : grid'[p] = grid[p] \/ KnownAt(ver, full, grid'[p]),
         \A p \in Pos : form'.cells[p] \in {form.cells[p], Blank},
         \A n \in Batches, p \in Pos : save'[n].cells[p] \in {save[n].cells[p], Blank},
         Within(reads', reads), inbox' \subseteq inbox
  PROVE  AllKnown'
<1>1. ver \in [Row -> Nat] /\ \A r \in Row : ver[r] \in Nat BY DEF TypeOK
<1>2. /\ ver' \in [Row -> Nat]
      /\ \A r \in Row : /\ ver[r] <= ver'[r] /\ ver'[r] <= clock'
                        /\ ver'[r] = ver[r] => full'[r] = full[r]
                        /\ full'[r] => full[r] \/ ver'[r] # ver[r]
  BY <1>1 DEF AllKnown
<1>3. KnownAt(ver', full', Blank) BY KnownBlank
<1>4. \A x \in reads' : x.done => \E y \in reads : y.done /\ y.cell = x.cell BY DEF Within
<1> QED BY <1>2, <1>3, <1>4, KnownKept

\* What the server has at a position that has a value.
LEMMA StoredKnown ==
  ASSUME TypeOK, Sized, AllKnown, NEW p \in Pos
  PROVE  /\ rows[p] \in Row /\ rows[p] # NoRow
         /\ ver[rows[p]] > 0 => KnownAt(ver, full, Stored(p))
         /\ KnownAt(ver, full, Canonical(p))
<1>1. rows[p] \in Row /\ rows[p] # NoRow /\ ver[rows[p]] \in Nat
  BY RowAt DEF TypeOK, Row, NoRow
<1>2. ver[rows[p]] > 0 => KnownAt(ver, full, Stored(p)) BY <1>1 DEF Stored, KnownAt
<1>3. full[rows[p]] => ver[rows[p]] > 0 BY <1>1 DEF AllKnown
<1>4. KnownAt(ver, full, Canonical(p)) BY <1>2, <1>3, KnownBlank DEF Canonical
<1> QED BY <1>1, <1>2, <1>4

\* What a save leaves in the cells of the batches.
LEMMA EndCells ==
  ASSUME TypeOK, NEW n \in Batches, save' = [save EXCEPT ![n] = NoBatch]
  PROVE  \A k \in Batches, p \in Pos : save'[k].cells[p] \in {save[k].cells[p], Blank}
BY DEF TypeOK, NoBatch

LEMMA FormEndCells ==
  ASSUME form' = NoBatch
  PROVE  \A p \in Pos : form'.cells[p] \in {form.cells[p], Blank}
BY DEF NoBatch

\* Two positions show two rows.
LEMMA PositionsDiffer ==
  ASSUME TypeOK, Sized, Distinct, NEW p \in Pos, NEW q \in Pos, rows[p] = rows[q]
  PROVE  p = q
<1>1. /\ rows \in Seq(Row) /\ Pos = 1 .. Last /\ Len(rows) \in Nat
      /\ Len(rows) >= Last + MaxRev + 1 - rev /\ rev \in 0 .. MaxRev + 1
      /\ Last \in Nat /\ MaxRev \in Nat
  BY SheetAssumption DEF TypeOK, Sized, Pos
<1>2. Pos \subseteq DOMAIN rows BY <1>1
<1> QED BY <1>2 DEF Distinct

LEMMA ServeKnown ==
  ASSUME TypeOK, Sized, Distinct, AllKnown, NEW b \in Batch, NEW answer, ServeBatch(b, answer),
         \A p \in Pos : KnownAt(ver, full, b.cells[p])
  PROVE  /\ ver' \in [Row -> Nat]
         /\ \A r \in Row : /\ ver[r] <= ver'[r] /\ ver'[r] <= clock'
                           /\ ver'[r] = ver[r] => full'[r] = full[r]
                           /\ full'[r] => full[r] \/ ver'[r] # ver[r]
         /\ \A p \in Pos : answer.cells[p] = b.cells[p] \/ KnownAt(ver', full', answer.cells[p])
<1>1. ver \in [Row -> Nat] /\ clock \in Nat /\ \A r \in Row : ver[r] <= clock /\ ver[r] \in Nat
  BY DEF TypeOK, AllKnown
<1>2. CASE /\ answer = Done(b) /\ clock' = clock + 1
           /\ ver' = [r \in Row |-> IF \E p \in Written(b) : rows[p] = r THEN clock + 1 ELSE ver[r]]
           /\ full' = [r \in Row |-> IF \E p \in Written(b) : rows[p] = r
                                     THEN \E p \in Written(b) : rows[p] = r /\ ~b.ops[p].clear
                                     ELSE full[r]]
  <2>1. /\ ver' \in [Row -> Nat]
        /\ \A r \in Row : /\ ver[r] <= ver'[r] /\ ver'[r] <= clock'
                          /\ ver'[r] = ver[r] => ~\E p \in Written(b) : rows[p] = r
    BY <1>1, <1>2
  <2>2. \A r \in Row : (~\E p \in Written(b) : rows[p] = r) => full'[r] = full[r] BY <1>2
  <2>3. \A r \in Row : full'[r] => full[r] \/ ver'[r] # ver[r]
    <3> SUFFICES ASSUME NEW r \in Row, ver'[r] = ver[r], full'[r] PROVE full[r] OBVIOUS
    <3> QED BY <2>1, <2>2
  <2>4. \A p \in Pos : answer.cells[p] = IF p \in Written(b)
                                         THEN [row |-> rows[p], ver |-> clock + 1, full |-> ~b.ops[p].clear]
                                         ELSE Blank
    BY <1>2 DEF Done, Batch
  <2>5. ASSUME NEW p \in Written(b)
        PROVE  KnownAt(ver', full', [row |-> rows[p], ver |-> clock + 1, full |-> ~b.ops[p].clear])
    <3>1. p \in Pos /\ rows[p] \in Row /\ rows[p] # NoRow
      BY StoredKnown DEF Written, Submitted
    <3>2. ver'[rows[p]] = clock + 1 BY <1>2, <3>1
    <3>3. full'[rows[p]] = ~b.ops[p].clear
      <4>1. full'[rows[p]] = \E q \in Written(b) : rows[q] = rows[p] /\ ~b.ops[q].clear
        BY <1>2, <3>1
      <4>2. \A q \in Written(b) : rows[q] = rows[p] => q = p
        BY <3>1, PositionsDiffer DEF Written, Submitted
      <4> QED BY <4>1, <4>2
    <3> DEFINE c == [row |-> rows[p], ver |-> clock + 1, full |-> ~b.ops[p].clear]
    <3>4. c.row = rows[p] /\ c.ver = clock + 1 /\ c.full = ~b.ops[p].clear OBVIOUS
    <3> HIDE DEF c
    <3>5. KnownAt(ver', full', c) BY <1>1, <3>1, <3>2, <3>3, <3>4 DEF KnownAt
    <3> QED BY <3>5 DEF c
  <2>6. \A p \in Pos : KnownAt(ver', full', answer.cells[p]) BY <2>4, <2>5, KnownBlank
  <2> QED BY <2>1, <2>2, <2>3, <2>6
<1>3. CASE answer = Refused(b) /\ UNCHANGED <<ver, full, clock>>
  <2>1. answer.cells = b.cells BY <1>3 DEF Refused, Batch
  <2> QED BY <1>1, <1>3, <2>1
<1> QED BY <1>2, <1>3 DEF ServeBatch

LEMMA ServerKnown ==
  ASSUME TypeInv, Distinct, AllKnown, Peers \/ Server
  PROVE  AllKnown'
<1>1. TypeOK /\ Sized /\ (\A r \in Row : ver[r] \in Nat) /\ clock \in Nat
  BY DEF TypeInv, TypeOK
<1>2. ver \in [Row -> Nat] /\ save \in [Batches -> Batch] /\ form \in Batch BY <1>1 DEF TypeOK
<1>3. /\ \A r \in Row : ver[r] <= ver[r] /\ ver[r] <= clock
      /\ \A p \in Pos : KnownAt(ver, full, form.cells[p])
      /\ \A p \in Pos, n \in Batches : KnownAt(ver, full, save[n].cells[p])
  BY <1>1 DEF AllKnown, Known, KnownAt
<1>4. Within(reads, reads) BY WithinItself
<1>5. ASSUME NEW k \in session.kinds, NEW p \in Pos, PeerRestructures(k, p)
      PROVE  AllKnown'
  <2>1. /\ UNCHANGED <<ver, full, clock, screen, save, form>>
        /\ \A m \in inbox' : m \in inbox \/ m.kind = "refresh"
    BY <1>5 DEF PeerRestructures, Broadcast
  <2>2. \A x \in reads' : x.done => \E y \in reads : y.done /\ y.cell = x.cell BY <2>1
  <2>3. \A r \in Row : /\ ver[r] <= ver'[r] /\ ver'[r] <= clock'
                       /\ ver'[r] = ver[r] => full'[r] = full[r]
                       /\ full'[r] => full[r] \/ ver'[r] # ver[r]
    BY <1>1, <1>3, <2>1
  <2> QED BY <1>1, <1>2, <2>1, <2>2, <2>3, KnownKept
<1>6. ASSUME NEW p \in Pos, PeerWrites(p)
      PROVE  AllKnown'
  <2>1. rows[p] \in Row /\ rows[p] # NoRow BY <1>1, StoredKnown
  <2>2. PICK value \in BOOLEAN :
          /\ full' = [full EXCEPT ![rows[p]] = value]
          /\ Broadcast([kind |-> "cells", pos |-> p, rev |-> rev,
                        cell |-> [row |-> rows[p], ver |-> clock + 1, full |-> value]])
    BY <1>6 DEF PeerWrites
  <2>3. /\ UNCHANGED <<screen, save, form>> /\ clock' = clock + 1
        /\ ver' = [ver EXCEPT ![rows[p]] = clock + 1]
    BY <1>6 DEF PeerWrites
  <2>4. \A m \in inbox' : m \in inbox \/ m.cell = [row |-> rows[p], ver |-> clock + 1, full |-> value]
    BY <2>2 DEF Broadcast
  <2>5. full \in [Row -> BOOLEAN] BY <1>1 DEF TypeOK
  <2>6. /\ ver' \in [Row -> Nat] /\ ver'[rows[p]] = clock + 1 /\ full'[rows[p]] = value
        /\ \A r \in Row : /\ ver[r] <= ver'[r] /\ ver'[r] <= clock'
                          /\ r # rows[p] => ver'[r] = ver[r] /\ full'[r] = full[r]
    BY <1>1, <1>2, <1>3, <2>1, <2>2, <2>3, <2>5
  <2>7. \A r \in Row : /\ ver'[r] = ver[r] => full'[r] = full[r]
                       /\ full'[r] => full[r] \/ ver'[r] # ver[r]
    <3>1. ver'[rows[p]] # ver[rows[p]] BY <1>1, <1>3, <2>1, <2>6
    <3> QED BY <2>6, <3>1
  <2>8. KnownAt(ver', full', [row |-> rows[p], ver |-> clock + 1, full |-> value])
    BY <1>1, <2>1, <2>6 DEF KnownAt
  <2>9. \A x \in reads' : x.done => \E y \in reads : y.done /\ y.cell = x.cell BY <2>3
  <2> QED BY <1>1, <2>3, <2>4, <2>6, <2>7, <2>8, <2>9, KnownKept
<1>7. CASE ServeFormula
  <2>1. PICK b : ServeBatch(form, b) /\ form' = b BY <1>7 DEF ServeFormula
  <2>2. UNCHANGED <<inbox, screen, save>> BY <1>7 DEF ServeFormula
  <2>3. \A x \in reads' : x.done => \E y \in reads : y.done /\ y.cell = x.cell BY <2>2
  <2>4. /\ ver' \in [Row -> Nat]
        /\ \A r \in Row : /\ ver[r] <= ver'[r] /\ ver'[r] <= clock'
                          /\ ver'[r] = ver[r] => full'[r] = full[r]
                          /\ full'[r] => full[r] \/ ver'[r] # ver[r]
        /\ \A p \in Pos : b.cells[p] = form.cells[p] \/ KnownAt(ver', full', b.cells[p])
    BY <1>1, <1>2, <1>3, <2>1, ServeKnown
  <2> QED BY <1>1, <2>1, <2>2, <2>3, <2>4, KnownKept
<1>8. ASSUME NEW n \in Batches, ServeSave(n)
      PROVE  AllKnown'
  <2>1. PICK b : ServeBatch(save[n], b) /\ save' = [save EXCEPT ![n] = b] BY <1>8 DEF ServeSave
  <2>2. UNCHANGED <<inbox, screen, form>> BY <1>8 DEF ServeSave
  <2>3. \A x \in reads' : x.done => \E y \in reads : y.done /\ y.cell = x.cell BY <2>2
  <2>4. \A k \in Batches : save'[k] = IF k = n THEN b ELSE save[k] BY <1>2, <2>1
  <2>5. /\ ver' \in [Row -> Nat]
        /\ \A r \in Row : /\ ver[r] <= ver'[r] /\ ver'[r] <= clock'
                          /\ ver'[r] = ver[r] => full'[r] = full[r]
                          /\ full'[r] => full[r] \/ ver'[r] # ver[r]
        /\ \A p \in Pos : b.cells[p] = save[n].cells[p] \/ KnownAt(ver', full', b.cells[p])
    BY <1>1, <1>2, <1>3, <2>1, ServeKnown
  <2> QED BY <1>1, <2>2, <2>3, <2>4, <2>5, KnownKept
<1>9. CASE ServeStructure
  <2>1. UNCHANGED <<ver, full, clock, inbox, screen, save, form>> BY <1>9 DEF ServeStructure
  <2> QED BY <1>1, <1>4, <2>1, KnownQuiet
<1>10. ASSUME NEW x \in reads, ReadSheet(x) \/ ServeRead(x)
       PROVE  AllKnown'
  <2>1. UNCHANGED <<ver, full, clock, inbox, grid, save, form>> BY <1>10 DEF ReadSheet, ServeRead
  <2>2. x \in Read /\ x.tile \in Pos BY <1>1 DEF TypeOK, Read
  <2>3. \A z \in reads' : z.done => z \in reads \/ z.cell = Canonical(x.tile)
    BY <1>10, <2>2 DEF ReadSheet, ServeRead, Read
  <2>4. KnownAt(ver', full', Canonical(x.tile)) BY <1>1, <2>1, <2>2, StoredKnown
  <2>5. \A r \in Row : /\ ver[r] <= ver'[r] /\ ver'[r] <= clock'
                       /\ ver'[r] = ver[r] => full'[r] = full[r]
                       /\ full'[r] => full[r] \/ ver'[r] # ver[r]
    BY <1>1, <1>3, <2>1
  <2> QED BY <1>1, <1>2, <2>1, <2>3, <2>4, <2>5, KnownKept
<1> QED BY <1>5, <1>6, <1>7, <1>8, <1>9, <1>10 DEF Peers, Server

LEMMA UserKnown ==
  ASSUME TypeInv, AllKnown, User \/ FlushPendingOps
  PROVE  AllKnown'
<1>1. TypeOK BY DEF TypeInv
<1>2. UNCHANGED <<ver, full, clock, inbox>> /\ (\/ reads' = reads
                                         \/ \E p \in Pos : reads' = Asked(reads, {p}, {}))
  BY DEF User, FlushPendingOps, Scroll, OpenEditor, Paste, FocusBar, DropEdit, CommitEdit, Undo,
         SubmitBar, StartStructure, SetCellValue
<1>3. Within(reads', reads) BY <1>1, <1>2, WithinItself, AskedType DEF TypeOK
<1>4. \A p \in Pos : grid'[p] = grid[p] \/ KnownAt(ver, full, grid'[p])
  <2>1. \/ grid' = grid
        \/ \E p \in Pos, f \in BOOLEAN : grid' = [grid EXCEPT ![p].ver = 0, ![p].full = f]
        \/ CommitEdit \/ Undo \/ \E p \in Pos : Paste(p)
    BY DEF User, FlushPendingOps, Scroll, OpenEditor, FocusBar, DropEdit, SubmitBar, StartStructure
  <2>2. ASSUME NEW p \in Pos, NEW aim, NEW why, SetCellValue(p, aim, why)
        PROVE  \E f \in BOOLEAN : grid' = [grid EXCEPT ![p].ver = 0, ![p].full = f]
    <3>1. PICK clear \in BOOLEAN : grid' = [grid EXCEPT ![p].ver = 0, ![p].full = ~clear]
      BY <2>2 DEF SetCellValue
    <3>2. (~clear) \in BOOLEAN OBVIOUS
    <3> QED BY <3>1, <3>2
  <2>3. CommitEdit \/ Undo \/ (\E p \in Pos : Paste(p))
          => \E p \in Pos, f \in BOOLEAN : grid' = [grid EXCEPT ![p].ver = 0, ![p].full = f]
    BY <2>2 DEF CommitEdit, Undo, Paste, TypeInv, AllPlaced
  <2>4. ASSUME NEW p \in Pos, NEW f \in BOOLEAN, grid' = [grid EXCEPT ![p].ver = 0, ![p].full = f]
        PROVE  \A q \in Pos : grid'[q] = grid[q] \/ KnownAt(ver, full, grid'[q])
    <3>1. grid[p] \in Cell /\ grid \in [Pos -> Cell] BY <1>1 DEF TypeOK
    <3>2. /\ \A q \in Pos \ {p} : grid'[q] = grid[q]
          /\ grid'[p] = [grid[p] EXCEPT !.ver = 0, !.full = f]
      BY <2>4, <3>1
    <3>3. grid'[p].row = grid[p].row /\ grid'[p].ver = 0 BY <3>1, <3>2 DEF Cell
    <3>4. KnownAt(ver, full, grid[p]) BY DEF AllKnown, Known, KnownAt
    <3>5. CASE grid[p].row = NoRow
      <4>1. KnownAt(ver, full, grid'[p]) BY <3>3, <3>5 DEF KnownAt
      <4> QED BY <3>2, <4>1
    <3>6. CASE grid[p].row # NoRow
      <4>1. grid[p].row \in Row BY <3>1, <3>6 DEF Cell
      <4>2. ver[grid[p].row] \in Nat /\ ver[grid[p].row] > 0
        BY <1>1, <3>4, <3>6, <4>1 DEF KnownAt, TypeOK
      <4>3. /\ grid'[p].row # NoRow /\ ver[grid'[p].row] > 0
            /\ grid'[p].ver <= ver[grid'[p].row] /\ grid'[p].ver # ver[grid'[p].row]
        BY <3>3, <3>6, <4>2
      <4>4. KnownAt(ver, full, grid'[p]) BY <4>3 DEF KnownAt
      <4> QED BY <3>2, <4>4
    <3> QED BY <3>5, <3>6
  <2> QED BY <2>1, <2>3, <2>4
<1>5. \A p \in Pos : form'.cells[p] \in {form.cells[p], Blank}
  <2>1. form' = form \/ SubmitBar
    BY DEF User, FlushPendingOps, Scroll, OpenEditor, Paste, FocusBar, DropEdit, CommitEdit, Undo,
           StartStructure
  <2>2. SubmitBar => form'.cells = NoBatch.cells BY DEF SubmitBar, NoBatch
  <2> QED BY <2>1, <2>2 DEF NoBatch
<1>6. \A n \in Batches, p \in Pos : save'[n].cells[p] \in {save[n].cells[p], Blank}
  <2>1. save' = save \/ FlushPendingOps
    BY DEF User, Scroll, OpenEditor, Paste, FocusBar, DropEdit, CommitEdit, Undo, SubmitBar,
           StartStructure
  <2>2. ASSUME FlushPendingOps
        PROVE  \A n \in Batches : save'[n] = save[n] \/ save'[n].cells = NoBatch.cells
    <3>1. save \in [Batches -> Batch] BY <1>1 DEF TypeOK
    <3> QED BY <2>2, <3>1 DEF FlushPendingOps, NoBatch
  <2> QED BY <2>1, <2>2 DEF NoBatch
<1> QED BY <1>1, <1>2, <1>3, <1>4, <1>5, <1>6, KnownQuiet


\* What comes into the grid is known when the grid and the answer are.
LEMMA MergedKnown ==
  ASSUME NEW old, NEW new, KnownAt(ver, full, old), KnownAt(ver, full, new)
  PROVE  KnownAt(ver, full, Merged(old, new))
<1>1. Merged(old, new) \in {old, new} BY DEF Merged
<1> QED BY <1>1

LEMMA RefreshKnown ==
  ASSUME TypeOK, NEW busy \in BOOLEAN, RefreshSheet(busy)
  PROVE  /\ \A p \in Pos : grid'[p] = grid[p] \/ KnownAt(ver, full, grid'[p])
         /\ Within(reads', reads)
<1>1. Refreshed(busy) BY RefreshTyped
<1>2. grid' = grid \/ grid' = [p \in Pos |-> Blank] BY <1>1 DEF Refreshed
<1> QED BY <1>1, <1>2, KnownBlank DEF Refreshed, ScreenTyped

LEMMA StopKnown ==
  ASSUME TypeOK, NEW lost \in BOOLEAN, StopSaving(lost)
  PROVE  /\ \A p \in Pos : grid'[p] = grid[p] \/ KnownAt(ver, full, grid'[p])
         /\ Within(reads', reads)
<1>1. CASE due BY <1>1, RefreshKnown DEF StopSaving
<1>2. CASE ~due BY <1>2, WithinItself DEF StopSaving
<1> QED BY <1>1, <1>2

LEMMA AnswersKnown ==
  ASSUME TypeInv, AllKnown, Answers
  PROVE  AllKnown'
<1>1. TypeOK /\ saving \in BOOLEAN BY DEF TypeInv, TypeOK
<1>2. /\ \A p \in Pos : KnownAt(ver, full, grid[p]) /\ KnownAt(ver, full, form.cells[p])
      /\ \A p \in Pos, n \in Batches : KnownAt(ver, full, save[n].cells[p])
      /\ \A x \in reads : x.done => KnownAt(ver, full, x.cell)
  BY DEF AllKnown, Known, KnownAt
<1>3. /\ grid \in [Pos -> Cell] /\ reads \in SUBSET Read /\ save \in [Batches -> Batch]
      /\ form \in Batch
  BY <1>1 DEF TypeOK
<1>4. ASSUME NEW n \in Batches, SaveAnswered(n)
      PROVE  AllKnown'
  <2>1. /\ UNCHANGED <<ver, full, clock, inbox, form>>
        /\ \A p \in Pos : grid'[p] \in {grid[p], save[n].cells[p]}
        /\ reads' = Asked(reads, Submitted(save[n]), {n})
        /\ save' = [save EXCEPT ![n].phase = "reload"]
    BY <1>4 DEF SaveAnswered, Applied
  <2>2. Submitted(save[n]) \subseteq Pos BY DEF Submitted
  <2>6. {n} \in SUBSET Tags BY DEF Tags
  <2>3. Within(reads', reads) BY <1>3, <2>1, <2>2, <2>6, AskedType
  <2>4. \A k \in Batches, p \in Pos : save'[k].cells[p] = save[k].cells[p] BY <1>3, <2>1 DEF Batch
  <2>5. \A p \in Pos : grid'[p] = grid[p] \/ KnownAt(ver, full, grid'[p]) BY <1>2, <2>1
  <2> QED BY <1>1, <2>1, <2>3, <2>4, <2>5, KnownQuiet
<1>5. ASSUME NEW n \in Batches, SaveRefused(n) \/ SaveReloaded(n)
      PROVE  AllKnown'
  <2>1. UNCHANGED <<ver, full, clock, inbox, form>> /\ save' = [save EXCEPT ![n] = NoBatch]
    BY <1>5 DEF SaveRefused, SaveReloaded
  <2>2. RefreshSheet(FALSE) \/ StopSaving(FALSE)
    BY <1>5 DEF SaveRefused, SaveReloaded, ConflictWhileSaving
  <2> QED BY <1>1, <2>1, <2>2, EndCells, RefreshKnown, StopKnown, KnownQuiet
<1>6. CASE BarAnswered \/ BarWithout
  <2>1. /\ UNCHANGED <<ver, full, clock, inbox, save>> /\ form.phase = "ok"
        /\ \A p \in Pos : form'.cells[p] \in {form.cells[p], Blank}
    BY <1>3, <1>6, FormEndCells DEF BarAnswered, BarWithout, Batch
  <2>2. CASE due /\ BarAnswered
    <3>1. RefreshSheet(FALSE) BY <2>2 DEF BarAnswered
    <3> QED BY <1>1, <2>1, <3>1, RefreshKnown, KnownQuiet
  <2>3. CASE BarWithout \/ (~due /\ BarAnswered)
    <3>1. grid' = [grid EXCEPT ![BarPos] = Applied(grid[BarPos], form.cells[BarPos])]
      BY <2>3 DEF BarAnswered, BarWithout, BarShows
    <3>2. BarPos \in Pos BY <2>1, BarPosFacts
    <3>3. \A p \in Pos : grid'[p] = grid[p] \/ KnownAt(ver, full, grid'[p])
      <4>1. Applied(grid[BarPos], form.cells[BarPos]) \in {grid[BarPos], form.cells[BarPos]}
        BY DEF Applied
      <4> QED BY <1>2, <1>3, <3>1, <3>2, <4>1
    <3>4. Within(reads', reads)
      <4>1. {BarPos} \in SUBSET Pos /\ {"bar"} \in SUBSET Tags BY <3>2 DEF Tags
      <4>2. reads' = reads \/ reads' = Asked(reads, {BarPos}, {"bar"})
        BY <2>3 DEF BarAnswered, BarWithout
      <4> QED BY <1>3, <4>1, <4>2, WithinItself, AskedType
    <3> QED BY <1>1, <2>1, <3>3, <3>4, KnownQuiet
  <2> QED BY <1>6, <2>2, <2>3
<1>11. CASE BarReloaded
  <2>1. UNCHANGED <<ver, full, clock, inbox, save>> /\ form' = NoBatch /\ StopSaving(FALSE)
    BY <1>11 DEF BarReloaded
  <2> QED BY <1>1, <2>1, FormEndCells, StopKnown, KnownQuiet
<1>7. CASE BarRefused
  <2>1. UNCHANGED <<ver, full, clock, inbox, save>> /\ form' = NoBatch /\ RefreshSheet(FALSE)
    BY <1>7 DEF BarRefused, ConflictWhileSaving
  <2> QED BY <1>1, <2>1, FormEndCells, RefreshKnown, KnownQuiet
<1>8. CASE StructureAnswered
  <2>1. UNCHANGED <<ver, full, clock, inbox, save, form>> /\ ResetScreen({})
    BY <1>8 DEF StructureAnswered
  <2>4. {} \in SUBSET Tags OBVIOUS
  <2>2. Within(reads', reads) BY <1>1, <2>1, <2>4, ResetTyped DEF ScreenTyped
  <2>3. \A p \in Pos : KnownAt(ver, full, grid'[p]) BY <2>1, KnownBlank DEF ResetScreen
  <2> QED BY <1>1, <2>1, <2>2, <2>3, KnownQuiet
<1>9. CASE StructureRefused
  <2>1. UNCHANGED <<ver, full, clock, inbox, save, form>> /\ RefreshSheet(saving)
    BY <1>9 DEF StructureRefused
  <2> QED BY <1>1, <2>1, RefreshKnown, KnownQuiet
<1>10. ASSUME NEW x \in reads, ReadAnswered(x)
       PROVE  AllKnown'
  <2>1. UNCHANGED <<ver, full, clock, inbox, save, form>> /\ reads' = Ended(reads, x) /\ x.done
        /\ (grid' = grid \/ grid' = [grid EXCEPT ![x.tile] = Merged(grid[x.tile], x.cell)])
    BY <1>10 DEF ReadAnswered
  <2>2. Within(reads', reads) BY <1>3, <2>1, EndedType
  <2>3. KnownAt(ver, full, Merged(grid[x.tile], x.cell)) BY <1>1, <1>2, <2>1, CellTypes, MergedKnown
  <2>4. \A p \in Pos : grid'[p] = grid[p] \/ KnownAt(ver, full, grid'[p]) BY <1>3, <2>1, <2>3
  <2> QED BY <1>1, <2>1, <2>2, <2>4, KnownQuiet
<1> QED BY <1>4, <1>5, <1>6, <1>7, <1>8, <1>9, <1>10, <1>11 DEF Answers

LEMMA EventsKnown ==
  ASSUME TypeInv, AllKnown, Faults \/ Socket
  PROVE  AllKnown'
<1>1. TypeOK /\ saving \in BOOLEAN BY DEF TypeInv, TypeOK
<1>2. /\ \A p \in Pos : KnownAt(ver, full, grid[p])
      /\ \A m \in inbox : m.kind = "cells" => KnownAt(ver, full, m.cell)
  BY DEF AllKnown, Known, KnownAt
<1>3. grid \in [Pos -> Cell] /\ reads \in SUBSET Read BY <1>1 DEF TypeOK
<1>4. ASSUME NEW n \in Batches, SaveFails(n)
      PROVE  AllKnown'
  <2>1. /\ UNCHANGED <<ver, full, clock, inbox, form>> /\ save' = [save EXCEPT ![n] = NoBatch]
        /\ \E lost \in BOOLEAN : StopSaving(lost)
    BY <1>4 DEF SaveFails
  <2> QED BY <1>1, <2>1, EndCells, StopKnown, KnownQuiet
<1>5. CASE BarFails
  <2>1. /\ UNCHANGED <<ver, full, clock, inbox, save>> /\ form' = NoBatch
        /\ \E lost \in BOOLEAN : StopSaving(lost)
    BY <1>5 DEF BarFails
  <2> QED BY <1>1, <2>1, FormEndCells, StopKnown, KnownQuiet
<1>6. CASE StructureFails \/ Disconnect \/ Join \/ \E m \in inbox : OldNews(m)
  <2>1. UNCHANGED <<ver, full, clock, grid, reads, save, form>> /\ inbox' \subseteq inbox
    BY <1>6 DEF StructureFails, Disconnect, Join, OldNews
  <2> QED BY <1>1, <2>1, WithinItself, KnownQuiet
<1>7. ASSUME NEW x \in reads, ReadFails(x)
      PROVE  AllKnown'
  <2>1. UNCHANGED <<ver, full, clock, grid, inbox, save, form>> /\ reads' = Ended(reads, x)
    BY <1>7 DEF ReadFails
  <2> QED BY <1>1, <1>3, <2>1, EndedType, KnownQuiet
<1>8. CASE Rejoin \/ \E m \in inbox : NewStructure(m)
  <2>1. UNCHANGED <<ver, full, clock, save, form>> /\ RefreshSheet(saving) /\ inbox' \subseteq inbox
    BY <1>8 DEF Rejoin, NewStructure
  <2> QED BY <1>1, <2>1, RefreshKnown, KnownQuiet
<1>9. ASSUME NEW m \in inbox, PeerCells(m)
      PROVE  AllKnown'
  <2>1. /\ UNCHANGED <<ver, full, clock, reads, save, form>> /\ inbox' \subseteq inbox /\ m.kind = "cells"
        /\ (grid' = grid \/ grid' = [grid EXCEPT ![m.pos] = Merged(grid[m.pos], m.cell)])
    BY <1>9 DEF PeerCells
  <2>2. m.pos \in Pos BY <1>1, <2>1, MessageFacts
  <2>3. KnownAt(ver, full, Merged(grid[m.pos], m.cell)) BY <1>2, <2>1, <2>2, MergedKnown
  <2>4. \A p \in Pos : grid'[p] = grid[p] \/ KnownAt(ver, full, grid'[p]) BY <1>3, <2>1, <2>2, <2>3
  <2> QED BY <1>1, <2>1, <2>4, WithinItself, KnownQuiet
<1> QED BY <1>4, <1>5, <1>6, <1>7, <1>8, <1>9 DEF Faults, Socket

\* The tab has seen no write that the server has not made.
LEMMA KnownStep == TypeInv /\ Distinct /\ AllKnown /\ [Next]_vars => AllKnown'
<1> SUFFICES ASSUME TypeInv, Distinct, AllKnown, [Next]_vars PROVE AllKnown' OBVIOUS
<1>1. CASE UNCHANGED vars
  <2>1. TypeOK BY DEF TypeInv
  <2> QED BY <1>1, <2>1, WithinItself, KnownQuiet DEF vars
<1> QED BY <1>1, ServerKnown, UserKnown, AnswersKnown, EventsKnown DEF Next


-------------------------------------------------------------------------------
(* Then, what is shown and what is coming.                                   *)

ConvAll == LandAll /\ ConvergeInv

\* What has to be shown of every step that changes the screen or what comes to it.
ScreenInv == WillHear /\ TypedIsQueued /\ Agrees

LEMMA ConvFacts ==
  ASSUME ConvAll
  PROVE  /\ LandAll /\ TypeInv /\ TypeOK /\ Sized /\ NewsSound /\ ScreenSound
         /\ Distinct /\ AllKnown /\ WillHear /\ TypedIsQueued /\ Agrees /\ NewsStand
         /\ rev \in Nat /\ store \in Int /\ store <= rev /\ NoRev = -1 /\ NoRev <= store
BY LandFacts DEF ConvAll, ConvergeInv

LEMMA KnownFacts ==
  ASSUME ConvAll
  PROVE  /\ \A p \in Pos : KnownAt(ver, full, grid[p]) /\ KnownAt(ver, full, form.cells[p])
         /\ \A x \in reads : x.done => KnownAt(ver, full, x.cell)
         /\ \A m \in inbox : m.kind = "cells" => KnownAt(ver, full, m.cell)
BY ConvFacts DEF AllKnown, Known, KnownAt

\* A cell that is known, of position p at the newest structure, is no newer than
\* the server's, and the server's own if it is as new.
LEMMA StoredIs ==
  ASSUME TypeOK, Sized, NEW p \in Pos, NEW c \in Cell, KnownAt(ver, full, c),
         c.row \in {NoRow, rows[p]}
  PROVE  /\ c.ver \in Nat /\ Stored(p).ver \in Nat /\ c.ver <= Stored(p).ver
         /\ Stored(p).ver > 0 /\ c.ver = Stored(p).ver => c = Stored(p)
         /\ c = Stored(p) => Stored(p).ver > 0 /\ c # Blank
<1>1. /\ rows[p] \in Row /\ rows[p] # NoRow /\ ver[rows[p]] \in Nat /\ c.ver \in Nat
      /\ c = [row |-> c.row, ver |-> c.ver, full |-> c.full]
  BY RowAt DEF Cell, Row, NoRow
<1>2. Stored(p).ver = ver[rows[p]] /\ Stored(p).row = rows[p] BY DEF Stored
<1>3. CASE c.row = NoRow
  <2>1. c.ver = 0 /\ c # Stored(p) BY <1>1, <1>2, <1>3 DEF KnownAt
  <2> QED BY <1>1, <1>2, <2>1
<1>4. CASE c.row = rows[p]
  <2>1. /\ ver[rows[p]] > 0 /\ c.ver <= ver[rows[p]]
        /\ c.ver = ver[rows[p]] => c.full = full[rows[p]]
    BY <1>1, <1>4 DEF KnownAt
  <2>2. c.ver = ver[rows[p]] => c = Stored(p) BY <1>1, <1>4, <2>1 DEF Stored
  <2>3. c # Blank BY <1>1, <1>4, ConstantTypes
  <2> QED BY <1>1, <1>2, <2>1, <2>2, <2>3
<1> QED BY <1>3, <1>4

\* The server's own cell outlives a merge, whichever side it is on.
LEMMA MergeStored ==
  ASSUME TypeOK, Sized, NEW p \in Pos, NEW old \in Cell, NEW new \in Cell,
         KnownAt(ver, full, old), KnownAt(ver, full, new),
         old.row \in {NoRow, rows[p]}, new.row \in {NoRow, rows[p]},
         old = Stored(p) \/ new = Stored(p)
  PROVE  Merged(old, new) = Stored(p)
<1>1. /\ old.ver \in Nat /\ new.ver \in Nat /\ Stored(p).ver \in Nat
      /\ old.ver <= Stored(p).ver /\ new.ver <= Stored(p).ver
      /\ Stored(p).ver > 0 /\ new.ver = Stored(p).ver => new = Stored(p)
      /\ old = Stored(p) => Stored(p).ver > 0
      /\ new = Stored(p) => new # Blank
  BY StoredIs
<1>2. CASE old = Stored(p)
  <2>1. CASE new = Blank \/ (old.ver > 0 /\ new.ver < old.ver) BY <1>2, <2>1 DEF Merged
  <2>2. CASE ~(new = Blank \/ (old.ver > 0 /\ new.ver < old.ver))
    <3>1. Merged(old, new) = new BY <2>2 DEF Merged
    <3>2. new.ver = Stored(p).ver BY <1>1, <1>2, <2>2
    <3> QED BY <1>1, <1>2, <3>1, <3>2
  <2> QED BY <2>1, <2>2
<1>3. CASE new = Stored(p)
  <2>1. ~(new = Blank \/ (old.ver > 0 /\ new.ver < old.ver)) BY <1>1, <1>3
  <2> QED BY <1>3, <2>1 DEF Merged
<1> QED BY <1>2, <1>3

\* A cell as the server has it has the server's value, or none.
LEMMA StoredSays ==
  ASSUME NEW p
  PROVE  /\ Stored(p).full = full[rows[p]]
         /\ grid[p] = Stored(p) => Shows(p)
         /\ grid[p] = Blank /\ ~full[rows[p]] => Shows(p)
         /\ Shows(p) /\ full[rows[p]] => grid[p] = Stored(p)
         /\ Shows(p) /\ ~full[rows[p]] => ~grid[p].full
         /\ ~grid[p].full /\ ~full[rows[p]] => Shows(p)
<1>1. Stored(p).full = full[rows[p]] BY DEF Stored
<1>2. ~Blank.full BY ConstantTypes
<1> QED BY <1>1, <1>2 DEF Shows

\* At the newest structure, or before any is known, nothing of another row is shown.
LEMMA ShownRows ==
  ASSUME ConvAll, UpToDate, ~stale, store = rev \/ store = NoRev, NEW p \in Pos
  PROVE  grid[p].row \in {NoRow, rows[p]}
<1>1. ~due /\ ScreenSound BY ConvFacts DEF UpToDate
<1>2. CASE store = rev BY <1>1, <1>2 DEF ScreenSound, Sound, OnRow
<1>3. CASE store = NoRev BY <1>1, <1>3 DEF ScreenSound
<1> QED BY <1>2, <1>3

LEMMA ReadKinds ==
  ASSUME ConvAll, NEW x \in reads
  PROVE  /\ x.done \in BOOLEAN /\ x.current \in BOOLEAN /\ x.tile \in Pos /\ x.cell \in Cell
         /\ x.rev \in Int
         /\ x.rev # NoRev => x.rev \in Nat /\ x.rev <= rev
         /\ x.done => x.rev # NoRev
         /\ x.done /\ x.rev = rev => x.cell.row \in {NoRow, rows[x.tile]}
<1>1. TypeOK /\ NewsSound /\ rev \in Nat BY ConvFacts
<1>2. x \in Read BY <1>1 DEF TypeOK
<1>3. /\ x.done \in BOOLEAN /\ x.current \in BOOLEAN /\ x.tile \in Pos /\ x.cell \in Cell
      /\ x.rev \in Int
  BY <1>2 DEF Read, Rev, NoRev
<1>4. /\ x.rev # NoRev => x.rev \in 0 .. rev
      /\ x.done => x.rev # NoRev /\ Sound(x.rev, x.cell.row, x.tile)
  BY <1>1 DEF NewsSound
<1> QED BY <1>1, <1>3, <1>4 DEF Sound, OnRow

LEMMA HearKept ==
  ASSUME ConvAll, rev' = rev, store' \in Int, store <= store', Within(reads', reads),
         store' = NoRev => loaded' = {},
         UpToDate' => UpToDate /\ (store < rev /\ NewsComing => NewsComing'),
         UpToDate' /\ store < rev /\ loaded' # {} =>
           loaded # {} \/ \E x \in reads : x.current /\ x.rev # NoRev /\ x.rev < rev
  PROVE  WillHear'
<1>1. WillHear /\ rev \in Nat /\ store \in Int BY ConvFacts
<1>2. SUFFICES ASSUME UpToDate', store' < rev,
                      loaded' # {} \/ \E x \in reads' : x.current /\ x.rev # NoRev /\ x.rev < rev
               PROVE  NewsComing'
  BY DEF WillHear
<1>3. store < rev BY <1>1, <1>2
<1>4. (\E x \in reads' : x.current /\ x.rev # NoRev /\ x.rev < rev)
        => \E x \in reads : x.current /\ x.rev # NoRev /\ x.rev < rev
  BY DEF Within
<1>5. loaded # {} \/ \E x \in reads : x.current /\ x.rev # NoRev /\ x.rev < rev
  BY <1>2, <1>3, <1>4
<1> QED BY <1>1, <1>2, <1>3, <1>5 DEF WillHear

\* What Agrees says something of.
Vouched(p) == p \in loaded \/ ~full[rows[p]]

\* What was on its way to position p still is, or has come; and what was shown is.
Carried(p) ==
  \/ Coming(p)'
  \/ /\ Stored(p)' = Stored(p)
     /\ Coming(p) \/ (store = rev /\ grid[p] = Stored(p)) => store' = rev /\ grid'[p] = Stored(p)
     /\ store = rev /\ Shows(p) => Shows(p)'

LEMMA StoredSame ==
  ASSUME NEW p, Stored(p)' = Stored(p)
  PROVE  /\ full'[rows'[p]] = full[rows[p]]
         /\ Canonical(p)' = Canonical(p)
         /\ grid'[p] = Stored(p) => Shows(p)'
<1>1. Stored(p).full = full[rows[p]] /\ Stored(p)'.full = full'[rows'[p]] BY DEF Stored
<1>2. full'[rows'[p]] = full[rows[p]] BY <1>1
<1>3. Canonical(p)' = Canonical(p) BY <1>2 DEF Canonical
<1>4. grid'[p] = Stored(p) => Shows(p)' BY <1>1, <1>2 DEF Shows
<1> QED BY <1>2, <1>3, <1>4

LEMMA AgreesKept ==
  ASSUME ConvAll, rev' = rev, Within(reads', reads),
         UpToDate' /\ ~stale' /\ ~covered' =>
           /\ UpToDate /\ ~stale /\ ~covered
           /\ store' = rev => \A p \in Pos : Vouched(p)' => \/ Vouched(p) /\ store = rev /\ Carried(p)
                                                            \/ Shows(p)' \/ Coming(p)'
           /\ \A x \in reads' : x.current /\ x.done /\ x.rev = rev => Carried(x.tile)
  PROVE  Agrees'
<1>1. Agrees BY ConvFacts
<1>2. SUFFICES ASSUME UpToDate', ~stale', ~covered'
               PROVE  /\ store' = rev => \A p \in Pos : Vouched(p)' => Shows(p)' \/ Coming(p)'
                      /\ \A x \in reads' : x.current /\ x.done /\ x.rev = rev =>
                           \/ x.cell = Canonical(x.tile)' \/ Coming(x.tile)'
                           \/ store' = rev /\ grid'[x.tile] = Stored(x.tile)'
  BY DEF Agrees, Vouched
<1>3. /\ UpToDate /\ ~stale /\ ~covered
      /\ store = rev => \A p \in Pos : Vouched(p) => Shows(p) \/ Coming(p)
      /\ \A x \in reads : x.current /\ x.done /\ x.rev = rev =>
           \/ x.cell = Canonical(x.tile) \/ Coming(x.tile)
           \/ store = rev /\ grid[x.tile] = Stored(x.tile)
  BY <1>1, <1>2 DEF Agrees, Vouched
<1>4. ASSUME store' = rev, NEW p \in Pos, Vouched(p)'
      PROVE  Shows(p)' \/ Coming(p)'
  <2>1. CASE Vouched(p) /\ store = rev /\ Carried(p)
    <3>1. Shows(p) \/ Coming(p) BY <1>3, <2>1
    <3>2. CASE ~Coming(p)'
      <4>1. /\ Stored(p)' = Stored(p)
            /\ Coming(p) => grid'[p] = Stored(p)
            /\ Shows(p) => Shows(p)'
        BY <2>1, <3>2 DEF Carried
      <4> QED BY <3>1, <4>1, StoredSame
    <3> QED BY <3>2
  <2> QED BY <1>2, <1>4, <2>1
<1>5. ASSUME NEW x \in reads', x.current, x.done, x.rev = rev
      PROVE  \/ x.cell = Canonical(x.tile)' \/ Coming(x.tile)'
             \/ store' = rev /\ grid'[x.tile] = Stored(x.tile)'
  <2>1. PICK y \in reads : y.done /\ y.rev = x.rev /\ y.cell = x.cell /\ y.tile = x.tile /\ y.current
    BY <1>5 DEF Within
  <2>2. \/ x.cell = Canonical(x.tile) \/ Coming(x.tile)
        \/ store = rev /\ grid[x.tile] = Stored(x.tile)
    BY <1>3, <1>5, <2>1
  <2>3. Carried(x.tile) BY <1>2, <1>5
  <2>4. Stored(x.tile)' = Stored(x.tile) => Canonical(x.tile)' = Canonical(x.tile) BY StoredSame
  <2> QED BY <2>2, <2>3, <2>4 DEF Carried
<1> QED BY <1>4, <1>5

LEMMA ComingKept ==
  ASSUME rev' = rev, NEW p, Stored(p)' = Stored(p), Coming(p),
         queue[p] # NoOp => queue'[p] # NoOp,
         \A n \in Batches : save[n].phase = "ok" /\ save[n].ops[p] # NoOp =>
           save'[n].phase = "ok" /\ save'[n].ops[p] # NoOp,
         form.phase = "ok" /\ form.ops[p] # NoOp => form' = form,
         \A m \in inbox : m.kind = "cells" /\ m.pos = p /\ m.rev = rev => m \in inbox'
  PROVE  Coming(p)'
BY DEF Coming

\* Steps that change nothing on the screen but what is queued.
LEMMA PassiveConverges ==
  ASSUME ConvAll, UNCHANGED <<rows, rev, ver, full, store, loaded, due, stale>>,
         covered => covered', Within(reads', reads),
         \A p \in Pos : queue'[p] # NoOp \/ (queue'[p] = queue[p] /\ grid'[p] = grid[p]),
         UpToDate' => /\ UpToDate /\ (store < rev /\ NewsComing => NewsComing')
                      /\ \A p \in Pos : Coming(p) => Coming(p)'
  PROVE  ScreenInv'
<1>1. WillHear /\ TypedIsQueued /\ TypeOK /\ rev \in Nat /\ store \in Int BY ConvFacts
<1>2. WillHear' BY <1>1, HearKept DEF WillHear
<1>3. TypedIsQueued' BY <1>1 DEF TypedIsQueued
<1>4. \A p \in Pos : Stored(p)' = Stored(p) /\ Vouched(p)' = Vouched(p) BY DEF Stored, Vouched
<1>5. ASSUME UpToDate', NEW p \in Pos
      PROVE  Carried(p)
  <2>1. CASE Coming(p)' BY <2>1 DEF Carried
  <2>2. CASE ~Coming(p)'
    <3>1. ~Coming(p) /\ grid'[p] = grid[p] BY <1>5, <2>2 DEF Coming
    <3>2. Shows(p)' = Shows(p) BY <1>4, <3>1 DEF Shows
    <3> QED BY <1>4, <3>1, <3>2 DEF Carried
  <2> QED BY <2>1, <2>2
<1>6. \A x \in reads' : x.done => x.tile \in Pos BY ReadKinds DEF Within
<1>7. Agrees' BY <1>4, <1>5, <1>6, AgreesKept
<1> QED BY <1>2, <1>3, <1>7 DEF ScreenInv

LEMMA ResetConverges ==
  ASSUME TypeOK, NEW tags \in SUBSET Tags, ResetScreen(tags)
  PROVE  ScreenInv'
<1>1. /\ loaded' = {} /\ reads' = Asked(Outdated(reads), Visible, tags)
      /\ \A p \in Pos : grid'[p] = Blank
  BY DEF ResetScreen
<1>2. Outdated(reads) \in SUBSET Read BY OutdatedType DEF TypeOK
<1>3. reads' \subseteq Read /\ Within(reads', Outdated(reads))
  BY <1>1, <1>2, AskedType, SheetAssumption DEF Pos
<1>4. \A y \in Outdated(reads) : ~y.current BY DEF Outdated, TypeOK, Read
<1>5. \A x \in reads' : ~(x.current /\ (x.done \/ x.rev # NoRev)) BY <1>3, <1>4 DEF Within
<1>6. WillHear' BY <1>1, <1>5 DEF WillHear
<1>7. Blank.full = FALSE BY ConstantTypes
<1>8. TypedIsQueued' BY <1>1, <1>7 DEF TypedIsQueued
<1>9. \A p \in Pos : ~full'[rows'[p]] => Shows(p)' BY <1>1, <1>7 DEF Shows
<1>10. Agrees' BY <1>1, <1>5, <1>9 DEF Agrees
<1> QED BY <1>6, <1>8, <1>10 DEF ScreenInv

LEMMA RefreshConverges ==
  ASSUME ConvAll, NEW busy \in BOOLEAN, RefreshSheet(busy), store' = NoRev => store = NoRev
  PROVE  ScreenInv'
<1>1. TypeOK /\ WillHear BY ConvFacts
<1>2. CASE busy
  <2>1. due' = TRUE /\ loaded' = loaded BY <1>2 DEF RefreshSheet
  <2>2. ~UpToDate' BY <2>1 DEF UpToDate
  <2>3. TypedIsQueued' BY <2>1 DEF TypedIsQueued
  <2> QED BY <1>1, <2>1, <2>2, <2>3 DEF WillHear, Agrees, ScreenInv
<1>3. CASE ~busy
  <2>1. ResetScreen({"refresh"}) BY <1>3 DEF RefreshSheet
  <2>2. {"refresh"} \in SUBSET Tags BY DEF Tags
  <2> QED BY <1>1, <2>1, <2>2, ResetConverges
<1> QED BY <1>2, <1>3


LEMMA PeerRestructuresConverges ==
  ASSUME ConvAll, NEW k \in session.kinds, NEW p \in Pos, PeerRestructures(k, p)
  PROVE  ScreenInv'
<1>1. /\ TypeOK /\ WillHear /\ TypedIsQueued /\ rev \in Nat /\ store \in Int /\ store <= rev
      /\ NoRev = -1
  BY ConvFacts
<1>2. UNCHANGED <<conn, store, screen, queue, due, own>> /\ rev' = rev + 1
      /\ Broadcast([kind |-> "refresh", rev |-> rev + 1])
  BY DEF PeerRestructures
<1>3. UpToDate' => NewsComing'
  <2> SUFFICES ASSUME UpToDate' PROVE NewsComing' OBVIOUS
  <2>1. conn # "down" /\ conn # "never" /\ ~blind' BY <1>2 DEF UpToDate, Broadcast
  <2>2. conn = "open" BY <1>1, <2>1 DEF TypeOK
  <2>3. [kind |-> "refresh", rev |-> rev + 1] \in inbox' BY <1>2, <2>1, <2>2 DEF Broadcast
  <2> QED BY <1>2, <2>3 DEF NewsComing
<1>4. WillHear' BY <1>1, <1>2, <1>3 DEF WillHear
<1>5. store # rev' /\ \A x \in reads : x.done => x.rev # rev' BY <1>1, <1>2, ReadKinds
<1>6. Agrees' BY <1>2, <1>5 DEF Agrees
<1>7. TypedIsQueued' BY <1>1, <1>2 DEF TypedIsQueued
<1> QED BY <1>4, <1>6, <1>7 DEF ScreenInv

\* Where only the rows at S are written, the other positions have what they had.
LEMMA OnlyAt ==
  ASSUME ConvAll, NEW S \in SUBSET Pos, UNCHANGED rows,
         \A r \in Row : (\A p \in S : r # rows[p]) => ver'[r] = ver[r] /\ full'[r] = full[r]
  PROVE  \A q \in Pos \ S : Stored(q)' = Stored(q) /\ full'[rows'[q]] = full[rows[q]]
<1>1. TypeOK /\ Sized /\ Distinct BY ConvFacts
<1> SUFFICES ASSUME NEW q \in Pos \ S
             PROVE  Stored(q)' = Stored(q) /\ full'[rows'[q]] = full[rows[q]]
  OBVIOUS
<1>2. \A p \in S : rows[q] # rows[p] BY <1>1, PositionsDiffer
<1>3. rows[q] \in Row BY <1>1, RowAt
<1>4. ver'[rows[q]] = ver[rows[q]] /\ full'[rows[q]] = full[rows[q]] BY <1>2, <1>3
<1> QED BY <1>4 DEF Stored

\* The server's cells change at S, and what it wrote there is on its way.
LEMMA WrittenConverges ==
  ASSUME ConvAll, NEW S \in SUBSET Pos,
         UNCHANGED <<rows, rev, conn, store, screen, queue, due, own, stale>>,
         \A r \in Row : (\A p \in S : r # rows[p]) => ver'[r] = ver[r] /\ full'[r] = full[r],
         inbox \subseteq inbox', blind => blind', covered => covered',
         \A n \in Batches : save[n].phase = "ok" => save'[n] = save[n],
         form.phase = "ok" => form' = form,
         UpToDate' => \A p \in S : Coming(p)'
  PROVE  ScreenInv'
<1>1. TypeOK /\ WillHear /\ TypedIsQueued /\ rev \in Nat /\ store \in Int BY ConvFacts
<1>2. \A q \in Pos \ S : Stored(q)' = Stored(q) /\ full'[rows'[q]] = full[rows[q]] BY OnlyAt
<1>3. (UpToDate' => UpToDate) /\ (NewsComing => NewsComing') BY DEF UpToDate, NewsComing
<1>4. Within(reads', reads) BY WithinItself
<1>5. WillHear' BY <1>1, <1>3, <1>4, HearKept DEF WillHear
<1>6. ASSUME UpToDate', NEW q \in Pos, ~Coming(q)'
      PROVE  Carried(q) /\ (Vouched(q)' => Vouched(q))
  <2>1. q \notin S BY <1>6
  <2>2. Stored(q)' = Stored(q) /\ full'[rows'[q]] = full[rows[q]] BY <1>2, <2>1
  <2>3. Coming(q) => Coming(q)' BY <2>2, ComingKept
  <2>4. Shows(q)' = Shows(q) BY <2>2 DEF Shows
  <2>5. Carried(q) BY <1>6, <2>2, <2>3, <2>4 DEF Carried
  <2> QED BY <2>2, <2>5 DEF Vouched
<1>7. UpToDate' => \A q \in Pos : Carried(q) BY <1>6 DEF Carried
<1>8. \A x \in reads' : x.tile \in Pos BY ReadKinds
<1>9. UpToDate' /\ ~stale' /\ ~covered' =>
        /\ UpToDate /\ ~stale /\ ~covered
        /\ store' = rev => \A p \in Pos : Vouched(p)' => \/ Vouched(p) /\ store = rev /\ Carried(p)
                                                         \/ Shows(p)' \/ Coming(p)'
        /\ \A x \in reads' : x.current /\ x.done /\ x.rev = rev => Carried(x.tile)
  BY <1>3, <1>6, <1>7, <1>8
<1>10. Agrees' BY <1>4, <1>9, AgreesKept
<1>11. TypedIsQueued' BY <1>1 DEF TypedIsQueued
<1> QED BY <1>5, <1>10, <1>11 DEF ScreenInv

LEMMA PeerWritesConverges ==
  ASSUME ConvAll, NEW p \in Pos, PeerWrites(p)
  PROVE  ScreenInv'
<1>1. TypeOK /\ Sized /\ ver \in [Row -> Nat] /\ full \in [Row -> BOOLEAN] BY ConvFacts DEF TypeOK
<1>2. rows[p] \in Row BY <1>1, RowAt
<1>3. PICK value \in BOOLEAN :
        /\ full' = [full EXCEPT ![rows[p]] = value]
        /\ Broadcast([kind |-> "cells", pos |-> p, rev |-> rev,
                      cell |-> [row |-> rows[p], ver |-> clock + 1, full |-> value]])
        /\ covered => covered'
  BY DEF PeerWrites
<1> DEFINE news == [kind |-> "cells", pos |-> p, rev |-> rev,
                    cell |-> [row |-> rows[p], ver |-> clock + 1, full |-> value]]
<1>10. PICK m : m = news OBVIOUS
<1>4. /\ m = [kind |-> "cells", pos |-> p, rev |-> rev,
              cell |-> [row |-> rows[p], ver |-> clock + 1, full |-> value]]
      /\ m.kind = "cells" /\ m.pos = p /\ m.rev = rev
      /\ m.cell = [row |-> rows[p], ver |-> clock + 1, full |-> value]
  BY <1>10
<1> HIDE DEF news
<1>5. /\ UNCHANGED <<rows, rev, conn, store, screen, queue, due, save, form, own, stale>>
      /\ ver' = [ver EXCEPT ![rows[p]] = clock + 1]
  BY DEF PeerWrites
<1>6. Stored(p)' = m.cell
  <2>1. rows'[p] = rows[p] /\ ver'[rows[p]] = clock + 1 /\ full'[rows[p]] = value
    BY <1>1, <1>2, <1>3, <1>5
  <2> QED BY <1>4, <2>1 DEF Stored
<1>7. inbox \subseteq inbox' /\ (blind => blind') BY <1>3 DEF Broadcast
<1>8. ASSUME UpToDate' PROVE Coming(p)'
  <2>1. conn # "down" /\ conn # "never" /\ ~blind' BY <1>3, <1>5, <1>8 DEF UpToDate, Broadcast
  <2>2. conn = "open" BY <1>1, <2>1 DEF TypeOK
  <2>3. m \in inbox' BY <1>3, <1>4, <2>1, <2>2 DEF Broadcast
  <2> QED BY <1>4, <1>5, <1>6, <2>3 DEF Coming
<1>9. \A r \in Row : (\A q \in {p} : r # rows[q]) => ver'[r] = ver[r] /\ full'[r] = full[r]
  BY <1>1, <1>3, <1>5
<1> QED BY <1>3, <1>5, <1>7, <1>8, <1>9, WrittenConverges

\* The server has made batch b: what it wrote is on its way if the answer is.
LEMMA ServeWrites ==
  ASSUME ConvAll, NEW b \in Batch, NEW answer, ServeBatch(b, answer), UNCHANGED rows
  PROVE  \/ answer = Refused(b) /\ UNCHANGED <<ver, full, covered>>
         \/ /\ answer = Done(b) /\ (covered => covered')
            /\ \A r \in Row : (\A p \in Written(b) : r # rows[p]) => ver'[r] = ver[r] /\ full'[r] = full[r]
            /\ \A p \in Written(b) : p \in Submitted(b) /\ Stored(p)' = answer.cells[p]
            /\ \A p \in Pos : answer.cells[p].full => p \in Written(b) /\ full'[rows[p]]
            /\ \A p \in Written(b) : full'[rows[p]] \/ ~OnItsWay(p) \/ covered'
<1>1. /\ TypeOK /\ Sized /\ Distinct /\ ver \in [Row -> Nat] /\ full \in [Row -> BOOLEAN]
      /\ \A p \in Pos : rows[p] \in Row
  BY ConvFacts, RowAt DEF TypeOK
<1>2. CASE answer = Refused(b) /\ UNCHANGED <<ver, full, clock, covered>> BY <1>2
<1>3. CASE /\ answer = Done(b)
           /\ ver' = [r \in Row |-> IF \E p \in Written(b) : rows[p] = r THEN clock + 1 ELSE ver[r]]
           /\ full' = [r \in Row |-> IF \E p \in Written(b) : rows[p] = r
                                     THEN \E p \in Written(b) : rows[p] = r /\ ~b.ops[p].clear
                                     ELSE full[r]]
           /\ covered' = (covered \/ \E p \in Written(b) : b.ops[p].clear /\ OnItsWay(p))
  <2>1. Written(b) \in SUBSET Pos /\ Written(b) \subseteq Submitted(b) BY DEF Written, Submitted
  <2>2. \A r \in Row : (\A p \in Written(b) : r # rows[p]) => ver'[r] = ver[r] /\ full'[r] = full[r]
    BY <1>3
  <2>3. \A p \in Pos : answer.cells[p] = IF p \in Written(b)
                                         THEN [row |-> rows[p], ver |-> clock + 1, full |-> ~b.ops[p].clear]
                                         ELSE Blank
    BY <1>3 DEF Done, Batch
  <2>4. ASSUME NEW p \in Written(b)
        PROVE  /\ ver'[rows[p]] = clock + 1 /\ full'[rows[p]] = ~b.ops[p].clear
               /\ Stored(p)' = answer.cells[p]
    <3>1. p \in Pos /\ rows[p] \in Row BY <1>1, <2>1
    <3>2. ver'[rows[p]] = clock + 1 BY <1>3, <3>1
    <3>3. full'[rows[p]] = ~b.ops[p].clear
      <4>1. full'[rows[p]] = \E q \in Written(b) : rows[q] = rows[p] /\ ~b.ops[q].clear
        BY <1>3, <3>1
      <4>2. \A q \in Written(b) : rows[q] = rows[p] => q = p
        BY <1>1, <2>1, <3>1, PositionsDiffer
      <4> QED BY <4>1, <4>2
    <3>4. Stored(p)' = [row |-> rows[p], ver |-> clock + 1, full |-> ~b.ops[p].clear]
      BY <3>2, <3>3 DEF Stored
    <3> QED BY <2>3, <3>1, <3>2, <3>3, <3>4
  <2>5. \A p \in Pos : answer.cells[p].full => p \in Written(b) /\ full'[rows[p]]
    <3> SUFFICES ASSUME NEW p \in Pos, answer.cells[p].full PROVE p \in Written(b) /\ full'[rows[p]]
      OBVIOUS
    <3>1. p \in Written(b)
      <4> SUFFICES ASSUME p \notin Written(b) PROVE FALSE OBVIOUS
      <4>1. answer.cells[p] = Blank BY <2>3
      <4>2. Blank.full = FALSE BY ConstantTypes
      <4> QED BY <4>1, <4>2
    <3>2. ~b.ops[p].clear
      <4>1. answer.cells[p] = [row |-> rows[p], ver |-> clock + 1, full |-> ~b.ops[p].clear]
        BY <2>3, <3>1
      <4>2. b.ops[p].clear \in BOOLEAN BY DEF Batch, Op
      <4>3. ASSUME b.ops[p].clear = TRUE PROVE FALSE
        <5>1. answer.cells[p] = [row |-> rows[p], ver |-> clock + 1, full |-> FALSE] BY <4>1, <4>3
        <5>2. answer.cells[p].full = FALSE BY <5>1
        <5> QED BY <5>2
      <4> QED BY <4>2, <4>3
    <3> QED BY <2>4, <3>1, <3>2
  <2>6. \A p \in Written(b) : full'[rows[p]] \/ ~OnItsWay(p) \/ covered' BY <1>3, <2>4
  <2> QED BY <1>3, <2>1, <2>2, <2>4, <2>5, <2>6
<1> QED BY <1>2, <1>3 DEF ServeBatch

LEMMA ServerConverges ==
  ASSUME ConvAll, Server
  PROVE  ScreenInv'
<1>1. /\ TypeOK /\ Sized /\ WillHear /\ TypedIsQueued /\ Agrees
      /\ rev \in Nat /\ store \in Int /\ store <= rev
      /\ save \in [Batches -> Batch] /\ form \in Batch /\ NoRev = -1
  BY ConvFacts DEF TypeOK
<1>2. CASE ServeFormula
  <2>1. PICK b \in {Done(form), Refused(form)} : ServeBatch(form, b) /\ form' = b
    BY <1>2 DEF ServeFormula
  <2>2. /\ UNCHANGED <<rows, rev, inbox, conn, store, screen, queue, due, own, blind, stale, save>>
        /\ form.phase = "sent"
    BY <1>2 DEF ServeFormula
  <2>3. CASE b = Refused(form) /\ UNCHANGED <<ver, full, covered>>
    <3>1. {} \in SUBSET Pos OBVIOUS
    <3> QED BY <2>2, <2>3, <3>1, WrittenConverges
  <2>4. CASE /\ b = Done(form) /\ (covered => covered')
             /\ \A r \in Row : (\A p \in Written(form) : r # rows[p]) => ver'[r] = ver[r] /\ full'[r] = full[r]
             /\ \A p \in Written(form) : p \in Submitted(form) /\ Stored(p)' = b.cells[p]
    <3>1. Written(form) \in SUBSET Pos BY DEF Written, Submitted
    <3>2. form'.phase = "ok" /\ form'.ops = form.ops /\ form'.rev = rev BY <1>1, <2>1, <2>4, DoneType
    <3>3. ASSUME NEW p \in Written(form) PROVE Coming(p)'
      <4>1. p \in Pos /\ form.ops[p] # NoOp BY <2>4 DEF Submitted
      <4>2. form'.cells[p] = Stored(p)' BY <2>1, <2>4
      <4> QED BY <2>2, <3>2, <4>1, <4>2 DEF Coming
    <3> QED BY <2>2, <2>4, <3>1, <3>3, WrittenConverges
  <2> QED BY <1>1, <2>1, <2>2, <2>3, <2>4, ServeWrites
<1>3. ASSUME NEW n \in Batches, ServeSave(n)
      PROVE  ScreenInv'
  <2>1. PICK b \in {Done(save[n]), Refused(save[n])} :
          ServeBatch(save[n], b) /\ save' = [save EXCEPT ![n] = b]
    BY <1>3 DEF ServeSave
  <2>2. /\ UNCHANGED <<rows, rev, inbox, conn, store, screen, queue, due, own, blind, stale, form>>
        /\ save[n].phase = "sent" /\ save[n] \in Batch
    BY <1>1, <1>3 DEF ServeSave
  <2>3. \A k \in Batches : save'[k] = IF k = n THEN b ELSE save[k] BY <1>1, <2>1
  <2>4. \A k \in Batches : save[k].phase = "ok" => save'[k] = save[k] BY <2>2, <2>3
  <2>5. CASE b = Refused(save[n]) /\ UNCHANGED <<ver, full, covered>>
    <3>1. {} \in SUBSET Pos OBVIOUS
    <3> QED BY <2>2, <2>4, <2>5, <3>1, WrittenConverges
  <2>6. CASE /\ b = Done(save[n]) /\ (covered => covered')
             /\ \A r \in Row : (\A p \in Written(save[n]) : r # rows[p]) => ver'[r] = ver[r] /\ full'[r] = full[r]
             /\ \A p \in Written(save[n]) : p \in Submitted(save[n])
    <3>1. Written(save[n]) \in SUBSET Pos BY DEF Written, Submitted
    <3>2. b.phase = "ok" /\ b.ops = save[n].ops BY <1>1, <2>2, <2>6, DoneType
    <3>3. ASSUME NEW p \in Written(save[n]) PROVE Coming(p)'
      <4>1. p \in Pos /\ save[n].ops[p] # NoOp BY <2>6 DEF Submitted
      <4>2. save'[n].phase = "ok" /\ save'[n].ops[p] # NoOp BY <2>3, <3>2, <4>1
      <4> QED BY <4>2 DEF Coming
    <3> QED BY <2>2, <2>4, <2>6, <3>1, <3>3, WrittenConverges
  <2> QED BY <1>1, <2>1, <2>2, <2>5, <2>6, ServeWrites
<1>4. CASE ServeStructure
  <2>1. /\ UNCHANGED <<ver, full, inbox, conn, store, screen, queue, due, save, form, holes>>
        /\ own.phase = "sent"
    BY <1>4 DEF ServeStructure
  <2>2. Within(reads', reads) /\ (UpToDate' => UpToDate) BY <2>1, WithinItself DEF UpToDate
  <2>3. CASE rev' = rev + 1 /\ own' = [own EXCEPT !.phase = "ok", !.rev = rev + 1]
    <3>1. own'.phase = "ok" /\ own'.rev = rev' BY <1>1, <2>3 DEF TypeOK, Change
    <3>2. NewsComing' BY <3>1 DEF NewsComing
    <3>3. WillHear' BY <1>1, <2>1, <3>2 DEF WillHear
    <3>4. store # rev' /\ \A x \in reads : x.done => x.rev # rev' BY <1>1, <2>3, ReadKinds
    <3>5. Agrees' BY <2>1, <3>4 DEF Agrees
    <3>6. TypedIsQueued' BY <1>1, <2>1 DEF TypedIsQueued
    <3> QED BY <3>3, <3>5, <3>6 DEF ScreenInv
  <2>4. CASE UNCHANGED <<rows, rev>>
    <3>1. NewsComing => NewsComing' BY <2>1, <2>4 DEF NewsComing
    <3>2. \A p \in Pos : Coming(p) => Coming(p)' BY <2>1, <2>4, ComingKept DEF Stored
    <3> QED BY <2>1, <2>2, <2>4, <3>1, <3>2, PassiveConverges
  <2> QED BY <1>4, <2>3, <2>4 DEF ServeStructure
<1>5. ASSUME NEW x \in reads, ReadSheet(x) \/ ServeRead(x)
      PROVE  ScreenInv'
  <2>1. UNCHANGED <<rows, rev, ver, full, inbox, conn, store, grid, loaded, queue, due, calls, holes>>
    BY <1>5 DEF ReadSheet, ServeRead
  <2>2. x \in Read /\ x.tile \in Pos BY <1>1 DEF TypeOK, Read
  <2>3. PICK y : /\ reads' \subseteq reads \cup {y} /\ y.tile = x.tile /\ y.current = x.current
                 /\ \/ ~y.done /\ y.rev = rev
                    \/ y.rev = x.rev /\ x.rev # NoRev /\ y.cell = Canonical(y.tile)
    <3>1. CASE ReadSheet(x)
      <4> DEFINE z == [x EXCEPT !.rev = rev]
      <4>1. ~z.done /\ z.rev = rev /\ z.tile = x.tile /\ z.current = x.current
        BY <2>2, <3>1 DEF Read, ReadSheet
      <4>2. reads' \subseteq reads \cup {z} BY <3>1 DEF ReadSheet
      <4> QED BY <4>1, <4>2
    <3>2. CASE ServeRead(x)
      <4> DEFINE z == [x EXCEPT !.done = TRUE, !.cell = Canonical(x.tile)]
      <4>1. z.rev = x.rev /\ z.cell = Canonical(z.tile) /\ z.tile = x.tile /\ z.current = x.current
        BY <2>2 DEF Read
      <4>2. reads' \subseteq reads \cup {z} /\ x.rev # NoRev BY <3>2 DEF ServeRead
      <4> QED BY <4>1, <4>2
    <3> QED BY <1>5, <3>1, <3>2
  <2>4. /\ UpToDate' = UpToDate /\ NewsComing' = NewsComing
        /\ \A p \in Pos : /\ Canonical(p)' = Canonical(p) /\ Stored(p)' = Stored(p)
                          /\ Coming(p)' = Coming(p) /\ Shows(p)' = Shows(p)
    BY <2>1 DEF UpToDate, NewsComing, Canonical, Stored, Coming, Shows
  <2>5. WillHear'
    <3>1. \A z \in reads' : z.rev < rev /\ z.current /\ z.rev # NoRev =>
            \E u \in reads : u.rev < rev /\ u.current /\ u.rev # NoRev
      BY <1>1, <2>3
    <3> QED BY <1>1, <2>1, <2>4, <3>1 DEF WillHear
  <2>6. Agrees'
    <3>1. \A z \in reads' : z.tile \in Pos BY <2>2, <2>3, ReadKinds
    <3>2. \A z \in reads' : z \in reads \/ ~z.done \/ z.cell = Canonical(z.tile) BY <2>3
    <3> QED BY <1>1, <2>1, <2>4, <3>1, <3>2 DEF Agrees
  <2>7. TypedIsQueued' BY <1>1, <2>1 DEF TypedIsQueued
  <2> QED BY <2>5, <2>6, <2>7 DEF ScreenInv
<1> QED BY <1>2, <1>3, <1>4, <1>5 DEF Server


\* An edit is queued at its position; elsewhere the queue and the grid are as they were.
LEMMA EditQueues ==
  ASSUME TypeOK, NEW p \in Pos, NEW aim, NEW why, SetCellValue(p, aim, why)
  PROVE  \A q \in Pos : queue'[q] # NoOp \/ (queue'[q] = queue[q] /\ grid'[q] = grid[q])
<1>1. queue \in [Pos -> Op] /\ grid \in [Pos -> Cell] /\ edits \in Nat
  BY SheetAssumption DEF TypeOK
<1>2. PICK clear \in BOOLEAN :
        /\ queue' = [queue EXCEPT ![p] = [id |-> edits + 1, aim |-> aim, why |-> why, clear |-> clear]]
        /\ grid' = [grid EXCEPT ![p].ver = 0, ![p].full = ~clear]
  BY DEF SetCellValue
<1>3. queue'[p].id = edits + 1 BY <1>1, <1>2
<1>4. queue'[p] # NoOp BY <1>1, <1>3, ConstantTypes
<1>5. \A q \in Pos \ {p} : queue'[q] = queue[q] /\ grid'[q] = grid[q] BY <1>1, <1>2
<1> QED BY <1>4, <1>5

LEMMA UserConverges ==
  ASSUME ConvAll, User \/ FlushPendingOps
  PROVE  ScreenInv'
<1>1. TypeOK /\ TypeInv /\ save \in [Batches -> Batch] BY ConvFacts DEF TypeOK
<1>2. UNCHANGED <<rows, rev, ver, full, store, loaded, conn, inbox, due, holes>>
  BY DEF User, FlushPendingOps, Scroll, OpenEditor, Paste, FocusBar, DropEdit, CommitEdit, Undo,
         SubmitBar, StartStructure
<1>3. Within(reads', reads)
  <2>1. reads' = reads \/ \E p \in Pos : reads' = Asked(reads, {p}, {})
    BY DEF User, FlushPendingOps, Scroll, OpenEditor, Paste, FocusBar, DropEdit, CommitEdit, Undo,
           SubmitBar, StartStructure
  <2> QED BY <1>1, <2>1, WithinItself, AskedType DEF TypeOK
<1>4. own' = own \/ own.phase = "idle"
  BY DEF User, FlushPendingOps, Scroll, OpenEditor, Paste, FocusBar, DropEdit, CommitEdit, Undo,
         SubmitBar, StartStructure
<1>5. form' = form \/ form.phase = "idle"
  BY DEF User, FlushPendingOps, Scroll, OpenEditor, Paste, FocusBar, DropEdit, CommitEdit, Undo,
         SubmitBar, StartStructure
<1>6. \A n \in Batches : save'[n] = save[n] \/ save[n].phase = "idle"
  <2>1. save' = save \/ FlushPendingOps
    BY DEF User, Scroll, OpenEditor, Paste, FocusBar, DropEdit, CommitEdit, Undo, SubmitBar,
           StartStructure
  <2>2. FlushPendingOps => \A n \in Batches : save'[n] = save[n] \/ save[n].phase = "idle"
    BY <1>1 DEF FlushPendingOps
  <2> QED BY <2>1, <2>2
<1>7. \A q \in Pos : queue'[q] # NoOp \/ (queue'[q] = queue[q] /\ grid'[q] = grid[q])
  <2>1. \/ UNCHANGED <<queue, grid>>
        \/ \E p \in Pos : Paste(p)
        \/ CommitEdit \/ Undo
    BY DEF User, FlushPendingOps, Scroll, OpenEditor, FocusBar, DropEdit, SubmitBar, StartStructure
  <2>2. ASSUME NEW p \in Pos, Paste(p)
        PROVE  \A q \in Pos : queue'[q] # NoOp \/ (queue'[q] = queue[q] /\ grid'[q] = grid[q])
    BY <1>1, <2>2, EditQueues DEF Paste
  <2>3. CASE CommitEdit
    <3>1. editor.pos \in Pos BY <1>1, <2>3 DEF TypeInv, AllPlaced, CommitEdit
    <3> QED BY <1>1, <2>3, <3>1, EditQueues DEF CommitEdit
  <2>4. CASE Undo
    <3>1. undo.pos \in Pos BY <1>1, <2>4 DEF TypeInv, AllPlaced, Undo
    <3> QED BY <1>1, <2>4, <3>1, EditQueues DEF Undo
  <2> QED BY <2>1, <2>2, <2>3, <2>4
<1>8. NewsComing => NewsComing' BY <1>2, <1>4 DEF NewsComing
<1>9. UpToDate' => UpToDate BY <1>2 DEF UpToDate
<1>10. \A p \in Pos : Coming(p) => Coming(p)'
  <2> SUFFICES ASSUME NEW p \in Pos, Coming(p), ~Coming(p)' PROVE FALSE OBVIOUS
  <2>1. queue'[p] = NoOp BY DEF Coming
  <2>2. queue'[p] = queue[p] BY <1>7, <2>1
  <2>3. Stored(p)' = Stored(p) BY <1>2 DEF Stored
  <2> QED BY <1>2, <1>5, <1>6, <2>2, <2>3, ComingKept
<1> QED BY <1>2, <1>3, <1>7, <1>8, <1>9, <1>10, PassiveConverges

\* What an answer of revision r does to the queue and to the ghost of the grid.
LEMMA CaptureFacts ==
  ASSUME ConvAll, NEW r \in 0 .. rev, NEW q, FromQueue(q), NEW taken \in BOOLEAN, Capture(r, q, taken)
  PROVE  /\ store' \in Nat /\ store <= store' /\ store' \in {store, r} /\ r <= store'
         /\ stale => stale'
         /\ r > store /\ ~stale' => loaded = {} /\ \A p \in Pos : grid[p] = Blank
         /\ taken /\ r < store => stale'
         /\ \A p \in Pos : q[p] = queue[p] /\ queue[p] # NoOp => queue'[p] # NoOp
<1>1. TypeInv /\ TypeOK /\ rev \in Nat /\ store \in Int /\ store <= rev BY ConvFacts
<1>2. r \in Rev /\ r \in Nat BY <1>1 DEF Rev
<1>3. Captured(r, q, taken) BY <1>1, <1>2, CaptureTyped DEF FromQueue
<1>4. store' = Newest(store, r) BY <1>3 DEF Captured
<1>5. store' \in Nat /\ store <= store' /\ store' \in {store, r} /\ r <= store'
  BY <1>1, <1>2, <1>4 DEF Newest
<1>6. /\ r <= store => stale' = (stale \/ (taken /\ r < store))
      /\ r > store => stale' = (stale \/ loaded # {} \/ \E p \in Pos : grid[p] # Blank)
  BY <1>3 DEF Captured
<1>7. stale => stale'
  <2>1. CASE r <= store BY <1>6, <2>1
  <2>2. CASE r > store BY <1>6, <2>2
  <2> QED BY <1>1, <1>2, <2>1, <2>2
<1>8. r > store /\ ~stale' => loaded = {} /\ \A p \in Pos : grid[p] = Blank BY <1>6
<1>9. taken /\ r < store => stale'
  <2>1. r < store => r <= store BY <1>1, <1>2
  <2> QED BY <1>6, <2>1
<1>10. \A p \in Pos : q[p] = queue[p] /\ queue[p] # NoOp => queue'[p] # NoOp
  <2> SUFFICES ASSUME NEW p \in Pos, q[p] = queue[p], queue[p] # NoOp PROVE queue'[p] # NoOp
    OBVIOUS
  <2>1. queue'[p].id = queue[p].id BY <1>3 DEF Captured
  <2>2. queue[p].id \in 1 .. edits BY <1>1 DEF TypeInv, AllNumbered, Numbered
  <2>3. edits \in Nat BY <1>1, SheetAssumption DEF TypeOK
  <2>4. queue'[p].id # 0 BY <2>1, <2>2, <2>3
  <2> QED BY <2>4, ConstantTypes
<1> QED BY <1>5, <1>7, <1>8, <1>9, <1>10

LEMMA ReadAnsweredConverges ==
  ASSUME ConvAll, NEW x \in reads, ReadAnswered(x)
  PROVE  ScreenInv'
<1>1. /\ TypeOK /\ Sized /\ WillHear /\ Agrees /\ rev \in Nat /\ store \in Int /\ store <= rev
      /\ grid \in [Pos -> Cell] /\ loaded \subseteq Pos /\ reads \in SUBSET Read
      /\ queue \in [Pos -> Op] /\ NoRev = -1
  BY ConvFacts DEF TypeOK
<1>2. /\ UNCHANGED <<rows, rev, ver, full, inbox, conn, due, save, form, own, blind, covered>>
      /\ x.done /\ Capture(x.rev, queue, x.current) /\ reads' = Ended(reads, x)
  BY DEF ReadAnswered
<1>3. /\ x.current \in BOOLEAN /\ x.tile \in Pos /\ x.cell \in Cell
      /\ x.rev \in 0 .. rev /\ x.rev # NoRev /\ (x.rev = rev => x.cell.row \in {NoRow, rows[x.tile]})
      /\ KnownAt(ver, full, x.cell)
  BY <1>1, <1>2, ReadKinds, KnownFacts
<1>4. FromQueue(queue) BY <1>1 DEF FromQueue
<1>5. /\ store' \in Nat /\ store <= store' /\ store' \in {store, x.rev} /\ x.rev <= store'
      /\ stale => stale'
      /\ x.rev > store /\ ~stale' => loaded = {} /\ \A p \in Pos : grid[p] = Blank
      /\ x.current /\ x.rev < store => stale'
      /\ \A p \in Pos : queue[p] # NoOp => queue'[p] # NoOp
  BY <1>2, <1>3, <1>4, CaptureFacts
<1>6. Within(reads', reads) BY <1>1, <1>2, EndedType
<1>7. /\ UpToDate' = UpToDate /\ NewsComing' = NewsComing
      /\ \A p \in Pos : Stored(p)' = Stored(p)
  BY <1>2 DEF UpToDate, NewsComing, Stored
<1>8. loaded' \subseteq loaded \cup {x.tile} /\ (loaded' # {} => loaded # {} \/ x.current)
      /\ (~x.current => loaded' = loaded)
  BY <1>1, <1>3 DEF ReadAnswered
<1>9. WillHear' /\ TypedIsQueued'
  <2>1. x.rev = rev => ~(store' < rev) BY <1>1, <1>3, <1>5
  <2>2. store' # NoRev BY <1>1, <1>5
  <2>3. TypedIsQueued' BY <2>2 DEF TypedIsQueued
  <2>4. WillHear'
    <3>1. SUFFICES ASSUME UpToDate', store' < rev,
                          loaded' # {} \/ \E y \in reads' : y.current /\ y.rev # NoRev /\ y.rev < rev
                   PROVE  NewsComing'
      BY <1>2, <2>2 DEF WillHear
    <3>2. store < rev /\ x.rev < rev BY <1>1, <1>3, <1>5, <2>1, <3>1
    <3>3. loaded # {} \/ \E y \in reads : y.current /\ y.rev # NoRev /\ y.rev < rev
      BY <1>2, <1>3, <1>6, <1>8, <3>1, <3>2 DEF Within
    <3> QED BY <1>1, <1>7, <3>1, <3>2, <3>3 DEF WillHear
  <2> QED BY <2>3, <2>4
<1>10. \A p \in Pos : Coming(p) => Coming(p)' BY <1>2, <1>5, <1>7, ComingKept
<1>11. /\ \A p \in Pos : grid'[p] = grid[p] \/ (x.current /\ p = x.tile)
       /\ x.current => grid'[x.tile] = Merged(grid[x.tile], x.cell)
  BY <1>1, <1>3 DEF ReadAnswered
<1>12. ASSUME ~stale', x.current, store = rev PROVE x.rev = rev
  BY <1>1, <1>3, <1>5, <1>12
<1>13. ASSUME UpToDate, ~stale', x.current, x.rev = rev,
              x.cell = Stored(x.tile) \/ (store = rev /\ grid[x.tile] = Stored(x.tile))
       PROVE  grid'[x.tile] = Stored(x.tile)
  <2>1. grid[x.tile].row \in {NoRow, rows[x.tile]}
    <3>1. CASE store = rev BY <1>3, <1>5, <1>13, <3>1, ShownRows
    <3>2. CASE store # rev
      <4>1. grid[x.tile] = Blank BY <1>1, <1>3, <1>5, <1>13, <3>2
      <4> QED BY <4>1, ConstantTypes
    <3> QED BY <3>1, <3>2
  <2>2. Merged(grid[x.tile], x.cell) = Stored(x.tile)
    BY <1>1, <1>3, <1>13, <2>1, KnownFacts, MergeStored
  <2> QED BY <1>11, <1>13, <2>2
<1>14. ASSUME UpToDate, ~stale', ~covered', x.current, x.rev = rev
       PROVE  \/ x.cell = Canonical(x.tile) \/ Coming(x.tile)
              \/ store = rev /\ grid[x.tile] = Stored(x.tile)
  BY <1>1, <1>2, <1>5, <1>14 DEF Agrees
<1>15. ASSUME UpToDate, ~stale', ~covered', x.current, x.rev = rev, ~Coming(x.tile),
              store = rev => Shows(x.tile)
       PROVE  ~full[rows[x.tile]] => Shows(x.tile)'
  <2> SUFFICES ASSUME ~full[rows[x.tile]] PROVE Shows(x.tile)' OBVIOUS
  <2>1. CASE x.cell = Canonical(x.tile)
    <3>1. x.cell = Blank BY <2>1 DEF Canonical
    <3>2. grid'[x.tile] = grid[x.tile] BY <1>11, <1>15, <3>1 DEF Merged
    <3>3. ~grid[x.tile].full
      <4>1. CASE store = rev BY <1>15, <4>1, StoredSays
      <4>2. CASE store # rev
        <5>1. grid[x.tile] = Blank BY <1>1, <1>3, <1>5, <1>15, <4>2
        <5> QED BY <5>1, ConstantTypes
      <4> QED BY <4>1, <4>2
    <3> QED BY <1>2, <3>2, <3>3 DEF Shows
  <2>2. CASE store = rev /\ grid[x.tile] = Stored(x.tile)
    <3>1. grid'[x.tile] = Stored(x.tile) BY <1>13, <1>15, <2>2
    <3> QED BY <1>3, <1>7, <3>1, StoredSame
  <2> QED BY <1>14, <1>15, <2>1, <2>2
<1>16. ASSUME UpToDate, ~stale', ~covered', NEW p \in Pos
       PROVE  Carried(p)
  <2> SUFFICES ASSUME ~Coming(p)', store = rev
               PROVE  /\ grid[p] = Stored(p) => store' = rev /\ grid'[p] = Stored(p)
                      /\ Shows(p) => Shows(p)'
    BY <1>7, <1>10 DEF Carried
  <2>1. store' = rev BY <1>1, <1>3, <1>5
  <2>2. CASE x.current /\ p = x.tile
    <3>1. x.rev = rev BY <1>12, <1>16, <2>2
    <3>2. grid[p] = Stored(p) => grid'[p] = Stored(p) BY <1>13, <1>16, <2>2, <3>1
    <3>3. ASSUME Shows(p) PROVE Shows(p)'
      <4>1. CASE full[rows[p]]
        <5>1. grid'[p] = Stored(p) BY <3>2, <3>3, <4>1, StoredSays
        <5> QED BY <1>7, <5>1, StoredSame
      <4>2. CASE ~full[rows[p]] BY <1>10, <1>15, <1>16, <2>2, <3>1, <3>3, <4>2
      <4> QED BY <4>1, <4>2
    <3> QED BY <2>1, <3>2, <3>3
  <2>3. CASE ~(x.current /\ p = x.tile)
    <3>1. grid'[p] = grid[p] BY <1>11, <2>3
    <3>2. Shows(p)' = Shows(p) BY <1>2, <1>7, <3>1 DEF Shows
    <3> QED BY <2>1, <3>1, <3>2
  <2> QED BY <2>2, <2>3
<1>17. ASSUME UpToDate, ~stale', ~covered', store' = rev, NEW p \in Pos, Vouched(p)'
       PROVE  \/ Vouched(p) /\ store = rev /\ Carried(p)
              \/ Shows(p)' \/ Coming(p)'
  <2>1. CASE Vouched(p) /\ store = rev BY <1>16, <1>17, <2>1
  <2>2. CASE ~(Vouched(p) /\ store = rev) /\ ~(x.current /\ p = x.tile)
    <3>1. p \in loaded' => p \in loaded BY <1>8, <2>2
    <3>2. Vouched(p) BY <1>2, <1>17, <3>1 DEF Vouched
    <3>3. x.rev > store BY <1>1, <1>3, <1>5, <1>17, <2>2, <3>2
    <3>4. loaded = {} /\ grid[p] = Blank BY <1>5, <1>17, <3>3
    <3>5. ~full[rows[p]] /\ ~grid'[p].full BY <1>11, <2>2, <3>2, <3>4, ConstantTypes DEF Vouched
    <3> QED BY <1>2, <3>5 DEF Shows
  <2>3. CASE ~(Vouched(p) /\ store = rev) /\ x.current /\ p = x.tile
    <3>1. x.rev = rev BY <1>3, <1>5, <1>12, <1>17, <2>3
    <3>2. CASE Coming(p) BY <1>10, <3>2
    <3>3. CASE ~Coming(p) /\ full[rows[p]]
      <4>1. x.cell = Stored(p) \/ (store = rev /\ grid[p] = Stored(p))
        BY <1>14, <1>17, <2>3, <3>1, <3>3 DEF Canonical
      <4>2. grid'[p] = Stored(p) BY <1>13, <1>17, <2>3, <3>1, <4>1
      <4> QED BY <1>7, <4>2, StoredSame
    <3>4. CASE ~Coming(p) /\ ~full[rows[p]]
      <4>1. store # rev BY <2>3, <3>4 DEF Vouched
      <4> QED BY <1>15, <1>17, <2>3, <3>1, <3>4, <4>1
    <3> QED BY <3>2, <3>3, <3>4
  <2> QED BY <2>1, <2>2, <2>3
<1>18. \A y \in reads' : y.done => y.tile \in Pos BY <1>6, ReadKinds DEF Within
<1>19. UpToDate' /\ ~stale' /\ ~covered' =>
         /\ UpToDate /\ ~stale /\ ~covered
         /\ store' = rev => \A p \in Pos : Vouched(p)' => \/ Vouched(p) /\ store = rev /\ Carried(p)
                                                          \/ Shows(p)' \/ Coming(p)'
         /\ \A y \in reads' : y.current /\ y.done /\ y.rev = rev => Carried(y.tile)
  BY <1>2, <1>5, <1>7, <1>16, <1>17, <1>18
<1>20. Agrees' BY <1>2, <1>6, <1>19, AgreesKept
<1> QED BY <1>9, <1>20 DEF ScreenInv


LEMMA SaveAnsweredConverges ==
  ASSUME ConvAll, NEW n \in Batches, SaveAnswered(n)
  PROVE  ScreenInv'
<1>1. /\ TypeInv /\ TypeOK /\ WillHear /\ NewsSound /\ NewsStand
      /\ rev \in Nat /\ store \in Int /\ store <= rev
      /\ loaded \subseteq Pos /\ reads \in SUBSET Read /\ save \in [Batches -> Batch]
      /\ queue \in [Pos -> Op] /\ NoRev = -1
  BY ConvFacts DEF TypeOK
<1> DEFINE S == Submitted(save[n])
           left == Unsaved(save[n], queue)
<1>2. /\ UNCHANGED <<rows, rev, ver, full, inbox, conn, due, form, own, blind>>
      /\ save[n].phase = "ok" /\ Capture(save[n].rev, left, TRUE)
      /\ grid' = [p \in Pos |-> IF p \in S THEN Applied(grid[p], save[n].cells[p]) ELSE grid[p]]
      /\ loaded' = loaded \ S /\ reads' = Asked(reads, S, {n})
      /\ save' = [save EXCEPT ![n].phase = "reload"]
      /\ covered' = (covered \/ (\E x \in reads : x.current /\ x.done /\ x.tile \in S)
                             \/ (\E p \in S : save[n].cells[p] = Blank /\ grid[p].full /\ left[p] = NoOp))
  BY DEF SaveAnswered
<1>3. save[n] \in Batch /\ save[n].rev \in 0 .. rev BY <1>1, <1>2 DEF NewsSound, Told
<1>4. FromQueue(left) /\ S \subseteq Pos BY <1>1, <1>3, UnsavedFacts DEF Submitted
<1>5. \A p \in Pos \ S : queue[p] # NoOp => left[p] = queue[p]
  <2> SUFFICES ASSUME NEW p \in Pos \ S, queue[p] # NoOp PROVE left[p] = queue[p] OBVIOUS
  <2>1. save[n].ops[p].id = 0 BY ConstantTypes DEF Submitted
  <2>2. queue[p].id \in 1 .. edits BY <1>1 DEF TypeInv, AllNumbered, Numbered
  <2>3. edits \in Nat BY <1>1, SheetAssumption DEF TypeOK
  <2>4. queue[p].id # save[n].ops[p].id BY <2>1, <2>2, <2>3
  <2> QED BY <2>4 DEF Unsaved
<1>6. \A p \in Pos \ S : save[n].ops[p] = NoOp BY DEF Submitted
<1> HIDE DEF S, left
<1>7. /\ store' \in Nat /\ store <= store' /\ store' \in {store, save[n].rev}
      /\ stale => stale'
      /\ save[n].rev > store /\ ~stale' => loaded = {} /\ \A p \in Pos : grid[p] = Blank
      /\ save[n].rev < store => stale'
      /\ \A p \in Pos : left[p] = queue[p] /\ queue[p] # NoOp => queue'[p] # NoOp
  BY <1>2, <1>3, <1>4, CaptureFacts
<1>8. Within(reads', reads)
  <2>1. {n} \in SUBSET Tags BY DEF Tags
  <2> QED BY <1>1, <1>2, <1>4, <2>1, AskedType
<1>9. /\ UpToDate' = UpToDate /\ NewsComing' = NewsComing
      /\ \A p \in Pos : Stored(p)' = Stored(p)
  BY <1>2 DEF UpToDate, NewsComing, Stored
<1>10. WillHear' /\ TypedIsQueued'
  <2>1. store' # NoRev BY <1>1, <1>7
  <2>2. TypedIsQueued' BY <2>1 DEF TypedIsQueued
  <2>3. WillHear' BY <1>1, <1>2, <1>7, <1>8, <1>9, <2>1, HearKept
  <2> QED BY <2>2, <2>3
<1>11. \A k \in Batches : k # n => save'[k] = save[k] BY <1>1, <1>2
<1>12. \A p \in Pos \ S : Coming(p) => Coming(p)'
  <2> SUFFICES ASSUME NEW p \in Pos \ S, Coming(p) PROVE Coming(p)' OBVIOUS
  <2>1. queue[p] # NoOp => queue'[p] # NoOp BY <1>5, <1>7
  <2>2. \A k \in Batches : save[k].ops[p] # NoOp => save'[k] = save[k] BY <1>6, <1>11
  <2> QED BY <1>2, <1>9, <2>1, <2>2, ComingKept
<1>13. \A p \in Pos \ S : grid'[p] = grid[p] /\ Shows(p)' = Shows(p) BY <1>2, <1>9 DEF Shows
<1>14. store = rev => store' = rev BY <1>1, <1>3, <1>7
<1>15. \A p \in Pos \ S : Carried(p) BY <1>9, <1>12, <1>13, <1>14 DEF Carried
<1>16. ASSUME UpToDate', ~stale', ~covered'
       PROVE  /\ UpToDate /\ ~stale /\ ~covered
              /\ store' = rev => \A p \in Pos : Vouched(p)' => \/ Vouched(p) /\ store = rev /\ Carried(p)
                                                               \/ Shows(p)' \/ Coming(p)'
              /\ \A x \in reads' : x.current /\ x.done /\ x.rev = rev => Carried(x.tile)
  <2>1. UpToDate /\ ~stale /\ ~covered BY <1>2, <1>7, <1>9, <1>16
  <2>2. ASSUME store' = rev, NEW p \in Pos, Vouched(p)'
        PROVE  \/ Vouched(p) /\ store = rev /\ Carried(p)
               \/ Shows(p)' \/ Coming(p)'
    <3>1. CASE p \notin S /\ store = rev BY <1>2, <1>15, <2>2, <3>1 DEF Vouched
    <3>2. CASE p \notin S /\ store # rev
      <4>1. save[n].rev > store BY <1>1, <1>3, <1>7, <2>2, <3>2
      <4>2. loaded = {} /\ grid[p] = Blank BY <1>7, <1>16, <4>1
      <4>3. ~full[rows[p]] BY <1>2, <2>2, <4>2 DEF Vouched
      <4> QED BY <1>13, <3>2, <4>2, <4>3, StoredSays
    <3>3. CASE p \in S
      <4>1. ~full[rows[p]] BY <1>2, <2>2, <3>3 DEF Vouched
      <4>2. save[n].rev = rev BY <1>1, <1>3, <1>7, <1>16, <2>2
      <4>3. grid'[p] = Applied(grid[p], save[n].cells[p]) BY <1>2, <3>3
      <4>4. CASE left[p] # NoOp
        <5>1. queue'[p] # NoOp BY <1>4, <1>7, <4>4 DEF FromQueue
        <5> QED BY <5>1 DEF Coming
      <4>5. CASE left[p] = NoOp /\ save[n].cells[p] = Blank
        <5>1. ~grid[p].full /\ grid'[p] = grid[p] BY <1>2, <1>16, <3>3, <4>3, <4>5 DEF Applied
        <5> QED BY <1>2, <4>1, <5>1 DEF Shows
      <4>6. CASE save[n].cells[p] # Blank
        <5>1. ~save[n].cells[p].full BY <1>1, <1>2, <2>1, <4>1, <4>2 DEF NewsStand
        <5>2. grid'[p] = save[n].cells[p] BY <4>3, <4>6 DEF Applied
        <5> QED BY <1>2, <4>1, <5>1, <5>2 DEF Shows
      <4> QED BY <4>4, <4>5, <4>6
    <3> QED BY <3>1, <3>2, <3>3
  <2>3. ASSUME NEW x \in reads', x.current, x.done
        PROVE  Carried(x.tile)
    <3>1. PICK y \in reads : y.done /\ y.tile = x.tile /\ y.current BY <1>8, <2>3 DEF Within
    <3>2. x.tile \in Pos \ S BY <1>2, <1>16, <3>1, ReadKinds
    <3> QED BY <1>15, <3>2
  <2> QED BY <2>1, <2>2, <2>3
<1>17. Agrees' BY <1>2, <1>8, <1>16, AgreesKept
<1> QED BY <1>10, <1>17 DEF ScreenInv

LEMMA SaveEndsConverges ==
  ASSUME ConvAll, NEW n \in Batches, SaveRefused(n) \/ SaveFails(n) \/ SaveReloaded(n)
  PROVE  ScreenInv'
<1>1. TypeOK /\ save \in [Batches -> Batch] /\ store \in Int /\ NewsSound /\ rev \in Nat /\ NoRev = -1
      /\ NoRev <= store
  BY ConvFacts DEF TypeOK
<1>2. /\ UNCHANGED <<rows, rev, ver, full, inbox, conn, form, own>>
      /\ save' = [save EXCEPT ![n] = NoBatch]
  BY DEF SaveRefused, SaveFails, SaveReloaded
<1>3. CASE SaveRefused(n)
  <2>1. save[n].phase = "conflict" /\ RefreshSheet(FALSE) /\ store' = Newest(store, save[n].rev)
    BY <1>3 DEF SaveRefused, ConflictWhileSaving
  <2>2. save[n].rev \in 0 .. rev BY <1>1, <2>1 DEF NewsSound, Told
  <2>3. store' \in Nat BY <2>1, <2>2, NewestLands, ConvFacts
  <2>4. store' # NoRev /\ FALSE \in BOOLEAN BY <1>1, <2>3
  <2> QED BY <2>1, <2>4, RefreshConverges
<1>4. CASE (SaveFails(n) \/ SaveReloaded(n)) /\ due
  <2>1. RefreshSheet(FALSE) /\ store' = store BY <1>4 DEF SaveFails, SaveReloaded, StopSaving
  <2> QED BY <2>1, RefreshConverges
<1>5. CASE (SaveFails(n) \/ SaveReloaded(n)) /\ ~due
  <2>1. UNCHANGED <<store, queue, due, screen, stale, covered>>
    BY <1>5 DEF SaveFails, SaveReloaded, StopSaving
  <2>2. \/ save[n].phase # "ok" /\ blind' = (blind \/ FALSE)
        \/ blind' = (blind \/ (save[n].phase = "ok" /\ \E p \in Submitted(save[n]) : queue[p] = NoOp))
    BY <1>5 DEF SaveFails, SaveReloaded, StopSaving
  <2>3. UpToDate' => UpToDate BY <1>2, <2>1, <2>2 DEF UpToDate
  <2>4. NewsComing => NewsComing' BY <1>2 DEF NewsComing
  <2>5. ASSUME UpToDate', NEW p \in Pos, Coming(p) PROVE Coming(p)'
    <3>1. CASE queue[p] # NoOp BY <2>1, <3>1 DEF Coming
    <3>2. CASE queue[p] = NoOp
      <4>1. ~(save[n].phase = "ok" /\ save[n].ops[p] # NoOp)
        BY <2>2, <2>5, <3>2 DEF UpToDate, Submitted
      <4>2. \A k \in Batches : save[k].phase = "ok" /\ save[k].ops[p] # NoOp => save'[k] = save[k]
        BY <1>1, <1>2, <4>1
      <4> QED BY <1>2, <2>1, <2>5, <4>2, ComingKept DEF Stored
    <3> QED BY <3>1, <3>2
  <2> QED BY <1>2, <2>1, <2>3, <2>4, <2>5, WithinItself, PassiveConverges
<1> QED BY <1>3, <1>4, <1>5

LEMMA BarEndsConverges ==
  ASSUME ConvAll, BarRefused \/ BarFails \/ BarReloaded
  PROVE  ScreenInv'
<1>1. TypeOK /\ store \in Int /\ NewsSound /\ rev \in Nat /\ NoRev = -1
  BY ConvFacts
<1>2. UNCHANGED <<rows, rev, ver, full, inbox, conn, save, own>>
  BY DEF BarRefused, BarFails, BarReloaded
<1>3. CASE BarRefused
  <2>1. form.phase = "conflict" /\ RefreshSheet(FALSE) /\ store' = Newest(store, form.rev)
    BY <1>3 DEF BarRefused, ConflictWhileSaving
  <2>2. form.rev \in 0 .. rev BY <1>1, <2>1 DEF NewsSound, Told
  <2>3. store' \in Nat BY <2>1, <2>2, NewestLands, ConvFacts
  <2>4. store' # NoRev /\ FALSE \in BOOLEAN BY <1>1, <2>3
  <2> QED BY <2>1, <2>4, RefreshConverges
<1>4. CASE (BarFails \/ BarReloaded) /\ due
  <2>1. RefreshSheet(FALSE) /\ store' = store BY <1>4 DEF BarFails, BarReloaded, StopSaving
  <2> QED BY <2>1, RefreshConverges
<1>5. CASE (BarFails \/ BarReloaded) /\ ~due
  <2>1. UNCHANGED <<store, queue, due, screen, stale, covered>>
    BY <1>5 DEF BarFails, BarReloaded, StopSaving
  <2>2. \/ blind' = (blind \/ form.phase = "ok")
        \/ blind' = (blind \/ FALSE) /\ form.phase = "reload"
    BY <1>5 DEF BarFails, BarReloaded, StopSaving
  <2>3. UpToDate' => UpToDate /\ form.phase # "ok" BY <1>2, <2>1, <2>2 DEF UpToDate
  <2>4. NewsComing => NewsComing' BY <1>2 DEF NewsComing
  <2>5. UpToDate' => \A p \in Pos : Coming(p) => Coming(p)'
    BY <1>2, <2>1, <2>3, ComingKept DEF Stored
  <2> QED BY <1>2, <2>1, <2>3, <2>4, <2>5, WithinItself, PassiveConverges
<1> QED BY <1>3, <1>4, <1>5

\* The answer of the formula bar is shown, or the tile is read again for it.
LEMMA BarShowsConverges ==
  ASSUME ConvAll, NEW p \in Pos, form.phase = "ok", form'.phase # "ok",
         \A q \in Pos : form.ops[q] # NoOp => q = p,
         BarShows(p), UNCHANGED <<rows, rev, ver, full, inbox, conn, save, own>>,
         loaded' \subseteq loaded, Within(reads', reads)
  PROVE  ScreenInv'
<1>1. /\ TypeInv /\ TypeOK /\ Sized /\ WillHear /\ NewsSound /\ NewsStand
      /\ rev \in Nat /\ store \in Int
      /\ store <= rev /\ loaded \subseteq Pos /\ grid \in [Pos -> Cell]
      /\ queue \in [Pos -> Op] /\ NoRev = -1
  BY ConvFacts DEF TypeOK
<1>2. /\ form.rev \in 0 .. rev /\ \A q \in Pos : Sound(form.rev, form.cells[q].row, q)
  BY <1>1 DEF NewsSound, Told
<1> DEFINE left == [queue EXCEPT ![p] = NoOp]
<1>3. PICK c : c = form.cells[p] OBVIOUS
<1>4. /\ Capture(form.rev, left, TRUE) /\ grid' = [grid EXCEPT ![p] = Applied(grid[p], c)]
      /\ covered' = (covered \/ queue[p] # NoOp \/ (c # Blank /\ grid[p].ver > c.ver))
      /\ UNCHANGED <<due, blind>>
  BY <1>3 DEF BarShows
<1>5. FromQueue(left) /\ \A q \in Pos : q # p => left[q] = queue[q]
  BY <1>1, ConstantTypes DEF FromQueue
<1>6. /\ c \in Cell /\ KnownAt(ver, full, c) /\ grid[p] \in Cell
      /\ form.rev = rev => c.row \in {NoRow, rows[p]}
  BY <1>1, <1>2, <1>3, CellTypes, KnownFacts DEF Sound, OnRow
<1>7. grid'[p] = Applied(grid[p], c) /\ \A q \in Pos : q # p => grid'[q] = grid[q] BY <1>1, <1>4
<1> HIDE DEF left
<1>8. /\ store' \in Nat /\ store <= store' /\ store' \in {store, form.rev} /\ form.rev <= store'
      /\ stale => stale'
      /\ form.rev > store /\ ~stale' => loaded = {} /\ \A q \in Pos : grid[q] = Blank
      /\ form.rev < store => stale'
      /\ \A q \in Pos : left[q] = queue[q] /\ queue[q] # NoOp => queue'[q] # NoOp
  BY <1>2, <1>4, <1>5, CaptureFacts
<1>9. /\ UpToDate' = UpToDate /\ NewsComing' = NewsComing
      /\ \A q \in Pos : Stored(q)' = Stored(q)
  BY <1>4 DEF UpToDate, NewsComing, Stored
<1>10. WillHear' /\ TypedIsQueued'
  <2>1. store' # NoRev BY <1>1, <1>8
  <2>2. TypedIsQueued' BY <2>1 DEF TypedIsQueued
  <2>3. WillHear' BY <1>1, <1>8, <1>9, <2>1, HearKept
  <2> QED BY <2>2, <2>3
<1>11. \A q \in Pos : q # p /\ Coming(q) => Coming(q)' BY <1>5, <1>8, <1>9, ComingKept
<1>12. store = rev => store' = rev BY <1>1, <1>2, <1>8
<1>13. ASSUME ~stale', ~covered', UpToDate, form.rev = rev, ~full[rows[p]], ~grid[p].full
       PROVE  Shows(p)'
  <2>1. c.full => full[rows[p]] BY <1>1, <1>3, <1>4, <1>13 DEF NewsStand
  <2>2. ~grid'[p].full BY <1>7, <1>13, <2>1 DEF Applied
  <2> QED BY <1>13, <2>2 DEF Shows
<1>14. ASSUME ~stale', ~covered', UpToDate PROVE Carried(p)
  <2>1. queue[p] = NoOp /\ ~(c # Blank /\ grid[p].ver > c.ver) BY <1>4, <1>14
  <2>2. form.rev >= store BY <1>1, <1>2, <1>8, <1>14
  <2>3. ASSUME ~Coming(p)', Coming(p) PROVE store' = rev /\ grid'[p] = Stored(p)
    <3>1. ~(form.phase = "ok" /\ form.ops[p] # NoOp /\ form.rev = rev /\ form.cells[p] = Stored(p))
            => Coming(p)'
      BY <1>9, <2>1, <2>3 DEF Coming
    <3>2. form.rev = rev /\ c = Stored(p) BY <1>3, <2>3, <3>1
    <3>3. store' = rev BY <1>1, <1>8, <3>2
    <3>4. c # Blank BY <1>1, <1>6, <3>2, StoredIs
    <3> QED BY <1>7, <3>2, <3>3, <3>4 DEF Applied
  <2>4. ASSUME store = rev, grid[p] = Stored(p) PROVE store' = rev /\ grid'[p] = Stored(p)
    <3>1. form.rev = rev /\ store' = rev BY <1>1, <1>2, <1>8, <2>2, <2>4
    <3>2. CASE c = Blank BY <1>7, <2>4, <3>1, <3>2 DEF Applied
    <3>3. CASE c # Blank
      <4>1. /\ c.ver \in Nat /\ Stored(p).ver \in Nat /\ c.ver <= Stored(p).ver
            /\ Stored(p).ver > 0 /\ c.ver = Stored(p).ver => c = Stored(p)
        BY <1>1, <1>6, <3>1, StoredIs
      <4>2. KnownAt(ver, full, grid[p]) /\ grid[p].row = rows[p] BY <2>4, KnownFacts DEF Stored
      <4>3. Stored(p).ver > 0 BY <1>1, <1>6, <2>4, <4>2, StoredIs
      <4>4. c = Stored(p) BY <2>1, <2>4, <3>3, <4>1, <4>3
      <4> QED BY <1>7, <3>1, <3>3, <4>4 DEF Applied
    <3> QED BY <3>2, <3>3
  <2>5. ASSUME store = rev, Shows(p) PROVE Shows(p)'
    <3>1. form.rev = rev BY <1>1, <1>2, <2>2, <2>5
    <3>2. CASE full[rows[p]]
      <4>1. grid'[p] = Stored(p) BY <2>4, <2>5, <3>2, StoredSays
      <4> QED BY <1>9, <4>1, StoredSame
    <3>3. CASE ~full[rows[p]] BY <1>13, <1>14, <2>5, <3>1, <3>3, StoredSays
    <3> QED BY <3>2, <3>3
  <2> QED BY <1>9, <2>3, <2>4, <2>5 DEF Carried
<1>15. ASSUME ~stale', ~covered', UpToDate, NEW q \in Pos PROVE Carried(q)
  <2>1. CASE q # p
    <3>1. grid'[q] = grid[q] BY <1>7, <2>1
    <3>2. Shows(q)' = Shows(q) BY <1>9, <3>1 DEF Shows
    <3> QED BY <1>9, <1>11, <1>12, <2>1, <3>1, <3>2 DEF Carried
  <2>2. CASE q = p BY <1>14, <1>15, <2>2
  <2> QED BY <2>1, <2>2
<1>16. ASSUME ~stale', ~covered', UpToDate, store' = rev, NEW q \in Pos, Vouched(q)'
       PROVE  (Vouched(q) /\ store = rev /\ Carried(q)) \/ Shows(q)'
  <2>1. CASE store = rev BY <1>15, <1>16, <2>1 DEF Vouched
  <2>2. CASE store # rev
    <3>1. form.rev = rev /\ form.rev > store BY <1>1, <1>2, <1>8, <1>16, <2>2
    <3>2. loaded = {} /\ grid[q] = Blank BY <1>8, <1>16, <3>1
    <3>3. ~full[rows[q]] /\ ~grid[q].full BY <1>16, <3>2, ConstantTypes DEF Vouched
    <3>4. CASE q = p BY <1>13, <1>16, <3>1, <3>3, <3>4
    <3>5. CASE q # p
      <4>1. ~grid'[q].full BY <1>7, <3>3, <3>5
      <4> QED BY <3>3, <4>1 DEF Shows
    <3> QED BY <3>4, <3>5
  <2> QED BY <2>1, <2>2
<1>17. \A x \in reads' : x.done => x.tile \in Pos BY ReadKinds DEF Within
<1>18. UpToDate' /\ ~stale' /\ ~covered' =>
         /\ UpToDate /\ ~stale /\ ~covered
         /\ store' = rev => \A q \in Pos : Vouched(q)' => \/ Vouched(q) /\ store = rev /\ Carried(q)
                                                          \/ Shows(q)' \/ Coming(q)'
         /\ \A x \in reads' : x.current /\ x.done /\ x.rev = rev => Carried(x.tile)
  BY <1>4, <1>8, <1>9, <1>15, <1>16, <1>17
<1>19. Agrees' BY <1>18, AgreesKept
<1> QED BY <1>10, <1>19 DEF ScreenInv

LEMMA BarAnsweredConverges ==
  ASSUME ConvAll, BarAnswered \/ BarWithout
  PROVE  ScreenInv'
<1>1. /\ TypeInv /\ TypeOK /\ NewsSound /\ rev \in Nat /\ store \in Int /\ NoRev = -1
      /\ reads \in SUBSET Read
  BY ConvFacts DEF TypeOK
<1>2. /\ UNCHANGED <<rows, rev, ver, full, inbox, conn, save, own>> /\ form.phase = "ok"
  BY DEF BarAnswered, BarWithout
<1>3. /\ BarPos \in Pos /\ form.rev \in 0 .. rev
      /\ \A q \in Pos : form.ops[q] # NoOp => q = BarPos
  BY <1>1, <1>2, BarPosFacts DEF NewsSound, Told
<1>4. CASE BarAnswered /\ due
  <2>1. RefreshSheet(FALSE) /\ store' = Newest(store, form.rev) BY <1>4 DEF BarAnswered
  <2>2. store' \in Nat BY <1>3, <2>1, NewestLands, ConvFacts
  <2>3. store' # NoRev /\ FALSE \in BOOLEAN BY <1>1, <2>2
  <2> QED BY <2>1, <2>3, RefreshConverges
<1>5. CASE BarAnswered /\ ~due
  <2>1. BarShows(BarPos) /\ UNCHANGED <<loaded, reads>> /\ form' = NoBatch BY <1>5 DEF BarAnswered
  <2>2. form'.phase # "ok" BY <2>1, ConstantTypes
  <2> QED BY <1>2, <1>3, <2>1, <2>2, WithinItself, BarShowsConverges
<1>6. CASE BarWithout
  <2>1. /\ BarShows(BarPos) /\ loaded' = loaded \ {BarPos}
        /\ reads' = Asked(reads, {BarPos}, {"bar"}) /\ form' = [form EXCEPT !.phase = "reload"]
    BY <1>6 DEF BarWithout
  <2>2. form'.phase # "ok" BY <1>1, <2>1 DEF TypeOK, Batch
  <2>3. Within(reads', reads)
    <3>1. {BarPos} \in SUBSET Pos /\ {"bar"} \in SUBSET Tags BY <1>3 DEF Tags
    <3> QED BY <1>1, <2>1, <3>1, AskedType
  <2> QED BY <1>2, <1>3, <2>1, <2>2, <2>3, BarShowsConverges
<1> QED BY <1>4, <1>5, <1>6


LEMMA StructureConverges ==
  ASSUME ConvAll, StructureAnswered \/ StructureRefused \/ StructureFails
  PROVE  ScreenInv'
<1>1. TypeOK /\ NewsSound /\ rev \in Nat /\ store \in Int /\ NoRev = -1 /\ saving \in BOOLEAN
  BY ConvFacts DEF TypeOK
<1>2. CASE StructureAnswered
  <2>1. ResetScreen({}) /\ {} \in SUBSET Tags BY <1>2 DEF StructureAnswered
  <2> QED BY <1>1, <2>1, ResetConverges
<1>3. CASE StructureRefused
  <2>1. own.phase = "conflict" /\ RefreshSheet(saving) /\ store' = Newest(store, own.rev)
    BY <1>3 DEF StructureRefused
  <2>2. own.rev \in 0 .. rev BY <1>1, <2>1 DEF NewsSound
  <2>3. store' \in Nat BY <2>1, <2>2, NewestLands, ConvFacts
  <2>4. store' # NoRev BY <1>1, <2>3
  <2> QED BY <1>1, <2>1, <2>4, RefreshConverges
<1>4. CASE StructureFails
  <2>1. /\ UNCHANGED <<rows, rev, ver, full, inbox, conn, store, screen, queue, due, save, form, stale, covered>>
        /\ blind' = (blind \/ own.phase = "ok")
    BY <1>4 DEF StructureFails
  <2>2. UpToDate' => UpToDate /\ own.phase # "ok" BY <2>1 DEF UpToDate
  <2>3. UpToDate' => (NewsComing => NewsComing') BY <2>1, <2>2 DEF NewsComing
  <2>4. \A p \in Pos : Coming(p) => Coming(p)' BY <2>1, ComingKept DEF Stored
  <2> QED BY <2>1, <2>2, <2>3, <2>4, WithinItself, PassiveConverges
<1> QED BY <1>2, <1>3, <1>4

LEMMA QuietSocketConverges ==
  ASSUME ConvAll, Join \/ Disconnect \/ \E m \in inbox : OldNews(m)
  PROVE  ScreenInv'
<1>1. /\ TypeOK /\ rev \in Nat /\ store \in Int /\ store <= rev /\ WillHear /\ TypedIsQueued
  BY ConvFacts
<1>2. UNCHANGED <<rows, rev, ver, full, store, screen, queue, due, save, form, own, holes>>
  BY DEF Join, Disconnect, OldNews
<1>3. Within(reads', reads) BY <1>2, WithinItself
<1>4. CASE Join
  <2>1. inbox' = inbox /\ (UpToDate' => UpToDate) BY <1>2, <1>4 DEF Join, UpToDate
  <2>2. NewsComing => NewsComing' BY <1>2, <2>1 DEF NewsComing
  <2>3. \A p \in Pos : Coming(p) => Coming(p)' BY <1>2, <2>1, ComingKept DEF Stored
  <2> QED BY <1>2, <1>3, <2>1, <2>2, <2>3, PassiveConverges
<1>5. CASE Disconnect
  <2>1. ~UpToDate' BY <1>5 DEF Disconnect, UpToDate
  <2>2. TypedIsQueued' BY <1>1, <1>2 DEF TypedIsQueued
  <2> QED BY <1>1, <1>2, <2>1, <2>2 DEF WillHear, Agrees, ScreenInv
<1>6. ASSUME NEW m \in inbox, OldNews(m)
      PROVE  ScreenInv'
  <2>1. inbox' = inbox \ {m} /\ conn' = conn BY <1>6 DEF OldNews
  <2>2. \/ m.kind = "refresh" /\ m.rev <= store
        \/ m.kind = "cells" /\ m.rev < store
    BY <1>6 DEF OldNews
  <2>3. UpToDate' => UpToDate BY <1>2, <2>1 DEF UpToDate
  <2>4. m.rev \in Int BY <1>1, MessageFacts DEF Rev, NoRev
  <2>5. store < rev /\ NewsComing => NewsComing'
    <3>1. store < rev => ~(m.kind = "refresh" /\ m.rev = rev) BY <1>1, <2>2, <2>4
    <3> QED BY <1>2, <2>1, <3>1 DEF NewsComing
  <2>6. ~(m.kind = "cells" /\ m.rev = rev) BY <1>1, <2>2, <2>4
  <2>7. \A p \in Pos : Coming(p) => Coming(p)' BY <1>2, <2>1, <2>6, ComingKept DEF Stored
  <2> QED BY <1>2, <1>3, <2>3, <2>5, <2>7, PassiveConverges
<1> QED BY <1>4, <1>5, <1>6

LEMMA SocketRefreshConverges ==
  ASSUME ConvAll, Rejoin \/ \E m \in inbox : NewStructure(m)
  PROVE  ScreenInv'
<1>1. TypeOK /\ NewsSound /\ rev \in Nat /\ store \in Int /\ NoRev = -1 /\ saving \in BOOLEAN
  BY ConvFacts DEF TypeOK
<1>2. RefreshSheet(saving) BY DEF Rejoin, NewStructure
<1>3. store' = store \/ \E m \in inbox : store' = m.rev BY DEF Rejoin, NewStructure
<1>4. \A m \in inbox : m.rev \in Nat BY <1>1 DEF NewsSound
<1>5. store' = NoRev => store = NoRev BY <1>1, <1>3, <1>4
<1> QED BY <1>1, <1>2, <1>5, RefreshConverges

LEMMA PeerCellsConverges ==
  ASSUME ConvAll, NEW m \in inbox, PeerCells(m)
  PROVE  ScreenInv'
<1>1. /\ TypeOK /\ Sized /\ WillHear /\ TypedIsQueued /\ NewsSound /\ NewsStand
      /\ rev \in Nat /\ store \in Int /\ store <= rev
      /\ loaded \subseteq Pos /\ grid \in [Pos -> Cell] /\ NoRev = -1
  BY ConvFacts DEF TypeOK
<1>2. /\ UNCHANGED <<rows, rev, ver, full, conn, loaded, reads, queue, due, save, form, own, holes>>
      /\ m.kind = "cells" /\ (store = NoRev \/ m.rev = store) /\ inbox' = inbox \ {m}
      /\ store' = m.rev
      /\ grid' = IF queue[m.pos] # NoOp THEN grid
                 ELSE [grid EXCEPT ![m.pos] = Merged(grid[m.pos], m.cell)]
  BY DEF PeerCells
<1>3. m.rev \in 0 .. rev /\ Sound(m.rev, m.cell.row, m.pos) BY <1>1, <1>2 DEF NewsSound
<1>4. m.pos \in Pos /\ m.cell \in Cell /\ KnownAt(ver, full, m.cell)
  BY <1>1, <1>2, MessageFacts, KnownFacts
<1>5. store' \in Nat /\ store <= store' BY <1>1, <1>2, <1>3
<1>6. UpToDate' = UpToDate /\ \A p \in Pos : Stored(p)' = Stored(p)
  BY <1>2 DEF UpToDate, Stored
<1>7. NewsComing => NewsComing' BY <1>2 DEF NewsComing
<1>8. Within(reads', reads) BY <1>2, WithinItself
<1>9. WillHear' /\ TypedIsQueued'
  <2>1. store' # NoRev BY <1>1, <1>5
  <2>2. TypedIsQueued' BY <2>1 DEF TypedIsQueued
  <2>3. WillHear' BY <1>1, <1>2, <1>5, <1>6, <1>7, <1>8, <2>1, HearKept
  <2> QED BY <2>2, <2>3
<1>10. \A p \in Pos : p # m.pos => (Coming(p) => Coming(p)') /\ grid'[p] = grid[p]
  <2> SUFFICES ASSUME NEW p \in Pos, p # m.pos PROVE (Coming(p) => Coming(p)') /\ grid'[p] = grid[p]
    OBVIOUS
  <2>1. grid'[p] = grid[p] BY <1>1, <1>2, <1>4
  <2>2. Coming(p) => Coming(p)' BY <1>2, <1>6, ComingKept
  <2> QED BY <2>1, <2>2
<1>11. store = rev => store' = rev BY <1>1, <1>2
<1>12. queue[m.pos] = NoOp => grid'[m.pos] = Merged(grid[m.pos], m.cell) BY <1>1, <1>2, <1>4
<1>13. ASSUME ~covered, m.rev = rev, queue[m.pos] = NoOp, ~full[rows[m.pos]], ~grid[m.pos].full
       PROVE  Shows(m.pos)'
  <2>1. ~m.cell.full BY <1>1, <1>2, <1>4, <1>13 DEF NewsStand
  <2>2. ~grid'[m.pos].full BY <1>12, <1>13, <2>1 DEF Merged
  <2> QED BY <1>2, <1>13, <2>2 DEF Shows
<1>14. ASSUME UpToDate, ~stale, ~covered, NEW p \in Pos, p = m.pos
       PROVE  Carried(p)
  <2>1. CASE queue[p] # NoOp
    <3>1. Coming(p)' BY <1>2, <2>1 DEF Coming
    <3> QED BY <3>1 DEF Carried
  <2>2. CASE queue[p] = NoOp
    <3>1. grid'[p] = Merged(grid[p], m.cell) BY <1>12, <1>14, <2>2
    <3>2. ASSUME m.rev = rev, store = rev \/ store = NoRev, grid[p] = Stored(p) \/ m.cell = Stored(p)
          PROVE  grid'[p] = Stored(p)
      <4>1. m.cell.row \in {NoRow, rows[p]} BY <1>3, <1>14, <3>2 DEF Sound, OnRow
      <4>2. grid[p].row \in {NoRow, rows[p]} BY <1>14, <3>2, ShownRows
      <4> QED BY <1>1, <1>4, <3>1, <3>2, <4>1, <4>2, KnownFacts, MergeStored
    <3>3. store = rev => m.rev = rev BY <1>1, <1>2
    <3>4. store = rev /\ grid[p] = Stored(p) => store' = rev /\ grid'[p] = Stored(p)
      BY <1>11, <3>2, <3>3
    <3>5. ASSUME Coming(p), ~Coming(p)' PROVE store' = rev /\ grid'[p] = Stored(p)
      <4>1. CASE m.rev = rev /\ m.cell = Stored(p)
        <5>1. store = rev \/ store = NoRev BY <1>2, <4>1
        <5> QED BY <1>2, <3>2, <4>1, <5>1
      <4>2. CASE ~(m.rev = rev /\ m.cell = Stored(p))
        <5>1. \A n \in inbox : n.kind = "cells" /\ n.pos = p /\ n.rev = rev /\ n.cell = Stored(p)
                => n \in inbox'
          BY <1>2, <4>2
        <5>2. Coming(p)' BY <1>2, <1>6, <3>5, <5>1 DEF Coming
        <5> QED BY <3>5, <5>2
      <4> QED BY <4>1, <4>2
    <3>6. ASSUME store = rev, Shows(p) PROVE Shows(p)'
      <4>1. CASE full[rows[p]]
        <5>1. grid'[p] = Stored(p) BY <3>4, <3>6, <4>1, StoredSays
        <5> QED BY <1>6, <5>1, StoredSame
      <4>2. CASE ~full[rows[p]] BY <1>13, <1>14, <2>2, <3>3, <3>6, <4>2, StoredSays
      <4> QED BY <4>1, <4>2
    <3> QED BY <1>6, <3>4, <3>5, <3>6 DEF Carried
  <2> QED BY <2>1, <2>2
<1>15. ASSUME UpToDate, ~stale, ~covered, NEW q \in Pos PROVE Carried(q)
  <2>1. CASE q = m.pos BY <1>14, <1>15, <2>1
  <2>2. CASE q # m.pos
    <3>1. Shows(q)' = Shows(q) BY <1>2, <1>6, <1>10, <2>2 DEF Shows
    <3> QED BY <1>6, <1>10, <1>11, <2>2, <3>1 DEF Carried
  <2> QED BY <2>1, <2>2
<1>16. ASSUME UpToDate, ~stale, ~covered, store' = rev, NEW q \in Pos, Vouched(q)'
       PROVE  \/ Vouched(q) /\ store = rev /\ Carried(q)
              \/ Shows(q)' \/ Coming(q)'
  <2>1. CASE store = rev BY <1>2, <1>15, <1>16, <2>1 DEF Vouched
  <2>2. CASE queue[q] # NoOp BY <1>2, <2>2 DEF Coming
  <2>3. CASE store # rev /\ queue[q] = NoOp
    <3>1. store = NoRev /\ m.rev = rev BY <1>2, <1>16, <2>3
    <3>2. loaded = {} /\ ~due BY <1>1, <1>16, <3>1 DEF WillHear, UpToDate
    <3>3. ~full[rows[q]] BY <1>2, <1>16, <3>2 DEF Vouched
    <3>4. ~grid[q].full BY <1>1, <2>3, <3>1, <3>2 DEF TypedIsQueued
    <3>5. CASE q = m.pos BY <1>13, <1>16, <2>3, <3>1, <3>3, <3>4, <3>5
    <3>6. CASE q # m.pos
      <4>1. ~grid'[q].full BY <1>10, <3>4, <3>6
      <4> QED BY <1>2, <3>3, <4>1 DEF Shows
    <3> QED BY <3>5, <3>6
  <2> QED BY <2>1, <2>2, <2>3
<1>17. \A x \in reads' : x.tile \in Pos BY <1>2, ReadKinds
<1>18. UpToDate' /\ ~stale' /\ ~covered' =>
         /\ UpToDate /\ ~stale /\ ~covered
         /\ store' = rev => \A q \in Pos : Vouched(q)' => \/ Vouched(q) /\ store = rev /\ Carried(q)
                                                          \/ Shows(q)' \/ Coming(q)'
         /\ \A x \in reads' : x.current /\ x.done /\ x.rev = rev => Carried(x.tile)
  BY <1>2, <1>6, <1>15, <1>16, <1>17
<1>19. Agrees' BY <1>2, <1>8, <1>18, AgreesKept
<1> QED BY <1>9, <1>19 DEF ScreenInv

LEMMA ScreenStep == ConvAll /\ [Next]_vars => ScreenInv'
<1> SUFFICES ASSUME ConvAll, [Next]_vars PROVE ScreenInv' OBVIOUS
<1>1. CASE Peers BY <1>1, PeerRestructuresConverges, PeerWritesConverges DEF Peers
<1>2. CASE Server BY <1>2, ServerConverges
<1>3. CASE User \/ FlushPendingOps BY <1>3, UserConverges
<1>4. CASE Answers
  BY <1>4, SaveAnsweredConverges, SaveEndsConverges, BarAnsweredConverges, BarEndsConverges,
     StructureConverges, ReadAnsweredConverges DEF Answers
<1>5. CASE Faults
  <2>1. ASSUME NEW x \in reads, ReadFails(x) PROVE ScreenInv'
    <3>1. /\ UNCHANGED <<rows, rev, ver, full, inbox, conn, store, grid, loaded, queue, due, calls, holes>>
          /\ reads' = Ended(reads, x)
      BY <2>1 DEF ReadFails
    <3>2. Within(reads', reads) BY <3>1, EndedType, ConvFacts DEF TypeOK
    <3>3. /\ UpToDate' => UpToDate
          /\ NewsComing => NewsComing'
      BY <3>1 DEF UpToDate, NewsComing
    <3>4. \A p \in Pos : Coming(p) => Coming(p)' BY <3>1, ComingKept DEF Stored
    <3> QED BY <3>1, <3>2, <3>3, <3>4, PassiveConverges
  <2> QED BY <1>5, <2>1, SaveEndsConverges, BarEndsConverges, StructureConverges,
             QuietSocketConverges DEF Faults
<1>6. CASE Socket
  BY <1>6, QuietSocketConverges, SocketRefreshConverges, PeerCellsConverges DEF Socket
<1>7. CASE UNCHANGED vars
  <2>1. UNCHANGED <<rows, rev, ver, full, inbox, conn, store, screen, queue, due, calls, holes>>
    BY <1>7 DEF vars
  <2>2. UpToDate' => UpToDate BY <2>1 DEF UpToDate
  <2>3. NewsComing => NewsComing' BY <2>1 DEF NewsComing
  <2>4. \A p \in Pos : Coming(p) => Coming(p)' BY <2>1, ComingKept DEF Stored
  <2> QED BY <2>1, <2>2, <2>3, <2>4, WithinItself, PassiveConverges
<1> QED BY <1>1, <1>2, <1>3, <1>4, <1>5, <1>6, <1>7 DEF Next


\* What is on its way to position p is right about there being a value.
Stands(p) ==
  /\ form.phase = "ok" /\ form.rev = rev /\ form.cells[p].full => full[rows[p]]
  /\ \A n \in Batches : save[n].phase = "ok" /\ save[n].rev = rev /\ save[n].cells[p].full => full[rows[p]]
  /\ \A m \in inbox : m.kind = "cells" /\ m.pos = p /\ m.rev = rev /\ m.cell.full => full[rows[p]]

LEMMA StandsIs == NewsStand <=> (~covered => \A p \in Pos : Stands(p))
BY DEF NewsStand, Stands

\* Nothing more is on its way, and the server's cells are as they were.
LEMMA StandsKept ==
  ASSUME NewsStand, UNCHANGED <<rows, rev, full>>,
         form' = form \/ form'.phase # "ok",
         \A n \in Batches : save'[n] = save[n] \/ save'[n].phase # "ok",
         inbox' \subseteq inbox,
         covered => covered' \/ \A p \in Pos : ~OnItsWay(p)
  PROVE  NewsStand'
<1> SUFFICES ASSUME ~covered', NEW p \in Pos PROVE Stands(p)' BY DEF NewsStand, Stands
<1>1. CASE ~covered
  <2>1. Stands(p) BY <1>1, StandsIs
  <2> QED BY <2>1 DEF Stands
<1>2. CASE ~OnItsWay(p) BY <1>2 DEF OnItsWay, Stands
<1> QED BY <1>1, <1>2

LEMMA RefreshCovers ==
  ASSUME NEW busy, RefreshSheet(busy)
  PROVE  covered => covered' \/ \A p \in Pos : ~OnItsWay(p)
BY DEF RefreshSheet, ResetScreen

LEMMA StopCovers ==
  ASSUME NEW lost, StopSaving(lost)
  PROVE  covered => covered' \/ \A p \in Pos : ~OnItsWay(p)
BY RefreshCovers DEF StopSaving

LEMMA PeersStand ==
  ASSUME ConvAll, Peers
  PROVE  NewsStand'
<1>1. /\ TypeOK /\ Sized /\ Distinct /\ NewsSound /\ NewsStand /\ rev \in Nat
      /\ full \in [Row -> BOOLEAN]
  BY ConvFacts DEF TypeOK
<1>2. ASSUME NEW k \in session.kinds, NEW p \in Pos, PeerRestructures(k, p)
      PROVE  NewsStand'
  <2>1. /\ UNCHANGED <<form, save>> /\ rev' = rev + 1
        /\ Broadcast([kind |-> "refresh", rev |-> rev + 1])
    BY <1>2 DEF PeerRestructures
  <2>2. \A m \in inbox' : m \in inbox \/ m.kind = "refresh" BY <2>1 DEF Broadcast
  <2>3. /\ form.phase = "ok" => form.rev # rev'
        /\ \A n \in Batches : save[n].phase = "ok" => save[n].rev # rev'
        /\ \A m \in inbox : m.rev # rev'
    BY <1>1, <2>1 DEF NewsSound, Told
  <2>4. \A m \in inbox' : m.kind = "cells" => m.rev # rev' BY <2>2, <2>3
  <2> QED BY <2>1, <2>3, <2>4 DEF NewsStand
<1>3. ASSUME NEW p \in Pos, PeerWrites(p)
      PROVE  NewsStand'
  <2>1. PICK value \in BOOLEAN :
          /\ full' = [full EXCEPT ![rows[p]] = value]
          /\ Broadcast([kind |-> "cells", pos |-> p, rev |-> rev,
                        cell |-> [row |-> rows[p], ver |-> clock + 1, full |-> value]])
          /\ covered' = (covered \/ (~value /\ OnItsWay(p)))
    BY <1>3 DEF PeerWrites
  <2>2. UNCHANGED <<rows, rev, save, form>> BY <1>3 DEF PeerWrites
  <2>3. \A m \in inbox' : m \in inbox \/ (m.pos = p /\ m.cell.full = value)
    BY <2>1 DEF Broadcast
  <2> SUFFICES ASSUME ~covered', NEW q \in Pos PROVE Stands(q)' BY DEF NewsStand, Stands
  <2>4. Stands(q) BY <1>1, <2>1, StandsIs
  <2>5. rows[p] \in Row BY <1>1, RowAt
  <2>6. CASE q # p
    <3>1. rows[q] # rows[p] BY <1>1, <2>6, PositionsDiffer
    <3>2. full'[rows[q]] = full[rows[q]] BY <1>1, <2>1, <2>5, <3>1
    <3> QED BY <2>2, <2>3, <2>4, <2>6, <3>2 DEF Stands
  <2>7. CASE q = p /\ value
    <3>1. full'[rows[p]] BY <1>1, <2>1, <2>5, <2>7
    <3> QED BY <2>2, <2>7, <3>1 DEF Stands
  <2>8. CASE q = p /\ ~value
    <3>1. ~OnItsWay(p) BY <2>1, <2>8
    <3> QED BY <2>2, <2>3, <2>8, <3>1 DEF Stands, OnItsWay
  <2> QED BY <2>6, <2>7, <2>8
<1> QED BY <1>2, <1>3 DEF Peers

\* The server has made batch b, which was not made before.
LEMMA ServeStands ==
  ASSUME ConvAll, NEW b \in Batch, NEW answer, ServeBatch(b, answer), UNCHANGED <<rows, rev, inbox>>,
         \/ form' = answer /\ UNCHANGED save
         \/ /\ UNCHANGED form
            /\ \A n \in Batches : save'[n] \in {save[n], answer}
  PROVE  NewsStand'
<1>1. /\ TypeOK /\ Sized /\ NewsStand /\ \A p \in Pos : rows[p] \in Row
  BY ConvFacts, RowAt
<1>2. CASE answer = Refused(b) /\ UNCHANGED <<full, covered>>
  <2>1. answer.phase # "ok" BY <1>1, <1>2, DoneType
  <2> QED BY <1>1, <1>2, <2>1, StandsKept
<1>3. CASE /\ answer = Done(b) /\ (covered => covered')
           /\ \A r \in Row : (\A p \in Written(b) : r # rows[p]) => ver'[r] = ver[r] /\ full'[r] = full[r]
           /\ \A p \in Pos : answer.cells[p].full => p \in Written(b) /\ full'[rows[p]]
           /\ \A p \in Written(b) : full'[rows[p]] \/ ~OnItsWay(p) \/ covered'
  <2> SUFFICES ASSUME ~covered', NEW q \in Pos, ~full'[rows[q]] PROVE Stands(q)'
    BY DEF NewsStand, Stands
  <2>1. Stands(q) BY <1>1, <1>3, StandsIs
  <2>2. ~answer.cells[q].full BY <1>3
  <2>3. ~OnItsWay(q) \/ ~full[rows[q]]
    <3>1. CASE q \in Written(b) BY <1>3, <3>1
    <3>2. CASE q \notin Written(b)
      <4>1. \A p \in Written(b) : rows[q] # rows[p]
        BY <1>1, <3>2, PositionsDiffer, ConvFacts DEF Written, Submitted
      <4> QED BY <1>1, <1>3, <4>1
    <3> QED BY <3>1, <3>2
  <2>4. /\ ~(form.phase = "ok" /\ form.rev = rev /\ form.cells[q].full)
        /\ \A n \in Batches : ~(save[n].phase = "ok" /\ save[n].rev = rev /\ save[n].cells[q].full)
        /\ \A m \in inbox : ~(m.kind = "cells" /\ m.pos = q /\ m.rev = rev /\ m.cell.full)
    <3>1. CASE ~OnItsWay(q) BY <3>1 DEF OnItsWay
    <3>2. CASE ~full[rows[q]] BY <2>1, <3>2 DEF Stands
    <3> QED BY <2>3, <3>1, <3>2
  <2>5. /\ ~(form'.phase = "ok" /\ form'.rev = rev /\ form'.cells[q].full)
        /\ \A n \in Batches : ~(save'[n].phase = "ok" /\ save'[n].rev = rev /\ save'[n].cells[q].full)
    BY <2>2, <2>4
  <2> QED BY <2>4, <2>5 DEF Stands
<1> QED BY <1>1, <1>2, <1>3, ServeWrites

LEMMA ServerStands ==
  ASSUME ConvAll, Server
  PROVE  NewsStand'
<1>1. /\ TypeOK /\ NewsSound /\ NewsStand /\ rev \in Nat
      /\ save \in [Batches -> Batch] /\ form \in Batch
  BY ConvFacts DEF TypeOK
<1>2. CASE ServeFormula
  <2>1. PICK b \in {Done(form), Refused(form)} : ServeBatch(form, b) /\ form' = b
    BY <1>2 DEF ServeFormula
  <2>2. UNCHANGED <<rows, rev, inbox, save>> BY <1>2 DEF ServeFormula
  <2> QED BY <1>1, <2>1, <2>2, ServeStands
<1>3. ASSUME NEW n \in Batches, ServeSave(n)
      PROVE  NewsStand'
  <2>1. PICK b \in {Done(save[n]), Refused(save[n])} :
          ServeBatch(save[n], b) /\ save' = [save EXCEPT ![n] = b]
    BY <1>3 DEF ServeSave
  <2>2. UNCHANGED <<rows, rev, inbox, form>> BY <1>3 DEF ServeSave
  <2>3. \A k \in Batches : save'[k] \in {save[k], b} BY <1>1, <2>1
  <2>4. save[n] \in Batch BY <1>1
  <2> QED BY <2>1, <2>2, <2>3, <2>4, ServeStands
<1>4. CASE ServeStructure
  <2>1. UNCHANGED <<full, inbox, save, form, covered>> BY <1>4 DEF ServeStructure
  <2>2. CASE rev' = rev + 1
    <3>1. /\ form.phase = "ok" => form.rev # rev'
          /\ \A n \in Batches : save[n].phase = "ok" => save[n].rev # rev'
          /\ \A m \in inbox : m.rev # rev'
      BY <1>1, <2>2 DEF NewsSound, Told
    <3> QED BY <2>1, <3>1 DEF NewsStand
  <2>3. CASE UNCHANGED <<rows, rev>> BY <1>1, <2>1, <2>3, StandsKept
  <2> QED BY <1>4, <2>2, <2>3 DEF ServeStructure
<1>5. ASSUME NEW x \in reads, ReadSheet(x) \/ ServeRead(x)
      PROVE  NewsStand'
  <2>1. UNCHANGED <<rows, rev, full, inbox, save, form, covered>> BY <1>5 DEF ReadSheet, ServeRead
  <2> QED BY <1>1, <2>1, StandsKept
<1> QED BY <1>2, <1>3, <1>4, <1>5 DEF Server

LEMMA TabStands ==
  ASSUME ConvAll, User \/ FlushPendingOps \/ Answers
  PROVE  NewsStand'
<1>1. NewsStand /\ save \in [Batches -> Batch] /\ form \in Batch BY ConvFacts DEF TypeOK
<1>2. CASE User \/ FlushPendingOps
  <2>1. UNCHANGED <<rows, rev, full, inbox, covered>>
    BY <1>2 DEF User, FlushPendingOps, Scroll, OpenEditor, Paste, FocusBar, DropEdit, CommitEdit, Undo,
           SubmitBar, StartStructure
  <2>2. form' = form \/ SubmitBar
    BY <1>2 DEF User, FlushPendingOps, Scroll, OpenEditor, Paste, FocusBar, DropEdit, CommitEdit, Undo,
           StartStructure
  <2>3. SubmitBar => form'.phase # "ok"
    <3> SUFFICES ASSUME SubmitBar PROVE form'.phase # "ok" OBVIOUS
    <3>1. PICK o : form' = [NoBatch EXCEPT !.phase = "sent", !.base = store, !.ops[bar.pos] = o]
      BY DEF SubmitBar
    <3> QED BY <3>1, ConstantTypes DEF NoBatch
  <2>4. \A n \in Batches : save'[n] = save[n] \/ save'[n].phase # "ok"
    <3>1. save' = save \/ FlushPendingOps
      BY <1>2 DEF User, Scroll, OpenEditor, Paste, FocusBar, DropEdit, CommitEdit, Undo, SubmitBar,
             StartStructure
    <3>2. FlushPendingOps => \A n \in Batches : save'[n] = save[n] \/ save'[n].phase # "ok"
      BY <1>1, ConstantTypes DEF FlushPendingOps, NoBatch
    <3> QED BY <3>1, <3>2
  <2> QED BY <1>1, <2>1, <2>2, <2>3, <2>4, StandsKept
<1>3. ASSUME NEW n \in Batches, SaveAnswered(n)
      PROVE  NewsStand'
  <2>1. /\ UNCHANGED <<rows, rev, full, inbox, form>> /\ save' = [save EXCEPT ![n].phase = "reload"]
        /\ covered => covered'
    BY <1>3 DEF SaveAnswered
  <2>2. \A k \in Batches : save'[k] = save[k] \/ save'[k].phase # "ok" BY <1>1, <2>1 DEF Batch
  <2> QED BY <1>1, <2>1, <2>2, StandsKept
<1>4. ASSUME NEW n \in Batches, SaveRefused(n) \/ SaveReloaded(n)
      PROVE  NewsStand'
  <2>1. UNCHANGED <<rows, rev, full, inbox, form>> /\ save' = [save EXCEPT ![n] = NoBatch]
    BY <1>4 DEF SaveRefused, SaveReloaded
  <2>2. \A k \in Batches : save'[k] = save[k] \/ save'[k].phase # "ok"
    BY <1>1, <2>1, ConstantTypes
  <2>3. covered => covered' \/ \A p \in Pos : ~OnItsWay(p)
    BY <1>4, RefreshCovers, StopCovers DEF SaveRefused, SaveReloaded, ConflictWhileSaving
  <2> QED BY <1>1, <2>1, <2>2, <2>3, StandsKept
<1>5. CASE BarAnswered \/ BarWithout \/ BarReloaded \/ BarRefused
  <2>1. UNCHANGED <<rows, rev, full, inbox, save>>
    BY <1>5 DEF BarAnswered, BarWithout, BarReloaded, BarRefused
  <2>2. form'.phase # "ok"
    <3>1. form' = NoBatch \/ form' = [form EXCEPT !.phase = "reload"]
      BY <1>5 DEF BarAnswered, BarWithout, BarReloaded, BarRefused
    <3> QED BY <1>1, <3>1, ConstantTypes DEF Batch
  <2>3. covered => covered' \/ \A p \in Pos : ~OnItsWay(p)
    <3>1. CASE BarAnswered BY <3>1, RefreshCovers DEF BarAnswered, BarShows
    <3>2. CASE BarWithout BY <3>2 DEF BarWithout, BarShows
    <3>3. CASE BarReloaded \/ BarRefused
      BY <3>3, RefreshCovers, StopCovers DEF BarReloaded, BarRefused, ConflictWhileSaving
    <3> QED BY <1>5, <3>1, <3>2, <3>3
  <2> QED BY <1>1, <2>1, <2>2, <2>3, StandsKept
<1>6. CASE StructureAnswered \/ StructureRefused
  <2>1. UNCHANGED <<rows, rev, full, inbox, save, form>>
    BY <1>6 DEF StructureAnswered, StructureRefused
  <2>2. covered => covered' \/ \A p \in Pos : ~OnItsWay(p)
    BY <1>6, RefreshCovers DEF StructureAnswered, StructureRefused, ResetScreen
  <2> QED BY <1>1, <2>1, <2>2, StandsKept
<1>7. ASSUME NEW x \in reads, ReadAnswered(x)
      PROVE  NewsStand'
  <2>1. UNCHANGED <<rows, rev, full, inbox, save, form, covered>> BY <1>7 DEF ReadAnswered
  <2> QED BY <1>1, <2>1, StandsKept
<1> QED BY <1>2, <1>3, <1>4, <1>5, <1>6, <1>7 DEF Answers

LEMMA EventsStand ==
  ASSUME ConvAll, Faults \/ Socket
  PROVE  NewsStand'
<1>1. NewsStand /\ save \in [Batches -> Batch] BY ConvFacts DEF TypeOK
<1>2. ASSUME NEW n \in Batches, SaveFails(n)
      PROVE  NewsStand'
  <2>1. UNCHANGED <<rows, rev, full, inbox, form>> /\ save' = [save EXCEPT ![n] = NoBatch]
    BY <1>2 DEF SaveFails
  <2>2. \A k \in Batches : save'[k] = save[k] \/ save'[k].phase # "ok"
    BY <1>1, <2>1, ConstantTypes
  <2>3. covered => covered' \/ \A p \in Pos : ~OnItsWay(p) BY <1>2, StopCovers DEF SaveFails
  <2> QED BY <1>1, <2>1, <2>2, <2>3, StandsKept
<1>3. CASE BarFails
  <2>1. UNCHANGED <<rows, rev, full, inbox, save>> /\ form'.phase # "ok"
    BY <1>3, ConstantTypes DEF BarFails
  <2>2. covered => covered' \/ \A p \in Pos : ~OnItsWay(p) BY <1>3, StopCovers DEF BarFails
  <2> QED BY <1>1, <2>1, <2>2, StandsKept
<1>4. CASE \/ StructureFails \/ Disconnect \/ Join
           \/ \E x \in reads : ReadFails(x)
           \/ \E m \in inbox : OldNews(m) \/ PeerCells(m)
  <2>1. UNCHANGED <<rows, rev, full, save, form, covered>> /\ inbox' \subseteq inbox
    BY <1>4 DEF StructureFails, Disconnect, Join, ReadFails, OldNews, PeerCells
  <2> QED BY <1>1, <2>1, StandsKept
<1>5. CASE Rejoin \/ \E m \in inbox : NewStructure(m)
  <2>1. UNCHANGED <<rows, rev, full, save, form>> /\ inbox' \subseteq inbox
    BY <1>5 DEF Rejoin, NewStructure
  <2>2. covered => covered' \/ \A p \in Pos : ~OnItsWay(p)
    BY <1>5, RefreshCovers DEF Rejoin, NewStructure
  <2> QED BY <1>1, <2>1, <2>2, StandsKept
<1> QED BY <1>2, <1>3, <1>4, <1>5 DEF Faults, Socket

LEMMA ConvStep == ConvAll /\ [Next]_vars => ConvAll'
<1> SUFFICES ASSUME ConvAll, [Next]_vars PROVE ConvAll' OBVIOUS
<1>1. ScreenInv' BY ScreenStep
<1>2. NewsStand'
  <2>1. CASE UNCHANGED vars
    <3>1. NewsStand BY ConvFacts
    <3> QED BY <2>1, <3>1, StandsKept DEF vars
  <2> QED BY <2>1, PeersStand, ServerStands, TabStands, EventsStand DEF Next
<1> QED BY <1>1, <1>2, ConvFacts, LandStep, DistinctStep, KnownStep DEF ConvAll, ConvergeInv, ScreenInv

LEMMA InitConverges == Init => ConvAll
<1> SUFFICES ASSUME Init PROVE ConvergeInv BY InitLands DEF ConvAll
<1>1. Last \in Nat /\ MaxRev \in Nat BY SheetAssumption
<1>2. rows = [i \in 1 .. Last + MaxRev + 1 |-> i] /\ rev = 0 BY DEF Init
<1>3. NewRow = Last + MaxRev + 2 BY <1>1, <1>2 DEF NewRow
<1>4. Distinct BY <1>1, <1>2, <1>3 DEF Distinct
<1>5. \A x \in reads : ~x.done /\ x.rev = NoRev BY DEF Init, FreshRead
<1>6. AllKnown
  <2>1. \A r \in Row : ver[r] <= clock /\ (full[r] => ver[r] > 0)
    <3> SUFFICES ASSUME NEW r \in Row PROVE ver[r] <= clock /\ (full[r] => ver[r] > 0) OBVIOUS
    <3>1. CASE r <= Last + MaxRev + 1
      <4>1. ver[r] = 1 /\ clock = 1 BY <3>1 DEF Init
      <4> QED BY <4>1
    <3>2. CASE ~(r <= Last + MaxRev + 1)
      <4>1. ver[r] = 0 /\ clock = 1 BY <3>2 DEF Init
      <4>2. full = [q \in Row |-> q <= Last + MaxRev + 1] BY DEF Init
      <4>3. full[r] = (r <= Last + MaxRev + 1) BY <4>2, Zenon
      <4>4. ~full[r] BY <3>2, <4>3, Zenon
      <4> QED BY <4>1, <4>4
    <3> QED BY <3>1, <3>2
  <2>2. \A p \in Pos : /\ grid[p] = Blank /\ form.cells[p] = Blank
                       /\ \A n \in Batches : save[n].cells[p] = Blank
    BY DEF Init, NoBatch
  <2>3. inbox = {} BY DEF Init
  <2> QED BY <1>5, <2>1, <2>2, <2>3, ConstantTypes DEF AllKnown, Known
<1>7. loaded = {} /\ store # rev BY <1>2 DEF Init, NoRev
<1>8. WillHear /\ Agrees BY <1>5, <1>7 DEF WillHear, Agrees
<1>9. TypedIsQueued
  <2>1. \A p \in Pos : ~grid[p].full BY ConstantTypes DEF Init
  <2> QED BY <2>1 DEF TypedIsQueued
<1>10. NewsStand
  <2>1. inbox = {} /\ form.phase # "ok" /\ \A n \in Batches : save[n].phase # "ok"
    BY ConstantTypes DEF Init
  <2> QED BY <2>1 DEF NewsStand
<1> QED BY <1>4, <1>6, <1>8, <1>9, <1>10 DEF ConvergeInv

\* A quiet tab that is joined and was told of everything shows, wherever it has
\* read, what the server has, a cleared cell as none: no order of edits, clears,
\* saves, reads, refreshes, broadcasts and failures leaves an older value on the
\* screen, but for the cases that stale, covered and blind record.
THEOREM ConvergedHolds == Spec => []Converged
<1>1. ConvAll => Converged
  <2> SUFFICES ASSUME ConvAll, Quiescent, ~stale, ~covered, ~blind, NEW p \in loaded
               PROVE  Shows(p)
    BY DEF Converged
  <2>1. TypeOK /\ WillHear /\ Agrees /\ rev \in Nat /\ store \in Int /\ store <= rev BY ConvFacts
  <2>2. UpToDate BY DEF UpToDate, Quiescent
  <2>3. ~NewsComing BY DEF NewsComing, Quiescent
  <2>4. store = rev BY <2>1, <2>2, <2>3 DEF WillHear
  <2>5. p \in Pos BY <2>1 DEF TypeOK
  <2>6. ~Coming(p) BY <2>5 DEF Coming, Quiescent, NoQueue
  <2> QED BY <2>1, <2>2, <2>4, <2>5, <2>6 DEF Agrees
<1> QED BY <1>1, InitConverges, ConvStep, PTL DEF Spec

===============================================================================
