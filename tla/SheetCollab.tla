------------------------------ MODULE SheetCollab ------------------------------
(***************************************************************************)
(* One browser tab editing a shared sheet: its grid, its queue of unsaved  *)
(* edits, its requests and its socket, against a server that other users   *)
(* change at any time.  Rows move (insert, delete, sort), so a position    *)
(* means something only at a revision of the sheet's structure; the server *)
(* refuses a write whose base revision is old, and the tab keeps the       *)
(* newest revision it has heard of.                                        *)
(*                                                                         *)
(* A sheet is one column: a row is an identity, its cell the time of its   *)
(* last write and whether that left a value or cleared it.  Positions are  *)
(* read tile by tile, one position per tile.  The other users are the      *)
(* server's own steps; they always act on the current structure.           *)
(***************************************************************************)
EXTENDS Integers, Sequences

CONSTANTS
  Last,      \* the positions of the grid are 1 .. Last
  Visible,   \* the positions in view
  MaxRev,    \* bound: the structure changes of any session
  MaxEdits,  \* bound: the edits of any session
  Sessions   \* what may happen in a session, see below

Habits == {"edit", "paste", "undo", "formula", "scroll", "structure"}

Kinds == {"insert", "delete", "sort"}

\* What this user does, which structure changes are made, and the bounds of the
\* session: no structure change is started at revision rev, no peer writes
\* after time clock, the tab makes so many edits, cells are cleared or not, and
\* so many requests, connections or broadcasts fail.
Session == [habits : SUBSET Habits, kinds : SUBSET Kinds, rev : 0 .. MaxRev, clock : Nat,
            edits : 0 .. MaxEdits, clears : BOOLEAN, faults : Nat]

ASSUME SheetAssumption ==
  /\ Last \in Nat \ {0}
  /\ Visible \subseteq 1 .. Last
  /\ MaxRev \in Nat /\ MaxEdits \in Nat
  /\ Sessions \subseteq Session

Pos == 1 .. Last

\* The sheet starts with enough rows that no deletion empties a position.
Row == 1 .. Last + 2 * (MaxRev + 1)
NoRow == 0
NoRev == -1

\* What a position shows: a row and the time of its last write, 0 for what was
\* typed here and has no time yet, and whether there is a value.
Cell == [row : Row \cup {NoRow}, ver : Nat, full : BOOLEAN]
Blank == [row |-> NoRow, ver |-> 0, full |-> FALSE]

\* The ways an edit may come to be sent under a revision it was not made at:
\* a response brought a newer revision than the grid shows; the tab's own
\* structure change answered; undo of an older edit; the formula bar.
Ways == {"read", "own", "undo", "formula"}

\* An edit of this tab: its number, the row the user saw, the ways above that it
\* went through, and whether it clears the cell.
Op == [id : 0 .. MaxEdits, aim : Row \cup {NoRow}, why : SUBSET Ways, clear : BOOLEAN]
NoOp == [id |-> 0, aim |-> NoRow, why |-> {}, clear |-> FALSE]

\* A place the user holds on to: the editor, the formula bar, an undo entry.
Target == [pos : Pos \cup {0}, aim : Row \cup {NoRow}, why : SUBSET Ways,
           seen : Nat \cup {NoRev}]
NoTarget == [pos |-> 0, aim |-> NoRow, why |-> {}, seen |-> NoRev]

Rev == Nat \cup {NoRev}

Batch == [phase : {"idle", "sent", "ok", "conflict", "reload"}, ops : [Pos -> Op],
          base : Rev, cells : [Pos -> Cell], rev : Rev]
NoBatch == [phase |-> "idle", ops |-> [p \in Pos |-> NoOp], base |-> NoRev,
            cells |-> [p \in Pos |-> Blank], rev |-> NoRev]

\* bound: batches of the queue under way at a time.  The formula bar ends the
\* saving state of a batch as well as its own, so that a second one may start.
Batches == {"first", "second"}

Change == [phase : {"idle", "sent", "ok", "conflict"}, kind : Kinds,
           pos : Pos, base : Rev, rev : Rev]
NoChange == [phase |-> "idle", kind |-> "sort", pos |-> 1, base |-> NoRev, rev |-> NoRev]

\* Who waits for a read.
Tags == {"refresh", "bar"} \cup Batches

Read == [tile : Pos, current : BOOLEAN, listed : BOOLEAN, tags : SUBSET Tags,
         done : BOOLEAN, rev : Rev, cell : Cell]

Message ==
  [kind : {"cells"}, pos : Pos, cell : Cell, rev : Rev]
    \cup [kind : {"refresh"}, rev : Rev]

VARIABLES
  rows,       \* the server's rows in order
  rev,        \* Sheet.revision
  ver,        \* ver[r]: time of the last write of the cell of r, 0 if it has none
  full,       \* full[r]: the cell of r has a value, and is not cleared
  clock,
  conn,       \* the tab's socket: never joined, open, or down
  inbox,      \* broadcasts on their way to it, in any order
  store,      \* sheetRevisionStore
  grid,       \* cells
  loaded,     \* loadedRangesCache
  reads,      \* requests of tiles
  queue,      \* pendingOps
  armed,      \* the debounce timer of the queue runs
  saving,     \* isSaving
  due,        \* pendingCanonicalRefreshRef
  editor,     \* editingCell
  bar,        \* formulaBarTarget while the bar has the focus
  undo,       \* the last entry of undoStack
  save,       \* the batches of flushPendingOps
  form,       \* the batch of submitFormulaBarValue
  own,        \* the tab's own structure change
  edits,      \* edits made so far
  settled,    \* edits the server has, or that were replaced, or refused with a message
  swallowed,  \* edits the answer of the formula bar took from the queue
  misplaced,  \* the ways of the edits that landed in another row
  stale,      \* a response has moved store past what the grid shows
  blind,      \* the server changed something the tab was not told of
  covered,    \* an older write may have been put, or may be put, over a newer one
  faults,     \* failures so far
  session

server  == <<rows, rev, ver, full, clock>>
socket  == <<conn, inbox>>
screen  == <<grid, loaded, reads>>
pending == <<queue, armed, saving, due>>
hands   == <<editor, bar, undo>>
calls   == <<save, form, own>>
ledger  == <<edits, settled, swallowed, misplaced>>
holes   == <<stale, blind, covered>>
meter   == <<faults, session>>
vars    == <<server, socket, store, screen, pending, hands, calls, ledger, holes, meter>>

TypeOK ==
  /\ rows \in Seq(Row)
  /\ rev \in 0 .. MaxRev + 1
  /\ ver \in [Row -> Nat] /\ full \in [Row -> BOOLEAN]
  /\ clock \in Nat
  /\ conn \in {"never", "open", "down"}
  /\ inbox \subseteq Message
  /\ store \in Rev
  /\ grid \in [Pos -> Cell]
  /\ loaded \subseteq Pos
  /\ reads \subseteq Read
  /\ queue \in [Pos -> Op]
  /\ armed \in BOOLEAN /\ saving \in BOOLEAN /\ due \in BOOLEAN
  /\ editor \in Target /\ bar \in Target /\ undo \in Target
  /\ save \in [Batches -> Batch] /\ form \in Batch /\ own \in Change
  /\ edits \in 0 .. MaxEdits
  /\ settled \subseteq 1 .. MaxEdits
  /\ swallowed \subseteq 1 .. MaxEdits
  /\ misplaced \subseteq SUBSET Ways
  /\ stale \in BOOLEAN /\ blind \in BOOLEAN /\ covered \in BOOLEAN
  /\ session \in Sessions
  /\ faults \in 0 .. session.faults

FreshRead(t, tags) ==
  [tile |-> t, current |-> TRUE, listed |-> TRUE, tags |-> tags, done |-> FALSE,
   rev |-> NoRev, cell |-> Blank]

\* The page has just mounted the grid and asked for what is in view.
Init ==
  /\ rows = [i \in 1 .. Last + MaxRev + 1 |-> i]
  /\ rev = 0
  /\ ver = [r \in Row |-> IF r <= Last + MaxRev + 1 THEN 1 ELSE 0]
  /\ full = [r \in Row |-> r <= Last + MaxRev + 1]
  /\ clock = 1
  /\ conn = "never" /\ inbox = {}
  /\ store = NoRev
  /\ grid = [p \in Pos |-> Blank]
  /\ loaded = {}
  /\ reads = {FreshRead(t, {}) : t \in Visible}
  /\ queue = [p \in Pos |-> NoOp]
  /\ armed = FALSE /\ saving = FALSE /\ due = FALSE
  /\ editor = NoTarget /\ bar = NoTarget /\ undo = NoTarget
  /\ save = [n \in Batches |-> NoBatch] /\ form = NoBatch /\ own = NoChange
  /\ edits = 0 /\ settled = {} /\ swallowed = {} /\ misplaced = {}
  /\ stale = FALSE /\ blind = FALSE /\ covered = FALSE
  /\ faults = 0
  /\ session \in Sessions

-------------------------------------------------------------------------------
(* The server.                                                             *)

Fault ==
  /\ faults < session.faults
  /\ faults' = faults + 1
  /\ UNCHANGED session

\* Sent after the commit; what goes wrong then is logged and nothing else.
Broadcast(m) ==
  \/ /\ inbox' = IF conn = "open" THEN inbox \cup {m} ELSE inbox
     /\ blind' = (blind \/ conn = "never")
     /\ UNCHANGED meter
  \/ /\ conn = "open"
     /\ Fault
     /\ blind' = TRUE
     /\ UNCHANGED inbox

\* The cell of position p, cleared or not.
Stored(p) == [row |-> rows[p], ver |-> ver[rows[p]], full |-> full[rows[p]]]

\* What a read of it returns: a cleared cell is left out.
Canonical(p) == IF full[rows[p]] THEN Stored(p) ELSE Blank

NewRow == Last + MaxRev + rev + 2

Restructured(kind, p) ==
  CASE kind = "insert" ->
         [i \in 1 .. Len(rows) + 1 |->
            IF i < p THEN rows[i] ELSE IF i = p THEN NewRow ELSE rows[i - 1]]
    [] kind = "delete" ->
         [i \in 1 .. Len(rows) - 1 |-> IF i < p THEN rows[i] ELSE rows[i + 1]]
    [] kind = "sort" -> [i \in 1 .. Len(rows) |-> rows[Len(rows) + 1 - i]]

\* Under the row lock of the sheet: _assert_sheet_revision.
Current(base) == base = NoRev \/ base = rev

PeerRestructures(kind, p) ==
  /\ rev < session.rev
  /\ rows' = Restructured(kind, p)
  /\ rev' = rev + 1
  /\ Broadcast([kind |-> "refresh", rev |-> rev + 1])
  /\ UNCHANGED <<ver, full, clock, conn, store, screen, pending, hands, calls, ledger, stale, covered>>

\* A value of position p is on its way to the tab.
OnItsWay(p) ==
  \/ form.phase = "ok" /\ form.cells[p].full
  \/ \E n \in Batches : save[n].phase = "ok" /\ save[n].cells[p].full
  \/ \E m \in inbox : m.kind = "cells" /\ m.pos = p /\ m.cell.full

\* A cell is set, or cleared if it has a value.
PeerWrites(p) ==
  /\ clock <= session.clock
  /\ clock' = clock + 1
  /\ \E value \in BOOLEAN :
       /\ ~value => session.clears /\ full[rows[p]]
       /\ full' = [full EXCEPT ![rows[p]] = value]
       /\ Broadcast([kind |-> "cells", pos |-> p, rev |-> rev,
                     cell |-> [row |-> rows[p], ver |-> clock + 1, full |-> value]])
       /\ covered' = (covered \/ (~value /\ OnItsWay(p)))
  /\ ver' = [ver EXCEPT ![rows[p]] = clock + 1]
  /\ UNCHANGED <<rows, rev, conn, store, screen, pending, hands, calls, ledger, stale>>

Submitted(b) == {p \in Pos : b.ops[p] # NoOp}

\* Where b writes: there is nothing to clear in a cell without a value.
Written(b) == {p \in Submitted(b) : b.ops[p].clear => full[rows[p]]}

Misses(b) ==
  {b.ops[p].why : p \in {q \in Submitted(b) : b.ops[q].aim \notin {NoRow, rows[q]}}}

\* The two answers to a batch b.
Done(b) ==
  [b EXCEPT !.phase = "ok", !.rev = rev,
            !.cells = [p \in Pos |-> IF p \in Written(b)
                                     THEN [row |-> rows[p], ver |-> clock + 1, full |-> ~b.ops[p].clear]
                                     ELSE Blank]]
Refused(b) == [b EXCEPT !.phase = "conflict", !.rev = rev]

\* CellService.batch_update_cells on the batch b.
ServeBatch(b, answer) ==
  \/ /\ Current(b.base)
     /\ answer = Done(b)
     /\ clock' = clock + 1
     /\ ver' = [r \in Row |-> IF \E p \in Written(b) : rows[p] = r THEN clock + 1 ELSE ver[r]]
     /\ full' = [r \in Row |-> IF \E p \in Written(b) : rows[p] = r
                               THEN \E p \in Written(b) : rows[p] = r /\ ~b.ops[p].clear
                               ELSE full[r]]
     /\ covered' = (covered \/ \E p \in Written(b) : b.ops[p].clear /\ OnItsWay(p))
     /\ settled' = settled \cup {b.ops[p].id : p \in Submitted(b)}
     /\ misplaced' = misplaced \cup Misses(b)
  \/ /\ ~Current(b.base)
     /\ answer = Refused(b)
     /\ UNCHANGED <<ver, full, clock, covered, settled, misplaced>>

ServeSave(n) ==
  /\ save[n].phase = "sent"
  /\ \E b \in {Done(save[n]), Refused(save[n])} :
       /\ ServeBatch(save[n], b)
       /\ save' = [save EXCEPT ![n] = b]
  /\ UNCHANGED <<rows, rev, socket, store, screen, pending, hands, form, own,
                 edits, swallowed, stale, blind, meter>>

ServeFormula ==
  /\ form.phase = "sent"
  /\ \E b \in {Done(form), Refused(form)} : ServeBatch(form, b) /\ form' = b
  /\ UNCHANGED <<rows, rev, socket, store, screen, pending, hands, save, own,
                 edits, swallowed, stale, blind, meter>>

ServeStructure ==
  /\ own.phase = "sent"
  /\ \/ /\ Current(own.base)
        /\ rows' = Restructured(own.kind, own.pos)
        /\ rev' = rev + 1
        /\ own' = [own EXCEPT !.phase = "ok", !.rev = rev + 1]
     \/ /\ ~Current(own.base)
        /\ own' = [own EXCEPT !.phase = "conflict", !.rev = rev]
        /\ UNCHANGED <<rows, rev>>
  /\ UNCHANGED <<ver, full, clock, socket, store, screen, pending, hands, save, form, ledger,
                 holes, meter>>

\* The sheet is read, with its revision, and then the cells.
ReadSheet(x) ==
  /\ ~x.done /\ x.rev = NoRev
  /\ reads' = (reads \ {x}) \cup {[x EXCEPT !.rev = rev]}
  /\ UNCHANGED <<server, socket, store, grid, loaded, pending, hands, calls, ledger, holes, meter>>

ServeRead(x) ==
  /\ ~x.done /\ x.rev # NoRev
  /\ reads' = (reads \ {x}) \cup {[x EXCEPT !.done = TRUE, !.cell = Canonical(x.tile)]}
  /\ UNCHANGED <<server, socket, store, grid, loaded, pending, hands, calls, ledger, holes, meter>>

-------------------------------------------------------------------------------
(* Reading tiles.                                                          *)

Newest(a, b) == IF a > b THEN a ELSE b

NoQueue == [p \in Pos |-> NoOp]

QueuedIds == {queue[p].id : p \in {q \in Pos : queue[q] # NoOp}}

Refreshing == \E x \in reads : "refresh" \in x.tags

\* loadCellRange: a tile that is already asked for is waited for, not asked again.
Asked(xs, tiles, tags) ==
  {IF x.listed /\ x.tile \in tiles THEN [x EXCEPT !.tags = @ \cup tags] ELSE x : x \in xs}
    \cup {FreshRead(t, tags) : t \in {u \in tiles : ~\E x \in xs : x.listed /\ x.tile = u}}

\* resetSheetCaches: answers of reads asked before are no longer taken.
Outdated(xs) == {[x EXCEPT !.current = FALSE, !.listed = FALSE] : x \in xs}

\* The finally block: the tile is free to be asked for again, whoever has it.
Ended(xs, x) ==
  {IF y.tile = x.tile THEN [y EXCEPT !.listed = FALSE] ELSE y : y \in xs \ {x}}

Marked(op, why) == IF op = NoOp THEN op ELSE [op EXCEPT !.why = @ \cup why]
MarkedTarget(t, why) == IF t = NoTarget THEN t ELSE [t EXCEPT !.why = @ \cup why]

\* Mutant: what comes in last wins.
MergedLatest(old, new) == IF new = Blank THEN old ELSE new

\* A cell is replaced unless it is known to be newer than what comes in.
Merged(old, new) ==
  IF new = Blank \/ (old.ver > 0 /\ new.ver < old.ver) THEN old ELSE new

\* captureSheetRevision on an answer of revision r; q is the queue then, and
\* taken says whether the cells of the answer go into the grid.  An answer of a
\* newer structure leaves the rest of the grid behind, an older one is behind.
Capture(r, q, taken) ==
  /\ store' = Newest(store, r)
  /\ IF r > store
     THEN /\ queue' = [p \in Pos |-> Marked(q[p], {"read"})]
          /\ editor' = MarkedTarget(editor, {"read"})
          /\ stale' = (stale \/ loaded # {} \/ \E p \in Pos : grid[p] # Blank)
     ELSE /\ queue' = q
          /\ stale' = (stale \/ (taken /\ r < store))
          /\ UNCHANGED editor

\* The cells are taken if the screen has not been reset since.
ReadAnswered(x) ==
  /\ x.done
  /\ Capture(x.rev, queue, x.current)
  /\ IF x.current
     THEN /\ grid' = [grid EXCEPT ![x.tile] = Merged(@, x.cell)]
          /\ loaded' = loaded \cup {x.tile}
     ELSE UNCHANGED <<grid, loaded>>
  /\ reads' = Ended(reads, x)
  /\ UNCHANGED <<server, socket, armed, saving, due, bar, undo, calls, ledger, blind, covered, meter>>

\* The error is logged and nothing else.
ReadFails(x) ==
  /\ Fault
  /\ reads' = Ended(reads, x)
  /\ UNCHANGED <<server, socket, store, grid, loaded, pending, hands, calls, ledger, holes>>

Scroll(p) ==
  /\ "scroll" \in session.habits
  /\ p \notin loaded
  /\ reads' = Asked(reads, {p}, {})
  /\ UNCHANGED <<server, socket, store, grid, loaded, pending, hands, calls, ledger, holes, meter>>

-------------------------------------------------------------------------------
(* The canonical refresh.  The operators below say what becomes of the      *)
(* queue, the editor and the screen; busy is isSaving as the call sees it.  *)

ResetScreen(tags) ==
  /\ grid' = [p \in Pos |-> Blank]
  /\ loaded' = {}
  /\ reads' = Asked(Outdated(reads), Visible, tags)
  /\ stale' = FALSE /\ covered' = (covered /\ \E p \in Pos : OnItsWay(p))

\* Mutant: the queue outlives the refresh.
RefreshKeepsQueue(busy) ==
  /\ editor' = NoTarget
  /\ armed' = (queue # [p \in Pos |-> NoOp])
  /\ due' = busy
  /\ IF busy
     THEN UNCHANGED <<queue, screen, holes>>
     ELSE ResetScreen({"refresh"}) /\ blind' = FALSE /\ UNCHANGED queue

RefreshSheet(busy) ==
  /\ queue' = NoQueue
  /\ editor' = NoTarget
  /\ armed' = FALSE
  /\ due' = busy
  /\ IF busy
     THEN UNCHANGED <<screen, holes>>
     ELSE ResetScreen({"refresh"}) /\ blind' = FALSE

\* Mutant: the end of a save does not look for a refresh that was put off.
StopSavingOnly(lost) ==
  /\ saving' = FALSE
  /\ armed' = (queue # NoQueue)
  /\ blind' = (blind \/ lost)
  /\ UNCHANGED <<queue, due, editor, screen, stale, covered>>

\* setIsSaving(false), with the effects that run on it: a refresh that was put
\* off, or the debounce timer.  lost says that the server made a write of this
\* tab that the tab takes for failed.
StopSaving(lost) ==
  /\ saving' = FALSE
  /\ IF due
     THEN RefreshSheet(FALSE)
     ELSE /\ armed' = (queue # NoQueue)
          /\ blind' = (blind \/ lost)
          /\ UNCHANGED <<queue, due, editor, screen, stale, covered>>

\* publishSheetRevisionConflict: the listener refreshes, and the handler of the
\* error ends with setIsSaving(false), which runs the refresh that was put off.
ConflictWhileSaving(r) ==
  /\ store' = Newest(store, r)
  /\ saving' = FALSE
  /\ RefreshSheet(FALSE)

-------------------------------------------------------------------------------
(* Editing.                                                                *)

Taint == IF stale THEN {"read"} ELSE {}

At(p, why) == [pos |-> p, aim |-> grid[p].row, why |-> why, seen |-> store]

\* setCellValue: shown at once, queued under the position, last write wins.  No
\* text clears the cell.
SetCellValue(p, aim, why) ==
  /\ edits < session.edits
  /\ edits' = edits + 1
  /\ \E clear \in BOOLEAN :
       /\ clear => session.clears
       /\ queue' = [queue EXCEPT ![p] = [id |-> edits + 1, aim |-> aim, why |-> why, clear |-> clear]]
       /\ grid' = [grid EXCEPT ![p].ver = 0, ![p].full = ~clear]
  /\ settled' = IF queue[p] = NoOp THEN settled ELSE settled \cup {queue[p].id}
  /\ armed' = TRUE

OpenEditor(p) ==
  /\ "edit" \in session.habits
  /\ editor = NoTarget
  /\ editor' = At(p, Taint)
  /\ UNCHANGED <<server, socket, store, screen, pending, bar, undo, calls, ledger, holes, meter>>

\* handleCommitEdit: an editor that outlived the structure is thrown away.
DropEdit ==
  /\ editor # NoTarget
  /\ due \/ Refreshing
  /\ editor' = NoTarget
  /\ UNCHANGED <<server, socket, store, screen, pending, bar, undo, calls, ledger, holes, meter>>

CommitEdit ==
  /\ editor # NoTarget
  /\ ~due /\ ~Refreshing
  /\ SetCellValue(editor.pos, editor.aim, editor.why)
  /\ undo' = editor
  /\ editor' = NoTarget
  /\ UNCHANGED <<server, socket, store, loaded, reads, saving, due, bar, calls,
                 swallowed, misplaced, holes, meter>>

\* Paste, fill and the Delete key write to the queue with no editor.
Paste(p) ==
  /\ "paste" \in session.habits
  /\ SetCellValue(p, grid[p].row, Taint)
  /\ undo' = At(p, Taint \cup (IF due THEN {"undo"} ELSE {}))
  /\ UNCHANGED <<server, socket, store, loaded, reads, saving, due, editor, bar, calls,
                 swallowed, misplaced, holes, meter>>

\* The entry has the position of its edit, and nothing takes it off the stack
\* when the structure changes.
Undo ==
  /\ "undo" \in session.habits
  /\ undo # NoTarget
  /\ SetCellValue(undo.pos, undo.aim,
                  undo.why \cup (IF undo.seen = store THEN {} ELSE {"undo"}))
  /\ undo' = NoTarget
  /\ UNCHANGED <<server, socket, store, loaded, reads, saving, due, editor, bar, calls,
                 swallowed, misplaced, holes, meter>>

-------------------------------------------------------------------------------
(* Saving the queue.                                                       *)

\* The debounce timer fires; nothing starts it again when it is turned away.
FlushPendingOps ==
  /\ armed
  /\ armed' = FALSE
  /\ \/ /\ queue = NoQueue \/ saving \/ due \/ Refreshing
        /\ UNCHANGED <<saving, save>>
     \/ /\ ~(queue = NoQueue \/ saving \/ due \/ Refreshing)
        /\ saving' = TRUE
        /\ \E n \in Batches :
             /\ save[n].phase = "idle" /\ (n = "second" => save["first"].phase # "idle")
             /\ save' = [save EXCEPT ![n] = [NoBatch EXCEPT !.phase = "sent", !.ops = queue, !.base = store]]
  /\ UNCHANGED <<server, socket, store, screen, queue, due, hands, form, own, ledger, holes, meter>>

\* Mutant: whatever is queued where the batch wrote leaves the queue.
UnsavedByKey(b, q) == [p \in Pos |-> IF b.ops[p] # NoOp THEN NoOp ELSE q[p]]

\* Only the operations of this batch leave the queue.
Unsaved(b, q) == [p \in Pos |-> IF q[p].id = b.ops[p].id THEN NoOp ELSE q[p]]

\* The answer to a clear that had nothing to clear has no cell.
Applied(old, new) == IF new = Blank THEN old ELSE new

\* The cells of the answer are taken as they are, then their tiles read again;
\* that puts an older value right, unless it should have gone.
SaveAnswered(n) ==
  /\ save[n].phase = "ok"
  /\ Capture(save[n].rev, Unsaved(save[n], queue), TRUE)
  /\ armed' = (Unsaved(save[n], queue) # NoQueue)
  /\ grid' = [p \in Pos |-> IF p \in Submitted(save[n]) THEN Applied(grid[p], save[n].cells[p])
                             ELSE grid[p]]
  /\ loaded' = loaded \ Submitted(save[n])
  /\ reads' = Asked(reads, Submitted(save[n]), {n})
  /\ save' = [save EXCEPT ![n].phase = "reload"]
  /\ covered' = (covered \/ (\E x \in reads : x.current /\ x.done /\ x.tile \in Submitted(save[n]))
                         \/ (\E p \in Submitted(save[n]) : /\ save[n].cells[p] = Blank
                                                          /\ grid[p].full
                                                          /\ Unsaved(save[n], queue)[p] = NoOp))
  /\ UNCHANGED <<server, socket, saving, due, bar, undo, form, own, ledger, blind, meter>>

SaveRefused(n) ==
  /\ save[n].phase = "conflict"
  /\ ConflictWhileSaving(save[n].rev)
  /\ save' = [save EXCEPT ![n] = NoBatch]
  /\ settled' = settled \cup QueuedIds
  /\ UNCHANGED <<server, socket, bar, undo, form, own, edits, swallowed, misplaced, meter>>

\* No answer comes, whether or not the server has the batch; the queue is kept.
\* An operation that the other batch has taken from it is not sent again.
SaveFails(n) ==
  /\ save[n].phase \in {"sent", "ok", "conflict"}
  /\ Fault
  /\ StopSaving(save[n].phase = "ok" /\ \E p \in Submitted(save[n]) : queue[p] = NoOp)
  /\ save' = [save EXCEPT ![n] = NoBatch]
  /\ settled' = IF due THEN settled \cup QueuedIds ELSE settled
  /\ UNCHANGED <<server, socket, store, bar, undo, form, own, edits, swallowed, misplaced>>

SaveReloaded(n) ==
  /\ save[n].phase = "reload"
  /\ ~\E x \in reads : n \in x.tags
  /\ StopSaving(FALSE)
  /\ save' = [save EXCEPT ![n] = NoBatch]
  /\ settled' = IF due THEN settled \cup QueuedIds ELSE settled
  /\ UNCHANGED <<server, socket, store, bar, undo, form, own, edits, swallowed, misplaced, meter>>

-------------------------------------------------------------------------------
(* The formula bar.  It writes past the queue, and asks neither for a       *)
(* refresh that is under way nor for a save.                                *)

FocusBar(p) ==
  /\ "formula" \in session.habits
  /\ bar = NoTarget
  /\ bar' = At(p, Taint \cup (IF due THEN {"formula"} ELSE {}))
  /\ UNCHANGED <<server, socket, store, screen, pending, editor, undo, calls, ledger, holes, meter>>

SubmitBar ==
  /\ bar # NoTarget
  /\ form.phase = "idle"
  /\ edits < session.edits
  /\ edits' = edits + 1
  /\ \E clear \in BOOLEAN :
       /\ clear => session.clears
       /\ form' = [NoBatch EXCEPT
                     !.phase = "sent", !.base = store,
                     !.ops[bar.pos] = [id |-> edits + 1, aim |-> bar.aim, clear |-> clear,
                                       why |-> bar.why \cup (IF bar.seen = store THEN {}
                                                             ELSE {"formula"})]]
  /\ saving' = TRUE
  /\ bar' = NoTarget
  /\ UNCHANGED <<server, socket, store, screen, queue, armed, due, editor, undo, save, own,
                 settled, swallowed, misplaced, holes, meter>>

BarPos == CHOOSE p \in Pos : form.ops[p] # NoOp

\* The operation queued at the same place goes, older or newer.
Unqueue(p, all) ==
  LET newer == queue[p].id > form.ops[p].id
  IN  /\ swallowed' = IF newer THEN swallowed \cup {queue[p].id} ELSE swallowed
      /\ settled' = settled \cup {queue[q].id : q \in {r \in Pos : /\ queue[r] # NoOp
                                                                  /\ (all \/ r = p)
                                                                  /\ ~(newer /\ r = p)}}

\* What the answer shows.
BarShows(p) ==
  LET left == [queue EXCEPT ![p] = NoOp]
  IN  /\ Capture(form.rev, left, TRUE)
      /\ armed' = (left # NoQueue)
      /\ grid' = [grid EXCEPT ![p] = Applied(@, form.cells[p])]
      /\ covered' = (covered \/ queue[p] # NoOp \/ (form.cells[p] # Blank /\ grid[p].ver > form.cells[p].ver))
      /\ UNCHANGED <<due, blind>>

BarAnswered ==
  /\ form.phase = "ok" /\ form.cells[BarPos] # Blank
  /\ saving' = FALSE
  /\ Unqueue(BarPos, due)
  /\ IF due
     THEN store' = Newest(store, form.rev) /\ RefreshSheet(FALSE)
     ELSE BarShows(BarPos) /\ UNCHANGED <<loaded, reads>>
  /\ form' = NoBatch
  /\ UNCHANGED <<server, socket, bar, undo, save, own, edits, misplaced, meter>>

\* An answer without a cell: the tile is read again before the save ends.
BarWithout ==
  /\ form.phase = "ok" /\ form.cells[BarPos] = Blank
  /\ Unqueue(BarPos, FALSE)
  /\ BarShows(BarPos)
  /\ loaded' = loaded \ {BarPos}
  /\ reads' = Asked(reads, {BarPos}, {"bar"})
  /\ form' = [form EXCEPT !.phase = "reload"]
  /\ UNCHANGED <<server, socket, saving, bar, undo, save, own, edits, misplaced, meter>>

BarReloaded ==
  /\ form.phase = "reload"
  /\ ~\E x \in reads : "bar" \in x.tags
  /\ StopSaving(FALSE)
  /\ form' = NoBatch
  /\ settled' = IF due THEN settled \cup QueuedIds ELSE settled
  /\ UNCHANGED <<server, socket, store, bar, undo, save, own, edits, swallowed, misplaced, meter>>

BarRefused ==
  /\ form.phase = "conflict"
  /\ ConflictWhileSaving(form.rev)
  /\ form' = NoBatch
  /\ settled' = settled \cup QueuedIds \cup {form.ops[BarPos].id}
  /\ UNCHANGED <<server, socket, bar, undo, save, own, edits, swallowed, misplaced, meter>>

BarFails ==
  /\ form.phase \in {"sent", "ok", "conflict"}
  /\ Fault
  /\ StopSaving(form.phase = "ok")
  /\ form' = NoBatch
  /\ settled' = settled \cup {form.ops[BarPos].id} \cup (IF due THEN QueuedIds ELSE {})
  /\ UNCHANGED <<server, socket, store, bar, undo, save, own, edits, swallowed, misplaced>>

-------------------------------------------------------------------------------
(* The tab's own structure changes.                                        *)

StartStructure(kind, p) ==
  /\ "structure" \in session.habits
  /\ own.phase = "idle"
  /\ rev < session.rev
  /\ own' = [phase |-> "sent", kind |-> kind, pos |-> p, base |-> store, rev |-> NoRev]
  /\ UNCHANGED <<server, socket, store, screen, pending, hands, save, form, ledger, holes, meter>>

\* The answer brings the new revision; the caches are reset, the queue is not.
StructureAnswered ==
  /\ own.phase = "ok"
  /\ store' = Newest(store, own.rev)
  /\ queue' = [p \in Pos |-> Marked(queue[p], {"own"})]
  /\ editor' = MarkedTarget(editor, {"own"})
  /\ ResetScreen({})
  /\ own' = NoChange
  /\ UNCHANGED <<server, socket, armed, saving, due, bar, undo, save, form, ledger, blind, meter>>

StructureRefused ==
  /\ own.phase = "conflict"
  /\ store' = Newest(store, own.rev)
  /\ RefreshSheet(saving)
  /\ settled' = settled \cup QueuedIds
  /\ own' = NoChange
  /\ UNCHANGED <<server, socket, saving, bar, undo, save, form, edits, swallowed, misplaced, meter>>

\* A change that was made is not told to the tab that made it.
StructureFails ==
  /\ own.phase # "idle"
  /\ Fault
  /\ blind' = (blind \/ own.phase = "ok")
  /\ own' = NoChange
  /\ UNCHANGED <<server, socket, store, screen, pending, hands, save, form, ledger, stale, covered>>

-------------------------------------------------------------------------------
(* The socket.                                                             *)

Join ==
  /\ conn = "never"
  /\ conn' = "open"
  /\ UNCHANGED <<server, inbox, store, screen, pending, hands, calls, ledger, holes, meter>>

\* Nothing is replayed, so the grid is read again.
Rejoin ==
  /\ conn = "down"
  /\ conn' = "open"
  /\ RefreshSheet(saving)
  /\ settled' = settled \cup QueuedIds
  /\ UNCHANGED <<server, inbox, store, saving, bar, undo, calls, edits, swallowed, misplaced, meter>>

Disconnect ==
  /\ conn = "open"
  /\ Fault
  /\ conn' = "down"
  /\ inbox' = {}
  /\ UNCHANGED <<server, store, screen, pending, hands, calls, ledger, holes>>

\* A structure event that is new, or cells of a structure that is.
NewStructure(m) ==
  /\ m \in inbox
  /\ \/ m.kind = "refresh" /\ m.rev > store
     \/ m.kind = "cells" /\ store # NoRev /\ m.rev > store
  /\ inbox' = inbox \ {m}
  /\ store' = m.rev
  /\ RefreshSheet(saving)
  /\ settled' = settled \cup QueuedIds
  /\ UNCHANGED <<server, conn, saving, bar, undo, calls, edits, swallowed, misplaced, meter>>

OldNews(m) ==
  /\ m \in inbox
  /\ \/ m.kind = "refresh" /\ m.rev <= store
     \/ m.kind = "cells" /\ m.rev < store
  /\ inbox' = inbox \ {m}
  /\ UNCHANGED <<server, conn, store, screen, pending, hands, calls, ledger, holes, meter>>

\* A peer's write does not cover an edit that is not saved, nor a newer write.
PeerCells(m) ==
  /\ m \in inbox
  /\ m.kind = "cells"
  /\ store = NoRev \/ m.rev = store
  /\ inbox' = inbox \ {m}
  /\ store' = m.rev
  /\ grid' = IF queue[m.pos] # NoOp THEN grid
             ELSE [grid EXCEPT ![m.pos] = Merged(@, m.cell)]
  /\ UNCHANGED <<server, conn, loaded, reads, pending, hands, calls, ledger, holes, meter>>

-------------------------------------------------------------------------------

Peers ==
  \/ \E k \in session.kinds, p \in Pos : PeerRestructures(k, p)
  \/ \E p \in Pos : PeerWrites(p)

Server ==
  \/ ServeFormula \/ ServeStructure
  \/ \E n \in Batches : ServeSave(n)
  \/ \E x \in reads : ReadSheet(x) \/ ServeRead(x)

User ==
  \/ \E p \in Pos : Scroll(p) \/ OpenEditor(p) \/ Paste(p) \/ FocusBar(p)
  \/ DropEdit \/ CommitEdit \/ Undo \/ SubmitBar
  \/ \E k \in session.kinds, p \in Pos : StartStructure(k, p)

Answers ==
  \/ \E n \in Batches : SaveAnswered(n) \/ SaveRefused(n) \/ SaveReloaded(n)
  \/ BarAnswered \/ BarWithout \/ BarReloaded \/ BarRefused
  \/ StructureAnswered \/ StructureRefused
  \/ \E x \in reads : ReadAnswered(x)

Faults ==
  \/ \E n \in Batches : SaveFails(n)
  \/ BarFails \/ StructureFails \/ Disconnect
  \/ \E x \in reads : ReadFails(x)

Socket ==
  \/ Join \/ Rejoin
  \/ \E m \in inbox : NewStructure(m) \/ OldNews(m) \/ PeerCells(m)

Next == Peers \/ Server \/ User \/ FlushPendingOps \/ Answers \/ Faults \/ Socket

\* Requests are answered or fail, timers fire and the socket tries again; the
\* users and the faults are not asked for.
Spec ==
  /\ Init /\ [][Next]_vars
  /\ WF_vars(Server) /\ WF_vars(Answers) /\ WF_vars(FlushPendingOps) /\ WF_vars(Socket)

-------------------------------------------------------------------------------

\* The server never writes an edit into another row than the one the user saw
\* at that place, unless the edit went through one of the ways above: the
\* revision check, the refresh on every newer event and the guards of the queue
\* and of the editor let no other edit through under a revision it was not made at.
EditLandsWhereTyped == {} \notin misplaced

\* An edit that was committed is still queued or on its way, or the server has
\* it, or a later one replaced it, or the user was told; or the answer of the
\* formula bar took it from the queue.
NoEditVanishes ==
  \A i \in 1 .. edits :
    \/ i \in QueuedIds \cup settled \cup swallowed
    \/ form.phase # "idle" /\ \E p \in Pos : form.ops[p].id = i

Quiescent ==
  /\ conn = "open" /\ inbox = {}
  /\ reads = {} /\ queue = NoQueue /\ ~due
  /\ \A n \in Batches : save[n].phase = "idle"
  /\ form.phase = "idle" /\ own.phase = "idle"

\* Position p shows what the server has there; nothing, if that has no value.
Shows(p) == IF full[rows[p]] THEN grid[p] = Stored(p) ELSE ~grid[p].full

\* When everything has arrived, what the tab has loaded is what the server has,
\* but for the cases the ghosts record: a response moved the revision past the
\* grid, an answer put an older write back, or a change was made that the tab is
\* never told of.
Converged == Quiescent /\ ~stale /\ ~covered /\ ~blind => \A p \in loaded : Shows(p)

\* A refresh that was put off because of a save is made.
DeferredRefreshRuns == due ~> ~due

\* "The editor's row/column belongs to the pre-refresh structure. Never enqueue
\* it after the socket has advanced to the canonical revision."
\* (SpreadsheetGrid.tsx): no edit lands in a row it was not made in.
NeverInAnotherRow == misplaced = {}

-------------------------------------------------------------------------------
(* Why Converged holds.                                                    *)

\* A row is in one place, and the next new one is none of them.
Distinct ==
  \A i \in DOMAIN rows : rows[i] < NewRow /\ \A j \in DOMAIN rows : rows[i] = rows[j] => i = j

\* Cell c shows a row that has a cell, and no later write than the server has.
Known(c) ==
  IF c.row = NoRow THEN c.ver = 0
  ELSE /\ ver[c.row] > 0 /\ c.ver <= ver[c.row]
       /\ c.ver = ver[c.row] => c.full = full[c.row]

AllKnown ==
  /\ \A r \in Row : ver[r] <= clock /\ (full[r] => ver[r] > 0)
  /\ \A p \in Pos : Known(grid[p]) /\ Known(form.cells[p]) /\ \A n \in Batches : Known(save[n].cells[p])
  /\ \A x \in reads : x.done => Known(x.cell)
  /\ \A m \in inbox : m.kind = "cells" => Known(m.cell)

\* The tab has missed nothing, and is not about to read everything again.
UpToDate == ~blind /\ ~due /\ conn # "down"

\* News of the newest structure are on their way.
NewsComing ==
  \/ \E m \in inbox : m.kind = "refresh" /\ m.rev = rev
  \/ own.phase = "ok" /\ own.rev = rev

\* A tab that shows an old structure, or is about to, will hear of the newest.
WillHear ==
  /\ store = NoRev => loaded = {}
  /\ UpToDate /\ store < rev /\ (loaded # {} \/ \E x \in reads : x.current /\ x.rev # NoRev /\ x.rev < rev)
       => NewsComing

\* Before the first answer, what is shown was typed and is queued.
TypedIsQueued == store = NoRev /\ ~due => \A p \in Pos : grid[p].full => queue[p] # NoOp

\* The last write at position p is on its way to the tab, or will be replaced.
Coming(p) ==
  \/ queue[p] # NoOp
  \/ \E n \in Batches : save[n].phase = "ok" /\ save[n].ops[p] # NoOp
  \/ form.phase = "ok" /\ form.ops[p] # NoOp /\ form.rev = rev /\ form.cells[p] = Stored(p)
  \/ \E m \in inbox : m.kind = "cells" /\ m.pos = p /\ m.rev = rev /\ m.cell = Stored(p)

\* What is shown at the newest structure is what the server has, or that is coming;
\* and so it is of what a read is bringing.  No read takes a value away, so where
\* the server has none this holds of what is not loaded as well.
Agrees ==
  UpToDate /\ ~stale /\ ~covered =>
    /\ store = rev => \A p \in Pos : p \in loaded \/ ~full[rows[p]] => Shows(p) \/ Coming(p)
    /\ \A x \in reads : x.current /\ x.done /\ x.rev = rev =>
         \/ x.cell = Canonical(x.tile) \/ Coming(x.tile)
         \/ store = rev /\ grid[x.tile] = Stored(x.tile)

\* What brings a value is right about there being one.
NewsStand ==
  ~covered => \A p \in Pos :
    /\ form.phase = "ok" /\ form.rev = rev /\ form.cells[p].full => full[rows[p]]
    /\ \A n \in Batches : save[n].phase = "ok" /\ save[n].rev = rev /\ save[n].cells[p].full => full[rows[p]]
    /\ \A m \in inbox : m.kind = "cells" /\ m.pos = p /\ m.rev = rev /\ m.cell.full => full[rows[p]]

ConvergeInv == Distinct /\ AllKnown /\ WillHear /\ TypedIsQueued /\ Agrees /\ NewsStand

===============================================================================
