---------------------------- MODULE MeetingDocument ----------------------------
(***************************************************************************)
(* The shared notes of a meeting: several open editors, the socket and the *)
(* HTTP requests each of them saves and listens through, and the server's  *)
(* one copy.  There is no merging: whatever an editor sends is the whole   *)
(* text and replaces what the server has, and what an editor hears of      *)
(* replaces what it shows.                                                 *)
(*                                                                         *)
(* A text is the set of the edits it contains.  A save takes its time      *)
(* before it is written and locks nothing, so saves may be written in      *)
(* another order than that of their times; nth is the order in which they  *)
(* were written, which no client sees.  Times are those that the browser   *)
(* can tell apart, so two saves may have the same.                         *)
(***************************************************************************)
EXTENDS Integers, Sequences

CONSTANTS
  Clients,
  Nobody,    \* the author of a text that no editor has sent, as a snapshot
  MaxEdits,  \* bound: the edits of any session
  MaxSaves,  \* bound: the saves of any session
  Sessions   \* what may happen in a session, see below

\* Whose pages are still being opened at first, how many edits are typed and by
\* whom, how often the editor is left, how many requests, connections or
\* broadcasts fail, how many saves are not the last in time when they are written,
\* and whether the meeting may be archived.
Session == [loading : SUBSET Clients, writers : SUBSET Clients, edits : 0 .. MaxEdits,
            blurs : Nat, faults : Nat, late : Nat, archive : BOOLEAN]

ASSUME DocumentAssumption ==
  /\ Nobody \notin Clients
  /\ MaxEdits \in Nat /\ MaxSaves \in Nat
  /\ Sessions \subseteq Session

Edit == 1 .. MaxEdits
Text == SUBSET Edit
Time == 0 .. 2 * MaxSaves
Nth == 0 .. MaxSaves
Never == -1

\* A save under way: the n-th that its client has sent.
Update == [by : Clients, n : Nat, text : Text]

\* document_snapshot and document_updated.
Event == [by : Clients \cup {Nobody}, text : Text, at : Time, nth : Nth]
NoEvent == [by |-> Nobody, text |-> {}, at |-> 0, nth |-> 0]

Fetch == [phase : {"none", "asked", "answered"}, text : Text, at : Time, nth : Nth]
NoFetch == [phase |-> "none", text |-> {}, at |-> 0, nth |-> 0]

Put == [by : Clients, n : Nat, text : Text, phase : {"asked", "ok"}, at : Time]

\* What may have happened to an edit, or to what a client shows: another
\* client's save replaced it; two saves of one client arrived the wrong way
\* round; a client was told of an older text after it had sent its own; a text
\* came in before the edit was sent; the text asked for at first came late; the
\* message or request failed; the meeting is archived; a save that the client is
\* not told of; a save whose time is not after the time of the text before it; a
\* save answered after newer news.
Ways == {"peer", "reorder", "crossed", "typed", "load", "unsent", "archived", "untold", "late",
         "answer"}

VARIABLES
  doc,         \* content and updated_at of the MeetingDocument, and how often it was saved
  archived,
  publishing,  \* publishing[c]: what the consumer of c has saved and not yet sent to the group
  open,        \* open[c]: wsState of c is "connected"
  inbox,       \* inbox[c]: events on their way to c
  outbound,    \* outbound[c]: document_update messages on their way from c
  shown,       \* latestContentRef, which is what the editor shows
  synced,      \* lastSyncedAtRef
  armed,       \* contentChangeTimerRef runs
  first,       \* the text asked for when the page opened
  poll,        \* the request of the offline poll
  puts,        \* requests of persistViaHttp
  sent,        \* sent[c]: saves c has sent so far
  served,      \* served[c]: the newest of them that the server has made
  mine,        \* mine[c]: which save of the document was the last of c, Never if none
  author,      \* author[e]: who typed e, Nobody if it is not typed yet
  lost,        \* lost[e]: what happened to e
  apart,       \* apart[c]: why c may show another text than the server has
  blurs, faults, late, session

server  == <<doc, archived, publishing>>
wire    == <<open, inbox, outbound>>
editor  == <<shown, synced, armed>>
http    == <<first, poll, puts>>
numbers == <<sent, served, mine>>
ghosts  == <<author, lost, apart>>
meter   == <<blurs, faults, late, session>>
vars    == <<server, wire, editor, http, numbers, ghosts, meter>>

TypeOK ==
  /\ doc \in [text : Text, at : Time, nth : Nth]
  /\ archived \in BOOLEAN
  /\ publishing \in [Clients -> Event]
  /\ open \in [Clients -> BOOLEAN]
  /\ inbox \in [Clients -> Seq(Event)] /\ outbound \in [Clients -> Seq(Update)]
  /\ shown \in [Clients -> Text]
  /\ synced \in [Clients -> Time \cup {Never}]
  /\ armed \in [Clients -> BOOLEAN]
  /\ first \in [Clients -> Fetch] /\ poll \in [Clients -> Fetch]
  /\ puts \subseteq Put
  /\ sent \in [Clients -> Nat] /\ served \in [Clients -> Nat]
  /\ mine \in [Clients -> Nth \cup {Never}]
  /\ author \in [Edit -> Clients \cup {Nobody}]
  /\ lost \in [Edit -> SUBSET Ways] /\ apart \in [Clients -> SUBSET Ways]
  /\ session \in Sessions
  /\ blurs \in 0 .. session.blurs /\ faults \in 0 .. session.faults /\ late \in 0 .. session.late
  /\ late <= doc.nth

\* Some pages have just been opened and have asked for the text; the others have
\* it and are connected.
Init ==
  /\ session \in Sessions
  /\ doc = [text |-> {}, at |-> 0, nth |-> 0]
  /\ archived = FALSE
  /\ publishing = [c \in Clients |-> NoEvent]
  /\ open = [c \in Clients |-> c \notin session.loading]
  /\ inbox = [c \in Clients |-> <<>>] /\ outbound = [c \in Clients |-> <<>>]
  /\ shown = [c \in Clients |-> {}]
  /\ synced = [c \in Clients |-> IF c \in session.loading THEN Never ELSE 0]
  /\ armed = [c \in Clients |-> FALSE]
  /\ first = [c \in Clients |->
                IF c \in session.loading THEN [NoFetch EXCEPT !.phase = "asked"] ELSE NoFetch]
  /\ poll = [c \in Clients |-> NoFetch]
  /\ puts = {}
  /\ sent = [c \in Clients |-> 0] /\ served = [c \in Clients |-> 0]
  /\ mine = [c \in Clients |-> Never]
  /\ author = [e \in Edit |-> Nobody]
  /\ lost = [e \in Edit |-> {}] /\ apart = [c \in Clients |-> {}]
  /\ blurs = 0 /\ faults = 0 /\ late = 0

Typed == {e \in Edit : author[e] # Nobody}
By(c) == {e \in Edit : author[e] = c}

\* c has sent a save that the server has not made.
Outstanding(c) == outbound[c] # <<>> \/ \E p \in puts : p.by = c /\ p.phase = "asked"

Blame(es, way) == [e \in Edit |-> IF e \in es THEN lost[e] \cup {way} ELSE lost[e]]

Fault ==
  /\ faults < session.faults
  /\ faults' = faults + 1
  /\ UNCHANGED <<blurs, late, session>>

-------------------------------------------------------------------------------
(* The server.                                                             *)

\* The latest time of any save: those in order are two apart, so that a late one
\* may come between.
Clock == 2 * (doc.nth - late)

\* update_meeting_document_content: the text is replaced as a whole, at the time
\* that save() has taken, before or after that of other saves.  told is false of a
\* save that the group is not told of.
Replace(u, told) ==
  /\ doc.nth < MaxSaves
  /\ \/ /\ doc' = [text |-> u.text, at |-> Clock + 2, nth |-> doc.nth + 1]
        /\ UNCHANGED late
     \/ /\ late < session.late
        /\ late' = late + 1
        /\ \E t \in 0 .. Clock : doc' = [text |-> u.text, at |-> t, nth |-> doc.nth + 1]
  /\ served' = [served EXCEPT ![u.by] = IF u.n > @ THEN u.n ELSE @]
  /\ mine' = [mine EXCEPT ![u.by] = doc.nth + 1]
  /\ lost' = [e \in Edit |->
                lost[e] \cup (IF e \in doc.text \ u.text
                              THEN (IF u.n < served[u.by] THEN {"reorder"} ELSE {})
                                     \cup (IF author[e] # u.by THEN {"peer"} ELSE {})
                              ELSE {})]
  /\ apart' = [c \in Clients |->
                 apart[c] \cup (IF c # u.by /\ open[c] /\ ~told THEN {"untold"} ELSE {})
                          \cup (IF c # u.by /\ synced[c] >= doc'.at THEN {"late"} ELSE {})
                          \cup (IF c = u.by /\ u.n < served[c] THEN {"reorder"} ELSE {})]

Stopped(c) ==
  /\ open' = [open EXCEPT ![c] = FALSE]
  /\ inbox' = [inbox EXCEPT ![c] = <<>>]

\* receive of the consumer of c.  When the meeting is archived the save raises,
\* and the connection is closed.
ServeUpdate(c) ==
  /\ outbound[c] # <<>>
  /\ publishing[c] = NoEvent
  /\ LET u == Head(outbound[c])
     IN  \/ /\ ~archived
            /\ Replace(u, TRUE)
            /\ publishing' = [publishing EXCEPT ![c] = [by |-> c, text |-> u.text, at |-> doc'.at, nth |-> doc'.nth]]
            /\ outbound' = [outbound EXCEPT ![c] = Tail(@)]
            /\ UNCHANGED <<open, inbox>>
         \/ /\ archived
            /\ Stopped(c)
            /\ outbound' = [outbound EXCEPT ![c] = <<>>]
            /\ lost' = Blame(By(c), "archived")
            /\ apart' = [apart EXCEPT ![c] = @ \cup {"archived"}]
            /\ UNCHANGED <<doc, publishing, served, mine, late>>
  /\ UNCHANGED <<archived, editor, http, sent, author, blurs, faults, session>>

\* group_send, to everybody who is connected then.
Publish(c) ==
  /\ publishing[c] # NoEvent
  /\ publishing' = [publishing EXCEPT ![c] = NoEvent]
  /\ inbox' = [d \in Clients |-> IF open[d] THEN Append(inbox[d], publishing[c]) ELSE inbox[d]]
  /\ UNCHANGED <<doc, archived, open, outbound, editor, http, numbers, ghosts, meter>>

\* The channel layer loses it for some, or group_send raises, which ends the
\* connection of c.
PublishFails(c) ==
  /\ publishing[c] # NoEvent
  /\ Fault
  /\ publishing' = [publishing EXCEPT ![c] = NoEvent]
  /\ \E told \in SUBSET {d \in Clients : open[d]} :
       LET missed == {d \in Clients \ {c} : open[d] /\ d \notin told /\ publishing[c].nth = doc.nth}
           queues == [d \in Clients |-> IF d \in told THEN Append(inbox[d], publishing[c]) ELSE inbox[d]]
           untold == [d \in Clients |-> apart[d] \cup (IF d \in missed THEN {"untold"} ELSE {})]
       IN  \/ /\ inbox' = queues /\ apart' = untold
              /\ UNCHANGED <<open, outbound, lost>>
           \/ /\ open' = [open EXCEPT ![c] = FALSE]
              /\ inbox' = [queues EXCEPT ![c] = <<>>]
              /\ outbound' = [outbound EXCEPT ![c] = <<>>]
              /\ lost' = IF outbound[c] = <<>> THEN lost ELSE Blame(By(c), "unsent")
              /\ apart' = IF outbound[c] = <<>> THEN untold
                          ELSE [untold EXCEPT ![c] = @ \cup {"unsent"}]
  /\ UNCHANGED <<doc, archived, editor, http, numbers, author>>

\* MeetingDocumentAPIView.patch: saved, and the group is not told.
ServePut(p) ==
  /\ p.phase = "asked"
  /\ ~archived
  /\ Replace(p, FALSE)
  /\ puts' = (puts \ {p}) \cup {[p EXCEPT !.phase = "ok", !.at = doc'.at]}
  /\ UNCHANGED <<archived, publishing, wire, editor, first, poll, sent, author, blurs, faults, session>>

Answered(f) == [phase |-> "answered", text |-> doc.text, at |-> doc.at, nth |-> doc.nth]

ServeFirst(c) ==
  /\ first[c].phase = "asked"
  /\ first' = [first EXCEPT ![c] = Answered(@)]
  /\ UNCHANGED <<server, wire, editor, poll, puts, numbers, ghosts, meter>>

ServePoll(c) ==
  /\ poll[c].phase = "asked"
  /\ poll' = [poll EXCEPT ![c] = Answered(@)]
  /\ UNCHANGED <<server, wire, editor, first, puts, numbers, ghosts, meter>>

Archive ==
  /\ session.archive /\ ~archived
  /\ archived' = TRUE
  /\ UNCHANGED <<doc, publishing, wire, editor, http, numbers, ghosts, meter>>

-------------------------------------------------------------------------------
(* What comes in.                                                          *)

Show(c, m) ==
  /\ shown' = [shown EXCEPT ![c] = m.text]
  /\ synced' = [synced EXCEPT ![c] = m.at]
  /\ UNCHANGED armed

\* applyRemoteContent: what is shown is replaced, sent or not.  why says what is
\* wrong with m if it is not the newest text.
Take(c, m, why) ==
  LET crossed == Outstanding(c) \/ mine[c] > m.nth
      newest == m.nth = doc.nth
      gone == By(c) \cap (shown[c] \ m.text)
      ways == (IF newest THEN {} ELSE why) \cup (IF crossed THEN {"crossed"} ELSE {})
  IN  /\ Show(c, m)
      /\ lost' = [e \in Edit |->
                    IF e \notin gone THEN lost[e]
                    ELSE lost[e] \cup ways \cup (IF armed[c] THEN {"typed"} ELSE {})]
      /\ apart' = [apart EXCEPT ![c] =
                     ways \cup (IF newest THEN {} ELSE @)
                          \cup (IF ~newest /\ m.at >= doc.at THEN {"late"} ELSE {})]

\* isIncomingNewer is false.
Ignore == UNCHANGED <<shown, synced, armed, lost, apart>>

\* Mutant: the times are not compared.
HearAny(c, m) == Take(c, m, {})

\* handleSnapshot, handleDocumentUpdated and the offline poll.
Hear(c, m) == IF m.at > synced[c] THEN Take(c, m, {}) ELSE Ignore

\* One's own save is passed over; its time is not taken either.
Deliver(c) ==
  /\ inbox[c] # <<>>
  /\ inbox' = [inbox EXCEPT ![c] = Tail(@)]
  /\ IF Head(inbox[c]).by = c
     THEN UNCHANGED <<editor, lost, apart>>
     ELSE Hear(c, Head(inbox[c]))
  /\ UNCHANGED <<server, open, outbound, http, numbers, author, meter>>

\* The text asked for at first is taken, whatever has come in or been typed.
FirstAnswered(c) ==
  /\ first[c].phase = "answered"
  /\ Take(c, first[c], {"load"})
  /\ first' = [first EXCEPT ![c] = NoFetch]
  /\ UNCHANGED <<server, wire, poll, puts, numbers, author, meter>>

FirstFails(c) ==
  /\ first[c].phase # "none"
  /\ Fault
  /\ first' = [first EXCEPT ![c] = NoFetch]
  /\ UNCHANGED <<server, wire, editor, poll, puts, numbers, ghosts>>

\* The poll runs while the socket is not connected; a failed one is as if it
\* had not been made.
AskPoll(c) ==
  /\ ~open[c]
  /\ poll[c].phase = "none"
  /\ poll' = [poll EXCEPT ![c].phase = "asked"]
  /\ UNCHANGED <<server, wire, editor, first, puts, numbers, ghosts, meter>>

PollAnswered(c) ==
  /\ poll[c].phase = "answered"
  /\ Hear(c, poll[c])
  /\ poll' = [poll EXCEPT ![c] = NoFetch]
  /\ UNCHANGED <<server, wire, first, puts, numbers, author, meter>>

-------------------------------------------------------------------------------
(* Typing and saving.                                                      *)

Type(c, e) ==
  /\ c \in session.writers
  /\ e \notin Typed /\ e <= session.edits
  /\ \A f \in 1 .. e - 1 : f \in Typed
  /\ author' = [author EXCEPT ![e] = c]
  /\ shown' = [shown EXCEPT ![c] = @ \cup {e}]
  /\ armed' = [armed EXCEPT ![c] = TRUE]
  /\ UNCHANGED <<server, wire, synced, http, numbers, lost, apart, meter>>

\* Mutant: a message that cannot be sent is left to the next one.
SaveOnline(c) ==
  /\ sent' = [sent EXCEPT ![c] = @ + 1]
  /\ outbound' = IF open[c]
                 THEN [outbound EXCEPT ![c] = Append(@, [by |-> c, n |-> sent[c] + 1, text |-> shown[c]])]
                 ELSE outbound
  /\ UNCHANGED puts

PersistViaHttp(c) ==
  puts' = puts \cup {[by |-> c, n |-> sent[c] + 1, text |-> shown[c], phase |-> "asked", at |-> 0]}

\* sendDocumentUpdate, and the request when there is no open socket.
SaveContent(c) ==
  /\ sent' = [sent EXCEPT ![c] = @ + 1]
  /\ IF open[c]
     THEN /\ outbound' = [outbound EXCEPT ![c] =
                            Append(@, [by |-> c, n |-> sent[c] + 1, text |-> shown[c]])]
          /\ UNCHANGED puts
     ELSE PersistViaHttp(c) /\ UNCHANGED outbound

\* The debounce timer fires.
SendContent(c) ==
  /\ armed[c]
  /\ armed' = [armed EXCEPT ![c] = FALSE]
  /\ SaveContent(c)
  /\ UNCHANGED <<server, open, inbox, shown, synced, first, poll, served, mine, ghosts, meter>>

Blur(c) ==
  /\ blurs < session.blurs
  /\ blurs' = blurs + 1
  /\ IF open[c]
     THEN UNCHANGED <<sent, puts>>
     ELSE PersistViaHttp(c) /\ sent' = [sent EXCEPT ![c] = @ + 1]
  /\ UNCHANGED <<server, wire, editor, first, poll, served, mine, ghosts, faults, late, session>>

\* The time of the answer is taken, newer or older; after an older one, texts that
\* are older than the shown one are taken again, and after one that is not before
\* the time of another's later save, that save is passed over.
PutAnswered(p) ==
  /\ p.phase = "ok"
  /\ puts' = puts \ {p}
  /\ synced' = [synced EXCEPT ![p.by] = p.at]
  /\ apart' = [apart EXCEPT ![p.by] =
                 @ \cup (IF p.at < synced[p.by] THEN {"answer"} ELSE {})
                   \cup (IF p.at >= doc.at /\ mine[p.by] # doc.nth THEN {"late"} ELSE {})]
  /\ UNCHANGED <<server, wire, shown, armed, first, poll, numbers, author, lost, meter>>

Unsent(c, way) ==
  /\ lost' = Blame(By(c), way)
  /\ apart' = [apart EXCEPT ![c] = @ \cup {way}]
  /\ UNCHANGED author

\* Lost, with or without having been made; nothing is tried again.
PutFails(p) ==
  /\ Fault
  /\ puts' = puts \ {p}
  /\ IF p.phase = "asked" THEN Unsent(p.by, "unsent") ELSE UNCHANGED ghosts
  /\ UNCHANGED <<server, wire, editor, first, poll, numbers>>

PutRefused(p) ==
  /\ p.phase = "asked" /\ archived
  /\ puts' = puts \ {p}
  /\ Unsent(p.by, "archived")
  /\ UNCHANGED <<server, wire, editor, first, poll, numbers, meter>>

-------------------------------------------------------------------------------
(* The connection.                                                         *)

\* Mutant: only the page's first connection is made.
ConnectOnce(c) ==
  /\ ~open[c] /\ synced[c] = Never
  /\ open' = [open EXCEPT ![c] = TRUE]
  /\ inbox' = [inbox EXCEPT ![c] = <<[by |-> Nobody, text |-> doc.text, at |-> doc.at, nth |-> doc.nth]>>]
  /\ UNCHANGED <<server, outbound, editor, http, numbers, ghosts, meter>>

\* connect of the hook and of the consumer: the snapshot comes first.  What the
\* server had received on the old connection is done with before the client,
\* which waits a second and a half, is back.
Connect(c) ==
  /\ ~open[c]
  /\ outbound[c] = <<>>
  /\ open' = [open EXCEPT ![c] = TRUE]
  /\ inbox' = [inbox EXCEPT ![c] = <<[by |-> Nobody, text |-> doc.text, at |-> doc.at, nth |-> doc.nth]>>]
  /\ poll' = [poll EXCEPT ![c] = NoFetch]
  /\ UNCHANGED <<server, outbound, editor, first, puts, numbers, ghosts, meter>>

\* What is on its way to the server may be lost or may arrive.
Drop(c) ==
  /\ open[c]
  /\ Fault
  /\ Stopped(c)
  /\ \/ UNCHANGED <<outbound, ghosts>>
     \/ /\ outbound[c] # <<>>
        /\ outbound' = [outbound EXCEPT ![c] = <<>>]
        /\ Unsent(c, "unsent")
  /\ UNCHANGED <<server, editor, http, numbers>>

-------------------------------------------------------------------------------

Consumer(c) == ServeUpdate(c) \/ Publish(c)

Load(c) == ServeFirst(c) \/ FirstAnswered(c)

Polling(c) == AskPoll(c) \/ ServePoll(c) \/ PollAnswered(c)

Puts(c) == \E p \in puts : p.by = c /\ (ServePut(p) \/ PutAnswered(p) \/ PutRefused(p))

User(c) == Blur(c) \/ \E e \in Edit : Type(c, e)

Faults(c) == PublishFails(c) \/ FirstFails(c) \/ Drop(c) \/ \E p \in puts : p.by = c /\ PutFails(p)

Next ==
  \/ \E c \in Clients : \/ Consumer(c) \/ Deliver(c) \/ Load(c) \/ Polling(c) \/ Puts(c)
                        \/ User(c) \/ SendContent(c) \/ Connect(c) \/ Faults(c)
  \/ Archive

\* Requests are answered, messages arrive, timers fire, a closed socket connects
\* again; nothing is asked of the poll, which the connection makes superfluous.
Spec ==
  /\ Init /\ [][Next]_vars
  /\ \A c \in Clients : /\ WF_vars(Consumer(c)) /\ WF_vars(Deliver(c)) /\ WF_vars(Load(c))
                        /\ WF_vars(Puts(c)) /\ WF_vars(SendContent(c)) /\ WF_vars(Connect(c))

-------------------------------------------------------------------------------

\* An edit that was typed is in the saved text, or its author is about to send
\* it, or one of the things above happened to it.
NoEditVanishes ==
  \A e \in Typed :
    LET c == author[e]
    IN  \/ e \in doc.text
        \/ lost[e] # {}
        \/ e \in shown[c] /\ armed[c]
        \/ \E i \in 1 .. Len(outbound[c]) : e \in outbound[c][i].text
        \/ \E p \in puts : p.by = c /\ p.phase = "asked" /\ e \in p.text

Quiet ==
  /\ puts = {}
  /\ \A c \in Clients : /\ open[c] /\ ~armed[c] /\ first[c].phase = "none"
                        /\ inbox[c] = <<>> /\ outbound[c] = <<>> /\ publishing[c] = NoEvent

\* When nothing is on its way and everybody is connected, an editor shows what
\* the server has, but for the ways above.
Converged == Quiet => \A c \in Clients : apart[c] = {} => shown[c] = doc.text

\* Editors that hear of each other's saves do not go on answering them: after
\* the last edit everything comes to rest.
Settles == <>[]Quiet

\* "Offline edits will save on blur." and, once connected again, "Saved"
\* (DocumentHeader.tsx): an editor that is connected, has been told a time and
\* has no request or timer of its own shows no edit of its user that the server
\* does not have.
SavedMeansSaved ==
  \A c \in Clients :
    open[c] /\ synced[c] # Never /\ ~armed[c] /\ ~Outstanding(c) => By(c) \cap shown[c] \subseteq doc.text

===============================================================================
