------------------------- MODULE MeetingDocumentProofs -------------------------
(***************************************************************************)
(* Proofs about MeetingDocument, for any number of editors, edits and      *)
(* saves, and for sessions of any kind.                                    *)
(***************************************************************************)
EXTENDS MeetingDocument, TLAPS

Elems(s) == {s[i] : i \in 1 .. Len(s)}

-------------------------------------------------------------------------------
(* The invariant.  Nothing is merged, so an edit survives because every     *)
(* text that may replace the saved one has it, unless the ghost says why    *)
(* not.                                                                     *)

\* The saves that c has sent and the server has not made.
Saves(c) == Elems(outbound[c]) \cup {p \in puts : p.by = c /\ p.phase = "asked"}

\* What c has been told or may be told of the saved text.
News(c) ==
  Elems(inbox[c])
    \cup {publishing[d] : d \in {b \in Clients : publishing[b] # NoEvent}}
    \cup {f \in {first[c], poll[c]} : f.phase = "answered"}

\* The edits that nothing has happened to.
Fine == {e \in Typed : lost[e] = {}}
Live(c) == Fine \cap By(c)

\* Every text there is contains edits that were typed; a save is of its client
\* and has a number the client has given out; what is told is of a save that was
\* made, and of the last one it is what that saved.
TypedOnly ==
  /\ doc.text \subseteq Typed
  /\ \A c \in Clients : /\ shown[c] \subseteq Typed
                        /\ \A u \in Saves(c) : u.text \subseteq Typed
                        /\ \A m \in News(c) : m.text \subseteq Typed
InTime ==
  \A c \in Clients : /\ mine[c] <= doc.nth
                     /\ \A u \in Saves(c) : u.by = c /\ u.n <= sent[c]
                     /\ \A m \in News(c) : /\ m.nth <= doc.nth
                                           /\ m.nth = doc.nth => m.text = doc.text /\ m.at = doc.at

\* An editor shows the edits of its user.
OwnShown == \A c \in Clients : Live(c) \subseteq shown[c]

\* What others show, send or are told of is in the saved text.
OthersSaved ==
  \A c \in Clients :
    /\ (Fine \cap shown[c]) \ By(c) \subseteq doc.text
    /\ \A u \in Saves(c) : (Fine \cap u.text) \ By(c) \subseteq doc.text
    /\ \A m \in News(c) : Fine \cap m.text \subseteq doc.text

\* A later save of a client has what an earlier one had, made or not.
SavesGrow ==
  \A c \in Clients : \A u \in Saves(c) :
    /\ u.n >= served[c] => Live(c) \cap doc.text \subseteq u.text
    /\ \A v \in Saves(c) : v.n <= u.n => Live(c) \cap v.text \subseteq u.text

\* News of the last save of a client, or from after it, has its saved edits.
NewsHasSaved ==
  \A c \in Clients : \A m \in News(c) :
    m.nth >= mine[c] => Live(c) \cap doc.text \subseteq m.text

KeepInv == TypedOnly /\ InTime /\ OwnShown /\ OthersSaved /\ SavesGrow /\ NewsHasSaved /\ NoEditVanishes

-------------------------------------------------------------------------------
(* Sequences, and the types.                                               *)

LEMMA ElemsAppend ==
  ASSUME NEW S, NEW s \in Seq(S), NEW x \in S
  PROVE  /\ Append(s, x) \in Seq(S)
         /\ Elems(Append(s, x)) = Elems(s) \cup {x}
<1>1. /\ Append(s, x) \in Seq(S) /\ Len(Append(s, x)) = Len(s) + 1 /\ Len(s) \in Nat
      /\ \A i \in 1 .. Len(s) : Append(s, x)[i] = s[i]
      /\ Append(s, x)[Len(s) + 1] = x
  OBVIOUS
<1>2. \A i : i \in 1 .. Len(s) + 1 <=> i \in 1 .. Len(s) \/ i = Len(s) + 1
  BY <1>1
<1> QED
  BY <1>1, <1>2 DEF Elems

LEMMA ElemsTail ==
  ASSUME NEW S, NEW s \in Seq(S), s # <<>>
  PROVE  /\ Head(s) \in S /\ Head(s) \in Elems(s)
         /\ Tail(s) \in Seq(S)
         /\ Elems(Tail(s)) \subseteq Elems(s)
         /\ \A x \in Elems(s) : x = Head(s) \/ x \in Elems(Tail(s))
<1>1. /\ Len(s) \in Nat \ {0} /\ Head(s) = s[1]
      /\ Tail(s) \in Seq(S) /\ Len(Tail(s)) = Len(s) - 1
      /\ \A i \in 1 .. Len(s) - 1 : Tail(s)[i] = s[i + 1]
  OBVIOUS
<1>2. 1 \in 1 .. Len(s) /\ \A i \in 1 .. Len(s) - 1 : i + 1 \in 1 .. Len(s)
  BY <1>1
<1>3. Elems(Tail(s)) \subseteq Elems(s)
  BY <1>1, <1>2 DEF Elems
<1>4. ASSUME NEW i \in 1 .. Len(s)
      PROVE  s[i] = Head(s) \/ s[i] \in Elems(Tail(s))
  <2>1. i = 1 \/ i - 1 \in 1 .. Len(s) - 1
    BY <1>1
  <2>2. i - 1 \in 1 .. Len(s) - 1 => Tail(s)[i - 1] = s[i]
    BY <1>1
  <2> QED
    BY <1>1, <2>1, <2>2 DEF Elems
<1> QED
  BY <1>1, <1>2, <1>3, <1>4 DEF Elems

LEMMA ElemsShort ==
  /\ Elems(<<>>) = {}
  /\ \A x : Elems(<<x>>) = {x}
<1>1. Len(<<>>) = 0 /\ 1 .. 0 = {}
  OBVIOUS
<1>2. ASSUME NEW x
      PROVE  Elems(<<x>>) = {x}
  <2>1. Len(<<x>>) = 1 /\ <<x>>[1] = x /\ 1 .. 1 = {1}
    OBVIOUS
  <2> QED
    BY <2>1 DEF Elems
<1> QED
  BY <1>1, <1>2 DEF Elems

\* The texts, times and numbers of what is on its way.
LEMMA OnTheWay ==
  ASSUME TypeOK, NEW c \in Clients
  PROVE  /\ \A u \in Saves(c) : u.by \in Clients /\ u.n \in Nat /\ u.text \in Text
         /\ \A m \in News(c) : m.text \in Text /\ m.at \in Time /\ m.at \in Int /\ m.nth \in Int
         /\ Outstanding(c) <=> Saves(c) # {}
<1>1. /\ outbound[c] \in Seq(Update) /\ inbox[c] \in Seq(Event) /\ puts \subseteq Put
      /\ first[c] \in Fetch /\ poll[c] \in Fetch
      /\ \A d \in Clients : publishing[d] \in Event
  BY DEF TypeOK
<1>2. Elems(outbound[c]) \subseteq Update /\ Elems(inbox[c]) \subseteq Event
  BY <1>1 DEF Elems
<1>3. \A u \in Saves(c) : u \in Update \/ u \in Put
  BY <1>1, <1>2 DEF Saves
<1>4. \A m \in News(c) : m \in Event \/ m \in Fetch
  BY <1>1, <1>2 DEF News
<1>5. Time \subseteq Int /\ Nth \subseteq Int
  BY DocumentAssumption DEF Time, Nth
<1>6. outbound[c] # <<>> => Head(outbound[c]) \in Elems(outbound[c])
  BY <1>1, ElemsTail
<1>7. outbound[c] = <<>> => Elems(outbound[c]) = {}
  BY ElemsShort
<1>8. Outstanding(c) <=> Saves(c) # {}
  BY <1>6, <1>7 DEF Outstanding, Saves
<1> QED
  BY <1>3, <1>4, <1>5, <1>8 DEF Update, Put, Event, Fetch

LEMMA SessionType ==
  ASSUME TypeOK
  PROVE  /\ session \in Session /\ session.faults \in Nat /\ session.blurs \in Nat /\ session.late \in Nat
  BY DocumentAssumption DEF TypeOK, Session

\* What comes in is shown, or passed over.
LEMMA TakeType ==
  ASSUME TypeOK, NEW c \in Clients, NEW m, m.text \in Text, m.at \in Time,
         NEW why \in SUBSET Ways, Take(c, m, why)
  PROVE  /\ shown' \in [Clients -> Text] /\ synced' \in [Clients -> Time \cup {Never}]
         /\ armed' = armed
         /\ lost' \in [Edit -> SUBSET Ways] /\ apart' \in [Clients -> SUBSET Ways]
<1>1. {"crossed", "typed", "late"} \subseteq Ways
  BY DEF Ways
<1>2. /\ shown \in [Clients -> Text] /\ synced \in [Clients -> Time \cup {Never}]
      /\ lost \in [Edit -> SUBSET Ways] /\ apart \in [Clients -> SUBSET Ways]
  BY DEF TypeOK
<1>3. shown' \in [Clients -> Text] /\ synced' \in [Clients -> Time \cup {Never}] /\ armed' = armed
  BY <1>2 DEF Take, Show
<1>4. apart' \in [Clients -> SUBSET Ways]
  BY <1>1, <1>2 DEF Take
<1>5. lost' \in [Edit -> SUBSET Ways]
  BY <1>1, <1>2 DEF Take
<1> QED
  BY <1>3, <1>4, <1>5

LEMMA HearType ==
  ASSUME TypeOK, NEW c \in Clients, NEW m, m.text \in Text, m.at \in Time, Hear(c, m)
  PROVE  /\ shown' \in [Clients -> Text] /\ synced' \in [Clients -> Time \cup {Never}]
         /\ armed' = armed
         /\ lost' \in [Edit -> SUBSET Ways] /\ apart' \in [Clients -> SUBSET Ways]
<1>1. CASE m.at > synced[c]
  BY <1>1, TakeType DEF Hear
<1>2. CASE ~(m.at > synced[c])
  <2>1. Ignore
    BY <1>2 DEF Hear
  <2> QED
    BY <2>1 DEF Ignore, TypeOK
<1> QED
  BY <1>1, <1>2

\* A save replaces the text.
LEMMA ReplaceType ==
  ASSUME TypeOK, NEW u, NEW told \in BOOLEAN, u.by \in Clients, u.n \in Nat, u.text \in Text,
         Replace(u, told)
  PROVE  /\ doc' \in [text : Text, at : Time, nth : Nth] /\ doc'.text = u.text
         /\ doc'.nth = doc.nth + 1
         /\ late' \in 0 .. session.late /\ late' <= doc'.nth
         /\ served' \in [Clients -> Nat] /\ mine' \in [Clients -> Nth \cup {Never}]
         /\ lost' \in [Edit -> SUBSET Ways] /\ apart' \in [Clients -> SUBSET Ways]
<1>1. {"reorder", "peer", "untold", "late"} \subseteq Ways
  BY DEF Ways
<1>2. /\ doc \in [text : Text, at : Time, nth : Nth] /\ late \in 0 .. session.late /\ session.late \in Nat
      /\ late <= doc.nth
      /\ served \in [Clients -> Nat] /\ mine \in [Clients -> Nth \cup {Never}]
      /\ lost \in [Edit -> SUBSET Ways] /\ apart \in [Clients -> SUBSET Ways]
  BY SessionType DEF TypeOK
<1>3. /\ doc.nth \in Int /\ doc.nth + 1 \in Nth
      /\ Clock \in Nat /\ Clock + 2 \in Time /\ 0 .. Clock \subseteq Time
  <2>1. doc.nth \in Nat /\ late \in Nat /\ doc.nth < MaxSaves
    BY <1>2, DocumentAssumption DEF Replace, Nth
  <2>2. doc.nth - late \in 0 .. MaxSaves - 1
    BY <1>2, <2>1, DocumentAssumption
  <2> QED
    BY <2>1, <2>2, DocumentAssumption DEF Clock, Time, Nth
<1>4. /\ late' \in {late, late + 1} /\ (late' = late + 1 => late < session.late)
      /\ \E t \in Time : doc' = [text |-> u.text, at |-> t, nth |-> doc.nth + 1]
  <2>1. CASE UNCHANGED late /\ doc' = [text |-> u.text, at |-> Clock + 2, nth |-> doc.nth + 1]
    BY <1>2, <1>3, <2>1
  <2>2. CASE /\ late < session.late /\ late' = late + 1
             /\ \E t \in 0 .. Clock : doc' = [text |-> u.text, at |-> t, nth |-> doc.nth + 1]
    BY <1>3, <2>2
  <2> QED
    BY <2>1, <2>2 DEF Replace
<1>5. doc' \in [text : Text, at : Time, nth : Nth] /\ doc'.text = u.text /\ doc'.nth = doc.nth + 1
  BY <1>3, <1>4
<1>6. late' \in 0 .. session.late /\ late' <= doc'.nth
  BY <1>2, <1>3, <1>4, <1>5
<1>7. served' \in [Clients -> Nat]
  BY <1>2 DEF Replace
<1>8. mine' \in [Clients -> Nth \cup {Never}]
  BY <1>2, <1>3 DEF Replace
<1>9. lost' \in [Edit -> SUBSET Ways] /\ apart' \in [Clients -> SUBSET Ways]
  BY <1>1, <1>2 DEF Replace
<1> QED
  BY <1>5, <1>6, <1>7, <1>8, <1>9

LEMMA AnsweredType ==
  ASSUME TypeOK, NEW f
  PROVE  Answered(f) \in Fetch
  BY DEF TypeOK, Answered, Fetch

LEMMA UnsentType ==
  ASSUME TypeOK, NEW c \in Clients, NEW way \in Ways
  PROVE  /\ Blame(By(c), way) \in [Edit -> SUBSET Ways]
         /\ [apart EXCEPT ![c] = @ \cup {way}] \in [Clients -> SUBSET Ways]
         /\ Unsent(c, way) => /\ lost' \in [Edit -> SUBSET Ways] /\ apart' \in [Clients -> SUBSET Ways]
                              /\ author' = author
<1>1. Blame(By(c), way) \in [Edit -> SUBSET Ways]
  BY DEF TypeOK, Blame
<1>2. [apart EXCEPT ![c] = @ \cup {way}] \in [Clients -> SUBSET Ways]
  BY DEF TypeOK
<1> QED
  BY <1>1, <1>2 DEF Unsent

LEMMA NothingType ==
  /\ NoFetch \in Fetch /\ [NoFetch EXCEPT !.phase = "asked"] \in Fetch
  /\ NoEvent \in Event
<1>1. 0 \in Time /\ 0 \in Nth /\ {} \in Text
  BY DocumentAssumption DEF Time, Nth, Text
<1>2. [NoFetch EXCEPT !.phase = "asked"] = [phase |-> "asked", text |-> {}, at |-> 0, nth |-> 0]
  BY DEF NoFetch
<1> QED
  BY <1>1, <1>2 DEF NoFetch, Fetch, NoEvent, Event

-------------------------------------------------------------------------------
(* Type correctness.                                                       *)

LEMMA ConsumerType ==
  ASSUME TypeOK, NEW c \in Clients, Consumer(c)
  PROVE  TypeOK'
<1>1. CASE ServeUpdate(c)
  <2> DEFINE u == Head(outbound[c])
  <2>1. u \in Update /\ Tail(outbound[c]) \in Seq(Update)
    BY <1>1, ElemsTail DEF ServeUpdate, TypeOK
  <2>2. u.by \in Clients /\ u.n \in Nat /\ u.text \in Text
    BY <2>1 DEF Update
  <2>3. ASSUME Replace(u, TRUE),
               publishing' = [publishing EXCEPT ![c] = [by |-> c, text |-> u.text, at |-> doc'.at, nth |-> doc'.nth]],
               outbound' = [outbound EXCEPT ![c] = Tail(@)],
               UNCHANGED <<open, inbox>>
        PROVE  TypeOK'
    <3>1. /\ doc' \in [text : Text, at : Time, nth : Nth] /\ late' \in 0 .. session.late /\ late' <= doc'.nth
          /\ served' \in [Clients -> Nat] /\ mine' \in [Clients -> Nth \cup {Never}]
          /\ lost' \in [Edit -> SUBSET Ways] /\ apart' \in [Clients -> SUBSET Ways]
      BY <2>2, <2>3, ReplaceType
    <3>2. [by |-> c, text |-> u.text, at |-> doc'.at, nth |-> doc'.nth] \in Event
      BY <2>2, <3>1 DEF Event
    <3>3. publishing' \in [Clients -> Event] /\ outbound' \in [Clients -> Seq(Update)]
      BY <2>1, <2>3, <3>2 DEF TypeOK
    <3> QED
      BY <1>1, <2>3, <3>1, <3>3 DEF TypeOK, ServeUpdate, editor, http
  <2>4. ASSUME Stopped(c), outbound' = [outbound EXCEPT ![c] = <<>>],
               lost' = Blame(By(c), "archived"), apart' = [apart EXCEPT ![c] = @ \cup {"archived"}],
               UNCHANGED <<doc, publishing, served, mine, late>>
        PROVE  TypeOK'
    <3>1. lost' \in [Edit -> SUBSET Ways] /\ apart' \in [Clients -> SUBSET Ways]
      BY <2>4, UnsentType DEF Ways
    <3>2. /\ open' \in [Clients -> BOOLEAN] /\ inbox' \in [Clients -> Seq(Event)]
          /\ outbound' \in [Clients -> Seq(Update)]
      BY <2>4 DEF Stopped, TypeOK
    <3> QED
      BY <1>1, <2>4, <3>1, <3>2 DEF TypeOK, ServeUpdate, editor, http
  <2> QED
    BY <1>1, <2>3, <2>4 DEF ServeUpdate
<1>2. CASE Publish(c)
  <2>1. \A d \in Clients : Append(inbox[d], publishing[c]) \in Seq(Event)
    BY ElemsAppend DEF TypeOK
  <2>2. inbox' \in [Clients -> Seq(Event)]
    BY <1>2, <2>1 DEF Publish, TypeOK
  <2>3. publishing' \in [Clients -> Event]
    BY <1>2, NothingType DEF Publish, TypeOK
  <2> QED
    BY <1>2, <2>2, <2>3 DEF Publish, TypeOK, editor, http, numbers, ghosts, meter
<1> QED
  BY <1>1, <1>2 DEF Consumer

LEMMA PublishFailsType ==
  ASSUME TypeOK, NEW c \in Clients, PublishFails(c)
  PROVE  TypeOK'
<1>1. faults' \in 0 .. session.faults
  <2>1. Fault
    BY DEF PublishFails
  <2> QED
    BY <2>1, SessionType DEF Fault, TypeOK
<1>2. publishing' \in [Clients -> Event]
  BY NothingType DEF PublishFails, TypeOK
<1>3. {"untold", "unsent"} \subseteq Ways
  BY DEF Ways
<1>4. PICK told \in SUBSET {d \in Clients : open[d]} :
        LET missed == {d \in Clients \ {c} : open[d] /\ d \notin told /\ publishing[c].nth = doc.nth}
            queues == [d \in Clients |-> IF d \in told THEN Append(inbox[d], publishing[c]) ELSE inbox[d]]
            untold == [d \in Clients |-> apart[d] \cup (IF d \in missed THEN {"untold"} ELSE {})]
        IN  \/ /\ inbox' = queues /\ apart' = untold
               /\ UNCHANGED <<open, outbound, lost>>
            \/ /\ open' = [open EXCEPT ![c] = FALSE]
               /\ inbox' = [queues EXCEPT ![c] = <<>>]
               /\ outbound' = [outbound EXCEPT ![c] = <<>>]
               /\ lost' = IF outbound[c] = <<>> THEN lost ELSE Blame(By(c), "unsent")
               /\ apart' = IF outbound[c] = <<>> THEN untold
                           ELSE [untold EXCEPT ![c] = @ \cup {"unsent"}]
  BY DEF PublishFails
<1> DEFINE missed == {d \in Clients \ {c} : open[d] /\ d \notin told /\ publishing[c].nth = doc.nth}
           queues == [d \in Clients |-> IF d \in told THEN Append(inbox[d], publishing[c]) ELSE inbox[d]]
           untold == [d \in Clients |-> apart[d] \cup (IF d \in missed THEN {"untold"} ELSE {})]
<1>5. queues \in [Clients -> Seq(Event)]
  <2>1. \A d \in Clients : Append(inbox[d], publishing[c]) \in Seq(Event) /\ inbox[d] \in Seq(Event)
    BY ElemsAppend DEF TypeOK
  <2> QED
    BY <2>1
<1>6. untold \in [Clients -> SUBSET Ways]
  BY <1>3 DEF TypeOK
<1>7. Blame(By(c), "unsent") \in [Edit -> SUBSET Ways]
  BY <1>3, UnsentType
<1> HIDE DEF queues, untold, missed
<1>8. /\ inbox' \in [Clients -> Seq(Event)] /\ apart' \in [Clients -> SUBSET Ways]
      /\ open' \in [Clients -> BOOLEAN] /\ outbound' \in [Clients -> Seq(Update)]
      /\ lost' \in [Edit -> SUBSET Ways]
  <2>1. CASE inbox' = queues /\ apart' = untold /\ UNCHANGED <<open, outbound, lost>>
    BY <1>5, <1>6, <2>1 DEF TypeOK
  <2>2. CASE /\ open' = [open EXCEPT ![c] = FALSE]
             /\ inbox' = [queues EXCEPT ![c] = <<>>]
             /\ outbound' = [outbound EXCEPT ![c] = <<>>]
             /\ lost' = IF outbound[c] = <<>> THEN lost ELSE Blame(By(c), "unsent")
             /\ apart' = IF outbound[c] = <<>> THEN untold
                         ELSE [untold EXCEPT ![c] = @ \cup {"unsent"}]
    <3>1. open' \in [Clients -> BOOLEAN] /\ lost' \in [Edit -> SUBSET Ways]
      BY <1>7, <2>2 DEF TypeOK
    <3>2. inbox' \in [Clients -> Seq(Event)]
      BY <1>5, <2>2
    <3>3. outbound' \in [Clients -> Seq(Update)]
      BY <2>2 DEF TypeOK
    <3>4. apart' \in [Clients -> SUBSET Ways]
      BY <1>3, <1>6, <2>2
    <3> QED
      BY <3>1, <3>2, <3>3, <3>4
  <2> QED
    BY <1>4, <2>1, <2>2 DEF queues, untold, missed
<1> QED
  BY <1>1, <1>2, <1>8 DEF PublishFails, Fault, TypeOK, editor, http, numbers

LEMMA HeardType ==
  ASSUME TypeOK, NEW c \in Clients, Deliver(c) \/ FirstAnswered(c) \/ PollAnswered(c)
  PROVE  TypeOK'
<1>1. NoFetch \in Fetch
  BY NothingType
<1>2. CASE Deliver(c)
  <2>1. /\ Head(inbox[c]) \in Event /\ Tail(inbox[c]) \in Seq(Event)
    BY <1>2, ElemsTail DEF Deliver, TypeOK
  <2>2. inbox' \in [Clients -> Seq(Event)]
    BY <1>2, <2>1 DEF Deliver, TypeOK
  <2>3. CASE Hear(c, Head(inbox[c]))
    <3>1. Head(inbox[c]).text \in Text /\ Head(inbox[c]).at \in Time
      BY <2>1 DEF Event
    <3>2. /\ shown' \in [Clients -> Text] /\ synced' \in [Clients -> Time \cup {Never}]
          /\ armed' = armed
          /\ lost' \in [Edit -> SUBSET Ways] /\ apart' \in [Clients -> SUBSET Ways]
      BY <2>3, <3>1, HearType
    <3> QED
      BY <1>2, <2>2, <3>2 DEF Deliver, TypeOK, server, http, numbers, meter
  <2>4. CASE UNCHANGED <<editor, lost, apart>>
    BY <1>2, <2>2, <2>4 DEF Deliver, TypeOK, server, editor, http, numbers, meter
  <2> QED
    BY <1>2, <2>3, <2>4 DEF Deliver
<1>3. CASE FirstAnswered(c)
  <2>1. first[c].text \in Text /\ first[c].at \in Time /\ {"load"} \in SUBSET Ways
    BY DEF TypeOK, Fetch, Ways
  <2>2. /\ shown' \in [Clients -> Text] /\ synced' \in [Clients -> Time \cup {Never}]
        /\ armed' = armed
        /\ lost' \in [Edit -> SUBSET Ways] /\ apart' \in [Clients -> SUBSET Ways]
    BY <1>3, <2>1, TakeType DEF FirstAnswered
  <2>3. first' \in [Clients -> Fetch]
    BY <1>1, <1>3 DEF FirstAnswered, TypeOK
  <2> QED
    BY <1>3, <2>2, <2>3 DEF FirstAnswered, TypeOK, server, wire, numbers, meter
<1>4. CASE PollAnswered(c)
  <2>1. poll[c].text \in Text /\ poll[c].at \in Time
    BY DEF TypeOK, Fetch
  <2>2. /\ shown' \in [Clients -> Text] /\ synced' \in [Clients -> Time \cup {Never}]
        /\ armed' = armed
        /\ lost' \in [Edit -> SUBSET Ways] /\ apart' \in [Clients -> SUBSET Ways]
    BY <1>4, <2>1, HearType DEF PollAnswered
  <2>3. poll' \in [Clients -> Fetch]
    BY <1>1, <1>4 DEF PollAnswered, TypeOK
  <2> QED
    BY <1>4, <2>2, <2>3 DEF PollAnswered, TypeOK, server, wire, numbers, meter
<1> QED
  BY <1>2, <1>3, <1>4

LEMMA FetchType ==
  ASSUME TypeOK, NEW c \in Clients, ServeFirst(c) \/ FirstFails(c) \/ AskPoll(c) \/ ServePoll(c)
  PROVE  TypeOK'
<1>1. NoFetch \in Fetch /\ \A f : Answered(f) \in Fetch
  BY AnsweredType, NothingType
<1>2. [poll[c] EXCEPT !.phase = "asked"] \in Fetch
  <2>1. poll[c] \in Fetch
    BY DEF TypeOK
  <2> QED
    BY <2>1 DEF Fetch
<1>3. CASE ServeFirst(c)
  BY <1>1, <1>3 DEF ServeFirst, TypeOK, server, wire, editor, numbers, ghosts, meter
<1>4. CASE FirstFails(c)
  <2>1. faults' \in 0 .. session.faults
    BY <1>4, SessionType DEF FirstFails, Fault, TypeOK
  <2> QED
    BY <1>1, <1>4, <2>1 DEF FirstFails, Fault, TypeOK, server, wire, editor, numbers, ghosts
<1>5. CASE AskPoll(c)
  <2>1. poll' \in [Clients -> Fetch]
    BY <1>2, <1>5 DEF AskPoll, TypeOK
  <2> QED
    BY <1>5, <2>1 DEF AskPoll, TypeOK, server, wire, editor, numbers, ghosts, meter
<1>6. CASE ServePoll(c)
  BY <1>1, <1>6 DEF ServePoll, TypeOK, server, wire, editor, numbers, ghosts, meter
<1> QED
  BY <1>3, <1>4, <1>5, <1>6

LEMMA PutType ==
  ASSUME TypeOK, NEW p \in puts, ServePut(p) \/ PutAnswered(p) \/ PutFails(p) \/ PutRefused(p)
  PROVE  TypeOK'
<1>1. p \in Put /\ p.by \in Clients /\ p.n \in Nat /\ p.text \in Text /\ p.at \in Time
  BY DEF TypeOK, Put
<1>2. puts \ {p} \subseteq Put
  BY DEF TypeOK
<1>3. CASE ServePut(p)
  <2>1. /\ doc' \in [text : Text, at : Time, nth : Nth] /\ late' \in 0 .. session.late /\ late' <= doc'.nth
        /\ served' \in [Clients -> Nat] /\ mine' \in [Clients -> Nth \cup {Never}]
        /\ lost' \in [Edit -> SUBSET Ways] /\ apart' \in [Clients -> SUBSET Ways]
    BY <1>1, <1>3, ReplaceType DEF ServePut
  <2>2. [p EXCEPT !.phase = "ok", !.at = doc'.at] \in Put
    BY <1>1, <2>1 DEF Put
  <2>3. puts' \subseteq Put
    BY <1>2, <1>3, <2>2 DEF ServePut
  <2> QED
    BY <1>3, <2>1, <2>3 DEF ServePut, TypeOK, wire, editor
<1>4. CASE PutAnswered(p)
  <2>1. synced' \in [Clients -> Time \cup {Never}]
    BY <1>1, <1>4 DEF PutAnswered, TypeOK
  <2>2. apart' \in [Clients -> SUBSET Ways]
    <3>1. apart \in [Clients -> SUBSET Ways] /\ {"answer", "late"} \subseteq Ways
      BY DEF TypeOK, Ways
    <3> QED
      BY <1>1, <1>4, <3>1 DEF PutAnswered
  <2> QED
    BY <1>2, <1>4, <2>1, <2>2 DEF PutAnswered, TypeOK, server, wire, numbers, meter
<1>5. CASE PutFails(p)
  <2>1. faults' \in 0 .. session.faults
    BY <1>5, SessionType DEF PutFails, Fault, TypeOK
  <2>2. lost' \in [Edit -> SUBSET Ways] /\ apart' \in [Clients -> SUBSET Ways] /\ author' = author
    <3>1. "unsent" \in Ways
      BY DEF Ways
    <3>2. Unsent(p.by, "unsent") \/ UNCHANGED <<lost, apart, author>>
      BY <1>5 DEF PutFails, ghosts
    <3> QED
      BY <1>1, <3>1, <3>2, UnsentType DEF TypeOK
  <2> QED
    BY <1>2, <1>5, <2>1, <2>2 DEF PutFails, Fault, TypeOK, server, wire, editor, numbers
<1>6. CASE PutRefused(p)
  <2>1. lost' \in [Edit -> SUBSET Ways] /\ apart' \in [Clients -> SUBSET Ways] /\ author' = author
    <3>1. "archived" \in Ways
      BY DEF Ways
    <3>2. Unsent(p.by, "archived")
      BY <1>6 DEF PutRefused
    <3> QED
      BY <1>1, <3>1, <3>2, UnsentType
  <2> QED
    BY <1>2, <1>6, <2>1 DEF PutRefused, TypeOK, server, wire, editor, numbers, meter
<1> QED
  BY <1>3, <1>4, <1>5, <1>6

\* A save of what c shows, as it is sent.
LEMMA SaveType ==
  ASSUME TypeOK, NEW c \in Clients
  PROVE  /\ sent[c] + 1 \in Nat
         /\ [by |-> c, n |-> sent[c] + 1, text |-> shown[c]] \in Update
         /\ [by |-> c, n |-> sent[c] + 1, text |-> shown[c], phase |-> "asked", at |-> 0] \in Put
<1>1. shown[c] \in Text /\ sent[c] + 1 \in Nat /\ 0 \in Time
  BY DocumentAssumption DEF TypeOK, Time
<1> QED
  BY <1>1 DEF Update, Put

LEMMA EditType ==
  ASSUME TypeOK, NEW c \in Clients, User(c) \/ SendContent(c)
  PROVE  TypeOK'
<1> DEFINE u == [by |-> c, n |-> sent[c] + 1, text |-> shown[c]]
           p == [by |-> c, n |-> sent[c] + 1, text |-> shown[c], phase |-> "asked", at |-> 0]
<1>1. sent[c] + 1 \in Nat /\ Append(outbound[c], u) \in Seq(Update) /\ p \in Put
  <2>1. outbound[c] \in Seq(Update)
    BY DEF TypeOK
  <2> QED
    BY <2>1, SaveType, ElemsAppend
<1>2. ASSUME NEW e \in Edit, Type(c, e)
      PROVE  TypeOK'
  <2>1. shown[c] \cup {e} \in Text
    BY DEF TypeOK, Text
  <2>2. /\ author' \in [Edit -> Clients \cup {Nobody}] /\ shown' \in [Clients -> Text]
        /\ armed' \in [Clients -> BOOLEAN]
    BY <1>2, <2>1 DEF Type, TypeOK
  <2> QED
    BY <1>2, <2>2 DEF Type, TypeOK, server, wire, http, numbers, meter
<1>3. CASE Blur(c)
  <2>1. blurs' \in 0 .. session.blurs
    BY <1>3, SessionType DEF Blur, TypeOK
  <2>2. sent' \in [Clients -> Nat] /\ puts' \subseteq Put
    BY <1>1, <1>3 DEF Blur, PersistViaHttp, TypeOK
  <2> QED
    BY <1>3, <2>1, <2>2 DEF Blur, TypeOK, server, wire, editor, ghosts
<1>4. CASE SendContent(c)
  <2>1. /\ sent' \in [Clients -> Nat] /\ puts' \subseteq Put /\ outbound' \in [Clients -> Seq(Update)]
        /\ armed' \in [Clients -> BOOLEAN]
    BY <1>1, <1>4 DEF SendContent, SaveContent, PersistViaHttp, TypeOK
  <2> QED
    BY <1>4, <2>1 DEF SendContent, TypeOK, server, ghosts, meter
<1> QED
  BY <1>2, <1>3, <1>4 DEF User

LEMMA SocketType ==
  ASSUME TypeOK, NEW c \in Clients, Connect(c) \/ Drop(c)
  PROVE  TypeOK'
<1>1. CASE Connect(c)
  <2>1. [by |-> Nobody, text |-> doc.text, at |-> doc.at, nth |-> doc.nth] \in Event
    BY DEF TypeOK, Event
  <2>2. inbox' \in [Clients -> Seq(Event)]
    BY <1>1, <2>1 DEF Connect, TypeOK
  <2>3. poll' \in [Clients -> Fetch]
    BY <1>1, NothingType DEF Connect, TypeOK
  <2>4. open' \in [Clients -> BOOLEAN]
    BY <1>1 DEF Connect, TypeOK
  <2> QED
    BY <1>1, <2>2, <2>3, <2>4 DEF Connect, TypeOK, server, editor, numbers, ghosts, meter
<1>2. CASE Drop(c)
  <2>1. faults' \in 0 .. session.faults
    BY <1>2, SessionType DEF Drop, Fault, TypeOK
  <2>2. open' \in [Clients -> BOOLEAN] /\ inbox' \in [Clients -> Seq(Event)]
    BY <1>2 DEF Drop, Stopped, TypeOK
  <2>3. "unsent" \in Ways
    BY DEF Ways
  <2>4. /\ outbound' \in [Clients -> Seq(Update)] /\ author' = author
        /\ lost' \in [Edit -> SUBSET Ways] /\ apart' \in [Clients -> SUBSET Ways]
    <3>1. Unsent(c, "unsent") \/ UNCHANGED <<lost, apart, author>>
      BY <1>2 DEF Drop, ghosts
    <3>2. outbound' \in [Clients -> Seq(Update)]
      <4>1. outbound' = outbound \/ outbound' = [outbound EXCEPT ![c] = <<>>]
        BY <1>2 DEF Drop
      <4>2. outbound \in [Clients -> Seq(Update)] /\ <<>> \in Seq(Update)
        BY DEF TypeOK
      <4> QED
        BY <4>1, <4>2
    <3> QED
      BY <2>3, <3>1, <3>2, UnsentType DEF TypeOK
  <2> QED
    BY <1>2, <2>1, <2>2, <2>4 DEF Drop, Fault, TypeOK, server, editor, http, numbers
<1> QED
  BY <1>1, <1>2

LEMMA NextType ==
  ASSUME TypeOK, [Next]_vars
  PROVE  TypeOK'
<1>1. CASE Archive
  BY <1>1 DEF Archive, TypeOK, wire, editor, http, numbers, ghosts, meter
<1>2. CASE UNCHANGED vars
  BY <1>2 DEF vars, TypeOK, server, wire, editor, http, numbers, ghosts, meter
<1> QED
  BY <1>1, <1>2, ConsumerType, PublishFailsType, HeardType, FetchType, PutType, EditType, SocketType
  DEF Next, Load, Polling, Puts, Faults

LEMMA InitType ==
  ASSUME Init
  PROVE  TypeOK
<1>1. 0 \in Time /\ 0 \in Nth
  BY DocumentAssumption DEF Time, Nth
<1>2. NoFetch \in Fetch /\ NoEvent \in Event /\ [NoFetch EXCEPT !.phase = "asked"] \in Fetch
  BY NothingType
<1>3. session \in Session /\ session \in Sessions
  BY DocumentAssumption DEF Init
<1>4. /\ 0 \in 0 .. session.blurs /\ 0 \in 0 .. session.faults /\ 0 \in 0 .. session.late
  BY <1>3 DEF Session
<1>5. /\ first \in [Clients -> Fetch] /\ poll \in [Clients -> Fetch]
      /\ publishing \in [Clients -> Event]
  BY <1>2 DEF Init
<1>6. inbox \in [Clients -> Seq(Event)] /\ outbound \in [Clients -> Seq(Update)]
  BY DEF Init
<1>7. /\ doc \in [text : Text, at : Time, nth : Nth] /\ late <= doc.nth /\ shown \in [Clients -> Text]
      /\ synced \in [Clients -> Time \cup {Never}] /\ mine \in [Clients -> Nth \cup {Never}]
      /\ lost \in [Edit -> SUBSET Ways] /\ apart \in [Clients -> SUBSET Ways]
      /\ author \in [Edit -> Clients \cup {Nobody}]
  BY <1>1 DEF Init, Text
<1> QED
  BY <1>3, <1>4, <1>5, <1>6, <1>7 DEF Init, TypeOK

\* The variables keep their types.
THEOREM TypeCorrect == Spec => []TypeOK
<1>1. Init => TypeOK
  BY InitType
<1>2. TypeOK /\ [Next]_vars => TypeOK'
  BY NextType
<1> QED
  BY <1>1, <1>2, PTL DEF Spec

-------------------------------------------------------------------------------
(* No edit vanishes.  Four lemmas say what keeps the invariant: things are  *)
(* lost with their ghosts, a text is taken, a text is sent, and a save is   *)
(* made.                                                                    *)

\* Where an edit is.
Kept(e) ==
  \/ e \in doc.text
  \/ lost[e] # {}
  \/ e \in shown[author[e]] /\ armed[author[e]]
  \/ \E u \in Saves(author[e]) : e \in u.text

LEMMA Vanish ==
  ASSUME TypeOK
  PROVE  NoEditVanishes <=> \A e \in Typed : Kept(e)
<1>1. ASSUME NEW e \in Typed
      PROVE  (\E u \in Saves(author[e]) : e \in u.text) <=>
               \/ \E i \in 1 .. Len(outbound[author[e]]) : e \in outbound[author[e]][i].text
               \/ \E p \in puts : p.by = author[e] /\ p.phase = "asked" /\ e \in p.text
  BY DEF Saves, Elems
<1> QED
  BY <1>1 DEF NoEditVanishes, Kept

LEMMA VanishNext ==
  ASSUME TypeOK'
  PROVE  NoEditVanishes' <=> (\A e \in Typed : Kept(e))'
<1>1. ASSUME NEW e \in Typed'
      PROVE  (\E u \in Saves(author[e])' : e \in u.text) <=>
               \/ \E i \in 1 .. Len(outbound'[author'[e]]) : e \in outbound'[author'[e]][i].text
               \/ \E p \in puts' : p.by = author'[e] /\ p.phase = "asked" /\ e \in p.text
  BY DEF Saves, Elems
<1> QED
  BY <1>1 DEF NoEditVanishes, Kept

\* Ghosts only grow.
Grows == \A e \in Edit : lost[e] # {} => lost'[e] # {}

LEMMA FineShrinks ==
  ASSUME TypeOK, Grows, author' = author
  PROVE  /\ Typed' = Typed /\ Fine' \subseteq Fine
         /\ \A c \in Clients : By(c)' = By(c) /\ Live(c)' \subseteq Live(c)
<1>1. Typed' = Typed /\ \A c \in Clients : By(c)' = By(c)
  BY DEF Typed, By
<1>2. Fine' \subseteq Fine
  BY <1>1 DEF Fine, Grows, Typed
<1> QED
  BY <1>1, <1>2 DEF Live

\* What is on its way is read, sent on, or lost and put down; what a client is
\* told is what it would have been told anyway, or what is saved now.
LEMMA OthersKeep ==
  ASSUME TypeOK, KeepInv, TypeOK', Grows, UNCHANGED <<doc, shown, armed, author, sent, served, mine>>,
         \A c \in Clients :
           /\ Saves(c)' \subseteq Saves(c)
           /\ Saves(c)' # Saves(c) => \A e \in By(c) : lost'[e] # {}
           /\ \A m \in News(c)' : m \in News(c) \/ (m.text = doc.text /\ m.at = doc.at /\ m.nth = doc.nth)
  PROVE  KeepInv'
<1>1. /\ Typed' = Typed /\ Fine' \subseteq Fine
      /\ \A c \in Clients : By(c)' = By(c) /\ Live(c)' \subseteq Live(c)
  BY FineShrinks
<1>2. doc.nth \in Int /\ doc.text \subseteq Typed
  BY DocumentAssumption DEF TypeOK, Nth, KeepInv, TypedOnly
<1>3. TypedOnly'
  BY <1>1, <1>2 DEF KeepInv, TypedOnly
<1>4. InTime'
  BY <1>2 DEF KeepInv, InTime
<1>5. OwnShown'
  BY <1>1 DEF KeepInv, OwnShown
<1>6. OthersSaved'
  BY <1>1 DEF KeepInv, OthersSaved
<1>7. SavesGrow'
  BY <1>1 DEF KeepInv, SavesGrow
<1>8. NewsHasSaved'
  BY <1>1 DEF KeepInv, NewsHasSaved
<1>9. NoEditVanishes'
  <2>1. ASSUME NEW e \in Typed
        PROVE  Kept(e)'
    <3>1. Kept(e) /\ e \in Edit /\ author[e] \in Clients /\ e \in By(author[e])
      BY Vanish DEF KeepInv, Typed, By, TypeOK
    <3>2. \/ e \in doc.text \/ lost[e] # {} \/ (e \in shown[author[e]] /\ armed[author[e]])
          \/ \E u \in Saves(author[e]) : e \in u.text
      BY <3>1 DEF Kept
    <3>3. (\E u \in Saves(author[e]) : e \in u.text) => lost'[e] # {} \/ \E u \in Saves(author[e])' : e \in u.text
      BY <3>1
    <3> QED
      BY <3>1, <3>2, <3>3 DEF Grows, Kept
  <2> QED
    BY <1>1, <2>1, VanishNext
<1> QED
  BY <1>3, <1>4, <1>5, <1>6, <1>7, <1>8, <1>9 DEF KeepInv

\* A text that c is told of takes the place of what it shows: what goes is lost
\* with its reason, or it would have to be in the text.
LEMMA TakeKeeps ==
  ASSUME TypeOK, KeepInv, TypeOK', NEW c \in Clients, NEW m \in News(c), NEW why, Take(c, m, why),
         UNCHANGED <<doc, author, sent, served, mine>>,
         \A d \in Clients : Saves(d)' = Saves(d) /\ News(d)' \subseteq News(d)
  PROVE  KeepInv'
<1>1. /\ m.text \in Text /\ m.nth \in Int /\ mine[c] \in Int
      /\ Outstanding(c) <=> Saves(c) # {}
  <2>1. mine[c] \in Nth \cup {Never} /\ Nth \subseteq Int /\ Never \in Int
    BY DocumentAssumption DEF TypeOK, Nth, Never
  <2> QED
    BY <2>1, OnTheWay
<1>2. /\ shown'[c] = m.text /\ \A d \in Clients \ {c} : shown'[d] = shown[d]
      /\ armed' = armed
  BY DEF Take, Show, TypeOK
<1> DEFINE crossed == Outstanding(c) \/ mine[c] > m.nth
           gone == By(c) \cap (shown[c] \ m.text)
<1>3. \A e \in Edit : /\ lost[e] \subseteq lost'[e]
                      /\ e \in gone /\ (crossed \/ armed[c]) => lost'[e] # {}
  BY DEF Take, TypeOK
<1>4. Grows
  BY <1>3 DEF Grows
<1>5. /\ Typed' = Typed /\ Fine' \subseteq Fine
      /\ \A d \in Clients : By(d)' = By(d) /\ Live(d)' \subseteq Live(d)
  BY <1>4, FineShrinks
<1>6. ASSUME NEW e \in Live(c)'
      PROVE  e \in m.text
  <2>1. e \in Live(c) /\ e \in Edit /\ author[e] = c /\ e \in Typed /\ lost[e] = {} /\ lost'[e] = {}
    BY <1>5 DEF Live, Fine, Typed, By
  <2>2. e \in shown[c]
    BY <2>1 DEF KeepInv, OwnShown
  <2>3. SUFFICES ASSUME e \notin m.text
                 PROVE  FALSE
    OBVIOUS
  <2>4. ~crossed /\ ~armed[c]
    BY <1>3, <2>1, <2>2, <2>3 DEF By
  <2>5. Saves(c) = {} /\ ~(mine[c] > m.nth)
    BY <1>1, <2>4
  <2>6. e \in doc.text
    BY <2>1, <2>4, <2>5, Vanish DEF KeepInv, Kept
  <2>7. m.nth >= mine[c] => e \in m.text
    BY <2>1, <2>6 DEF KeepInv, NewsHasSaved
  <2> QED
    BY <1>1, <2>3, <2>5, <2>6, <2>7
<1>7. TypedOnly'
  BY <1>2, <1>5 DEF KeepInv, TypedOnly
<1>8. InTime'
  BY DEF KeepInv, InTime
<1>9. OwnShown'
  BY <1>2, <1>5, <1>6 DEF KeepInv, OwnShown
<1>10. OthersSaved'
  BY <1>2, <1>5 DEF KeepInv, OthersSaved
<1>11. SavesGrow'
  BY <1>5 DEF KeepInv, SavesGrow
<1>12. NewsHasSaved'
  BY <1>5 DEF KeepInv, NewsHasSaved
<1>13. NoEditVanishes'
  <2>1. ASSUME NEW e \in Typed
        PROVE  Kept(e)'
    <3>1. Kept(e) /\ e \in Edit /\ author[e] \in Clients
      BY Vanish DEF KeepInv, Typed, TypeOK
    <3>2. CASE author[e] # c
      BY <1>2, <1>4, <3>1, <3>2 DEF Kept, Grows
    <3>3. CASE author[e] = c /\ e \in m.text
      BY <1>2, <1>4, <3>1, <3>3 DEF Kept, Grows
    <3>4. CASE author[e] = c /\ e \notin m.text
      <4>1. e \in shown[c] /\ armed[c] => lost'[e] # {}
        BY <1>3, <3>1, <3>4 DEF By
      <4> QED
        BY <1>4, <3>1, <3>4, <4>1 DEF Kept, Grows
    <3> QED
      BY <3>2, <3>3, <3>4
  <2> QED
    BY <1>5, <2>1, VanishNext
<1> QED
  BY <1>7, <1>8, <1>9, <1>10, <1>11, <1>12, <1>13 DEF KeepInv

\* c sends what it shows, under a number of its own.
LEMMA SendKeeps ==
  ASSUME TypeOK, KeepInv, TypeOK', NEW c \in Clients, NEW u,
         u.by = c, u.n = sent[c] + 1, u.text = shown[c],
         UNCHANGED <<doc, shown, author, lost, served, mine>>,
         \A d \in Clients : News(d)' = News(d) /\ (d # c => /\ Saves(d)' = Saves(d)
                                                            /\ sent'[d] = sent[d]
                                                            /\ armed'[d] = armed[d]),
         Saves(c)' = Saves(c) \cup {u}, sent'[c] = sent[c] + 1
  PROVE  KeepInv'
<1>1. /\ Typed' = Typed /\ Fine' = Fine
      /\ \A d \in Clients : By(d)' = By(d) /\ Live(d)' = Live(d)
  BY DEF Typed, By, Fine, Live
<1>2. /\ sent[c] \in Nat /\ served[c] \in Nat /\ \A d \in Clients : sent[d] \in Nat
      /\ \A d \in Clients : \A w \in Saves(d) : w.n \in Nat
  BY OnTheWay DEF TypeOK
<1>3. shown[c] \subseteq Typed /\ Live(c) \subseteq shown[c] /\ (Fine \cap shown[c]) \ By(c) \subseteq doc.text
  BY DEF KeepInv, TypedOnly, OwnShown, OthersSaved
<1>4. TypedOnly'
  <2>1. \A w \in Saves(c)' : w.text \subseteq Typed
    BY <1>3 DEF KeepInv, TypedOnly
  <2> QED
    BY <1>1, <2>1 DEF KeepInv, TypedOnly
<1>5. InTime'
  <2>1. \A w \in Saves(c)' : w.by = c /\ w.n <= sent'[c]
    BY <1>2 DEF KeepInv, InTime
  <2>2. \A d \in Clients :
          mine[d] <= doc.nth /\ \A m \in News(d) : /\ m.nth <= doc.nth
                                                   /\ m.nth = doc.nth => m.text = doc.text /\ m.at = doc.at
    BY DEF KeepInv, InTime
  <2>3. \A d \in Clients \ {c} : \A w \in Saves(d) : w.by = d /\ w.n <= sent[d]
    BY DEF KeepInv, InTime
  <2> QED
    BY <2>1, <2>2, <2>3 DEF InTime
<1>6. OwnShown'
  BY <1>1 DEF KeepInv, OwnShown
<1>7. OthersSaved'
  BY <1>1, <1>3 DEF KeepInv, OthersSaved
<1>8. SavesGrow'
  <2>1. \A w \in Saves(c)' : w.n >= served[c] => Live(c) \cap doc.text \subseteq w.text
    BY <1>3 DEF KeepInv, SavesGrow
  <2>2. ASSUME NEW w \in Saves(c)', NEW v \in Saves(c)', v.n <= w.n
        PROVE  Live(c) \cap v.text \subseteq w.text
    <3>1. CASE w = u
      BY <1>3, <3>1
    <3>2. CASE w \in Saves(c) /\ v \in Saves(c)
      BY <2>2, <3>2 DEF KeepInv, SavesGrow
    <3>3. CASE w \in Saves(c) /\ v = u
      <4>1. w.n <= sent[c] /\ w.n \in Nat
        BY <1>2, <3>3 DEF KeepInv, InTime
      <4> QED
        BY <1>2, <2>2, <3>3, <4>1
    <3> QED
      BY <2>2, <3>1, <3>2, <3>3
  <2>3. ASSUME NEW d \in Clients \ {c}, NEW w \in Saves(d)
        PROVE  /\ w.n >= served[d] => Live(d) \cap doc.text \subseteq w.text
               /\ \A v \in Saves(d) : v.n <= w.n => Live(d) \cap v.text \subseteq w.text
    BY <2>3 DEF KeepInv, SavesGrow
  <2> QED
    BY <1>1, <2>1, <2>2, <2>3 DEF SavesGrow
<1>9. NewsHasSaved'
  BY <1>1 DEF KeepInv, NewsHasSaved
<1>10. NoEditVanishes'
  <2>1. ASSUME NEW e \in Typed
        PROVE  Kept(e)'
    <3>1. Kept(e) /\ author[e] \in Clients
      BY Vanish DEF KeepInv, Typed, TypeOK
    <3>2. CASE author[e] # c
      BY <3>1, <3>2 DEF Kept
    <3>3. CASE author[e] = c
      <4>1. e \in shown[c] => \E w \in Saves(c)' : e \in w.text
        OBVIOUS
      <4> QED
        BY <3>1, <3>3, <4>1 DEF Kept
    <3> QED
      BY <3>2, <3>3
  <2> QED
    BY <1>1, <2>1, VanishNext
<1> QED
  BY <1>4, <1>5, <1>6, <1>7, <1>8, <1>9, <1>10 DEF KeepInv

\* A save is made: what it takes from the saved text it is blamed for, or its
\* client had given up already.
LEMMA ReplaceKeeps ==
  ASSUME TypeOK, KeepInv, TypeOK', NEW u, u.by \in Clients, u \in Saves(u.by),
         NEW told \in BOOLEAN, Replace(u, told),
         UNCHANGED <<shown, armed, author, sent>>,
         \A d \in Clients :
           /\ Saves(d)' \subseteq Saves(d)
           /\ \A w \in Saves(d) : w \in Saves(d)' \/ w = u
           /\ \A m \in News(d)' : m \in News(d) \/ (m.text = doc'.text /\ m.at = doc'.at /\ m.nth = doc'.nth)
  PROVE  KeepInv'
<1> DEFINE c == u.by
<1>1. /\ u.n \in Nat /\ u.text \in Text /\ u.text \subseteq Typed
      /\ \A d \in Clients : \A w \in Saves(d) : w.n \in Nat
      /\ \A d \in Clients : \A m \in News(d) : m.nth \in Int
  BY OnTheWay DEF KeepInv, TypedOnly
<1>2. doc'.text = u.text /\ doc'.nth = doc.nth + 1
  BY <1>1, ReplaceType
<1>3. /\ doc.nth \in Int /\ \A d \in Clients : mine[d] \in Int /\ served[d] \in Nat
  BY DocumentAssumption DEF TypeOK, Nth, Never
<1>4. /\ served'[c] = IF u.n > served[c] THEN u.n ELSE served[c]
      /\ mine'[c] = doc.nth + 1
      /\ \A d \in Clients \ {c} : served'[d] = served[d] /\ mine'[d] = mine[d]
  BY DEF Replace, TypeOK
<1>5. \A e \in Edit :
        /\ lost[e] \subseteq lost'[e]
        /\ e \in doc.text \ u.text /\ (author[e] # c \/ u.n < served[c]) => lost'[e] # {}
  BY DEF Replace, TypeOK
<1>6. Grows
  BY <1>5 DEF Grows
<1>7. /\ Typed' = Typed /\ Fine' \subseteq Fine
      /\ \A d \in Clients : By(d)' = By(d) /\ Live(d)' \subseteq Live(d)
  BY <1>6, FineShrinks
<1>8. Fine' \cap doc.text \subseteq u.text
  <2>1. ASSUME NEW e \in Fine', e \in doc.text, e \notin u.text
        PROVE  FALSE
    <3>1. e \in Fine /\ e \in Edit /\ lost'[e] = {}
      BY <1>7, <2>1 DEF Fine, Typed
    <3>2. author[e] = c /\ ~(u.n < served[c])
      BY <1>5, <2>1, <3>1
    <3>3. e \in Live(c)
      BY <3>1, <3>2 DEF Live, By
    <3> QED
      BY <1>1, <1>3, <2>1, <3>2, <3>3 DEF KeepInv, SavesGrow
  <2> QED
    BY <2>1
<1>9. \A d \in Clients \ {c} : Live(d)' \cap u.text \subseteq doc.text
  BY <1>7 DEF KeepInv, OthersSaved, Live, By
<1>10. TypedOnly'
  BY <1>1, <1>2, <1>7 DEF KeepInv, TypedOnly
<1>11. InTime'
  <2>1. \A d \in Clients : mine[d] <= doc.nth /\ \A w \in Saves(d) : w.by = d /\ w.n <= sent[d]
    BY DEF KeepInv, InTime
  <2>2. \A d \in Clients : \A m \in News(d) : m.nth <= doc.nth /\ m.nth \in Int
    BY <1>1 DEF KeepInv, InTime
  <2>3. ASSUME NEW d \in Clients
        PROVE  mine'[d] <= doc'.nth
    BY <1>2, <1>3, <1>4, <2>1
  <2>4. ASSUME NEW d \in Clients, NEW m \in News(d)'
        PROVE  m.nth <= doc'.nth /\ (m.nth = doc'.nth => m.text = doc'.text /\ m.at = doc'.at)
    BY <1>2, <1>3, <2>2, <2>4
  <2> QED
    BY <2>1, <2>3, <2>4 DEF InTime
<1>12. OwnShown'
  BY <1>7 DEF KeepInv, OwnShown
<1>13. OthersSaved'
  <2>1. \A d \in Clients : /\ (Fine \cap shown[d]) \ By(d) \subseteq doc.text
                           /\ \A w \in Saves(d) : (Fine \cap w.text) \ By(d) \subseteq doc.text
                           /\ \A m \in News(d) : Fine \cap m.text \subseteq doc.text
    BY DEF KeepInv, OthersSaved
  <2> QED
    BY <1>2, <1>7, <1>8, <2>1 DEF OthersSaved
<1>14. SavesGrow'
  <2>1. ASSUME NEW d \in Clients, NEW w \in Saves(d), w.n >= served'[d]
        PROVE  Live(d)' \cap u.text \subseteq w.text
    <3>1. CASE d = c
      <4>1. u.n <= w.n
        BY <1>1, <1>3, <1>4, <2>1, <3>1
      <4> QED
        BY <1>7, <3>1, <4>1 DEF KeepInv, SavesGrow
    <3>2. CASE d # c
      <4>1. w.n >= served[d]
        BY <1>4, <2>1, <3>2
      <4>2. Live(d) \cap doc.text \subseteq w.text
        BY <4>1 DEF KeepInv, SavesGrow
      <4> QED
        BY <1>7, <1>9, <3>2, <4>2
    <3> QED
      BY <3>1, <3>2
  <2>2. \A d \in Clients : \A w \in Saves(d), v \in Saves(d) :
          v.n <= w.n => Live(d)' \cap v.text \subseteq w.text
    BY <1>7 DEF KeepInv, SavesGrow
  <2> QED
    BY <1>2, <2>1, <2>2 DEF SavesGrow
<1>15. NewsHasSaved'
  <2>1. ASSUME NEW d \in Clients, NEW m \in News(d)', m.nth >= mine'[d]
        PROVE  Live(d)' \cap doc'.text \subseteq m.text
    <3>1. CASE m.text = doc'.text
      BY <3>1
    <3>2. CASE m \in News(d) /\ d = c
      <4>1. m.nth <= doc.nth /\ m.nth \in Int
        BY <1>1, <3>2 DEF KeepInv, InTime
      <4> QED
        BY <1>2, <1>3, <1>4, <2>1, <3>2, <4>1
    <3>3. CASE m \in News(d) /\ d # c
      <4>1. Live(d) \cap doc.text \subseteq m.text
        BY <1>4, <2>1, <3>3 DEF KeepInv, NewsHasSaved
      <4> QED
        BY <1>2, <1>7, <1>9, <3>3, <4>1
    <3> QED
      BY <2>1, <3>1, <3>2, <3>3
  <2> QED
    BY <2>1 DEF NewsHasSaved
<1>16. NoEditVanishes'
  <2>1. ASSUME NEW e \in Typed
        PROVE  Kept(e)'
    <3>1. Kept(e) /\ e \in Edit /\ author[e] \in Clients
      BY Vanish DEF KeepInv, Typed, TypeOK
    <3>2. e \in doc.text => lost'[e] # {} \/ e \in doc'.text
      <4>1. lost'[e] = {} => e \in Fine'
        BY <1>7, <2>1 DEF Fine
      <4> QED
        BY <1>2, <1>8, <4>1
    <3>3. \A w \in Saves(author[e]) : e \in w.text => e \in doc'.text \/ \E v \in Saves(author[e])' : e \in v.text
      BY <1>2, <3>1
    <3> QED
      BY <1>6, <3>1, <3>2, <3>3 DEF Kept, Grows
  <2> QED
    BY <1>7, <2>1, VanishNext
<1> QED
  BY <1>10, <1>11, <1>12, <1>13, <1>14, <1>15, <1>16 DEF KeepInv

\* An edit that is typed is in no text but the one its user sees.
LEMMA TypeKeeps ==
  ASSUME TypeOK, KeepInv, TypeOK', NEW c \in Clients, NEW e \in Edit, Type(c, e)
  PROVE  KeepInv'
<1>1. /\ e \notin Typed
      /\ author'[e] = c /\ \A f \in Edit \ {e} : author'[f] = author[f]
      /\ shown'[c] = shown[c] \cup {e} /\ armed'[c] = TRUE
      /\ \A d \in Clients \ {c} : shown'[d] = shown[d] /\ armed'[d] = armed[d]
      /\ UNCHANGED <<doc, publishing, inbox, outbound, first, poll, puts, sent, served, mine, lost>>
  BY DEF Type, TypeOK, server, wire, http, numbers
<1>2. \A d \in Clients : Saves(d)' = Saves(d) /\ News(d)' = News(d)
  BY <1>1 DEF Saves, News
<1>3. /\ Typed' = Typed \cup {e} /\ Fine' \subseteq Fine \cup {e}
      /\ \A d \in Clients : By(d)' \subseteq By(d) \cup {e} /\ By(d) \subseteq By(d)'
      /\ \A d \in Clients \ {c} : By(d)' = By(d)
      /\ e \in By(c)'
  <2>1. author[e] = Nobody /\ c # Nobody
    BY <1>1, DocumentAssumption DEF Typed
  <2>2. Typed' = Typed \cup {e}
    BY <1>1, <2>1 DEF Typed
  <2>3. \A d \in Clients : d # Nobody
    BY DocumentAssumption
  <2> QED
    BY <1>1, <2>1, <2>2, <2>3 DEF By, Fine
<1>4. /\ \A d \in Clients : Live(d)' \subseteq Live(d) \cup {e}
      /\ \A d \in Clients \ {c} : Live(d)' \subseteq Live(d)
  <2>1. \A d \in Clients \ {c} : e \notin By(d)'
    BY <1>1 DEF By
  <2> QED
    BY <1>3, <2>1 DEF Live
<1>5. /\ e \notin doc.text
      /\ \A d \in Clients : /\ e \notin shown[d]
                            /\ \A u \in Saves(d) : e \notin u.text
                            /\ \A m \in News(d) : e \notin m.text
  BY <1>1 DEF KeepInv, TypedOnly
<1>6. TypedOnly'
  BY <1>1, <1>2, <1>3 DEF KeepInv, TypedOnly
<1>7. InTime'
  BY <1>1, <1>2 DEF KeepInv, InTime
<1>8. OwnShown'
  <2>1. \A d \in Clients : Live(d) \subseteq shown[d]
    BY DEF KeepInv, OwnShown
  <2> QED
    BY <1>1, <1>4, <2>1 DEF OwnShown
<1>9. OthersSaved'
  <2>1. \A d \in Clients : /\ (Fine \cap shown[d]) \ By(d) \subseteq doc.text
                           /\ \A w \in Saves(d) : (Fine \cap w.text) \ By(d) \subseteq doc.text
                           /\ \A m \in News(d) : Fine \cap m.text \subseteq doc.text
    BY DEF KeepInv, OthersSaved
  <2>2. \A d \in Clients : (Fine' \cap shown'[d]) \ By(d)' \subseteq doc.text
    BY <1>1, <1>3, <1>5, <2>1
  <2> QED
    BY <1>1, <1>2, <1>3, <1>5, <2>1, <2>2 DEF OthersSaved
<1>10. SavesGrow'
  <2>1. \A d \in Clients : \A u \in Saves(d) :
          /\ u.n >= served[d] => Live(d) \cap doc.text \subseteq u.text
          /\ \A v \in Saves(d) : v.n <= u.n => Live(d) \cap v.text \subseteq u.text
    BY DEF KeepInv, SavesGrow
  <2> QED
    BY <1>1, <1>2, <1>4, <1>5, <2>1 DEF SavesGrow
<1>11. NewsHasSaved'
  <2>1. \A d \in Clients : \A m \in News(d) : m.nth >= mine[d] => Live(d) \cap doc.text \subseteq m.text
    BY DEF KeepInv, NewsHasSaved
  <2> QED
    BY <1>1, <1>2, <1>4, <1>5, <2>1 DEF NewsHasSaved
<1>12. NoEditVanishes'
  <2>1. ASSUME NEW f \in Typed'
        PROVE  Kept(f)'
    <3>1. CASE f = e
      BY <1>1, <3>1 DEF Kept
    <3>2. CASE f # e
      <4>1. f \in Typed /\ Kept(f) /\ f \in Edit /\ author[f] \in Clients /\ author'[f] = author[f]
        BY <1>1, <1>3, <2>1, <3>2, Vanish DEF KeepInv, Typed, TypeOK
      <4>2. f \in shown[author[f]] /\ armed[author[f]] => f \in shown'[author[f]] /\ armed'[author[f]]
        BY <1>1, <4>1
      <4> QED
        BY <1>1, <1>2, <4>1, <4>2 DEF Kept
    <3> QED
      BY <3>1, <3>2
  <2> QED
    BY <2>1, VanishNext
<1> QED
  BY <1>6, <1>7, <1>8, <1>9, <1>10, <1>11, <1>12 DEF KeepInv

-------------------------------------------------------------------------------
(* Every step is one of these.                                             *)

\* What is told of publishing, and of the texts asked for, of everybody else's
\* save and of one's own.
LEMMA NewsParts ==
  ASSUME NEW c \in Clients
  PROVE  /\ Elems(inbox[c]) \subseteq News(c)
         /\ \A d \in Clients : publishing[d] # NoEvent => publishing[d] \in News(c)
         /\ first[c].phase = "answered" => first[c] \in News(c)
         /\ poll[c].phase = "answered" => poll[c] \in News(c)
  BY DEF News

LEMMA SavesParts ==
  ASSUME NEW c \in Clients
  PROVE  /\ Elems(outbound[c]) \subseteq Saves(c)
         /\ \A p \in puts : p.by = c /\ p.phase = "asked" => p \in Saves(c)
  BY DEF Saves

LEMMA ConsumerKeeps ==
  ASSUME TypeOK, KeepInv, TypeOK', NEW c \in Clients, Consumer(c)
  PROVE  KeepInv'
<1>1. CASE ServeUpdate(c)
  <2> DEFINE u == Head(outbound[c])
  <2>1. /\ outbound[c] \in Seq(Update) /\ outbound[c] # <<>>
        /\ u \in Elems(outbound[c]) /\ u \in Update
        /\ Elems(Tail(outbound[c])) \subseteq Elems(outbound[c])
        /\ \A w \in Elems(outbound[c]) : w = u \/ w \in Elems(Tail(outbound[c]))
    <3>1. outbound[c] \in Seq(Update) /\ outbound[c] # <<>>
      BY <1>1 DEF ServeUpdate, TypeOK
    <3> QED
      BY <3>1, ElemsTail
  <2>2. ASSUME Replace(u, TRUE),
               publishing' = [publishing EXCEPT ![c] = [by |-> c, text |-> u.text, at |-> doc'.at, nth |-> doc'.nth]],
               outbound' = [outbound EXCEPT ![c] = Tail(@)],
               UNCHANGED <<open, inbox>>, u.by = c
        PROVE  KeepInv'
    <3>1. doc'.text = u.text
      BY <2>1, <2>2, ReplaceType DEF Update
    <3>2. UNCHANGED <<shown, armed, author, sent, first, poll, puts, inbox>>
      BY <1>1, <2>2 DEF ServeUpdate, editor, http
    <3>3. /\ outbound'[c] = Tail(outbound[c])
          /\ \A d \in Clients \ {c} : outbound'[d] = outbound[d]
      BY <2>2 DEF TypeOK
    <3>4. /\ \A d \in Clients : Saves(d)' \subseteq Saves(d)
          /\ \A d \in Clients : \A w \in Saves(d) : w \in Saves(d)' \/ w = u
      BY <2>1, <3>2, <3>3 DEF Saves
    <3>5. \A d \in Clients : publishing'[d] = publishing[d] \/ (publishing'[d].text = doc'.text /\ publishing'[d].at = doc'.at /\ publishing'[d].nth = doc'.nth)
      BY <2>2, <3>1 DEF TypeOK
    <3>6. \A d \in Clients : \A m \in News(d)' : m \in News(d) \/ (m.text = doc'.text /\ m.at = doc'.at /\ m.nth = doc'.nth)
      BY <3>2, <3>5 DEF News
    <3>7. u \in Saves(u.by) /\ u.by \in Clients
      BY <2>1, <2>2, SavesParts
    <3> QED
      BY <2>2, <3>2, <3>4, <3>6, <3>7, ReplaceKeeps
  <2>3. ASSUME Stopped(c), outbound' = [outbound EXCEPT ![c] = <<>>],
               lost' = Blame(By(c), "archived"),
               UNCHANGED <<doc, publishing, served, mine, late>>
        PROVE  KeepInv'
    <3>1. UNCHANGED <<shown, armed, author, sent, first, poll, puts>>
      BY <1>1 DEF ServeUpdate, editor, http
    <3>2. /\ inbox'[c] = <<>> /\ outbound'[c] = <<>>
          /\ \A d \in Clients \ {c} : outbound'[d] = outbound[d] /\ inbox'[d] = inbox[d]
      BY <2>3 DEF Stopped, TypeOK
    <3>3. \A d \in Clients : Saves(d)' \subseteq Saves(d) /\ News(d)' \subseteq News(d)
      BY <2>3, <3>1, <3>2, ElemsShort DEF Saves, News
    <3>4. \A d \in Clients \ {c} : Saves(d)' = Saves(d)
      BY <3>1, <3>2 DEF Saves
    <3>5. Grows /\ \A e \in By(c) : lost'[e] # {}
      BY <2>3 DEF Grows, Blame, By, TypeOK
    <3> QED
      BY <2>3, <3>1, <3>3, <3>4, <3>5, OthersKeep
  <2>4. u.by = c
    BY <2>1, SavesParts DEF KeepInv, InTime
  <2> QED
    BY <1>1, <2>2, <2>3, <2>4 DEF ServeUpdate
<1>2. CASE Publish(c)
  <2>1. /\ publishing[c] # NoEvent /\ publishing'[c] = NoEvent
        /\ \A d \in Clients \ {c} : publishing'[d] = publishing[d]
        /\ UNCHANGED <<doc, outbound, shown, armed, first, poll, puts, sent, served, mine, author, lost>>
    BY <1>2 DEF Publish, TypeOK, editor, http, numbers, ghosts
  <2>2. \A d \in Clients : inbox[d] \in Seq(Event) /\ publishing[c] \in Event
    BY DEF TypeOK
  <2>3. ASSUME NEW d \in Clients
        PROVE  Elems(inbox'[d]) \subseteq Elems(inbox[d]) \cup {publishing[c]}
    <3>1. inbox'[d] = IF open[d] THEN Append(inbox[d], publishing[c]) ELSE inbox[d]
      BY <1>2 DEF Publish
    <3> QED
      BY <2>2, <3>1, ElemsAppend
  <2>4. \A d \in Clients : Saves(d)' = Saves(d) /\ News(d)' \subseteq News(d)
    BY <2>1, <2>3 DEF Saves, News
  <2> QED
    BY <2>1, <2>4, OthersKeep DEF Grows
<1> QED
  BY <1>1, <1>2 DEF Consumer

\* The event reaches some of those who are connected.  It may end the connection.
LEMMA PartlyTold ==
  ASSUME TypeOK, NEW c \in Clients, PublishFails(c)
  PROVE  /\ publishing[c] # NoEvent /\ publishing'[c] = NoEvent
         /\ \A d \in Clients \ {c} : publishing'[d] = publishing[d]
         /\ UNCHANGED <<doc, archived, shown, synced, armed, first, poll, puts, sent, served, mine, author>>
         /\ \A d \in Clients : Elems(inbox'[d]) \subseteq Elems(inbox[d]) \cup {publishing[c]}
         /\ \A d \in Clients \ {c} :
              /\ open'[d] = open[d] /\ outbound'[d] = outbound[d] /\ Elems(inbox[d]) \subseteq Elems(inbox'[d])
              /\ apart[d] \subseteq apart'[d]
              /\ open[d] => \/ publishing[c] \in Elems(inbox'[d])
                            \/ publishing[c].nth # doc.nth
                            \/ "untold" \in apart'[d]
         /\ \/ /\ outbound'[c] = outbound[c] /\ lost' = lost /\ apart'[c] = apart[c]
               /\ open'[c] = open[c] /\ Elems(inbox[c]) \subseteq Elems(inbox'[c])
            \/ /\ outbound[c] = <<>> /\ outbound'[c] = <<>> /\ lost' = lost /\ apart'[c] = apart[c]
               /\ ~open'[c]
            \/ /\ outbound'[c] = <<>> /\ lost' = Blame(By(c), "unsent") /\ "unsent" \in apart'[c]
               /\ ~open'[c]
<1>1. PICK told \in SUBSET {d \in Clients : open[d]} :
        LET missed == {d \in Clients \ {c} : open[d] /\ d \notin told /\ publishing[c].nth = doc.nth}
            queues == [d \in Clients |-> IF d \in told THEN Append(inbox[d], publishing[c]) ELSE inbox[d]]
            untold == [d \in Clients |-> apart[d] \cup (IF d \in missed THEN {"untold"} ELSE {})]
        IN  \/ /\ inbox' = queues /\ apart' = untold
               /\ UNCHANGED <<open, outbound, lost>>
            \/ /\ open' = [open EXCEPT ![c] = FALSE]
               /\ inbox' = [queues EXCEPT ![c] = <<>>]
               /\ outbound' = [outbound EXCEPT ![c] = <<>>]
               /\ lost' = IF outbound[c] = <<>> THEN lost ELSE Blame(By(c), "unsent")
               /\ apart' = IF outbound[c] = <<>> THEN untold
                           ELSE [untold EXCEPT ![c] = @ \cup {"unsent"}]
  BY DEF PublishFails
<1> DEFINE missed == {d \in Clients \ {c} : open[d] /\ d \notin told /\ publishing[c].nth = doc.nth}
           queues == [d \in Clients |-> IF d \in told THEN Append(inbox[d], publishing[c]) ELSE inbox[d]]
           untold == [d \in Clients |-> apart[d] \cup (IF d \in missed THEN {"untold"} ELSE {})]
<1>2. \/ inbox' = queues /\ apart' = untold /\ UNCHANGED <<open, outbound, lost>>
      \/ /\ open' = [open EXCEPT ![c] = FALSE]
         /\ inbox' = [queues EXCEPT ![c] = <<>>]
         /\ outbound' = [outbound EXCEPT ![c] = <<>>]
         /\ lost' = IF outbound[c] = <<>> THEN lost ELSE Blame(By(c), "unsent")
         /\ apart' = IF outbound[c] = <<>> THEN untold
                     ELSE [untold EXCEPT ![c] = @ \cup {"unsent"}]
  BY <1>1
<1>3. ASSUME NEW d \in Clients
      PROVE  /\ d \in told => Elems(queues[d]) = Elems(inbox[d]) \cup {publishing[c]}
             /\ d \notin told => Elems(queues[d]) = Elems(inbox[d])
  <2>1. inbox[d] \in Seq(Event) /\ publishing[c] \in Event
    BY DEF TypeOK
  <2> QED
    BY <2>1, ElemsAppend
<1>4. /\ \A d \in Clients : apart[d] \subseteq untold[d]
      /\ \A d \in Clients \ {c} :
           open[d] => d \in told \/ publishing[c].nth # doc.nth \/ "untold" \in untold[d]
      /\ untold[c] = apart[c]
  OBVIOUS
<1>5. DOMAIN queues = Clients /\ DOMAIN untold = Clients
  OBVIOUS
<1>6. /\ publishing[c] # NoEvent /\ publishing'[c] = NoEvent
      /\ \A d \in Clients \ {c} : publishing'[d] = publishing[d]
      /\ UNCHANGED <<doc, archived, shown, synced, armed, first, poll, puts, sent, served, mine, author>>
  BY DEF PublishFails, TypeOK, editor, http, numbers
<1> HIDE DEF queues, untold, missed
<1>7. CASE inbox' = queues /\ apart' = untold /\ UNCHANGED <<open, outbound, lost>>
  BY <1>3, <1>4, <1>6, <1>7
<1>8. CASE /\ open' = [open EXCEPT ![c] = FALSE]
           /\ inbox' = [queues EXCEPT ![c] = <<>>]
           /\ outbound' = [outbound EXCEPT ![c] = <<>>]
           /\ lost' = IF outbound[c] = <<>> THEN lost ELSE Blame(By(c), "unsent")
           /\ apart' = IF outbound[c] = <<>> THEN untold
                       ELSE [untold EXCEPT ![c] = @ \cup {"unsent"}]
  <2>1. /\ inbox'[c] = <<>> /\ \A d \in Clients \ {c} : inbox'[d] = queues[d]
        /\ \A d \in Clients \ {c} : apart'[d] = untold[d]
    BY <1>5, <1>8
  <2>2. IF outbound[c] = <<>> THEN lost' = lost /\ apart'[c] = apart[c]
        ELSE lost' = Blame(By(c), "unsent") /\ "unsent" \in apart'[c]
    BY <1>4, <1>5, <1>8
  <2>3. /\ outbound'[c] = <<>> /\ ~open'[c]
        /\ \A d \in Clients \ {c} : open'[d] = open[d] /\ outbound'[d] = outbound[d]
    BY <1>8 DEF TypeOK
  <2> QED
    BY <1>3, <1>4, <1>6, <2>1, <2>2, <2>3, ElemsShort
<1> QED
  BY <1>2, <1>7, <1>8

LEMMA PublishFailsKeeps ==
  ASSUME TypeOK, KeepInv, TypeOK', NEW c \in Clients, PublishFails(c)
  PROVE  KeepInv'
<1>1. /\ publishing[c] # NoEvent /\ publishing'[c] = NoEvent
      /\ \A d \in Clients \ {c} : publishing'[d] = publishing[d] /\ outbound'[d] = outbound[d]
      /\ UNCHANGED <<doc, shown, armed, first, poll, puts, sent, served, mine, author>>
      /\ \A d \in Clients : Elems(inbox'[d]) \subseteq Elems(inbox[d]) \cup {publishing[c]}
      /\ \/ outbound'[c] = outbound[c] /\ lost' = lost
         \/ outbound'[c] = <<>> /\ lost' = Blame(By(c), "unsent")
  BY PartlyTold
<1>2. \A d \in Clients : News(d)' \subseteq News(d)
  BY <1>1 DEF News
<1>3. \A d \in Clients \ {c} : Saves(d)' = Saves(d)
  BY <1>1 DEF Saves
<1>4. CASE outbound'[c] = outbound[c] /\ lost' = lost
  <2>1. Saves(c)' = Saves(c)
    BY <1>1, <1>4 DEF Saves
  <2> QED
    BY <1>1, <1>2, <1>3, <1>4, <2>1, OthersKeep DEF Grows
<1>5. CASE outbound'[c] = <<>> /\ lost' = Blame(By(c), "unsent")
  <2>1. Saves(c)' \subseteq Saves(c)
    BY <1>1, <1>5, ElemsShort DEF Saves
  <2>2. Grows /\ \A e \in By(c) : lost'[e] # {}
    BY <1>5 DEF Grows, Blame, By
  <2> QED
    BY <1>1, <1>2, <1>3, <2>1, <2>2, OthersKeep
<1> QED
  BY <1>1, <1>4, <1>5

LEMMA HearKeeps ==
  ASSUME TypeOK, KeepInv, TypeOK', NEW c \in Clients, NEW m \in News(c), Hear(c, m),
         UNCHANGED <<doc, author, sent, served, mine>>,
         \A d \in Clients : Saves(d)' = Saves(d) /\ News(d)' \subseteq News(d)
  PROVE  KeepInv'
<1>1. CASE Take(c, m, {})
  BY <1>1, TakeKeeps
<1>2. CASE Ignore
  BY <1>2, OthersKeep DEF Ignore, Grows
<1> QED
  BY <1>1, <1>2 DEF Hear

LEMMA HeardKeeps ==
  ASSUME TypeOK, KeepInv, TypeOK', NEW c \in Clients, Deliver(c) \/ FirstAnswered(c) \/ PollAnswered(c)
  PROVE  KeepInv'
<1>1. CASE Deliver(c)
  <2>1. /\ Head(inbox[c]) \in Elems(inbox[c])
        /\ Elems(Tail(inbox[c])) \subseteq Elems(inbox[c])
    <3>1. inbox[c] \in Seq(Event) /\ inbox[c] # <<>>
      BY <1>1 DEF Deliver, TypeOK
    <3> QED
      BY <3>1, ElemsTail
  <2>2. UNCHANGED <<doc, publishing, outbound, first, poll, puts, sent, served, mine, author>>
    BY <1>1 DEF Deliver, server, http, numbers
  <2>3. inbox'[c] = Tail(inbox[c]) /\ \A d \in Clients \ {c} : inbox'[d] = inbox[d]
    BY <1>1 DEF Deliver, TypeOK
  <2>4. \A d \in Clients : Saves(d)' = Saves(d) /\ News(d)' \subseteq News(d)
    BY <2>1, <2>2, <2>3 DEF Saves, News
  <2>5. CASE Hear(c, Head(inbox[c]))
    BY <2>1, <2>2, <2>4, <2>5, HearKeeps, NewsParts
  <2>6. CASE UNCHANGED <<editor, lost, apart>>
    BY <2>2, <2>4, <2>6, OthersKeep DEF editor, Grows
  <2> QED
    BY <1>1, <2>5, <2>6 DEF Deliver
<1>2. CASE FirstAnswered(c)
  <2>1. UNCHANGED <<doc, publishing, inbox, outbound, poll, puts, sent, served, mine, author>>
    BY <1>2 DEF FirstAnswered, server, wire, numbers
  <2>2. first'[c] = NoFetch /\ \A d \in Clients \ {c} : first'[d] = first[d]
    BY <1>2 DEF FirstAnswered, TypeOK
  <2>3. \A d \in Clients : Saves(d)' = Saves(d) /\ News(d)' \subseteq News(d)
    <3>1. NoFetch.phase # "answered"
      BY DEF NoFetch
    <3> QED
      BY <2>1, <2>2, <3>1 DEF Saves, News
  <2>4. first[c] \in News(c) /\ Take(c, first[c], {"load"})
    BY <1>2, NewsParts DEF FirstAnswered
  <2> QED
    BY <2>1, <2>3, <2>4, TakeKeeps
<1>3. CASE PollAnswered(c)
  <2>1. UNCHANGED <<doc, publishing, inbox, outbound, first, puts, sent, served, mine, author>>
    BY <1>3 DEF PollAnswered, server, wire, numbers
  <2>2. poll'[c] = NoFetch /\ \A d \in Clients \ {c} : poll'[d] = poll[d]
    BY <1>3 DEF PollAnswered, TypeOK
  <2>3. \A d \in Clients : Saves(d)' = Saves(d) /\ News(d)' \subseteq News(d)
    <3>1. NoFetch.phase # "answered"
      BY DEF NoFetch
    <3> QED
      BY <2>1, <2>2, <3>1 DEF Saves, News
  <2>4. poll[c] \in News(c) /\ Hear(c, poll[c])
    BY <1>3, NewsParts DEF PollAnswered
  <2> QED
    BY <2>1, <2>3, <2>4, HearKeeps
<1> QED
  BY <1>1, <1>2, <1>3

LEMMA FetchKeeps ==
  ASSUME TypeOK, KeepInv, TypeOK', NEW c \in Clients,
         ServeFirst(c) \/ FirstFails(c) \/ AskPoll(c) \/ ServePoll(c)
  PROVE  KeepInv'
<1>1. /\ NoFetch.phase = "none"
      /\ \A f : Answered(f).text = doc.text /\ Answered(f).at = doc.at /\ Answered(f).nth = doc.nth
      /\ [poll[c] EXCEPT !.phase = "asked"].phase = "asked"
  BY DEF NoFetch, Answered, TypeOK, Fetch
<1>2. /\ UNCHANGED <<doc, publishing, inbox, outbound, shown, armed, puts, sent, served, mine, author, lost>>
      /\ \A d \in Clients \ {c} : first'[d] = first[d] /\ poll'[d] = poll[d]
  BY DEF ServeFirst, FirstFails, AskPoll, ServePoll, TypeOK, server, wire, editor, numbers, ghosts
<1>3. /\ first'[c] \in {first[c], NoFetch, Answered(first[c])}
      /\ poll'[c] \in {poll[c], [poll[c] EXCEPT !.phase = "asked"], Answered(poll[c])}
  BY DEF ServeFirst, FirstFails, AskPoll, ServePoll, TypeOK
<1>4. \A d \in Clients : Saves(d)' = Saves(d)
  BY <1>2 DEF Saves
<1>5. \A d \in Clients \ {c} : News(d)' = News(d)
  BY <1>2 DEF News
<1>6. ASSUME NEW m \in News(c)'
      PROVE  m \in News(c) \/ (m.text = doc.text /\ m.at = doc.at /\ m.nth = doc.nth)
  <2>1. \/ m \in Elems(inbox[c]) \/ \E d \in Clients : publishing[d] # NoEvent /\ m = publishing[d]
        \/ m \in {first'[c], poll'[c]} /\ m.phase = "answered"
    BY <1>2, <1>6 DEF News
  <2>2. CASE m \in {first'[c], poll'[c]} /\ m.phase = "answered"
    <3>1. m \in {first[c], poll[c]} \/ m \in {Answered(first[c]), Answered(poll[c])}
      BY <1>1, <1>3, <2>2
    <3> QED
      BY <1>1, <2>2, <3>1, NewsParts
  <2> QED
    BY <2>1, <2>2, NewsParts
<1> QED
  BY <1>2, <1>4, <1>5, <1>6, OthersKeep DEF Grows

LEMMA PutKeeps ==
  ASSUME TypeOK, KeepInv, TypeOK', NEW p \in puts,
         ServePut(p) \/ PutAnswered(p) \/ PutFails(p) \/ PutRefused(p)
  PROVE  KeepInv'
<1>1. p \in Put /\ p.by \in Clients
  BY DEF TypeOK, Put
<1>2. CASE ServePut(p)
  <2>1. UNCHANGED <<shown, armed, author, sent, publishing, inbox, outbound, first, poll>>
    BY <1>2 DEF ServePut, wire, editor
  <2>2. \A x \in puts' : x \in puts \ {p} \/ x.phase = "ok"
    <3>1. [p EXCEPT !.phase = "ok", !.at = doc'.at].phase = "ok"
      BY <1>1 DEF Put
    <3> QED
      BY <1>2, <3>1 DEF ServePut
  <2>3. \A x \in puts : x \in puts' \/ x = p
    BY <1>2 DEF ServePut
  <2>4. /\ \A d \in Clients : Saves(d)' \subseteq Saves(d)
        /\ \A d \in Clients : \A w \in Saves(d) : w \in Saves(d)' \/ w = p
    BY <2>1, <2>2, <2>3 DEF Saves
  <2>5. \A d \in Clients : News(d)' = News(d)
    BY <2>1 DEF News
  <2>6. p \in Saves(p.by) /\ Replace(p, FALSE)
    BY <1>1, <1>2, SavesParts DEF ServePut
  <2> QED
    BY <1>1, <2>1, <2>4, <2>5, <2>6, ReplaceKeeps
<1>3. CASE PutAnswered(p) \/ PutFails(p) \/ PutRefused(p)
  <2>1. /\ UNCHANGED <<doc, publishing, inbox, outbound, shown, armed, first, poll, sent, served, mine, author>>
        /\ puts' = puts \ {p}
        /\ p.phase = "asked" => \E way \in Ways : lost' = Blame(By(p.by), way)
        /\ p.phase # "asked" => lost' = lost
    BY <1>3 DEF PutAnswered, PutFails, PutRefused, Unsent, server, wire, editor, numbers, ghosts, Ways
  <2>2. \A d \in Clients : Saves(d)' \subseteq Saves(d) /\ News(d)' = News(d)
    BY <2>1 DEF Saves, News
  <2>3. \A d \in Clients : Saves(d)' # Saves(d) => d = p.by /\ p.phase = "asked"
    BY <2>1 DEF Saves
  <2>4. Grows /\ (p.phase = "asked" => \A e \in By(p.by) : lost'[e] # {})
    BY <2>1 DEF Grows, Blame, By
  <2> QED
    BY <2>1, <2>2, <2>3, <2>4, OthersKeep
<1> QED
  BY <1>2, <1>3

LEMMA EditKeeps ==
  ASSUME TypeOK, KeepInv, TypeOK', NEW c \in Clients, User(c) \/ SendContent(c)
  PROVE  KeepInv'
<1> DEFINE u == [by |-> c, n |-> sent[c] + 1, text |-> shown[c]]
           p == [by |-> c, n |-> sent[c] + 1, text |-> shown[c], phase |-> "asked", at |-> 0]
<1>1. UNCHANGED <<doc, publishing, inbox, first, poll, served, mine>>
  BY DEF User, Type, Blur, SendContent, server, wire, http, numbers
<1>2. \A d \in Clients : News(d)' = News(d)
  BY <1>1 DEF News
<1>3. CASE Blur(c) /\ open[c]
  <2>1. UNCHANGED <<outbound, shown, armed, puts, sent, author, lost>>
    BY <1>3 DEF Blur, wire, editor, ghosts
  <2>2. \A d \in Clients : Saves(d)' = Saves(d)
    BY <2>1 DEF Saves
  <2> QED
    BY <1>1, <1>2, <2>1, <2>2, OthersKeep DEF Grows
<1>4. ASSUME (Blur(c) /\ ~open[c]) \/ SendContent(c)
      PROVE  KeepInv'
  <2>1. /\ UNCHANGED <<shown, author, lost>>
        /\ sent'[c] = sent[c] + 1
        /\ \A d \in Clients \ {c} : sent'[d] = sent[d] /\ armed'[d] = armed[d]
    BY <1>4 DEF Blur, SendContent, SaveContent, TypeOK, editor, ghosts
  <2>2. \/ outbound' = outbound /\ puts' = puts \cup {p}
        \/ outbound' = [outbound EXCEPT ![c] = Append(@, u)] /\ puts' = puts
    BY <1>4 DEF Blur, SendContent, SaveContent, PersistViaHttp, wire
  <2>3. CASE outbound' = outbound /\ puts' = puts \cup {p}
    <3>1. p.by = c /\ p.phase = "asked" /\ p.n = sent[c] + 1 /\ p.text = shown[c]
      OBVIOUS
    <3>2. Saves(c)' = Saves(c) \cup {p} /\ \A d \in Clients \ {c} : Saves(d)' = Saves(d)
      BY <2>3, <3>1 DEF Saves
    <3> HIDE DEF p
    <3> QED
      BY <1>1, <1>2, <2>1, <3>1, <3>2, SendKeeps
  <2>4. CASE outbound' = [outbound EXCEPT ![c] = Append(@, u)] /\ puts' = puts
    <3>1. u.by = c /\ u.n = sent[c] + 1 /\ u.text = shown[c]
      OBVIOUS
    <3>2. /\ outbound'[c] = Append(outbound[c], u)
          /\ \A d \in Clients \ {c} : outbound'[d] = outbound[d]
          /\ outbound[c] \in Seq(Update)
      BY <2>4 DEF TypeOK
    <3>3. u \in Update
      BY SaveType
    <3> HIDE DEF u
    <3>4. Elems(outbound'[c]) = Elems(outbound[c]) \cup {u}
      BY <3>2, <3>3, ElemsAppend
    <3>5. Saves(c)' = Saves(c) \cup {u} /\ \A d \in Clients \ {c} : Saves(d)' = Saves(d)
      BY <2>4, <3>2, <3>4 DEF Saves
    <3> QED
      BY <1>1, <1>2, <2>1, <3>1, <3>5, SendKeeps
  <2> QED
    BY <2>2, <2>3, <2>4
<1> QED
  BY <1>3, <1>4, TypeKeeps DEF User

LEMMA SocketKeeps ==
  ASSUME TypeOK, KeepInv, TypeOK', NEW c \in Clients, Connect(c) \/ Drop(c)
  PROVE  KeepInv'
<1>1. CASE Connect(c)
  <2> DEFINE m == [by |-> Nobody, text |-> doc.text, at |-> doc.at, nth |-> doc.nth]
  <2>1. /\ inbox'[c] = <<m>> /\ poll'[c] = NoFetch
        /\ \A d \in Clients \ {c} : inbox'[d] = inbox[d] /\ poll'[d] = poll[d]
        /\ UNCHANGED <<doc, publishing, outbound, shown, armed, first, puts, sent, served, mine, author, lost>>
    BY <1>1 DEF Connect, TypeOK, server, editor, numbers, ghosts
  <2>2. m.text = doc.text /\ m.at = doc.at /\ m.nth = doc.nth /\ NoFetch.phase = "none" /\ Elems(<<m>>) = {m}
    BY ElemsShort DEF NoFetch
  <2>3. \A d \in Clients :
          Saves(d)' = Saves(d) /\ \A x \in News(d)' : x \in News(d) \/ (x.text = doc.text /\ x.at = doc.at /\ x.nth = doc.nth)
    BY <2>1, <2>2 DEF Saves, News
  <2> QED
    BY <2>1, <2>3, OthersKeep DEF Grows
<1>2. CASE Drop(c)
  <2>1. /\ inbox'[c] = <<>> /\ \A d \in Clients \ {c} : inbox'[d] = inbox[d]
        /\ UNCHANGED <<doc, publishing, shown, armed, first, poll, puts, sent, served, mine>>
    BY <1>2 DEF Drop, Stopped, TypeOK, server, editor, http, numbers
  <2>2. \/ UNCHANGED <<outbound, author, lost>>
        \/ /\ outbound' = [outbound EXCEPT ![c] = <<>>]
           /\ lost' = Blame(By(c), "unsent") /\ author' = author
    BY <1>2 DEF Drop, Unsent, ghosts
  <2>3. CASE UNCHANGED <<outbound, author, lost>>
    <3>1. \A d \in Clients : Saves(d)' = Saves(d) /\ News(d)' \subseteq News(d)
      BY <2>1, <2>3, ElemsShort DEF Saves, News
    <3> QED
      BY <2>1, <2>3, <3>1, OthersKeep DEF Grows
  <2>4. CASE outbound' = [outbound EXCEPT ![c] = <<>>] /\ lost' = Blame(By(c), "unsent") /\ author' = author
    <3>1. outbound'[c] = <<>> /\ \A d \in Clients \ {c} : outbound'[d] = outbound[d]
      BY <2>4 DEF TypeOK
    <3>2. \A d \in Clients : Saves(d)' \subseteq Saves(d) /\ News(d)' \subseteq News(d)
      BY <2>1, <3>1, ElemsShort DEF Saves, News
    <3>3. \A d \in Clients \ {c} : Saves(d)' = Saves(d)
      BY <2>1, <3>1 DEF Saves
    <3>4. Grows /\ \A e \in By(c) : lost'[e] # {}
      BY <2>4 DEF Grows, Blame, By
    <3> QED
      BY <2>1, <2>4, <3>2, <3>3, <3>4, OthersKeep
  <2> QED
    BY <2>2, <2>3, <2>4
<1> QED
  BY <1>1, <1>2

LEMMA StillKeeps ==
  ASSUME TypeOK, KeepInv, TypeOK', Archive \/ UNCHANGED vars
  PROVE  KeepInv'
<1>1. UNCHANGED <<doc, publishing, inbox, outbound, shown, armed, first, poll, puts, sent, served, mine, author, lost>>
  BY DEF Archive, vars, server, wire, editor, http, numbers, ghosts
<1>2. \A d \in Clients : Saves(d)' = Saves(d) /\ News(d)' = News(d)
  BY <1>1 DEF Saves, News
<1> QED
  BY <1>1, <1>2, OthersKeep DEF Grows

LEMMA NextKeeps ==
  ASSUME TypeOK, KeepInv, [Next]_vars
  PROVE  KeepInv'
<1>1. TypeOK'
  BY NextType
<1> QED
  BY <1>1, ConsumerKeeps, PublishFailsKeeps, HeardKeeps, FetchKeeps, PutKeeps, EditKeeps, SocketKeeps, StillKeeps
  DEF Next, Load, Polling, Puts, Faults

LEMMA InitKeeps ==
  ASSUME Init
  PROVE  KeepInv
<1>1. Typed = {} /\ \A c \in Clients : By(c) = {}
  BY DocumentAssumption DEF Init, Typed, By
<1>2. ASSUME NEW c \in Clients
      PROVE  Saves(c) = {} /\ News(c) = {}
  <2>1. /\ inbox[c] = <<>> /\ outbound[c] = <<>> /\ puts = {}
        /\ \A d \in Clients : publishing[d] = NoEvent
        /\ first[c] \in {NoFetch, [NoFetch EXCEPT !.phase = "asked"]} /\ poll[c] = NoFetch
    BY DEF Init
  <2>2. NoFetch.phase = "none" /\ [NoFetch EXCEPT !.phase = "asked"].phase = "asked"
    BY DEF NoFetch
  <2> QED
    BY <2>1, <2>2, ElemsShort DEF Saves, News
<1>3. /\ doc = [text |-> {}, at |-> 0, nth |-> 0]
      /\ \A c \in Clients : shown[c] = {} /\ mine[c] = -1
  BY DEF Init, Never
<1>4. Fine = {} /\ \A c \in Clients : Live(c) = {}
  BY <1>1 DEF Fine, Live
<1>5. TypedOnly /\ InTime /\ OwnShown
  BY <1>1, <1>2, <1>3, <1>4 DEF TypedOnly, InTime, OwnShown
<1>6. OthersSaved /\ SavesGrow /\ NewsHasSaved
  BY <1>2, <1>3, <1>4 DEF OthersSaved, SavesGrow, NewsHasSaved
<1>7. NoEditVanishes
  BY <1>1 DEF NoEditVanishes
<1> QED
  BY <1>5, <1>6, <1>7 DEF KeepInv

\* An edit that was typed is in the saved text, on its way there, about to be
\* sent, or one of the things the model names has happened to it: no order of
\* saves, answers, broadcasts, failures and connections loses it otherwise.
THEOREM NoEditVanishesHolds == Spec => []NoEditVanishes
<1>1. Init => KeepInv
  BY InitKeeps
<1>2. TypeOK /\ KeepInv /\ [Next]_vars => KeepInv'
  BY NextKeeps
<1>3. KeepInv => NoEditVanishes
  BY DEF KeepInv
<1> QED
  BY <1>1, <1>2, <1>3, TypeCorrect, PTL DEF Spec
-------------------------------------------------------------------------------
(* Editors that are at rest agree.  What an editor does not show of the     *)
(* saved text is on its way to it, or on its way from it, or apart says     *)
(* why not.                                                                 *)

\* Texts that c will hear of from the others.
Coming(c) == Elems(inbox[c]) \cup {publishing[d] : d \in {b \in Clients \ {c} : publishing[b] # NoEvent}}

\* The saved text is one of them.
Due(c) == \E m \in Coming(c) : m.by # c /\ m.nth = doc.nth

AtRest(c) == ~armed[c] /\ Saves(c) = {}

\* Events have the name of their client, and a poll ends with a connection.
Named ==
  \A c \in Clients : /\ publishing[c] # NoEvent => publishing[c].by = c
                     /\ served[c] <= sent[c]
                     /\ open[c] => poll[c].phase = "none"

\* An editor that is connected has been told a time that is not before that of the
\* saved text, or has made it, or will hear of it.
Told(c) == open[c] => Due(c) \/ synced[c] >= doc.at \/ mine[c] = doc.nth

\* One that is at rest and will pass the saved text over shows it.
Current(c) == AtRest(c) /\ (synced[c] >= doc.at \/ mine[c] = doc.nth) => shown[c] = doc.text

\* What c shows is in the newest of its saves, which the server may have made
\* before an older one.
SentAll(c) ==
  \A u \in Saves(c) :
    /\ ~armed[c] /\ u.n = sent[c] => u.text = shown[c]
    /\ (\E v \in Saves(c) : v.n = sent[c]) \/ served[c] = sent[c]

Peace(c) == apart[c] = {} => Told(c) /\ Current(c) /\ SentAll(c)

AgreeInv == Named /\ \A c \in Clients : Peace(c)

LEMMA Numbers ==
  ASSUME TypeOK
  PROVE  /\ doc.at \in Int /\ doc.nth \in Int
         /\ \A c \in Clients : synced[c] \in Int /\ mine[c] \in Int /\ sent[c] \in Nat /\ served[c] \in Nat
         /\ \A p \in puts : p.by \in Clients /\ p.at \in Int
<1>1. Time \subseteq Int /\ Nth \subseteq Int /\ Never \in Int
  BY DocumentAssumption DEF Time, Nth, Never
<1> QED
  BY <1>1 DEF TypeOK, Put

\* A client that does and hears nothing.
LEMMA StillPeace ==
  ASSUME NEW c \in Clients, Peace(c), UNCHANGED doc, apart'[c] = {} => apart[c] = {},
         synced'[c] = synced[c], mine'[c] = mine[c], shown'[c] = shown[c], armed'[c] = armed[c],
         sent'[c] = sent[c], served'[c] = served[c], Saves(c)' = Saves(c),
         open'[c] => open[c], open'[c] /\ Due(c) => Due(c)'
  PROVE  Peace(c)'
<1>1. Told(c) => Told(c)'
  BY DEF Told
<1>2. Current(c) => Current(c)'
  BY DEF Current, AtRest
<1>3. SentAll(c) => SentAll(c)'
  BY DEF SentAll
<1> QED
  BY <1>1, <1>2, <1>3 DEF Peace

\* A save of c is made: c shows it, or has newer ones under way, or a timer.
LEMMA MadePeace ==
  ASSUME TypeOK, KeepInv, Named, NEW c \in Clients, Peace(c), NEW u \in Saves(c), NEW told \in BOOLEAN,
         Replace(u, told), u.by = c,
         shown'[c] = shown[c], armed'[c] = armed[c], sent'[c] = sent[c],
         Saves(c)' \subseteq Saves(c), \A w \in Saves(c) : w \in Saves(c)' \/ w = u
  PROVE  Peace(c)'
<1>1. /\ u.n \in Nat /\ u.n <= sent[c] /\ served[c] <= sent[c]
      /\ sent[c] \in Nat /\ served[c] \in Nat
  BY OnTheWay, Numbers DEF KeepInv, InTime, Named
<1>2. doc'.text = u.text /\ doc'.nth = doc.nth + 1
  BY OnTheWay, ReplaceType
<1>3. /\ served'[c] = IF u.n > served[c] THEN u.n ELSE served[c]
      /\ mine'[c] = doc.nth + 1
      /\ apart[c] \subseteq apart'[c] /\ (u.n < served[c] => "reorder" \in apart'[c])
  BY DEF Replace, TypeOK
<1>4. SUFFICES ASSUME apart'[c] = {}
               PROVE  Told(c)' /\ Current(c)' /\ SentAll(c)'
  BY DEF Peace
<1>5. SentAll(c) /\ ~(u.n < served[c])
  BY <1>3, <1>4 DEF Peace
<1>6. Told(c)'
  BY <1>2, <1>3 DEF Told
<1>7. Current(c)'
  <2>1. ASSUME AtRest(c)'
        PROVE  shown[c] = u.text
    <3>1. ~armed[c] /\ \A w \in Saves(c) : w = u
      BY <2>1 DEF AtRest
    <3>2. u.n = sent[c]
      BY <1>1, <1>5, <3>1 DEF SentAll
    <3> QED
      BY <1>5, <3>1, <3>2 DEF SentAll
  <2> QED
    BY <1>2, <2>1 DEF Current
<1>8. SentAll(c)'
  <2>1. ASSUME NEW w \in Saves(c)'
        PROVE  /\ ~armed[c] /\ w.n = sent[c] => w.text = shown[c]
               /\ (\E v \in Saves(c)' : v.n = sent[c]) \/ served'[c] = sent[c]
    <3>1. w \in Saves(c)
      BY <2>1
    <3>2. ~armed[c] /\ w.n = sent[c] => w.text = shown[c]
      BY <1>5, <3>1 DEF SentAll
    <3>3. (\E v \in Saves(c)' : v.n = sent[c]) \/ u.n = sent[c] \/ served[c] = sent[c]
      BY <1>5, <3>1 DEF SentAll
    <3>4. u.n = sent[c] \/ served[c] = sent[c] => served'[c] = sent[c]
      BY <1>1, <1>3
    <3> QED
      BY <3>2, <3>3, <3>4
  <2> QED
    BY <2>1 DEF SentAll
<1> QED
  BY <1>6, <1>7, <1>8

\* A save of another client is made: c is told, or is not connected, or is never told.
LEMMA OtherPeace ==
  ASSUME TypeOK, KeepInv, NEW c \in Clients, Peace(c), NEW u, u.by \in Clients \ {c},
         u.n \in Nat, u.text \in Text, NEW told \in BOOLEAN, Replace(u, told),
         shown'[c] = shown[c], synced'[c] = synced[c], armed'[c] = armed[c], sent'[c] = sent[c],
         Saves(c)' = Saves(c), open'[c] = open[c],
         told => Due(c)'
  PROVE  Peace(c)'
<1>1. /\ served'[c] = served[c] /\ mine'[c] = mine[c]
      /\ apart[c] \subseteq apart'[c] /\ (open[c] /\ ~told => "untold" \in apart'[c])
      /\ synced[c] >= doc'.at => "late" \in apart'[c]
  BY DEF Replace, TypeOK
<1>2. SUFFICES ASSUME apart'[c] = {}
               PROVE  Told(c)' /\ Current(c)' /\ SentAll(c)'
  BY DEF Peace
<1>3. SentAll(c) /\ (open'[c] => Due(c)') /\ ~(synced'[c] >= doc'.at)
  BY <1>1, <1>2 DEF Peace
<1>4. mine'[c] # doc'.nth
  <2>1. mine[c] <= doc.nth /\ mine[c] \in Int /\ doc.nth \in Int
    BY Numbers DEF KeepInv, InTime
  <2>2. doc'.nth = doc.nth + 1
    BY ReplaceType
  <2> QED
    BY <1>1, <2>1, <2>2
<1> QED
  BY <1>1, <1>3, <1>4 DEF Told, Current, SentAll

\* c takes a text: the newest, or it is apart, or the newest is still to come.
LEMMA TakePeace ==
  ASSUME TypeOK, KeepInv, NEW c \in Clients, Peace(c), NEW m \in News(c), NEW why, Take(c, m, why),
         UNCHANGED <<doc, open, mine, sent, served>>, Saves(c)' = Saves(c),
         \/ why # {}
         \/ ~open[c]
         \/ m.at > synced[c] /\ (Due(c) => m.nth = doc.nth \/ Due(c)')
  PROVE  Peace(c)'
<1>1. /\ m.at \in Int /\ doc.at \in Int /\ synced[c] \in Int
      /\ m.nth \in Int /\ doc.nth \in Int /\ mine[c] \in Int /\ m.nth <= doc.nth
      /\ m.nth = doc.nth => m.text = doc.text /\ m.at = doc.at
      /\ Outstanding(c) <=> Saves(c) # {}
  BY OnTheWay, Numbers DEF KeepInv, InTime
<1> DEFINE crossed == Outstanding(c) \/ mine[c] > m.nth
           newest == m.nth = doc.nth
<1>2. /\ shown'[c] = m.text /\ synced'[c] = m.at /\ armed' = armed
      /\ apart'[c] = (IF newest THEN {} ELSE why) \cup (IF crossed THEN {"crossed"} ELSE {})
                       \cup (IF newest THEN {} ELSE apart[c])
                       \cup (IF ~newest /\ m.at >= doc.at THEN {"late"} ELSE {})
  BY DEF Take, Show, TypeOK
<1>3. SUFFICES ASSUME apart'[c] = {}
               PROVE  Told(c)' /\ Current(c)' /\ SentAll(c)'
  BY DEF Peace
<1>4. ~crossed /\ Saves(c) = {}
  BY <1>1, <1>2, <1>3
<1>5. SentAll(c)'
  BY <1>4 DEF SentAll
<1>6. CASE newest
  <2>1. shown'[c] = doc.text /\ synced'[c] >= doc.at
    BY <1>1, <1>2, <1>6
  <2> QED
    BY <1>5, <2>1 DEF Told, Current
<1>7. CASE ~newest
  <2>1. apart[c] = {} /\ why = {} /\ ~(m.at >= doc.at)
    BY <1>2, <1>3, <1>7
  <2>2. mine[c] # doc.nth
    BY <1>1, <1>4, <1>7
  <2>3. Current(c)'
    BY <1>2, <2>1, <2>2 DEF Current
  <2>4. Told(c)'
    <3>1. SUFFICES ASSUME open[c]
                   PROVE  Due(c)'
      BY DEF Told
    <3>2. m.at > synced[c] /\ (Due(c) => Due(c)')
      BY <1>7, <2>1, <3>1
    <3>3. Due(c) \/ synced[c] >= doc.at
      BY <2>1, <2>2, <3>1 DEF Peace, Told
    <3> QED
      BY <1>1, <2>1, <3>2, <3>3
  <2> QED
    BY <1>5, <2>3, <2>4
<1> QED
  BY <1>6, <1>7

\* c passes over a text, whose time it has been told.
LEMMA IgnorePeace ==
  ASSUME TypeOK, KeepInv, NEW c \in Clients, Peace(c), NEW m \in News(c), Ignore,
         ~(m.at > synced[c]),
         UNCHANGED <<doc, open, mine, sent, served>>, Saves(c)' = Saves(c),
         ~open[c] \/ (Due(c) => m.nth = doc.nth \/ Due(c)')
  PROVE  Peace(c)'
<1>1. /\ m.at \in Int /\ synced[c] \in Int
      /\ m.nth = doc.nth => m.at = doc.at
  BY OnTheWay, Numbers DEF KeepInv, InTime
<1>2. UNCHANGED <<shown, synced, armed, apart>>
  BY DEF Ignore
<1>3. Current(c) => Current(c)'
  BY <1>2 DEF Current, AtRest
<1>4. SentAll(c) => SentAll(c)'
  BY <1>2 DEF SentAll
<1>5. Told(c) => Told(c)'
  <2>1. m.nth = doc.nth => synced[c] >= doc.at
    BY <1>1
  <2> QED
    BY <1>2, <2>1 DEF Told
<1> QED
  BY <1>2, <1>3, <1>4, <1>5 DEF Peace

\* c sends what it shows.
LEMMA SendPeace ==
  ASSUME TypeOK, KeepInv, NEW c \in Clients, Peace(c), NEW u, u.n = sent[c] + 1, u.text = shown[c],
         UNCHANGED <<doc, shown, synced, mine, served, apart, open>>,
         Saves(c)' = Saves(c) \cup {u}, sent'[c] = sent[c] + 1, Due(c) => Due(c)'
  PROVE  Peace(c)'
<1>1. sent[c] \in Nat /\ \A w \in Saves(c) : w.n \in Nat /\ w.n <= sent[c]
  BY OnTheWay, Numbers DEF KeepInv, InTime
<1>2. Told(c) => Told(c)'
  BY DEF Told
<1>3. Current(c)'
  BY DEF Current, AtRest
<1>4. SentAll(c)'
  <2>1. \A w \in Saves(c)' : w.n = sent'[c] => w.text = shown[c]
    BY <1>1
  <2>2. \E v \in Saves(c)' : v.n = sent'[c]
    OBVIOUS
  <2> QED
    BY <2>1, <2>2 DEF SentAll
<1> QED
  BY <1>2, <1>3, <1>4 DEF Peace

LEMMA NamedStep ==
  ASSUME Named,
         \A c \in Clients :
           /\ publishing'[c] = publishing[c] \/ publishing'[c] = NoEvent \/ publishing'[c].by = c
           /\ served'[c] <= sent'[c]
           /\ open'[c] => poll'[c].phase = "none"
  PROVE  Named'
  BY DEF Named

LEMMA ConsumerAgrees ==
  ASSUME TypeOK, KeepInv, AgreeInv, TypeOK', NEW c \in Clients, Consumer(c)
  PROVE  AgreeInv'
<1>1. Named /\ \A d \in Clients : Peace(d) /\ served[d] <= sent[d] /\ (open[d] => poll[d].phase = "none")
  BY DEF AgreeInv, Named
<1>2. CASE ServeUpdate(c)
  <2> DEFINE u == Head(outbound[c])
  <2>1. /\ outbound[c] \in Seq(Update) /\ outbound[c] # <<>>
        /\ u \in Elems(outbound[c]) /\ u \in Update
        /\ Elems(Tail(outbound[c])) \subseteq Elems(outbound[c])
        /\ \A w \in Elems(outbound[c]) : w = u \/ w \in Elems(Tail(outbound[c]))
    <3>1. outbound[c] \in Seq(Update) /\ outbound[c] # <<>>
      BY <1>2 DEF ServeUpdate, TypeOK
    <3> QED
      BY <3>1, ElemsTail
  <2>2. u \in Saves(c) /\ u.by = c /\ u.n <= sent[c] /\ u.n \in Nat /\ u.text \in Text
    BY <2>1, SavesParts, OnTheWay DEF KeepInv, InTime
  <2>3. UNCHANGED <<shown, synced, armed, first, poll, puts, sent>>
    BY <1>2 DEF ServeUpdate, editor, http
  <2>6. \/ /\ Replace(u, TRUE)
           /\ publishing' = [publishing EXCEPT ![c] = [by |-> c, text |-> u.text, at |-> doc'.at, nth |-> doc'.nth]]
           /\ outbound' = [outbound EXCEPT ![c] = Tail(@)]
           /\ UNCHANGED <<open, inbox>>
        \/ /\ Stopped(c)
           /\ outbound' = [outbound EXCEPT ![c] = <<>>]
           /\ apart' = [apart EXCEPT ![c] = @ \cup {"archived"}]
           /\ UNCHANGED <<doc, publishing, served, mine, late>>
    BY <1>2 DEF ServeUpdate
  <2> HIDE DEF u
  <2>4. ASSUME Replace(u, TRUE),
               publishing' = [publishing EXCEPT ![c] = [by |-> c, text |-> u.text, at |-> doc'.at, nth |-> doc'.nth]],
               outbound' = [outbound EXCEPT ![c] = Tail(@)],
               UNCHANGED <<open, inbox>>
        PROVE  AgreeInv'
    <3> DEFINE m == [by |-> c, text |-> u.text, at |-> doc'.at, nth |-> doc'.nth]
    <3>2. m.by = c /\ m.nth = doc'.nth /\ m # NoEvent
      BY DocumentAssumption DEF NoEvent
    <3>3. /\ publishing'[c] = m /\ \A d \in Clients \ {c} : publishing'[d] = publishing[d]
          /\ outbound'[c] = Tail(outbound[c])
          /\ \A d \in Clients \ {c} : outbound'[d] = outbound[d]
      BY <2>4 DEF TypeOK
    <3> HIDE DEF m
    <3>4. /\ Saves(c)' \subseteq Saves(c)
          /\ \A w \in Saves(c) : w \in Saves(c)' \/ w = u
          /\ \A d \in Clients \ {c} : Saves(d)' = Saves(d)
      BY <2>1, <2>3, <3>3 DEF Saves
    <3>5. \A d \in Clients \ {c} : Due(d)'
      <4>1. ASSUME NEW d \in Clients \ {c}
            PROVE  m \in Coming(d)'
        BY <3>2, <3>3 DEF Coming
      <4> QED
        BY <3>2, <4>1 DEF Due
    <3>6. \A d \in Clients \ {c} : Peace(d)'
      BY <1>1, <2>2, <2>3, <2>4, <3>4, <3>5, OtherPeace
    <3>7. Peace(c)'
      BY <1>1, <2>2, <2>3, <2>4, <3>4, MadePeace
    <3>8. Named'
      <4>1. \A d \in Clients : served'[d] <= sent[d]
        BY <1>1, <2>2, <2>4 DEF Replace, TypeOK
      <4> QED
        BY <1>1, <2>3, <2>4, <3>2, <3>3, <4>1, NamedStep
    <3> QED
      BY <3>6, <3>7, <3>8 DEF AgreeInv
  <2>5. ASSUME Stopped(c), outbound' = [outbound EXCEPT ![c] = <<>>],
               apart' = [apart EXCEPT ![c] = @ \cup {"archived"}],
               UNCHANGED <<doc, publishing, served, mine, late>>
        PROVE  AgreeInv'
    <3>1. /\ apart'[c] # {}
          /\ ~open'[c]
          /\ \A d \in Clients \ {c} : /\ apart'[d] = apart[d] /\ outbound'[d] = outbound[d]
                                      /\ open'[d] = open[d] /\ inbox'[d] = inbox[d]
      BY <2>5 DEF Stopped, TypeOK
    <3>2. \A d \in Clients \ {c} : Saves(d)' = Saves(d) /\ (Due(d) => Due(d)')
      BY <2>3, <2>5, <3>1 DEF Saves, Due, Coming
    <3>3. \A d \in Clients \ {c} : Peace(d)'
      BY <1>1, <2>3, <2>5, <3>1, <3>2, StillPeace
    <3>4. Peace(c)'
      BY <3>1 DEF Peace
    <3>6. Named'
      BY <1>1, <2>3, <2>5, <3>1, NamedStep
    <3> QED
      BY <3>3, <3>4, <3>6 DEF AgreeInv
  <2> QED
    BY <2>4, <2>5, <2>6
<1>3. CASE Publish(c)
  <2>1. /\ publishing[c] # NoEvent /\ publishing'[c] = NoEvent
        /\ \A d \in Clients \ {c} : publishing'[d] = publishing[d]
        /\ UNCHANGED <<doc, open, outbound, shown, synced, armed, first, poll, puts, sent, served, mine, apart>>
    BY <1>3 DEF Publish, TypeOK, editor, http, numbers, ghosts
  <2>2. \A d \in Clients : Saves(d)' = Saves(d)
    BY <2>1 DEF Saves
  <2>3. ASSUME NEW d \in Clients, open[d]
        PROVE  Elems(inbox'[d]) = Elems(inbox[d]) \cup {publishing[c]}
    <3>1. inbox'[d] = Append(inbox[d], publishing[c])
      BY <1>3, <2>3 DEF Publish
    <3>2. inbox[d] \in Seq(Event) /\ publishing[c] \in Event
      BY DEF TypeOK
    <3> QED
      BY <3>1, <3>2, ElemsAppend
  <2>4. \A d \in Clients : open[d] => Coming(d) \subseteq Coming(d)'
    BY <2>1, <2>3 DEF Coming
  <2>5. \A d \in Clients : open[d] /\ Due(d) => Due(d)'
    BY <2>1, <2>4 DEF Due
  <2>6. \A d \in Clients : Peace(d)'
    BY <1>1, <2>1, <2>2, <2>5, StillPeace
  <2>8. Named'
    BY <1>1, <2>1, NamedStep
  <2> QED
    BY <2>6, <2>8 DEF AgreeInv
<1> QED
  BY <1>2, <1>3 DEF Consumer

LEMMA PublishFailsAgrees ==
  ASSUME TypeOK, KeepInv, AgreeInv, TypeOK', NEW c \in Clients, PublishFails(c)
  PROVE  AgreeInv'
<1>1. Named /\ \A d \in Clients : Peace(d) /\ served[d] <= sent[d] /\ (open[d] => poll[d].phase = "none")
  BY DEF AgreeInv, Named
<1>2. /\ publishing[c] # NoEvent /\ publishing'[c] = NoEvent
      /\ \A d \in Clients \ {c} : publishing'[d] = publishing[d]
      /\ UNCHANGED <<doc, shown, synced, armed, first, poll, puts, sent, served, mine>>
  BY PartlyTold
<1>3. ASSUME NEW d \in Clients \ {c}
      PROVE  Peace(d)'
  <2>1. /\ open'[d] = open[d] /\ outbound'[d] = outbound[d] /\ Elems(inbox[d]) \subseteq Elems(inbox'[d])
        /\ apart[d] \subseteq apart'[d]
        /\ open[d] => \/ publishing[c] \in Elems(inbox'[d])
                      \/ publishing[c].nth # doc.nth
                      \/ "untold" \in apart'[d]
    BY PartlyTold
  <2>2. SUFFICES ASSUME apart'[d] = {}
                 PROVE  Peace(d)'
    BY DEF Peace
  <2>3. Coming(d) \subseteq Coming(d)' \cup {publishing[c]}
    BY <1>2, <2>1 DEF Coming
  <2>4. open[d] /\ publishing[c].nth = doc.nth => publishing[c] \in Coming(d)'
    BY <2>1, <2>2 DEF Coming
  <2>5. open[d] /\ Due(d) => Due(d)'
    BY <1>2, <2>3, <2>4 DEF Due
  <2>6. Saves(d)' = Saves(d)
    BY <1>2, <2>1 DEF Saves
  <2> QED
    BY <1>1, <1>2, <2>1, <2>2, <2>5, <2>6, StillPeace
<1>4. Peace(c)' /\ (open'[c] => open[c])
  <2>1. \/ /\ outbound'[c] = outbound[c] /\ apart'[c] = apart[c]
           /\ open'[c] = open[c] /\ Elems(inbox[c]) \subseteq Elems(inbox'[c])
        \/ /\ outbound'[c] = outbound[c] /\ apart'[c] = apart[c] /\ ~open'[c]
        \/ "unsent" \in apart'[c] /\ ~open'[c]
    BY PartlyTold
  <2>2. CASE outbound'[c] = outbound[c] /\ apart'[c] = apart[c]
    <3>1. Saves(c)' = Saves(c)
      BY <1>2, <2>2 DEF Saves
    <3>2. Elems(inbox[c]) \subseteq Elems(inbox'[c]) => (Due(c) => Due(c)')
      BY <1>2 DEF Due, Coming
    <3> QED
      BY <1>1, <1>2, <2>1, <2>2, <3>1, <3>2, StillPeace DEF Peace
  <2>3. CASE "unsent" \in apart'[c] /\ ~open'[c]
    BY <2>3 DEF Peace
  <2> QED
    BY <2>1, <2>2, <2>3
<1>5. Named'
  <2>1. \A d \in Clients : open'[d] => open[d]
    BY <1>4, PartlyTold
  <2> QED
    BY <1>1, <1>2, <2>1, NamedStep
<1> QED
  BY <1>3, <1>4, <1>5 DEF AgreeInv

LEMMA HearPeace ==
  ASSUME TypeOK, KeepInv, NEW c \in Clients, Peace(c), NEW m \in News(c), Hear(c, m),
         UNCHANGED <<doc, open, mine, sent, served>>, Saves(c)' = Saves(c),
         ~open[c] \/ (Due(c) => m.nth = doc.nth \/ Due(c)')
  PROVE  Peace(c)'
<1>1. CASE m.at > synced[c]
  <2>1. Take(c, m, {})
    BY <1>1 DEF Hear
  <2> QED
    BY <1>1, <2>1, TakePeace
<1>2. CASE ~(m.at > synced[c])
  <2>1. Ignore
    BY <1>2 DEF Hear
  <2> QED
    BY <1>2, <2>1, IgnorePeace
<1> QED
  BY <1>1, <1>2

\* What comes in changes nothing for the others.
LEMMA HeardStill ==
  ASSUME TypeOK, NEW c \in Clients, NEW m,
         Hear(c, m) \/ (\E why : Take(c, m, why)) \/ UNCHANGED <<shown, synced, armed, apart>>
  PROVE  \A d \in Clients \ {c} : /\ shown'[d] = shown[d] /\ synced'[d] = synced[d]
                                   /\ armed'[d] = armed[d] /\ apart'[d] = apart[d]
<1>1. ASSUME NEW why, Take(c, m, why)
      PROVE  \A d \in Clients \ {c} : /\ shown'[d] = shown[d] /\ synced'[d] = synced[d]
                                       /\ armed'[d] = armed[d] /\ apart'[d] = apart[d]
  BY <1>1 DEF Take, Show, TypeOK
<1>2. Hear(c, m) => Take(c, m, {}) \/ UNCHANGED <<shown, synced, armed, apart>>
  BY DEF Hear, Ignore
<1> QED
  BY <1>1, <1>2

LEMMA HeardAgrees ==
  ASSUME TypeOK, KeepInv, AgreeInv, TypeOK', NEW c \in Clients,
         Deliver(c) \/ FirstAnswered(c) \/ PollAnswered(c)
  PROVE  AgreeInv'
<1>1. /\ Named
      /\ \A d \in Clients : Peace(d) /\ served[d] <= sent[d] /\ (open[d] => poll[d].phase = "none")
  BY DEF AgreeInv, Named
<1>2. /\ UNCHANGED <<doc, publishing, open, outbound, puts, sent, served, mine>>
      /\ \A d \in Clients \ {c} : inbox'[d] = inbox[d]
      /\ \A d \in Clients : poll'[d] = poll[d] \/ poll'[d] = NoFetch
  BY DEF Deliver, FirstAnswered, PollAnswered, server, wire, http, numbers, TypeOK
<1>3. \A d \in Clients : Saves(d)' = Saves(d)
  BY <1>2 DEF Saves
<1>4. \A d \in Clients \ {c} : Due(d) => Due(d)'
  BY <1>2 DEF Due, Coming
<1>5. ASSUME Peace(c)', NEW m \in News(c),
             Hear(c, m) \/ (\E why : Take(c, m, why)) \/ UNCHANGED <<shown, synced, armed, apart>>
      PROVE  AgreeInv'
  <2>1. \A d \in Clients \ {c} : /\ shown'[d] = shown[d] /\ synced'[d] = synced[d]
                                 /\ armed'[d] = armed[d] /\ apart'[d] = apart[d]
    BY <1>5, HeardStill
  <2>2. \A d \in Clients \ {c} : Peace(d)'
    BY <1>1, <1>2, <1>3, <1>4, <2>1, StillPeace
  <2>3. NoFetch.phase = "none"
    BY DEF NoFetch
  <2>4. Named'
    BY <1>1, <1>2, <2>3, NamedStep
  <2> QED
    BY <1>5, <2>2, <2>4 DEF AgreeInv
<1>6. CASE Deliver(c)
  <2> DEFINE m == Head(inbox[c])
  <2>1. /\ m \in Elems(inbox[c]) /\ \A x \in Elems(inbox[c]) : x = m \/ x \in Elems(Tail(inbox[c]))
    <3>1. inbox[c] \in Seq(Event) /\ inbox[c] # <<>>
      BY <1>6 DEF Deliver, TypeOK
    <3> QED
      BY <3>1, ElemsTail
  <2>2. inbox'[c] = Tail(inbox[c])
    BY <1>6 DEF Deliver, TypeOK
  <2>3. \/ m.by = c /\ UNCHANGED <<shown, synced, armed, lost, apart>>
        \/ m.by # c /\ Hear(c, m)
    BY <1>6 DEF Deliver, editor
  <2>4. m \in News(c)
    BY <2>1, NewsParts
  <2> HIDE DEF m
  <2>5. Coming(c) \subseteq {m} \cup Coming(c)'
    BY <1>2, <2>1, <2>2 DEF Coming
  <2>6. CASE m.by = c /\ UNCHANGED <<shown, synced, armed, lost, apart>>
    <3>1. Due(c) => Due(c)'
      BY <1>2, <2>5, <2>6 DEF Due
    <3>2. Peace(c)'
      BY <1>1, <1>2, <1>3, <2>6, <3>1, StillPeace
    <3> QED
      BY <1>5, <2>4, <2>6, <3>2
  <2>7. CASE m.by # c /\ Hear(c, m)
    <3>1. Due(c) => m.nth = doc.nth \/ Due(c)'
      BY <1>2, <2>5 DEF Due
    <3>2. Peace(c)'
      BY <1>1, <1>2, <1>3, <2>4, <2>7, <3>1, HearPeace
    <3> QED
      BY <1>5, <2>4, <2>7, <3>2
  <2> QED
    BY <2>3, <2>6, <2>7
<1>7. CASE FirstAnswered(c)
  <2>1. first[c] \in News(c) /\ Take(c, first[c], {"load"})
    BY <1>7, NewsParts DEF FirstAnswered
  <2>2. Peace(c)'
    <3>1. {"load"} # {}
      OBVIOUS
    <3> QED
      BY <1>1, <1>2, <1>3, <2>1, <3>1, TakePeace
  <2> QED
    BY <1>5, <2>1, <2>2
<1>8. CASE PollAnswered(c)
  <2>1. poll[c] \in News(c) /\ Hear(c, poll[c]) /\ ~open[c]
    BY <1>1, <1>8, NewsParts DEF PollAnswered
  <2>2. Peace(c)'
    BY <1>1, <1>2, <1>3, <2>1, HearPeace
  <2> QED
    BY <1>5, <2>1, <2>2
<1> QED
  BY <1>6, <1>7, <1>8

LEMMA FetchAgrees ==
  ASSUME TypeOK, KeepInv, AgreeInv, TypeOK', NEW c \in Clients,
         ServeFirst(c) \/ FirstFails(c) \/ AskPoll(c) \/ ServePoll(c)
  PROVE  AgreeInv'
<1>1. /\ Named
      /\ \A d \in Clients : Peace(d) /\ served[d] <= sent[d] /\ (open[d] => poll[d].phase = "none")
  BY Numbers DEF AgreeInv, Named
<1>2. /\ UNCHANGED <<doc, publishing, open, inbox, outbound, shown, synced, armed, puts, sent, served, mine, apart>>
      /\ \A d \in Clients : poll'[d] = poll[d] \/ (d = c /\ (~open[d] \/ poll[d].phase = "asked"))
  BY DEF ServeFirst, FirstFails, AskPoll, ServePoll, TypeOK, server, wire, editor, numbers, ghosts
<1>3. \A d \in Clients : Saves(d)' = Saves(d) /\ (Due(d) => Due(d)')
  BY <1>2 DEF Saves, Due, Coming
<1>4. \A d \in Clients : Peace(d)'
  BY <1>1, <1>2, <1>3, StillPeace
<1>5. \A d \in Clients : open'[d] => poll'[d].phase = "none"
  BY <1>1, <1>2
<1>6. Named'
  BY <1>1, <1>2, <1>5, NamedStep
<1> QED
  BY <1>4, <1>6 DEF AgreeInv

LEMMA PutAgrees ==
  ASSUME TypeOK, KeepInv, AgreeInv, TypeOK', NEW p \in puts,
         ServePut(p) \/ PutAnswered(p) \/ PutFails(p) \/ PutRefused(p)
  PROVE  AgreeInv'
<1> DEFINE c == p.by
<1>1. /\ Named /\ doc.at \in Int /\ c \in Clients /\ p \in Put
      /\ \A d \in Clients : Peace(d) /\ served[d] <= sent[d] /\ (open[d] => poll[d].phase = "none")
  BY Numbers DEF AgreeInv, Named, TypeOK
<1>2. /\ UNCHANGED <<publishing, open, inbox, outbound, shown, armed, poll, sent>>
      /\ \A d \in Clients \ {c} : synced'[d] = synced[d]
  BY DEF ServePut, PutAnswered, PutFails, PutRefused, TypeOK, server, wire, editor, numbers
<1> HIDE DEF c
<1>3. CASE ServePut(p)
  <2> DEFINE ok == [p EXCEPT !.phase = "ok", !.at = doc'.at]
  <2>1. ok.phase = "ok" /\ ok.at = doc'.at
    BY <1>1 DEF Put
  <2>2. Replace(p, FALSE) /\ puts' = (puts \ {p}) \cup {ok} /\ UNCHANGED synced /\ p \in Saves(c) /\ p.by = c
    BY <1>1, <1>3, SavesParts DEF ServePut, editor, c
  <2>3. p.text \in Text /\ p.n \in Nat /\ p.n <= sent[c]
    BY <1>1, <2>2, OnTheWay DEF KeepInv, InTime
  <2> HIDE DEF ok
  <2>4. \A x \in puts' : x \in puts \ {p} \/ (x.phase = "ok" /\ x.at = doc'.at)
    BY <2>1, <2>2
  <2>5. \A x \in puts : x \in puts' \/ x = p
    BY <2>2
  <2>6. /\ \A d \in Clients : Saves(d)' \subseteq Saves(d)
        /\ \A d \in Clients : \A w \in Saves(d) : w \in Saves(d)' \/ (w = p /\ d = c)
    BY <1>2, <2>2, <2>4, <2>5 DEF Saves, c
  <2>7. \A d \in Clients \ {c} : Saves(d)' = Saves(d)
    BY <2>6
  <2>8. Peace(c)'
    BY <1>1, <1>2, <2>2, <2>6, MadePeace
  <2>9. \A d \in Clients \ {c} : Peace(d)'
    BY <1>1, <1>2, <2>2, <2>3, <2>7, OtherPeace
  <2>11. \A d \in Clients : served'[d] <= sent[d]
    BY <1>1, <2>2, <2>3 DEF Replace, TypeOK
  <2>12. Named'
    BY <1>1, <1>2, <2>11, NamedStep
  <2> QED
    BY <2>8, <2>9, <2>12 DEF AgreeInv
<1>4. CASE ~ServePut(p)
  <2>1. UNCHANGED <<doc, served, mine>> /\ puts' = puts \ {p}
    BY <1>4 DEF PutAnswered, PutFails, PutRefused, server, numbers
  <2>2. \A d \in Clients : Due(d) => Due(d)'
    BY <1>2, <2>1 DEF Due, Coming
  <2>3. \A d \in Clients \ {c} : Saves(d)' = Saves(d) /\ apart'[d] = apart[d]
    <3>1. apart' = apart \/ \E ways : apart' = [apart EXCEPT ![c] = ways]
      BY <1>4 DEF PutAnswered, PutFails, PutRefused, Unsent, ghosts, c
    <3>2. \A d \in Clients \ {c} : apart'[d] = apart[d]
      BY <3>1 DEF TypeOK
    <3> QED
      BY <1>2, <2>1, <3>2 DEF Saves, c
  <2>4. \A d \in Clients \ {c} : Peace(d)'
    BY <1>1, <1>2, <2>1, <2>2, <2>3, StillPeace
  <2>6. Named'
    BY <1>1, <1>2, <2>1, NamedStep
  <2>7. Peace(c)'
    <3>1. CASE p.phase = "asked"
      <4>1. \E way : Unsent(c, way)
        BY <1>4, <3>1 DEF PutAnswered, PutFails, PutRefused, c
      <4>2. apart'[c] # {}
        BY <1>1, <4>1 DEF Unsent, TypeOK
      <4> QED
        BY <4>2 DEF Peace
    <3>2. CASE p.phase # "asked" /\ PutFails(p)
      <4>1. UNCHANGED <<synced, apart>>
        BY <3>2 DEF PutFails, editor, ghosts
      <4>2. Saves(c)' = Saves(c)
        BY <1>2, <2>1, <3>2 DEF Saves
      <4> QED
        BY <1>1, <1>2, <2>1, <2>2, <4>1, <4>2, StillPeace
    <3>3. CASE p.phase # "asked" /\ PutAnswered(p)
      <4>1. /\ p.phase = "ok" /\ synced'[c] = p.at
            /\ apart[c] \subseteq apart'[c]
            /\ p.at < synced[c] => apart'[c] # {}
            /\ p.at >= doc.at /\ mine[c] # doc.nth => apart'[c] # {}
        BY <1>1, <3>3 DEF PutAnswered, TypeOK, c
      <4>2. Saves(c)' = Saves(c)
        BY <1>2, <2>1, <3>3 DEF Saves
      <4>3. p.at \in Int /\ synced[c] \in Int
        BY <1>1, Numbers
      <4>4. SUFFICES ASSUME apart'[c] = {}
                     PROVE  Told(c)' /\ Current(c)' /\ SentAll(c)'
        BY DEF Peace
      <4>5. /\ Told(c) /\ Current(c) /\ SentAll(c) /\ ~(p.at < synced[c])
            /\ p.at >= doc.at => mine[c] = doc.nth
        BY <1>1, <4>1, <4>4 DEF Peace
      <4>6. Told(c)'
        <5>1. synced[c] >= doc.at => synced'[c] >= doc.at
          BY <1>1, <4>1, <4>3, <4>5
        <5>2. Due(c) => Due(c)'
          BY <1>1, <2>2
        <5>3. UNCHANGED <<doc, open, mine>>
          BY <1>2, <2>1
        <5> QED
          BY <4>5, <5>1, <5>2, <5>3 DEF Told
      <4>7. Current(c)'
        <5>1. synced'[c] >= doc'.at => mine[c] = doc.nth
          BY <2>1, <4>1, <4>5
        <5> QED
          BY <1>1, <1>2, <2>1, <4>2, <4>5, <5>1 DEF Current, AtRest
      <4>8. SentAll(c)'
        BY <1>1, <1>2, <2>1, <4>2, <4>5 DEF SentAll
      <4> QED
        BY <4>6, <4>7, <4>8
    <3>4. p.phase # "asked" => PutFails(p) \/ PutAnswered(p)
      BY <1>4 DEF PutRefused
    <3> QED
      BY <3>1, <3>2, <3>3, <3>4
  <2> QED
    BY <2>4, <2>6, <2>7 DEF AgreeInv
<1> QED
  BY <1>3, <1>4

LEMMA EditAgrees ==
  ASSUME TypeOK, KeepInv, AgreeInv, TypeOK', NEW c \in Clients, User(c) \/ SendContent(c)
  PROVE  AgreeInv'
<1>1. /\ Named
      /\ \A d \in Clients : /\ Peace(d) /\ served[d] <= sent[d] /\ (open[d] => poll[d].phase = "none")
                            /\ served[d] \in Nat /\ sent[d] \in Nat
  BY Numbers DEF AgreeInv, Named
<1>2. /\ UNCHANGED <<doc, publishing, open, inbox, synced, poll, served, mine, apart>>
      /\ \A d \in Clients \ {c} : shown'[d] = shown[d] /\ armed'[d] = armed[d] /\ sent'[d] = sent[d]
      /\ sent'[c] \in {sent[c], sent[c] + 1}
  BY DEF User, Type, Blur, SendContent, SaveContent, TypeOK, server, wire, editor, http, numbers, ghosts
<1>3. \A d \in Clients : Due(d) => Due(d)'
  BY <1>2 DEF Due, Coming
<1>4. ASSUME Peace(c)', \A d \in Clients \ {c} : Saves(d)' = Saves(d)
      PROVE  AgreeInv'
  <2>1. \A d \in Clients \ {c} : Peace(d)'
    BY <1>1, <1>2, <1>3, <1>4, StillPeace
  <2>2. \A d \in Clients : served'[d] <= sent'[d]
    BY <1>1, <1>2
  <2>3. Named'
    BY <1>1, <1>2, <2>2, NamedStep
  <2> QED
    BY <1>4, <2>1, <2>3 DEF AgreeInv
<1>5. ASSUME NEW e \in Edit, Type(c, e)
      PROVE  AgreeInv'
  <2>1. UNCHANGED <<outbound, puts, sent>> /\ armed'[c] = TRUE
    BY <1>5 DEF Type, TypeOK, wire, http, numbers
  <2>2. \A d \in Clients : Saves(d)' = Saves(d)
    BY <2>1 DEF Saves
  <2>3. Peace(c)'
    <3>1. Told(c) => Told(c)'
      BY <1>2, <1>3 DEF Told
    <3>2. Current(c)'
      BY <2>1 DEF Current, AtRest
    <3>3. SentAll(c) => SentAll(c)'
      BY <1>2, <2>1, <2>2 DEF SentAll
    <3> QED
      BY <1>1, <1>2, <3>1, <3>2, <3>3 DEF Peace
  <2> QED
    BY <1>4, <2>1, <2>2, <2>3
<1>6. CASE Blur(c) /\ open[c]
  <2>1. UNCHANGED <<outbound, shown, armed, puts, sent>>
    BY <1>6 DEF Blur, wire, editor
  <2>2. \A d \in Clients : Saves(d)' = Saves(d)
    BY <2>1 DEF Saves
  <2>3. Peace(c)'
    BY <1>1, <1>2, <1>3, <2>1, <2>2, StillPeace
  <2> QED
    BY <1>4, <2>1, <2>2, <2>3
<1>7. ASSUME (Blur(c) /\ ~open[c]) \/ SendContent(c)
      PROVE  AgreeInv'
  <2> DEFINE u == [by |-> c, n |-> sent[c] + 1, text |-> shown[c]]
             p == [by |-> c, n |-> sent[c] + 1, text |-> shown[c], phase |-> "asked", at |-> 0]
  <2>1. /\ UNCHANGED shown /\ sent'[c] = sent[c] + 1
    BY <1>7 DEF Blur, SendContent, SaveContent, TypeOK, editor
  <2>2. \/ outbound' = outbound /\ puts' = puts \cup {p}
        \/ outbound' = [outbound EXCEPT ![c] = Append(@, u)] /\ puts' = puts
    BY <1>7 DEF Blur, SendContent, SaveContent, PersistViaHttp, wire
  <2>3. CASE outbound' = outbound /\ puts' = puts \cup {p}
    <3>1. p.by = c /\ p.phase = "asked" /\ p.n = sent[c] + 1 /\ p.text = shown[c]
      OBVIOUS
    <3> HIDE DEF p
    <3>2. Saves(c)' = Saves(c) \cup {p} /\ \A d \in Clients \ {c} : Saves(d)' = Saves(d)
      BY <2>3, <3>1 DEF Saves
    <3>3. Peace(c)'
      BY <1>1, <1>2, <1>3, <2>1, <3>1, <3>2, SendPeace
    <3> QED
      BY <1>4, <2>3, <3>1, <3>2, <3>3
  <2>4. CASE outbound' = [outbound EXCEPT ![c] = Append(@, u)] /\ puts' = puts
    <3>1. u.by = c /\ u.n = sent[c] + 1 /\ u.text = shown[c]
      OBVIOUS
    <3>2. /\ outbound'[c] = Append(outbound[c], u)
          /\ \A d \in Clients \ {c} : outbound'[d] = outbound[d]
          /\ outbound[c] \in Seq(Update)
      BY <2>4 DEF TypeOK
    <3>3. u \in Update
      BY SaveType
    <3> HIDE DEF u
    <3>4. Elems(outbound'[c]) = Elems(outbound[c]) \cup {u}
      BY <3>2, <3>3, ElemsAppend
    <3>5. Saves(c)' = Saves(c) \cup {u} /\ \A d \in Clients \ {c} : Saves(d)' = Saves(d)
      BY <2>4, <3>2, <3>4 DEF Saves
    <3>6. Peace(c)'
      BY <1>1, <1>2, <1>3, <2>1, <3>1, <3>5, SendPeace
    <3> QED
      BY <1>4, <2>4, <3>5, <3>6
  <2> QED
    BY <2>2, <2>3, <2>4
<1> QED
  BY <1>5, <1>6, <1>7 DEF User

LEMMA SocketAgrees ==
  ASSUME TypeOK, KeepInv, AgreeInv, TypeOK', NEW c \in Clients, Connect(c) \/ Drop(c)
  PROVE  AgreeInv'
<1>1. /\ Named
      /\ \A d \in Clients : Peace(d) /\ served[d] <= sent[d] /\ (open[d] => poll[d].phase = "none")
  BY Numbers DEF AgreeInv, Named
<1>2. /\ UNCHANGED <<doc, publishing, shown, synced, armed, puts, sent, served, mine>>
      /\ \A d \in Clients \ {c} : /\ open'[d] = open[d] /\ inbox'[d] = inbox[d] /\ outbound'[d] = outbound[d]
                                  /\ apart'[d] = apart[d] /\ poll'[d] = poll[d]
  <2>1. CASE Connect(c)
    BY <2>1 DEF Connect, TypeOK, server, editor, numbers, ghosts
  <2>2. CASE Drop(c)
    BY <2>2 DEF Drop, Stopped, Unsent, TypeOK, server, editor, http, numbers, ghosts
  <2> QED
    BY <2>1, <2>2
<1>3. \A d \in Clients \ {c} : Saves(d)' = Saves(d) /\ (Due(d) => Due(d)')
  BY <1>2 DEF Saves, Due, Coming
<1>4. \A d \in Clients \ {c} : Peace(d)'
  BY <1>1, <1>2, <1>3, StillPeace
<1>5. ASSUME Peace(c)', open'[c] => poll'[c].phase = "none"
      PROVE  AgreeInv'
  <2>1. \A d \in Clients : open'[d] => poll'[d].phase = "none"
    BY <1>1, <1>2, <1>5
  <2>2. Named'
    BY <1>1, <1>2, <2>1, NamedStep
  <2> QED
    BY <1>4, <1>5, <2>2 DEF AgreeInv
<1>6. CASE Connect(c)
  <2> DEFINE m == [by |-> Nobody, text |-> doc.text, at |-> doc.at, nth |-> doc.nth]
  <2>1. inbox'[c] = <<m>> /\ poll'[c] = NoFetch /\ UNCHANGED <<outbound, apart>>
    BY <1>6 DEF Connect, TypeOK, ghosts
  <2>2. m.by # c /\ m.nth = doc.nth /\ NoFetch.phase = "none"
    BY DocumentAssumption DEF NoFetch
  <2> HIDE DEF m
  <2>3. Due(c)'
    BY <1>2, <2>1, <2>2, ElemsShort DEF Due, Coming
  <2>4. Saves(c)' = Saves(c)
    BY <1>2, <2>1 DEF Saves
  <2>5. Peace(c)'
    BY <1>1, <1>2, <2>1, <2>3, <2>4 DEF Peace, Told, Current, SentAll, AtRest
  <2> QED
    BY <1>5, <2>1, <2>2, <2>5
<1>7. CASE Drop(c)
  <2>1. ~open'[c]
    BY <1>7 DEF Drop, Stopped, TypeOK
  <2>2. CASE UNCHANGED <<outbound, apart>>
    <3>1. Saves(c)' = Saves(c)
      BY <1>2, <2>2 DEF Saves
    <3>2. Peace(c)'
      BY <1>1, <1>2, <2>1, <2>2, <3>1, StillPeace
    <3> QED
      BY <1>5, <2>1, <3>2
  <2>3. CASE Unsent(c, "unsent")
    <3>1. apart'[c] # {}
      BY <2>3 DEF Unsent, TypeOK
    <3>2. Peace(c)'
      BY <3>1 DEF Peace
    <3> QED
      BY <1>5, <2>1, <3>2
  <2> QED
    BY <1>7, <2>2, <2>3 DEF Drop, ghosts
<1> QED
  BY <1>6, <1>7

LEMMA StillAgrees ==
  ASSUME TypeOK, KeepInv, AgreeInv, TypeOK', Archive \/ UNCHANGED vars
  PROVE  AgreeInv'
<1>1. /\ Named
      /\ \A d \in Clients : Peace(d) /\ served[d] <= sent[d] /\ (open[d] => poll[d].phase = "none")
  BY Numbers DEF AgreeInv, Named
<1>2. UNCHANGED <<doc, publishing, open, inbox, outbound, shown, synced, armed, poll, puts, sent, served, mine, apart>>
  BY DEF Archive, vars, server, wire, editor, http, numbers, ghosts
<1>3. \A d \in Clients : Saves(d)' = Saves(d) /\ (Due(d) => Due(d)')
  BY <1>2 DEF Saves, Due, Coming
<1>4. \A d \in Clients : Peace(d)'
  BY <1>1, <1>2, <1>3, StillPeace
<1>5. Named'
  BY <1>1, <1>2, NamedStep
<1> QED
  BY <1>4, <1>5 DEF AgreeInv

LEMMA NextAgrees ==
  ASSUME TypeOK, KeepInv, AgreeInv, [Next]_vars
  PROVE  AgreeInv'
<1>1. TypeOK'
  BY NextType
<1> QED
  BY <1>1, ConsumerAgrees, PublishFailsAgrees, HeardAgrees, FetchAgrees, PutAgrees, EditAgrees, SocketAgrees, StillAgrees
  DEF Next, Load, Polling, Puts, Faults

LEMMA InitAgrees ==
  ASSUME Init
  PROVE  AgreeInv
<1>1. /\ doc.text = {} /\ doc.at = 0 /\ doc.nth = 0 /\ puts = {}
      /\ \A c \in Clients :
           /\ publishing[c] = NoEvent /\ outbound[c] = <<>> /\ poll[c] = NoFetch /\ shown[c] = {}
           /\ mine[c] = -1 /\ (open[c] => synced[c] = 0)
           /\ sent[c] = 0 /\ served[c] = 0
  BY DEF Init, Never
<1>2. \A c \in Clients : Saves(c) = {}
  BY <1>1, ElemsShort DEF Saves
<1>3. Named
  <2>1. NoFetch.phase = "none" /\ 0 <= 0
    BY DEF NoFetch
  <2>2. \A c \in Clients : served[c] <= sent[c]
    BY <1>1, <2>1
  <2>3. \A c \in Clients : publishing[c] = NoEvent /\ poll[c] = NoFetch
    BY <1>1
  <2> QED
    BY <2>1, <2>2, <2>3 DEF Named
<1>4. \A c \in Clients : Peace(c)
  BY <1>1, <1>2 DEF Peace, Told, Current, SentAll
<1> QED
  BY <1>3, <1>4 DEF AgreeInv

\* When nothing is on its way and everybody is connected, the editors show the
\* saved text, whatever order saves, answers, broadcasts, failures and
\* connections came in, but for those that one of the named things happened to.
THEOREM ConvergedHolds == Spec => []Converged
<1>1. Init => AgreeInv
  BY InitAgrees
<1>2. TypeOK /\ KeepInv /\ AgreeInv /\ [Next]_vars => AgreeInv'
  BY NextAgrees
<1>3. AgreeInv => Converged
  <2>1. SUFFICES ASSUME AgreeInv, Quiet, NEW c \in Clients, apart[c] = {}
                 PROVE  shown[c] = doc.text
    BY DEF Converged
  <2>2. Coming(c) = {} /\ Saves(c) = {}
    BY <2>1, ElemsShort DEF Quiet, Coming, Saves
  <2> QED
    BY <2>1, <2>2 DEF AgreeInv, Peace, Told, Current, AtRest, Due, Quiet
<1>4. Init => KeepInv
  BY InitKeeps
<1>5. TypeOK /\ KeepInv /\ [Next]_vars => KeepInv'
  BY NextKeeps
<1> QED
  BY <1>1, <1>2, <1>3, <1>4, <1>5, TypeCorrect, PTL DEF Spec

===============================================================================
