--------------------------- MODULE ChatOutboxProofs ---------------------------
(***************************************************************************)
(* Proofs about ChatOutbox, for any number of tabs, accounts and messages, *)
(* and for sessions of any kind.                                           *)
(***************************************************************************)
EXTENDS ChatOutbox, TLAPS

\* What a session may be.
LEMMA SessionType ==
  ASSUME TypeOK
  PROVE  /\ session \in Session /\ session.tabs \subseteq Tabs
         /\ session.faults \in Nat /\ session.turns \in Nat
  BY OutboxAssumption DEF TypeOK, Session

LEMMA EmptyBox ==
  /\ EmptyOutbox \in Outbox
  /\ In(EmptyOutbox) = {}
  BY DEF EmptyOutbox, Outbox, Status, In

\* A tab that changes its outbox writes all of it, and only its own; what it
\* takes out of the storage and another tab still has is put down as overwritten.
LEMMA Stored ==
  ASSUME TypeOK, NEW t \in Tabs, NEW box \in Outbox, SetOutbox(t, box)
  PROVE  /\ outbox' \in [Tabs -> Outbox] /\ outbox'[t] = box
         /\ \A u \in Tabs \ {t} : outbox'[u] = outbox[u]
         /\ saved' = box /\ saved' \in Outbox
         /\ overwritten' \subseteq Message
  BY DEF TypeOK, SetOutbox, Saving, In

\* The outboxes that markOutboxSent and markOutboxFailed leave.
LEMMA MarkedBoxes ==
  ASSUME TypeOK, NEW t \in Tabs
  PROVE  /\ \A ms \in SUBSET Message :
              /\ [m \in Message |-> IF m \in ms THEN "none" ELSE outbox[t][m]] \in Outbox
              /\ In([m \in Message |-> IF m \in ms THEN "none" ELSE outbox[t][m]])
                   = In(outbox[t]) \ ms
         /\ \A m \in Message :
              /\ [outbox[t] EXCEPT ![m] = IF @ = "none" THEN "none" ELSE "failed"] \in Outbox
              /\ In([outbox[t] EXCEPT ![m] = IF @ = "none" THEN "none" ELSE "failed"])
                   = In(outbox[t])
              /\ [outbox[t] EXCEPT ![m] = "sending"] \in Outbox
              /\ In([outbox[t] EXCEPT ![m] = "sending"]) = In(outbox[t]) \cup {m}
<1>1. outbox[t] \in Outbox
  BY DEF TypeOK
<1> QED
  BY <1>1 DEF Outbox, Status, In

\* Which of their entries are being sent.
LEMMA MarkedSending ==
  ASSUME TypeOK, NEW t \in Tabs, NEW n \in Message
  PROVE  /\ \A ms \in SUBSET Message :
              [m \in Message |-> IF m \in ms THEN "none" ELSE outbox[t][m]][n] = "sending"
                => n \notin ms /\ outbox[t][n] = "sending"
         /\ \A m \in Message :
              /\ [outbox[t] EXCEPT ![m] = IF @ = "none" THEN "none" ELSE "failed"][n] = "sending"
                   => n # m /\ outbox[t][n] = "sending"
              /\ [outbox[t] EXCEPT ![m] = "sending"][n] = "sending"
                   => n = m \/ outbox[t][n] = "sending"
<1>1. outbox[t] \in [Message -> Status]
  BY DEF TypeOK, Outbox
<1> QED
  BY <1>1

\* The request of a post is of its tab and its message.
LEMMA Posted ==
  ASSUME NEW t, NEW m, NEW l
  PROVE  Post(t, m, l).tab = t /\ Post(t, m, l).msg = m
         /\ Post(t, m, l).as = who /\ Post(t, m, l).answer = "none"
  BY DEF Post

\* The steps of the network and of the server, of the tabs' handlers, and those
\* in which tab t asks for a token, gets one, or brings one back.
Answering ==
  \/ \E x \in sends : ServeSend(x) \/ LoseSend(x) \/ Expired(x)
  \/ \E d \in digests : ServeDigest(d)

Handling ==
  \/ \E x \in sends : SendOk(x) \/ SendFailed(x)
  \/ \E l \in loops : FlushNext(l)
  \/ \E d \in digests : AckArrives(d) \/ AckIgnored(d)

Renewing(t) ==
  \/ \E x \in sends : x.tab = t /\ Unauthorized(x)
  \/ Refreshed(t) \/ NotRefreshed(t) \/ ExpiredElsewhere(t) \/ RewriteToken(t)

\* Every step is of one of these kinds or of a tab's connection, screen or sign-in.
LEMMA Steps ==
  ASSUME TypeOK, Next
  PROVE  \/ Answering \/ Handling
         \/ \E t \in Tabs : \/ Renewing(t) \/ Open(t) \/ Close(t)
                            \/ (\E m \in Message : Compose(t, m)) \/ Look(t) \/ Touch(t)
                            \/ SignOut(t) \/ SessionEnds(t) \/ Evicted(t) \/ Reload(t)
                            \/ \E a \in Accounts : SignIn(t, a)
<1>1. session.tabs \subseteq Tabs
  BY SessionType
<1>2. ASSUME NEW x \in sends, Unauthorized(x)
      PROVE  \E t \in Tabs : Renewing(t)
  <2>1. x.tab \in Tabs
    BY <1>2 DEF Unauthorized, TypeOK, Send
  <2> QED
    BY <1>2, <2>1 DEF Renewing
<1>3. Server => Answering \/ \E t \in Tabs : Renewing(t)
  BY <1>1 DEF Server, Answering, Renewing
<1>4. Client => Handling \/ \E t \in Tabs : Renewing(t)
  BY <1>2 DEF Client, Handling
<1>5. Faults => Answering \/ \E t \in Tabs : Renewing(t) \/ Close(t)
  BY <1>1 DEF Faults, Answering, Renewing
<1>6. Sign => \E t \in Tabs : \/ Renewing(t) \/ SignOut(t) \/ SessionEnds(t) \/ Evicted(t)
                             \/ \E a \in Accounts : SignIn(t, a)
  BY <1>1 DEF Sign, Renewing
<1> QED
  BY <1>1, <1>3, <1>4, <1>5, <1>6 DEF Next, Connect, User

\* The token moves without its tab writing anything, or the session is over.
LEMMA Renewed ==
  ASSUME TypeOK, NEW t \in Tabs, Renewing(t)
  PROVE  /\ UNCHANGED <<server, loops, opens, turns, session>>
         /\ faults' \in 0 .. session.faults
         /\ asked' \in [Tabs -> Accounts \cup {NoAccount}]
         /\ \/ ClearAuth(t)
            \/ /\ UNCHANGED <<shown, entries, digests, socket, screen, cleared, overwritten>>
               /\ who' \in Accounts \cup {NoAccount} /\ renew' \in Accounts \cup {NoAccount}
               /\ GivenTo(who') \subseteq carried' /\ carried' \subseteq Message
<1>1. GivenTo(who) = carried
  BY DEF GivenTo
<1>2. \A a \in Accounts \cup {NoAccount} : GivenTo(a) \subseteq Message
  BY DEF GivenTo, TypeOK, In
<1> DEFINE Kept == /\ UNCHANGED <<shown, entries, digests, socket, screen, cleared, overwritten>>
                   /\ who' \in Accounts \cup {NoAccount} /\ renew' \in Accounts \cup {NoAccount}
                   /\ GivenTo(who') \subseteq carried' /\ carried' \subseteq Message
           Rest == /\ UNCHANGED <<server, loops, opens, turns, session>>
                   /\ faults' \in 0 .. session.faults
                   /\ asked' \in [Tabs -> Accounts \cup {NoAccount}]
<1>3. faults \in 0 .. session.faults
  BY DEF TypeOK
<1>4. ASSUME UNCHANGED <<who, renew, shown, entries, digests, socket, screen, ghosts>>
      PROVE  Kept
  BY <1>1, <1>4 DEF TypeOK, ghosts
<1>5. Ask(t) => asked' \in [Tabs -> Accounts \cup {NoAccount}]
  BY DEF Ask, TypeOK
<1>6. ClearAuth(t) => UNCHANGED opens
  BY DEF ClearAuth, Closed
<1>7. ASSUME NEW x \in sends, x.tab = t, Unauthorized(x)
      PROVE  Rest /\ (ClearAuth(t) \/ Kept)
  <2>1. Rest
    BY <1>3, <1>5, <1>6, <1>7 DEF Unauthorized, TypeOK, account, socket, meter
  <2>2. ClearAuth(t) \/ Kept
    BY <1>4, <1>7 DEF Unauthorized, account
  <2> QED
    BY <2>1, <2>2
<1>8. CASE Refreshed(t)
  <2> DEFINE a == asked[t]
  <2>1. a \in Accounts \cup {NoAccount} /\ who' = a /\ GivenTo(a) \subseteq carried'
    BY <1>8 DEF Refreshed, TypeOK
  <2>2. {x.msg : x \in Awaiting(t)} \subseteq Message
    BY DEF Awaiting, TypeOK, Send
  <2>3. carried' \subseteq Message
    BY <1>2, <1>8, <2>1, <2>2 DEF Refreshed
  <2>4. Rest
    BY <1>3, <1>8 DEF Refreshed, TypeOK, socket, meter
  <2>5. Kept
    BY <1>8, <2>1, <2>3 DEF Refreshed, TypeOK
  <2> QED
    BY <2>4, <2>5
<1>9. CASE NotRefreshed(t)
  <2>1. Rest
    BY <1>3, <1>6, <1>9 DEF NotRefreshed, TypeOK, socket, meter
  <2>2. ClearAuth(t) \/ Kept
    BY <1>4, <1>9 DEF NotRefreshed
  <2> QED
    BY <2>1, <2>2
<1>10. CASE ExpiredElsewhere(t)
  <2>1. faults' \in 0 .. session.faults
    BY <1>10, SessionType DEF ExpiredElsewhere, Expires, TypeOK
  <2>2. Rest
    BY <1>5, <1>10, <2>1 DEF ExpiredElsewhere, Expires, network, socket
  <2>3. Kept
    BY <1>4, <1>10 DEF ExpiredElsewhere, network
  <2> QED
    BY <2>2, <2>3
<1>11. CASE RewriteToken(t)
  <2>1. shown[t] \in Accounts \cup {NoAccount} /\ who' = shown[t]
    BY <1>11 DEF RewriteToken, TypeOK
  <2>2. Rest
    BY <1>3, <1>11 DEF RewriteToken, TypeOK, network, socket, meter
  <2>3. Kept
    BY <1>2, <1>11, <2>1 DEF RewriteToken, network
  <2> QED
    BY <2>2, <2>3
<1> QED
  BY <1>7, <1>8, <1>9, <1>10, <1>11 DEF Renewing

LEMMA Reposted ==
  ASSUME NEW x \in Send, NEW a \in Accounts
  PROVE  LET y == [x EXCEPT !.as = a, !.again = TRUE, !.answer = "none"]
         IN  /\ y \in Send /\ y.answer = "none"
             /\ y.tab = x.tab /\ y.msg = x.msg /\ y.as = a
  BY DEF Send

\* The requests of the tab stay its own; no new one is heard to be on the server,
\* and none goes under a new name but that of the token asked for.
LEMMA RenewedSends ==
  ASSUME TypeOK, NEW t \in Tabs, Renewing(t)
  PROVE  /\ sends' \subseteq Send
         /\ \A x \in sends : \E y \in sends' : y.tab = x.tab /\ y.msg = x.msg
         /\ \A y \in sends' \ sends :
              /\ y.answer # "ok"
              /\ \E x \in sends :
                   /\ y.tab = x.tab /\ y.msg = x.msg
                   /\ y.as = x.as \/ y.as = author[y.msg] \/ y.msg \in carried'
<1> DEFINE Good ==
      /\ sends' \subseteq Send
      /\ \A x \in sends : \E y \in sends' : y.tab = x.tab /\ y.msg = x.msg
      /\ \A y \in sends' \ sends :
           /\ y.answer # "ok"
           /\ \E x \in sends :
                /\ y.tab = x.tab /\ y.msg = x.msg
                /\ y.as = x.as \/ y.as = author[y.msg] \/ y.msg \in carried'
<1>1. \A x \in sends : \A a \in {"no", "wait"} :
        /\ [x EXCEPT !.answer = a] \in Send /\ [x EXCEPT !.answer = a].answer = a
        /\ [x EXCEPT !.answer = a].tab = x.tab /\ [x EXCEPT !.answer = a].msg = x.msg
        /\ [x EXCEPT !.answer = a].as = x.as
  BY DEF TypeOK, Send
<1>2. ASSUME UNCHANGED sends PROVE Good
  BY <1>2 DEF TypeOK
<1>3. ASSUME NEW x \in sends, NEW a \in {"no", "wait"}, sends' = Answer(x, a) PROVE Good
  <2>1. PICK y : y = [x EXCEPT !.answer = a]
    OBVIOUS
  <2>2. /\ y \in Send /\ y.answer # "ok"
        /\ y.tab = x.tab /\ y.msg = x.msg /\ y.as = x.as
    BY <1>1, <2>1
  <2>3. sends' = (sends \ {x}) \cup {y}
    BY <1>3, <2>1 DEF Answer
  <2> QED
    BY <2>2, <2>3 DEF TypeOK
<1>4. ASSUME NEW x \in sends, Unauthorized(x) PROVE Good
  BY <1>3, <1>4 DEF Unauthorized
<1>5. CASE Refreshed(t)
  <2> DEFINE a == asked[t]
             again(x) == [x EXCEPT !.as = a, !.again = TRUE, !.answer = "none"]
  <2>1. a \in Accounts
    BY <1>5 DEF Refreshed, TypeOK
  <2>2. \A x \in sends : /\ again(x) \in Send /\ again(x).answer = "none"
                         /\ again(x).tab = x.tab /\ again(x).msg = x.msg /\ again(x).as = a
    BY <2>1, Reposted DEF TypeOK
  <2>3. sends' = (sends \ Awaiting(t)) \cup {again(x) : x \in Awaiting(t)}
    BY <1>5 DEF Refreshed
  <2>4. Awaiting(t) \subseteq sends
    BY DEF Awaiting
  <2>5. \A x \in Awaiting(t) : a = author[x.msg] \/ x.msg \in carried'
    <3>1. \A m \in {x.msg : x \in Awaiting(t)} : author[m] # a => m \in carried'
      BY <1>5 DEF Refreshed
    <3> QED
      BY <3>1
  <2> HIDE DEF again, a
  <2> QED
    BY <2>2, <2>3, <2>4, <2>5 DEF TypeOK
<1>6. CASE NotRefreshed(t)
  <2> DEFINE failed(x) == [x EXCEPT !.answer = "no"]
  <2>1. sends' = (sends \ Awaiting(t)) \cup {failed(x) : x \in Awaiting(t)}
    BY <1>6 DEF NotRefreshed
  <2>2. Awaiting(t) \subseteq sends
    BY DEF Awaiting
  <2>3. \A x \in sends : /\ failed(x) \in Send /\ failed(x).answer = "no"
                         /\ failed(x).tab = x.tab /\ failed(x).msg = x.msg /\ failed(x).as = x.as
    BY <1>1
  <2> HIDE DEF failed
  <2> QED
    BY <2>1, <2>2, <2>3 DEF TypeOK
<1>7. CASE ExpiredElsewhere(t) \/ RewriteToken(t)
  BY <1>2, <1>7 DEF ExpiredElsewhere, RewriteToken, network
<1> QED
  BY <1>4, <1>5, <1>6, <1>7 DEF Renewing

-------------------------------------------------------------------------------
(* Types.                                                                  *)

LEMMA InitType == Init => TypeOK
<1> SUFFICES ASSUME Init PROVE TypeOK
  OBVIOUS
<1>1. session \in Session /\ session.faults \in Nat /\ session.turns \in Nat
      /\ session.first \in Accounts
  BY OutboxAssumption DEF Init, Session
<1> QED
  BY <1>1, EmptyBox DEF Init, TypeOK

\* MarkSent keeps the types of all it changes.
LEMMA MarkSentType ==
  ASSUME TypeOK, NEW t \in Tabs, NEW ms \in SUBSET Message, MarkSent(t, ms)
  PROVE  /\ outbox' \in [Tabs -> Outbox] /\ saved' \in Outbox /\ overwritten' \subseteq Message
         /\ list' \in [Tabs -> SUBSET Message] /\ counted' \in [Tabs -> SUBSET Message]
<1>1. /\ list' \in [Tabs -> SUBSET Message] /\ counted' \in [Tabs -> SUBSET Message]
  BY DEF TypeOK, MarkSent, AddMessages
<1> QED
  BY <1>1, Stored, MarkedBoxes DEF MarkSent

LEMMA ClosedType ==
  ASSUME TypeOK, NEW t \in Tabs, Closed(t)
  PROVE  open' \in [Tabs -> BOOLEAN] /\ opens' \in Nat /\ digests' \subseteq Digest
  BY DEF TypeOK, Closed

\* The server answers requests of the same type.
LEMMA AnsweringType ==
  ASSUME TypeOK, Answering
  PROVE  TypeOK'
<1>1. ASSUME NEW x \in sends, ServeSend(x)
      PROVE  TypeOK'
  <2>1. x \in Send
    BY DEF TypeOK
  <2>2. /\ [x EXCEPT !.answer = "ok"] \in Send
        /\ [x EXCEPT !.answer = "401"] \in Send
    BY <2>1 DEF Send
  <2>3. x.as = NoAccount \/ [msg |-> x.msg, as |-> x.as] \in [msg : Message, as : Accounts]
    BY <2>1 DEF Send
  <2>4. sends' \subseteq Send /\ committed' \subseteq [msg : Message, as : Accounts]
    BY <1>1, <2>2, <2>3 DEF ServeSend, Answer, TypeOK
  <2> QED
    BY <1>1, <2>4 DEF ServeSend, TypeOK, account, entries, socket, screen, ghosts, meter
<1>2. ASSUME NEW d \in digests, ServeDigest(d)
      PROVE  TypeOK'
  <2>1. d \in Digest
    BY DEF TypeOK
  <2>2. \A ms \in SUBSET d.of : [d EXCEPT !.acked = TRUE, !.of = ms] \in Digest
    BY <2>1 DEF Digest
  <2>3. digests' \subseteq Digest
    BY <1>2, <2>2 DEF ServeDigest, TypeOK
  <2> QED
    BY <1>2, <2>3 DEF ServeDigest, TypeOK, server, account, entries, socket, screen, ghosts, meter
<1>3. ASSUME NEW x \in sends, LoseSend(x)
      PROVE  TypeOK'
  <2>1. [x EXCEPT !.answer = "no"] \in Send
    BY DEF TypeOK, Send
  <2>2. sends' \subseteq Send
    BY <1>3, <2>1 DEF LoseSend, Answer, TypeOK
  <2>3. faults' \in 0 .. session.faults
    BY <1>3, SessionType DEF LoseSend, TypeOK
  <2> QED
    BY <1>3, <2>2, <2>3 DEF LoseSend, TypeOK, server, account, entries, socket, screen, ghosts
<1>4. ASSUME NEW x \in sends, Expired(x)
      PROVE  TypeOK'
  <2>1. [x EXCEPT !.answer = "401"] \in Send
    BY DEF TypeOK, Send
  <2>2. sends' \subseteq Send
    BY <1>4, <2>1 DEF Expired, Answer, TypeOK
  <2>3. faults' \in 0 .. session.faults
    BY <1>4, SessionType DEF Expired, Expires, TypeOK
  <2> QED
    BY <1>4, <2>2, <2>3
    DEF Expired, Expires, TypeOK, server, account, entries, socket, screen, ghosts
<1> QED
  BY <1>1, <1>2, <1>3, <1>4 DEF Answering

\* The tab's own handlers.
LEMMA HandlingType ==
  ASSUME TypeOK, Handling
  PROVE  TypeOK'
<1>1. ASSUME NEW x \in sends, SendOk(x) \/ SendFailed(x)
      PROVE  TypeOK'
  <2>1. x \in Send /\ x.tab \in Tabs /\ x.msg \in Message
    BY <1>1 DEF SendOk, SendFailed, TypeOK, Send
  <2>2. loops' \subseteq Loop
    <3>1. \A l \in loops : [l EXCEPT !.cur = 0] \in Loop
      BY DEF TypeOK, Loop
    <3> QED
      BY <1>1, <3>1 DEF SendOk, SendFailed, Resumed, TypeOK
  <2>3. CASE SendOk(x)
    <3>1. {x.msg} \in SUBSET Message
      BY <2>1
    <3> QED
      BY <2>1, <2>2, <2>3, <3>1, MarkSentType
      DEF SendOk, TypeOK, server, account, socket, meter
  <2>4. CASE SendFailed(x)
    BY <2>1, <2>2, <2>4, Stored, MarkedBoxes
    DEF SendFailed, MarkFailed, TypeOK, server, account, socket, screen, meter
  <2> QED
    BY <1>1, <2>3, <2>4
<1>2. ASSUME NEW l \in loops, FlushNext(l)
      PROVE  TypeOK'
  <2>1. l \in Loop /\ l.tab \in Tabs /\ l.id \in Nat
    BY DEF TypeOK, Loop
  <2> DEFINE left == l.rest \cap In(outbox[l.tab])
  <2>2. CASE left = {} /\ loops' = loops \ {l} /\ UNCHANGED <<sends, entries, overwritten>>
    BY <1>2, <2>2
    DEF FlushNext, TypeOK, entries, server, account, socket, screen, meter
  <2>3. ASSUME NEW m \in left, RetryOutboxEntry(l, m),
               loops' = (loops \ {l}) \cup {[l EXCEPT !.cur = m, !.rest = left \ {m}]}
        PROVE  TypeOK'
    <3>1. m \in Message /\ left \subseteq Message
      BY <2>1 DEF Loop
    <3>2. [l EXCEPT !.cur = m, !.rest = left \ {m}] \in Loop
      BY <2>1, <3>1 DEF Loop
    <3>3. Post(l.tab, m, l.id) \in Send
      BY <2>1, <3>1 DEF Post, Send, TypeOK
    <3> QED
      BY <1>2, <2>1, <2>3, <3>1, <3>2, <3>3, Stored, MarkedBoxes
      DEF FlushNext, RetryOutboxEntry, TypeOK, server, account, socket, screen, meter
  <2> QED
    BY <1>2, <2>2, <2>3 DEF FlushNext
<1>3. ASSUME NEW d \in digests, AckArrives(d)
      PROVE  TypeOK'
  <2>1. d.tab \in Tabs /\ d.of \cap In(outbox[d.tab]) \in SUBSET Message
    BY DEF TypeOK, Digest
  <2> QED
    BY <1>3, <2>1, MarkSentType DEF AckArrives, TypeOK, server, account, socket, meter
<1>4. ASSUME NEW d \in digests, AckIgnored(d)
      PROVE  TypeOK'
  BY <1>4 DEF AckIgnored, TypeOK, server, account, entries, socket, screen, ghosts, meter
<1> QED
  BY <1>1, <1>2, <1>3, <1>4 DEF Handling

\* Connections come and go.
LEMMA SocketType ==
  ASSUME TypeOK, NEW t \in Tabs, Open(t) \/ Close(t)
  PROVE  TypeOK'
<1>1. CASE Open(t)
  <2>1. ToFlush(t) \subseteq Message
    BY DEF ToFlush
  <2>2. /\ [tab |-> t, of |-> ToFlush(t), acked |-> FALSE] \in Digest
        /\ [tab |-> t, id |-> opens + 1, rest |-> ToFlush(t), cur |-> 0] \in Loop
    BY <2>1 DEF TypeOK, Digest, Loop
  <2>3. digests' \subseteq Digest /\ loops' \subseteq Loop
    BY <1>1, <2>2 DEF Open, TypeOK
  <2> QED
    BY <1>1, <2>3 DEF Open, TypeOK, server, account, entries, screen, ghosts, meter
<1>2. CASE Close(t)
  <2>1. faults' \in 0 .. session.faults
    BY <1>2, SessionType DEF Close, TypeOK
  <2> QED
    BY <1>2, <2>1, ClosedType DEF Close, TypeOK, server, account, entries, screen, ghosts
<1> QED
  BY <1>1, <1>2

\* What the user does.
LEMMA UserType ==
  ASSUME TypeOK, NEW t \in Tabs,
         (\E m \in Message : Compose(t, m)) \/ Look(t) \/ Touch(t)
  PROVE  TypeOK'
<1>1. ASSUME NEW m \in Message, Compose(t, m)
      PROVE  TypeOK'
  <2>1. Post(t, m, 0) \in Send
    BY DEF Post, Send, TypeOK
  <2>2. author' \in [Message -> Accounts \cup {NoAccount}] /\ carried' \subseteq Message
    BY <1>1 DEF Compose, TypeOK
  <2> QED
    BY <1>1, <2>1, <2>2, Stored, MarkedBoxes DEF Compose, TypeOK, account, socket, screen, meter
<1>2. CASE Look(t) \/ Touch(t)
  <2>1. saved' \in Outbox /\ overwritten' \subseteq Message
    BY <1>2 DEF Look, Touch, Saving, In, TypeOK
  <2>2. viewing' \in [Tabs -> BOOLEAN] /\ counted' \in [Tabs -> SUBSET Message] /\ list' = list
    BY <1>2 DEF Look, Touch, screen, TypeOK
  <2> QED
    BY <1>2, <2>1, <2>2 DEF Look, Touch, TypeOK, server, account, network, socket, meter
<1> QED
  BY <1>1, <1>2

LEMMA TurnType ==
  ASSUME TypeOK, Turn
  PROVE  turns' \in 0 .. session'.turns /\ faults' \in 0 .. session'.faults /\ session' \in Sessions
  BY SessionType DEF Turn, TypeOK

\* A page that is loaded again.
LEMMA LoadedType ==
  ASSUME TypeOK, NEW t \in Tabs, Loaded(t)
  PROVE  /\ outbox' \in [Tabs -> Outbox]
         /\ sends' \subseteq Send /\ loops' \subseteq Loop /\ digests' \subseteq Digest
         /\ open' \in [Tabs -> BOOLEAN] /\ opens' \in Nat
         /\ viewing' \in [Tabs -> BOOLEAN]
         /\ list' \in [Tabs -> SUBSET Message] /\ counted' \in [Tabs -> SUBSET Message]
         /\ asked' \in [Tabs -> Accounts \cup {NoAccount}]
<1>1. \A x \in sends : [x EXCEPT !.tab = "gone"] \in Send
  BY DEF TypeOK, Send
<1>2. sends' \subseteq Send
  BY <1>1 DEF Loaded, TypeOK
<1> QED
  BY <1>2, ClosedType DEF Loaded, TypeOK

\* clearAuth, whatever it is called from.
LEMMA ClearedType ==
  ASSUME TypeOK, NEW t \in Tabs, ClearAuth(t)
  PROVE  /\ who' \in Accounts \cup {NoAccount} /\ renew' \in Accounts \cup {NoAccount}
         /\ shown' \in [Tabs -> Accounts \cup {NoAccount}]
         /\ outbox' \in [Tabs -> Outbox] /\ saved' \in Outbox
         /\ open' \in [Tabs -> BOOLEAN] /\ opens' \in Nat /\ digests' \subseteq Digest
         /\ viewing' \in [Tabs -> BOOLEAN]
         /\ list' \in [Tabs -> SUBSET Message] /\ counted' \in [Tabs -> SUBSET Message]
         /\ cleared' \subseteq Message /\ carried' \subseteq Message /\ overwritten' \subseteq Message
<1>1. cleared' \subseteq Message /\ carried' \subseteq Message
  BY DEF ClearAuth, TypeOK, In
<1>2. /\ list' \in [Tabs -> SUBSET Message] /\ counted' \in [Tabs -> SUBSET Message]
      /\ viewing' \in [Tabs -> BOOLEAN] /\ shown' \in [Tabs -> Accounts \cup {NoAccount}]
      /\ who' \in Accounts \cup {NoAccount} /\ renew' \in Accounts \cup {NoAccount}
  BY DEF ClearAuth, TypeOK
<1>3. SetOutbox(t, EmptyOutbox) /\ Closed(t)
  BY DEF ClearAuth
<1> QED
  BY <1>1, <1>2, <1>3, Stored, EmptyBox, ClosedType

LEMMA RenewingType ==
  ASSUME TypeOK, NEW t \in Tabs, Renewing(t)
  PROVE  TypeOK'
<1>1. /\ UNCHANGED <<server, loops, opens, turns, session>>
      /\ faults' \in 0 .. session.faults
      /\ asked' \in [Tabs -> Accounts \cup {NoAccount}]
      /\ sends' \subseteq Send
  BY Renewed, RenewedSends
<1>2. CASE ClearAuth(t)
  BY <1>1, <1>2, ClearedType DEF TypeOK, server
<1>3. CASE ~ClearAuth(t)
  <2>1. /\ UNCHANGED <<shown, entries, digests, socket, screen, cleared, overwritten>>
        /\ who' \in Accounts \cup {NoAccount} /\ renew' \in Accounts \cup {NoAccount}
        /\ carried' \subseteq Message
    BY <1>3, Renewed
  <2> QED
    BY <1>1, <2>1 DEF TypeOK, server, entries, socket, screen
<1> QED
  BY <1>2, <1>3

\* Signing in and out.
LEMMA SignType ==
  ASSUME TypeOK, NEW t \in Tabs,
         SignOut(t) \/ SessionEnds(t) \/ Evicted(t) \/ Reload(t) \/ \E a \in Accounts : SignIn(t, a)
  PROVE  TypeOK'
<1>1. CASE SignOut(t) \/ SessionEnds(t)
  <2>1. ClearAuth(t) /\ UNCHANGED <<server, asked, sends, loops, meter>>
    BY <1>1 DEF SignOut, SessionEnds
  <2> QED
    BY <2>1, ClearedType DEF TypeOK, server, meter
<1>2. CASE Evicted(t)
  <2>1. /\ carried' \subseteq Message
        /\ who' \in Accounts \cup {NoAccount} /\ shown' \in [Tabs -> Accounts \cup {NoAccount}]
        /\ renew' \in Accounts \cup {NoAccount}
    BY <1>2 DEF Evicted, TypeOK, In
  <2>2. Loaded(t) /\ Turn
    BY <1>2 DEF Evicted
  <2> QED
    BY <1>2, <2>1, <2>2, LoadedType, TurnType DEF Evicted, TypeOK, server
<1>3. CASE Reload(t)
  <2>1. /\ shown' \in [Tabs -> Accounts \cup {NoAccount}] /\ Loaded(t) /\ Turn
        /\ who' \in Accounts \cup {NoAccount} /\ carried' = GivenTo(who')
    BY <1>3 DEF Reload, TypeOK
  <2>2. carried' \subseteq Message
    BY <2>1 DEF GivenTo, TypeOK, In
  <2> QED
    BY <1>3, <2>1, <2>2, LoadedType, TurnType DEF Reload, TypeOK, server
<1>4. ASSUME NEW a \in Accounts, SignIn(t, a)
      PROVE  TypeOK'
  <2>1. /\ carried' \subseteq Message /\ saved' \in Outbox /\ overwritten' \subseteq Message
    BY <1>4 DEF SignIn, Saving, TypeOK, In
  <2>2. /\ who' \in Accounts /\ renew' \in Accounts /\ shown' \in [Tabs -> Accounts \cup {NoAccount}]
        /\ viewing' \in [Tabs -> BOOLEAN] /\ Turn
    BY <1>4 DEF SignIn, TypeOK
  <2> QED
    BY <1>4, <2>1, <2>2, TurnType DEF SignIn, TypeOK, server, network, socket
<1> QED
  BY <1>1, <1>2, <1>3, <1>4

LEMMA NextType ==
  ASSUME TypeOK, [Next]_vars
  PROVE  TypeOK'
<1>1. CASE UNCHANGED vars
  BY <1>1 DEF TypeOK, vars, server, account, entries, network, socket, screen, ghosts, meter
<1>2. CASE Next
  BY <1>2, Steps, AnsweringType, HandlingType, RenewingType, SocketType, UserType, SignType
<1> QED
  BY <1>1, <1>2

\* The variables keep their types.
THEOREM TypeCorrect == Spec => []TypeOK
  BY InitType, NextType, PTL DEF Spec

-------------------------------------------------------------------------------
(* An entry that is being sent has somebody who sends it.  With TypeOK the  *)
(* property is inductive: a request or a loop goes only together with the   *)
(* entries it stood for, and a connection starts with a loop for all.       *)

\* Somebody sends the message m of tab t.
Sender(t, m) ==
  \/ \E x \in sends : x.tab = t /\ x.msg = m
  \/ \E l \in loops : l.tab = t /\ m \in l.rest

\* An entry that is being sent in t, with t connected.
Waiting(t, m) == open[t] /\ outbox[t][m] = "sending"

LEMMA OrphanShape == NoOrphan <=> \A t \in Tabs : \A m \in Message : Waiting(t, m) => Sender(t, m)
  BY DEF NoOrphan, Waiting, Sender

\* The senders are as before for all that is waiting now.
LEMMA OrphanKept ==
  ASSUME NoOrphan,
         \A t \in Tabs : \A m \in Message : Waiting(t, m)' => (Waiting(t, m) /\ (Sender(t, m) => Sender(t, m)')) \/ Sender(t, m)'
  PROVE  NoOrphan'
  BY OrphanShape DEF NoOrphan, Waiting, Sender

\* An answer or a loss changes a request, not whose it is.
LEMMA AnsweredSenders ==
  ASSUME TypeOK, NEW x \in sends, NEW a \in {"ok", "no", "401"}, UNCHANGED loops, sends' = Answer(x, a)
  PROVE  \A t \in Tabs : \A m \in Message : Sender(t, m) => Sender(t, m)'
<1>1. [x EXCEPT !.answer = a].tab = x.tab /\ [x EXCEPT !.answer = a].msg = x.msg
  BY DEF TypeOK, Send
<1> QED
  BY <1>1 DEF Sender, Answer

\* The request of x goes, and with it what the loop that waits for it waited for.
LEMMA ResumedSenders ==
  ASSUME TypeOK, NEW x \in sends, sends' = sends \ {x}, loops' = Resumed(x)
  PROVE  \A t \in Tabs : \A m \in Message :
            Sender(t, m) => Sender(t, m)' \/ (t = x.tab /\ m = x.msg)
<1>1. \A l \in loops : [l EXCEPT !.cur = 0].tab = l.tab /\ [l EXCEPT !.cur = 0].rest = l.rest
  BY DEF TypeOK, Loop
<1>2. \A l \in loops : \E k \in loops' : k.tab = l.tab /\ k.rest = l.rest
  BY <1>1 DEF Resumed
<1> QED
  BY <1>2 DEF Sender

LEMMA HandlingOrphan ==
  ASSUME TypeOK, NoOrphan, Handling
  PROVE  NoOrphan'
<1>1. ASSUME NEW x \in sends, SendOk(x) \/ SendFailed(x)
      PROVE  NoOrphan'
  <2>1. x.tab \in Tabs /\ x.msg \in Message /\ {x.msg} \in SUBSET Message /\ UNCHANGED open
    BY <1>1 DEF SendOk, SendFailed, TypeOK, Send, socket
  <2>2. \A t \in Tabs : \A m \in Message :
           Sender(t, m) => Sender(t, m)' \/ (t = x.tab /\ m = x.msg)
    BY <1>1, ResumedSenders DEF SendOk, SendFailed
  <2>3. \A t \in Tabs : \A m \in Message :
           Waiting(t, m)' => Waiting(t, m) /\ ~(t = x.tab /\ m = x.msg)
    <3>1. CASE SendOk(x)
      <4> DEFINE box == [m \in Message |-> IF m \in {x.msg} THEN "none" ELSE outbox[x.tab][m]]
      <4>1. SetOutbox(x.tab, box) /\ box \in Outbox
        BY <2>1, <3>1, MarkedBoxes DEF SendOk, MarkSent
      <4>2. outbox'[x.tab] = box /\ \A u \in Tabs \ {x.tab} : outbox'[u] = outbox[u]
        BY <2>1, <4>1, Stored
      <4> QED
        BY <2>1, <4>2, MarkedSending DEF Waiting
    <3>2. CASE SendFailed(x)
      <4> DEFINE box == [outbox[x.tab] EXCEPT ![x.msg] = IF @ = "none" THEN "none" ELSE "failed"]
      <4>1. SetOutbox(x.tab, box) /\ box \in Outbox
        BY <2>1, <3>2, MarkedBoxes DEF SendFailed, MarkFailed
      <4>2. outbox'[x.tab] = box /\ \A u \in Tabs \ {x.tab} : outbox'[u] = outbox[u]
        BY <2>1, <4>1, Stored
      <4>3. \A n \in Message : box[n] = "sending" => n # x.msg /\ outbox[x.tab][n] = "sending"
        BY <2>1, MarkedSending
      <4> HIDE DEF box
      <4> QED
        BY <2>1, <4>2, <4>3 DEF Waiting
    <3> QED
      BY <1>1, <3>1, <3>2
  <2> QED
    BY <2>2, <2>3, OrphanKept
<1>2. ASSUME NEW l \in loops, FlushNext(l)
      PROVE  NoOrphan'
  <2>1. l \in Loop /\ l.tab \in Tabs /\ UNCHANGED open /\ outbox[l.tab] \in [Message -> Status]
    BY <1>2 DEF TypeOK, Loop, FlushNext, socket, Outbox
  <2> DEFINE left == l.rest \cap In(outbox[l.tab])
  <2>2. CASE left = {} /\ loops' = loops \ {l} /\ UNCHANGED <<sends, entries, overwritten>>
    <3>1. \A m \in Message : m \in l.rest => outbox[l.tab][m] # "sending"
      BY <2>2 DEF In
    <3>2. \A t \in Tabs : \A m \in Message :
             Sender(t, m) => Sender(t, m)' \/ (t = l.tab /\ m \in l.rest)
      BY <2>2 DEF Sender
    <3>3. \A t \in Tabs : \A m \in Message : Waiting(t, m)' => Waiting(t, m)
      BY <2>1, <2>2 DEF Waiting, entries
    <3> QED
      BY <3>1, <3>2, <3>3, OrphanKept DEF Waiting
  <2>3. ASSUME NEW m \in left, RetryOutboxEntry(l, m),
               loops' = (loops \ {l}) \cup {[l EXCEPT !.cur = m, !.rest = left \ {m}]}
        PROVE  NoOrphan'
    <3>1. m \in Message /\ left \subseteq Message
      BY <2>1 DEF Loop
    <3>2. Sender(l.tab, m)'
      BY <2>3, Posted DEF RetryOutboxEntry, Sender
    <3>3. [l EXCEPT !.cur = m, !.rest = left \ {m}].tab = l.tab
          /\ [l EXCEPT !.cur = m, !.rest = left \ {m}].rest = left \ {m}
      BY <2>1 DEF Loop
    <3>4. \A t \in Tabs : \A n \in Message :
             Sender(t, n) => Sender(t, n)' \/ (t = l.tab /\ (n = m \/ outbox[l.tab][n] = "none"))
      BY <2>3, <3>3 DEF RetryOutboxEntry, Sender, In
    <3>5. \A t \in Tabs : \A n \in Message :
             Waiting(t, n)' => Waiting(t, n) \/ (t = l.tab /\ n = m)
      <4> DEFINE box == [outbox[l.tab] EXCEPT ![m] = "sending"]
      <4>1. SetOutbox(l.tab, box) /\ box \in Outbox
        BY <2>1, <2>3, <3>1, MarkedBoxes DEF RetryOutboxEntry
      <4>2. outbox'[l.tab] = box /\ \A u \in Tabs \ {l.tab} : outbox'[u] = outbox[u]
        BY <2>1, <4>1, Stored
      <4> QED
        BY <2>1, <3>1, <4>2, MarkedSending DEF Waiting
    <3> QED
      BY <3>2, <3>4, <3>5, OrphanKept DEF Waiting
  <2> QED
    BY <1>2, <2>2, <2>3 DEF FlushNext
<1>3. ASSUME NEW d \in digests, AckArrives(d)
      PROVE  NoOrphan'
  <2>1. /\ d.tab \in Tabs /\ d.of \cap In(outbox[d.tab]) \in SUBSET Message
        /\ UNCHANGED <<open, sends, loops>>
    BY <1>3 DEF TypeOK, Digest, AckArrives, socket
  <2>2. \A t \in Tabs : \A m \in Message : Waiting(t, m)' => Waiting(t, m)
    <3> DEFINE ms == d.of \cap In(outbox[d.tab])
    <3> DEFINE box == [m \in Message |-> IF m \in ms THEN "none" ELSE outbox[d.tab][m]]
    <3>1. SetOutbox(d.tab, box) /\ box \in Outbox
      BY <1>3, <2>1, MarkedBoxes DEF AckArrives, MarkSent
    <3>2. outbox'[d.tab] = box /\ \A u \in Tabs \ {d.tab} : outbox'[u] = outbox[u]
      BY <2>1, <3>1, Stored
    <3>3. \A n \in Message : box[n] = "sending" => outbox[d.tab][n] = "sending"
      BY <2>1, MarkedSending
    <3> HIDE DEF box, ms
    <3> QED
      BY <2>1, <3>2, <3>3 DEF Waiting
  <2> QED
    BY <2>1, <2>2, OrphanKept DEF Sender
<1>4. ASSUME NEW d \in digests, AckIgnored(d)
      PROVE  NoOrphan'
  BY <1>4 DEF AckIgnored, NoOrphan, entries, socket
<1> QED
  BY <1>1, <1>2, <1>3, <1>4 DEF Handling

LEMMA AnsweringOrphan ==
  ASSUME TypeOK, NoOrphan, Answering
  PROVE  NoOrphan'
<1>1. ASSUME NEW x \in sends, ServeSend(x) \/ LoseSend(x) \/ Expired(x)
      PROVE  NoOrphan'
  <2>1. \A t \in Tabs : \A m \in Message : Sender(t, m) => Sender(t, m)'
    BY <1>1, AnsweredSenders DEF ServeSend, LoseSend, Expired
  <2> QED
    BY <1>1, <2>1, OrphanKept DEF ServeSend, LoseSend, Expired, Waiting, entries, socket
<1>2. ASSUME NEW d \in digests, ServeDigest(d)
      PROVE  NoOrphan'
  BY <1>2 DEF ServeDigest, NoOrphan, entries, socket
<1> QED
  BY <1>1, <1>2 DEF Answering

\* A sign-out leaves its tab with nothing to send and no connection.
LEMMA ClearedWaiting ==
  ASSUME TypeOK, NEW t \in Tabs, ClearAuth(t)
  PROVE  \A u \in Tabs : \A m \in Message : Waiting(u, m)' => Waiting(u, m)
<1>1. SetOutbox(t, EmptyOutbox) /\ Closed(t)
  BY DEF ClearAuth
<1> QED
  BY <1>1, Stored, EmptyBox DEF Closed, Waiting, TypeOK

LEMMA RenewingOrphan ==
  ASSUME TypeOK, NoOrphan, NEW t \in Tabs, Renewing(t)
  PROVE  NoOrphan'
<1>1. \A u \in Tabs : \A m \in Message : Sender(u, m) => Sender(u, m)'
  BY Renewed, RenewedSends DEF Sender
<1>2. \A u \in Tabs : \A m \in Message : Waiting(u, m)' => Waiting(u, m)
  <2>1. CASE ClearAuth(t)
    BY <2>1, ClearedWaiting
  <2>2. CASE ~ClearAuth(t)
    BY <2>2, Renewed DEF Waiting, entries, socket
  <2> QED
    BY <2>1, <2>2
<1> QED
  BY <1>1, <1>2, OrphanKept

LEMMA SocketOrphan ==
  ASSUME TypeOK, NoOrphan, NEW t \in Tabs, Open(t) \/ Close(t)
  PROVE  NoOrphan'
<1>1. CASE Open(t)
  <2>1. \A m \in Message : outbox[t][m] = "sending" => Sender(t, m)'
    <3>1. CASE ToFlush(t) = {}
      BY <3>1 DEF ToFlush
    <3>2. CASE ToFlush(t) # {}
      <4> DEFINE l == [tab |-> t, id |-> opens + 1, rest |-> ToFlush(t), cur |-> 0]
      <4>1. l \in loops' /\ l.tab = t /\ l.rest = ToFlush(t)
        BY <1>1, <3>2 DEF Open
      <4> QED
        BY <4>1 DEF ToFlush, Sender
    <3> QED
      BY <3>1, <3>2
  <2>2. \A u \in Tabs : \A m \in Message : Sender(u, m) => Sender(u, m)'
    BY <1>1 DEF Open, Sender
  <2>3. \A u \in Tabs : \A m \in Message : Waiting(u, m)' => Waiting(u, m) \/ u = t
    BY <1>1 DEF Open, Waiting, entries, TypeOK
  <2>4. \A m \in Message : Waiting(t, m)' => outbox[t][m] = "sending"
    BY <1>1 DEF Open, Waiting, entries
  <2> QED
    BY <2>1, <2>2, <2>3, <2>4, OrphanKept
<1>2. CASE Close(t)
  BY <1>2 DEF Close, Closed, NoOrphan, entries, TypeOK
<1> QED
  BY <1>1, <1>2

LEMMA UserOrphan ==
  ASSUME TypeOK, NoOrphan, NEW t \in Tabs,
         (\E m \in Message : Compose(t, m)) \/ Look(t) \/ Touch(t)
  PROVE  NoOrphan'
<1>1. ASSUME NEW m \in Message, Compose(t, m)
      PROVE  NoOrphan'
  <2>1. Sender(t, m)'
    BY <1>1, Posted DEF Compose, Sender
  <2>2. \A u \in Tabs : \A n \in Message : Sender(u, n) => Sender(u, n)'
    BY <1>1 DEF Compose, Sender
  <2>4. \A u \in Tabs : \A n \in Message : Waiting(u, n)' => Waiting(u, n) \/ (u = t /\ n = m)
    <3> DEFINE box == [outbox[t] EXCEPT ![m] = "sending"]
    <3>1. SetOutbox(t, box) /\ box \in Outbox /\ UNCHANGED open
      BY <1>1, MarkedBoxes DEF Compose, socket
    <3>2. outbox'[t] = box /\ \A u \in Tabs \ {t} : outbox'[u] = outbox[u]
      BY <3>1, Stored
    <3>3. \A n \in Message : box[n] = "sending" => n = m \/ outbox[t][n] = "sending"
      BY MarkedSending
    <3> HIDE DEF box
    <3> QED
      BY <3>1, <3>2, <3>3 DEF Waiting
  <2> QED
    BY <2>1, <2>2, <2>4, OrphanKept
<1>2. CASE Look(t) \/ Touch(t)
  BY <1>2 DEF Look, Touch, NoOrphan, network, socket
<1> QED
  BY <1>1, <1>2

LEMMA SignOrphan ==
  ASSUME TypeOK, NoOrphan, NEW t \in Tabs,
         SignOut(t) \/ SessionEnds(t) \/ Evicted(t) \/ Reload(t) \/ \E a \in Accounts : SignIn(t, a)
  PROVE  NoOrphan'
<1>1. CASE SignOut(t) \/ SessionEnds(t)
  <2>1. ClearAuth(t) /\ UNCHANGED <<sends, loops>>
    BY <1>1 DEF SignOut, SessionEnds
  <2> QED
    BY <2>1, ClearedWaiting, OrphanKept DEF Sender
<1>2. CASE Evicted(t) \/ Reload(t)
  <2>1. Loaded(t)
    BY <1>2 DEF Evicted, Reload
  <2>2. \A u \in Tabs : \A m \in Message : Waiting(u, m)' => Waiting(u, m) /\ u # t
    BY <2>1 DEF Loaded, Closed, Waiting, TypeOK
  <2>3. \A u \in Tabs \ {t} : \A m \in Message : Sender(u, m) => Sender(u, m)'
    BY <2>1 DEF Loaded, Sender
  <2> QED
    BY <2>2, <2>3, OrphanKept
<1>3. ASSUME NEW a \in Accounts, SignIn(t, a)
      PROVE  NoOrphan'
  BY <1>3 DEF SignIn, NoOrphan, network, socket
<1> QED
  BY <1>1, <1>2, <1>3

LEMMA NextOrphan ==
  ASSUME TypeOK, NoOrphan, [Next]_vars
  PROVE  NoOrphan'
<1>1. CASE UNCHANGED vars
  BY <1>1 DEF NoOrphan, vars, entries, network, socket
<1>2. CASE Next
  BY <1>2, Steps, AnsweringOrphan, HandlingOrphan, RenewingOrphan, SocketOrphan, UserOrphan,
     SignOrphan
<1> QED
  BY <1>1, <1>2

\* While the socket is connected, an entry that is being sent has a request under
\* way or a flush that will come to it: a reload or a lost request never leaves
\* it to wait for nothing.
THEOREM NoOrphanHolds == Spec => []NoOrphan
<1>1. Init => NoOrphan
  BY DEF Init, NoOrphan
<1>2. TypeOK /\ NoOrphan /\ [Next]_vars => NoOrphan'
  BY NextOrphan
<1> QED
  BY <1>1, <1>2, TypeCorrect, PTL DEF Spec

-------------------------------------------------------------------------------
(* Nothing is lost.  An entry leaves an outbox because the server has it,   *)
(* because of a sign-out, or because the page was loaded again from a       *)
(* storage without it; so the invariant has to say what the answers on      *)
(* their way mean, and what of an outbox the storage may lack.              *)

\* Whoever hears that the server has a message hears the truth.
AnswersTrue ==
  /\ \A x \in sends : x.answer = "ok" => x.msg \in Committed
  /\ \A d \in digests : d.acked => d.of \subseteq Committed

\* The storage has every entry, but for those another tab wrote out of it.
StorageCovers == \A t \in Tabs : In(outbox[t]) \subseteq In(saved) \cup overwritten

LostInv == AnswersTrue /\ StorageCovers /\ NothingLost

\* A tab writes its outbox: what it drops is on the server or signed out.
LEMMA BoxKeeps ==
  ASSUME TypeOK, StorageCovers, NothingLost, NEW t \in Tabs, NEW box \in Outbox, SetOutbox(t, box),
         In(outbox[t]) \subseteq In(box) \cup Committed' \cup cleared',
         Committed \subseteq Committed', cleared \subseteq cleared', Written' \subseteq Written \cup In(box)
  PROVE  StorageCovers' /\ NothingLost'
<1>1. /\ outbox'[t] = box /\ saved' = box
      /\ \A u \in Tabs \ {t} : outbox'[u] = outbox[u]
  BY Stored
<1>2. /\ overwritten \subseteq overwritten'
      /\ \A u \in Tabs \ {t} : In(outbox[u]) \cap (In(saved) \ In(box)) \subseteq overwritten'
  BY DEF SetOutbox, Saving, In
<1>3. StorageCovers'
  BY <1>1, <1>2 DEF StorageCovers, In
<1>4. NothingLost'
  BY <1>1, <1>2 DEF NothingLost, Written, In
<1> QED
  BY <1>3, <1>4

\* The outboxes and the storage stay, or are only written again.
LEMMA EntriesKeep ==
  ASSUME StorageCovers, NothingLost, UNCHANGED <<outbox, saved, author, cleared, overwritten>>,
         Committed \subseteq Committed'
  PROVE  StorageCovers' /\ NothingLost'
  BY DEF StorageCovers, NothingLost, In, Written

LEMMA SavingKeeps ==
  ASSUME TypeOK, StorageCovers, NothingLost, NEW t \in Tabs, Saving(t, outbox[t]),
         UNCHANGED <<outbox, author, cleared, committed>>
  PROVE  StorageCovers' /\ NothingLost'
<1>1. SetOutbox(t, outbox[t]) /\ outbox[t] \in Outbox
  BY DEF SetOutbox, TypeOK
<1>2. Committed' = Committed /\ Written' = Written
  BY DEF Committed, Written
<1> QED
  BY <1>1, <1>2, BoxKeeps

LEMMA LoadedKeeps ==
  ASSUME TypeOK, StorageCovers, NothingLost, NEW t \in Tabs, Loaded(t),
         UNCHANGED <<saved, author, cleared, overwritten, committed>>
  PROVE  StorageCovers' /\ NothingLost'
<1>1. /\ outbox'[t] = saved
      /\ \A u \in Tabs \ {t} : outbox'[u] = outbox[u]
  BY DEF Loaded, TypeOK
<1>2. Committed' = Committed
  BY DEF Committed
<1>3. StorageCovers'
  BY <1>1 DEF StorageCovers, In
<1>4. NothingLost'
  BY <1>1, <1>2 DEF StorageCovers, NothingLost, Written, In
<1> QED
  BY <1>3, <1>4

LEMMA AnsweringLost ==
  ASSUME TypeOK, LostInv, Answering
  PROVE  LostInv'
<1>1. ASSUME NEW x \in sends, ServeSend(x)
      PROVE  LostInv'
  <2>1. Committed \subseteq Committed' /\ (x.as # NoAccount => x.msg \in Committed')
    <3>1. committed \subseteq committed'
      BY <1>1 DEF ServeSend
    <3>2. x.as # NoAccount => [msg |-> x.msg, as |-> x.as] \in committed'
      BY <1>1 DEF ServeSend
    <3> QED
      BY <3>1, <3>2 DEF Committed
  <2>2. /\ [x EXCEPT !.answer = "ok"].msg = x.msg
        /\ [x EXCEPT !.answer = "401"].answer = "401"
    BY DEF TypeOK, Send
  <2>3. AnswersTrue'
    BY <1>1, <2>1, <2>2 DEF ServeSend, Answer, LostInv, AnswersTrue
  <2> QED
    BY <1>1, <2>1, <2>3, EntriesKeep DEF ServeSend, LostInv, entries, ghosts
<1>2. ASSUME NEW d \in digests, ServeDigest(d)
      PROVE  LostInv'
  <2> DEFINE known == {m \in d.of : [msg |-> m, as |-> shown[d.tab]] \in committed}
  <2>1. Committed' = Committed
    BY <1>2 DEF ServeDigest, Committed, server
  <2>2. [d EXCEPT !.acked = TRUE, !.of = known].of = known
    BY DEF TypeOK, Digest
  <2>3. known \subseteq Committed
    BY DEF Committed
  <2>4. AnswersTrue'
    BY <1>2, <2>1, <2>2, <2>3 DEF ServeDigest, LostInv, AnswersTrue
  <2> QED
    BY <1>2, <2>1, <2>4, EntriesKeep DEF ServeDigest, LostInv, server, entries, ghosts
<1>3. ASSUME NEW x \in sends, LoseSend(x) \/ Expired(x)
      PROVE  LostInv'
  <2>1. Committed' = Committed
    BY <1>3 DEF LoseSend, Expired, Committed, server
  <2>2. \A a \in {"no", "401"} : [x EXCEPT !.answer = a].answer = a
    BY DEF TypeOK, Send
  <2>3. AnswersTrue'
    BY <1>3, <2>1, <2>2 DEF LoseSend, Expired, Answer, LostInv, AnswersTrue
  <2> QED
    BY <1>3, <2>1, <2>3, EntriesKeep DEF LoseSend, Expired, LostInv, server, entries, ghosts
<1> QED
  BY <1>1, <1>2, <1>3 DEF Answering

LEMMA HandlingLost ==
  ASSUME TypeOK, LostInv, Handling
  PROVE  LostInv'
<1>1. UNCHANGED <<committed, author, cleared>> /\ Committed' = Committed /\ Written' = Written
  BY DEF Handling, SendOk, SendFailed, FlushNext, AckArrives, AckIgnored, server, ghosts, Committed, Written
<1>2. ASSUME NEW x \in sends, SendOk(x) \/ SendFailed(x)
      PROVE  LostInv'
  <2>1. x.tab \in Tabs /\ x.msg \in Message /\ {x.msg} \in SUBSET Message
    BY <1>2 DEF SendOk, SendFailed, TypeOK, Send
  <2>2. AnswersTrue'
    BY <1>1, <1>2 DEF SendOk, SendFailed, LostInv, AnswersTrue
  <2>3. CASE SendOk(x)
    <3> DEFINE box == [m \in Message |-> IF m \in {x.msg} THEN "none" ELSE outbox[x.tab][m]]
    <3>1. SetOutbox(x.tab, box) /\ box \in Outbox /\ In(box) = In(outbox[x.tab]) \ {x.msg}
      BY <2>1, <2>3, MarkedBoxes DEF SendOk, MarkSent
    <3>2. x.msg \in Committed
      BY <2>3 DEF SendOk, LostInv, AnswersTrue
    <3> HIDE DEF box
    <3> QED
      BY <1>1, <2>1, <2>2, <3>1, <3>2, BoxKeeps DEF LostInv
  <2>4. CASE SendFailed(x)
    <3> DEFINE box == [outbox[x.tab] EXCEPT ![x.msg] = IF @ = "none" THEN "none" ELSE "failed"]
    <3>1. SetOutbox(x.tab, box) /\ box \in Outbox /\ In(box) = In(outbox[x.tab])
      BY <2>1, <2>4, MarkedBoxes DEF SendFailed, MarkFailed
    <3> HIDE DEF box
    <3> QED
      BY <1>1, <2>1, <2>2, <3>1, BoxKeeps DEF LostInv
  <2> QED
    BY <1>2, <2>3, <2>4
<1>3. ASSUME NEW l \in loops, FlushNext(l)
      PROVE  LostInv'
  <2>1. l \in Loop /\ l.tab \in Tabs
    BY DEF TypeOK, Loop
  <2> DEFINE left == l.rest \cap In(outbox[l.tab])
  <2>2. CASE UNCHANGED <<sends, entries, overwritten>>
    BY <1>1, <1>3, <2>2, EntriesKeep DEF FlushNext, LostInv, AnswersTrue, entries
  <2>3. ASSUME NEW m \in left, RetryOutboxEntry(l, m)
        PROVE  LostInv'
    <3> DEFINE box == [outbox[l.tab] EXCEPT ![m] = "sending"]
    <3>1. m \in Message
      BY <2>1 DEF Loop
    <3>2. SetOutbox(l.tab, box) /\ box \in Outbox /\ In(box) = In(outbox[l.tab]) \cup {m}
      BY <2>1, <2>3, <3>1, MarkedBoxes DEF RetryOutboxEntry
    <3>3. AnswersTrue'
      <4>1. UNCHANGED digests /\ sends' = sends \cup {Post(l.tab, m, l.id)}
        BY <1>3, <2>3 DEF FlushNext, RetryOutboxEntry
      <4>2. Post(l.tab, m, l.id).answer # "ok"
        BY Posted
      <4> QED
        BY <1>1, <4>1, <4>2 DEF LostInv, AnswersTrue
    <3> HIDE DEF box
    <3> QED
      BY <1>1, <2>1, <3>2, <3>3, BoxKeeps DEF LostInv
  <2> QED
    BY <1>3, <2>2, <2>3 DEF FlushNext
<1>4. ASSUME NEW d \in digests, AckArrives(d)
      PROVE  LostInv'
  <2> DEFINE ms == d.of \cap In(outbox[d.tab])
  <2> DEFINE box == [m \in Message |-> IF m \in ms THEN "none" ELSE outbox[d.tab][m]]
  <2>1. d.tab \in Tabs /\ ms \in SUBSET Message /\ ms \subseteq Committed
    BY <1>4 DEF AckArrives, LostInv, AnswersTrue, TypeOK, Digest
  <2>2. SetOutbox(d.tab, box) /\ box \in Outbox /\ In(box) = In(outbox[d.tab]) \ ms
    BY <1>4, <2>1, MarkedBoxes DEF AckArrives, MarkSent
  <2>3. AnswersTrue'
    BY <1>1, <1>4 DEF AckArrives, LostInv, AnswersTrue
  <2> HIDE DEF ms, box
  <2> QED
    BY <1>1, <2>1, <2>2, <2>3, BoxKeeps DEF LostInv
<1>5. ASSUME NEW d \in digests, AckIgnored(d)
      PROVE  LostInv'
  BY <1>1, <1>5, EntriesKeep DEF AckIgnored, LostInv, AnswersTrue, entries, ghosts
<1> QED
  BY <1>2, <1>3, <1>4, <1>5 DEF Handling

\* clearAuth drops what it puts down as cleared.
LEMMA ClearedLost ==
  ASSUME TypeOK, LostInv, NEW t \in Tabs, ClearAuth(t), UNCHANGED <<committed, author>>,
         \A y \in sends' \ sends : y.answer # "ok"
  PROVE  LostInv'
<1>1. Committed' = Committed /\ Written' = Written
  BY DEF Committed, Written
<1>2. SetOutbox(t, EmptyOutbox) /\ Closed(t) /\ cleared' = cleared \cup In(outbox[t])
  BY DEF ClearAuth
<1>3. AnswersTrue'
  BY <1>1, <1>2 DEF Closed, LostInv, AnswersTrue
<1> QED
  BY <1>1, <1>2, <1>3, EmptyBox, BoxKeeps DEF LostInv

LEMMA RenewingLost ==
  ASSUME TypeOK, LostInv, NEW t \in Tabs, Renewing(t)
  PROVE  LostInv'
<1>1. UNCHANGED <<committed, author>> /\ \A y \in sends' \ sends : y.answer # "ok"
  BY Renewed, RenewedSends DEF server
<1>2. CASE ClearAuth(t)
  BY <1>1, <1>2, ClearedLost
<1>3. CASE ~ClearAuth(t)
  <2>1. UNCHANGED <<entries, digests, cleared, overwritten>> /\ Committed' = Committed
    BY <1>1, <1>3, Renewed DEF Committed
  <2> QED
    BY <1>1, <2>1, EntriesKeep DEF LostInv, AnswersTrue, entries
<1> QED
  BY <1>2, <1>3

LEMMA TabLost ==
  ASSUME TypeOK, LostInv, NEW t \in Tabs,
         Open(t) \/ Close(t) \/ (\E m \in Message : Compose(t, m)) \/ Look(t) \/ Touch(t)
  PROVE  LostInv'
<1>1. CASE Open(t)
  <2>1. Committed' = Committed
    BY <1>1 DEF Open, server, Committed
  <2>2. AnswersTrue'
    BY <1>1, <2>1 DEF Open, LostInv, AnswersTrue
  <2> QED
    BY <1>1, <2>1, <2>2, EntriesKeep DEF Open, LostInv, server, entries, ghosts
<1>2. CASE Close(t)
  <2>1. Committed' = Committed
    BY <1>2 DEF Close, server, Committed
  <2>2. AnswersTrue'
    BY <1>2, <2>1 DEF Close, Closed, LostInv, AnswersTrue
  <2> QED
    BY <1>2, <2>1, <2>2, EntriesKeep DEF Close, LostInv, server, entries, ghosts
<1>3. ASSUME NEW m \in Message, Compose(t, m)
      PROVE  LostInv'
  <2> DEFINE box == [outbox[t] EXCEPT ![m] = "sending"]
  <2>1. SetOutbox(t, box) /\ box \in Outbox /\ In(box) = In(outbox[t]) \cup {m}
    BY <1>3, MarkedBoxes DEF Compose
  <2>2. Committed' = Committed /\ cleared' = cleared /\ Written' \subseteq Written \cup {m}
    BY <1>3 DEF Compose, Committed, Written, TypeOK
  <2>3. AnswersTrue'
    BY <1>3, <2>2, Posted DEF Compose, LostInv, AnswersTrue
  <2> HIDE DEF box
  <2> QED
    BY <2>1, <2>2, <2>3, BoxKeeps DEF LostInv
<1>4. CASE Look(t) \/ Touch(t)
  <2>1. Saving(t, outbox[t]) /\ UNCHANGED <<outbox, author, cleared, committed, sends, digests>>
    BY <1>4 DEF Look, Touch, server, network
  <2> QED
    BY <2>1, SavingKeeps DEF LostInv, AnswersTrue, Committed
<1> QED
  BY <1>1, <1>2, <1>3, <1>4

LEMMA SignLost ==
  ASSUME TypeOK, LostInv, NEW t \in Tabs,
         SignOut(t) \/ SessionEnds(t) \/ Evicted(t) \/ Reload(t) \/ \E a \in Accounts : SignIn(t, a)
  PROVE  LostInv'
<1>1. UNCHANGED <<committed, author>> /\ Committed' = Committed /\ Written' = Written
  BY DEF SignOut, SessionEnds, Evicted, Reload, SignIn, server, Committed, Written
<1>2. CASE SignOut(t) \/ SessionEnds(t)
  <2>1. ClearAuth(t) /\ UNCHANGED sends
    BY <1>2 DEF SignOut, SessionEnds
  <2> QED
    BY <1>1, <2>1, ClearedLost
<1>3. CASE Evicted(t) \/ Reload(t)
  <2>1. Loaded(t) /\ UNCHANGED <<saved, cleared, overwritten>>
    BY <1>3 DEF Evicted, Reload, ghosts
  <2>2. \A x \in sends : /\ [x EXCEPT !.tab = "gone"].answer = x.answer
                         /\ [x EXCEPT !.tab = "gone"].msg = x.msg
    BY DEF TypeOK, Send
  <2>3. AnswersTrue'
    <3>1. digests' \subseteq digests
      BY <2>1 DEF Loaded, Closed
    <3>2. sends' = {IF x.tab = t THEN [x EXCEPT !.tab = "gone"] ELSE x : x \in sends}
      BY <2>1 DEF Loaded
    <3>3. \A y \in sends' : \E x \in sends : y.answer = x.answer /\ y.msg = x.msg
      BY <2>2, <3>2
    <3> QED
      BY <1>1, <3>1, <3>3 DEF LostInv, AnswersTrue
  <2> QED
    BY <1>1, <2>1, <2>3, LoadedKeeps DEF LostInv
<1>4. ASSUME NEW a \in Accounts, SignIn(t, a)
      PROVE  LostInv'
  <2>1. Saving(t, outbox[t]) /\ UNCHANGED <<outbox, cleared, sends, digests>>
    BY <1>4 DEF SignIn, network
  <2> QED
    BY <1>1, <2>1, SavingKeeps DEF LostInv, AnswersTrue
<1> QED
  BY <1>2, <1>3, <1>4

LEMMA NextLost ==
  ASSUME TypeOK, LostInv, [Next]_vars
  PROVE  LostInv'
<1>1. CASE UNCHANGED vars
  BY <1>1, EntriesKeep
  DEF LostInv, AnswersTrue, Committed, vars, server, entries, network, ghosts
<1>2. CASE Next
  BY <1>2, Steps, AnsweringLost, HandlingLost, RenewingLost, TabLost, SignLost
<1> QED
  BY <1>1, <1>2

\* A message that was written is on the server or in some tab's outbox, unless
\* its author signed out or another tab overwrote the storage before a reload:
\* retries, lost answers, digests and reloads drop nothing.
THEOREM NothingLostHolds == Spec => []NothingLost
<1>1. Init => LostInv
  BY DEF Init, LostInv, AnswersTrue, StorageCovers, NothingLost, EmptyOutbox, In, Written
<1>2. TypeOK /\ LostInv /\ [Next]_vars => LostInv'
  BY NextLost
<1>3. LostInv => NothingLost
  BY DEF LostInv
<1> QED
  BY <1>1, <1>2, <1>3, TypeCorrect, PTL DEF Spec

-------------------------------------------------------------------------------
(* Whose name a message is sent under.  A request takes the token of the    *)
(* storage, so every entry must be of the account that token is of; the     *)
(* entries that need not be are the carried ones.                           *)

Rightful(m) == m \in Written /\ (m \in carried \/ author[m] = who)

EntriesRightful ==
  /\ \A m \in In(saved) : Rightful(m)
  /\ \A t \in Tabs : \A m \in In(outbox[t]) :
       Rightful(m) /\ (shown[t] = NoAccount => m \in carried)

SendsRightful ==
  \A x \in sends :
    x.msg \in Written /\ (x.as = NoAccount \/ x.as = author[x.msg] \/ x.msg \in carried)

CommitsRightful ==
  \A c \in committed : c.msg \in Written /\ (c.as = author[c.msg] \/ c.msg \in carried)

AuthorInv == EntriesRightful /\ SendsRightful /\ CommitsRightful

\* Nobody is signed in under the name of NoAccount.
LEMMA WrittenByAccount ==
  ASSUME TypeOK, NEW m \in Written
  PROVE  author[m] \in Accounts /\ author[m] # NoAccount
  BY OutboxAssumption DEF TypeOK, Written

\* A tab writes its outbox and adds nothing; nobody signs in or out.
LEMMA BoxRightful ==
  ASSUME TypeOK, EntriesRightful, NEW t \in Tabs, NEW box \in Outbox, SetOutbox(t, box),
         In(box) \subseteq In(outbox[t]), UNCHANGED <<author, who, carried>>,
         \A u \in Tabs : shown'[u] = NoAccount => shown[u] = NoAccount
  PROVE  EntriesRightful'
<1>1. /\ outbox'[t] = box /\ saved' = box
      /\ \A u \in Tabs \ {t} : outbox'[u] = outbox[u]
  BY Stored
<1> QED
  BY <1>1 DEF EntriesRightful, Rightful, Written, In

LEMMA EntriesStayRightful ==
  ASSUME EntriesRightful, UNCHANGED <<outbox, saved, author, who, carried, shown>>
  PROVE  EntriesRightful'
  BY DEF EntriesRightful, Rightful, Written, In

\* What was sent stays right while messages keep their authors.
LEMMA SentStaysRightful ==
  ASSUME SendsRightful, CommitsRightful, carried \subseteq carried',
         \A m \in Written : author'[m] = author[m], Written \subseteq Written',
         committed' = committed,
         \A y \in sends' : \E x \in sends : y.msg = x.msg /\ y.as = x.as
  PROVE  SendsRightful' /\ CommitsRightful'
  BY DEF SendsRightful, CommitsRightful

LEMMA AnsweringRightful ==
  ASSUME TypeOK, AuthorInv, Answering
  PROVE  AuthorInv'
<1>1. UNCHANGED <<author, account, entries, ghosts>> /\ Written' = Written
  BY DEF Answering, ServeSend, ServeDigest, LoseSend, Expired, server, Written
<1>2. EntriesRightful'
  BY <1>1, EntriesStayRightful DEF AuthorInv, account, entries, ghosts
<1>3. ASSUME NEW x \in sends, ServeSend(x) \/ LoseSend(x) \/ Expired(x)
      PROVE  SendsRightful' /\ CommitsRightful'
  <2>1. \A a \in {"ok", "no", "401"} : /\ [x EXCEPT !.answer = a].msg = x.msg
                               /\ [x EXCEPT !.answer = a].as = x.as
    BY DEF TypeOK, Send
  <2>2. SendsRightful'
    BY <1>1, <1>3, <2>1
    DEF ServeSend, LoseSend, Expired, Answer, AuthorInv, SendsRightful, ghosts
  <2>3. \A c \in committed' \ committed : c.msg = x.msg /\ c.as = x.as /\ x.as # NoAccount
    BY <1>3 DEF ServeSend, LoseSend, Expired, server
  <2> QED
    BY <1>1, <2>2, <2>3 DEF AuthorInv, SendsRightful, CommitsRightful, ghosts
<1>4. ASSUME NEW d \in digests, ServeDigest(d)
      PROVE  SendsRightful' /\ CommitsRightful'
  BY <1>1, <1>4 DEF ServeDigest, AuthorInv, SendsRightful, CommitsRightful, server, ghosts
<1> QED
  BY <1>2, <1>3, <1>4 DEF Answering, AuthorInv

LEMMA HandlingRightful ==
  ASSUME TypeOK, AuthorInv, Handling
  PROVE  AuthorInv'
<1>1. UNCHANGED <<author, who, shown, carried, committed>> /\ Written' = Written
  BY DEF Handling, SendOk, SendFailed, FlushNext, AckArrives, AckIgnored, server, account, ghosts,
         Written
<1>2. ASSUME sends' \subseteq sends
      PROVE  SendsRightful' /\ CommitsRightful'
  BY <1>1, <1>2 DEF AuthorInv, SendsRightful, CommitsRightful
<1>3. ASSUME NEW x \in sends, SendOk(x) \/ SendFailed(x)
      PROVE  AuthorInv'
  <2>1. x.tab \in Tabs /\ x.msg \in Message /\ {x.msg} \in SUBSET Message /\ sends' \subseteq sends
    BY <1>3 DEF SendOk, SendFailed, TypeOK, Send
  <2>2. CASE SendOk(x)
    <3> DEFINE box == [m \in Message |-> IF m \in {x.msg} THEN "none" ELSE outbox[x.tab][m]]
    <3>1. SetOutbox(x.tab, box) /\ box \in Outbox /\ In(box) = In(outbox[x.tab]) \ {x.msg}
      BY <2>1, <2>2, MarkedBoxes DEF SendOk, MarkSent
    <3> HIDE DEF box
    <3> QED
      BY <1>1, <1>2, <2>1, <3>1, BoxRightful DEF AuthorInv
  <2>3. CASE SendFailed(x)
    <3> DEFINE box == [outbox[x.tab] EXCEPT ![x.msg] = IF @ = "none" THEN "none" ELSE "failed"]
    <3>1. SetOutbox(x.tab, box) /\ box \in Outbox /\ In(box) = In(outbox[x.tab])
      BY <2>1, <2>3, MarkedBoxes DEF SendFailed, MarkFailed
    <3> HIDE DEF box
    <3> QED
      BY <1>1, <1>2, <2>1, <3>1, BoxRightful DEF AuthorInv
  <2> QED
    BY <1>3, <2>2, <2>3
<1>4. ASSUME NEW l \in loops, FlushNext(l)
      PROVE  AuthorInv'
  <2>1. l \in Loop /\ l.tab \in Tabs
    BY DEF TypeOK, Loop
  <2> DEFINE left == l.rest \cap In(outbox[l.tab])
  <2>2. CASE UNCHANGED <<sends, entries, overwritten>>
    BY <1>1, <1>2, <2>2, EntriesStayRightful DEF AuthorInv, entries
  <2>3. ASSUME NEW m \in left, RetryOutboxEntry(l, m)
        PROVE  AuthorInv'
    <3> DEFINE box == [outbox[l.tab] EXCEPT ![m] = "sending"]
    <3>1. m \in Message /\ Rightful(m)
      BY <2>1 DEF Loop, AuthorInv, EntriesRightful
    <3>2. SetOutbox(l.tab, box) /\ box \in Outbox /\ In(box) = In(outbox[l.tab]) \cup {m}
      BY <2>1, <2>3, <3>1, MarkedBoxes DEF RetryOutboxEntry
    <3>3. SendsRightful'
      BY <1>1, <2>3, <3>1, Posted DEF RetryOutboxEntry, AuthorInv, SendsRightful, Rightful
    <3>4. CommitsRightful'
      BY <1>1 DEF AuthorInv, CommitsRightful
    <3> HIDE DEF box
    <3> QED
      BY <1>1, <2>1, <3>2, <3>3, <3>4, BoxRightful DEF AuthorInv
  <2> QED
    BY <1>4, <2>2, <2>3 DEF FlushNext
<1>5. ASSUME NEW d \in digests, AckArrives(d)
      PROVE  AuthorInv'
  <2> DEFINE ms == d.of \cap In(outbox[d.tab])
  <2> DEFINE box == [m \in Message |-> IF m \in ms THEN "none" ELSE outbox[d.tab][m]]
  <2>1. d.tab \in Tabs /\ ms \in SUBSET Message /\ sends' = sends
    BY <1>5 DEF AckArrives, TypeOK, Digest
  <2>2. SetOutbox(d.tab, box) /\ box \in Outbox /\ In(box) = In(outbox[d.tab]) \ ms
    BY <1>5, <2>1, MarkedBoxes DEF AckArrives, MarkSent
  <2> HIDE DEF ms, box
  <2> QED
    BY <1>1, <1>2, <2>1, <2>2, BoxRightful DEF AuthorInv
<1>6. ASSUME NEW d \in digests, AckIgnored(d)
      PROVE  AuthorInv'
  BY <1>1, <1>2, <1>6, EntriesStayRightful DEF AckIgnored, AuthorInv, entries
<1> QED
  BY <1>3, <1>4, <1>5, <1>6 DEF Handling

\* clearAuth leaves nothing in its tab, and the others only carried messages.
LEMMA ClearedRightful ==
  ASSUME TypeOK, EntriesRightful, NEW t \in Tabs, ClearAuth(t), author' = author
  PROVE  EntriesRightful'
<1>1. /\ outbox'[t] = EmptyOutbox /\ saved' = EmptyOutbox
      /\ \A u \in Tabs \ {t} : outbox'[u] = outbox[u] /\ In(outbox[u]) \subseteq carried'
  BY Stored, EmptyBox DEF ClearAuth
<1>2. Written' = Written
  BY DEF Written
<1> QED
  BY <1>1, <1>2, EmptyBox DEF EntriesRightful, Rightful, In

\* Whoever the token is of, what is not that account's is carried from then on.
LEMMA GivenRightful ==
  ASSUME TypeOK, EntriesRightful, UNCHANGED <<author, shown, entries>>, GivenTo(who') \subseteq carried'
  PROVE  EntriesRightful' /\ carried \subseteq carried'
<1>1. carried \subseteq carried' /\ Written' = Written
  BY DEF GivenTo, Written
<1>2. ASSUME NEW m, Rightful(m), m \in In(saved) \/ \E t \in Tabs : m \in In(outbox[t])
      PROVE  m \in Written' /\ (m \in carried' \/ author'[m] = who')
  BY <1>1, <1>2 DEF GivenTo, Rightful
<1> QED
  BY <1>1, <1>2 DEF EntriesRightful, Rightful, In, entries

LEMMA RenewingRightful ==
  ASSUME TypeOK, AuthorInv, NEW t \in Tabs, Renewing(t)
  PROVE  AuthorInv'
<1>1. UNCHANGED <<committed, author>> /\ Written' = Written
  BY Renewed DEF server, Written
<1>2. EntriesRightful' /\ carried \subseteq carried'
  <2>1. CASE ClearAuth(t)
    BY <1>1, <2>1, ClearedRightful DEF ClearAuth, AuthorInv
  <2>2. CASE ~ClearAuth(t)
    BY <1>1, <2>2, Renewed, GivenRightful DEF AuthorInv
  <2> QED
    BY <2>1, <2>2
<1>3. CommitsRightful'
  BY <1>1, <1>2 DEF AuthorInv, CommitsRightful
<1>4. ASSUME NEW y \in sends'
      PROVE  y.msg \in Written /\ (y.as = NoAccount \/ y.as = author[y.msg] \/ y.msg \in carried')
  <2>1. CASE y \in sends
    BY <1>2, <2>1 DEF AuthorInv, SendsRightful
  <2>2. CASE y \notin sends
    BY <1>2, <2>2, RenewedSends DEF AuthorInv, SendsRightful
  <2> QED
    BY <2>1, <2>2
<1>5. SendsRightful'
  BY <1>1, <1>4 DEF SendsRightful
<1> QED
  BY <1>2, <1>3, <1>5 DEF AuthorInv

LEMMA TabRightful ==
  ASSUME TypeOK, AuthorInv, NEW t \in Tabs,
         Open(t) \/ Close(t) \/ (\E m \in Message : Compose(t, m)) \/ Look(t) \/ Touch(t)
  PROVE  AuthorInv'
<1>1. CASE Open(t) \/ Close(t)
  <2>1. UNCHANGED <<server, account, entries, sends, ghosts>>
    BY <1>1 DEF Open, Close
  <2> QED
    BY <2>1, EntriesStayRightful
    DEF AuthorInv, SendsRightful, CommitsRightful, Written, server, account, entries, ghosts
<1>2. ASSUME NEW m \in Message, Compose(t, m)
      PROVE  AuthorInv'
  <2> DEFINE box == [outbox[t] EXCEPT ![m] = "sending"]
  <2>1. SetOutbox(t, box) /\ box \in Outbox /\ In(box) = In(outbox[t]) \cup {m}
    BY <1>2, MarkedBoxes DEF Compose
  <2>2. /\ outbox'[t] = box /\ saved' = box
        /\ \A u \in Tabs \ {t} : outbox'[u] = outbox[u]
    BY <2>1, Stored
  <2>3. /\ Written' = Written \cup {m} /\ m \notin Written
        /\ author'[m] = shown[t] /\ \A n \in Written : author'[n] = author[n]
        /\ carried \subseteq carried' /\ (who = shown[t] \/ m \in carried')
        /\ shown[t] # NoAccount
        /\ UNCHANGED <<who, shown, committed>>
        /\ sends' = sends \cup {Post(t, m, 0)}
    BY <1>2 DEF Compose, Written, TypeOK, account
  <2>4. EntriesRightful'
    <3> HIDE DEF box
    <3>1. \A n \in Message : Rightful(n) => Rightful(n)'
      BY <2>3 DEF Rightful
    <3>2. Rightful(m)'
      BY <2>3 DEF Rightful
    <3>3. \A n \in In(saved') : Rightful(n)'
      BY <2>1, <2>2, <3>1, <3>2 DEF AuthorInv, EntriesRightful, In
    <3>4. \A u \in Tabs : \A n \in In(outbox'[u]) :
             Rightful(n)' /\ (shown'[u] = NoAccount => n \in carried')
      BY <2>1, <2>2, <2>3, <3>1, <3>2 DEF AuthorInv, EntriesRightful, In
    <3> QED
      BY <3>3, <3>4 DEF EntriesRightful, In
  <2>5. SendsRightful'
    BY <2>3, Posted DEF AuthorInv, SendsRightful
  <2>6. CommitsRightful'
    BY <2>3 DEF AuthorInv, CommitsRightful
  <2> QED
    BY <2>4, <2>5, <2>6 DEF AuthorInv
<1>3. CASE Look(t) \/ Touch(t)
  <2>1. /\ UNCHANGED <<committed, author, who, shown, carried, sends>> /\ Written' = Written
        /\ Saving(t, outbox[t]) /\ outbox' = outbox
    BY <1>3 DEF Look, Touch, server, account, network, Written
  <2>2. SetOutbox(t, outbox[t]) /\ outbox[t] \in Outbox
    BY <2>1 DEF SetOutbox, TypeOK
  <2> QED
    BY <2>1, <2>2, BoxRightful DEF AuthorInv, SendsRightful, CommitsRightful
<1> QED
  BY <1>1, <1>2, <1>3

LEMMA SignRightful ==
  ASSUME TypeOK, AuthorInv, NEW t \in Tabs,
         SignOut(t) \/ SessionEnds(t) \/ Evicted(t) \/ Reload(t) \/ \E a \in Accounts : SignIn(t, a)
  PROVE  AuthorInv'
<1>1. /\ UNCHANGED <<committed, author>> /\ Written' = Written /\ carried \subseteq carried'
      /\ \A y \in sends' : \E x \in sends : y.msg = x.msg /\ y.as = x.as
  <2>1. sends' = sends \/ Loaded(t)
    BY DEF SignOut, SessionEnds, Evicted, Reload, SignIn, network
  <2>2. \A x \in sends : /\ [x EXCEPT !.tab = "gone"].as = x.as
                         /\ [x EXCEPT !.tab = "gone"].msg = x.msg
    BY DEF TypeOK, Send
  <2>3. \A y \in sends' : \E x \in sends : y.msg = x.msg /\ y.as = x.as
    <3>1. CASE sends' = sends
      BY <3>1
    <3>2. CASE Loaded(t)
      <4>1. sends' = {IF x.tab = t THEN [x EXCEPT !.tab = "gone"] ELSE x : x \in sends}
        BY <3>2 DEF Loaded
      <4>2. \A y \in sends' : \E x \in sends : y = (IF x.tab = t THEN [x EXCEPT !.tab = "gone"] ELSE x)
        BY <4>1
      <4> QED
        BY <2>2, <4>2
    <3> QED
      BY <2>1, <3>1, <3>2
  <2>4. carried \subseteq carried'
    BY DEF SignOut, SessionEnds, Evicted, Reload, SignIn, ClearAuth, GivenTo
  <2> QED
    BY <2>3, <2>4 DEF SignOut, SessionEnds, Evicted, Reload, SignIn, server, Written
<1>2. SendsRightful' /\ CommitsRightful'
  BY <1>1, SentStaysRightful DEF AuthorInv
<1>3. ASSUME NEW m, Rightful(m), m \in carried' \/ who' = who
      PROVE  Rightful(m)'
  BY <1>1, <1>3 DEF Rightful
<1>4. CASE SignOut(t) \/ SessionEnds(t)
  <2>1. ClearAuth(t)
    BY <1>4 DEF SignOut, SessionEnds
  <2> QED
    BY <1>1, <1>2, <2>1, ClearedRightful DEF AuthorInv
<1>5. CASE Evicted(t) \/ Reload(t)
  <2>1. Loaded(t) /\ saved' = saved
    BY <1>5 DEF Evicted, Reload
  <2>2. outbox'[t] = saved /\ \A u \in Tabs \ {t} : outbox'[u] = outbox[u]
    BY <2>1 DEF Loaded, TypeOK
  <2>3. CASE Evicted(t)
    <3>1. In(saved) \subseteq carried' /\ \A u \in Tabs \ {t} : In(outbox[u]) \subseteq carried'
      BY <2>3 DEF Evicted
    <3> QED
      BY <1>2, <1>3, <2>1, <2>2, <3>1 DEF AuthorInv, EntriesRightful, In
  <2>4. CASE Reload(t)
    <3>1. /\ carried' = GivenTo(who') /\ shown'[t] = who' /\ who' \in Accounts \cup {NoAccount}
          /\ \A u \in Tabs \ {t} : shown'[u] = shown[u]
      BY <2>4 DEF Reload, TypeOK
    <3>2. \A u \in Tabs \ {t} : \A m \in In(outbox[u]) :
             /\ m \in Written /\ (m \in carried' \/ author[m] = who')
             /\ (shown[u] = NoAccount => m \in carried')
      BY <1>1, <3>1 DEF GivenTo, AuthorInv, EntriesRightful, Rightful
    <3>3. \A m \in In(saved) : m \in Written /\ (m \in carried' \/ author[m] = who')
      BY <1>1, <3>1 DEF GivenTo, AuthorInv, EntriesRightful, Rightful
    <3>4. who' = NoAccount => In(saved) \subseteq carried'
      BY <3>3, WrittenByAccount
    <3>5. \A m \in In(saved') : Rightful(m)'
      BY <1>1, <2>1, <3>3 DEF Rightful, In
    <3>6. \A u \in Tabs : \A m \in In(outbox'[u]) :
             Rightful(m)' /\ (shown'[u] = NoAccount => m \in carried')
      BY <1>1, <2>1, <2>2, <3>1, <3>2, <3>3, <3>4 DEF Rightful, In
    <3> QED
      BY <1>2, <3>5, <3>6 DEF AuthorInv, EntriesRightful, In
  <2> QED
    BY <1>5, <2>3, <2>4
<1>6. ASSUME NEW a \in Accounts, SignIn(t, a)
      PROVE  AuthorInv'
  <2>1. /\ outbox' = outbox /\ saved' = outbox[t] /\ who' = a /\ shown[t] = NoAccount
        /\ \A u \in Tabs \ {t} : shown'[u] = shown[u]
    BY <1>6 DEF SignIn, Saving, TypeOK
  <2>2. In(outbox[t]) \subseteq carried'
    BY <1>1, <2>1 DEF AuthorInv, EntriesRightful
  <2>3. \A u \in Tabs \ {t} : \A m \in In(outbox[u]) : m \in carried' \/ author[m] = a
    BY <1>6 DEF SignIn
  <2>4. \A u \in Tabs : \A m \in In(outbox[u]) : Rightful(m)'
    BY <1>1, <2>1, <2>2, <2>3 DEF AuthorInv, EntriesRightful, Rightful
  <2>5. \A u \in Tabs : \A m \in In(outbox[u]) : shown'[u] = NoAccount => m \in carried'
    BY <1>1, <2>1, <2>2 DEF AuthorInv, EntriesRightful
  <2> QED
    BY <1>2, <2>1, <2>4, <2>5 DEF AuthorInv, EntriesRightful, In
<1> QED
  BY <1>4, <1>5, <1>6

LEMMA NextRightful ==
  ASSUME TypeOK, AuthorInv, [Next]_vars
  PROVE  AuthorInv'
<1>1. CASE UNCHANGED vars
  BY <1>1, EntriesStayRightful
  DEF AuthorInv, SendsRightful, CommitsRightful, Written, vars, server, account, entries, network, ghosts
<1>2. CASE Next
  BY <1>2, Steps, AnsweringRightful, HandlingRightful, RenewingRightful, TabRightful, SignRightful
<1> QED
  BY <1>1, <1>2

\* The server has no message under another name than its author's, but for the
\* carried ones: a tab that signs out leaves nothing for the next account to send.
THEOREM SentAsAuthorHolds == Spec => []SentAsAuthor
<1>1. Init => AuthorInv
  BY DEF Init, AuthorInv, EntriesRightful, SendsRightful, CommitsRightful, EmptyOutbox, In
<1>2. TypeOK /\ AuthorInv /\ [Next]_vars => AuthorInv'
  BY NextRightful
<1>3. AuthorInv => SentAsAuthor
  BY DEF AuthorInv, CommitsRightful, SentAsAuthor
<1> QED
  BY <1>1, <1>2, <1>3, TypeCorrect, PTL DEF Spec

===============================================================================
