------------------------------ MODULE ChatOutbox ------------------------------
(***************************************************************************)
(* The sending side of the chat client: the outbox of each browser tab,    *)
(* the copy of it that all tabs keep in one place of the browser's         *)
(* storage, and the ways a message of the outbox reaches the server: the   *)
(* send of the composer, and the flush and the digest of every reconnect.  *)
(* The user may sign out, sign in as somebody else, or reload at any time. *)
(*                                                                         *)
(* There is one chat.  Messages are numbered as they are written; the      *)
(* number stands for the client_message_id.                                *)
(***************************************************************************)
EXTENDS Integers

CONSTANTS
  Tabs,
  Accounts,
  NoAccount,
  MaxMessages, \* bound: the messages written in any session
  Sessions     \* what may happen in a session, see below

Habits == {"look", "reload", "signOut", "signIn", "evicted", "touch", "expires", "stale"}

\* The tabs in use, who is signed in at first, what happens, and how often:
\* messages written, requests, connections or access tokens lost, sign-ins and reloads.
Session == [tabs : SUBSET Tabs, first : Accounts, habits : SUBSET Habits, messages : 0 .. MaxMessages,
            faults : Nat, turns : Nat]

ASSUME OutboxAssumption ==
  /\ NoAccount \notin Accounts
  /\ MaxMessages \in Nat
  /\ Sessions \subseteq Session

Message == 1 .. MaxMessages

\* OutboxSendStatus; "none" for a message that is not in the outbox.
Status == {"none", "sending", "failed"}
Outbox == [Message -> Status]
EmptyOutbox == [m \in Message |-> "none"]

\* A POST of a message: its tab, or nobody waits for it any more; the loop of
\* flushOutbox that made it, 0 for the composer; the account its token is of; is
\* it posted again after a 401.  With answer "wait" it waits for a new token.
Send == [tab : Tabs \cup {"gone"}, msg : Message, loop : Nat, as : Accounts \cup {NoAccount},
         again : BOOLEAN, answer : {"none", "ok", "no", "401", "wait"}]

\* A run of flushOutbox: the messages it still has to take, and the one it waits for.
Loop == [tab : Tabs, id : Nat \ {0}, rest : SUBSET Message, cur : Message \cup {0}]

\* An outbox_digest on its way to the server, or the outbox_ack on its way back.
Digest == [tab : Tabs, of : SUBSET Message, acked : BOOLEAN]

VARIABLES
  committed,  \* the server's messages, with the account that sent them
  author,     \* who wrote a message, NoAccount if it is not written yet
  who,        \* the account whose access token is in the browser's storage
  renew,      \* the account whose refresh token is there
  asked,      \* asked[t]: the account t is asking a new access token for
  shown,      \* shown[t]: the account the tab t is signed in as
  outbox,     \* outbox[t]: outbox in the memory of t
  saved,      \* outbox in chat-storage
  sends, loops, digests,
  open,       \* open[t]: the tab's socket is connected
  opens,      \* connections made so far, they number the loops
  viewing,    \* viewing[t]: the chat is the current chat of t
  list,       \* list[t]: messages of the chat in t
  counted,    \* counted[t]: messages counted in unreadCounts of t
  cleared,    \* messages dropped by a sign-out
  carried,    \* messages that outlived the sign-out of their author, in another tab
              \* or in the storage, that a tab wrote for an account other than the
              \* browser's, or that met a token which came back or came late
  overwritten,\* messages another tab wrote out of the storage
  faults, turns, session

server  == <<committed, author>>
account == <<who, renew, asked, shown>>
entries == <<outbox, saved>>
network == <<sends, loops, digests>>
socket  == <<open, opens>>
screen  == <<viewing, list, counted>>
ghosts  == <<cleared, carried, overwritten>>
meter   == <<faults, turns, session>>
vars    == <<server, account, entries, network, socket, screen, ghosts, meter>>

TypeOK ==
  /\ committed \subseteq [msg : Message, as : Accounts]
  /\ author \in [Message -> Accounts \cup {NoAccount}]
  /\ who \in Accounts \cup {NoAccount} /\ renew \in Accounts \cup {NoAccount}
  /\ asked \in [Tabs -> Accounts \cup {NoAccount}]
  /\ shown \in [Tabs -> Accounts \cup {NoAccount}]
  /\ outbox \in [Tabs -> Outbox] /\ saved \in Outbox
  /\ sends \subseteq Send /\ loops \subseteq Loop /\ digests \subseteq Digest
  /\ open \in [Tabs -> BOOLEAN] /\ opens \in Nat
  /\ viewing \in [Tabs -> BOOLEAN]
  /\ list \in [Tabs -> SUBSET Message] /\ counted \in [Tabs -> SUBSET Message]
  /\ cleared \subseteq Message /\ carried \subseteq Message /\ overwritten \subseteq Message
  /\ session \in Sessions
  /\ faults \in 0 .. session.faults /\ turns \in 0 .. session.turns

Init ==
  /\ committed = {}
  /\ author = [m \in Message |-> NoAccount]
  /\ session \in Sessions
  /\ who = session.first /\ renew = who /\ asked = [t \in Tabs |-> NoAccount]
  /\ shown = [t \in Tabs |-> who]
  /\ outbox = [t \in Tabs |-> EmptyOutbox] /\ saved = EmptyOutbox
  /\ sends = {} /\ loops = {} /\ digests = {}
  /\ open = [t \in Tabs |-> FALSE] /\ opens = 0
  /\ viewing = [t \in Tabs |-> TRUE]
  /\ list = [t \in Tabs |-> {}] /\ counted = [t \in Tabs |-> {}]
  /\ cleared = {} /\ carried = {} /\ overwritten = {}
  /\ faults = 0 /\ turns = 0

Written == {m \in Message : author[m] # NoAccount}
In(box) == {m \in Message : box[m] # "none"}
Committed == {c.msg : c \in committed}

-------------------------------------------------------------------------------
(* The store of a tab.  Every write of it saves the tab's outbox as a whole. *)

\* The storage has box of tab t now; what only another tab still has is gone from it.
Saving(t, box) ==
  /\ saved' = box
  /\ overwritten' = overwritten
       \cup {m \in In(saved) \ In(box) : \E u \in Tabs \ {t} : outbox[u][m] # "none"}

SetOutbox(t, box) ==
  /\ outbox' = [outbox EXCEPT ![t] = box]
  /\ Saving(t, box)

\* addMessage without a current user: one's own message counts as unread too.
AddMessages(t, ms) ==
  /\ list' = [list EXCEPT ![t] = @ \cup ms]
  /\ counted' = IF viewing[t] THEN counted
                ELSE [counted EXCEPT ![t] = @ \cup (ms \ list[t])]

\* markOutboxSent, for the messages of an answer or of an acknowledgement.
MarkSent(t, ms) ==
  /\ SetOutbox(t, [m \in Message |-> IF m \in ms THEN "none" ELSE outbox[t][m]])
  /\ AddMessages(t, ms)

\* markOutboxFailed: only an entry that is still there is marked.
MarkFailed(t, m) ==
  SetOutbox(t, [outbox[t] EXCEPT ![m] = IF @ = "none" THEN "none" ELSE "failed"])

\* Any other change of the store, in a tab where nothing of the outbox changes.
Touch(t) ==
  /\ "touch" \in session.habits
  /\ Saving(t, outbox[t])
  /\ UNCHANGED <<server, account, outbox, network, socket, screen, cleared, carried, meter>>

Look(t) ==
  /\ "look" \in session.habits
  /\ viewing' = [viewing EXCEPT ![t] = ~@]
  /\ counted' = IF viewing[t] THEN counted ELSE [counted EXCEPT ![t] = {}]
  /\ Saving(t, outbox[t])
  /\ UNCHANGED <<server, account, outbox, network, socket, list, cleared, carried, meter>>

-------------------------------------------------------------------------------
(* Sending.                                                                *)

\* A request carries the token of the storage, whatever the tab shows.
Post(t, m, l) ==
  [tab |-> t, msg |-> m, loop |-> l, as |-> who, again |-> FALSE, answer |-> "none"]

Answer(x, a) == (sends \ {x}) \cup {[x EXCEPT !.answer = a]}

\* sendMessageWithOutbox up to its await.
Compose(t, m) ==
  /\ shown[t] # NoAccount
  /\ m <= session.messages
  /\ author[m] = NoAccount
  /\ \A n \in 1 .. m - 1 : author[n] # NoAccount
  /\ viewing[t]
  /\ author' = [author EXCEPT ![m] = shown[t]]
  /\ SetOutbox(t, [outbox[t] EXCEPT ![m] = "sending"])
  /\ sends' = sends \cup {Post(t, m, 0)}
  /\ carried' = IF who = shown[t] THEN carried ELSE carried \cup {m}
  /\ UNCHANGED <<committed, account, loops, digests, socket, screen, cleared, meter>>

\* create_message_with_attachments: a key that its sender has used is not used again.
ServeSend(x) ==
  /\ x.answer = "none"
  /\ IF x.as = NoAccount
     THEN /\ sends' = Answer(x, "401")
          /\ UNCHANGED committed
     ELSE /\ sends' = Answer(x, "ok")
          /\ committed' = committed \cup {[msg |-> x.msg, as |-> x.as]}
  /\ UNCHANGED <<author, account, entries, loops, digests, socket, screen, ghosts, meter>>

\* The request or its answer is lost, or the server refuses.
LoseSend(x) ==
  /\ x.answer \in {"none", "ok"}
  /\ faults < session.faults
  /\ faults' = faults + 1
  /\ sends' = Answer(x, "no")
  /\ UNCHANGED <<server, account, entries, loops, digests, socket, screen, ghosts, turns, session>>

\* Mutant: the loop waits for its first send for ever.
ResumedNever(x) == loops

\* The loop that waited for x goes on with what it has left.
Resumed(x) == {IF l.tab = x.tab /\ l.id = x.loop THEN [l EXCEPT !.cur = 0] ELSE l : l \in loops}

SendOk(x) ==
  /\ x.answer = "ok" /\ x.tab # "gone"
  /\ MarkSent(x.tab, {x.msg})
  /\ sends' = sends \ {x}
  /\ loops' = Resumed(x)
  /\ UNCHANGED <<server, account, digests, socket, viewing, cleared, carried, meter>>

SendFailed(x) ==
  /\ x.answer = "no" /\ x.tab # "gone"
  /\ MarkFailed(x.tab, x.msg)
  /\ sends' = sends \ {x}
  /\ loops' = Resumed(x)
  /\ UNCHANGED <<server, account, digests, socket, screen, cleared, carried, meter>>

-------------------------------------------------------------------------------
(* Reconnecting.                                                           *)

\* Mutant: an entry that a reload left in "sending" is taken for one under way.
ToFlushIdle(t) == {m \in Message : outbox[t][m] = "failed"}

\* getOutboxDigest, and the same filter in flushOutbox.
ToFlush(t) == {m \in Message : outbox[t][m] \in {"sending", "failed"}}

\* ws.onopen: the digest goes out and the flush starts, without waiting for the ack.
Open(t) ==
  /\ shown[t] # NoAccount /\ ~open[t]
  /\ open' = [open EXCEPT ![t] = TRUE]
  /\ opens' = opens + 1
  /\ IF ToFlush(t) = {}
     THEN UNCHANGED <<digests, loops>>
     ELSE /\ digests' = digests \cup {[tab |-> t, of |-> ToFlush(t), acked |-> FALSE]}
          /\ loops' = loops \cup {[tab |-> t, id |-> opens + 1, rest |-> ToFlush(t), cur |-> 0]}
  /\ UNCHANGED <<server, account, entries, sends, screen, ghosts, meter>>

RetryOutboxEntry(l, m) ==
  /\ SetOutbox(l.tab, [outbox[l.tab] EXCEPT ![m] = "sending"])
  /\ sends' = sends \cup {Post(l.tab, m, l.id)}

\* The next turn of the loop, for the first entry that is still there.
FlushNext(l) ==
  /\ l.cur = 0
  /\ LET left == l.rest \cap In(outbox[l.tab])
     IN  \/ /\ left = {}
            /\ loops' = loops \ {l}
            /\ UNCHANGED <<sends, entries, overwritten>>
         \/ \E m \in left :
              /\ \A n \in left : m <= n
              /\ loops' = (loops \ {l}) \cup {[l EXCEPT !.cur = m, !.rest = left \ {m}]}
              /\ RetryOutboxEntry(l, m)
  /\ UNCHANGED <<server, account, digests, socket, screen, cleared, carried, meter>>

\* Mutant: the acknowledgement repeats the digest.
ServeDigestAll(d) ==
  /\ ~d.acked
  /\ digests' = (digests \ {d}) \cup {[d EXCEPT !.acked = TRUE]}
  /\ UNCHANGED <<server, account, entries, sends, loops, socket, screen, ghosts, meter>>

\* resolve_client_message_commits, for the account the socket is of.
ServeDigest(d) ==
  /\ ~d.acked
  /\ digests' = (digests \ {d})
       \cup {[d EXCEPT !.acked = TRUE,
                       !.of = {m \in d.of : [msg |-> m, as |-> shown[d.tab]] \in committed}]}
  /\ UNCHANGED <<server, account, entries, sends, loops, socket, screen, ghosts, meter>>

\* reconcileOutboxAck; the entries that are not there any more are passed over.
AckArrives(d) ==
  /\ d.acked
  /\ MarkSent(d.tab, d.of \cap In(outbox[d.tab]))
  /\ digests' = digests \ {d}
  /\ UNCHANGED <<server, account, sends, loops, socket, viewing, cleared, carried, meter>>

\* The ack has a listener only while a chat window is there.
AckIgnored(d) ==
  /\ d.acked /\ ~viewing[d.tab]
  /\ digests' = digests \ {d}
  /\ UNCHANGED <<server, account, entries, sends, loops, socket, screen, ghosts, meter>>

Closed(t) ==
  /\ open' = [open EXCEPT ![t] = FALSE]
  /\ digests' = {d \in digests : d.tab # t}
  /\ UNCHANGED opens

Close(t) ==
  /\ open[t]
  /\ faults < session.faults
  /\ faults' = faults + 1
  /\ Closed(t)
  /\ UNCHANGED <<server, account, entries, sends, loops, screen, ghosts, turns, session>>

-------------------------------------------------------------------------------
(* Signing in and out, and reloading.                                      *)

\* The carried messages, once the access token in the storage is of account a.
GivenTo(a) ==
  IF a = who THEN carried
  ELSE carried \cup {m \in In(saved) \cup UNION {In(outbox[t]) : t \in Tabs} : author[m] # a}

\* A turn of the session: signing in, or loading the page again.
Turn ==
  /\ turns < session.turns
  /\ turns' = turns + 1
  /\ UNCHANGED <<faults, session>>

\* Mutant: clearUserState leaves the outbox alone.
ClearAuthOnly(t) ==
  /\ SetOutbox(t, outbox[t])
  /\ cleared' = cleared
  /\ carried' = carried
  /\ who' = NoAccount /\ renew' = NoAccount
  /\ list' = [list EXCEPT ![t] = {}] /\ counted' = [counted EXCEPT ![t] = {}]
  /\ viewing' = [viewing EXCEPT ![t] = FALSE]
  /\ shown' = [shown EXCEPT ![t] = NoAccount]
  /\ Closed(t)

\* clearAuth of tab t, with clearUserState.  Other tabs keep what they have.
ClearAuth(t) ==
  /\ SetOutbox(t, EmptyOutbox)
  /\ cleared' = cleared \cup In(outbox[t])
  /\ carried' = carried \cup UNION {In(outbox[u]) : u \in Tabs \ {t}}
  /\ who' = NoAccount /\ renew' = NoAccount
  /\ list' = [list EXCEPT ![t] = {}] /\ counted' = [counted EXCEPT ![t] = {}]
  /\ viewing' = [viewing EXCEPT ![t] = FALSE]
  /\ shown' = [shown EXCEPT ![t] = NoAccount]
  /\ Closed(t)

SignOut(t) ==
  /\ "signOut" \in session.habits
  /\ shown[t] # NoAccount
  /\ ClearAuth(t)
  /\ UNCHANGED <<server, asked, sends, loops, meter>>

\* The tab finds that the session is over, by an answer to any of its requests.
SessionEnds(t) ==
  /\ who = NoAccount /\ shown[t] # NoAccount
  /\ ClearAuth(t)
  /\ UNCHANGED <<server, asked, sends, loops, meter>>

SignIn(t, a) ==
  /\ "signIn" \in session.habits
  /\ shown[t] = NoAccount
  /\ Turn
  /\ who' = a /\ renew' = a
  /\ shown' = [shown EXCEPT ![t] = a]
  /\ viewing' = [viewing EXCEPT ![t] = TRUE]
  /\ Saving(t, outbox[t])
  /\ carried' = carried \cup {m \in UNION {In(outbox[u]) : u \in Tabs \ {t}} : author[m] # a}
  /\ UNCHANGED <<server, asked, outbox, network, socket, list, counted, cleared>>

\* The page is loaded again: requests of before are answered to nobody.
Loaded(t) ==
  /\ outbox' = [outbox EXCEPT ![t] = saved]
  /\ sends' = {IF x.tab = t THEN [x EXCEPT !.tab = "gone"] ELSE x : x \in sends}
  /\ loops' = {l \in loops : l.tab # t}
  /\ asked' = [asked EXCEPT ![t] = NoAccount]
  /\ list' = [list EXCEPT ![t] = {}] /\ counted' = [counted EXCEPT ![t] = {}]
  /\ viewing' = [viewing EXCEPT ![t] = who # NoAccount]
  /\ Closed(t)

\* A page that finds a refresh token starts with a new access token of its account.
Reload(t) ==
  LET a == IF renew = NoAccount THEN who ELSE renew IN
  /\ "reload" \in session.habits
  /\ Turn
  /\ Loaded(t)
  /\ who' = a
  /\ shown' = [shown EXCEPT ![t] = a]
  /\ carried' = GivenTo(a)
  /\ UNCHANGED <<server, renew, saved, cleared, overwritten>>

\* notifySessionEvicted: the credentials go, the outbox does not, and the
\* login page is loaded.
Evicted(t) ==
  /\ "evicted" \in session.habits
  /\ shown[t] # NoAccount
  /\ Turn
  /\ who' = NoAccount /\ renew' = NoAccount
  /\ shown' = [shown EXCEPT ![t] = NoAccount]
  /\ Loaded(t)
  /\ carried' = carried \cup In(saved) \cup UNION {In(outbox[u]) : u \in Tabs \ {t}}
  /\ UNCHANGED <<server, saved, cleared, overwritten>>

\* The store of tab t writes the tokens it has in memory, whoever has signed in since.
RewriteToken(t) ==
  /\ "stale" \in session.habits
  /\ shown[t] # who
  /\ who' = shown[t] /\ renew' = shown[t]
  /\ carried' = GivenTo(shown[t])
  /\ UNCHANGED <<server, asked, shown, entries, network, socket, screen, cleared, overwritten, meter>>

-------------------------------------------------------------------------------
(* Access tokens that expire.  The interceptor of the answers asks for a   *)
(* new one with the refresh token that is in the storage by then, once for *)
(* all requests of the tab, and posts each of them again under it.         *)

\* The server refuses the token of a post, or of some other request of a tab.
Expires ==
  /\ "expires" \in session.habits
  /\ faults < session.faults
  /\ faults' = faults + 1
  /\ UNCHANGED <<turns, session>>

Expired(x) ==
  /\ Expires
  /\ x.answer = "none" /\ x.as # NoAccount
  /\ sends' = Answer(x, "401")
  /\ UNCHANGED <<server, account, entries, loops, digests, socket, screen, ghosts>>

\* getSharedRefreshedToken: who asks while an answer is awaited waits with the others.
Ask(t) == asked' = [asked EXCEPT ![t] = IF @ = NoAccount THEN renew ELSE @]

ExpiredElsewhere(t) ==
  /\ Expires
  /\ renew # NoAccount
  /\ Ask(t)
  /\ UNCHANGED <<server, who, renew, shown, entries, network, socket, screen, ghosts>>

\* The 401 of a post: wait for a new token, or give up, which ends the session
\* when a token was sent and there is none to refresh it with.
Unauthorized(x) ==
  /\ x.answer = "401" /\ x.tab # "gone"
  /\ UNCHANGED <<server, loops, meter>>
  /\ \/ /\ ~x.again /\ renew # NoAccount
        /\ Ask(x.tab)
        /\ sends' = Answer(x, "wait")
        /\ UNCHANGED <<who, renew, shown, entries, digests, socket, screen, ghosts>>
     \/ /\ ~x.again /\ renew = NoAccount /\ x.as # NoAccount
        /\ ClearAuth(x.tab)
        /\ sends' = Answer(x, "no")
        /\ UNCHANGED asked
     \/ /\ x.again \/ (renew = NoAccount /\ x.as = NoAccount)
        /\ sends' = Answer(x, "no")
        /\ UNCHANGED <<account, entries, digests, socket, screen, ghosts>>

Awaiting(t) == {x \in sends : x.tab = t /\ x.answer = "wait"}

\* The new token is stored, whoever has signed in or out since, and the requests go again.
Refreshed(t) ==
  LET a == asked[t] IN
  /\ a # NoAccount
  /\ asked' = [asked EXCEPT ![t] = NoAccount]
  /\ who' = a
  /\ sends' = (sends \ Awaiting(t))
               \cup {[x EXCEPT !.as = a, !.again = TRUE, !.answer = "none"] : x \in Awaiting(t)}
  /\ carried' = GivenTo(a) \cup {m \in {x.msg : x \in Awaiting(t)} : author[m] # a}
  /\ UNCHANGED <<server, renew, shown, entries, loops, digests, socket, screen, cleared, overwritten,
                 meter>>

\* No answer: the requests fail.  A refusal ends the session as well.
NotRefreshed(t) ==
  /\ asked[t] # NoAccount
  /\ asked' = [asked EXCEPT ![t] = NoAccount]
  /\ sends' = (sends \ Awaiting(t)) \cup {[x EXCEPT !.answer = "no"] : x \in Awaiting(t)}
  /\ \/ UNCHANGED <<who, renew, shown, entries, digests, socket, screen, ghosts>>
     \/ ClearAuth(t)
  /\ UNCHANGED <<server, loops, meter>>

-------------------------------------------------------------------------------

Server ==
  \/ \E x \in sends : ServeSend(x)
  \/ \E d \in digests : ServeDigest(d)
  \/ \E t \in session.tabs : Refreshed(t) \/ NotRefreshed(t)

Client ==
  \/ \E x \in sends : SendOk(x) \/ SendFailed(x) \/ Unauthorized(x)
  \/ \E l \in loops : FlushNext(l)
  \/ \E d \in digests : AckArrives(d) \/ AckIgnored(d)

Connect == \E t \in session.tabs : Open(t)

Faults ==
  \/ \E x \in sends : LoseSend(x) \/ Expired(x)
  \/ \E t \in session.tabs : Close(t) \/ ExpiredElsewhere(t)

User ==
  \E t \in session.tabs :
    \/ \E m \in Message : Compose(t, m)
    \/ Look(t) \/ Touch(t) \/ Reload(t)

Sign ==
  \E t \in session.tabs :
    \/ SignOut(t) \/ SessionEnds(t) \/ Evicted(t) \/ RewriteToken(t)
    \/ \E a \in Accounts : SignIn(t, a)

Next == Server \/ Client \/ Connect \/ Faults \/ User \/ Sign

\* Requests are answered, and a closed socket connects again.
Spec == Init /\ [][Next]_vars /\ WF_vars(Server) /\ WF_vars(Client) /\ WF_vars(Connect)

-------------------------------------------------------------------------------

\* A message that was written is on the server, or some tab still has it, or
\* its author signed out, or another tab overwrote the storage before a reload.
NothingLost ==
  \A m \in Written :
    \/ m \in Committed \cup cleared \cup overwritten
    \/ \E t \in Tabs : outbox[t][m] # "none"

\* The server has no message under another name than its author's, unless it
\* outlived a sign-out, in another tab or in the storage after an eviction, or
\* was written in a tab that still showed an account the browser had left, or
\* the token of another account came back into the storage, by a stale tab or a
\* late refresh, or its 401 was answered in a browser that was another's by then.
SentAsAuthor == \A c \in committed : c.as = author[c.msg] \/ c.msg \in carried

\* While the socket is connected, an entry that is being sent has a request of
\* this tab under way, or a flush that will come to it.
NoOrphan ==
  \A t \in Tabs : open[t] =>
    \A m \in Message : outbox[t][m] = "sending" =>
      \/ \E x \in sends : x.tab = t /\ x.msg = m
      \/ \E l \in loops : l.tab = t /\ m \in l.rest

\* No entry is being sent for ever while its tab is signed in: it is sent, or
\* marked as failed.
SendingEnds ==
  \A t \in Tabs, m \in Message :
    outbox[t][m] = "sending" /\ shown[t] # NoAccount
      ~> outbox[t][m] # "sending" \/ shown[t] = NoAccount

\* "Message is NOT from the current user (don't count your own messages as
\* unread)" (chatStore.ts): no tab counts a message of its user.
OwnNeverCounted ==
  \A t \in session.tabs : \A m \in counted[t] : author[m] # shown[t]

===============================================================================
