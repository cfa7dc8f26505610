----------------------------- MODULE ChatDelivery -----------------------------
(***************************************************************************)
(* How one chat message reaches one recipient.  The message is committed   *)
(* together with an outbox row; a dispatcher hands the row to Celery; the  *)
(* notify task creates the recipient's MessageStatus row and publishes to  *)
(* the recipient's sockets, a deliver task tries again; and every socket   *)
(* that connects drains what is still "sent" and replays what was          *)
(* delivered of late.  The three paths share one claim: whoever moves the  *)
(* row from sent to delivered owns the delivery.                           *)
(*                                                                         *)
(* Each action is one database statement, one Redis call or one broker     *)
(* call of a path; anything of another path may come in between.  Presence *)
(* is its contract: online from the registration of a socket until some    *)
(* time after the last registered socket has closed.                       *)
(***************************************************************************)
EXTENDS Integers, FiniteSets

CONSTANTS
  Workers,     \* Celery workers that run delivery tasks
  Sockets,     \* bound: connections of the recipient, 1 .. Sockets in order
  Overlap,     \* whether one is opened before the last has been closed
  NoOne,       \* nobody holds the claim
  MaxQueued,   \* bound: tasks of one kind waiting in the broker
  MaxFailures, \* bound: failed publications, below max_retries of the task
  MaxDeaths    \* bound: workers that die

ASSUME DeliveryAssumption ==
  /\ Sockets \in Nat
  /\ Overlap \in BOOLEAN
  /\ Workers \cap 1 .. Sockets = {}
  /\ NoOne \notin Workers \cup 1 .. Sockets
  /\ MaxQueued \in Nat
  /\ MaxFailures \in 0 .. 3
  /\ MaxDeaths \in Nat

Socket == 1 .. Sockets

Tasks == {"notify", "deliver"}

VARIABLES
  outbox,    \* the message.realtime row of the message
  queued,    \* queued[k]: tasks of kind k waiting in the broker
  job,       \* job[w]: the task worker w runs, and its next point
  status,    \* the recipient's MessageStatus, "none" before it exists
  fresh,     \* the row says delivered, with delivered_at in the replay window
  owner,     \* who has claimed the delivery and not yet published it
  online,    \* what get_online_users answers
  sock,      \* sock[s]: the next point of connection s
  inbox,     \* inbox[s]: events the channel layer holds for s
  got,       \* got[s]: the message has been written to s
  reading,   \* mark_message_as_read has read the row and not yet saved it
  missed,    \* the sockets that were open when something was lost for them
  failures,
  deaths

broker   == <<outbox, queued>>
row      == <<status, fresh, owner>>
conns    == <<online, sock, inbox, got>>
counters == <<missed, failures, deaths>>
vars     == <<outbox, queued, job, status, fresh, owner, online, sock, inbox, got, reading,
              missed, failures, deaths>>

JobPoints == {"idle", "create", "pending", "online", "claim", "publish", "release"}

SockPoints ==
  {"new", "joined", "registered", "claim", "write", "replay", "rewrite", "ready", "closed"}

Idle == [op |-> "none", pc |-> "idle"]

TypeOK ==
  /\ outbox \in {"pending", "claimed", "sent", "published"}
  /\ queued \in [Tasks -> 0 .. MaxQueued]
  /\ job \in [Workers -> [op : Tasks \cup {"none"}, pc : JobPoints]]
  /\ status \in {"none", "sent", "delivered", "read"}
  /\ fresh \in BOOLEAN
  /\ owner \in Workers \cup Socket \cup {NoOne}
  /\ online \in BOOLEAN
  /\ sock \in [Socket -> SockPoints]
  /\ inbox \in [Socket -> Nat]
  /\ got \in [Socket -> BOOLEAN]
  /\ reading \in BOOLEAN
  /\ missed \subseteq Socket
  /\ failures \in 0 .. MaxFailures
  /\ deaths \in 0 .. MaxDeaths

\* The message and its outbox row have just been committed.
Init ==
  /\ outbox = "pending"
  /\ queued = [k \in Tasks |-> 0]
  /\ job = [w \in Workers |-> Idle]
  /\ status = "none"
  /\ fresh = FALSE
  /\ owner = NoOne
  /\ online = FALSE
  /\ sock = [s \in Socket |-> "new"]
  /\ inbox = [s \in Socket |-> 0]
  /\ got = [s \in Socket |-> FALSE]
  /\ reading = FALSE
  /\ missed = {}
  /\ failures = 0
  /\ deaths = 0

-------------------------------------------------------------------------------
(* The outbox dispatcher.                                                  *)

ClaimOutbox ==
  /\ outbox = "pending"
  /\ outbox' = "claimed"
  /\ UNCHANGED <<queued, job, row, conns, reading, counters>>

\* apply_async, with no transaction around it.
HandOff ==
  /\ outbox = "claimed"
  /\ queued["notify"] < MaxQueued
  /\ outbox' = "sent"
  /\ queued' = [queued EXCEPT !["notify"] = @ + 1]
  /\ UNCHANGED <<job, row, conns, reading, counters>>

MarkPublished ==
  /\ outbox = "sent"
  /\ outbox' = "published"
  /\ UNCHANGED <<queued, job, row, conns, reading, counters>>

\* The broker refused the event, or the dispatcher died and its claim went
\* stale, also after the event had been handed over.
Reclaim ==
  /\ outbox \in {"claimed", "sent"}
  /\ outbox' = "pending"
  /\ UNCHANGED <<queued, job, row, conns, reading, counters>>

-------------------------------------------------------------------------------
(* The claim on the MessageStatus row.                                     *)

\* claim_recipients_for_delivery, won by p: one transaction under the row lock.
Claimed(p) ==
  /\ status = "sent"
  /\ status' = "delivered"
  /\ fresh' = TRUE
  /\ owner' = p

\* Mutant: the row goes back whatever it says by now.
ReleasedAnyway ==
  /\ status' = "sent"
  /\ owner' = NoOne
  /\ fresh' = FALSE

\* release_unpublished_recipients: only a row that still says delivered goes back.
Released ==
  /\ status' = IF status = "delivered" THEN "sent" ELSE status
  /\ owner' = NoOne
  /\ fresh' = FALSE

-------------------------------------------------------------------------------
(* notify_new_message and deliver_message_task.                            *)

At(w, p) == job[w].pc = p

Goto(w, p) == job' = [job EXCEPT ![w].pc = p]

Finish(w) == job' = [job EXCEPT ![w] = Idle]

\* The message is acknowledged when the worker takes it.
TakeTask(w, k) ==
  /\ At(w, "idle")
  /\ queued[k] > 0
  /\ queued' = [queued EXCEPT ![k] = @ - 1]
  /\ job' = [job EXCEPT ![w] = [op |-> k, pc |-> "create"]]
  /\ UNCHANGED <<outbox, row, conns, reading, counters>>

\* Worker w ends its task, queueing a deliver task first if the recipient is
\* still to be reached.
FinishWith(w, again) ==
  /\ Finish(w)
  /\ IF again
       THEN /\ queued["deliver"] < MaxQueued
            /\ queued' = [queued EXCEPT !["deliver"] = @ + 1]
       ELSE UNCHANGED queued

\* _create_recipient_statuses, which leaves an existing row alone.
CreateRow(w) ==
  /\ At(w, "create")
  /\ status' = IF status = "none" THEN "sent" ELSE status
  /\ Goto(w, IF job[w].op = "deliver" THEN "pending" ELSE "online")
  /\ UNCHANGED <<broker, fresh, owner, conns, reading, counters>>

\* The deliver task looks for rows that are still pending.
ReadPending(w) ==
  /\ At(w, "pending")
  /\ IF status = "sent" THEN Goto(w, "online") ELSE Finish(w)
  /\ UNCHANGED <<broker, row, conns, reading, counters>>

\* get_online_users; a recipient who is offline is left to the deliver task,
\* and by the deliver task to the next connection.
ReadOnline(w) ==
  /\ At(w, "online")
  /\ IF online
       THEN Goto(w, "claim") /\ UNCHANGED queued
       ELSE FinishWith(w, job[w].op = "notify")
  /\ UNCHANGED <<outbox, row, conns, reading, counters>>

\* Mutant: the claim is not a compare-and-set.
ClaimDeliveryAnyway(w) ==
  /\ At(w, "claim")
  /\ status # "none"
  /\ status' = "delivered"
  /\ fresh' = TRUE
  /\ owner' = w
  /\ Goto(w, "publish")
  /\ UNCHANGED <<broker, conns, reading, counters>>

ClaimDelivery(w) ==
  /\ At(w, "claim")
  /\ \/ Claimed(w) /\ Goto(w, "publish") /\ UNCHANGED queued
     \/ status # "sent" /\ FinishWith(w, job[w].op = "notify") /\ UNCHANGED row
  /\ UNCHANGED <<outbox, conns, reading, counters>>

Open(s) == sock[s] \notin {"new", "closed"}

\* group_send reaches whoever has joined the group ...
Publish(w) ==
  /\ At(w, "publish")
  /\ inbox' = [s \in Socket |-> IF Open(s) THEN inbox[s] + 1 ELSE inbox[s]]
  /\ owner' = NoOne
  /\ Finish(w)
  /\ UNCHANGED <<broker, status, fresh, online, sock, got, reading, counters>>

\* ... or fails.
PublishFails(w) ==
  /\ At(w, "publish")
  /\ failures < MaxFailures
  /\ failures' = failures + 1
  /\ Goto(w, "release")
  /\ UNCHANGED <<broker, row, conns, reading, missed, deaths>>

\* Mutant: nobody tries again.
ReleaseForgets(w) ==
  /\ At(w, "release")
  /\ Released
  /\ FinishWith(w, FALSE)
  /\ UNCHANGED <<outbox, conns, reading, counters>>

\* The notify task leaves the rest to a deliver task, which retries itself.
Release(w) ==
  /\ At(w, "release")
  /\ Released
  /\ FinishWith(w, TRUE)
  /\ UNCHANGED <<outbox, conns, reading, counters>>

\* A worker dies, and its task with it.
Die(w) ==
  /\ ~At(w, "idle")
  /\ deaths < MaxDeaths
  /\ deaths' = deaths + 1
  /\ missed' = missed \cup {s \in Socket : Open(s)}
  /\ owner' = IF owner = w THEN NoOne ELSE owner
  /\ Finish(w)
  /\ UNCHANGED <<broker, status, fresh, conns, reading, failures>>

-------------------------------------------------------------------------------
(* The socket of the recipient: ChatConsumer.                              *)

GotoSock(s, p) == sock' = [sock EXCEPT ![s] = p]

\* connect: the groups are joined before the socket is accepted.
Connect(s) ==
  /\ sock[s] = "new"
  /\ \A r \in Socket : r < s => IF Overlap THEN sock[r] # "new" ELSE sock[r] = "closed"
  /\ GotoSock(s, "joined")
  /\ UNCHANGED <<broker, job, row, online, inbox, got, reading, counters>>

\* connection_opened, before the queue is read.
Register(s) ==
  /\ sock[s] = "joined"
  /\ online' = TRUE
  /\ GotoSock(s, "registered")
  /\ UNCHANGED <<broker, job, row, inbox, got, reading, counters>>

\* send_queued_messages: read the pending rows, claim each, write each.
ReadQueue(s) ==
  /\ sock[s] = "registered"
  /\ GotoSock(s, IF status = "sent" THEN "claim" ELSE "replay")
  /\ UNCHANGED <<broker, job, row, online, inbox, got, reading, counters>>

ClaimQueued(s) ==
  /\ sock[s] = "claim"
  /\ \/ Claimed(s) /\ GotoSock(s, "write")
     \/ status # "sent" /\ GotoSock(s, "replay") /\ UNCHANGED row
  /\ UNCHANGED <<broker, job, online, inbox, got, reading, counters>>

\* send_chat_message_once: what the socket has had is not written again.
Written(s) == got' = [got EXCEPT ![s] = TRUE]

WriteQueued(s) ==
  /\ sock[s] = "write"
  /\ Written(s)
  /\ owner' = NoOne
  /\ GotoSock(s, "replay")
  /\ UNCHANGED <<broker, job, status, fresh, online, inbox, reading, counters>>

\* Mutant: nothing is replayed.
ReadReplayNothing(s) ==
  /\ sock[s] = "replay"
  /\ GotoSock(s, "ready")
  /\ UNCHANGED <<broker, job, row, online, inbox, got, reading, counters>>

\* replay_recently_delivered.
ReadReplay(s) ==
  /\ sock[s] = "replay"
  /\ GotoSock(s, IF status = "delivered" /\ fresh THEN "rewrite" ELSE "ready")
  /\ UNCHANGED <<broker, job, row, online, inbox, got, reading, counters>>

Rewrite(s) ==
  /\ sock[s] = "rewrite"
  /\ Written(s)
  /\ GotoSock(s, "ready")
  /\ UNCHANGED <<broker, job, row, online, inbox, reading, counters>>

\* chat_message: an event of the group arrives, at any time from the join on.
Receive(s) ==
  /\ Open(s)
  /\ inbox[s] > 0
  /\ inbox' = [inbox EXCEPT ![s] = @ - 1]
  /\ Written(s)
  /\ UNCHANGED <<broker, job, row, online, sock, reading, counters>>

\* The channel layer drops an event that is not read in time.
Drop(s) ==
  /\ Open(s)
  /\ inbox[s] > 0
  /\ inbox' = [inbox EXCEPT ![s] = @ - 1]
  /\ missed' = missed \cup {s}
  /\ UNCHANGED <<broker, job, row, online, sock, got, reading, failures, deaths>>

\* disconnect cancels the initialisation.  A message that was claimed and not
\* written goes back; a claim still running in its thread may commit all the
\* same, and then nobody holds it.
Disconnect(s) ==
  /\ Open(s)
  /\ GotoSock(s, "closed")
  /\ inbox' = [inbox EXCEPT ![s] = 0]
  /\ got' = [got EXCEPT ![s] = FALSE]
  /\ missed' = missed \ {s}
  /\ \/ sock[s] = "write" /\ Released
     \/ sock[s] = "claim" /\ Claimed(NoOne)
     \/ sock[s] # "write" /\ UNCHANGED row
  /\ UNCHANGED <<broker, job, online, reading, failures, deaths>>

-------------------------------------------------------------------------------
(* The rest of the world.                                                  *)

\* finalize_offline_if_still_disconnected, or the expiry of the online key.
GoOffline ==
  /\ online
  /\ \A s \in Socket : sock[s] \in {"new", "joined", "closed"}
  /\ online' = FALSE
  /\ UNCHANGED <<broker, job, row, sock, inbox, got, reading, counters>>

\* Mutant: a status that does not exist.
MarkChatSeen ==
  /\ status \in {"sent", "delivered"}
  /\ status' = "seen"
  /\ fresh' = FALSE
  /\ UNCHANGED <<broker, job, owner, conns, reading, counters>>

\* mark_chat_as_read: one update of the rows not yet read.
MarkChatRead ==
  /\ status \in {"sent", "delivered"}
  /\ status' = "read"
  /\ fresh' = FALSE
  /\ UNCHANGED <<broker, job, owner, conns, reading, counters>>

\* mark_message_as_read: the row is read ...
ReadStatus ==
  /\ ~reading
  /\ status \in {"sent", "delivered"}
  /\ reading' = TRUE
  /\ UNCHANGED <<broker, job, row, conns, counters>>

\* ... and saved, whatever it says by now.
SaveStatus ==
  /\ reading
  /\ reading' = FALSE
  /\ status' = "read"
  /\ fresh' = FALSE
  /\ UNCHANGED <<broker, job, owner, conns, counters>>

\* CHAT_RECONNECT_REPLAY_SECONDS have passed since delivered_at.
WindowPasses ==
  /\ fresh
  /\ fresh' = FALSE
  /\ UNCHANGED <<broker, job, status, owner, conns, reading, counters>>

Dispatch == ClaimOutbox \/ HandOff \/ MarkPublished

TaskStep(w) ==
  \/ CreateRow(w) \/ ReadPending(w) \/ ReadOnline(w) \/ ClaimDelivery(w)
  \/ Publish(w) \/ Release(w)

SocketStep(s) ==
  \/ Register(s) \/ ReadQueue(s) \/ ClaimQueued(s) \/ WriteQueued(s)
  \/ ReadReplay(s) \/ Rewrite(s) \/ Receive(s)

Environment ==
  \/ Reclaim \/ GoOffline \/ MarkChatRead \/ ReadStatus \/ SaveStatus \/ WindowPasses
  \/ \E w \in Workers : PublishFails(w) \/ Die(w)
  \/ \E s \in Socket : Connect(s) \/ Drop(s) \/ Disconnect(s)

Next ==
  \/ Dispatch
  \/ \E w \in Workers : TaskStep(w) \/ \E k \in Tasks : TakeTask(w, k)
  \/ \E s \in Socket : SocketStep(s)
  \/ Environment

Spec == Init /\ [][Next]_vars

-------------------------------------------------------------------------------
(* Properties.                                                             *)

\* Nothing is under way that could still deliver the message.
Quiet ==
  /\ outbox = "published"
  /\ \A k \in Tasks : queued[k] = 0
  /\ \A w \in Workers : At(w, "idle")
  /\ \A s \in Socket : inbox[s] = 0

Holders ==
  {w \in Workers : job[w].pc \in {"publish", "release"}} \cup {s \in Socket : sock[s] = "write"}

\* Of the three delivery paths at most one at a time is delivering the message,
\* and while it does, no other finds the row pending.
OneHolder ==
  /\ Holders = {owner} \ {NoOne}
  /\ owner # NoOne => status \in {"delivered", "read"}

\* A message that was read stays read, whatever a delivery path that claimed it
\* before does afterwards.
ReadStays == [][status = "read" => status' = "read"]_vars

\* The last connection of the recipient, with its initialisation behind it and
\* nothing lost for it.
Served(s) ==
  /\ sock[s] = "ready"
  /\ s \notin missed
  /\ \A r \in Socket : r > s => sock[r] = "new"

\* A message does not stay pending while its recipient is connected: either
\* the connection finds the row in its queue, or the task that created the row
\* finds the connection online.
NotStranded == Quiet /\ (\E s \in Socket : Served(s)) => status # "sent"

\* What is recorded as delivered within the replay window has reached the
\* recipient's connection, also when the connection it was published to has
\* gone, or had not yet been there.
ReachedReader ==
  \A s \in Socket : Quiet /\ Served(s) /\ status = "delivered" /\ fresh => got[s]

\* When all is done, a message that was delivered while connections were open
\* has been written to every one of them.
EveryConnection ==
  \A s \in Socket :
    Quiet /\ sock[s] = "ready" /\ s \notin missed /\ status = "delivered" /\ fresh => got[s]

===============================================================================
