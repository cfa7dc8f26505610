-------------------------- MODULE ChatDeliveryProofs --------------------------
(***************************************************************************)
(* Proofs about ChatDelivery, for any number of workers and connections,   *)
(* and of workers that die.  TypeOK and OneHolder go together: who         *)
(* finds the row "sent" knows by OneHolder that nobody holds the claim, so *)
(* taking it leaves one holder.                                            *)
(***************************************************************************)
EXTENDS ChatDelivery, TLAPS

\* An idle worker has a job.
LEMMA IdleJob ==
  /\ Idle \in [op : Tasks \cup {"none"}, pc : JobPoints]
  /\ Idle.pc = "idle"
  BY DEF Idle, JobPoints

\* A worker that moves to point p has a job there, and the others keep theirs.
LEMMA GotoJob ==
  ASSUME TypeOK, NEW w \in Workers, NEW p \in JobPoints, Goto(w, p)
  PROVE  /\ job' \in [Workers -> [op : Tasks \cup {"none"}, pc : JobPoints]]
         /\ job'[w].pc = p
         /\ \A v \in Workers \ {w} : job'[v] = job[v]
  BY DEF TypeOK, Goto

\* The same of a worker that ends its task.
LEMMA FinishJob ==
  ASSUME TypeOK, NEW w \in Workers, Finish(w)
  PROVE  /\ job' \in [Workers -> [op : Tasks \cup {"none"}, pc : JobPoints]]
         /\ job'[w].pc = "idle"
         /\ \A v \in Workers \ {w} : job'[v] = job[v]
  BY IdleJob DEF TypeOK, Finish

\* Ending a task with a further one queued keeps the queue within its bound.
LEMMA FinishWithQueue ==
  ASSUME TypeOK, NEW w \in Workers, NEW again \in BOOLEAN, FinishWith(w, again)
  PROVE  queued' \in [Tasks -> 0 .. MaxQueued] /\ Finish(w)
<1>1. CASE again
  BY <1>1, DeliveryAssumption DEF TypeOK, FinishWith, Tasks
<1>2. CASE ~again
  BY <1>2 DEF TypeOK, FinishWith
<1> QED
  BY <1>1, <1>2 DEF FinishWith

\* A connection that moves to point p is there, and the others stay.
LEMMA GotoSocket ==
  ASSUME TypeOK, NEW s \in Socket, NEW p \in SockPoints, GotoSock(s, p)
  PROVE  /\ sock' \in [Socket -> SockPoints]
         /\ sock'[s] = p
         /\ \A r \in Socket \ {s} : sock'[r] = sock[r]
  BY DEF TypeOK, GotoSock

\* The holder of the claim, as OneHolder has it.
LEMMA TheHolder ==
  ASSUME TypeOK, OneHolder
  PROVE  /\ status \in {"none", "sent"} => Holders = {} /\ owner = NoOne
         /\ \A w \in Workers : job[w].pc \in {"publish", "release"} => owner = w /\ Holders = {w}
         /\ \A s \in Socket : sock[s] = "write" => owner = s /\ Holders = {s}
  BY DEF TypeOK, OneHolder, Holders

\* Nobody takes or gives up the claim, and a claimed row stays claimed.
LEMMA ClaimStands ==
  ASSUME OneHolder, Holders' = Holders, owner' = owner,
         status' = status \/ status' = "read" \/ owner = NoOne
  PROVE  OneHolder'
  BY DEF OneHolder

\* A worker that neither holds the claim nor takes it.
LEMMA WorkerAside ==
  ASSUME TypeOK, OneHolder, NEW w \in Workers, UNCHANGED sock,
         \A v \in Workers \ {w} : job'[v] = job[v],
         job[w].pc \notin {"publish", "release"}, job'[w].pc \notin {"publish", "release"}
  PROVE  Holders' = Holders
  BY DEF Holders

\* A connection that neither holds the claim nor takes it.
LEMMA SocketAside ==
  ASSUME TypeOK, OneHolder, NEW s \in Socket, UNCHANGED job,
         \A r \in Socket \ {s} : sock'[r] = sock[r],
         sock[s] # "write", sock'[s] # "write"
  PROVE  Holders' = Holders
  BY DEF Holders

\* A worker or connection p takes the claim while nobody has it.
LEMMA ClaimTaken ==
  ASSUME OneHolder, NEW p \in Workers \cup Socket, Claimed(p), Holders' = Holders \cup {p}
  PROVE  OneHolder'
<1>1. owner = NoOne /\ Holders = {}
  BY DEF OneHolder, Claimed
<1>2. p # NoOne
  BY DeliveryAssumption DEF Socket
<1> QED
  BY <1>1, <1>2 DEF OneHolder, Claimed

\* Whoever holds the claim gives it up.
LEMMA ClaimGivenUp ==
  ASSUME owner' = NoOne, Holders' = {}
  PROVE  OneHolder'
  BY DEF OneHolder

\* When the one holder is a worker, and lets go, nobody is left; ...
LEMMA WorkerLetsGo ==
  ASSUME NEW w \in Workers, Holders = {w}, UNCHANGED sock,
         \A v \in Workers \ {w} : job'[v] = job[v],
         job'[w].pc \notin {"publish", "release"}
  PROVE  Holders' = {}
<1>1. \A v \in Workers : job'[v].pc \notin {"publish", "release"}
  BY DEF Holders
<1>2. \A s \in Socket : s # w /\ sock'[s] # "write"
  BY DeliveryAssumption DEF Holders, Socket
<1> QED
  BY <1>1, <1>2 DEF Holders

\* ... nor when it is a connection.
LEMMA SocketLetsGo ==
  ASSUME NEW s \in Socket, Holders = {s}, UNCHANGED job,
         \A r \in Socket \ {s} : sock'[r] = sock[r],
         sock'[s] # "write"
  PROVE  Holders' = {}
<1>1. \A r \in Socket : sock'[r] # "write"
  BY DEF Holders
<1>2. \A w \in Workers : w # s /\ job'[w].pc \notin {"publish", "release"}
  BY DeliveryAssumption DEF Holders, Socket
<1> QED
  BY <1>1, <1>2 DEF Holders

-------------------------------------------------------------------------------

\* The dispatcher and the broker have no part in the claim.
LEMMA DispatchKeeps ==
  ASSUME TypeOK, OneHolder, Dispatch \/ Reclaim
  PROVE  TypeOK' /\ OneHolder'
<1>1. UNCHANGED <<job, row, conns, reading, counters>> /\ TypeOK'
  <2>1. CASE ClaimOutbox
    BY <2>1 DEF ClaimOutbox, TypeOK, row, conns, counters
  <2>2. CASE HandOff
    BY <2>2, DeliveryAssumption DEF HandOff, TypeOK, row, conns, counters, Tasks
  <2>3. CASE MarkPublished
    BY <2>3 DEF MarkPublished, TypeOK, row, conns, counters
  <2>4. CASE Reclaim
    BY <2>4 DEF Reclaim, TypeOK, row, conns, counters
  <2> QED
    BY <2>1, <2>2, <2>3, <2>4 DEF Dispatch
<1> QED
  BY <1>1, ClaimStands DEF Holders, row, conns

\* A delivery task takes the claim only as ClaimDelivery does, and gives it up
\* only when it has published or has put the row back.
LEMMA TaskKeeps ==
  ASSUME TypeOK, OneHolder, NEW w \in Workers, TaskStep(w) \/ \E k \in Tasks : TakeTask(w, k)
  PROVE  TypeOK' /\ OneHolder'
<1>1. CASE \E k \in Tasks : TakeTask(w, k)
  <2>1. PICK k \in Tasks : TakeTask(w, k)
    BY <1>1
  <2>2. queued' \in [Tasks -> 0 .. MaxQueued]
    BY <2>1, DeliveryAssumption DEF TakeTask, TypeOK
  <2>3. /\ job' \in [Workers -> [op : Tasks \cup {"none"}, pc : JobPoints]]
        /\ job'[w].pc = "create"
        /\ \A v \in Workers \ {w} : job'[v] = job[v]
    BY <2>1 DEF TakeTask, TypeOK, JobPoints
  <2> QED
    BY <2>1, <2>2, <2>3, WorkerAside, ClaimStands
    DEF TakeTask, At, TypeOK, row, conns, counters
<1>2. CASE CreateRow(w)
  <2>1. PICK p \in {"pending", "online"} : Goto(w, p)
    BY <1>2 DEF CreateRow
  <2>2. owner = NoOne \/ status' = status
    BY <1>2, TheHolder DEF CreateRow
  <2>3. Holders' = Holders
    BY <1>2, <2>1, GotoJob, WorkerAside DEF CreateRow, At, JobPoints, conns
  <2>4. TypeOK'
    BY <1>2, <2>1, GotoJob DEF CreateRow, TypeOK, JobPoints, broker, conns, counters
  <2> QED
    BY <1>2, <2>2, <2>3, <2>4, ClaimStands DEF CreateRow
<1>3. CASE ReadPending(w)
  <2>1. Goto(w, "online") \/ Finish(w)
    BY <1>3 DEF ReadPending
  <2>2. Holders' = Holders
    BY <1>3, <2>1, GotoJob, FinishJob, WorkerAside DEF ReadPending, At, JobPoints, conns
  <2>3. TypeOK'
    BY <1>3, <2>1, GotoJob, FinishJob DEF ReadPending, TypeOK, JobPoints, broker, row, conns, counters
  <2> QED
    BY <1>3, <2>2, <2>3, ClaimStands DEF ReadPending, row
<1>4. CASE ReadOnline(w)
  <2>1. /\ Goto(w, "claim") \/ Finish(w)
        /\ queued' \in [Tasks -> 0 .. MaxQueued]
    BY <1>4, FinishWithQueue DEF ReadOnline, TypeOK
  <2>2. Holders' = Holders
    BY <1>4, <2>1, GotoJob, FinishJob, WorkerAside DEF ReadOnline, At, JobPoints, conns
  <2>3. TypeOK'
    BY <1>4, <2>1, GotoJob, FinishJob DEF ReadOnline, TypeOK, JobPoints, row, conns, counters
  <2> QED
    BY <1>4, <2>2, <2>3, ClaimStands DEF ReadOnline, row
<1>5. CASE ClaimDelivery(w)
  <2>1. CASE Claimed(w) /\ Goto(w, "publish") /\ UNCHANGED queued
    <3>1. Holders' = Holders \cup {w}
      BY <1>5, <2>1, GotoJob DEF ClaimDelivery, Holders, JobPoints, conns
    <3>2. TypeOK'
      BY <1>5, <2>1, GotoJob DEF ClaimDelivery, Claimed, TypeOK, JobPoints, conns, counters
    <3> QED
      BY <2>1, <3>1, <3>2, ClaimTaken
  <2>2. CASE status # "sent" /\ FinishWith(w, job[w].op = "notify") /\ UNCHANGED row
    <3>1. Finish(w) /\ queued' \in [Tasks -> 0 .. MaxQueued]
      BY <2>2, FinishWithQueue
    <3>2. Holders' = Holders
      BY <1>5, <3>1, FinishJob, WorkerAside DEF ClaimDelivery, At, conns
    <3>3. TypeOK'
      BY <1>5, <2>2, <3>1, FinishJob DEF ClaimDelivery, TypeOK, row, conns, counters
    <3> QED
      BY <2>2, <3>2, <3>3, ClaimStands DEF row
  <2> QED
    BY <1>5, <2>1, <2>2 DEF ClaimDelivery
<1>6. CASE Publish(w)
  <2>1. Holders = {w}
    BY <1>6, TheHolder DEF Publish, At
  <2>2. Holders' = {}
    BY <1>6, <2>1, FinishJob, WorkerLetsGo DEF Publish
  <2>3. TypeOK'
    BY <1>6, FinishJob DEF Publish, TypeOK, broker, counters
  <2> QED
    BY <1>6, <2>2, <2>3, ClaimGivenUp DEF Publish
<1>7. CASE Release(w)
  <2>1. Finish(w) /\ queued' \in [Tasks -> 0 .. MaxQueued]
    BY <1>7, FinishWithQueue DEF Release
  <2>2. Holders = {w}
    BY <1>7, TheHolder DEF Release, At
  <2>3. Holders' = {}
    BY <1>7, <2>1, <2>2, FinishJob, WorkerLetsGo DEF Release, conns
  <2>4. TypeOK'
    BY <1>7, <2>1, FinishJob DEF Release, Released, TypeOK, conns, counters
  <2> QED
    BY <1>7, <2>3, <2>4, ClaimGivenUp DEF Release, Released
<1> QED
  BY <1>1, <1>2, <1>3, <1>4, <1>5, <1>6, <1>7 DEF TaskStep

\* A connection takes the claim only as ClaimQueued does, and gives it up when
\* it has written the message.
LEMMA SocketKeeps ==
  ASSUME TypeOK, OneHolder, NEW s \in Socket, SocketStep(s)
  PROVE  TypeOK' /\ OneHolder'
<1>1. CASE Register(s)
  <2>1. Holders' = Holders
    BY <1>1, GotoSocket, SocketAside DEF Register, SockPoints
  <2>2. TypeOK'
    BY <1>1, GotoSocket DEF Register, TypeOK, SockPoints, broker, row, counters
  <2> QED
    BY <1>1, <2>1, <2>2, ClaimStands DEF Register, row
<1>2. CASE ReadQueue(s)
  <2>1. PICK p \in {"claim", "replay"} : GotoSock(s, p)
    BY <1>2 DEF ReadQueue
  <2>2. Holders' = Holders
    BY <1>2, <2>1, GotoSocket, SocketAside DEF ReadQueue, SockPoints
  <2>3. TypeOK'
    BY <1>2, <2>1, GotoSocket DEF ReadQueue, TypeOK, SockPoints, broker, row, counters
  <2> QED
    BY <1>2, <2>2, <2>3, ClaimStands DEF ReadQueue, row
<1>3. CASE ClaimQueued(s)
  <2>1. CASE Claimed(s) /\ GotoSock(s, "write")
    <3>1. Holders' = Holders \cup {s}
      BY <1>3, <2>1, GotoSocket DEF ClaimQueued, Holders, SockPoints
    <3>2. TypeOK'
      BY <1>3, <2>1, GotoSocket DEF ClaimQueued, Claimed, TypeOK, SockPoints, broker, counters
    <3> QED
      BY <2>1, <3>1, <3>2, ClaimTaken
  <2>2. CASE GotoSock(s, "replay") /\ UNCHANGED row
    <3>1. Holders' = Holders
      BY <1>3, <2>2, GotoSocket, SocketAside DEF ClaimQueued, SockPoints
    <3>2. TypeOK'
      BY <1>3, <2>2, GotoSocket DEF ClaimQueued, TypeOK, SockPoints, broker, row, counters
    <3> QED
      BY <2>2, <3>1, <3>2, ClaimStands DEF row
  <2> QED
    BY <1>3, <2>1, <2>2 DEF ClaimQueued
<1>4. CASE WriteQueued(s)
  <2>1. Holders = {s}
    BY <1>4, TheHolder DEF WriteQueued
  <2>2. Holders' = {}
    BY <1>4, <2>1, GotoSocket, SocketLetsGo DEF WriteQueued, SockPoints
  <2>3. TypeOK'
    BY <1>4, GotoSocket DEF WriteQueued, Written, TypeOK, SockPoints, broker, counters
  <2> QED
    BY <1>4, <2>2, <2>3, ClaimGivenUp DEF WriteQueued
<1>5. CASE ReadReplay(s)
  <2>1. PICK p \in {"rewrite", "ready"} : GotoSock(s, p)
    BY <1>5 DEF ReadReplay
  <2>2. Holders' = Holders
    BY <1>5, <2>1, GotoSocket, SocketAside DEF ReadReplay, SockPoints
  <2>3. TypeOK'
    BY <1>5, <2>1, GotoSocket DEF ReadReplay, TypeOK, SockPoints, broker, row, counters
  <2> QED
    BY <1>5, <2>2, <2>3, ClaimStands DEF ReadReplay, row
<1>6. CASE Rewrite(s)
  <2>1. Holders' = Holders
    BY <1>6, GotoSocket, SocketAside DEF Rewrite, SockPoints
  <2>2. TypeOK'
    BY <1>6, GotoSocket DEF Rewrite, Written, TypeOK, SockPoints, broker, row, counters
  <2> QED
    BY <1>6, <2>1, <2>2, ClaimStands DEF Rewrite, row
<1>7. CASE Receive(s)
  <2>1. inbox' \in [Socket -> Nat]
    BY <1>7 DEF Receive, TypeOK
  <2>2. TypeOK'
    BY <1>7, <2>1 DEF Receive, Written, TypeOK, broker, row, counters
  <2> QED
    BY <1>7, <2>2, ClaimStands DEF Receive, Holders, row
<1> QED
  BY <1>1, <1>2, <1>3, <1>4, <1>5, <1>6, <1>7 DEF SocketStep

\* Failures, deaths and departures: the one who held the claim is gone with it,
\* or has put it back.
LEMMA EnvironmentKeeps ==
  ASSUME TypeOK, OneHolder, Environment
  PROVE  TypeOK' /\ OneHolder'
<1>1. CASE Reclaim
  BY <1>1, DispatchKeeps
<1>2. CASE GoOffline
  <2>1. TypeOK'
    BY <1>2 DEF GoOffline, TypeOK, broker, row, counters
  <2> QED
    BY <1>2, <2>1, ClaimStands DEF GoOffline, Holders, row
<1>3. CASE MarkChatRead \/ SaveStatus
  <2>1. /\ status' = "read" /\ fresh' = FALSE /\ reading' \in BOOLEAN
        /\ UNCHANGED <<broker, job, owner, conns, counters>>
    BY <1>3 DEF MarkChatRead, SaveStatus, TypeOK
  <2>2. TypeOK'
    BY <2>1 DEF TypeOK, broker, conns, counters
  <2> QED
    BY <2>1, <2>2, ClaimStands DEF Holders, conns
<1>4. CASE ReadStatus \/ WindowPasses
  <2>1. /\ fresh' \in BOOLEAN /\ reading' \in BOOLEAN
        /\ UNCHANGED <<broker, job, status, owner, conns, counters>>
    BY <1>4 DEF ReadStatus, WindowPasses, TypeOK, row
  <2>2. TypeOK'
    BY <2>1 DEF TypeOK, broker, conns, counters
  <2> QED
    BY <2>1, <2>2, ClaimStands DEF Holders, conns
<1>5. ASSUME NEW w \in Workers, PublishFails(w)
      PROVE  TypeOK' /\ OneHolder'
  <2>1. Holders' = Holders
    BY <1>5, GotoJob DEF PublishFails, At, Holders, JobPoints, conns
  <2>2. failures' \in 0 .. MaxFailures
    BY <1>5, DeliveryAssumption DEF PublishFails, TypeOK
  <2>3. TypeOK'
    BY <1>5, <2>2, GotoJob DEF PublishFails, TypeOK, JobPoints, broker, row, conns
  <2> QED
    BY <1>5, <2>1, <2>3, ClaimStands DEF PublishFails, row
<1>6. ASSUME NEW w \in Workers, Die(w)
      PROVE  TypeOK' /\ OneHolder'
  <2>1. deaths' \in 0 .. MaxDeaths /\ missed' \subseteq Socket
    BY <1>6, DeliveryAssumption DEF Die, TypeOK
  <2>2. TypeOK'
    BY <1>6, <2>1, FinishJob DEF Die, TypeOK, broker, conns
  <2>3. CASE owner = w
    <3>1. Holders = {w}
      BY <2>3, DeliveryAssumption DEF OneHolder
    <3>2. Holders' = {}
      BY <1>6, <3>1, FinishJob, WorkerLetsGo DEF Die, conns
    <3> QED
      BY <1>6, <2>2, <2>3, <3>2, ClaimGivenUp DEF Die
  <2>4. CASE owner # w
    <3>1. job[w].pc \notin {"publish", "release"}
      BY <2>4, TheHolder
    <3>2. Holders' = Holders
      BY <1>6, <3>1, FinishJob, WorkerAside DEF Die, conns
    <3> QED
      BY <1>6, <2>2, <2>4, <3>2, ClaimStands DEF Die
  <2> QED
    BY <2>3, <2>4
<1>7. ASSUME NEW s \in Socket, Connect(s)
      PROVE  TypeOK' /\ OneHolder'
  <2>1. Holders' = Holders
    BY <1>7, GotoSocket, SocketAside DEF Connect, SockPoints
  <2>2. TypeOK'
    BY <1>7, GotoSocket DEF Connect, TypeOK, SockPoints, broker, row, counters
  <2> QED
    BY <1>7, <2>1, <2>2, ClaimStands DEF Connect, row
<1>8. ASSUME NEW s \in Socket, Drop(s)
      PROVE  TypeOK' /\ OneHolder'
  <2>1. inbox' \in [Socket -> Nat] /\ missed' \subseteq Socket
    BY <1>8 DEF Drop, TypeOK
  <2>2. TypeOK'
    BY <1>8, <2>1 DEF Drop, TypeOK, broker, row
  <2> QED
    BY <1>8, <2>2, ClaimStands DEF Drop, Holders, row
<1>9. ASSUME NEW s \in Socket, Disconnect(s)
      PROVE  TypeOK' /\ OneHolder'
  <2>1. /\ sock' \in [Socket -> SockPoints]
        /\ sock'[s] = "closed"
        /\ \A r \in Socket \ {s} : sock'[r] = sock[r]
    BY <1>9, GotoSocket DEF Disconnect, SockPoints
  <2>2. /\ status' \in {"none", "sent", "delivered", "read"}
        /\ fresh' \in BOOLEAN
        /\ owner' \in Workers \cup Socket \cup {NoOne}
    BY <1>9 DEF Disconnect, Released, Claimed, TypeOK, row
  <2>3. TypeOK'
    BY <1>9, <2>1, <2>2 DEF Disconnect, TypeOK, broker
  <2>4. CASE sock[s] = "write" /\ Released
    <3>1. Holders' = {}
      BY <1>9, <2>1, <2>4, TheHolder, SocketLetsGo DEF Disconnect
    <3> QED
      BY <2>3, <2>4, <3>1, ClaimGivenUp DEF Released
  <2>5. CASE sock[s] = "claim" /\ Claimed(NoOne)
    <3>1. Holders = {}
      BY <2>5, TheHolder DEF Claimed
    <3>2. Holders' = Holders
      BY <1>9, <2>1, <2>5, SocketAside DEF Disconnect
    <3> QED
      BY <2>3, <2>5, <3>1, <3>2, ClaimGivenUp DEF Claimed
  <2>6. CASE sock[s] # "write" /\ UNCHANGED row
    <3>1. Holders' = Holders
      BY <1>9, <2>1, <2>6, SocketAside DEF Disconnect
    <3> QED
      BY <2>3, <2>6, <3>1, ClaimStands DEF row
  <2> QED
    BY <1>9, <2>4, <2>5, <2>6 DEF Disconnect
<1> QED
  BY <1>1, <1>2, <1>3, <1>4, <1>5, <1>6, <1>7, <1>8, <1>9 DEF Environment

\* Whatever the delivery task, the fan-out and any number of connections do at
\* the same time, at most one of them is delivering the message, and a message
\* being delivered is not found pending by another (claim_recipients_for_delivery).
THEOREM OneHolderHolds == Spec => [](TypeOK /\ OneHolder)
<1>1. Init => TypeOK /\ OneHolder
  <2> SUFFICES ASSUME Init PROVE TypeOK /\ OneHolder
    OBVIOUS
  <2>1. 0 \in 0 .. MaxQueued /\ 0 \in 0 .. MaxFailures /\ 0 \in 0 .. MaxDeaths
    BY DeliveryAssumption
  <2>2. job \in [Workers -> [op : Tasks \cup {"none"}, pc : JobPoints]]
    BY IdleJob DEF Init
  <2>3. TypeOK
    BY <2>1, <2>2 DEF Init, TypeOK, SockPoints
  <2> QED
    BY <2>3, IdleJob DEF Init, OneHolder, Holders
<1>2. TypeOK /\ OneHolder /\ [Next]_vars => TypeOK' /\ OneHolder'
  <2> SUFFICES ASSUME TypeOK, OneHolder, [Next]_vars PROVE TypeOK' /\ OneHolder'
    OBVIOUS
  <2>1. CASE Next
    BY <2>1, DispatchKeeps, TaskKeeps, SocketKeeps, EnvironmentKeeps DEF Next
  <2>2. CASE UNCHANGED vars
    BY <2>2 DEF vars, TypeOK, OneHolder, Holders
  <2> QED
    BY <2>1, <2>2
<1> QED
  BY <1>1, <1>2, PTL DEF Spec

\* A message once read is never marked unread, or pending again, by a path that
\* had claimed it before (the status='delivered' filter of the release).
THEOREM ReadStaysHolds == Spec => ReadStays
<1>1. [Next]_vars => [status = "read" => status' = "read"]_vars
  <2> SUFFICES ASSUME Next, status = "read" PROVE status' = "read"
    OBVIOUS
  <2>1. CASE Dispatch \/ Reclaim
    BY <2>1 DEF Dispatch, ClaimOutbox, HandOff, MarkPublished, Reclaim, row
  <2>2. ASSUME NEW w \in Workers, TaskStep(w) \/ \E k \in Tasks : TakeTask(w, k)
        PROVE  status' = "read"
    BY <2>2 DEF TaskStep, TakeTask, CreateRow, ReadPending, ReadOnline, ClaimDelivery, Claimed,
                Publish, Release, Released, row
  <2>3. ASSUME NEW s \in Socket, SocketStep(s)
        PROVE  status' = "read"
    BY <2>3 DEF SocketStep, Register, ReadQueue, ClaimQueued, Claimed, WriteQueued, ReadReplay,
                Rewrite, Receive, row
  <2>4. CASE Environment
    BY <2>1, <2>4 DEF Environment, GoOffline, MarkChatRead, ReadStatus, SaveStatus, WindowPasses,
                PublishFails, Die, Connect, Drop, Disconnect, Released, Claimed, row
  <2> QED
    BY <2>1, <2>2, <2>3, <2>4 DEF Next
<1> QED
  BY <1>1, PTL DEF Spec, ReadStays

-------------------------------------------------------------------------------
(* What connections hide from one another, and what the delivery paths     *)
(* leave for the next.  With connections one after the other, an open one  *)
(* is alone; a row that is pending has a task on its way, or every         *)
(* connection has yet to read its queue; and a message marked as delivered *)
(* is with every connection that is ready, or on its way to it.            *)

Late(s) == sock[s] \notin {"new", "joined", "registered", "claim", "closed"}

Busy == (\E k \in Tasks : queued[k] > 0) \/ (\E w \in Workers : ~At(w, "idle"))

Sequential == \A r, s \in Socket : r < s /\ sock[s] # "new" => sock[r] = "closed"

SeenOnline == (\E s \in Socket : sock[s] \notin {"new", "joined", "closed"}) => online

PendingCared == status = "sent" => Busy \/ \A s \in Socket : Late(s) => s \in missed

FreshReached ==
  status = "delivered" /\ fresh =>
    \A s \in Socket :
      sock[s] = "ready" => got[s] \/ inbox[s] > 0 \/ s \in missed \/ owner \in Workers

\* An open connection is the only one.
LEMMA OpenIsAlone ==
  ASSUME Sequential, NEW s \in Socket, Open(s)
  PROVE  \A r \in Socket \ {s} : sock[r] \in {"new", "closed"}
<1> SUFFICES ASSUME NEW r \in Socket \ {s} PROVE sock[r] \in {"new", "closed"}
  OBVIOUS
<1>1. r \in Int /\ s \in Int
  BY DeliveryAssumption DEF Socket
<1>2. CASE r < s
  BY <1>2 DEF Sequential, Open
<1>3. CASE s < r
  BY <1>3 DEF Sequential, Open
<1> QED
  BY <1>1, <1>2, <1>3

\* A connection that is open, and stays so or closes, keeps the order; ...
LEMMA OpenMoves ==
  ASSUME TypeOK, Sequential, NEW s \in Socket, Open(s), NEW p \in SockPoints \ {"new"}, GotoSock(s, p)
  PROVE  Sequential'
<1>1. /\ sock'[s] = p
      /\ \A r \in Socket \ {s} : sock'[r] = sock[r]
  BY GotoSocket
<1> SUFFICES ASSUME NEW r \in Socket, NEW q \in Socket, r < q, sock'[q] # "new"
             PROVE  sock'[r] = "closed"
  BY DEF Sequential
<1>2. sock[q] # "new" /\ sock[r] = "closed"
  BY <1>1 DEF Sequential, Open
<1> QED
  BY <1>1, <1>2 DEF Open

\* ... and so does a new one, which finds those before it closed.
LEMMA SequentialKept ==
  ASSUME TypeOK, ~Overlap, Sequential, Next
  PROVE  Sequential'
<1>1. CASE UNCHANGED sock
  BY <1>1 DEF Sequential
<1>2. ASSUME NEW s \in Socket, SocketStep(s) \/ Disconnect(s)
      PROVE  Sequential'
  <2>1. UNCHANGED sock \/ \E p \in SockPoints \ {"new"} : Open(s) /\ GotoSock(s, p)
    BY <1>2 DEF SocketStep, Register, ReadQueue, ClaimQueued, WriteQueued, ReadReplay, Rewrite,
                Receive, Disconnect, SockPoints, Open
  <2> QED
    BY <1>1, <2>1, OpenMoves
<1>3. ASSUME NEW s \in Socket, Connect(s)
      PROVE  Sequential'
  <2>1. /\ sock'[s] = "joined"
        /\ \A r \in Socket \ {s} : sock'[r] = sock[r]
    BY <1>3, GotoSocket DEF Connect, SockPoints
  <2>2. sock[s] = "new" /\ \A r \in Socket : r < s => sock[r] = "closed"
    BY <1>3 DEF Connect
  <2> SUFFICES ASSUME NEW r \in Socket, NEW q \in Socket, r < q, sock'[q] # "new"
               PROVE  sock'[r] = "closed"
    BY DEF Sequential
  <2>3. r # q
    BY DeliveryAssumption DEF Socket
  <2>4. sock[r] = "closed"
    BY <2>1, <2>2 DEF Sequential
  <2> QED
    BY <2>1, <2>2, <2>4
<1>4. CASE Dispatch \/ Reclaim
  BY <1>1, <1>4 DEF Dispatch, ClaimOutbox, HandOff, MarkPublished, Reclaim, conns
<1>5. ASSUME NEW w \in Workers, \/ TaskStep(w) \/ PublishFails(w) \/ Die(w)
                                \/ \E k \in Tasks : TakeTask(w, k)
      PROVE  Sequential'
  BY <1>1, <1>5 DEF TaskStep, TakeTask, CreateRow, ReadPending, ReadOnline, ClaimDelivery, Publish,
                    Release, PublishFails, Die, conns
<1>6. CASE GoOffline \/ MarkChatRead \/ ReadStatus \/ SaveStatus \/ WindowPasses
  BY <1>1, <1>6 DEF GoOffline, MarkChatRead, ReadStatus, SaveStatus, WindowPasses, conns
<1>7. ASSUME NEW s \in Socket, Drop(s)
      PROVE  Sequential'
  BY <1>1, <1>7 DEF Drop
<1> QED
  BY <1>2, <1>3, <1>4, <1>5, <1>6, <1>7 DEF Next, Environment

\* The recipient is online from the first registration to the last departure.
LEMMA SeenOnlineKept ==
  ASSUME TypeOK, SeenOnline, Next
  PROVE  SeenOnline'
<1>1. CASE UNCHANGED <<sock, online>>
  BY <1>1 DEF SeenOnline
<1>2. ASSUME NEW s \in Socket, SocketStep(s) \/ Disconnect(s) \/ Connect(s)
      PROVE  SeenOnline'
  <2>1. CASE Register(s)
    BY <2>1 DEF Register, SeenOnline
  <2>2. CASE ~Register(s)
    <3>1. /\ UNCHANGED online
          /\ \/ UNCHANGED sock
             \/ \E p \in SockPoints :
                  /\ GotoSock(s, p)
                  /\ sock[s] \notin {"new", "joined", "closed"} \/ p \in {"joined", "closed"}
      BY <1>2, <2>2 DEF SocketStep, ReadQueue, ClaimQueued, WriteQueued, ReadReplay, Rewrite,
                        Receive, Disconnect, Connect, SockPoints, Open
    <3>2. \A r \in Socket : sock'[r] \notin {"new", "joined", "closed"} =>
            \E q \in Socket : sock[q] \notin {"new", "joined", "closed"}
      BY <3>1, GotoSocket
    <3> QED
      BY <3>1, <3>2 DEF SeenOnline
  <2> QED
    BY <2>1, <2>2
<1>3. CASE GoOffline
  BY <1>3 DEF GoOffline, SeenOnline
<1>4. CASE Dispatch \/ Reclaim
  BY <1>1, <1>4 DEF Dispatch, ClaimOutbox, HandOff, MarkPublished, Reclaim, conns
<1>5. ASSUME NEW w \in Workers, \/ TaskStep(w) \/ PublishFails(w) \/ Die(w)
                                \/ \E k \in Tasks : TakeTask(w, k)
      PROVE  SeenOnline'
  BY <1>1, <1>5 DEF TaskStep, TakeTask, CreateRow, ReadPending, ReadOnline, ClaimDelivery, Publish,
                    Release, PublishFails, Die, conns
<1>6. CASE MarkChatRead \/ ReadStatus \/ SaveStatus \/ WindowPasses
  BY <1>1, <1>6 DEF MarkChatRead, ReadStatus, SaveStatus, WindowPasses, conns
<1>7. ASSUME NEW s \in Socket, Drop(s)
      PROVE  SeenOnline'
  BY <1>1, <1>7 DEF Drop
<1> QED
  BY <1>2, <1>3, <1>4, <1>5, <1>6, <1>7 DEF Next, Environment

\* Nothing that concerns the care for a pending row has changed.
LEMMA PendingAsIs ==
  ASSUME PendingCared, status' = "sent" => status = "sent", UNCHANGED <<queued, job>>,
         \A s \in Socket : s \in missed => s \in missed' \/ ~Late(s)',
         \A s \in Socket : Late(s)' => Late(s)
  PROVE  PendingCared'
<1> SUFFICES ASSUME status' = "sent" PROVE PendingCared'
  BY DEF PendingCared
<1>1. Busy \/ \A s \in Socket : Late(s) => s \in missed
  BY DEF PendingCared
<1>2. CASE Busy
  BY <1>2 DEF Busy, At, PendingCared
<1>3. CASE \A s \in Socket : Late(s) => s \in missed
  BY <1>3 DEF PendingCared
<1> QED
  BY <1>1, <1>2, <1>3

\* A pending row is left either to a task or to the next connection.
LEMMA PendingKept ==
  ASSUME TypeOK, OneHolder, ~Overlap, Sequential, SeenOnline, PendingCared, Next
  PROVE  PendingCared'
<1>1. CASE status' # "sent"
  BY <1>1 DEF PendingCared
<1>2. CASE Busy'
  BY <1>2 DEF PendingCared
<1>3. ASSUME NEW w \in Workers, TaskStep(w) \/ \E k \in Tasks : TakeTask(w, k)
      PROVE  PendingCared'
  <2>1. CASE \E k \in Tasks : TakeTask(w, k)
    <3>1. job'[w].pc = "create"
      BY <2>1 DEF TakeTask, TypeOK
    <3> QED
      BY <1>2, <3>1 DEF Busy, At
  <2>2. CASE CreateRow(w)
    <3>1. PICK p \in {"pending", "online"} : Goto(w, p)
      BY <2>2 DEF CreateRow
    <3>2. job'[w].pc = p
      BY <3>1, GotoJob DEF JobPoints
    <3> QED
      BY <1>2, <3>2 DEF Busy, At
  <2>3. CASE ReadPending(w)
    <3>1. CASE status = "sent"
      <4>1. job'[w].pc = "online"
        BY <2>3, <3>1, GotoJob DEF ReadPending, JobPoints
      <4> QED
        BY <1>2, <4>1 DEF Busy, At
    <3>2. CASE status # "sent"
      BY <1>1, <2>3, <3>2 DEF ReadPending, row
    <3> QED
      BY <3>1, <3>2
  <2>4. CASE ReadOnline(w)
    <3>1. CASE online
      <4>1. job'[w].pc = "claim"
        BY <2>4, <3>1, GotoJob DEF ReadOnline, JobPoints
      <4> QED
        BY <1>2, <4>1 DEF Busy, At
    <3>2. CASE ~online
      <4>1. \A s \in Socket : ~Late(s)
        BY <3>2 DEF SeenOnline, Late
      <4>2. \A s \in Socket : ~Late(s)'
        BY <2>4, <4>1 DEF ReadOnline, conns, Late
      <4> QED
        BY <4>2 DEF PendingCared
    <3> QED
      BY <3>1, <3>2
  <2>5. CASE ClaimDelivery(w)
    BY <1>1, <2>5 DEF ClaimDelivery, Claimed, row
  <2>6. CASE Publish(w)
    <3>1. status # "sent"
      BY <2>6, TheHolder DEF Publish, At, TypeOK
    <3> QED
      BY <1>1, <2>6, <3>1 DEF Publish
  <2>7. CASE Release(w)
    <3>1. queued'["deliver"] = queued["deliver"] + 1
      BY <2>7 DEF Release, FinishWith, TypeOK, Tasks
    <3>2. queued["deliver"] \in Nat
      BY DeliveryAssumption DEF TypeOK, Tasks
    <3>3. queued'["deliver"] > 0
      BY <3>1, <3>2
    <3> QED
      BY <1>2, <3>3 DEF Busy, Tasks
  <2> QED
    BY <1>3, <2>1, <2>2, <2>3, <2>4, <2>5, <2>6, <2>7 DEF TaskStep
<1>4. ASSUME NEW s \in Socket, SocketStep(s)
      PROVE  PendingCared'
  <2>0. SUFFICES ASSUME status' = "sent" PROVE PendingCared'
    BY <1>1
  <2>1. /\ UNCHANGED <<queued, job, missed>>
        /\ status = "sent"
        /\ UNCHANGED sock \/ \E p \in SockPoints : GotoSock(s, p) /\ (Late(s) \/ p \in {"registered", "claim"})
    BY <1>4, <2>0 DEF SocketStep, Register, ReadQueue, ClaimQueued, Claimed, WriteQueued, ReadReplay,
                Rewrite, Receive, SockPoints, Late, broker, row, counters
  <2>2. \A r \in Socket : Late(r)' => Late(r)
    BY <2>1, GotoSocket DEF Late
  <2> QED
    BY <2>1, <2>2, PendingAsIs
<1>5. ASSUME NEW w \in Workers, PublishFails(w)
      PROVE  PendingCared'
  <2>1. job'[w].pc = "release"
    BY <1>5, GotoJob DEF PublishFails, JobPoints
  <2> QED
    BY <1>2, <2>1 DEF Busy, At
<1>6. ASSUME NEW w \in Workers, Die(w)
      PROVE  PendingCared'
  <2>1. \A s \in Socket : Late(s)' => s \in missed'
    BY <1>6 DEF Die, conns, Late, Open
  <2> QED
    BY <2>1 DEF PendingCared
<1>7. ASSUME NEW s \in Socket, Disconnect(s)
      PROVE  PendingCared'
  <2>1. \A r \in Socket : sock'[r] \in {"new", "closed"}
    BY <1>7, OpenIsAlone, GotoSocket DEF Disconnect, SockPoints
  <2> QED
    BY <2>1 DEF PendingCared, Late
<1>8. ASSUME NEW s \in Socket, Connect(s)
      PROVE  PendingCared'
  <2>1. \A r \in Socket : Late(r)' => Late(r)
    BY <1>8, GotoSocket DEF Connect, SockPoints, Late
  <2> QED
    BY <1>8, <2>1, PendingAsIs DEF Connect, broker, row, counters
<1>9. ASSUME NEW s \in Socket, Drop(s)
      PROVE  PendingCared'
  <2>1. \A r \in Socket : Late(r)' => Late(r)
    BY <1>9 DEF Drop, Late
  <2>2. \A r \in Socket : r \in missed => r \in missed'
    BY <1>9 DEF Drop
  <2> QED
    BY <1>9, <2>1, <2>2, PendingAsIs DEF Drop, broker, row
<1>10. CASE Dispatch \/ Reclaim
  <2>1. CASE HandOff
    <3>1. queued["notify"] \in Nat /\ queued'["notify"] = queued["notify"] + 1
      BY <2>1, DeliveryAssumption DEF HandOff, TypeOK, Tasks
    <3>2. queued'["notify"] > 0
      BY <3>1
    <3> QED
      BY <1>2, <3>2 DEF Busy, Tasks
  <2>2. CASE ~HandOff
    <3>1. UNCHANGED <<queued, job, row, conns, counters>>
      BY <1>10, <2>2 DEF Dispatch, ClaimOutbox, MarkPublished, Reclaim
    <3> QED
      BY <3>1, PendingAsIs DEF Late, row, conns, counters
  <2> QED
    BY <2>1, <2>2
<1>11. CASE GoOffline \/ MarkChatRead \/ ReadStatus \/ SaveStatus \/ WindowPasses
  <2>1. /\ status' = "sent" => status = "sent"
        /\ UNCHANGED <<queued, job, sock, missed>>
    BY <1>11 DEF GoOffline, MarkChatRead, ReadStatus, SaveStatus, WindowPasses, broker, row, conns,
                 counters
  <2> QED
    BY <2>1, PendingAsIs DEF Late
<1> QED
  BY <1>3, <1>4, <1>5, <1>6, <1>7, <1>8, <1>9, <1>10, <1>11 DEF Next, Environment

\* A step that marks nothing as delivered, and takes a message from no
\* connection that is ready but to write it.
LEMMA ReachedAsIs ==
  ASSUME FreshReached, status' = "delivered" /\ fresh' => status = "delivered" /\ fresh,
         \A s \in Socket : sock'[s] = "ready" =>
            \/ got'[s] \/ inbox'[s] > 0 \/ s \in missed' \/ owner' \in Workers
            \/ /\ sock[s] = "ready"
               /\ got[s] => got'[s]
               /\ inbox[s] > 0 => inbox'[s] > 0
               /\ s \in missed => s \in missed'
               /\ owner \in Workers => owner' \in Workers
  PROVE  FreshReached'
BY DEF FreshReached

\* Whoever takes the claim carries the message to every connection that is
\* ready: a task by publishing to all, a connection because it is the only one.
LEMMA ReachedKept ==
  ASSUME TypeOK, OneHolder, ~Overlap, Sequential, FreshReached, Next
  PROVE  FreshReached'
<1>1. CASE ~(status' = "delivered" /\ fresh')
  BY <1>1 DEF FreshReached
<1>2. ASSUME /\ status' = "delivered" /\ fresh' => status = "delivered" /\ fresh
             /\ UNCHANGED <<owner, sock, inbox, got, missed>>
      PROVE  FreshReached'
  BY <1>2, ReachedAsIs
<1>3. ASSUME NEW w \in Workers, TaskStep(w) \/ \E k \in Tasks : TakeTask(w, k)
      PROVE  FreshReached'
  <2>1. CASE ClaimDelivery(w) /\ Claimed(w)
    BY <2>1 DEF Claimed, FreshReached
  <2>2. CASE Publish(w)
    <3>1. \A s \in Socket : sock'[s] = "ready" => inbox[s] \in Nat /\ inbox'[s] = inbox[s] + 1
      BY <2>2 DEF Publish, Open, TypeOK
    <3>2. \A s \in Socket : sock'[s] = "ready" => inbox'[s] > 0
      BY <3>1
    <3> QED
      BY <3>2 DEF FreshReached
  <2>3. CASE Release(w)
    BY <1>1, <2>3 DEF Release, Released
  <2>4. CASE CreateRow(w)
    BY <1>2, <2>4 DEF CreateRow, conns, counters
  <2>5. CASE ~(ClaimDelivery(w) /\ Claimed(w)) /\ ~Publish(w) /\ ~Release(w) /\ ~CreateRow(w)
    <3>1. UNCHANGED <<row, conns, counters>>
      BY <1>3, <2>5 DEF TaskStep, TakeTask, ReadPending, ReadOnline, ClaimDelivery
    <3> QED
      BY <1>2, <3>1 DEF row, conns, counters
  <2> QED
    BY <2>1, <2>2, <2>3, <2>4, <2>5
<1>4. ASSUME NEW s \in Socket, SocketStep(s)
      PROVE  FreshReached'
  <2>1. CASE Register(s) \/ ReadQueue(s) \/ ReadReplay(s)
    <3>1. PICK p \in {"registered", "claim", "replay", "rewrite", "ready"} :
            GotoSock(s, p) /\ (p = "ready" => ~(status' = "delivered" /\ fresh'))
      BY <2>1 DEF Register, ReadQueue, ReadReplay, row
    <3>2. UNCHANGED <<row, inbox, got, missed>>
      BY <2>1 DEF Register, ReadQueue, ReadReplay, counters
    <3>3. CASE p = "ready"
      BY <1>1, <3>1, <3>3
    <3>4. CASE p # "ready"
      <4>1. \A r \in Socket : sock'[r] = "ready" => sock[r] = "ready"
        BY <3>1, <3>4, GotoSocket DEF SockPoints
      <4> QED
        BY <3>2, <4>1, ReachedAsIs DEF row
    <3> QED
      BY <3>3, <3>4
  <2>2. CASE ClaimQueued(s)
    <3>1. sock'[s] # "ready" /\ \A r \in Socket \ {s} : sock'[r] = sock[r]
      BY <2>2, GotoSocket DEF ClaimQueued, SockPoints
    <3>2. \A r \in Socket \ {s} : sock[r] # "ready"
      BY <2>2, OpenIsAlone DEF ClaimQueued, Open
    <3> QED
      BY <3>1, <3>2 DEF FreshReached
  <2>3. CASE WriteQueued(s)
    <3>1. sock'[s] # "ready" /\ \A r \in Socket \ {s} : sock'[r] = sock[r]
      BY <2>3, GotoSocket DEF WriteQueued, SockPoints
    <3>2. \A r \in Socket \ {s} : sock[r] # "ready"
      BY <2>3, OpenIsAlone DEF WriteQueued, Open
    <3> QED
      BY <3>1, <3>2 DEF FreshReached
  <2>4. CASE Rewrite(s)
    <3>1. got'[s] /\ \A r \in Socket \ {s} : sock'[r] = sock[r] /\ got'[r] = got[r]
      BY <2>4, GotoSocket DEF Rewrite, Written, SockPoints, TypeOK
    <3> QED
      BY <2>4, <3>1, ReachedAsIs DEF Rewrite, row, counters
  <2>5. CASE Receive(s)
    <3>1. /\ got'[s]
          /\ \A r \in Socket \ {s} : got'[r] = got[r] /\ inbox'[r] = inbox[r]
      BY <2>5 DEF Receive, Written, TypeOK
    <3> QED
      BY <2>5, <3>1, ReachedAsIs DEF Receive, row, counters
  <2> QED
    BY <1>4, <2>1, <2>2, <2>3, <2>4, <2>5 DEF SocketStep
<1>5. ASSUME NEW w \in Workers, PublishFails(w)
      PROVE  FreshReached'
  BY <1>2, <1>5 DEF PublishFails, row, conns
<1>6. ASSUME NEW w \in Workers, Die(w)
      PROVE  FreshReached'
  BY <1>6 DEF Die, conns, Open, FreshReached
<1>7. ASSUME NEW s \in Socket, Disconnect(s)
      PROVE  FreshReached'
  <2>1. \A r \in Socket : sock'[r] \in {"new", "closed"}
    BY <1>7, OpenIsAlone, GotoSocket DEF Disconnect, SockPoints
  <2> QED
    BY <2>1 DEF FreshReached
<1>8. ASSUME NEW s \in Socket, Connect(s)
      PROVE  FreshReached'
  <2>1. \A r \in Socket : sock'[r] = "ready" => sock[r] = "ready"
    BY <1>8, GotoSocket DEF Connect, SockPoints
  <2> QED
    BY <1>8, <2>1, ReachedAsIs DEF Connect, row, counters
<1>9. ASSUME NEW s \in Socket, Drop(s)
      PROVE  FreshReached'
  <2>1. s \in missed' /\ \A r \in Socket \ {s} : inbox'[r] = inbox[r]
    BY <1>9 DEF Drop, TypeOK
  <2>2. \A r \in Socket : r \in missed => r \in missed'
    BY <1>9 DEF Drop
  <2> QED
    BY <1>9, <2>1, <2>2, ReachedAsIs DEF Drop, row
<1>10. CASE Dispatch \/ Reclaim
  BY <1>2, <1>10 DEF Dispatch, ClaimOutbox, HandOff, MarkPublished, Reclaim, row, conns, counters
<1>11. CASE GoOffline
  BY <1>2, <1>11 DEF GoOffline, row, counters
<1>12. CASE MarkChatRead \/ ReadStatus \/ SaveStatus \/ WindowPasses
  BY <1>2, <1>12 DEF MarkChatRead, ReadStatus, SaveStatus, WindowPasses, row, conns, counters
<1> QED
  BY <1>3, <1>4, <1>5, <1>6, <1>7, <1>8, <1>9, <1>10, <1>11, <1>12 DEF Next, Environment

\* The four together, for connections that are opened one after the other.
LEMMA ReachInvariant ==
  ASSUME ~Overlap
  PROVE  Spec => [](TypeOK /\ OneHolder /\ Sequential /\ SeenOnline /\ PendingCared /\ FreshReached)
<1>1. Init => Sequential /\ SeenOnline /\ PendingCared /\ FreshReached
  BY DEF Init, Sequential, SeenOnline, PendingCared, FreshReached
<1>2. TypeOK /\ OneHolder /\ Sequential /\ SeenOnline /\ PendingCared /\ FreshReached /\ [Next]_vars
        => (Sequential /\ SeenOnline /\ PendingCared /\ FreshReached)'
  <2> SUFFICES ASSUME TypeOK, OneHolder, Sequential, SeenOnline, PendingCared, FreshReached, [Next]_vars
               PROVE  (Sequential /\ SeenOnline /\ PendingCared /\ FreshReached)'
    OBVIOUS
  <2>1. CASE Next
    BY <2>1, SequentialKept, SeenOnlineKept, PendingKept, ReachedKept
  <2>2. CASE UNCHANGED vars
    BY <2>2 DEF vars, Sequential, SeenOnline, PendingCared, FreshReached, Late, Busy, At
  <2> QED
    BY <2>1, <2>2
<1> QED
  BY <1>1, <1>2, OneHolderHolds, PTL DEF Spec

\* A message does not stay pending while its recipient is connected, for any
\* number of workers, and of connections one after the other: the socket reads
\* its queue after it has been registered as online (connection_opened, then
\* send_queued_messages), and a task that finds nobody online leaves the row.
THEOREM NotStrandedHolds ==
  ASSUME ~Overlap
  PROVE  Spec => []NotStranded
<1>1. PendingCared => NotStranded
  <2>1. Quiet => ~Busy
    BY DEF Quiet, Busy
  <2>2. \A s \in Socket : Served(s) => Late(s) /\ s \notin missed
    BY DEF Served, Late
  <2> QED
    BY <2>1, <2>2 DEF NotStranded, PendingCared
<1> QED
  BY <1>1, ReachInvariant, PTL

\* What is recorded as delivered within the replay window has been written to
\* the connection that is open (claim_recipients_for_delivery, the group_send
\* of the tasks and replay_recently_delivered together).
THEOREM ReachedReaderHolds ==
  ASSUME ~Overlap
  PROVE  Spec => []ReachedReader
<1>1. OneHolder /\ FreshReached => ReachedReader
  <2> SUFFICES ASSUME OneHolder, FreshReached, NEW s \in Socket, Quiet, Served(s),
                      status = "delivered", fresh
               PROVE  got[s]
    BY DEF ReachedReader
  <2>1. owner \notin Workers
    BY DeliveryAssumption DEF OneHolder, Holders, Quiet, At, Socket
  <2>2. sock[s] = "ready" /\ s \notin missed /\ inbox[s] = 0
    BY DEF Served, Quiet
  <2>3. got[s] \/ inbox[s] > 0
    BY <2>1, <2>2 DEF FreshReached
  <2> QED
    BY <2>2, <2>3
<1> QED
  BY <1>1, ReachInvariant, PTL

\* The states of the outbox, the tasks, the row and the connections are those
\* the code names, and the counters stay within their bounds.
THEOREM TypeCorrect == Spec => []TypeOK
BY OneHolderHolds, PTL

===============================================================================
