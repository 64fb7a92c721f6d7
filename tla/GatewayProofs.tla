----------------------------- MODULE GatewayProofs -----------------------------
(***************************************************************************)
(* Machine-checked proofs about the Gateway, for every set of issues,      *)
(* keys, callbacks and threads and every bound on crashes: first its store *)
(* and its answers, then the cards: which delivery and which issue a card  *)
(* belongs to, the topic of a family, and what a card may show.            *)
(***************************************************************************)
EXTENDS Gateway, FiniteSetTheorems, WellFoundedInduction, TLAPS

-----------------------------------------------------------------------------
(* The oldest row. *)

Below == {p \in Nat \X Nat : p[1] < p[2]}

\* A nonempty set of numbers has a least element.
LEMMA LeastExists ==
  ASSUME NEW T, T \subseteq Nat, T # {}
  PROVE  \E n \in T : \A m \in T : n <= m
<1>1. IsWellFoundedOn(Below, Nat)
  BY NatLessThanWellFounded DEF OpToRel, Below
<1>2. PICK n \in T : \A m \in T : <<m, n>> \notin Below
  BY <1>1, WFMin
<1>3. ASSUME NEW m \in T PROVE n <= m
  <2>1. <<m, n>> \in Nat \X Nat /\ ~(m < n)
    BY <1>2, <1>3 DEF Below
  <2> QED BY <2>1
<1> QED
  BY <1>3

\* Oldest finds the row with the lowest number, whenever there is one.
LEMMA OldestIsLeast ==
  ASSUME NEW S, S \subseteq Nat, S # {}
  PROVE  Oldest(S) \in S /\ \A m \in S : Oldest(S) <= m
BY LeastExists DEF Oldest

-----------------------------------------------------------------------------
(* The base invariant: types, and what a thread or the worker has in hand   *)
(* between its steps.                                                       *)

HandsOK ==
  \A t \in Threads :
    /\ thread[t].pc # "idle" => thread[t].id \in Ids
    /\ thread[t].pc = "found" => thread[t].id \in ReceiptId
    /\ thread[t].pc \in {"found", "read", "patch"} =>
         thread[t].issue \in Issues /\ issue[thread[t].issue] \in Row
    /\ thread[t].pc = "patch" => thread[t].message \in Keys

WorkerOK ==
  /\ worker.pc \in {"send", "sent"} => worker.item \in DOMAIN deliveries
  /\ worker.pc \in {"apply", "applied"} => worker.item \in DOMAIN base

RowsOK ==
  /\ \A n \in DOMAIN deliveries : issue[deliveries[n].issue] \in Row
  /\ \A i \in Issues : Known(i) => \E n \in DOMAIN log : log[n].issue = i

Base == TypeOK /\ HandsOK /\ WorkerOK /\ RowsOK

\* What one step may do to the tables.
StoreStep ==
  \/ UNCHANGED store
  \/ \E k \in Keys, i \in Issues, o \in Owners : CreateHandoff(k, i, o)
  \/ \E c \in ReceiptId, i \in Issues, requested \in Nat \cup {None} :
       SubmitSolution(c, i, requested)
  \/ \E c \in ReceiptId, i \in Issues, o \in Owners, v \in Nat :
       ConfirmSolution(c, i, o, v) \/ ReportVerificationFailure(c, i, o, v)
  \/ \E c \in ReceiptId, i \in Issues, kind \in EventKinds : RecordFeishuEvent(c, i, kind)
  \/ BindDelivery
  \/ MarkProjected

\* Every step of the Gateway is one of these to the tables.
LEMMA StoreCases ==
  ASSUME Base, [Next]_vars
  PROVE  StoreStep
<1>1. CASE UNCHANGED vars
  BY <1>1 DEF vars, StoreStep
<1>2. ASSUME NEW t \in Handlers, Request(t)
      PROVE  StoreStep
  <2>1. ASSUME NEW i \in Issues, NEW k \in Keys, NEW o \in Owners, PostHandoff(t, k, i, o)
        PROVE  StoreStep
    BY <2>1 DEF PostHandoff, ReplayHandoff, StoreStep
  <2>2. ASSUME NEW i \in Issues, NEW call \in Calls, NEW o \in Owners,
               Known(i), NEW v \in 1..issue[i].version,
               \/ PostConfirm(t, call, i, o, v)
               \/ PostVerificationFailure(t, call, i, o, v)
        PROVE  StoreStep
    <3>1. v \in Nat
      BY <2>2 DEF Base, TypeOK, StoreTypeOK, Row, Known
    <3>2. <<"device", call>> \in ReceiptId /\ <<"device-failure", call>> \in ReceiptId
      BY DEF ReceiptId
    <3>3. CASE PostConfirm(t, call, i, o, v)
      BY <3>1, <3>2, <3>3 DEF PostConfirm, Replay, StoreStep
    <3>4. CASE PostVerificationFailure(t, call, i, o, v)
      BY <3>1, <3>2, <3>4 DEF PostVerificationFailure, Replay, StoreStep
    <3> QED BY <2>2, <3>3, <3>4
  <2>3. ASSUME NEW i \in Issues, NEW call \in Callbacks, Known(i),
               NEW requested \in 1..(issue[i].version + 1) \cup {None},
               PostCardAction(t, call, i, requested)
        PROVE  StoreStep
    <3>1. requested \in Nat \cup {None}
      BY <2>3 DEF Base, TypeOK, StoreTypeOK, Row, Known
    <3>2. <<"feishu", call>> \in ReceiptId
      BY DEF ReceiptId
    <3> QED BY <2>3, <3>1, <3>2 DEF PostCardAction, Replay, StoreStep
  <2>4. ASSUME NEW i \in Issues, NEW call \in Callbacks, NEW kind \in EventKinds,
               PostEvent(t, call, i, kind)
        PROVE  StoreStep
    <3>1. <<"feishu", call>> \in ReceiptId
      BY DEF ReceiptId
    <3> QED BY <2>4, <3>1 DEF PostEvent, Replay, StoreStep
  <2> QED BY <1>2, <2>1, <2>2, <2>3, <2>4 DEF Request
<1>3. ASSUME NEW t \in Consumers, CardEvent(t)
      PROVE  StoreStep
  BY <1>3 DEF CardEvent, LookUpMessage, StoreStep
<1>4. ASSUME NEW t \in Threads, SubmitFound(t)
      PROVE  StoreStep
  <2>1. thread[t].id \in ReceiptId /\ thread[t].issue \in Issues
    BY <1>4 DEF Base, HandsOK, SubmitFound, At
  <2> QED BY <1>4, <2>1 DEF SubmitFound, Replay, StoreStep
<1>5. ASSUME NEW t \in Threads,
             ReadCardContext(t) \/ PatchCard(t) \/ PatchFails(t) \/ Reply(t) \/ EndUnanswered(t)
      PROVE  StoreStep
  BY <1>5 DEF ReadCardContext, PatchCard, PatchFails, Reply, EndUnanswered, StoreStep
<1>6. CASE WorkerStep
  BY <1>6 DEF WorkerStep, WakeUp, PickHandoff, SendSucceeds, SendFails, PickBaseEvent,
              ApplySucceeds, ApplyFails, Retry, StoreStep
<1>7. CASE Crash
  BY <1>7 DEF Crash, StoreStep
<1> QED
  BY <1>1, <1>2, <1>3, <1>4, <1>5, <1>6, <1>7 DEF Next, Proceed
-----------------------------------------------------------------------------
(* Types. *)

\* A recorded event is appended to the log and waits in the Base's outbox.
LEMMA RecordedEffect ==
  ASSUME StoreTypeOK, NEW i \in Issues, NEW kind \in Kinds, NEW v \in Nat,
         Recorded(i, kind, v)
  PROVE  /\ Len(log) \in Nat
         /\ log' \in Seq(Event) /\ Len(log') = Len(log) + 1
         /\ base' \in Seq({"pending", "done"}) /\ Len(base') = Len(log')
         /\ log'[Len(log) + 1] = [issue |-> i, kind |-> kind, version |-> v]
         /\ base'[Len(log) + 1] = "pending"
         /\ \A n \in 1..Len(log) : log'[n] = log[n] /\ base'[n] = base[n]
<1>1. [issue |-> i, kind |-> kind, version |-> v] \in Event
  BY DEF Event
<1> QED
  BY <1>1 DEF StoreTypeOK, Recorded

\* Rows and outbox entries are never taken away.
Kept ==
  /\ \A i \in Issues : issue[i] \in Row => issue'[i] \in Row
  /\ Len(log) <= Len(log')
  /\ DOMAIN deliveries \subseteq DOMAIN deliveries'
  /\ DOMAIN base \subseteq DOMAIN base'

\* A row that gets three new fields is a row with three new fields.
LEMMA BoundRow ==
  ASSUME NEW D, NEW f, f = [x \in D |-> f[x]], NEW i \in D, NEW h, NEW k, NEW t
  PROVE  [f EXCEPT ![i].handoff = h, ![i].message = k, ![i].topic = t]
           = [f EXCEPT ![i] = [f[i] EXCEPT !.handoff = h, !.message = k, !.topic = t]]
OBVIOUS

\* The tables stay typed, deliveries are of known issues, and known issues
\* have an event.
LEMMA StoreTypes ==
  ASSUME Base, StoreStep
  PROVE  StoreTypeOK' /\ RowsOK' /\ Kept
<1>a. /\ StoreTypeOK /\ WorkerOK /\ RowsOK
      /\ worker.topic \in Keys \cup {None}
  BY DEF Base, TypeOK, Worker
<1> USE <1>a
<1>0. /\ \A i \in Issues : Known(i) => issue[i] \in Row
      /\ \A i \in Issues : issue[i] \in Row =>
           /\ issue[i].owner \in Owners /\ issue[i].status \in Status
           /\ issue[i].handoff \in Handoff /\ issue[i].version \in Nat
           /\ issue[i].message \in Keys \cup {None} /\ issue[i].topic \in Keys \cup {None}
      /\ Len(log) \in Nat /\ Len(base) = Len(log)
      /\ DOMAIN log = 1..Len(log) /\ DOMAIN base = 1..Len(log)
      /\ \A n \in DOMAIN deliveries : deliveries[n] \in Delivery
  BY DEF StoreTypeOK, Known, Row
<1>1. ASSUME NEW i \in Issues, NEW kind \in Kinds, NEW v \in Nat, Recorded(i, kind, v),
             NEW row \in Row, issue' = [issue EXCEPT ![i] = row],
             handoffs' \in [Keys -> 0..(Len(log) + 1)],
             receipts' \in [ReceiptId -> 0..(Len(log) + 1)],
             deliveries' \in Seq(Delivery),
             DOMAIN deliveries \subseteq DOMAIN deliveries',
             \A n \in DOMAIN deliveries' :
                \/ deliveries'[n].issue = i
                \/ n \in DOMAIN deliveries /\ deliveries'[n].issue = deliveries[n].issue
      PROVE  StoreTypeOK' /\ RowsOK' /\ Kept
  <2>1. issue' \in [Issues -> Row \cup {None}] /\ issue'[i] = row
    BY <1>1 DEF StoreTypeOK
  <2>e. /\ log' \in Seq(Event) /\ Len(log') = Len(log) + 1
        /\ base' \in Seq({"pending", "done"}) /\ Len(base') = Len(log')
        /\ log'[Len(log) + 1] = [issue |-> i, kind |-> kind, version |-> v]
        /\ \A n \in 1..Len(log) : log'[n] = log[n]
    BY <1>1, RecordedEffect
  <2>2. StoreTypeOK'
    BY <1>1, <2>1, <2>e DEF StoreTypeOK
  <2>3. \A n \in DOMAIN deliveries' : issue'[deliveries'[n].issue] \in Row
    <3>1. \A j \in Issues : issue[j] \in Row => issue'[j] \in Row
      BY <1>1, <2>1 DEF StoreTypeOK
    <3>2. \A n \in DOMAIN deliveries : deliveries[n].issue \in Issues
      BY <1>0 DEF Delivery
    <3> QED BY <1>1, <2>1, <3>1, <3>2 DEF RowsOK
  <2>4. \A j \in Issues : Known(j)' => \E n \in DOMAIN log' : log'[n].issue = j
    <3>1. DOMAIN log' = 1..(Len(log) + 1) /\ Len(log) + 1 \in DOMAIN log'
      BY <1>0, <2>e
    <3>2. log'[Len(log) + 1].issue = i
      BY <2>e
    <3>3. ASSUME NEW j \in Issues, j # i, Known(j)' PROVE \E n \in DOMAIN log' : log'[n].issue = j
      <4>1. Known(j)
        BY <1>1, <3>3 DEF Known, StoreTypeOK
      <4>2. PICK n \in DOMAIN log : log[n].issue = j
        BY <4>1 DEF RowsOK
      <4>3. n \in DOMAIN log' /\ log'[n] = log[n]
        BY <1>0, <2>e, <3>1
      <4> QED BY <4>2, <4>3
    <3> QED BY <3>1, <3>2, <3>3
  <2>5. Kept
    BY <1>0, <1>1, <2>1, <2>e DEF Kept, StoreTypeOK
  <2> QED BY <2>2, <2>3, <2>4, <2>5 DEF RowsOK
<1>2. CASE UNCHANGED store
  BY <1>0, <1>2 DEF store, StoreTypeOK, RowsOK, Known, Kept
<1>3. ASSUME NEW k \in Keys, NEW i \in Issues, NEW o \in Owners, CreateHandoff(k, i, o)
      PROVE  StoreTypeOK' /\ RowsOK' /\ Kept
  <2> DEFINE row == IF Known(i) THEN [issue[i] EXCEPT !.handoff = "queued"]
                    ELSE [owner |-> o, status |-> "open", handoff |-> "queued", version |-> 0,
                          message |-> None, topic |-> None]
  <2>1. row \in Row
    BY <1>0 DEF Row, Status, Handoff
  <2>2. issue' = [issue EXCEPT ![i] = row]
    BY <1>3 DEF CreateHandoff
  <2>3. Recorded(i, "HandoffRequested", 0) /\ "HandoffRequested" \in Kinds
    BY <1>3 DEF CreateHandoff, Kinds
  <2>4. /\ handoffs' \in [Keys -> 0..(Len(log) + 1)]
        /\ receipts' \in [ReceiptId -> 0..(Len(log) + 1)]
    BY <1>0, <1>3 DEF CreateHandoff, StoreTypeOK
  <2>5. /\ deliveries' \in Seq(Delivery)
        /\ \A n \in DOMAIN deliveries' :
             \/ deliveries'[n].issue = i
             \/ n \in DOMAIN deliveries /\ deliveries'[n].issue = deliveries[n].issue
        /\ DOMAIN deliveries \subseteq DOMAIN deliveries'
    BY <1>3 DEF CreateHandoff, StoreTypeOK, Delivery
  <2> HIDE DEF row
  <2> QED BY <1>1, <2>1, <2>2, <2>3, <2>4, <2>5
<1>4. ASSUME NEW c \in ReceiptId, NEW i \in Issues, Receipted(c), UNCHANGED <<handoffs, deliveries>>,
             NEW row \in Row, issue' = [issue EXCEPT ![i] = row],
             NEW kind \in Kinds, NEW v \in Nat, Recorded(i, kind, v)
      PROVE  StoreTypeOK' /\ RowsOK' /\ Kept
  <2>1. /\ handoffs' \in [Keys -> 0..(Len(log) + 1)]
        /\ receipts' \in [ReceiptId -> 0..(Len(log) + 1)]
    BY <1>0, <1>4 DEF Receipted, StoreTypeOK
  <2>2. deliveries' \in Seq(Delivery)
    BY <1>4 DEF StoreTypeOK
  <2> QED BY <1>1, <1>4, <2>1, <2>2
<1>5. ASSUME NEW c \in ReceiptId, NEW i \in Issues, NEW requested \in Nat \cup {None},
             SubmitSolution(c, i, requested)
      PROVE  StoreTypeOK' /\ RowsOK' /\ Kept
  <2> DEFINE next == issue[i].version + 1
             row  == [issue[i] EXCEPT !.status = "pending_verification",
                                      !.handoff = "solution_available", !.version = next]
  <2>0. issue[i] \in Row /\ next \in Nat /\ "SolutionSubmitted" \in Kinds
    BY <1>0, <1>5 DEF SubmitSolution, Kinds
  <2>1. row \in Row
    BY <2>0 DEF Row, Status, Handoff
  <2>2. issue' = [issue EXCEPT ![i] = row]
    BY <1>0, <1>5 DEF SubmitSolution, StoreTypeOK
  <2>3. Recorded(i, "SolutionSubmitted", next) /\ Receipted(c) /\ UNCHANGED <<handoffs, deliveries>>
    BY <1>5 DEF SubmitSolution
  <2> HIDE DEF row, next
  <2> QED BY <1>4, <2>0, <2>1, <2>2, <2>3
<1>6. ASSUME NEW c \in ReceiptId, NEW i \in Issues, NEW o \in Owners, NEW v \in Nat,
             ConfirmSolution(c, i, o, v) \/ ReportVerificationFailure(c, i, o, v)
      PROVE  StoreTypeOK' /\ RowsOK' /\ Kept
  <2>1. ASSUME NEW status \in Status, NEW handoff \in Handoff, Moved(i, status, handoff), Known(i),
               NEW kind \in Kinds, Recorded(i, kind, v), Receipted(c),
               UNCHANGED <<handoffs, deliveries>>
        PROVE  StoreTypeOK' /\ RowsOK' /\ Kept
    <3> DEFINE row == [issue[i] EXCEPT !.status = status, !.handoff = handoff]
    <3>1. row \in Row
      BY <1>0, <2>1 DEF Row
    <3>2. issue' = [issue EXCEPT ![i] = row]
      BY <1>0, <2>1 DEF Moved, StoreTypeOK
    <3> HIDE DEF row
    <3> QED BY <1>4, <2>1, <3>1, <3>2
  <2>2. CASE ConfirmSolution(c, i, o, v)
    BY <2>1, <2>2 DEF ConfirmSolution, Verifiable, Status, Handoff, Kinds
  <2>3. CASE ReportVerificationFailure(c, i, o, v)
    BY <2>1, <2>3 DEF ReportVerificationFailure, Verifiable, Status, Handoff, Kinds
  <2> QED BY <1>6, <2>2, <2>3
<1>7. ASSUME NEW c \in ReceiptId, NEW i \in Issues, NEW kind \in EventKinds,
             RecordFeishuEvent(c, i, kind)
      PROVE  StoreTypeOK' /\ RowsOK' /\ Kept
  <2> DEFINE row == [issue[i] EXCEPT !.handoff =
                       CASE kind = "EngineerClaimed" -> "handling"
                         [] kind = "TopicBound" -> "delivered"
                         [] kind = "FeishuMessageCaptured" -> @]
  <2>1. row \in Row /\ kind \in Kinds
    BY <1>0, <1>7 DEF RecordFeishuEvent, EventKinds, Kinds, Row, Handoff
  <2>2. issue' = [issue EXCEPT ![i] = row]
    BY <1>0, <1>7 DEF RecordFeishuEvent, StoreTypeOK
  <2>3. Recorded(i, kind, 0) /\ Receipted(c) /\ UNCHANGED <<handoffs, deliveries>>
    BY <1>7 DEF RecordFeishuEvent
  <2> HIDE DEF row
  <2> QED BY <1>4, <2>1, <2>2, <2>3
<1>8. CASE BindDelivery
  <2> DEFINE n == worker.item
             i == deliveries[n].issue
             k == deliveries[n].key
             top == IF worker.topic = None THEN k ELSE worker.topic
             row == [issue[i] EXCEPT !.handoff = "delivered", !.message = k, !.topic = top]
  <2>1. n \in DOMAIN deliveries /\ i \in Issues /\ k \in Keys /\ top \in Keys
    <3>1. n \in DOMAIN deliveries
      BY <1>8 DEF BindDelivery, WorkerAt, WorkerOK
    <3> QED BY <1>0, <3>1 DEF Delivery
  <2>2. row \in Row
    <3>1. issue[i] \in Row
      BY <2>1 DEF RowsOK
    <3> QED BY <2>1, <3>1 DEF Row, Handoff
  <2>3. CompleteDelivery(n, k, top)
    BY <1>8 DEF BindDelivery
  <2>4. issue' = [issue EXCEPT ![i] = row]
    <3>1. issue' = [issue EXCEPT ![i].handoff = "delivered", ![i].message = k, ![i].topic = top]
      BY <2>3 DEF CompleteDelivery
    <3>2. issue = [j \in Issues |-> issue[j]]
      BY <1>0 DEF StoreTypeOK
    <3> QED BY ONLY <2>1, <3>1, <3>2, BoundRow
  <2>5. Recorded(i, "HandoffDelivered", 0) /\ "HandoffDelivered" \in Kinds
    BY <2>3 DEF CompleteDelivery, Kinds
  <2>6. /\ handoffs' \in [Keys -> 0..(Len(log) + 1)]
        /\ receipts' \in [ReceiptId -> 0..(Len(log) + 1)]
    <3>1. UNCHANGED <<handoffs, receipts>>
      BY <2>3 DEF CompleteDelivery
    <3>2. /\ handoffs \in [Keys -> 0..Len(log)] /\ receipts \in [ReceiptId -> 0..Len(log)]
          /\ Len(log) \in Nat
      BY <1>0 DEF StoreTypeOK
    <3>3. 0..Len(log) \subseteq 0..(Len(log) + 1)
      BY ONLY <3>2
    <3> QED BY ONLY <3>1, <3>2, <3>3
  <2>7. /\ deliveries' \in Seq(Delivery)
        /\ \A m \in DOMAIN deliveries' :
             m \in DOMAIN deliveries /\ deliveries'[m].issue = deliveries[m].issue
        /\ DOMAIN deliveries \subseteq DOMAIN deliveries'
    <3>1. deliveries' = [deliveries EXCEPT ![n].state = "done"]
      BY <2>3 DEF CompleteDelivery
    <3>2. deliveries \in Seq(Delivery) /\ [deliveries[n] EXCEPT !.state = "done"] \in Delivery
      BY <1>0, <2>1 DEF StoreTypeOK, Delivery
    <3>3. /\ DOMAIN deliveries' = DOMAIN deliveries
          /\ \A m \in DOMAIN deliveries : deliveries'[m].issue = deliveries[m].issue
      BY <1>0, <2>1, <3>1 DEF Delivery
    <3>4. deliveries' \in Seq(Delivery)
      <4> HIDE DEF n
      <4> QED BY <2>1, <3>1, <3>2
    <3> QED BY <3>3, <3>4
  <2> HIDE DEF n, i, k, top, row
  <2> QED BY <1>1, <2>1, <2>2, <2>4, <2>5, <2>6, <2>7
<1>9. CASE MarkProjected
  <2>1. worker.item \in DOMAIN base /\ base' = [base EXCEPT ![worker.item] = "done"]
    BY <1>9 DEF MarkProjected, CompleteBaseEvent, WorkerAt, WorkerOK
  <2>2. base' \in Seq({"pending", "done"}) /\ Len(base') = Len(base)
    BY <2>1 DEF StoreTypeOK
  <2> QED
    BY <1>0, <1>9, <2>2 DEF MarkProjected, CompleteBaseEvent, StoreTypeOK, RowsOK, Known, Kept
<1> QED
  BY <1>2, <1>3, <1>5, <1>6, <1>7, <1>8, <1>9 DEF StoreStep
-----------------------------------------------------------------------------
(* What threads have in hand. *)

\* A finished table write followed by a reply or a card update leaves the
\* thread with a known issue and the id it answers for.
LEMMA HandsStep ==
  ASSUME Base, [Next]_vars, StoreTypeOK', Kept
  PROVE  thread' \in [Threads -> Thread] /\ HandsOK'
<1>a. /\ thread \in [Threads -> Thread] /\ HandsOK /\ StoreTypeOK
      /\ Threads = Handlers \cup Consumers
  BY DEF Base, TypeOK, Threads
<1>b. /\ \A i \in Issues : Known(i) => issue[i] \in Row
      /\ \A i \in Issues : Known(i)' => issue'[i] \in Row
      /\ \A t \in Threads : thread[t] \in Thread
  BY <1>a DEF StoreTypeOK, Known
<1>1. ASSUME NEW t \in Threads, NEW hand \in Thread, thread' = [thread EXCEPT ![t] = hand],
             hand.pc # "idle" => hand.id \in Ids,
             hand.pc = "found" => hand.id \in ReceiptId,
             hand.pc \in {"found", "read", "patch"} => hand.issue \in Issues /\ issue'[hand.issue] \in Row,
             hand.pc = "patch" => hand.message \in Keys
      PROVE  thread' \in [Threads -> Thread] /\ HandsOK'
  BY <1>1, <1>a DEF HandsOK, Kept
<1>2. CASE UNCHANGED thread
  BY <1>2, <1>a DEF HandsOK, Kept
<1>3. ASSUME NEW t \in Threads, NEW c \in Ids, NEW i \in Issues, NEW shown \in Shown,
             ThenReply(t, c, i) \/ (issue'[i] \in Row /\ ThenShow(t, c, i, shown))
      PROVE  thread' \in [Threads -> Thread] /\ HandsOK'
  <2> DEFINE hand == IF ThenReply(t, c, i)
                     THEN [Idle EXCEPT !.pc = "reply", !.id = c, !.issue = i]
                     ELSE [Idle EXCEPT !.pc = IF HasFeishu THEN "read" ELSE "reply",
                                       !.id = c, !.issue = i, !.shown = shown]
  <2>1. /\ hand \in Thread /\ hand.id = c /\ hand.issue = i
        /\ hand.pc \in {"read", "reply"} /\ (hand.pc = "read" => ~ThenReply(t, c, i))
    BY DEF Idle, Thread, Shown
  <2>2. thread' = [thread EXCEPT ![t] = hand]
    BY <1>3 DEF ThenReply, ThenShow
  <2> HIDE DEF hand
  <2> QED BY <1>1, <1>3, <1>b, <2>1, <2>2
<1>4. ASSUME NEW t \in Handlers, Request(t)
      PROVE  thread' \in [Threads -> Thread] /\ HandsOK'
  <2>0. t \in Threads
    BY <1>a
  <2>1. ASSUME NEW i \in Issues, NEW k \in Keys, NEW o \in Owners, PostHandoff(t, k, i, o)
        PROVE  thread' \in [Threads -> Thread] /\ HandsOK'
    BY <2>0, <2>1, <1>3 DEF PostHandoff, Ids, Shown
  <2>2. ASSUME NEW i \in Issues, NEW call \in Calls, NEW o \in Owners, NEW v, Known(i),
               PostConfirm(t, call, i, o, v) \/ PostVerificationFailure(t, call, i, o, v)
        PROVE  thread' \in [Threads -> Thread] /\ HandsOK'
    <3>1. <<"device", call>> \in Ids /\ <<"device-failure", call>> \in Ids
      BY DEF ReceiptId, Ids
    <3>2. issue'[i] \in Row /\ {"closed", "awaiting_engineer"} \subseteq Shown
      BY <2>2, <1>b DEF Kept, Shown
    <3> QED BY <2>0, <2>2, <3>1, <3>2, <1>3 DEF PostConfirm, PostVerificationFailure
  <2>3. ASSUME NEW i \in Issues, NEW call \in Callbacks, NEW requested, Known(i),
               PostCardAction(t, call, i, requested)
        PROVE  thread' \in [Threads -> Thread] /\ HandsOK'
    <3>1. <<"feishu", call>> \in Ids
      BY DEF ReceiptId, Ids
    <3>2. issue'[i] \in Row /\ "waiting_verification" \in Shown
      BY <2>3, <1>b DEF Kept, Shown
    <3> QED BY <2>0, <2>3, <3>1, <3>2, <1>3 DEF PostCardAction
  <2>4. ASSUME NEW i \in Issues, NEW call \in Callbacks, NEW kind \in EventKinds, Known(i),
               PostEvent(t, call, i, kind)
        PROVE  thread' \in [Threads -> Thread] /\ HandsOK'
    <3>1. <<"feishu", call>> \in Ids /\ "form" \in Shown
      BY DEF ReceiptId, Ids, Shown
    <3> QED BY <2>0, <2>4, <3>1, <1>3 DEF PostEvent
  <2> QED BY <1>4, <2>1, <2>2, <2>3, <2>4 DEF Request
<1>5. ASSUME NEW t \in Consumers, CardEvent(t)
      PROVE  thread' \in [Threads -> Thread] /\ HandsOK'
  <2>1. PICK call \in Callbacks, k \in Keys : LookUpMessage(t, call, k)
    BY <1>5 DEF CardEvent
  <2>2. PICK i \in Issues :
          Known(i) /\ UNCHANGED issue /\ thread' = [thread EXCEPT ![t] =
            [Idle EXCEPT !.pc = "found", !.id = <<"feishu", call>>, !.issue = i]]
    BY <2>1 DEF LookUpMessage, store
  <2>3. <<"feishu", call>> \in ReceiptId /\ <<"feishu", call>> \in Ids
    BY DEF ReceiptId, Ids
  <2> DEFINE hand == [Idle EXCEPT !.pc = "found", !.id = <<"feishu", call>>, !.issue = i]
  <2>4. /\ hand \in Thread /\ hand.pc = "found" /\ hand.id = <<"feishu", call>>
        /\ hand.issue = i
    BY <2>3 DEF Idle, Thread, Shown
  <2>5. thread' = [thread EXCEPT ![t] = hand] /\ issue'[i] \in Row
    BY <1>b, <2>2 DEF Known
  <2> HIDE DEF hand
  <2> QED BY <1>1, <1>a, <2>3, <2>4, <2>5
<1>6. ASSUME NEW t \in Threads, SubmitFound(t)
      PROVE  thread' \in [Threads -> Thread] /\ HandsOK'
  <2>1. thread[t].id \in ReceiptId /\ thread[t].id \in Ids /\ thread[t].issue \in Issues
    BY <1>6, <1>a DEF HandsOK, SubmitFound, At, Ids
  <2>2. ThenShow(t, thread[t].id, thread[t].issue, "waiting_verification")
    BY <1>6 DEF SubmitFound
  <2>3. issue'[thread[t].issue] \in Row /\ "waiting_verification" \in Shown
    BY <1>6, <1>a, <2>1 DEF HandsOK, SubmitFound, At, Kept, Shown
  <2> QED BY <1>3, <2>1, <2>2, <2>3
<1>7. ASSUME NEW t \in Threads, ReadCardContext(t)
      PROVE  thread' \in [Threads -> Thread] /\ HandsOK'
  <2> DEFINE row  == issue[thread[t].issue]
             hand == IF row.message = None THEN [thread[t] EXCEPT !.pc = "reply"]
                     ELSE [thread[t] EXCEPT !.pc = "patch", !.message = row.message,
                                            !.version = row.version]
  <2>1. /\ thread[t].issue \in Issues /\ row \in Row /\ thread[t].id \in Ids
        /\ UNCHANGED issue
    BY <1>7, <1>a DEF HandsOK, ReadCardContext, At, store
  <2>2. /\ hand \in Thread /\ hand.id = thread[t].id /\ hand.issue = thread[t].issue
        /\ hand.pc \in {"reply", "patch"}
        /\ hand.pc = "patch" => hand.message \in Keys
    BY <1>b, <2>1 DEF Thread, Row
  <2>3. thread' = [thread EXCEPT ![t] = hand]
    BY <1>7, <1>a DEF ReadCardContext, Goto
  <2> HIDE DEF hand, row
  <2> QED BY <1>1, <2>1, <2>2, <2>3 DEF row
<1>8. ASSUME NEW t \in Threads, PatchCard(t)
      PROVE  thread' \in [Threads -> Thread] /\ HandsOK'
  <2> DEFINE hand == [thread[t] EXCEPT !.pc = "reply"]
  <2>1. hand \in Thread /\ hand.id \in Ids /\ hand.pc = "reply"
    BY <1>8, <1>a, <1>b DEF HandsOK, PatchCard, At, Thread
  <2>2. thread' = [thread EXCEPT ![t] = hand]
    BY <1>8, <1>a DEF PatchCard, Goto
  <2> HIDE DEF hand
  <2> QED BY <1>1, <2>1, <2>2
<1>9. ASSUME NEW t \in Threads, PatchFails(t) \/ Reply(t) \/ EndUnanswered(t)
      PROVE  thread' \in [Threads -> Thread] /\ HandsOK'
  <2>1. thread' = [thread EXCEPT ![t] = Idle]
    BY <1>9 DEF PatchFails, Reply, EndUnanswered
  <2>2. Idle \in Thread /\ Idle.pc = "idle"
    BY DEF Idle, Thread, Shown
  <2> QED BY <1>1, <2>1, <2>2
<1>10. CASE Crash
  <2>1. Idle \in Thread /\ Idle.pc = "idle"
    BY DEF Idle, Thread, Shown
  <2> QED BY <1>10, <2>1 DEF Crash, HandsOK
<1>11. CASE UNCHANGED vars \/ WorkerStep
  <2>1. UNCHANGED thread
    BY <1>11 DEF vars, WorkerStep, WakeUp, PickHandoff, SendSucceeds, SendFails, BindDelivery,
                 PickBaseEvent, ApplySucceeds, ApplyFails, MarkProjected, Retry
  <2> QED BY <2>1, <1>2
<1> QED
  BY <1>a, <1>4, <1>5, <1>6, <1>7, <1>8, <1>9, <1>10, <1>11 DEF Next, Proceed

-----------------------------------------------------------------------------
(* What the worker has in hand. *)

\* The topic of a family is the topic of one of its threaded issues.
LEMMA TopicOfFamily ==
  ASSUME Base, NEW r
  PROVE  IF Threaded(r) = {} THEN TopicRootFor(r) = None
         ELSE \E i \in Threaded(r) : TopicRootFor(r) = issue[i].topic
<1> DEFINE T == {FirstEvent(j) : j \in Threaded(r)}
<1>1. ASSUME NEW j \in Threaded(r)
      PROVE  FirstEvent(j) \in Nat
  <2>1. {n \in DOMAIN log : log[n].issue = j} # {}
    BY <1>1 DEF Base, RowsOK, Threaded
  <2>2. {n \in DOMAIN log : log[n].issue = j} \subseteq Nat
    BY DEF Base, TypeOK, StoreTypeOK
  <2> QED BY <2>1, <2>2, OldestIsLeast DEF FirstEvent
<1>2. ASSUME Threaded(r) # {}
      PROVE  \E i \in Threaded(r) : \A j \in Threaded(r) : FirstEvent(i) <= FirstEvent(j)
  <2>1. T \subseteq Nat /\ T # {}
    BY <1>1, <1>2
  <2>2. PICK n \in T : \A m \in T : n <= m
    <3> HIDE DEF T
    <3> QED BY <2>1, LeastExists
  <2> QED BY <2>2
<1> QED
  BY <1>2 DEF TopicRootFor

\* So it is the key of a card, or none is there yet.
LEMMA TopicTyped ==
  ASSUME Base, NEW r
  PROVE  TopicRootFor(r) \in Keys \cup {None}
<1>1. \A i \in Threaded(r) : issue[i].topic \in Keys \cup {None}
  BY DEF Base, TypeOK, StoreTypeOK, Threaded, Known, Row
<1> QED
  BY <1>1, TopicOfFamily

\* Only the worker and a crash change what the worker has in hand.
LEMMA WorkerMoves ==
  ASSUME [Next]_vars
  PROVE  UNCHANGED <<worker, projection>> \/ WorkerStep \/ Crash
<1>1. ASSUME NEW t \in Handlers, Request(t)
      PROVE  UNCHANGED <<worker, projection>>
  BY <1>1 DEF Request, PostHandoff, PostConfirm, PostVerificationFailure, PostCardAction,
              PostEvent, Elsewhere
<1>2. ASSUME NEW t \in Consumers, CardEvent(t)
      PROVE  UNCHANGED <<worker, projection>>
  BY <1>2 DEF CardEvent, LookUpMessage, Elsewhere
<1>3. ASSUME NEW t \in Threads, Proceed(t)
      PROVE  UNCHANGED <<worker, projection>>
  BY <1>3 DEF Proceed, SubmitFound, ReadCardContext, PatchCard, PatchFails, Reply, EndUnanswered,
              Elsewhere
<1>4. CASE UNCHANGED vars
  BY <1>4 DEF vars
<1> QED
  BY <1>1, <1>2, <1>3, <1>4 DEF Next

\* The worker's item stays a row of the outbox it was read from.
LEMMA WorkerStepOK ==
  ASSUME Base, [Next]_vars, Kept
  PROVE  worker' \in Worker /\ WorkerOK'
<1>a. /\ worker \in Worker /\ WorkerOK
      /\ DOMAIN deliveries \subseteq Nat /\ DOMAIN base \subseteq Nat
      /\ DOMAIN deliveries \subseteq DOMAIN deliveries' /\ DOMAIN base \subseteq DOMAIN base'
  BY DEF Base, TypeOK, StoreTypeOK, Kept
<1>b. Asleep \in Worker /\ Asleep.pc = "wait"
  BY DEF Asleep, Worker
<1>1. ASSUME NEW w \in Worker, worker' = w, w.pc \notin {"send", "sent", "apply", "applied"}
      PROVE  worker' \in Worker /\ WorkerOK'
  BY <1>1 DEF WorkerOK
<1>2. CASE UNCHANGED worker
  BY <1>2, <1>a DEF WorkerOK
<1>3. ASSUME NEW failed \in BOOLEAN, NEW progress \in BOOLEAN, NextRound(failed, progress)
      PROVE  worker' \in Worker /\ WorkerOK'
  <2>1. worker' \in Worker /\ worker'.pc \in {"backoff", "handoff", "wait"}
    BY <1>3 DEF NextRound, Asleep, Worker
  <2> QED BY <1>1, <2>1
<1>c. worker.failed \in BOOLEAN /\ worker.progress \in BOOLEAN
  BY <1>a DEF Worker
<1>4. CASE WakeUp
  <2> DEFINE w == [Asleep EXCEPT !.pc = "handoff"]
  <2>1. w \in Worker /\ w.pc = "handoff"
    BY <1>b DEF Asleep, Worker
  <2>2. worker' = w
    BY <1>4 DEF WakeUp
  <2> HIDE DEF w
  <2> QED BY <1>1, <2>1, <2>2
<1>5. CASE PickHandoff
  <2>1. CASE ~HasFeishu \/ PendingDeliveries = {}
    BY <1>5, <2>1, <1>a, <1>1 DEF PickHandoff, Worker
  <2>2. CASE ~(~HasFeishu \/ PendingDeliveries = {})
    <3> DEFINE n == Oldest(PendingDeliveries)
               top == TopicRootFor(Root[deliveries[n].issue])
    <3>1. n \in DOMAIN deliveries /\ n \in Nat
      BY <1>a, <2>2, OldestIsLeast DEF PendingDeliveries
    <3>2. top \in Keys \cup {None}
      BY TopicTyped
    <3>3. worker' = [worker EXCEPT !.pc = "send", !.item = n, !.topic = top]
      BY <1>5, <2>2 DEF PickHandoff
    <3> HIDE DEF n, top
    <3>4. worker' \in Worker /\ worker'.pc = "send" /\ worker'.item = n
      BY <1>a, <3>1, <3>2, <3>3 DEF Worker
    <3> QED BY <1>a, <3>1, <3>4 DEF WorkerOK
  <2> QED BY <2>1, <2>2
<1>6. CASE SendSucceeds
  BY <1>6, <1>a DEF SendSucceeds, WorkerAt, WorkerOK, Worker
<1>7. CASE SendFails
  <2> DEFINE w == [worker EXCEPT !.pc = "base", !.failed = TRUE]
  <2>1. w \in Worker /\ w.pc = "base"
    BY <1>a DEF Worker
  <2>2. worker' = w
    BY <1>7 DEF SendFails
  <2> HIDE DEF w
  <2> QED BY <1>1, <2>1, <2>2
<1>8. CASE BindDelivery
  <2> DEFINE w == [worker EXCEPT !.pc = "base", !.progress = TRUE]
  <2>1. w \in Worker /\ w.pc = "base"
    BY <1>a DEF Worker
  <2>2. worker' = w
    BY <1>8 DEF BindDelivery
  <2> HIDE DEF w
  <2> QED BY <1>1, <2>1, <2>2
<1>9. CASE PickBaseEvent
  <2>1. CASE ~HasBase \/ Pending(base) = {}
    BY <1>9, <2>1, <1>c, <1>3 DEF PickBaseEvent
  <2>2. CASE ~(~HasBase \/ Pending(base) = {})
    <3>1. Oldest(Pending(base)) \in DOMAIN base /\ Oldest(Pending(base)) \in Nat
      BY <1>a, <2>2, OldestIsLeast DEF Pending
    <3>2. worker' = [worker EXCEPT !.pc = "apply", !.item = Oldest(Pending(base))]
      BY <1>9, <2>2 DEF PickBaseEvent
    <3> QED BY <1>a, <3>1, <3>2 DEF WorkerOK, Worker
  <2> QED BY <2>1, <2>2
<1>10. CASE ApplySucceeds
  BY <1>10, <1>a DEF ApplySucceeds, WorkerAt, WorkerOK, Worker
<1>11. CASE ApplyFails
  BY <1>11, <1>c, <1>3 DEF ApplyFails
<1>12. CASE MarkProjected
  BY <1>12, <1>c, <1>3 DEF MarkProjected
<1>13. CASE Retry \/ Crash
  BY <1>13, <1>b, <1>1 DEF Retry, Crash
<1> QED
  BY <1>2, <1>4, <1>5, <1>6, <1>7, <1>8, <1>9, <1>10, <1>11, <1>12, <1>13, WorkerMoves
     DEF WorkerStep

\* An issue named under another request's id stays remembered.
LEMMA StrayedGrows ==
  ASSUME Base, [Next]_vars
  PROVE  /\ strayed \subseteq strayed'
         /\ strayed \subseteq Issues => strayed' \subseteq Issues
<1>1. ASSUME NEW c, NEW i \in Issues, NEW kind, Noting(c, i, kind)
      PROVE  strayed \subseteq strayed' /\ (strayed \subseteq Issues => strayed' \subseteq Issues)
  BY <1>1 DEF Noting
<1>2. ASSUME NEW t \in Handlers, Request(t)
      PROVE  UNCHANGED strayed \/ \E c, kind : \E i \in Issues : Noting(c, i, kind)
  BY <1>2 DEF Request, PostHandoff, PostConfirm, PostVerificationFailure, PostCardAction, PostEvent
<1>3. ASSUME NEW t \in Consumers, CardEvent(t)
      PROVE  UNCHANGED strayed
  BY <1>3 DEF CardEvent, LookUpMessage
<1>4. ASSUME NEW t \in Threads, SubmitFound(t)
      PROVE  \E c, kind : \E i \in Issues : Noting(c, i, kind)
  <2>1. thread[t].issue \in Issues
    BY <1>4 DEF SubmitFound, At, Base, HandsOK
  <2> QED BY <1>4, <2>1 DEF SubmitFound
<1>5. ASSUME NEW t \in Threads,
             ReadCardContext(t) \/ PatchCard(t) \/ PatchFails(t) \/ Reply(t) \/ EndUnanswered(t)
      PROVE  UNCHANGED strayed
  BY <1>5 DEF ReadCardContext, PatchCard, PatchFails, Reply, EndUnanswered
<1>6. CASE WorkerStep
  BY <1>6 DEF WorkerStep, WakeUp, PickHandoff, SendSucceeds, SendFails, BindDelivery,
              PickBaseEvent, ApplySucceeds, ApplyFails, MarkProjected, Retry
<1>7. CASE Crash \/ UNCHANGED vars
  BY <1>7 DEF Crash, vars
<1> QED
  BY <1>1, <1>2, <1>3, <1>4, <1>5, <1>6, <1>7 DEF Next, Proceed

\* The rest of the type invariant: the wake flag, what Feishu and the Base
\* show, who was answered, and the crashes so far.
LEMMA OutsideTypes ==
  ASSUME Base, [Next]_vars, StoreTypeOK', Kept
  PROVE  /\ wake' \in BOOLEAN
         /\ card' \in [Keys -> [shown : Shown, version : Nat]]
         /\ projection' \in 0..Len(log')
         /\ answered' \subseteq Ids
         /\ crashes' \in 0..MaxCrashes
<1>a. /\ wake \in BOOLEAN
      /\ card \in [Keys -> [shown : Shown, version : Nat]]
      /\ projection \in 0..Len(log) /\ Len(log) \in Nat /\ Len(log') \in Nat
      /\ Len(log) <= Len(log')
      /\ DOMAIN base = 1..Len(log)
      /\ answered \subseteq Ids
      /\ crashes \in 0..MaxCrashes /\ MaxCrashes \in Nat
      /\ HandsOK /\ WorkerOK
      /\ \A t \in Threads : thread[t] \in Thread
  BY GatewayAssumption DEF Base, TypeOK, StoreTypeOK, Kept
<1>b. projection \in 0..Len(log')
  BY <1>a
<1>1. CASE UNCHANGED <<wake, card, projection, answered, crashes>>
  BY <1>1, <1>a, <1>b
<1>2. ASSUME NEW t \in Handlers, Request(t)
      PROVE  UNCHANGED <<wake, card, projection, answered, crashes>>
  BY <1>2 DEF Request, PostHandoff, PostConfirm, PostVerificationFailure, PostCardAction,
               PostEvent, Elsewhere
<1>3. ASSUME NEW t \in Consumers, CardEvent(t)
      PROVE  UNCHANGED <<wake, card, projection, answered, crashes>>
  BY <1>3 DEF CardEvent, LookUpMessage, Elsewhere
<1>4. ASSUME NEW t \in Threads,
             SubmitFound(t) \/ ReadCardContext(t) \/ PatchFails(t) \/ EndUnanswered(t)
      PROVE  UNCHANGED <<wake, card, projection, answered, crashes>>
  BY <1>4 DEF SubmitFound, ReadCardContext, PatchFails, EndUnanswered, Elsewhere
<1>5. ASSUME NEW t \in Threads, PatchCard(t)
      PROVE  /\ card' \in [Keys -> [shown : Shown, version : Nat]]
             /\ UNCHANGED <<wake, projection, answered, crashes>>
  BY <1>5, <1>a DEF PatchCard, Thread
<1>6. ASSUME NEW t \in Threads, Reply(t)
      PROVE  /\ answered' \subseteq Ids /\ wake' \in BOOLEAN
             /\ UNCHANGED <<card, projection, crashes>>
  BY <1>6, <1>a DEF Reply, HandsOK, At
<1>7. CASE SendSucceeds \/ SendFails
  <2>1. /\ Sent(deliveries[worker.item].key) \/ UNCHANGED card
        /\ UNCHANGED <<wake, projection, answered, crashes>>
    BY <1>7 DEF SendSucceeds, SendFails
  <2>2. [shown |-> "form", version |-> 0] \in [shown : Shown, version : Nat]
    BY DEF Shown
  <2>3. card' \in [Keys -> [shown : Shown, version : Nat]]
    BY <2>1, <2>2, <1>a DEF Sent
  <2> QED BY <2>1, <2>3, <1>a, <1>b
<1>8. CASE ApplySucceeds \/ ApplyFails
  <2>1. worker.item \in 0..Len(log')
    <3>1. worker.pc = "apply"
      BY <1>8 DEF ApplySucceeds, ApplyFails, WorkerAt
    <3>2. worker.item \in 1..Len(log)
      BY <3>1, <1>a DEF WorkerOK
    <3> QED BY <3>2, <1>a
  <2>2. projection' \in {projection, worker.item}
    BY <1>8 DEF ApplySucceeds, ApplyFails
  <2>3. UNCHANGED <<wake, card, answered, crashes>>
    BY <1>8 DEF ApplySucceeds, ApplyFails
  <2> QED BY <2>1, <2>2, <2>3, <1>a, <1>b
<1>9. CASE WakeUp \/ Retry
  BY <1>9, <1>a, <1>b DEF WakeUp, Retry
<1>10. CASE PickHandoff \/ BindDelivery \/ PickBaseEvent \/ MarkProjected
  BY <1>10, <1>1 DEF PickHandoff, BindDelivery, PickBaseEvent, MarkProjected
<1>11. CASE Crash
  <2>1. crashes' \in 0..MaxCrashes /\ wake' = TRUE /\ UNCHANGED <<card, projection, answered>>
    BY <1>11, <1>a DEF Crash
  <2> QED BY <2>1, <1>a, <1>b
<1>12. CASE UNCHANGED vars
  BY <1>12, <1>1 DEF vars
<1> QED
  BY <1>a, <1>b, <1>1, <1>2, <1>3, <1>4, <1>5, <1>6, <1>7, <1>8, <1>9, <1>10, <1>11, <1>12
     DEF Next, Proceed, WorkerStep

\* Initially nothing is stored and nobody has anything in hand.
LEMMA BaseInit ==
  ASSUME Init
  PROVE  Base
<1>1. StoreTypeOK /\ log = << >> /\ deliveries = << >> /\ base = << >>
      /\ \A i \in Issues : issue[i] = None
  BY DEF Init, StoreInit, StoreTypeOK
<1>2. thread \in [Threads -> Thread] /\ HandsOK
  BY DEF Init, Idle, Thread, Shown, HandsOK
<1>3. worker \in Worker /\ WorkerOK
  BY DEF Init, Asleep, Worker, WorkerOK
<1>4. RowsOK
  BY <1>1 DEF RowsOK, Known
<1>5. /\ wake \in BOOLEAN /\ card \in [Keys -> [shown : Shown, version : Nat]]
      /\ answered \subseteq Ids /\ strayed \subseteq Issues /\ crashes \in 0..MaxCrashes
  BY GatewayAssumption DEF Init, Shown
<1>6. projection \in 0..Len(log)
  BY <1>1 DEF Init
<1> QED
  BY <1>1, <1>2, <1>3, <1>4, <1>5, <1>6 DEF Base, TypeOK

\* Every step keeps the base invariant.
LEMMA BaseStep ==
  ASSUME Base, [Next]_vars
  PROVE  Base' /\ StoreStep /\ Kept
<1>1. StoreStep
  BY StoreCases
<1>2. StoreTypeOK' /\ RowsOK' /\ Kept
  BY <1>1, StoreTypes
<1>3. thread' \in [Threads -> Thread] /\ HandsOK'
  BY <1>2, HandsStep
<1>4. worker' \in Worker /\ WorkerOK'
  BY <1>2, WorkerStepOK
<1>5. /\ wake' \in BOOLEAN /\ card' \in [Keys -> [shown : Shown, version : Nat]]
      /\ projection' \in 0..Len(log') /\ answered' \subseteq Ids /\ strayed' \subseteq Issues
      /\ crashes' \in 0..MaxCrashes
  BY <1>2, OutsideTypes, StrayedGrows DEF Base, TypeOK
<1> QED
  BY <1>1, <1>2, <1>3, <1>4, <1>5 DEF Base, TypeOK

\* Every state of every behaviour satisfies the base invariant.
LEMMA BaseAlways == Spec => []Base
<1>1. Init => Base
  BY BaseInit
<1>2. Base /\ [Next]_vars => Base'
  BY BaseStep
<1> QED
  BY <1>1, <1>2, PTL DEF Spec

\* In every behaviour of the Gateway the tables, the threads and the worker
\* keep their types (store.py's transactions, server.py's handlers and
\* worker.py's loop).
THEOREM TypeCorrect == Spec => []TypeOK
<1>1. Base => TypeOK
  BY DEF Base
<1> QED
  BY <1>1, BaseAlways, PTL

-----------------------------------------------------------------------------
(* The Base is told everything in order. *)

\* Every step but MarkProjected only appends pending rows to the outbox of the
\* Base.
Appended ==
  /\ Len(log) \in Nat /\ Len(log') \in Nat /\ Len(log) <= Len(log')
  /\ DOMAIN base = 1..Len(log) /\ DOMAIN base' = 1..Len(log')
  /\ DOMAIN log = 1..Len(log) /\ DOMAIN log' = 1..Len(log')
  /\ \A n \in DOMAIN base : base'[n] = base[n] /\ log'[n] = log[n]
  /\ \A n \in DOMAIN base' : n > Len(log) => base'[n] = "pending"

\* Whatever a transaction does, it records at most one event, and that event
\* waits for the Base.
LEMMA StoreAppends ==
  ASSUME Base, StoreStep
  PROVE  Appended \/ MarkProjected
<1>a. /\ StoreTypeOK /\ Len(log) \in Nat /\ Len(base) = Len(log)
      /\ DOMAIN base = 1..Len(log) /\ DOMAIN log = 1..Len(log)
      /\ \A i \in Issues : Known(i) => issue[i].version \in Nat
  BY DEF Base, TypeOK, StoreTypeOK, Known, Row
<1>1. ASSUME NEW i \in Issues, NEW kind \in Kinds, NEW v \in Nat, Recorded(i, kind, v)
      PROVE  Appended
  <2>1. /\ log' \in Seq(Event) /\ Len(log') = Len(log) + 1
        /\ base' \in Seq({"pending", "done"}) /\ Len(base') = Len(log')
        /\ base'[Len(log) + 1] = "pending"
        /\ \A n \in 1..Len(log) : log'[n] = log[n] /\ base'[n] = base[n]
    BY <1>1, <1>a, RecordedEffect
  <2> QED BY <2>1, <1>a DEF Appended
<1>2. CASE UNCHANGED store
  BY <1>2, <1>a DEF store, Appended
<1>3. ASSUME NEW k \in Keys, NEW i \in Issues, NEW o \in Owners, CreateHandoff(k, i, o)
      PROVE  Appended
  BY <1>3, <1>1 DEF CreateHandoff, Kinds
<1>4. ASSUME NEW c \in ReceiptId, NEW i \in Issues, NEW requested \in Nat \cup {None},
             SubmitSolution(c, i, requested)
      PROVE  Appended
  <2>1. Recorded(i, "SolutionSubmitted", issue[i].version + 1) /\ issue[i].version + 1 \in Nat
    BY <1>4, <1>a DEF SubmitSolution
  <2> QED BY <2>1, <1>1 DEF Kinds
<1>5. ASSUME NEW c \in ReceiptId, NEW i \in Issues, NEW o \in Owners, NEW v \in Nat,
             ConfirmSolution(c, i, o, v) \/ ReportVerificationFailure(c, i, o, v)
      PROVE  Appended
  BY <1>5, <1>1 DEF ConfirmSolution, ReportVerificationFailure, Kinds
<1>6. ASSUME NEW c \in ReceiptId, NEW i \in Issues, NEW kind \in EventKinds,
             RecordFeishuEvent(c, i, kind)
      PROVE  Appended
  BY <1>6, <1>1 DEF RecordFeishuEvent, EventKinds, Kinds
<1>7. CASE BindDelivery
  <2>1. worker.item \in DOMAIN deliveries
    BY <1>7 DEF BindDelivery, WorkerAt, Base, WorkerOK
  <2>2. deliveries[worker.item].issue \in Issues
    <3>1. deliveries[worker.item] \in Delivery
      BY <2>1, <1>a DEF StoreTypeOK
    <3> QED BY <3>1 DEF Delivery
  <2>3. Recorded(deliveries[worker.item].issue, "HandoffDelivered", 0)
    BY <1>7 DEF BindDelivery, CompleteDelivery
  <2> QED BY <2>2, <2>3, <1>1 DEF Kinds
<1> QED
  BY <1>2, <1>3, <1>4, <1>5, <1>6, <1>7 DEF StoreStep

\* The first d events are in the Base, and the worker has the next one in hand.
Projected(d) ==
  /\ \A n \in DOMAIN base : (base[n] = "done") <=> (n <= d)
  /\ projection \in {d, d + 1}
  /\ worker.pc \in {"apply", "applied"} => worker.item = d + 1
  /\ worker.pc = "applied" => projection = d + 1

ProjectedInv == \E d \in 0..Len(log) : Projected(d)

\* The row the worker applies is the first one that is not done.
LEMMA NextToProject ==
  ASSUME Base, NEW d \in 0..Len(log), Projected(d), Pending(base) # {}
  PROVE  Oldest(Pending(base)) = d + 1
<1>1. /\ Len(log) \in Nat /\ DOMAIN base = 1..Len(log)
      /\ \A n \in DOMAIN base : base[n] \in {"pending", "done"}
  BY DEF Base, TypeOK, StoreTypeOK
<1>2. \A n : n \in Pending(base) <=> n \in 1..Len(log) /\ n > d
  BY <1>1 DEF Pending, Projected
<1> DEFINE o == Oldest(Pending(base))
<1>3. o \in Pending(base) /\ \A m \in Pending(base) : o <= m
  BY <1>1, <1>2, OldestIsLeast
<1> HIDE DEF o
<1>4. d + 1 \in Pending(base)
  BY <1>1, <1>2, <1>3
<1>5. o = d + 1
  BY <1>1, <1>2, <1>3, <1>4
<1> QED
  BY <1>5 DEF o

\* Every step keeps the Base in step with the log.
LEMMA ProjectedStep ==
  ASSUME Base, ProjectedInv, [Next]_vars
  PROVE  ProjectedInv'
<1>1. PICK d \in 0..Len(log) : Projected(d)
  BY DEF ProjectedInv
<1>2. Appended \/ MarkProjected
  BY BaseStep, StoreAppends
<1>a. /\ Len(log) \in Nat /\ DOMAIN base = 1..Len(log) /\ d \in Nat /\ d <= Len(log)
      /\ \A n \in DOMAIN base : base[n] \in {"pending", "done"}
      /\ WorkerOK /\ worker \in Worker
  BY DEF Base, TypeOK, StoreTypeOK
<1>3. ASSUME Appended,
             projection' \in {d, d + 1},
             worker'.pc \in {"apply", "applied"} => worker'.item = d + 1,
             worker'.pc = "applied" => projection' = d + 1
      PROVE  ProjectedInv'
  <2>1. d \in 0..Len(log')
    BY <1>3, <1>a DEF Appended
  <2>2. \A n \in DOMAIN base' : (base'[n] = "done") <=> (n <= d)
    BY <1>1, <1>3, <1>a DEF Appended, Projected
  <2>3. Projected(d)'
    BY <1>3, <2>2 DEF Projected
  <2> QED BY <2>1, <2>3 DEF ProjectedInv
<1>4. CASE MarkProjected
  <2>1. worker.pc = "applied" /\ worker.item \in 1..Len(log)
    BY <1>4, <1>a DEF MarkProjected, WorkerAt, WorkerOK
  <2>2. worker.item = d + 1 /\ projection = d + 1
    BY <1>1, <2>1 DEF Projected
  <2>3. base' = [base EXCEPT ![d + 1] = "done"] /\ UNCHANGED log /\ UNCHANGED projection
    BY <1>4, <2>2 DEF MarkProjected, CompleteBaseEvent
  <2>4. worker'.pc \notin {"apply", "applied"}
    BY <1>4 DEF MarkProjected, NextRound, Asleep
  <2>5. \A n \in DOMAIN base' : (base'[n] = "done") <=> (n <= d + 1)
    BY <1>1, <1>a, <2>3 DEF Projected
  <2>6. Projected(d + 1)'
    BY <1>a, <2>2, <2>3, <2>4, <2>5 DEF Projected
  <2> QED BY <2>1, <2>2, <2>3, <2>6, <1>a DEF ProjectedInv
<1>5. ASSUME Appended, UNCHANGED <<worker, projection>>
      PROVE  ProjectedInv'
  BY <1>1, <1>3, <1>5 DEF Projected
<1>6. ASSUME Appended, worker'.pc \notin {"apply", "applied"}, UNCHANGED projection
      PROVE  ProjectedInv'
  BY <1>1, <1>3, <1>6 DEF Projected
<1>7. CASE PickBaseEvent /\ Appended
  <2>1. CASE ~HasBase \/ Pending(base) = {}
    BY <1>6, <1>7, <2>1 DEF PickBaseEvent, NextRound, Asleep
  <2>2. CASE ~(~HasBase \/ Pending(base) = {})
    <3>1. worker' = [worker EXCEPT !.pc = "apply", !.item = Oldest(Pending(base))]
          /\ UNCHANGED projection
      BY <1>7, <2>2 DEF PickBaseEvent
    <3>2. Oldest(Pending(base)) = d + 1
      BY <1>1, <2>2, NextToProject
    <3>3. worker'.pc = "apply" /\ worker'.item = d + 1
      BY <3>1, <3>2, <1>a DEF Worker
    <3> QED BY <1>1, <1>3, <1>7, <3>1, <3>3 DEF Projected
  <2> QED BY <2>1, <2>2
<1>8. CASE ApplySucceeds /\ Appended
  <2>1. worker.pc = "apply" /\ worker.item = d + 1
    BY <1>1, <1>8 DEF ApplySucceeds, WorkerAt, Projected
  <2>2. projection' = d + 1 /\ worker'.item = d + 1
    BY <1>8, <2>1, <1>a DEF ApplySucceeds, Worker
  <2> QED BY <1>3, <1>8, <2>2
<1>9. CASE ApplyFails /\ Appended
  <2>1. worker.item = d + 1
    BY <1>1, <1>9 DEF ApplyFails, WorkerAt, Projected
  <2>2. projection' \in {d, d + 1} /\ worker'.pc \notin {"apply", "applied"}
    BY <1>1, <1>9, <2>1 DEF ApplyFails, NextRound, Asleep, Projected
  <2> QED BY <1>3, <1>9, <2>2
<1>10. ASSUME WakeUp \/ PickHandoff \/ SendSucceeds \/ SendFails \/ BindDelivery \/ Retry \/ Crash
       PROVE  worker'.pc \notin {"apply", "applied"} /\ UNCHANGED projection
  <2>1. CASE WakeUp \/ Retry \/ Crash
    BY <2>1 DEF WakeUp, Retry, Crash, Asleep
  <2>2. CASE PickHandoff
    BY <2>2, <1>a DEF PickHandoff, Worker
  <2>3. CASE SendSucceeds \/ SendFails \/ BindDelivery
    BY <2>3, <1>a DEF SendSucceeds, SendFails, BindDelivery, Worker
  <2> QED BY <1>10, <2>1, <2>2, <2>3
<1> QED
  BY <1>2, <1>4, <1>5, <1>6, <1>7, <1>8, <1>9, <1>10, WorkerMoves DEF WorkerStep

\* For every number of handlers, issues and callbacks, and however often Feishu
\* or the Base fail and the process dies, the Base has been told exactly a
\* prefix of the event log, or that prefix and the event whose row is about to
\* be marked (dispatch_one_base_event, OutboxWorker._run).
THEOREM ProjectedInOrderAlways == Spec => []ProjectedInOrder
<1>1. Init => ProjectedInv
  <2> SUFFICES ASSUME Init PROVE ProjectedInv
    OBVIOUS
  <2>1. Len(log) = 0 /\ DOMAIN base = {} /\ projection = 0 /\ worker.pc = "wait"
    BY DEF Init, StoreInit, Asleep
  <2>2. Projected(0)
    BY <2>1 DEF Projected
  <2> QED BY <2>1, <2>2 DEF ProjectedInv
<1>2. Base /\ ProjectedInv /\ [Next]_vars => ProjectedInv'
  BY ProjectedStep
<1>3. ProjectedInv => ProjectedInOrder
  BY DEF ProjectedInv, Projected, ProjectedInOrder
<1> QED
  BY <1>1, <1>2, <1>3, BaseAlways, PTL DEF Spec

-----------------------------------------------------------------------------
(* Rows and the log agree. *)

After(kind) == CASE kind = "SolutionSubmitted"  -> "pending_verification"
                 [] kind = "ReporterConfirmed"  -> "closed"
                 [] kind = "VerificationFailed" -> "open"

\* One transaction about issue i that records an event: what it does to rows.
RowChange(i, kind, v) ==
  /\ Recorded(i, kind, v)
  /\ issue'[i] \in Row
  /\ \A j \in Issues \ {i} : issue'[j] = issue[j]
  /\ kind \in Deciding =>
       /\ Known(i) /\ v = issue'[i].version /\ issue'[i].status = After(kind)
       /\ IF kind = "SolutionSubmitted" THEN issue'[i].version = issue[i].version + 1
          ELSE issue'[i].version = issue[i].version /\ issue[i].status = "pending_verification"
  /\ kind \notin Deciding =>
       IF Known(i) THEN /\ issue'[i].status = issue[i].status
                        /\ issue'[i].version = issue[i].version
       ELSE issue'[i].status = "open" /\ issue'[i].version = 0
  /\ kind # "HandoffDelivered" =>
       IF Known(i) THEN issue'[i].message = issue[i].message /\ issue'[i].topic = issue[i].topic
       ELSE issue'[i].message = None /\ issue'[i].topic = None

\* Every step leaves rows and log alone, or is one such transaction; only the
\* worker's is about a delivery.
LEMMA RowChanges ==
  ASSUME Base, StoreStep
  PROVE  \/ UNCHANGED <<issue, log, deliveries, handoffs, receipts>>
         \/ \E i \in Issues, kind \in Kinds, v \in Nat :
              /\ RowChange(i, kind, v)
              /\ kind = "HandoffDelivered" => BindDelivery
<1> DEFINE Goal == \/ UNCHANGED <<issue, log, deliveries, handoffs, receipts>>
                   \/ \E i \in Issues, kind \in Kinds, v \in Nat :
                        /\ RowChange(i, kind, v)
                        /\ kind = "HandoffDelivered" => BindDelivery
<1>a. /\ issue \in [Issues -> Row \cup {None}]
      /\ StoreTypeOK' /\ RowsOK'
      /\ \A i \in Issues : Known(i) => issue[i] \in Row
      /\ \A i \in Issues : Known(i)' => issue'[i] \in Row
  BY StoreTypes DEF Base, TypeOK, StoreTypeOK, Known
<1>b. \A i \in Issues : issue[i] \in Row => issue[i].version \in Nat
  BY DEF Row
<1>1. CASE UNCHANGED store
  BY <1>1 DEF store
<1>2. ASSUME NEW k \in Keys, NEW i \in Issues, NEW o \in Owners, CreateHandoff(k, i, o)
      PROVE  Goal
  <2> DEFINE row == IF Known(i) THEN [issue[i] EXCEPT !.handoff = "queued"]
                    ELSE [owner |-> o, status |-> "open", handoff |-> "queued", version |-> 0,
                          message |-> None, topic |-> None]
  <2>1. issue' = [issue EXCEPT ![i] = row]
    BY <1>2 DEF CreateHandoff
  <2>2. issue'[i] = row /\ \A j \in Issues \ {i} : issue'[j] = issue[j]
    BY <1>a, <2>1
  <2>3. /\ row \in Row
        /\ IF Known(i) THEN /\ row.status = issue[i].status /\ row.version = issue[i].version
                            /\ row.message = issue[i].message /\ row.topic = issue[i].topic
           ELSE row.status = "open" /\ row.version = 0 /\ row.message = None /\ row.topic = None
    BY <1>a DEF Row, Status, Handoff
  <2>4. Recorded(i, "HandoffRequested", 0) /\ "HandoffRequested" \notin Deciding
    BY <1>2 DEF CreateHandoff, Deciding
  <2> HIDE DEF row
  <2>5. RowChange(i, "HandoffRequested", 0)
    BY <2>2, <2>3, <2>4 DEF RowChange
  <2> QED BY <2>5 DEF Kinds
<1>3. ASSUME NEW c \in ReceiptId, NEW i \in Issues, NEW requested \in Nat \cup {None},
             SubmitSolution(c, i, requested)
      PROVE  Goal
  <2> DEFINE next == issue[i].version + 1
             row  == [issue[i] EXCEPT !.status = "pending_verification",
                                      !.handoff = "solution_available", !.version = next]
  <2>0. issue[i] \in Row /\ next \in Nat /\ Known(i)
    BY <1>3, <1>a, <1>b DEF SubmitSolution
  <2>1. issue' = [issue EXCEPT ![i] = row]
    BY <1>3, <1>a DEF SubmitSolution
  <2>2. issue'[i] = row /\ \A j \in Issues \ {i} : issue'[j] = issue[j]
    BY <1>a, <2>1
  <2>3. /\ row \in Row /\ row.status = "pending_verification" /\ row.version = next
        /\ row.message = issue[i].message /\ row.topic = issue[i].topic
    BY <2>0 DEF Row, Status, Handoff
  <2>4. Recorded(i, "SolutionSubmitted", next) /\ After("SolutionSubmitted") = "pending_verification"
    BY <1>3 DEF SubmitSolution, After
  <2>5. next = issue[i].version + 1
    OBVIOUS
  <2> HIDE DEF row, next
  <2>6. RowChange(i, "SolutionSubmitted", next)
    BY <2>0, <2>2, <2>3, <2>4, <2>5 DEF RowChange, Deciding
  <2> QED BY <2>0, <2>6 DEF Kinds
<1>4. ASSUME NEW i \in Issues, NEW v \in Nat, NEW status \in Status, NEW handoff \in Handoff,
             NEW kind \in {"ReporterConfirmed", "VerificationFailed"},
             Known(i), issue[i].version = v, Moved(i, status, handoff), Recorded(i, kind, v),
             status = After(kind), issue[i].status = "pending_verification"
      PROVE  Goal
  <2> DEFINE row == [issue[i] EXCEPT !.status = status, !.handoff = handoff]
  <2>1. issue'[i] = row /\ \A j \in Issues \ {i} : issue'[j] = issue[j]
    BY <1>4, <1>a DEF Moved
  <2>2. /\ row \in Row /\ row.status = status /\ row.version = v
        /\ row.message = issue[i].message /\ row.topic = issue[i].topic
    BY <1>4, <1>a DEF Row
  <2> HIDE DEF row
  <2>3. RowChange(i, kind, v)
    BY <1>4, <2>1, <2>2 DEF RowChange, Deciding
  <2> QED BY <1>4, <2>3 DEF Kinds
<1>5. ASSUME NEW c \in ReceiptId, NEW i \in Issues, NEW o \in Owners, NEW v \in Nat,
             ConfirmSolution(c, i, o, v)
      PROVE  Goal
  <2>1. "closed" = After("ReporterConfirmed") /\ "closed" \in Status /\ "closed" \in Handoff
    BY DEF After, Status, Handoff
  <2> QED BY <1>4, <1>5, <2>1 DEF ConfirmSolution, Verifiable
<1>6. ASSUME NEW c \in ReceiptId, NEW i \in Issues, NEW o \in Owners, NEW v \in Nat,
             ReportVerificationFailure(c, i, o, v)
      PROVE  Goal
  <2>1. "open" = After("VerificationFailed") /\ "open" \in Status /\ "delivered" \in Handoff
    BY DEF After, Status, Handoff
  <2> QED BY <1>4, <1>6, <2>1 DEF ReportVerificationFailure, Verifiable
<1>7. ASSUME NEW c \in ReceiptId, NEW i \in Issues, NEW kind \in EventKinds,
             RecordFeishuEvent(c, i, kind)
      PROVE  Goal
  <2> DEFINE row == [issue[i] EXCEPT !.handoff =
                       CASE kind = "EngineerClaimed" -> "handling"
                         [] kind = "TopicBound" -> "delivered"
                         [] kind = "FeishuMessageCaptured" -> @]
  <2>0. Known(i) /\ Recorded(i, kind, 0) /\ kind \notin Deciding /\ kind \in Kinds
        /\ kind # "HandoffDelivered"
    BY <1>7 DEF RecordFeishuEvent, EventKinds, Deciding, Kinds
  <2>1. issue' = [issue EXCEPT ![i] = row]
    BY <1>7, <1>a DEF RecordFeishuEvent
  <2>2. issue'[i] = row /\ \A j \in Issues \ {i} : issue'[j] = issue[j]
    BY <1>a, <2>1
  <2>3. /\ row.status = issue[i].status /\ row.version = issue[i].version
        /\ row.message = issue[i].message /\ row.topic = issue[i].topic
        /\ row \in Row
    BY <1>7, <1>a, <2>0 DEF Row, EventKinds, Handoff
  <2> HIDE DEF row
  <2>4. RowChange(i, kind, 0)
    BY <2>0, <2>2, <2>3 DEF RowChange
  <2> QED BY <2>0, <2>4
<1>8. CASE BindDelivery
  <2> DEFINE i == deliveries[worker.item].issue
             k == deliveries[worker.item].key
             top == IF worker.topic = None THEN k ELSE worker.topic
             row == [issue[i] EXCEPT !.handoff = "delivered", !.message = k, !.topic = top]
  <2>1. worker.item \in DOMAIN deliveries
    BY <1>8 DEF BindDelivery, WorkerAt, Base, WorkerOK
  <2>2. i \in Issues /\ k \in Keys /\ issue[i] \in Row
    <3>1. deliveries[worker.item] \in Delivery
      BY <2>1 DEF Base, TypeOK, StoreTypeOK
    <3> QED BY <2>1, <3>1 DEF Delivery, Base, RowsOK
  <2>3. CompleteDelivery(worker.item, k, top) /\ top \in Keys
    BY <1>8, <2>2 DEF BindDelivery, Base, TypeOK, Worker
  <2>4. /\ Recorded(i, "HandoffDelivered", 0) /\ "HandoffDelivered" \notin Deciding
        /\ issue' = [issue EXCEPT ![i] = row]
    BY <1>a, <2>2, <2>3 DEF CompleteDelivery, Deciding
  <2>5. /\ row \in Row /\ row.status = issue[i].status /\ row.version = issue[i].version
        /\ Known(i)
    <3>1. issue[i] \in Row /\ k \in Keys /\ top \in Keys
      BY <2>2, <2>3
    <3>2. issue[i] # None
      BY <3>1, StoreAssumption
    <3> HIDE DEF i, k, top
    <3> QED BY <3>1, <3>2 DEF Row, Handoff, Known
  <2>6. issue'[i] = row /\ \A j \in Issues \ {i} : issue'[j] = issue[j]
    BY <1>a, <2>2, <2>4
  <2> HIDE DEF row, i, k, top
  <2>7. RowChange(i, "HandoffDelivered", 0)
    BY <2>4, <2>5, <2>6 DEF RowChange
  <2> QED BY <1>8, <2>2, <2>7 DEF Kinds
<1>9. CASE MarkProjected
  BY <1>9 DEF MarkProjected, CompleteBaseEvent
<1> QED
  BY <1>1, <1>2, <1>3, <1>5, <1>6, <1>7, <1>8, <1>9 DEF StoreStep

Agrees(i) ==
  \/ issue[i].status = "open" /\ issue[i].version = 0
  \/ \E n \in DOMAIN log :
       /\ IsLast(i, n)
       /\ log[n].version = issue[i].version
       /\ issue[i].status = After(log[n].kind)

\* The log a transaction about issue i leaves.
LEMMA LogGrows ==
  ASSUME Base, NEW i \in Issues, NEW kind \in Kinds, NEW v \in Nat, Recorded(i, kind, v)
  PROVE  /\ Len(log) \in Nat /\ DOMAIN log = 1..Len(log) /\ DOMAIN log' = 1..(Len(log) + 1)
         /\ log'[Len(log) + 1] = [issue |-> i, kind |-> kind, version |-> v]
         /\ \A n \in DOMAIN log : log'[n] = log[n]
BY RecordedEffect DEF Base, TypeOK, StoreTypeOK

\* The newest event is the last deciding one of its issue, if it decides.
LEMMA DecidedAgrees ==
  ASSUME Base, NEW i \in Issues, NEW kind \in Deciding, NEW v \in Nat, RowChange(i, kind, v)
  PROVE  Agrees(i)'
<1>1. kind \in Kinds /\ Recorded(i, kind, v)
  BY DEF Deciding, Kinds, RowChange
<1>2. PICK n \in DOMAIN log' : /\ log'[n] = [issue |-> i, kind |-> kind, version |-> v]
                               /\ \A m \in DOMAIN log' : ~(m > n)
  <2>1. /\ Len(log) + 1 \in DOMAIN log'
        /\ log'[Len(log) + 1] = [issue |-> i, kind |-> kind, version |-> v]
        /\ \A m \in DOMAIN log' : ~(m > Len(log) + 1)
    BY <1>1, LogGrows
  <2> QED BY <2>1
<1>3. IsLast(i, n)'
  BY <1>2 DEF IsLast
<1>4. issue'[i].version = v /\ issue'[i].status = After(kind)
  BY DEF RowChange
<1> QED
  BY <1>2, <1>3, <1>4 DEF Agrees

\* An event that decides nothing for issue j leaves its last deciding event.
LEMMA OthersAgree ==
  ASSUME Base, NEW i \in Issues, NEW kind \in Kinds, NEW v \in Nat, RowChange(i, kind, v),
         NEW j \in Issues, Agrees(j), j # i \/ kind \notin Deciding,
         issue'[j].status = issue[j].status, issue'[j].version = issue[j].version
  PROVE  Agrees(j)'
<1>1. CASE issue[j].status = "open" /\ issue[j].version = 0
  BY <1>1 DEF Agrees
<1>2. ASSUME NEW n \in DOMAIN log, IsLast(j, n), log[n].version = issue[j].version,
             issue[j].status = After(log[n].kind)
      PROVE  Agrees(j)'
  <2>1. /\ Len(log) \in Nat /\ DOMAIN log = 1..Len(log) /\ DOMAIN log' = 1..(Len(log) + 1)
        /\ log'[Len(log) + 1] = [issue |-> i, kind |-> kind, version |-> v]
        /\ \A m \in DOMAIN log : log'[m] = log[m]
    BY LogGrows DEF RowChange
  <2>2. n \in DOMAIN log' /\ log'[n] = log[n]
    BY <2>1
  <2>3. ASSUME NEW m \in DOMAIN log', m > n
        PROVE  ~(log'[m].issue = j /\ log'[m].kind \in Deciding)
    <3>1. CASE m = Len(log) + 1
      BY <2>1, <3>1
    <3>2. CASE m # Len(log) + 1
      <4>1. m \in DOMAIN log /\ log'[m] = log[m]
        BY <2>1, <3>2
      <4> QED BY <1>2, <2>3, <4>1 DEF IsLast
    <3> QED BY <3>1, <3>2
  <2>4. IsLast(j, n)'
    BY <1>2, <2>2, <2>3 DEF IsLast
  <2> QED BY <1>2, <2>2, <2>4 DEF Agrees
<1> QED
  BY <1>1, <1>2 DEF Agrees

\* Every step keeps rows and log in agreement.
LEMMA AgreeStep ==
  ASSUME Base, StoreStep, \A j \in Issues : Known(j) => Agrees(j)
  PROVE  \A j \in Issues : Known(j)' => Agrees(j)'
<1>1. CASE UNCHANGED <<issue, log, deliveries, handoffs, receipts>>
  BY <1>1 DEF Known, Agrees, IsLast
<1>2. ASSUME NEW i \in Issues, NEW kind \in Kinds, NEW v \in Nat, RowChange(i, kind, v),
             NEW j \in Issues, Known(j)'
      PROVE  Agrees(j)'
  <2>1. CASE j # i
    <3>1. issue'[j] = issue[j] /\ Known(j)
      BY <1>2, <2>1 DEF RowChange, Known
    <3> QED BY <1>2, <2>1, <3>1, OthersAgree
  <2>2. CASE j = i /\ kind \in Deciding
    BY <1>2, <2>2, DecidedAgrees
  <2>3. CASE j = i /\ kind \notin Deciding /\ Known(i)
    <3>1. issue'[j].status = issue[j].status /\ issue'[j].version = issue[j].version
      BY <1>2, <2>3 DEF RowChange
    <3> QED BY <1>2, <2>3, <3>1, OthersAgree
  <2>4. CASE j = i /\ kind \notin Deciding /\ ~Known(i)
    BY <1>2, <2>4 DEF RowChange, Agrees
  <2> QED BY <2>1, <2>2, <2>3, <2>4
<1> QED
  BY <1>1, <1>2, RowChanges

\* In every behaviour, for every set of issues and callbacks, the row of an
\* issue says what its last deciding event left, for its current version
\* (submit_solution, confirm_solution, report_verification_failure).
THEOREM RowFollowsLogAlways == Spec => []RowFollowsLog
<1> DEFINE Inv == \A j \in Issues : Known(j) => Agrees(j)
<1>1. Init => Inv
  BY DEF Init, StoreInit, Known
<1>2. Base /\ Inv /\ [Next]_vars => Inv'
  BY BaseStep, AgreeStep
<1>3. Inv => RowFollowsLog
  BY DEF RowFollowsLog, Agrees, After
<1> HIDE DEF Inv
<1> QED
  BY <1>1, <1>2, <1>3, BaseAlways, PTL DEF Spec

-----------------------------------------------------------------------------
(* Every request takes effect once. *)

\* A transaction that answers nobody with its event leaves every answer alone.
LEMMA AnswersSame ==
  ASSUME UNCHANGED <<handoffs, receipts>>, NEW n
  PROVE  Answers(n)' = Answers(n)
BY DEF Answers

\* A request that was not answered before is answered with the new event, and
\* the events before it keep their answers.
LEMMA AnswersNew ==
  ASSUME Base, NEW new, new = Len(log) + 1,
         \/ \E k \in Keys : /\ handoffs[k] = 0
                            /\ handoffs' = [handoffs EXCEPT ![k] = new]
                            /\ UNCHANGED receipts
         \/ \E c \in ReceiptId : receipts[c] = 0 /\ Receipted(c) /\ UNCHANGED handoffs
  PROVE  /\ \A n \in DOMAIN log : Answers(n)' = Answers(n)
         /\ \E x : Answers(new)' = {x}
<1>1. /\ handoffs \in [Keys -> 0..Len(log)] /\ receipts \in [ReceiptId -> 0..Len(log)]
      /\ Len(log) \in Nat /\ DOMAIN log = 1..Len(log)
  BY DEF Base, TypeOK, StoreTypeOK
<1>2. ASSUME NEW k \in Keys, handoffs[k] = 0,
             handoffs' = [handoffs EXCEPT ![k] = new], UNCHANGED receipts
      PROVE  /\ \A n \in DOMAIN log : Answers(n)' = Answers(n)
             /\ Answers(new)' = {k}
  <2>1. ASSUME NEW n \in DOMAIN log
        PROVE  {j \in Keys : handoffs'[j] = n} = {j \in Keys : handoffs[j] = n}
    BY <1>1, <1>2
  <2>2. {j \in Keys : handoffs'[j] = new} = {k}
    BY <1>1, <1>2
  <2>3. {c \in ReceiptId : receipts'[c] = new} = {}
    BY <1>1, <1>2
  <2> QED BY <1>2, <2>1, <2>2, <2>3 DEF Answers
<1>3. ASSUME NEW c \in ReceiptId, receipts[c] = 0, Receipted(c), UNCHANGED handoffs
      PROVE  /\ \A n \in DOMAIN log : Answers(n)' = Answers(n)
             /\ Answers(new)' = {c}
  <2>0. receipts' = [receipts EXCEPT ![c] = new]
    BY <1>3 DEF Receipted
  <2>1. ASSUME NEW n \in DOMAIN log
        PROVE  {d \in ReceiptId : receipts'[d] = n} = {d \in ReceiptId : receipts[d] = n}
    BY <1>1, <1>3, <2>0
  <2>2. {d \in ReceiptId : receipts'[d] = new} = {c}
    BY <1>1, <2>0
  <2>3. {k \in Keys : handoffs'[k] = new} = {}
    BY <1>1, <1>3
  <2> QED BY <1>3, <2>1, <2>2, <2>3 DEF Answers
<1> QED
  BY <1>2, <1>3

\* Every step keeps answers and events one to one.
LEMMA AnsweredStep ==
  ASSUME Base, StoreStep, AnsweredOnce
  PROVE  AnsweredOnce'
<1>1. ASSUME NEW i \in Issues, NEW kind \in Kinds, NEW v \in Nat, Recorded(i, kind, v),
             \A n \in DOMAIN log : Answers(n)' = Answers(n),
             NEW new, new = Len(log) + 1,
             IF kind = "HandoffDelivered" THEN Answers(new)' = {} ELSE \E x : Answers(new)' = {x}
      PROVE  AnsweredOnce'
  <2>1. /\ Len(log) \in Nat /\ DOMAIN log = 1..Len(log) /\ DOMAIN log' = 1..new
        /\ log'[new] = [issue |-> i, kind |-> kind, version |-> v]
        /\ \A n \in DOMAIN log : log'[n] = log[n]
    BY <1>1, LogGrows
  <2>2. ASSUME NEW n \in DOMAIN log
        PROVE  Cardinality(Answers(n)') = IF log'[n].kind = "HandoffDelivered" THEN 0 ELSE 1
    BY <1>1, <2>1 DEF AnsweredOnce
  <2>3. Cardinality(Answers(new)') = IF log'[new].kind = "HandoffDelivered" THEN 0 ELSE 1
    <3>1. log'[new].kind = kind
      BY <2>1
    <3>2. CASE kind = "HandoffDelivered"
      BY <1>1, <3>1, <3>2, FS_EmptySet
    <3>3. CASE kind # "HandoffDelivered"
      <4>1. PICK x : Answers(new)' = {x}
        BY <1>1, <3>3
      <4> QED BY <3>1, <3>3, <4>1, FS_Singleton
    <3> QED BY <3>2, <3>3
  <2>4. \A n \in DOMAIN log' : n \in DOMAIN log \/ n = new
    BY <1>1, <2>1
  <2>5. \A n \in DOMAIN log' :
          Cardinality(Answers(n)') = IF log'[n].kind = "HandoffDelivered" THEN 0 ELSE 1
    BY <2>2, <2>3, <2>4
  <2> QED BY <2>5 DEF AnsweredOnce
<1>2. CASE UNCHANGED store
  BY <1>2, AnswersSame DEF store, AnsweredOnce
<1>3. ASSUME NEW k \in Keys, NEW i \in Issues, NEW o \in Owners, CreateHandoff(k, i, o)
      PROVE  AnsweredOnce'
  <2>1. handoffs[k] = 0 /\ handoffs' = [handoffs EXCEPT ![k] = Len(log) + 1] /\ UNCHANGED receipts
    BY <1>3 DEF CreateHandoff
  <2> QED BY <1>1, <1>3, <2>1, AnswersNew DEF CreateHandoff, Kinds
<1>4. ASSUME NEW c \in ReceiptId, receipts[c] = 0, Receipted(c), UNCHANGED handoffs,
             NEW i \in Issues, NEW kind \in Kinds, NEW v \in Nat, Recorded(i, kind, v),
             kind # "HandoffDelivered"
      PROVE  AnsweredOnce'
  BY <1>1, <1>4, AnswersNew
<1>5. ASSUME NEW c \in ReceiptId, NEW i \in Issues, NEW requested \in Nat \cup {None},
             SubmitSolution(c, i, requested)
      PROVE  AnsweredOnce'
  <2>1. issue[i].version + 1 \in Nat
    BY <1>5 DEF SubmitSolution, Known, Base, TypeOK, StoreTypeOK, Row
  <2> QED BY <1>4, <1>5, <2>1 DEF SubmitSolution, Kinds
<1>6. ASSUME NEW c \in ReceiptId, NEW i \in Issues, NEW o \in Owners, NEW v \in Nat,
             ConfirmSolution(c, i, o, v) \/ ReportVerificationFailure(c, i, o, v)
      PROVE  AnsweredOnce'
  BY <1>4, <1>6 DEF ConfirmSolution, ReportVerificationFailure, Verifiable, Kinds
<1>7. ASSUME NEW c \in ReceiptId, NEW i \in Issues, NEW kind \in EventKinds,
             RecordFeishuEvent(c, i, kind)
      PROVE  AnsweredOnce'
  BY <1>4, <1>7 DEF RecordFeishuEvent, EventKinds, Kinds
<1>8. CASE BindDelivery
  <2>1. deliveries[worker.item].issue \in Issues
    <3>1. worker.item \in DOMAIN deliveries
      BY <1>8 DEF BindDelivery, WorkerAt, Base, WorkerOK
    <3>2. deliveries[worker.item] \in Delivery
      BY <3>1 DEF Base, TypeOK, StoreTypeOK
    <3> QED BY <3>2 DEF Delivery
  <2>2. Recorded(deliveries[worker.item].issue, "HandoffDelivered", 0)
        /\ UNCHANGED <<handoffs, receipts>>
    BY <1>8 DEF BindDelivery, CompleteDelivery
  <2>3. ASSUME NEW new, new = Len(log) + 1
        PROVE  Answers(new)' = {}
    <3>1. /\ handoffs' \in [Keys -> 0..Len(log)] /\ receipts' \in [ReceiptId -> 0..Len(log)]
          /\ Len(log) \in Nat
      BY <2>2 DEF Base, TypeOK, StoreTypeOK
    <3> QED BY <2>3, <3>1 DEF Answers
  <2> QED BY <1>1, <2>1, <2>2, <2>3, AnswersSame DEF Kinds
<1>9. CASE MarkProjected
  BY <1>9, AnswersSame DEF MarkProjected, CompleteBaseEvent, AnsweredOnce
<1> QED
  BY <1>2, <1>3, <1>5, <1>6, <1>7, <1>8, <1>9 DEF StoreStep

\* Whatever a device or Feishu repeats, and however requests interleave, each
\* answered key or callback id has an event of its own (the replay branches of
\* create_handoff, submit_solution, confirm_solution and the others).
THEOREM AnsweredOnceAlways == Spec => []AnsweredOnce
<1>1. Init => AnsweredOnce
  BY DEF Init, StoreInit, AnsweredOnce
<1>2. Base /\ AnsweredOnce /\ [Next]_vars => AnsweredOnce'
  BY BaseStep, AnsweredStep
<1> QED
  BY <1>1, <1>2, BaseAlways, PTL DEF Spec

-----------------------------------------------------------------------------
(* Keys, deliveries and topics. *)

\* The card of key k was sent for issue i.
Posted(k, i) == \E n \in DOMAIN deliveries : deliveries[n].key = k /\ deliveries[n].issue = i

KeysOwn ==
  /\ \A n, m \in DOMAIN deliveries : deliveries[n].key = deliveries[m].key => n = m
  /\ \A n \in DOMAIN deliveries : handoffs[deliveries[n].key] # 0

CardsOwn ==
  \A i \in Issues : Known(i) =>
    /\ (issue[i].message = None) <=> (issue[i].topic = None)
    /\ issue[i].message # None => Posted(issue[i].message, i)
    /\ issue[i].topic # None =>
         \E j \in Issues : Root[j] = Root[i] /\ Posted(issue[i].topic, j)

OneTopic ==
  \A r : \A i, j \in Threaded(r) : issue[i].topic = issue[j].topic

\* Between reading the family's topic and binding the delivery, nobody else
\* gives the family a topic.
WorkerTopic ==
  worker.pc \in {"send", "sent"} =>
    LET r == Root[deliveries[worker.item].issue] IN
    IF worker.topic = None THEN Threaded(r) = {}
    ELSE \E i \in Threaded(r) : issue[i].topic = worker.topic

FamilyInv == KeysOwn /\ CardsOwn /\ OneTopic /\ WorkerTopic

\* A card belongs to one issue.
LEMMA PostedOnce ==
  ASSUME KeysOwn, NEW k, NEW i, NEW j, Posted(k, i), Posted(k, j)
  PROVE  i = j
BY DEF KeysOwn, Posted

\* The invariant is what the property asks for.
LEMMA FamilyEnough ==
  ASSUME FamilyInv
  PROVE  OneTopicPerFamily
<1> SUFFICES ASSUME NEW i \in Issues, NEW j \in Issues, Known(i), Known(j),
                    issue[i].message # None, issue[j].message # None
             PROVE  /\ i # j => issue[i].message # issue[j].message
                    /\ (Root[i] = Root[j]) <=> (issue[i].topic = issue[j].topic)
  BY DEF OneTopicPerFamily
<1>1. /\ Posted(issue[i].message, i) /\ Posted(issue[j].message, j)
      /\ issue[i].topic # None /\ issue[j].topic # None
  BY DEF FamilyInv, CardsOwn
<1>2. i # j => issue[i].message # issue[j].message
  BY <1>1, PostedOnce DEF FamilyInv
<1>3. Root[i] = Root[j] => issue[i].topic = issue[j].topic
  BY <1>1 DEF FamilyInv, OneTopic, Threaded
<1>4. ASSUME issue[i].topic = issue[j].topic PROVE Root[i] = Root[j]
  <2>1. PICK a \in Issues : Root[a] = Root[i] /\ Posted(issue[i].topic, a)
    BY <1>1 DEF FamilyInv, CardsOwn
  <2>2. PICK b \in Issues : Root[b] = Root[j] /\ Posted(issue[j].topic, b)
    BY <1>1 DEF FamilyInv, CardsOwn
  <2>3. a = b
    BY <1>4, <2>1, <2>2, PostedOnce DEF FamilyInv
  <2> QED BY <2>1, <2>2, <2>3
<1> QED
  BY <1>2, <1>3, <1>4

-----------------------------------------------------------------------------
(* What a step does to deliveries and bindings. *)

\* Entries keep their key and issue; a new one has a key not handed off before.
DeliveriesKept ==
  /\ DOMAIN deliveries \subseteq DOMAIN deliveries'
  /\ \A n \in DOMAIN deliveries : /\ deliveries'[n].key = deliveries[n].key
                                  /\ deliveries'[n].issue = deliveries[n].issue
  /\ \A k \in Keys : handoffs[k] # 0 => handoffs'[k] # 0
  /\ \A n, m \in DOMAIN deliveries' \ DOMAIN deliveries : n = m
  /\ \A n \in DOMAIN deliveries' \ DOMAIN deliveries :
       /\ deliveries'[n].key \in Keys /\ handoffs[deliveries'[n].key] = 0
       /\ handoffs'[deliveries'[n].key] # 0

BindingsKept ==
  \A i \in Issues :
    /\ Known(i) => /\ Known(i)' /\ issue'[i].message = issue[i].message
                   /\ issue'[i].topic = issue[i].topic
    /\ ~Known(i) /\ Known(i)' => issue'[i].message = None /\ issue'[i].topic = None

\* Every step keeps the deliveries in this sense.
LEMMA DeliveriesStep ==
  ASSUME Base, StoreStep
  PROVE  DeliveriesKept
<1>a. /\ deliveries \in Seq(Delivery) /\ Len(deliveries) \in Nat
      /\ DOMAIN deliveries = 1..Len(deliveries)
      /\ handoffs \in [Keys -> 0..Len(log)] /\ Len(log) \in Nat
      /\ \A n \in DOMAIN deliveries : deliveries[n] \in Delivery
  BY DEF Base, TypeOK, StoreTypeOK
<1>1. CASE UNCHANGED <<deliveries, handoffs>>
  BY <1>1 DEF DeliveriesKept
<1>2. ASSUME NEW k \in Keys, NEW i \in Issues, NEW o \in Owners, CreateHandoff(k, i, o)
      PROVE  DeliveriesKept
  <2> DEFINE d == [issue |-> i, key |-> k, state |-> "pending"]
  <2>1. deliveries' = Append(deliveries, d) /\ handoffs[k] = 0
        /\ handoffs' = [handoffs EXCEPT ![k] = Len(log) + 1]
    BY <1>2 DEF CreateHandoff
  <2>2. d \in Delivery /\ d.key = k
    BY DEF Delivery
  <2> HIDE DEF d
  <2>3. /\ DOMAIN deliveries' = 1..(Len(deliveries) + 1)
        /\ deliveries'[Len(deliveries) + 1] = d
        /\ \A n \in DOMAIN deliveries : deliveries'[n] = deliveries[n]
    BY <1>a, <2>1, <2>2
  <2>4. \A n \in DOMAIN deliveries' \ DOMAIN deliveries : n = Len(deliveries) + 1
    BY <1>a, <2>3
  <2>5. handoffs'[k] # 0 /\ \A j \in Keys : handoffs[j] # 0 => handoffs'[j] # 0
    BY <1>a, <2>1
  <2> QED BY <1>a, <2>1, <2>2, <2>3, <2>4, <2>5 DEF DeliveriesKept
<1>3. CASE BindDelivery
  <2>1. /\ deliveries' = [deliveries EXCEPT ![worker.item].state = "done"]
        /\ UNCHANGED handoffs
    BY <1>3 DEF BindDelivery, CompleteDelivery
  <2>2. worker.item \in DOMAIN deliveries
    BY <1>3 DEF BindDelivery, WorkerAt, Base, WorkerOK
  <2>3. /\ DOMAIN deliveries' = DOMAIN deliveries
        /\ \A n \in DOMAIN deliveries : /\ deliveries'[n].key = deliveries[n].key
                                        /\ deliveries'[n].issue = deliveries[n].issue
    BY <1>a, <2>1, <2>2 DEF Delivery
  <2> QED BY <2>1, <2>3 DEF DeliveriesKept
<1>4. ASSUME StoreStep, ~BindDelivery,
             ~\E k \in Keys, i \in Issues, o \in Owners : CreateHandoff(k, i, o)
      PROVE  UNCHANGED <<deliveries, handoffs>>
  BY <1>4 DEF StoreStep, store, SubmitSolution, ConfirmSolution, ReportVerificationFailure,
              RecordFeishuEvent, MarkProjected, CompleteBaseEvent
<1> QED
  BY <1>1, <1>2, <1>3, <1>4

\* Only the worker binds a card to an issue.
LEMMA BindingsStep ==
  ASSUME Base, StoreStep, ~BindDelivery
  PROVE  BindingsKept
<1>1. CASE UNCHANGED issue
  BY <1>1 DEF BindingsKept, Known
<1>2. ASSUME NEW i \in Issues, NEW kind \in Kinds, NEW v \in Nat, RowChange(i, kind, v),
             kind # "HandoffDelivered"
      PROVE  BindingsKept
  <2>1. issue'[i] # None
    BY <1>2, StoreAssumption DEF RowChange
  <2> QED BY <1>2, <2>1 DEF RowChange, BindingsKept, Known
<1> QED
  BY <1>1, <1>2, RowChanges

\* Keys stay unique.
LEMMA KeysStep ==
  ASSUME Base, StoreStep, KeysOwn
  PROVE  KeysOwn' /\ \A k, i : Posted(k, i) => Posted(k, i)'
<1>1. DeliveriesKept
  BY DeliveriesStep
<1>2. \A n \in DOMAIN deliveries : deliveries[n].key \in Keys
  <2>1. \A n \in DOMAIN deliveries : deliveries[n] \in Delivery
    BY DEF Base, TypeOK, StoreTypeOK
  <2> QED BY <2>1 DEF Delivery
<1>3. \A n \in DOMAIN deliveries' : handoffs'[deliveries'[n].key] # 0
  BY <1>1, <1>2 DEF DeliveriesKept, KeysOwn
<1>4. ASSUME NEW n \in DOMAIN deliveries', NEW m \in DOMAIN deliveries',
             deliveries'[n].key = deliveries'[m].key
      PROVE  n = m
  BY <1>1, <1>4 DEF DeliveriesKept, KeysOwn
<1>5. \A k, i : Posted(k, i) => Posted(k, i)'
  BY <1>1 DEF DeliveriesKept, Posted
<1> QED
  BY <1>3, <1>4, <1>5 DEF KeysOwn

\* A step that binds nothing keeps the family invariant.
LEMMA FamilyKept ==
  ASSUME Base, [Next]_vars, FamilyInv, ~BindDelivery
  PROVE  FamilyInv'
<1>1. StoreStep /\ BindingsKept /\ KeysOwn' /\ DeliveriesKept
      /\ \A k, i : Posted(k, i) => Posted(k, i)'
  BY BaseStep, BindingsStep, KeysStep, DeliveriesStep DEF FamilyInv
<1>2. CardsOwn'
  <2> SUFFICES ASSUME NEW i \in Issues, Known(i)'
               PROVE  /\ (issue'[i].message = None) <=> (issue'[i].topic = None)
                      /\ issue'[i].message # None => Posted(issue[i].message, i)'
                      /\ issue'[i].topic # None =>
                           \E j \in Issues : Root[j] = Root[i] /\ Posted(issue[i].topic, j)'
    BY DEF CardsOwn
  <2>1. CASE ~Known(i)
    BY <1>1, <2>1 DEF BindingsKept
  <2>2. CASE Known(i)
    <3>1. issue'[i].message = issue[i].message /\ issue'[i].topic = issue[i].topic
      BY <1>1, <2>2 DEF BindingsKept
    <3> QED BY <1>1, <2>2, <3>1 DEF FamilyInv, CardsOwn, Posted
  <2> QED BY <2>1, <2>2
<1>3. ASSUME NEW r
      PROVE  Threaded(r)' = Threaded(r) /\ \A i \in Threaded(r) : issue'[i].topic = issue[i].topic
  BY <1>1 DEF BindingsKept, Threaded
<1>4. OneTopic'
  BY <1>3 DEF FamilyInv, OneTopic
<1>5. WorkerTopic'
  <2>a. worker \in Worker /\ WorkerOK /\ WorkerOK'
    BY BaseStep DEF Base, TypeOK
  <2>1. CASE worker'.pc \notin {"send", "sent"}
    BY <2>1 DEF WorkerTopic
  <2>2. ASSUME worker'.item = worker.item, worker'.topic = worker.topic,
               worker.pc \in {"send", "sent"}
        PROVE  WorkerTopic'
    <3>1. deliveries'[worker.item].issue = deliveries[worker.item].issue
      BY <1>1, <2>a, <2>2 DEF WorkerOK, DeliveriesKept
    <3> QED BY <1>3, <2>2, <3>1 DEF FamilyInv, WorkerTopic
  <2>3. CASE PickHandoff /\ worker'.pc \in {"send", "sent"}
    <3>1. PICK n : n = Oldest(PendingDeliveries)
      OBVIOUS
    <3>2. worker' = [worker EXCEPT !.pc = "send", !.item = n,
                                   !.topic = TopicRootFor(Root[deliveries[n].issue])]
          /\ UNCHANGED <<deliveries, issue>>
      BY <2>3, <2>a, <3>1 DEF PickHandoff, Worker, store
    <3>3. /\ worker'.item = n /\ worker'.topic = TopicRootFor(Root[deliveries[n].issue])
      BY <2>a, <3>2 DEF Worker
    <3>4. LET r == Root[deliveries[n].issue] IN
          IF Threaded(r) = {} THEN worker'.topic = None
          ELSE \E i \in Threaded(r) : worker'.topic = issue[i].topic /\ issue[i].topic # None
      BY <3>3, TopicOfFamily DEF Threaded
    <3> QED BY <1>3, <3>2, <3>3, <3>4 DEF WorkerTopic
  <2>4. ASSUME worker'.pc \in {"send", "sent"}, ~PickHandoff
        PROVE  worker'.item = worker.item /\ worker'.topic = worker.topic
               /\ worker.pc \in {"send", "sent"}
    <3>1. CASE UNCHANGED worker
      BY <2>4, <3>1
    <3>2. CASE SendSucceeds
      BY <2>a, <3>2 DEF SendSucceeds, WorkerAt, Worker
    <3>3. CASE WakeUp \/ Retry \/ Crash
      BY <2>4, <3>3 DEF WakeUp, Retry, Crash, Asleep
    <3>5. CASE SendFails
      BY <2>4, <2>a, <3>5 DEF SendFails, Worker
    <3>4. CASE PickBaseEvent \/ ApplySucceeds \/ ApplyFails \/ MarkProjected
      BY <2>4, <2>a, <3>4 DEF PickBaseEvent, ApplySucceeds, ApplyFails, MarkProjected, NextRound,
                              Asleep, Worker
    <3> QED BY <2>4, <3>1, <3>2, <3>3, <3>4, <3>5, WorkerMoves DEF WorkerStep
  <2> QED BY <2>1, <2>2, <2>3, <2>4
<1> QED
  BY <1>1, <1>2, <1>4, <1>5 DEF FamilyInv

\* Binding a delivery gives its issue a card of its own and the family's topic,
\* which is that card if the family has none yet.
LEMMA FamilyBound ==
  ASSUME Base, [Next]_vars, FamilyInv, BindDelivery
  PROVE  FamilyInv'
<1>1. StoreStep /\ KeysOwn' /\ (\A k, i : Posted(k, i) => Posted(k, i)')
  BY BaseStep, KeysStep DEF FamilyInv
<1>2. PICK n \in DOMAIN deliveries : n = worker.item
  BY DEF BindDelivery, WorkerAt, Base, WorkerOK
<1>3. PICK i \in Issues, k \in Keys : i = deliveries[n].issue /\ k = deliveries[n].key
  <2>1. deliveries[n] \in Delivery
    BY DEF Base, TypeOK, StoreTypeOK
  <2> QED BY <2>1 DEF Delivery
<1>4. PICK top \in Keys : top = IF worker.topic = None THEN k ELSE worker.topic
  BY DEF Base, TypeOK, Worker
<1>5. /\ Known(i) /\ Known(i)'
      /\ issue'[i].message = k /\ issue'[i].topic = top
      /\ \A j \in Issues \ {i} : issue'[j] = issue[j]
  <2>1. issue[i] \in Row /\ issue \in [Issues -> Row \cup {None}]
    BY <1>3 DEF Base, RowsOK, TypeOK, StoreTypeOK
  <2>2. issue' = [issue EXCEPT ![i].handoff = "delivered", ![i].message = k, ![i].topic = top]
    BY <1>2, <1>3, <1>4 DEF BindDelivery, CompleteDelivery
  <2>3. issue'[i] = [issue[i] EXCEPT !.handoff = "delivered", !.message = k, !.topic = top]
        /\ \A j \in Issues \ {i} : issue'[j] = issue[j]
    BY <2>1, <2>2
  <2>4. issue'[i] \in Row /\ issue'[i].message = k /\ issue'[i].topic = top
    BY <2>1, <2>3 DEF Row, Handoff
  <2> QED BY <2>1, <2>3, <2>4, StoreAssumption DEF Known
<1>6. IF worker.topic = None THEN top = k /\ Threaded(Root[i]) = {}
      ELSE \E j \in Threaded(Root[i]) : issue[j].topic = top
  BY <1>2, <1>3, <1>4 DEF BindDelivery, WorkerAt, FamilyInv, WorkerTopic
<1>7. Posted(k, i) /\ \E j \in Issues : Root[j] = Root[i] /\ Posted(top, j)
  <2>1. Posted(k, i)
    BY <1>2, <1>3 DEF Posted
  <2>2. ASSUME NEW j \in Threaded(Root[i]), issue[j].topic = top
        PROVE  \E a \in Issues : Root[a] = Root[i] /\ Posted(top, a)
    BY <2>2 DEF Threaded, FamilyInv, CardsOwn
  <2> QED BY <1>6, <2>1, <2>2
<1>8. CardsOwn'
  <2>1. ASSUME NEW j \in Issues, Known(j)', j # i
        PROVE  /\ (issue'[j].message = None) <=> (issue'[j].topic = None)
               /\ issue'[j].message # None => Posted(issue'[j].message, j)
               /\ issue'[j].topic # None =>
                    \E a \in Issues : Root[a] = Root[j] /\ Posted(issue'[j].topic, a)
    BY <1>5, <2>1 DEF FamilyInv, CardsOwn, Known
  <2>2. ASSUME NEW j \in Issues, Known(j)'
        PROVE  /\ (issue'[j].message = None) <=> (issue'[j].topic = None)
               /\ issue'[j].message # None => Posted(issue'[j].message, j)
               /\ issue'[j].topic # None =>
                    \E a \in Issues : Root[a] = Root[j] /\ Posted(issue'[j].topic, a)
    BY <1>5, <1>7, <2>1, <2>2, StoreAssumption
  <2>3. \A a, j : Posted(a, j) => \E m \in DOMAIN deliveries' :
                                    deliveries'[m].key = a /\ deliveries'[m].issue = j
    BY <1>1 DEF Posted
  <2>4. ASSUME NEW j \in Issues, Known(j)', issue'[j].message # None
        PROVE  \E m \in DOMAIN deliveries' :
                 deliveries'[m].key = issue'[j].message /\ deliveries'[m].issue = j
    <3>1. Posted(issue'[j].message, j)
      BY <2>2, <2>4
    <3> QED BY <2>3, <3>1
  <2>5. ASSUME NEW j \in Issues, Known(j)', issue'[j].topic # None
        PROVE  \E a \in Issues : Root[a] = Root[j] /\ \E m \in DOMAIN deliveries' :
                 deliveries'[m].key = issue'[j].topic /\ deliveries'[m].issue = a
    <3>1. PICK a \in Issues : Root[a] = Root[j] /\ Posted(issue'[j].topic, a)
      BY <2>2, <2>5
    <3> QED BY <2>3, <3>1
  <2> QED BY <2>2, <2>4, <2>5 DEF CardsOwn, Posted
<1>9. OneTopic'
  <2>1. ASSUME NEW r, NEW j \in Threaded(r)'
        PROVE  IF r = Root[i] THEN issue'[j].topic = top
               ELSE j \in Threaded(r) /\ issue'[j] = issue[j]
    <3>1. CASE j = i
      BY <1>5, <2>1, <3>1 DEF Threaded
    <3>2. CASE j # i
      <4>1. j \in Threaded(r) /\ issue'[j] = issue[j]
        BY <1>5, <2>1, <3>2 DEF Threaded, Known
      <4>2. r = Root[i] => issue[j].topic = top
        BY <1>6, <4>1 DEF FamilyInv, OneTopic
      <4> QED BY <4>1, <4>2
    <3> QED BY <3>1, <3>2
  <2> QED BY <2>1 DEF OneTopic, FamilyInv
<1>10. WorkerTopic'
  <2>1. worker' = [worker EXCEPT !.pc = "base", !.progress = TRUE] /\ worker \in Worker
    BY DEF BindDelivery, Base, TypeOK
  <2>2. worker'.pc = "base"
    BY <2>1 DEF Worker
  <2> QED BY <2>2 DEF WorkerTopic
<1> QED
  BY <1>1, <1>8, <1>9, <1>10 DEF FamilyInv

\* The family invariant holds in every behaviour.
LEMMA FamilyAlways == Spec => []FamilyInv
<1>1. Init => FamilyInv
  <2> SUFFICES ASSUME Init PROVE FamilyInv
    OBVIOUS
  <2>1. deliveries = << >> /\ (\A i \in Issues : ~Known(i)) /\ worker.pc = "wait"
    BY DEF Init, StoreInit, Known, Asleep
  <2> QED BY <2>1 DEF FamilyInv, KeysOwn, CardsOwn, OneTopic, WorkerTopic, Threaded
<1>2. Base /\ FamilyInv /\ [Next]_vars => FamilyInv'
  BY FamilyKept, FamilyBound
<1> QED
  BY <1>1, <1>2, BaseAlways, PTL DEF Spec

\* For every family and every interleaving of requests, deliveries, failures
\* and crashes, the issues of a family share one topic and no two issues share
\* a card (dispatch_one_handoff, topic_root_for, complete_delivery).
THEOREM OneTopicPerFamilyAlways == Spec => []OneTopicPerFamily
<1>1. FamilyInv => OneTopicPerFamily
  BY FamilyEnough
<1> QED
  BY <1>1, FamilyAlways, PTL

-----------------------------------------------------------------------------
(* What a card may show. *)

\* The log holds this event.
Past(i, kind, v) == \E m \in DOMAIN log : log[m] = [issue |-> i, kind |-> kind, version |-> v]

\* What showing this of a version says was committed.
Vouched(i, shown, v) ==
  /\ shown = "waiting_verification" => v # 0
  /\ shown = "awaiting_engineer" => \E w \in 1..v : Past(i, "VerificationFailed", w)
  /\ shown = "closed" => \E w \in 1..v : Past(i, "ReporterConfirmed", w)

Committed(i, shown, v) ==
  /\ v # 0 => Past(i, "SolutionSubmitted", v)
  /\ i \in strayed \/ Vouched(i, shown, v)

\* What a thread is about to show, before it reads which version that is of.
ToShow(i, shown) == i \in strayed \/ Vouched(i, shown, issue[i].version)

VersionsInv ==
  /\ \A i \in Issues : Known(i) => Agrees(i)
  /\ \A n \in DOMAIN log : log[n].kind \in Deciding =>
       Known(log[n].issue) /\ log[n].version \in 1..issue[log[n].issue].version
  /\ \A i \in Issues : Known(i) /\ issue[i].version # 0 =>
       Past(i, "SolutionSubmitted", issue[i].version)

HandsTell ==
  \A t \in Threads :
    /\ At(t, "read") => ToShow(thread[t].issue, thread[t].shown)
    /\ At(t, "patch") => /\ Posted(thread[t].message, thread[t].issue)
                         /\ Committed(thread[t].issue, thread[t].shown, thread[t].version)

CardsTell ==
  /\ \A k \in Keys : handoffs[k] = 0 => card[k].shown = "unsent" /\ card[k].version = 0
  /\ \A n \in DOMAIN deliveries :
       LET c == card[deliveries[n].key] IN Committed(deliveries[n].issue, c.shown, c.version)

\* The log only grows and versions only go up.
LEMMA HistoryKept ==
  ASSUME Base, StoreStep
  PROVE  /\ \A i, kind, v : Past(i, kind, v) => Past(i, kind, v)'
         /\ \A i \in Issues : Known(i) =>
              Known(i)' /\ issue'[i].version \in Nat /\ issue[i].version <= issue'[i].version
<1>1. \A i, kind, v : Past(i, kind, v) => Past(i, kind, v)'
  <2>1. CASE Appended
    <3>1. \A n \in DOMAIN log : n \in DOMAIN log' /\ log'[n] = log[n]
      BY <2>1 DEF Appended
    <3> QED BY <3>1 DEF Past
  <2>2. CASE MarkProjected
    BY <2>2 DEF MarkProjected, CompleteBaseEvent, Past
  <2> QED BY <2>1, <2>2, StoreAppends
<1>2. \A i \in Issues : Known(i) => issue[i].version \in Nat
  BY DEF Base, TypeOK, StoreTypeOK, Known, Row
<1>3. ASSUME NEW i \in Issues, Known(i)
      PROVE  Known(i)' /\ issue'[i].version \in Nat /\ issue[i].version <= issue'[i].version
  <2>1. CASE UNCHANGED issue
    BY <1>2, <1>3, <2>1 DEF Known
  <2>2. ASSUME NEW j \in Issues, NEW kind \in Kinds, NEW v \in Nat, RowChange(j, kind, v)
        PROVE  Known(i)' /\ issue'[i].version \in Nat /\ issue[i].version <= issue'[i].version
    <3>1. CASE i # j
      BY <1>2, <1>3, <2>2, <3>1 DEF RowChange, Known
    <3>2. CASE i = j /\ kind \in Deciding
      BY <1>2, <1>3, <2>2, <3>2, StoreAssumption DEF RowChange, Known
    <3>3. CASE i = j /\ kind \notin Deciding
      BY <1>2, <1>3, <2>2, <3>3, StoreAssumption DEF RowChange, Known
    <3> QED BY <3>1, <3>2, <3>3
  <2> QED BY <2>1, <2>2, RowChanges
<1> QED
  BY <1>1, <1>3

\* Events name versions that were submitted, and the current one was.
LEMMA VersionsStep ==
  ASSUME Base, [Next]_vars, VersionsInv
  PROVE  VersionsInv'
<1>0. StoreStep /\ Base'
  BY BaseStep
<1>1. \A i \in Issues : Known(i)' => Agrees(i)'
  BY <1>0, AgreeStep DEF VersionsInv
<1>2. CASE UNCHANGED <<issue, log, deliveries, handoffs, receipts>>
  BY <1>1, <1>2 DEF VersionsInv, Known, Past
<1>3. ASSUME NEW i \in Issues, NEW kind \in Kinds, NEW v \in Nat, RowChange(i, kind, v)
      PROVE  VersionsInv'
  <2>1. /\ Len(log) \in Nat /\ DOMAIN log = 1..Len(log) /\ DOMAIN log' = 1..(Len(log) + 1)
        /\ log'[Len(log) + 1] = [issue |-> i, kind |-> kind, version |-> v]
        /\ \A n \in DOMAIN log : log'[n] = log[n] /\ log[n] \in Event
    BY <1>3, LogGrows DEF RowChange, Base, TypeOK, StoreTypeOK
  <2>2. Known(i)' /\ issue'[i].version \in Nat /\ (Known(i) => issue[i].version \in Nat)
    <3>1. issue'[i] \in Row /\ (Known(i) => issue[i] \in Row)
      BY <1>3 DEF RowChange, Base, TypeOK, StoreTypeOK, Known
    <3> QED BY <3>1, StoreAssumption DEF Row, Known
  <2>3. ASSUME kind \in Deciding PROVE v \in 1..issue'[i].version
    <3>1. Known(i) /\ v = issue'[i].version
          /\ IF kind = "SolutionSubmitted" THEN issue'[i].version = issue[i].version + 1
             ELSE issue'[i].version = issue[i].version /\ issue[i].status = "pending_verification"
      BY <1>3, <2>3 DEF RowChange
    <3>2. CASE kind = "SolutionSubmitted"
      BY <2>2, <3>1, <3>2
    <3>3. CASE kind # "SolutionSubmitted"
      <4>1. PICK n \in DOMAIN log : IsLast(i, n) /\ log[n].version = issue[i].version
        BY <3>1, <3>3 DEF VersionsInv, Agrees
      <4>2. log[n].version \in 1..issue[i].version
        BY <4>1 DEF VersionsInv, IsLast
      <4> QED BY <2>2, <3>1, <3>3, <4>1, <4>2
    <3> QED BY <3>2, <3>3
  <2>4. ASSUME NEW n \in DOMAIN log', log'[n].kind \in Deciding
        PROVE  issue'[log'[n].issue] # None /\ log'[n].version \in 1..issue'[log'[n].issue].version
    <3>1. CASE n = Len(log) + 1
      BY <2>1, <2>2, <2>3, <2>4, <3>1 DEF Known
    <3>2. CASE n # Len(log) + 1
      <4>1. n \in DOMAIN log /\ log'[n] = log[n]
        BY <2>1, <3>2
      <4>2. PICK j \in Issues : j = log[n].issue
        BY <2>1, <4>1 DEF Event
      <4>3. Known(j) /\ log[n].version \in 1..issue[j].version
        BY <2>4, <4>1, <4>2 DEF VersionsInv
      <4>4. Known(j)' /\ issue'[j].version \in Nat /\ issue[j].version <= issue'[j].version
        BY <1>0, <4>3, HistoryKept
      <4>5. log'[n].issue = j /\ log'[n].version = log[n].version
        BY <4>1, <4>2
      <4>6. issue[j].version \in Nat
        BY <4>3 DEF Base, TypeOK, StoreTypeOK, Known, Row
      <4>7. log'[n].version \in 1..issue'[j].version
        BY <4>3, <4>4, <4>5, <4>6
      <4> QED BY <4>4, <4>5, <4>7 DEF Known
    <3> QED BY <3>1, <3>2
  <2>5. ASSUME NEW j \in Issues, Known(j)', issue'[j].version # 0
        PROVE  \E m \in DOMAIN log' : log'[m] = [issue |-> j, kind |-> "SolutionSubmitted",
                                                 version |-> issue'[j].version]
    <3>1. CASE Known(j) /\ issue'[j].version = issue[j].version
      <4>1. Past(j, "SolutionSubmitted", issue[j].version)
        BY <2>5, <3>1 DEF VersionsInv
      <4>2. PICK m \in DOMAIN log :
              log[m] = [issue |-> j, kind |-> "SolutionSubmitted", version |-> issue[j].version]
        BY <4>1 DEF Past
      <4> QED BY <2>1, <3>1, <4>2
    <3>2. CASE j = i /\ kind = "SolutionSubmitted"
      BY <1>3, <2>1, <3>2 DEF RowChange, Deciding
    <3> QED BY <1>3, <2>5, <3>1, <3>2 DEF RowChange, Known, Deciding
  <2>6. \A j \in Issues : (Known(j) /\ issue[j].version # 0 =>
                             Past(j, "SolutionSubmitted", issue[j].version))'
    BY <2>5 DEF Past
  <2>7. \A n \in DOMAIN log' : (log[n].kind \in Deciding =>
          Known(log[n].issue) /\ log[n].version \in 1..issue[log[n].issue].version)'
    BY <2>4 DEF Known
  <2> QED BY <1>1, <2>6, <2>7 DEF VersionsInv
<1> QED
  BY <1>0, <1>2, <1>3, RowChanges

\* A version of the issue was submitted, confirmed or reported failed.
Decided(i, kind) == issue[i].version # 0 /\ \E w \in 1..issue[i].version : Past(i, kind, w)

\* It is when the transaction has just recorded it.
LEMMA NewlyDecided ==
  ASSUME Base, VersionsInv', NEW i \in Issues, NEW kind \in Deciding, NEW v \in Nat,
         Recorded(i, kind, v)
  PROVE  Decided(i, kind)'
<1>1. kind \in Kinds
  BY DEF Deciding, Kinds
<1>2. PICK m \in DOMAIN log' : log'[m] = [issue |-> i, kind |-> kind, version |-> v]
  <2>1. Len(log) + 1 \in DOMAIN log'
        /\ log'[Len(log) + 1] = [issue |-> i, kind |-> kind, version |-> v]
    BY <1>1, LogGrows
  <2> QED BY <2>1
<1>3. v \in 1..issue'[i].version
  BY <1>2 DEF VersionsInv
<1>4. issue'[i].version # 0
  BY <1>3
<1> QED
  BY <1>2, <1>3, <1>4 DEF Decided, Past

\* And when it was recorded before and the call is a repetition.
LEMMA AlreadyDecided ==
  ASSUME Base, VersionsInv, NEW c \in ReceiptId, NEW i \in Issues, NEW kind \in Deciding,
         Replay(c), IsAnswer(c, i, kind)
  PROVE  Decided(i, kind)'
<1>1. receipts[c] \in DOMAIN log
  BY DEF Replay, Base, TypeOK, StoreTypeOK
<1>2. PICK m \in DOMAIN log : m = receipts[c]
  BY <1>1
<1>3. log[m].issue = i /\ log[m].kind = kind /\ log[m] \in Event
  BY <1>2 DEF IsAnswer, Base, TypeOK, StoreTypeOK
<1>4. PICK v \in Nat : v = log[m].version /\ v \in 1..issue[i].version
  BY <1>3 DEF VersionsInv, Event
<1>5. log[m] = [issue |-> i, kind |-> kind, version |-> v]
  BY <1>3, <1>4 DEF Event
<1>6. issue[i].version # 0
  BY <1>4
<1>7. UNCHANGED <<issue, log>>
  BY DEF Replay, store
<1> QED
  BY <1>4, <1>5, <1>6, <1>7 DEF Decided, Past

\* What is committed can be shown.
LEMMA DecidedToShow ==
  ASSUME NEW i
  PROVE  /\ Decided(i, "SolutionSubmitted") => ToShow(i, "waiting_verification")
         /\ Decided(i, "VerificationFailed") => ToShow(i, "awaiting_engineer")
         /\ Decided(i, "ReporterConfirmed") => ToShow(i, "closed")
BY DEF Decided, ToShow, Vouched

\* A request that goes on to its card recorded what it shows, repeats a
\* request that did, or is remembered as having strayed.
LEMMA AnsweredToShow ==
  ASSUME Base, VersionsInv, VersionsInv', strayed \subseteq strayed',
         NEW c \in ReceiptId, NEW i \in Issues, NEW kind \in Deciding,
         \/ receipts[c] = 0 /\ \E v \in Nat : Recorded(i, kind, v)
         \/ Replay(c),
         Noting(c, i, kind)
  PROVE  Decided(i, kind)' \/ i \in strayed'
<1>1. CASE \E v \in Nat : Recorded(i, kind, v)
  BY <1>1, NewlyDecided
<1>2. CASE Replay(c) /\ IsAnswer(c, i, kind)
  BY <1>2, AlreadyDecided
<1>3. CASE Replay(c) /\ ~IsAnswer(c, i, kind)
  BY <1>3 DEF Replay, Noting
<1> QED
  BY <1>1, <1>2, <1>3

\* What a thread has in hand to show stays committed while others run.
LEMMA HandKept ==
  ASSUME Base, StoreStep, FamilyInv, HandsTell, strayed \subseteq strayed', NEW t \in Threads
  PROVE  /\ At(t, "read") => ToShow(thread[t].issue, thread[t].shown)'
              \/ thread'[t] # thread[t]
         /\ At(t, "patch") =>
              \/ /\ Posted(thread[t].message, thread[t].issue)'
                 /\ Committed(thread[t].issue, thread[t].shown, thread[t].version)'
              \/ thread'[t] # thread[t]
<1>1. /\ \A i, kind, v : Past(i, kind, v) => Past(i, kind, v)'
      /\ \A k, i : Posted(k, i) => Posted(k, i)'
  BY HistoryKept, KeysStep DEF FamilyInv
<1> SUFFICES ASSUME thread'[t] = thread[t]
             PROVE  /\ At(t, "read") => ToShow(thread[t].issue, thread[t].shown)'
                    /\ At(t, "patch") =>
                         /\ Posted(thread[t].message, thread[t].issue)'
                         /\ Committed(thread[t].issue, thread[t].shown, thread[t].version)'
  OBVIOUS
<1>2. PICK i, shown, k, v : /\ i = thread[t].issue /\ shown = thread[t].shown
                            /\ k = thread[t].message /\ v = thread[t].version
  OBVIOUS
<1>3. ASSUME At(t, "read") PROVE ToShow(i, shown)'
  <2>1. i \in Issues /\ issue[i] \in Row /\ ToShow(i, shown)
    BY <1>2, <1>3 DEF Base, HandsOK, At, HandsTell
  <2>2. Known(i) /\ issue[i].version \in Nat
    BY <2>1, StoreAssumption DEF Known, Row
  <2>3. issue'[i].version \in Nat /\ issue[i].version <= issue'[i].version
    BY <2>1, <2>2, HistoryKept
  <2>4. /\ issue[i].version # 0 => issue'[i].version # 0
        /\ \A w \in 1..issue[i].version : w \in 1..issue'[i].version
    BY <2>2, <2>3
  <2> QED BY <1>1, <2>1, <2>4 DEF ToShow, Vouched
<1>4. ASSUME At(t, "patch") PROVE Posted(k, i)' /\ Committed(i, shown, v)'
  BY <1>1, <1>2, <1>4 DEF HandsTell, Committed, Vouched
<1> QED
  BY <1>2, <1>3, <1>4

\* Every step leaves each thread with something it may show.
LEMMA HandsTellStep ==
  ASSUME Base, [Next]_vars, FamilyInv, VersionsInv, VersionsInv', HandsTell
  PROVE  HandsTell'
<1>0. /\ StoreStep /\ Threads = Handlers \cup Consumers /\ thread \in [Threads -> Thread]
      /\ strayed \subseteq strayed'
  BY BaseStep, StrayedGrows DEF Base, TypeOK, Threads
<1>1. CASE UNCHANGED thread
  BY <1>0, <1>1, HandKept DEF HandsTell, At
<1>2. ASSUME NEW t \in Threads, NEW hand, thread' = [thread EXCEPT ![t] = hand],
             hand.pc = "read" => ToShow(hand.issue, hand.shown)',
             hand.pc = "patch" => /\ Posted(hand.message, hand.issue)'
                                  /\ Committed(hand.issue, hand.shown, hand.version)'
      PROVE  HandsTell'
  <2>1. thread'[t] = hand /\ \A u \in Threads \ {t} : thread'[u] = thread[u]
    BY <1>0, <1>2
  <2>2. ASSUME NEW u \in Threads, u # t
        PROVE  /\ At(u, "read")' => ToShow(thread[u].issue, thread[u].shown)'
               /\ At(u, "patch")' => /\ Posted(thread[u].message, thread[u].issue)'
                                     /\ Committed(thread[u].issue, thread[u].shown, thread[u].version)'
    BY <1>0, <2>1, <2>2, HandKept DEF At
  <2>3. /\ At(t, "read")' => ToShow(thread[t].issue, thread[t].shown)'
        /\ At(t, "patch")' => /\ Posted(thread[t].message, thread[t].issue)'
                              /\ Committed(thread[t].issue, thread[t].shown, thread[t].version)'
    BY <1>2, <2>1 DEF At
  <2> QED BY <2>2, <2>3 DEF HandsTell
<1>3. ASSUME NEW t \in Threads, NEW c, NEW i, ThenReply(t, c, i)
      PROVE  HandsTell'
  BY <1>2, <1>3 DEF ThenReply, Idle
<1>4. ASSUME NEW t \in Threads, NEW c, NEW i, NEW shown, ThenShow(t, c, i, shown), ToShow(i, shown)'
      PROVE  HandsTell'
  <2> DEFINE hand == [Idle EXCEPT !.pc = IF HasFeishu THEN "read" ELSE "reply", !.id = c,
                                  !.issue = i, !.shown = shown]
  <2>1. hand.pc # "patch" /\ hand.issue = i /\ hand.shown = shown
    BY DEF Idle
  <2>2. thread' = [thread EXCEPT ![t] = hand]
    BY <1>4 DEF ThenShow
  <2> HIDE DEF hand
  <2> QED BY <1>2, <1>4, <2>1, <2>2
<1>5. ASSUME NEW t \in Handlers, Request(t)
      PROVE  HandsTell'
  <2>0. t \in Threads
    BY <1>0
  <2>1. ASSUME NEW i \in Issues, NEW k \in Keys, NEW o \in Owners, PostHandoff(t, k, i, o)
        PROVE  HandsTell'
    BY <2>0, <2>1, <1>3 DEF PostHandoff
  <2>2. ASSUME NEW i \in Issues, NEW call \in Calls, NEW o \in Owners, Known(i),
               NEW v \in 1..issue[i].version,
               PostConfirm(t, call, i, o, v) \/ PostVerificationFailure(t, call, i, o, v)
        PROVE  HandsTell'
    <3>1. v \in Nat /\ <<"device", call>> \in ReceiptId /\ <<"device-failure", call>> \in ReceiptId
      BY <2>2 DEF ReceiptId, Base, TypeOK, StoreTypeOK, Row, Known
    <3>2. CASE PostConfirm(t, call, i, o, v)
      <4>1. Decided(i, "ReporterConfirmed")' \/ i \in strayed'
        BY <1>0, <3>1, <3>2, AnsweredToShow
           DEF PostConfirm, ConfirmSolution, Verifiable, Deciding
      <4> QED BY <2>0, <3>2, <4>1, <1>4 DEF PostConfirm, Decided, ToShow, Vouched
    <3>3. CASE PostVerificationFailure(t, call, i, o, v)
      <4>1. Decided(i, "VerificationFailed")' \/ i \in strayed'
        BY <1>0, <3>1, <3>3, AnsweredToShow
           DEF PostVerificationFailure, ReportVerificationFailure, Verifiable, Deciding
      <4> QED BY <2>0, <3>3, <4>1, <1>4 DEF PostVerificationFailure, Decided, ToShow, Vouched
    <3> QED BY <2>2, <3>2, <3>3
  <2>3. ASSUME NEW i \in Issues, NEW call \in Callbacks, NEW requested, Known(i),
               PostCardAction(t, call, i, requested)
        PROVE  HandsTell'
    <3>1. Decided(i, "SolutionSubmitted")' \/ i \in strayed'
      <4>1. issue[i].version + 1 \in Nat /\ <<"feishu", call>> \in ReceiptId
        BY <2>3 DEF ReceiptId, Base, TypeOK, StoreTypeOK, Row, Known
      <4> QED BY <1>0, <2>3, <4>1, AnsweredToShow DEF PostCardAction, SubmitSolution, Deciding
    <3> QED BY <2>0, <2>3, <3>1, <1>4 DEF PostCardAction, Decided, ToShow, Vouched
  <2>4. ASSUME NEW i \in Issues, NEW call \in Callbacks, NEW kind \in EventKinds,
               PostEvent(t, call, i, kind)
        PROVE  HandsTell'
    BY <2>0, <2>4, <1>3 DEF PostEvent
  <2> QED BY <1>5, <2>1, <2>2, <2>3, <2>4 DEF Request
<1>6. ASSUME NEW t \in Consumers, CardEvent(t)
      PROVE  HandsTell'
  <2>1. PICK call \in Callbacks, i \in Issues :
          thread' = [thread EXCEPT ![t] =
            [Idle EXCEPT !.pc = "found", !.id = <<"feishu", call>>, !.issue = i]]
    BY <1>6 DEF CardEvent, LookUpMessage
  <2> QED BY <1>0, <1>2, <2>1 DEF Idle
<1>7. ASSUME NEW t \in Threads, SubmitFound(t)
      PROVE  HandsTell'
  <2>1. PICK i \in Issues, c \in ReceiptId : i = thread[t].issue /\ c = thread[t].id
    BY <1>7 DEF SubmitFound, At, Base, HandsOK
  <2>2. issue[i].version + 1 \in Nat
    BY <1>7, <2>1 DEF SubmitFound, At, Base, HandsOK, Row
  <2>3. Decided(i, "SolutionSubmitted")' \/ i \in strayed'
    BY <1>0, <1>7, <2>1, <2>2, AnsweredToShow DEF SubmitFound, SubmitSolution, Deciding
  <2> QED BY <1>7, <2>1, <2>3, <1>4 DEF SubmitFound, Decided, ToShow, Vouched
<1>8. ASSUME NEW t \in Threads, ReadCardContext(t)
      PROVE  HandsTell'
  <2>0. thread[t].issue \in Issues /\ issue[thread[t].issue] \in Row
    BY <1>8 DEF ReadCardContext, At, Base, HandsOK
  <2>1. PICK i \in Issues, row \in Row : i = thread[t].issue /\ row = issue[i]
    BY <2>0
  <2> DEFINE shown == thread[t].shown
  <2>2. ToShow(i, shown) /\ Known(i) /\ UNCHANGED <<issue, log, deliveries, strayed>>
    BY <1>8, <2>1, StoreAssumption DEF ReadCardContext, HandsTell, Known, store
  <2>3. CASE row.message = None
    <3>1. thread' = [thread EXCEPT ![t] = [thread[t] EXCEPT !.pc = "reply"]]
      BY <1>8, <1>0, <2>1, <2>3 DEF ReadCardContext, Goto
    <3>2. [thread[t] EXCEPT !.pc = "reply"].pc = "reply"
      BY <1>0 DEF Thread
    <3> QED BY <1>2, <3>1, <3>2
  <2>4. CASE row.message # None
    <3> DEFINE hand == [thread[t] EXCEPT !.pc = "patch", !.message = row.message,
                                         !.version = row.version]
    <3>1. thread' = [thread EXCEPT ![t] = hand]
      BY <1>8, <1>0, <2>1, <2>4 DEF ReadCardContext
    <3>2. /\ hand.pc = "patch" /\ hand.message = row.message /\ hand.version = row.version
          /\ hand.issue = i /\ hand.shown = shown
      BY <1>0, <2>1 DEF Thread
    <3>3. Posted(row.message, i)
      BY <2>1, <2>2, <2>4 DEF FamilyInv, CardsOwn
    <3>4. Committed(i, shown, row.version)
      BY <2>1, <2>2 DEF ToShow, Committed, VersionsInv
    <3> HIDE DEF hand
    <3>5. hand.pc # "read" /\ Posted(hand.message, hand.issue)
          /\ Committed(hand.issue, hand.shown, hand.version)
      BY <3>2, <3>3, <3>4
    <3>6. PICK h : h = hand
      OBVIOUS
    <3>7. Posted(h.message, h.issue)' /\ Committed(h.issue, h.shown, h.version)'
      BY <2>2, <3>5, <3>6 DEF Posted, Committed, Vouched, Past
    <3> QED BY <1>2, <3>1, <3>5, <3>6, <3>7
  <2> QED BY <2>3, <2>4
<1>9. ASSUME NEW t \in Threads, PatchCard(t)
      PROVE  HandsTell'
  <2>1. thread' = [thread EXCEPT ![t] = [thread[t] EXCEPT !.pc = "reply"]]
        /\ [thread[t] EXCEPT !.pc = "reply"].pc = "reply"
    BY <1>9, <1>0 DEF PatchCard, Goto, Thread
  <2> QED BY <1>2, <2>1
<1>10. ASSUME NEW t \in Threads, PatchFails(t) \/ Reply(t) \/ EndUnanswered(t)
       PROVE  HandsTell'
  <2>1. thread' = [thread EXCEPT ![t] = Idle] /\ Idle.pc = "idle"
    BY <1>10 DEF PatchFails, Reply, EndUnanswered, Idle
  <2> QED BY <1>2, <2>1
<1>11. CASE Crash
  BY <1>11 DEF Crash, Idle, HandsTell, At
<1>12. CASE UNCHANGED vars \/ WorkerStep
  <2>1. UNCHANGED thread
    BY <1>12 DEF vars, WorkerStep, WakeUp, PickHandoff, SendSucceeds, SendFails, BindDelivery,
                 PickBaseEvent, ApplySucceeds, ApplyFails, MarkProjected, Retry
  <2> QED BY <2>1, <1>1
<1> QED
  BY <1>5, <1>6, <1>7, <1>8, <1>9, <1>10, <1>11, <1>12 DEF Next, Proceed

\* Cards change when a thread updates them or the worker first sends them.
LEMMA CardMoves ==
  ASSUME [Next]_vars
  PROVE  \/ UNCHANGED card
         \/ \E t \in Threads : PatchCard(t)
         \/ SendSucceeds \/ SendFails
<1>1. ASSUME NEW t \in Handlers, Request(t)
      PROVE  UNCHANGED card
  BY <1>1 DEF Request, PostHandoff, PostConfirm, PostVerificationFailure, PostCardAction,
              PostEvent, Elsewhere
<1>2. ASSUME NEW t \in Consumers, CardEvent(t)
      PROVE  UNCHANGED card
  BY <1>2 DEF CardEvent, LookUpMessage, Elsewhere
<1>3. ASSUME NEW t \in Threads, Proceed(t), ~PatchCard(t)
      PROVE  UNCHANGED card
  BY <1>3 DEF Proceed, SubmitFound, ReadCardContext, PatchFails, Reply, EndUnanswered, Elsewhere
<1>4. CASE UNCHANGED vars \/ Crash
  BY <1>4 DEF vars, Crash
<1>5. ASSUME WorkerStep, ~SendSucceeds, ~SendFails
      PROVE  UNCHANGED card
  BY <1>5 DEF WorkerStep, WakeUp, PickHandoff, BindDelivery, PickBaseEvent, ApplySucceeds,
              ApplyFails, MarkProjected, Retry
<1> QED
  BY <1>1, <1>2, <1>3, <1>4, <1>5 DEF Next

\* Cards show what is committed after every step.
LEMMA CardsTellStep ==
  ASSUME Base, [Next]_vars, FamilyInv, HandsTell, CardsTell
  PROVE  CardsTell'
<1>0. /\ StoreStep /\ DeliveriesKept /\ handoffs \in [Keys -> 0..Len(log)]
      /\ strayed \subseteq strayed'
      /\ card \in [Keys -> [shown : Shown, version : Nat]]
      /\ \A n \in DOMAIN deliveries : deliveries[n] \in Delivery
  BY BaseStep, DeliveriesStep, StrayedGrows DEF Base, TypeOK, StoreTypeOK
<1>1. CASE UNCHANGED card
  <2>1. \A k \in Keys : handoffs'[k] = 0 => card'[k].shown = "unsent" /\ card'[k].version = 0
    BY <1>0, <1>1 DEF CardsTell, DeliveriesKept
  <2>2. \A i, shown, v : Committed(i, shown, v) => Committed(i, shown, v)'
    BY <1>0, HistoryKept DEF Committed, Vouched
  <2>3. ASSUME NEW n \in DOMAIN deliveries', NEW i, NEW c, NEW shown, NEW v,
               i = deliveries'[n].issue, c = card[deliveries'[n].key],
               shown = c.shown, v = c.version
        PROVE  Committed(i, shown, v)'
    <3>1. CASE n \in DOMAIN deliveries
      <4>1. deliveries'[n].key = deliveries[n].key /\ deliveries'[n].issue = deliveries[n].issue
        BY <1>0, <3>1 DEF DeliveriesKept
      <4> QED BY <2>2, <2>3, <3>1, <4>1 DEF CardsTell
    <3>2. CASE n \notin DOMAIN deliveries
      <4>1. deliveries'[n].key \in Keys /\ handoffs[deliveries'[n].key] = 0
        BY <1>0, <2>3, <3>2 DEF DeliveriesKept
      <4>2. shown = "unsent" /\ v = 0
        BY <2>3, <4>1 DEF CardsTell
      <4> QED BY <4>2 DEF Committed, Vouched
    <3> QED BY <3>1, <3>2
  <2>4. \A n \in DOMAIN deliveries' :
          (LET c == card[deliveries[n].key] IN Committed(deliveries[n].issue, c.shown, c.version))'
    BY <1>1, <2>3 DEF Committed, Vouched, Past
  <2> QED BY <2>1, <2>4 DEF CardsTell
<1>2. ASSUME NEW k \in Keys, NEW i, NEW c, UNCHANGED store, Posted(k, i),
             card' = [card EXCEPT ![k] = c], Committed(i, c.shown, c.version), KeysOwn
      PROVE  CardsTell'
  <2>1. card'[k] = c /\ \A j \in Keys \ {k} : card'[j] = card[j]
    BY <1>0, <1>2
  <2>2. handoffs[k] # 0
    BY <1>2 DEF Posted, KeysOwn
  <2>3. ASSUME NEW n \in DOMAIN deliveries
        PROVE  Committed(deliveries[n].issue, card'[deliveries[n].key].shown,
                         card'[deliveries[n].key].version)
    <3>1. CASE deliveries[n].key = k
      <4>1. Posted(k, deliveries[n].issue)
        BY <3>1 DEF Posted
      <4>2. deliveries[n].issue = i
        BY <1>2, <4>1, PostedOnce
      <4> QED BY <1>2, <2>1, <3>1, <4>2
    <3>2. CASE deliveries[n].key # k
      BY <1>0, <2>1, <3>2 DEF CardsTell, Delivery
    <3> QED BY <3>1, <3>2
  <2>4. UNCHANGED <<deliveries, log, handoffs>>
    BY <1>2 DEF store
  <2>5. \A j \in Keys : handoffs'[j] = 0 => card'[j].shown = "unsent" /\ card'[j].version = 0
    BY <2>1, <2>2, <2>4 DEF CardsTell
  <2>6. \A n \in DOMAIN deliveries' :
          (LET d == card[deliveries[n].key] IN Committed(deliveries[n].issue, d.shown, d.version))'
    BY <1>0, <2>3, <2>4 DEF Committed, Vouched, Past
  <2> QED BY <2>5, <2>6 DEF CardsTell
<1>3. ASSUME NEW t \in Threads, PatchCard(t)
      PROVE  CardsTell'
  <2> DEFINE c == [shown |-> thread[t].shown, version |-> thread[t].version]
  <2>1. /\ Posted(thread[t].message, thread[t].issue)
        /\ Committed(thread[t].issue, c.shown, c.version)
        /\ thread[t].message \in Keys
    BY <1>3 DEF PatchCard, HandsTell, At, Base, HandsOK
  <2>2. card' = [card EXCEPT ![thread[t].message] = c] /\ UNCHANGED store
    BY <1>3 DEF PatchCard
  <2> HIDE DEF c
  <2> QED BY <1>2, <2>1, <2>2 DEF FamilyInv
<1>4. ASSUME SendSucceeds \/ SendFails
      PROVE  CardsTell'
  <2>1. PICK n \in DOMAIN deliveries : n = worker.item
    BY <1>4 DEF SendSucceeds, SendFails, WorkerAt, Base, WorkerOK
  <2>2. PICK k \in Keys, i \in Issues : k = deliveries[n].key /\ i = deliveries[n].issue
    <3>1. deliveries[n] \in Delivery
      BY <1>0
    <3> QED BY <3>1 DEF Delivery
  <2>3. Posted(k, i)
    BY <2>2 DEF Posted
  <2>4. UNCHANGED store /\ (Sent(k) \/ UNCHANGED card)
    BY <1>4, <2>1, <2>2 DEF SendSucceeds, SendFails
  <2>5. CASE UNCHANGED card
    BY <1>1, <2>5
  <2>6. CASE card' = [card EXCEPT ![k] = [shown |-> "form", version |-> 0]]
    <3> DEFINE c == [shown |-> "form", version |-> 0]
    <3>1. Committed(i, c.shown, c.version)
      BY DEF Committed, Vouched
    <3>2. card' = [card EXCEPT ![k] = c]
      BY <2>6
    <3> HIDE DEF c
    <3> QED BY <1>2, <2>3, <2>4, <3>1, <3>2 DEF FamilyInv
  <2> QED BY <2>4, <2>5, <2>6 DEF Sent
<1> QED
  BY <1>1, <1>3, <1>4, CardMoves

\* A card never shows a Solution that was not submitted, a failure nobody
\* reported or a confirmation nobody gave, in whatever order the updates of
\* concurrent requests reach Feishu (_update_feishu_card, issue_card_context):
\* but for the issues a request named under the id of another request, whose
\* cards still carry only versions submitted for them.
THEOREM CardShowsCommittedAlways == Spec => []CardShowsCommitted
<1> DEFINE Inv == VersionsInv /\ HandsTell /\ CardsTell
<1>1. Init => Inv
  <2> SUFFICES ASSUME Init PROVE Inv
    OBVIOUS
  <2>1. /\ deliveries = << >> /\ log = << >> /\ \A i \in Issues : ~Known(i)
        /\ \A t \in Threads : thread[t].pc = "idle"
        /\ \A k \in Keys : card[k].shown = "unsent" /\ card[k].version = 0
    BY DEF Init, StoreInit, Known, Idle
  <2> QED BY <2>1 DEF VersionsInv, HandsTell, CardsTell, At
<1>2. Base /\ FamilyInv /\ Inv /\ [Next]_vars => Inv'
  BY VersionsStep, HandsTellStep, CardsTellStep
<1>3. Inv => CardShowsCommitted
  <2> SUFFICES ASSUME CardsTell PROVE CardShowsCommitted
    OBVIOUS
  <2> QED BY DEF CardsTell, CardShowsCommitted, Committed, Vouched, Past
<1> HIDE DEF Inv
<1> QED
  BY <1>1, <1>2, <1>3, BaseAlways, FamilyAlways, PTL DEF Spec
=============================================================================
