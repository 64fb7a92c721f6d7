----------------------------- MODULE GatewayStore -----------------------------
(***************************************************************************)
(* GatewayStore: the Gateway's SQLite authority for handoffs, Solutions,   *)
(* callback receipts and the two outboxes.  Each operator here is one      *)
(* BEGIN IMMEDIATE transaction (or one locked query); Gateway calls them   *)
(* from its threads.  A solution row is its SolutionSubmitted event, with  *)
(* which it is inserted.  The response stored for an idempotency key or a  *)
(* callback id is the seq of the event it answered with; 0 is no row.      *)
(* Texts, timestamps, attempts and last_error are abstracted away.         *)
(***************************************************************************)
EXTENDS Naturals, Sequences, FiniteSets

CONSTANTS
  Issues,      \* issue ids the devices hand off
  Root,        \* root_issue_id of each issue
  Owners,      \* <<device_id, reporter_id>> pairs
  Keys,        \* Idempotency-Key values of POST /v1/handoffs
  Calls,       \* Idempotency-Key values of confirm and verification-failure
  Callbacks,   \* event ids of card and event callbacks
  None         \* NULL

Status  == {"open", "pending_verification", "closed"}
Handoff == {"queued", "delivered", "handling", "solution_available", "closed"}
Kinds   == {"HandoffRequested", "HandoffDelivered", "SolutionSubmitted",
            "ReporterConfirmed", "VerificationFailed", "EngineerClaimed",
            "FeishuMessageCaptured", "TopicBound"}

\* callback_receipts ids: the prefixes keep the three sources apart.
ReceiptId == ({"feishu"} \X Callbacks) \cup ({"device", "device-failure"} \X Calls)

Row   == [owner   : Owners,
          status  : Status,
          handoff : Handoff,
          version : Nat,                 \* current_solution_version
          message : Keys \cup {None},    \* the card of a delivery; see Gateway
          topic   : Keys \cup {None}]

ASSUME StoreAssumption ==
  /\ Root \in [Issues -> Issues]
  /\ None \notin Keys \cup Owners /\ None \notin Row

Event == [issue : Issues, kind : Kinds, version : Nat]
Delivery == [issue : Issues, key : Keys, state : {"pending", "done"}]

VARIABLES
  issue,       \* issues table: id -> Row, or None
  log,         \* events table, in seq order
  base,        \* base_outbox: the state of the row of each event
  handoffs,    \* handoffs table: key -> seq of the answer
  receipts,    \* callback_receipts table: id -> seq of the answer
  deliveries   \* delivery_outbox, in outbox_id order

store == <<issue, log, base, handoffs, receipts, deliveries>>

Known(i) == issue[i] # None

StoreInit ==
  /\ issue = [i \in Issues |-> None]
  /\ log = << >>
  /\ base = << >>
  /\ handoffs = [k \in Keys |-> 0]
  /\ receipts = [c \in ReceiptId |-> 0]
  /\ deliveries = << >>

-----------------------------------------------------------------------------
(* Locked queries. *)

Pending(outbox) == {n \in DOMAIN outbox : outbox[n] = "pending"}

PendingDeliveries == {n \in DOMAIN deliveries : deliveries[n].state = "pending"}

\* Slip: the newest row is taken first.
Newest(S) == CHOOSE n \in S : \A m \in S : n >= m

\* ORDER BY outbox_id LIMIT 1
Oldest(S) == CHOOSE n \in S : \A m \in S : n <= m

FirstEvent(i) == Oldest({n \in DOMAIN log : log[n].issue = i})

\* The topic of the earliest issue of the root that has one, or NULL.
Threaded(r) == {i \in Issues : Known(i) /\ Root[i] = r /\ issue[i].topic # None}

\* Slip: every card starts a topic of its own.
TopicRootUnshared(r) == None

TopicRootFor(r) ==
  IF Threaded(r) = {} THEN None
  ELSE issue[CHOOSE i \in Threaded(r) :
               \A j \in Threaded(r) : FirstEvent(i) <= FirstEvent(j)].topic

-----------------------------------------------------------------------------
(* Transactions. *)

\* _append_event_tx: the event and its Base outbox row.
Recorded(i, kind, v) ==
  /\ log'  = Append(log, [issue |-> i, kind |-> kind, version |-> v])
  /\ base' = Append(base, "pending")

Receipted(c) == receipts' = [receipts EXCEPT ![c] = Len(log) + 1]

Moved(i, status, handoff) ==
  issue' = [issue EXCEPT ![i].status = status, ![i].handoff = handoff]

\* create_handoff of a key not seen before.  Its first handoff creates the
\* issue; a later one needs the same identity.
CreateHandoff(k, i, o) ==
  /\ handoffs[k] = 0
  /\ Known(i) => issue[i].owner = o
  /\ issue' = [issue EXCEPT ![i] =
       IF Known(i) THEN [issue[i] EXCEPT !.handoff = "queued"]
       ELSE [owner |-> o, status |-> "open", handoff |-> "queued", version |-> 0,
             message |-> None, topic |-> None]]
  /\ Recorded(i, "HandoffRequested", 0)
  /\ handoffs' = [handoffs EXCEPT ![k] = Len(log) + 1]
  /\ deliveries' = Append(deliveries, [issue |-> i, key |-> k, state |-> "pending"])
  /\ UNCHANGED receipts

\* create_handoff of a key already stored: same content, stored response.
ReplayHandoff(k, i, o) ==
  /\ handoffs[k] # 0
  /\ log[handoffs[k]].issue = i /\ issue[i].owner = o
  /\ UNCHANGED store

\* A callback id already receipted: nothing is written and the stored response
\* is returned, whatever issue the request names and whatever it asks for.
Replay(c) ==
  /\ receipts[c] # 0
  /\ UNCHANGED store

\* The stored response is the answer to this request: the same issue, the same act.
IsAnswer(c, i, kind) ==
  log[receipts[c]].issue = i /\ log[receipts[c]].kind = kind

\* Slip: a repeated callback is not recognised.
SubmitSolutionAgain(c, i, requested) ==
  LET next == issue[i].version + 1 IN
  /\ Known(i)
  /\ requested \in {None, next}
  /\ issue' = [issue EXCEPT ![i].status = "pending_verification",
                            ![i].handoff = "solution_available",
                            ![i].version = next]
  /\ Recorded(i, "SolutionSubmitted", next)
  /\ Receipted(c)
  /\ UNCHANGED <<handoffs, deliveries>>

\* submit_solution.  Nothing is asked of the issue's status.
SubmitSolution(c, i, requested) ==
  LET next == issue[i].version + 1 IN
  /\ receipts[c] = 0
  /\ Known(i)
  /\ requested \in {None, next}
  /\ issue' = [issue EXCEPT ![i].status = "pending_verification",
                            ![i].handoff = "solution_available",
                            ![i].version = next]
  /\ Recorded(i, "SolutionSubmitted", next)
  /\ Receipted(c)
  /\ UNCHANGED <<handoffs, deliveries>>

\* What confirm_solution and report_verification_failure require.
Verifiable(c, i, o, v) ==
  /\ receipts[c] = 0
  /\ Known(i)
  /\ issue[i].owner = o
  /\ issue[i].status = "pending_verification"
  /\ issue[i].version = v

\* confirm_solution.
ConfirmSolution(c, i, o, v) ==
  /\ Verifiable(c, i, o, v)
  /\ Moved(i, "closed", "closed")
  /\ Recorded(i, "ReporterConfirmed", v)
  /\ Receipted(c)
  /\ UNCHANGED <<handoffs, deliveries>>

\* report_verification_failure.
ReportVerificationFailure(c, i, o, v) ==
  /\ Verifiable(c, i, o, v)
  /\ Moved(i, "open", "delivered")
  /\ Recorded(i, "VerificationFailed", v)
  /\ Receipted(c)
  /\ UNCHANGED <<handoffs, deliveries>>

\* record_feishu_event.
RecordFeishuEvent(c, i, kind) ==
  /\ receipts[c] = 0
  /\ Known(i)
  /\ issue' = [issue EXCEPT ![i].handoff =
       CASE kind = "EngineerClaimed" -> "handling"
         [] kind = "TopicBound" -> "delivered"
         [] kind = "FeishuMessageCaptured" -> @]
  /\ Recorded(i, kind, 0)
  /\ Receipted(c)
  /\ UNCHANGED <<handoffs, deliveries>>

\* The worker's own writes: row n of the delivery outbox, row n of the Base one.
CompleteDelivery(n, message, topic) ==
  LET i == deliveries[n].issue IN
  /\ deliveries' = [deliveries EXCEPT ![n].state = "done"]
  /\ issue' = [issue EXCEPT ![i].handoff = "delivered",
                            ![i].message = message, ![i].topic = topic]
  /\ Recorded(i, "HandoffDelivered", 0)
  /\ UNCHANGED <<handoffs, receipts>>

CompleteBaseEvent(n) ==
  /\ base' = [base EXCEPT ![n] = "done"]
  /\ UNCHANGED <<issue, log, handoffs, receipts, deliveries>>

-----------------------------------------------------------------------------
(* Properties of the tables, whoever calls the transactions. *)

StoreTypeOK ==
  /\ issue \in [Issues -> Row \cup {None}]
  /\ log \in Seq(Event)
  /\ base \in Seq({"pending", "done"})
  /\ Len(base) = Len(log)
  /\ handoffs \in [Keys -> 0..Len(log)]
  /\ receipts \in [ReceiptId -> 0..Len(log)]
  /\ deliveries \in Seq(Delivery)

\* The events that decide an issue's status: the last of them for issue i, or 0.
Deciding == {"SolutionSubmitted", "ReporterConfirmed", "VerificationFailed"}
IsLast(i, n) ==
  /\ n \in DOMAIN log /\ log[n].issue = i /\ log[n].kind \in Deciding
  /\ \A m \in DOMAIN log : m > n => ~(log[m].issue = i /\ log[m].kind \in Deciding)

\* The materialised row agrees with the event history it is stored beside:
\* its status is the one the last deciding event leaves, for its current
\* solution version, whatever deliveries, claims, replays and re-handoffs
\* came in between (submit_solution, confirm_solution,
\* report_verification_failure, complete_delivery, create_handoff).
RowFollowsLog ==
  \A i \in Issues : Known(i) =>
    \/ issue[i].status = "open" /\ issue[i].version = 0
    \/ \E n \in DOMAIN log :
         /\ IsLast(i, n)
         /\ log[n].version = issue[i].version
         /\ issue[i].status =
              CASE log[n].kind = "SolutionSubmitted"  -> "pending_verification"
                [] log[n].kind = "ReporterConfirmed"  -> "closed"
                [] log[n].kind = "VerificationFailed" -> "open"

\* Every request takes effect once: an idempotency key or a callback id that
\* was answered points at an event of its own, and every event but the
\* worker's HandoffDelivered is the answer of exactly one of them, however
\* often Feishu or a device repeats the call (create_handoff's and the
\* callbacks' replay branches).
Answers(n) == {k \in Keys : handoffs[k] = n} \cup {c \in ReceiptId : receipts[c] = n}
AnsweredOnce ==
  \A n \in DOMAIN log :
    Cardinality(Answers(n)) = IF log[n].kind = "HandoffDelivered" THEN 0 ELSE 1

\* contracts.md "every member of the family shares one topic_id" while each
\* issue keeps its own message_id: two issues with a card never share it, and
\* if they have a root in common they share the topic, which is the first
\* card of the family (dispatch_one_handoff, topic_root_for, complete_delivery).
OneTopicPerFamily ==
  \A i, j \in Issues :
    Known(i) /\ Known(j) /\ issue[i].message # None /\ issue[j].message # None =>
      /\ i # j => issue[i].message # issue[j].message
      /\ (Root[i] = Root[j]) <=> (issue[i].topic = issue[j].topic)
=============================================================================
