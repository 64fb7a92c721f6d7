-------------------------------- MODULE Gateway --------------------------------
(***************************************************************************)
(* The Gateway process: HTTP handler threads (ThreadingHTTPServer), the    *)
(* long-connection card consumer thread and the outbox worker thread over  *)
(* one GatewayStore, with Feishu and the Base as the external services     *)
(* they call between their transactions.  A thread stops at the points     *)
(* where others can run in between: after a transaction commits, before an *)
(* external call, after it.  The process may crash at any point; it then   *)
(* restarts with the stored tables only.                                   *)
(*                                                                         *)
(* External: a card exists in Feishu per idempotency key of send_handoff   *)
(* (Feishu deduplicates on it), so a message_id is the key of a delivery.  *)
(* Validation, authentication and the engineer allowlist are abstracted    *)
(* away: a refused request changes nothing.                                *)
(***************************************************************************)
EXTENDS GatewayStore

CONSTANTS
  Handlers,    \* HTTP handler threads that may run at once
  Consumers,   \* the card consumer thread, if the long connection is enabled
  HasFeishu,   \* a Feishu adapter is configured
  HasBase,     \* a Base adapter is configured
  MaxCrashes   \* bound on process crashes

ASSUME GatewayAssumption ==
  /\ MaxCrashes \in Nat
  /\ Handlers \cap Consumers = {}
  /\ HasFeishu \in BOOLEAN /\ HasBase \in BOOLEAN

VARIABLES
  thread,      \* handler and consumer threads: program counter and locals
  worker,      \* the worker thread: program counter and locals
  wake,        \* OutboxWorker._wake
  card,        \* external: the card Feishu shows for each delivery
  projection,  \* external: seq of the latest event the Base holds
  answered,    \* external: keys and callback ids that received a 2xx response
  strayed,     \* history: issues named by a request that repeated the id of another one
  crashes

vars == <<store, thread, worker, wake, card, projection, answered, strayed, crashes>>

Threads == Handlers \cup Consumers
Ids     == Keys \cup ReceiptId
Shown   == {"unsent", "form", "waiting_verification", "awaiting_engineer", "closed"}

Thread  == [pc : {"idle", "found", "read", "patch", "reply"},
            id : Ids \cup {None}, issue : Issues \cup {None},
            shown : Shown, message : Keys \cup {None}, version : Nat]
Worker  == [pc : {"wait", "handoff", "send", "sent", "base", "apply", "applied", "backoff"},
            item : Nat, topic : Keys \cup {None}, failed : BOOLEAN, progress : BOOLEAN]

Idle    == [pc |-> "idle", id |-> None, issue |-> None, shown |-> "unsent",
            message |-> None, version |-> 0]
Asleep  == [pc |-> "wait", item |-> 0, topic |-> None, failed |-> FALSE, progress |-> FALSE]

Init ==
  /\ StoreInit
  /\ thread = [t \in Threads |-> Idle]
  /\ worker = Asleep
  /\ wake = TRUE                       \* start() notifies
  /\ card = [k \in Keys |-> [shown |-> "unsent", version |-> 0]]
  /\ projection = 0
  /\ answered = {}
  /\ strayed = {}
  /\ crashes = 0

-----------------------------------------------------------------------------
(* Requests: the transaction each handler runs first. *)

At(t, pc) == thread[t].pc = pc
Goto(t, pc) == thread' = [thread EXCEPT ![t].pc = pc]

\* After its transaction a handler replies at once, or updates the card first
\* if there is an adapter to do it with.
ThenReply(t, id, i) ==
  thread' = [thread EXCEPT ![t] = [Idle EXCEPT !.pc = "reply", !.id = id, !.issue = i]]
ThenShow(t, id, i, shown) ==
  thread' = [thread EXCEPT ![t] =
    [Idle EXCEPT !.pc = IF HasFeishu THEN "read" ELSE "reply", !.id = id, !.issue = i, !.shown = shown]]

Elsewhere == UNCHANGED <<worker, wake, card, projection, answered, crashes>>

\* Nothing compares a repeated id with the request it was stored for: this
\* remembers the issue whose card the request will update all the same.
Noting(c, i, kind) ==
  strayed' = IF receipts[c] = 0 \/ IsAnswer(c, i, kind) THEN strayed ELSE strayed \cup {i}

PostHandoff(t, k, i, o) ==
  /\ At(t, "idle")
  /\ CreateHandoff(k, i, o) \/ ReplayHandoff(k, i, o)
  /\ ThenReply(t, k, i)
  /\ UNCHANGED strayed
  /\ Elsewhere

\* Slip: a refused confirmation still closes the card.
PostConfirmRefused(t, call, i, o, v) ==
  LET c == <<"device", call>> IN
  /\ At(t, "idle")
  /\ \/ ConfirmSolution(c, i, o, v)
     \/ Replay(c)
     \/ UNCHANGED store
  /\ ThenShow(t, c, i, "closed")
  /\ Noting(c, i, "ReporterConfirmed")
  /\ Elsewhere

PostConfirm(t, call, i, o, v) ==
  LET c == <<"device", call>> IN
  /\ At(t, "idle")
  /\ ConfirmSolution(c, i, o, v) \/ Replay(c)
  /\ ThenShow(t, c, i, "closed")
  /\ Noting(c, i, "ReporterConfirmed")
  /\ Elsewhere

PostVerificationFailure(t, call, i, o, v) ==
  LET c == <<"device-failure", call>> IN
  /\ At(t, "idle")
  /\ ReportVerificationFailure(c, i, o, v) \/ Replay(c)
  /\ ThenShow(t, c, i, "awaiting_engineer")
  /\ Noting(c, i, "VerificationFailed")
  /\ Elsewhere

\* An engineer can press a button of a card that Feishu has.
Carded(i) == \E n \in DOMAIN deliveries :
               deliveries[n].issue = i /\ card[deliveries[n].key].shown # "unsent"

PostCardAction(t, call, i, requested) ==
  LET c == <<"feishu", call>> IN
  /\ At(t, "idle")
  /\ Carded(i)
  /\ SubmitSolution(c, i, requested) \/ Replay(c)
  /\ ThenShow(t, c, i, "waiting_verification")
  /\ Noting(c, i, "SolutionSubmitted")
  /\ Elsewhere

EventKinds == {"EngineerClaimed", "FeishuMessageCaptured", "TopicBound"}

PostEvent(t, call, i, kind) ==
  LET c == <<"feishu", call>> IN
  /\ At(t, "idle")
  /\ Carded(i)
  /\ RecordFeishuEvent(c, i, kind) \/ Replay(c)
  /\ ThenReply(t, c, i)
  /\ UNCHANGED strayed
  /\ Elsewhere

\* card_action_event on the long connection: the card's message_id is looked
\* up first, and the submission is a transaction of its own.
LookUpMessage(t, call, k) ==
  /\ At(t, "idle")
  /\ card[k].shown # "unsent"
  /\ \E i \in Issues :
       /\ Known(i) /\ issue[i].message = k
       /\ thread' = [thread EXCEPT ![t] =
            [Idle EXCEPT !.pc = "found", !.id = <<"feishu", call>>, !.issue = i]]
  /\ UNCHANGED <<store, strayed>>
  /\ Elsewhere

SubmitFound(t) ==
  LET c == thread[t].id
      i == thread[t].issue IN
  /\ At(t, "found")
  /\ SubmitSolution(c, i, None) \/ Replay(c)
  /\ ThenShow(t, c, i, "waiting_verification")
  /\ Noting(c, i, "SolutionSubmitted")
  /\ Elsewhere

-----------------------------------------------------------------------------
(* Requests: what follows the transaction. *)

\* issue_card_context: the bound message and the latest solution; without a
\* message the update is skipped.
ReadCardContext(t) ==
  LET row == issue[thread[t].issue] IN
  /\ At(t, "read")
  /\ IF row.message = None THEN Goto(t, "reply")
     ELSE thread' = [thread EXCEPT ![t].pc = "patch", ![t].message = row.message,
                                   ![t].version = row.version]
  /\ UNCHANGED <<store, strayed>>
  /\ Elsewhere

PatchCard(t) ==
  /\ At(t, "patch")
  /\ card' = [card EXCEPT ![thread[t].message] =
                [shown |-> thread[t].shown, version |-> thread[t].version]]
  /\ Goto(t, "reply")
  /\ UNCHANGED <<store, worker, wake, projection, answered, strayed, crashes>>

\* lark-cli fails: the exception ends the request, nothing is replied and
\* the worker is not notified.
PatchFails(t) ==
  /\ At(t, "patch")
  /\ thread' = [thread EXCEPT ![t] = Idle]
  /\ UNCHANGED <<store, strayed>>
  /\ Elsewhere

\* Slip: the worker is not notified.
ReplyAsleep(t) ==
  /\ At(t, "reply") /\ t \in Handlers
  /\ answered' = answered \cup {thread[t].id}
  /\ thread' = [thread EXCEPT ![t] = Idle]
  /\ UNCHANGED <<store, worker, wake, card, projection, strayed, crashes>>

\* _write_json then notify_outbox.
Reply(t) ==
  /\ At(t, "reply") /\ t \in Handlers
  /\ answered' = answered \cup {thread[t].id}
  /\ wake' = TRUE
  /\ thread' = [thread EXCEPT ![t] = Idle]
  /\ UNCHANGED <<store, worker, card, projection, strayed, crashes>>

\* The caller has gone away, so writing the response raises; and the card
\* consumer's loop goes on with the next line.  Neither notifies the worker.
EndUnanswered(t) ==
  /\ At(t, "reply")
  /\ thread' = [thread EXCEPT ![t] = Idle]
  /\ UNCHANGED <<store, strayed>>
  /\ Elsewhere

-----------------------------------------------------------------------------
(* OutboxWorker._run. *)

WorkerAt(pc) == worker.pc = pc

WakeUp ==
  /\ WorkerAt("wait") /\ wake
  /\ wake' = FALSE
  /\ worker' = [Asleep EXCEPT !.pc = "handoff"]
  /\ UNCHANGED <<store, thread, card, projection, answered, strayed, crashes>>

\* dispatch_one_handoff up to the call of send_handoff.
PickHandoff ==
  /\ WorkerAt("handoff")
  /\ worker' =
       IF ~HasFeishu \/ PendingDeliveries = {} THEN [worker EXCEPT !.pc = "base"]
       ELSE LET n == Oldest(PendingDeliveries) IN
            [worker EXCEPT !.pc = "send", !.item = n,
                           !.topic = TopicRootFor(Root[deliveries[n].issue])]
  /\ UNCHANGED <<store, thread, wake, card, projection, answered, strayed, crashes>>

Sent(k) == IF card[k].shown = "unsent"
           THEN card' = [card EXCEPT ![k] = [shown |-> "form", version |-> 0]]
           ELSE UNCHANGED card

SendSucceeds ==
  /\ WorkerAt("send")
  /\ Sent(deliveries[worker.item].key)
  /\ worker' = [worker EXCEPT !.pc = "sent"]
  /\ UNCHANGED <<store, thread, wake, projection, answered, strayed, crashes>>

\* A timeout or an error of lark-cli, before or after Feishu took the card.
SendFails ==
  /\ WorkerAt("send")
  /\ Sent(deliveries[worker.item].key) \/ UNCHANGED card
  /\ worker' = [worker EXCEPT !.pc = "base", !.failed = TRUE]
  /\ UNCHANGED <<store, thread, wake, projection, answered, strayed, crashes>>

BindDelivery ==
  LET k == deliveries[worker.item].key IN
  /\ WorkerAt("sent")
  /\ CompleteDelivery(worker.item, k, IF worker.topic = None THEN k ELSE worker.topic)
  /\ worker' = [worker EXCEPT !.pc = "base", !.progress = TRUE]
  /\ UNCHANGED <<thread, wake, card, projection, answered, strayed, crashes>>

\* The end of a round: back off after a failure, wait when nothing was done.
NextRound(failed, progress) ==
  worker' = [Asleep EXCEPT !.pc = CASE failed -> "backoff"
                                    [] ~failed /\ progress -> "handoff"
                                    [] OTHER -> "wait"]

\* dispatch_one_base_event up to the call of apply_event.
PickBaseEvent ==
  /\ WorkerAt("base")
  /\ IF ~HasBase \/ Pending(base) = {} THEN NextRound(worker.failed, worker.progress)
     ELSE worker' = [worker EXCEPT !.pc = "apply", !.item = Oldest(Pending(base))]
  /\ UNCHANGED <<store, thread, wake, card, projection, answered, strayed, crashes>>

ApplySucceeds ==
  /\ WorkerAt("apply")
  /\ projection' = worker.item
  /\ worker' = [worker EXCEPT !.pc = "applied"]
  /\ UNCHANGED <<store, thread, wake, card, answered, strayed, crashes>>

ApplyFails ==
  /\ WorkerAt("apply")
  /\ projection' \in {projection, worker.item}
  /\ NextRound(TRUE, worker.progress)
  /\ UNCHANGED <<store, thread, wake, card, answered, strayed, crashes>>

MarkProjected ==
  /\ WorkerAt("applied")
  /\ CompleteBaseEvent(worker.item)
  /\ NextRound(worker.failed, TRUE)
  /\ UNCHANGED <<thread, wake, card, projection, answered, strayed, crashes>>

\* Slip: after a failure the worker waits for the next request.
RetryNever ==
  /\ WorkerAt("backoff")
  /\ worker' = Asleep
  /\ UNCHANGED <<store, thread, wake, card, projection, answered, strayed, crashes>>

\* retry_seconds have passed.
Retry ==
  /\ WorkerAt("backoff")
  /\ wake' = TRUE
  /\ worker' = Asleep
  /\ UNCHANGED <<store, thread, card, projection, answered, strayed, crashes>>

Crash ==
  /\ crashes < MaxCrashes
  /\ crashes' = crashes + 1
  /\ thread' = [t \in Threads |-> Idle]
  /\ worker' = Asleep
  /\ wake' = TRUE
  /\ UNCHANGED <<store, card, projection, answered, strayed>>

-----------------------------------------------------------------------------
(* The specification. *)

Request(t) ==
  \E i \in Issues :
    \/ \E k \in Keys, o \in Owners : PostHandoff(t, k, i, o)
    \/ Known(i) /\ \E call \in Calls, o \in Owners, v \in 1..issue[i].version :
         \/ PostConfirm(t, call, i, o, v)
         \/ PostVerificationFailure(t, call, i, o, v)
    \/ Known(i) /\ \E call \in Callbacks :
         \/ \E requested \in 1..(issue[i].version + 1) \cup {None} :
              PostCardAction(t, call, i, requested)
         \/ \E kind \in EventKinds : PostEvent(t, call, i, kind)

CardEvent(t) == \E call \in Callbacks, k \in Keys : LookUpMessage(t, call, k)

Proceed(t) ==
  \/ SubmitFound(t)
  \/ ReadCardContext(t)
  \/ PatchCard(t)
  \/ PatchFails(t)
  \/ Reply(t)
  \/ EndUnanswered(t)

WorkerStep ==
  \/ WakeUp \/ PickHandoff \/ SendSucceeds \/ SendFails \/ BindDelivery
  \/ PickBaseEvent \/ ApplySucceeds \/ ApplyFails \/ MarkProjected \/ Retry

Next ==
  \/ \E t \in Handlers : Request(t)
  \/ \E t \in Consumers : CardEvent(t)
  \/ \E t \in Threads : Proceed(t)
  \/ WorkerStep
  \/ Crash

Spec == Init /\ [][Next]_vars

\* The threads are scheduled; Feishu and the Base, retried for ever, answer
\* in the end.
Fairness ==
  /\ \A t \in Threads : WF_vars(Proceed(t))
  /\ WF_vars(WorkerStep)
  /\ SF_vars(SendSucceeds)
  /\ SF_vars(ApplySucceeds)

FairSpec == Spec /\ Fairness

-----------------------------------------------------------------------------
(* Properties. *)

TypeOK ==
  /\ StoreTypeOK
  /\ thread \in [Threads -> Thread]
  /\ worker \in Worker
  /\ wake \in BOOLEAN
  /\ card \in [Keys -> [shown : Shown, version : Nat]]
  /\ projection \in 0..Len(log)
  /\ answered \subseteq Ids
  /\ strayed \subseteq Issues
  /\ crashes \in 0..MaxCrashes

\* The Base sees the events in the order they happened, with none left out,
\* through failures, lost answers and crashes of the worker: the rows marked
\* done are exactly the oldest ones, and the Base is at the last of them or
\* at the next one, applied but not yet marked (dispatch_one_base_event).
ProjectedInOrder ==
  \E d \in 0..Len(log) :
    /\ \A n \in DOMAIN base : (base[n] = "done") <=> (n <= d)
    /\ projection \in {d, d + 1}

\* A card shows only what was committed for its issue, whatever the order in
\* which the handlers' updates reach Feishu: a waiting card names a submitted
\* version, a reopened one follows a reported failure of that version or an
\* earlier one, a closed one a confirmation.  Where a caller repeats an id for
\* another issue or another act, the stored response is returned and the card
\* of the issue now named is updated (submit_solution, confirm_solution and
\* report_verification_failure compare nothing, _update_feishu_card follows):
\* even such a card carries a version that was submitted for its own issue.
CardShowsCommitted ==
  \A n \in DOMAIN deliveries :
    LET i == deliveries[n].issue
        c == card[deliveries[n].key]
        Past(kind, v) == \E m \in DOMAIN log : log[m] = [issue |-> i, kind |-> kind, version |-> v]
    IN /\ c.version # 0 => Past("SolutionSubmitted", c.version)
       /\ i \notin strayed =>
            /\ c.shown = "waiting_verification" => c.version # 0
            /\ c.shown = "awaiting_engineer" => \E v \in 1..c.version : Past("VerificationFailed", v)
            /\ c.shown = "closed" => \E v \in 1..c.version : Past("ReporterConfirmed", v)

\* A handoff whose 202 the device has received is eventually posted in Feishu
\* and bound to its issue.
AcceptedIsDelivered ==
  \A k \in Keys :
    (k \in answered) ~> (\E n \in DOMAIN deliveries :
                           deliveries[n].key = k /\ deliveries[n].state = "done")

\* Whatever a caller was told is done eventually reaches the Base, also when
\* the worker is busy, failing or asleep at that moment, or the process dies.
AnsweredIsProjected ==
  \A id \in Ids :
    (id \in answered) ~>
      (LET n == IF id \in Keys THEN handoffs[id] ELSE receipts[id]
       IN n \in DOMAIN base /\ base[n] = "done")
=============================================================================
