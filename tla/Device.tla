-------------------------------- MODULE Device --------------------------------
(***************************************************************************)
(* The device's human handoff from end to end: RuntimeService runs jobs on *)
(* its executor that move issues between the core's tables (IssueCore) and *)
(* the Feishu client (FeishuClient), while the UI polls the timeline and   *)
(* engineers answer on their cards.  A root's main issue id is its         *)
(* root_issue_id.  The process may crash; it restarts with the database    *)
(* and the client's file, and queues every open handoff again.             *)
(***************************************************************************)
EXTENDS Sequences, SequencesExt

CONSTANTS
  Roots, Reporters, NoIssue, MaxSub, MaxVersion,       \* of IssueCore
  MaxMessages, MaxOrphans, Presses, CardUpdatesFail, None,         \* of FeishuClient
  Workers,      \* threads of the executor
  MaxCrashes,   \* bound on crashes
  MaxDeletes    \* bound on deletions

VARIABLES
  issue, session,                    \* of IssueCore
  item, topic, calls, card, press,   \* of FeishuClient
  queue,      \* the executor's queue of jobs
  backoff,    \* _handoff_retry_at: issues whose retry time has not come
  deleted,    \* _deleted_issue_ids
  spent,      \* the root ids given out: a random one is not given out again
  retired,    \* history: ids of deleted issues; a sub-issue's is given out again
  confirmed,  \* history: ids of issues the reporter has confirmed
  crashes,
  deletes

core   == <<issue, session>>
feishu == <<item, topic, calls, card, press>>
bound  == <<spent, retired, confirmed, crashes, deletes>>
vars   == <<issue, session, item, topic, calls, card, press, queue, backoff, deleted,
           spent, retired, confirmed, crashes, deletes>>

Core == INSTANCE IssueCore WITH Threads <- {}

Issues == Core!IssueId
Root(i) == Core!Main(Core!RootOf(i))
Mains == {Core!Main(r) : r \in Roots}

INSTANCE FeishuClient

\* JSON files and Feishu hold these: a record of the client, and a card.
ItemType == [handoff : {"none"} \cup Sent, message : Messages \cup {None},
             topic : Messages \cup {None}, version : Nat, evidence : BOOLEAN,
             card_state : {"none", "awaiting_engineer", "waiting_verification", "closed"}]
CardType == [issue : Issues, uuid : Issues \cup {None}, topic : Messages, shows : Faces,
             version : Nat]

\* Bounds are naturals; a version is made by a submission; None and NoIssue
\* are none of the values they stand beside.
ASSUME DeviceAssumption ==
  /\ Workers \in Nat \ {0}
  /\ {MaxCrashes, MaxDeletes, MaxSub, MaxVersion, MaxMessages, MaxOrphans} \subseteq Nat
  /\ IsFiniteSet(Presses) /\ Cardinality(Presses) <= MaxVersion
  /\ NoIssue \notin Issues
  /\ None \notin Messages \cup Issues \cup CardType

Init ==
  /\ Core!Init
  /\ ClientInit(Mains)
  /\ queue = << >>
  /\ backoff = {}
  /\ deleted = {}
  /\ spent = {}
  /\ retired = {}
  /\ confirmed = {}
  /\ crashes = 0
  /\ deletes = 0

-----------------------------------------------------------------------------
(* The executor. *)

Job(op, i, v) == [op |-> op, issue |-> i, version |-> v]
JobOps == {"handoff", "confirm", "failed"}
Running == {c \in calls : c.op \in JobOps}

\* _handoff_jobs: the issues with a handoff job queued or running.
HandoffJobs == {queue[n].issue : n \in {m \in DOMAIN queue : queue[m].op = "handoff"}}
               \cup {c.issue : c \in {d \in calls : d.op = "handoff"}}

\* _queue_handoff.
Queued(i) == IF i \in HandoffJobs \cup backoff THEN queue
             ELSE Append(queue, Job("handoff", i, 0))

\* A worker takes the oldest job.  _send_handoff collects the evidence and
\* reads the issue first: it fails if the issue is gone, or was deleted under
\* the same id in the life of this process.
StartJob ==
  LET job == Head(queue) IN
  /\ queue # << >>
  /\ Cardinality(Running) < Workers
  /\ queue' = Tail(queue)
  /\ IF job.op # "handoff"
     THEN /\ calls' = calls \cup {[Call(job.op, job.issue, "copy") EXCEPT !.version = job.version]}
          /\ UNCHANGED backoff
     ELSE IF job.issue \in DOMAIN issue \ deleted
     THEN /\ calls' = calls \cup {[Call("handoff", job.issue, "lock") EXCEPT
                                     !.status = issue[job.issue].status]}
          /\ UNCHANGED backoff
     ELSE /\ backoff' = backoff \cup {job.issue}
          /\ UNCHANGED calls
  /\ UNCHANGED <<core, item, topic, card, press, deleted, bound>>

\* The retry time of an issue comes; a poll or a restart queues it again.
RetryTime(i) ==
  /\ i \in backoff
  /\ backoff' = backoff \ {i}
  /\ UNCHANGED <<core, feishu, queue, deleted, bound>>

-----------------------------------------------------------------------------
(* Calls of the UI. *)

CreateIssue(r, who) ==
  /\ r \notin spent
  /\ Core!CreateIssue(r, who)
  /\ spent' = spent \cup {r}
  /\ UNCHANGED <<feishu, queue, backoff, deleted, retired, confirmed, crashes, deletes>>

CreateSubissue(i, who) ==
  /\ Core!CreateSubissue(i, who)
  /\ UNCHANGED <<feishu, queue, backoff, deleted, bound>>

RequestHandoff(i) ==
  /\ Core!RequestHandoff(i)
  /\ queue' = Queued(i)
  /\ UNCHANGED <<feishu, backoff, deleted, bound>>

\* timeline: the issue is read, then a queued handoff is queued again, then
\* the client is synced.  The UI has one poll outstanding.
Poll(i) ==
  /\ ~\E c \in calls : c.op = "timeline"
  /\ i \in DOMAIN issue /\ issue[i].handoff # "none"
  /\ calls' = calls \cup
       {Call("timeline", i, IF issue[i].handoff = "queued" THEN "queue" ELSE "copy")}
  /\ UNCHANGED <<core, item, topic, card, press, queue, backoff, deleted, bound>>

\* Slip: a queued handoff is left to the job that has failed.
QueueNever(c) ==
  /\ c \in In("timeline", "queue")
  /\ Becomes(c, [c EXCEPT !.pc = "copy"])
  /\ UNCHANGED <<core, item, topic, card, press, queue, backoff, deleted, bound>>

QueueAgain(c) ==
  /\ c \in In("timeline", "queue")
  /\ queue' = Queued(c.issue)
  /\ Becomes(c, [c EXCEPT !.pc = "copy"])
  /\ UNCHANGED <<core, item, topic, card, press, backoff, deleted, bound>>

\* Slip: the card is closed although the core refuses the confirmation.
ConfirmRefused(i, who, v) ==
  /\ queue' = Append(queue, Job("confirm", i, v))
  /\ IF v = issue[i].version
     THEN Core!ConfirmSolution(i, who, v) /\ confirmed' = confirmed \cup {i}
     ELSE queue = << >> /\ UNCHANGED <<core, confirmed>>
  /\ UNCHANGED <<feishu, backoff, deleted, spent, retired, crashes, deletes>>

ConfirmSolution(i, who, v) ==
  /\ Core!ConfirmSolution(i, who, v)
  /\ queue' = Append(queue, Job("confirm", i, v))
  /\ confirmed' = confirmed \cup {i}
  /\ UNCHANGED <<feishu, backoff, deleted, spent, retired, crashes, deletes>>

ReportVerificationFailure(i, who) ==
  /\ Core!ReportVerificationFailure(i, who)
  /\ queue' = Append(queue, Job("failed", i, issue[i].version))
  /\ UNCHANGED <<feishu, backoff, deleted, bound>>

\* delete_issues: the core's rows first, the client's records after it.
DeleteIssue(i) ==
  /\ deletes < MaxDeletes
  /\ Core!DeleteIssues({i})
  /\ deletes' = deletes + 1
  /\ deleted' = deleted \cup Core!Targets({i})
  /\ retired' = retired \cup Core!Targets({i})
  /\ calls' = calls \cup {[Call("forget", i, "store") EXCEPT !.targets = Core!Targets({i})]}
  /\ UNCHANGED <<item, topic, card, press, queue, backoff, spent, confirmed, crashes>>

-----------------------------------------------------------------------------
(* _sync_gateway after the client's answer. *)

\* Slip: only the sync that marks the delivery goes on to import.
MarkOnce(c) ==
  LET i == c.issue IN
  /\ c \in calls /\ c.pc = "mark"
  /\ IF i \in DOMAIN issue /\ c.copy.handoff # "none" /\ issue[i].handoff = "queued"
     THEN Becomes(c, [c EXCEPT !.pc = "import"]) /\ Core!MarkHandoffDelivered(i)
     ELSE Ends(c) /\ UNCHANGED core
  /\ UNCHANGED <<item, topic, card, press, queue, backoff, deleted, bound>>

\* An issue deleted meanwhile raises, which ends the sync.
MarkDelivered(c) ==
  LET i == c.issue IN
  /\ c \in calls /\ c.pc = "mark"
  /\ IF i \notin DOMAIN issue THEN Ends(c) /\ UNCHANGED core
     ELSE /\ Becomes(c, [c EXCEPT !.pc = "import"])
          /\ IF c.copy.handoff \in {"delivered", "handling", "solution_available"}
                /\ issue[i].handoff = "queued"
             THEN Core!MarkHandoffDelivered(i)
             ELSE UNCHANGED core
  /\ UNCHANGED <<item, topic, card, press, queue, backoff, deleted, bound>>

\* import_solution refuses a closed issue; the exception is logged.
ImportSolution(c) ==
  LET i == c.issue IN
  /\ c \in calls /\ c.pc = "import"
  /\ Ends(c)
  /\ IF i \in DOMAIN issue /\ c.copy.version > issue[i].version
        /\ issue[i].status # "closed"
     THEN Core!ImportSolution(i, c.copy.version)
     ELSE UNCHANGED core
  /\ UNCHANGED <<item, topic, card, press, queue, backoff, deleted, bound>>

-----------------------------------------------------------------------------
(* The client's own steps, and crashes. *)

Elsewhere == UNCHANGED <<core, queue, backoff, deleted, bound>>

FailHandoff(c) ==
  /\ HandoffFails(c)
  /\ backoff' = backoff \cup {c.issue}
  /\ UNCHANGED <<core, queue, deleted, bound>>

Crash ==
  /\ crashes < MaxCrashes
  /\ crashes' = crashes + 1
  /\ calls' = {}
  /\ backoff' = {}
  /\ deleted' = {}
  /\ \E order \in SetToSeqs({i \in DOMAIN issue :
                               issue[i].handoff # "none" /\ issue[i].status # "closed"}) :
       queue' = [n \in DOMAIN order |-> Job("handoff", order[n], 0)]
  /\ UNCHANGED <<core, item, topic, card, press, spent, retired, confirmed, deletes>>

-----------------------------------------------------------------------------
UI ==
  \/ \E r \in Roots, who \in Reporters : CreateIssue(r, who)
  \/ \E i \in DOMAIN issue :
       \/ RequestHandoff(i)
       \/ Poll(i)
       \/ DeleteIssue(i)
       \/ \E who \in Reporters :
            \/ CreateSubissue(i, who)
            \/ ReportVerificationFailure(i, who)
            \/ \E v \in 1..MaxVersion : ConfirmSolution(i, who, v)

\* The steps of a handoff that go as they should.
Advance(c) ==
  \/ Elsewhere /\ \/ CopyForHandoff(c) \/ StoreCard(c) \/ FinishHandoff(c)
                  \/ CopyForSync(c) \/ CopyForConfirm(c) \/ CopyForFailure(c)
                  \/ StoreUpdate(c) \/ ForgetIssues(c)
  \/ QueueAgain(c) \/ MarkDelivered(c) \/ ImportSolution(c)
Sends(c)   == Elsewhere /\ (SendCard(c) \/ CompleteTopic(c) \/ SendEvidence(c))
Updates(c) == Elsewhere /\ UpdateCard(c)
Fails(c)   == FailHandoff(c) \/ (Elsewhere /\ UpdateFails(c))

Engineer == \E p \in Presses : Elsewhere /\ PressSubmit(p)
Arrives  == \E p \in Presses : Elsewhere /\ ReceivePress(p)

Next ==
  \/ UI
  \/ StartJob
  \/ \E i \in Issues : RetryTime(i)
  \/ \E c \in calls : Advance(c) \/ Sends(c) \/ Updates(c) \/ Fails(c)
  \/ Engineer
  \/ Arrives
  \/ Crash

Spec == Init /\ [][Next]_vars

\* Every call is scheduled; what is retried for ever succeeds in the end; the
\* chat is open, so the UI goes on polling.
Moves(op, i) ==
  \E c \in calls : c.op = op /\ c.issue = i /\ (Advance(c) \/ Sends(c) \/ Updates(c) \/ Fails(c))

Fairness ==
  /\ WF_vars(StartJob)
  /\ \A i \in Issues :
       /\ \A op \in {"handoff", "timeline", "confirm", "failed", "card"} : WF_vars(Moves(op, i))
       /\ WF_vars(RetryTime(i))
       /\ SF_vars(Poll(i))
  /\ SF_vars(\E c \in calls : Elsewhere /\ SendCard(c))
  /\ SF_vars(\E c \in calls : Elsewhere /\ CompleteTopic(c))
  /\ SF_vars(\E c \in calls : Elsewhere /\ SendEvidence(c))
  /\ SF_vars(\E c \in calls : Updates(c))
  /\ WF_vars(Arrives)

FairSpec == Spec /\ Fairness

-----------------------------------------------------------------------------
(* Properties. *)

CallType == [op : JobOps \cup {"timeline", "card", "forget"}, issue : Issues,
             pc : Locked \cup {"lock", "copy", "queue", "update", "store", "mark", "import"},
             copy : ItemType, topic : Messages \cup {None},
             status : Core!Status \cup {"none"}, version : Nat, targets : SUBSET Issues]
JobType == [op : JobOps, issue : Issues, version : Nat]

TypeOK ==
  /\ Core!TypeOK
  /\ item \in [Issues -> ItemType]
  /\ topic \in [Mains -> Messages \cup {None}]
  /\ calls \subseteq CallType
  /\ card \in [Messages -> CardType \cup {None}]
  /\ press \in [Presses -> Unpressed..Heard]
  /\ queue \in Seq(JobType)
  /\ backoff \subseteq Issues /\ deleted \subseteq Issues
  /\ spent \subseteq Roots /\ retired \subseteq Issues /\ confirmed \subseteq Issues
  /\ crashes \in 0..MaxCrashes /\ deletes \in 0..MaxDeletes

\* The cards of a family hang off one topic, the one the client has stored
\* for its root, whichever member was handed off first and however often its
\* card had to be sent (CopyForHandoff, StoreCard under _handoff_lock).
FamilySharesTopic ==
  \A i \in DOMAIN issue : item[i].message # None => item[i].topic = topic[Root(i)]

\* Engineers see an issue as solved only if the reporter has confirmed it: a
\* card shows the closed face, and the client holds the issue as closed, only
\* for a number whose issue was confirmed; and as long as no issue of that
\* number was deleted, the core's row is closed.  A sub-issue's number is given
\* out again after a deletion (it follows the highest that is left), and the
\* new issue may then meet the old one's card: nothing more holds of it.
ClosedCardMeansClosed ==
  \A i \in Issues :
    \/ item[i].handoff = "closed"
    \/ \E m \in Messages : card[m] # None /\ card[m].issue = i /\ card[m].shows = "closed"
    => i \in confirmed /\ (i \notin retired => i \in DOMAIN issue /\ issue[i].status = "closed")

\* A solution the client has recorded is overwritten by nothing but a handoff
\* of the same issue that copied the record before (_handoff), or forgotten
\* with its deleted issue.
LostOnlyToHandoff ==
  [][\A i \in Issues : item'[i].version < item[i].version =>
        \E c \in calls :
          \/ c.issue = i /\ FinishHandoff(c)
          \/ i \in c.targets /\ ForgetIssues(c)]_vars

\* A solution the client's record goes on holding reaches the core's row, as
\* long as the issue is not deleted: through failing card updates and a crash,
\* while the UI polls (_sync_gateway).  One a handoff's write-back takes out of
\* the record before it was imported is lost for good: nothing is promised of it.
SolutionArrives ==
  \A i \in Issues : \A v \in 1..MaxVersion :
    LET Held    == i \in DOMAIN issue /\ item[i].version >= v
        Arrived == i \in DOMAIN issue /\ issue[i].version >= v
    IN <>[]Held => <>Arrived

\* A requested handoff is eventually delivered, or its issue is deleted, while
\* sends fail and are backed off from (_queue_handoff, _handoff_done).
HandoffIsDelivered ==
  \A i \in Issues :
    (i \in DOMAIN issue /\ issue[i].handoff = "queued")
      ~> (i \notin DOMAIN issue \/ issue[i].handoff = "delivered")
=============================================================================
