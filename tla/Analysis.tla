------------------------------- MODULE Analysis -------------------------------
(***************************************************************************)
(* The device's snapshot and analysis jobs: RuntimeService runs them on    *)
(* its executor over the core's tables (IssueCore), one analysis at a time *)
(* per family, against Codex conversations that outlive the process.       *)
(* Meanwhile reporters write and hand over, the manager deletes issues and *)
(* the process crashes.  A job keeps its number for ever, so the job of a  *)
(* message also stands for the message's text.                             *)
(***************************************************************************)
EXTENDS Sequences, Integers, FiniteSets

CONSTANTS
  Roots, Reporters, Threads, NoIssue, MaxSub,   \* of IssueCore
  NoThread,     \* codex_thread of a family without a conversation
  Workers,      \* threads of the executor
  MaxJobs,      \* bound on jobs
  MaxDeletes,   \* bound on deletions
  MaxCrashes    \* bound on crashes

VARIABLES
  issue, session,   \* of IssueCore
  job,        \* the jobs submitted so far
  queue,      \* the executor's queue: numbers of jobs
  lock,       \* _analysis_locks: families held -> the job, or Deleter
  progress,   \* _analysis_progress
  deleted,    \* _deleted_issue_ids
  snapshots,  \* _snapshots: issues with a report in memory
  files,      \* issues with a directory under state_dir/issues
  runner,     \* codex_runner is configured
  stored,     \* messages in the core's tables
  text,       \* external: what Codex keeps of each conversation
  deletion,   \* the management deletion in progress
  overlooked, \* messages a deletion removed with an issue it had not marked
  abandoned,  \* history: deleted issues whose files a failure, a crash, a bundle
              \* or the lack of a mark has left behind
  deletes,
  crashes

core  == <<issue, session>>
disk  == <<files, snapshots>>
bound == <<overlooked, abandoned, deletes, crashes>>
vars  == <<issue, session, job, queue, lock, progress, deleted, snapshots, files,
           runner, stored, text, deletion, overlooked, abandoned, deletes, crashes>>

ASSUME AnalysisAssumption ==
  /\ Workers \in Nat \ {0}
  /\ {MaxJobs, MaxDeletes, MaxCrashes} \subseteq Nat
  /\ MaxSub \in Nat /\ NoIssue \notin Roots \X (0..MaxSub)
  /\ NoThread \notin Threads

Core == INSTANCE IssueCore WITH MaxVersion <- 1

Deleter == 0
Number  == 1..MaxJobs
IssueId == Core!IssueId

JobState == {"queued", "collecting", "reading", "bundling", "waiting", "begun", "asking",
             "saving", "checking", "appending", "done", "lost"}
Outcome == {"none", "answer", "failure", "off", "withheld"}

Job == [kind    : {"capture", "handoff", "analyze"},
        issue   : IssueId,
        pc      : JobState,
        thread  : Threads \cup {NoThread},   \* the conversation it works in
        outcome : Outcome]   \* what is to be, or was, appended to the chat

Idle == [pc |-> "idle", chosen |-> {}, targets |-> {}, threads |-> {}, now |-> NoThread]

-----------------------------------------------------------------------------
(* The executor. *)

Numbers == 1..Len(job)
RootOf(j) == job[j].issue[1]

Analyzing == {"begun", "asking", "saving", "checking", "appending"}
Evidence == {"collecting", "reading", "bundling"}
Running == {j \in Numbers : job[j].pc \in Analyzing \cup Evidence \cup {"waiting"}}

\* What happens to the files of these issues leaves them behind if the rows
\* are gone.
Abandon(S) == abandoned' = abandoned \cup (S \ DOMAIN issue)

Holder(r) == IF r \in DOMAIN lock THEN {lock[r]} ELSE {}
Held(rs, h) == [r \in DOMAIN lock \cup rs |-> IF r \in rs THEN h ELSE lock[r]]
Released(rs) == [r \in DOMAIN lock \ rs |-> lock[r]]

NewJob(kind, i) ==
  [kind |-> kind, issue |-> i, pc |-> "queued", thread |-> NoThread, outcome |-> "none"]

\* Slip: jobs are queued under the number after theirs.
SubmitOneOff(new) ==
  /\ Len(job) + Len(new) <= MaxJobs
  /\ job'   = job \o new
  /\ queue' = queue \o [n \in 1..Len(new) |-> Len(job) + n + 1]

\* _submit of jobs, in this order.
Submit(new) ==
  /\ Len(job) + Len(new) <= MaxJobs
  /\ job'   = job \o new
  /\ queue' = queue \o [n \in 1..Len(new) |-> Len(job) + n]

To(j, pc) == job' = [job EXCEPT ![j].pc = pc]
Ended(j, o) ==
  job' = [job EXCEPT ![j].pc = "done", ![j].thread = NoThread, ![j].outcome = o]

-----------------------------------------------------------------------------
(* What the reporter does. *)

quiet == <<lock, progress, deleted, files, snapshots, runner, text, deletion, bound>>

\* A description is the first message: its text is stored with the issue and
\* its analysis is submitted behind the snapshot.
NewReport(i, described) ==
  IF described
  THEN /\ Submit(<<NewJob("capture", i), NewJob("analyze", i)>>)
       /\ stored' = stored \cup {Len(job) + 2}
  ELSE /\ Submit(<<NewJob("capture", i)>>)
       /\ UNCHANGED stored

\* A main issue's id is random: that of a deleted one does not come again.
CreateIssue(r, who) ==
  /\ \A j \in Numbers : job[j].issue # Core!Main(r)
  /\ Core!CreateIssue(r, who)
  /\ \E described \in BOOLEAN : NewReport(Core!Main(r), described)
  /\ UNCHANGED quiet

CreateSubissue(selected, who) ==
  /\ Core!CreateSubissue(selected, who)
  /\ \E i \in DOMAIN issue' \ DOMAIN issue, described \in BOOLEAN :
       NewReport(i, described)
  /\ UNCHANGED quiet

AppendMessage(i) ==
  /\ Core!AppendMessage(i, "reporter", "local", FALSE)
  /\ Submit(<<NewJob("analyze", i)>>)
  /\ stored' = stored \cup {Len(job) + 1}
  /\ UNCHANGED quiet

\* _queue_handoff, unless a handoff job of the issue is queued or running.
QueueHandoff(i) ==
  IF \E j \in Numbers : /\ job[j].kind = "handoff" /\ job[j].issue = i
                        /\ job[j].pc \in Evidence \cup {"queued"}
  THEN UNCHANGED <<job, queue>>
  ELSE Submit(<<NewJob("handoff", i)>>)

RequestHandoff(i) ==
  /\ Core!RequestHandoff(i)
  /\ QueueHandoff(i)
  /\ UNCHANGED stored /\ UNCHANGED quiet

\* A poll, the start of the process and configure() queue an open handoff
\* again: here whenever they like, for its retry time is Device's.
RetryHandoff(i) ==
  /\ issue[i].handoff = "queued"
  /\ QueueHandoff(i)
  /\ UNCHANGED <<core, stored>> /\ UNCHANGED quiet

\* configure() with or without Codex.
Configure ==
  /\ runner' = ~runner
  /\ UNCHANGED <<core, job, queue, lock, progress, deleted, disk, stored, text, deletion, bound>>

-----------------------------------------------------------------------------
(* Snapshots and evidence bundles. *)

CaptureKept(i) ==
  /\ files' = files \cup {i}
  /\ snapshots' = snapshots \cup {i}

\* The collector's files are written before the second look at
\* _deleted_issue_ids, which removes them again.
Captured(i) ==
  \/ /\ i \notin deleted
     /\ CaptureKept(i)
  \/ /\ i \in deleted
     /\ files' = files \ {i}
     /\ UNCHANGED snapshots

\* The collector raises, before it has written anything or after.
CaptureFails(i) ==
  /\ files' \in {files, files \cup {i}}
  /\ UNCHANGED snapshots

\* A worker takes the oldest job.  A capture of a deleted issue raises here; a
\* handoff takes the report in memory, if there is one.
StartJob(j) ==
  /\ queue # << >>
  /\ j = Head(queue)
  /\ Cardinality(Running) < Workers
  /\ queue' = Tail(queue)
  /\ \/ /\ job[j].kind = "capture"
        /\ \/ /\ job[j].issue \in deleted
              /\ To(j, "done")
              /\ UNCHANGED files
           \/ /\ job[j].issue \notin deleted
              /\ To(j, "collecting")
              /\ files' = files \cup {job[j].issue}
     \/ /\ job[j].kind = "handoff"
        /\ \/ /\ job[j].issue \in snapshots
              /\ To(j, "reading")
              /\ UNCHANGED files
           \/ /\ job[j].issue \in deleted \ snapshots
              /\ To(j, "done")
              /\ UNCHANGED files
           \/ /\ job[j].issue \notin deleted \cup snapshots
              /\ To(j, "collecting")
              /\ files' = files \cup {job[j].issue}
     \/ /\ job[j].kind = "analyze"
        /\ To(j, IF job[j].issue \in DOMAIN issue THEN "waiting" ELSE "done")
        /\ UNCHANGED files
  /\ UNCHANGED <<core, lock, progress, deleted, snapshots, runner, stored, text, deletion, bound>>

\* A handoff goes on with the report it has collected.  A collector that raises
\* does not come to the second look: what it wrote of an issue deleted
\* meanwhile is left.
Collect(j) ==
  LET i == job[j].issue IN
  /\ job[j].pc = "collecting"
  /\ \/ /\ To(j, IF job[j].kind = "handoff" /\ i \notin deleted THEN "reading" ELSE "done")
        /\ Captured(i)
        /\ UNCHANGED abandoned
     \/ /\ To(j, "done")
        /\ CaptureFails(i)
        /\ Abandon({i})
  /\ UNCHANGED <<core, queue, lock, progress, deleted, runner, stored, text, deletion,
                 overlooked, deletes, crashes>>

\* _send_handoff reads the issue, which raises when it is gone.
ReadForBundle(j) ==
  /\ job[j].pc = "reading"
  /\ To(j, IF job[j].issue \in DOMAIN issue THEN "bundling" ELSE "done")
  /\ UNCHANGED <<core, queue, lock, progress, deleted, disk, runner, stored, text, deletion, bound>>

\* build_evidence_bundle makes the snapshot's directory again if need be, and
\* writes the issue's messages into it, unless it raises before: nothing looks
\* whether the issue was deleted.  What is then asked of Feishu is Device's.
Bundle(j) ==
  /\ job[j].pc = "bundling"
  /\ To(j, "done")
  /\ \/ /\ files' = files \cup {job[j].issue}
        /\ Abandon({job[j].issue})
     \/ UNCHANGED <<files, abandoned>>
  /\ UNCHANGED <<core, queue, lock, progress, deleted, snapshots, runner, stored, text, deletion,
                 overlooked, deletes, crashes>>

-----------------------------------------------------------------------------
(* Analysis, step by step under the family's lock. *)

still == <<queue, deleted, runner, deletion, bound>>

\* The look at _deleted_issue_ids is under the lock, as are the reading of the
\* issue, which raises when it is gone, and of the family's conversation, which
\* only the lock's holder changes.
Acquire(j) ==
  /\ job[j].pc = "waiting"
  /\ RootOf(j) \notin DOMAIN lock
  /\ \/ /\ job[j].issue \in deleted \/ job[j].issue \notin DOMAIN issue
        /\ To(j, "done")
        /\ UNCHANGED <<lock, progress>>
     \/ /\ job[j].issue \in DOMAIN issue \ deleted
        /\ lock' = Held({RootOf(j)}, j)
        /\ progress' = progress \cup {job[j].issue}
        /\ job' = [job EXCEPT ![j].pc = "begun",
                              ![j].thread = IF RootOf(j) \in DOMAIN session
                                            THEN session[RootOf(j)] ELSE NoThread]
  /\ UNCHANGED <<core, disk, stored, text>> /\ UNCHANGED still

\* The end of _capture_and_analyze, with or without an exception.
Finish(j) ==
  /\ lock' = Released({RootOf(j)})
  /\ progress' = progress \ {job[j].issue}

\* The snapshot of the analysis; without a runner nothing follows it, and an
\* exception leads to the failure notice.
Capture(j) ==
  /\ job[j].pc = "begun"
  /\ \/ /\ Captured(job[j].issue)
        /\ \/ /\ runner
              /\ To(j, "asking")
              /\ UNCHANGED <<lock, progress>>
           \/ /\ ~runner
              /\ Ended(j, "off")
              /\ Finish(j)
     \/ /\ job' = [job EXCEPT ![j].pc = "checking", ![j].outcome = "failure"]
        /\ CaptureFails(job[j].issue)
        /\ UNCHANGED <<lock, progress>>
  /\ UNCHANGED <<core, stored, text>> /\ UNCHANGED still

\* A thread id of Codex that nothing refers to.
FreshThread(t) == text[t] = {} /\ \A r \in DOMAIN session : session[r] # t

\* _conversation_seed: the whole family as the core's tables hold it, or, when
\* no message is left in it, the job's own text.
Seed(j) ==
  LET kept == {m \in stored : RootOf(m) = RootOf(j)}
  IN IF kept = {} THEN {j} ELSE kept

\* start_conversation, also after a resume that found no session (only then
\* may a thread be known already).  A turn that fails may have opened the
\* conversation, whose id the caller then never learns.
StartConversation(j) ==
  /\ job[j].pc = "asking"
  /\ job[j].thread # NoThread => text[job[j].thread] = {}
  /\ \/ \E t \in Threads :
          /\ FreshThread(t)
          /\ text' = [text EXCEPT ![t] = Seed(j)]
          /\ \/ job' = [job EXCEPT ![j].pc = "saving", ![j].thread = t,
                                   ![j].outcome = "answer"]
             \/ job' = [job EXCEPT ![j].pc = "checking", ![j].outcome = "failure"]
     \/ /\ job' = [job EXCEPT ![j].pc = "checking", ![j].outcome = "failure"]
        /\ UNCHANGED text
  /\ UNCHANGED <<core, lock, progress, disk, stored>> /\ UNCHANGED still

\* resume_conversation.  A session another writer occupies is not touched.
ResumeConversation(j) ==
  /\ job[j].pc = "asking"
  /\ job[j].thread # NoThread
  /\ text[job[j].thread] # {}
  /\ \/ /\ text' = [text EXCEPT ![job[j].thread] = @ \cup {j}]
        /\ \E o \in {"answer", "failure"} :
             job' = [job EXCEPT ![j].pc = IF o = "answer" THEN "saving" ELSE "checking",
                                ![j].outcome = o]
     \/ /\ job' = [job EXCEPT ![j].pc = "checking", ![j].outcome = "failure"]
        /\ UNCHANGED text
  /\ UNCHANGED <<core, lock, progress, disk, stored>> /\ UNCHANGED still

\* An answer with a new thread is saved first; one without a text is a failure.
SaveThread(j) ==
  /\ job[j].pc = "saving"
  /\ Core!SaveCodexThread(job[j].issue, job[j].thread)
  /\ \E o \in {"answer", "failure"} :
       job' = [job EXCEPT ![j].pc = "checking", ![j].outcome = o]
  /\ UNCHANGED <<lock, progress, disk, stored, text>> /\ UNCHANGED still

\* Both the answer and the failure notice look at local_input_enabled in one
\* transaction and are appended in another.
CheckInput(j) ==
  /\ job[j].pc = "checking"
  /\ \/ /\ issue[job[j].issue].input
        /\ To(j, "appending")
        /\ UNCHANGED <<lock, progress>>
     \/ /\ ~issue[job[j].issue].input
        /\ Ended(j, "withheld")
        /\ Finish(j)
  /\ UNCHANGED <<core, disk, stored, text>> /\ UNCHANGED still

\* Slip: the lock is not released when the job ends.
AppendAndKeepLock(j) ==
  /\ job[j].pc = "appending"
  /\ Core!AppendMessage(job[j].issue, "assistant", "system", job[j].outcome = "answer")
  /\ Ended(j, job[j].outcome)
  /\ progress' = progress \ {job[j].issue}
  /\ UNCHANGED <<lock, disk, stored, text>> /\ UNCHANGED still

AppendOutcome(j) ==
  /\ job[j].pc = "appending"
  /\ Core!AppendMessage(job[j].issue, "assistant", "system", job[j].outcome = "answer")
  /\ Ended(j, job[j].outcome)
  /\ Finish(j)
  /\ UNCHANGED <<disk, stored, text>> /\ UNCHANGED still

\* External: a conversation disappears from the Codex home.
LoseConversation(t) ==
  /\ text[t] # {}
  /\ \A j \in Numbers : job[j].pc \in Analyzing => job[j].thread # t
  /\ deletion = Idle
  /\ text' = [text EXCEPT ![t] = {}]
  /\ UNCHANGED <<core, job, queue, lock, progress, deleted, disk, runner, stored, deletion, bound>>

-----------------------------------------------------------------------------
(* Deletion, step by step under the locks of the families it touches. *)

calm == <<job, queue, progress, runner, bound>>

RootsOf(S) == {i[1] : i \in S}

\* Slip: a conversation is cleaned up only when its main issue is selected.
BeginDeleteOfMains(S) ==
  /\ deletion = Idle
  /\ deletes < MaxDeletes
  /\ S # {} /\ S \subseteq DOMAIN issue
  /\ RootsOf(S) \cap DOMAIN lock = {}
  /\ LET threads == {session[r] : r \in {q \in DOMAIN session : Core!Main(q) \in S}}
     IN  /\ threads # {} => runner
         /\ deletion' = [pc |-> "cleaning", chosen |-> S, targets |-> Core!Targets(S),
                         threads |-> threads, now |-> NoThread]
  /\ lock' = Held(RootsOf(S), Deleter)
  /\ deletes' = deletes + 1
  /\ UNCHANGED <<core, job, queue, progress, deleted, disk, runner, stored, text,
                 overlooked, abandoned, crashes>>

\* Every lock is taken at once or the request is refused; so it is when a
\* conversation has to be deleted and no runner can.  A deletion runs alone:
\* one of other families shares no lock, row or conversation with it.
BeginDelete(S) ==
  /\ deletion = Idle
  /\ deletes < MaxDeletes
  /\ S # {} /\ S \subseteq DOMAIN issue
  /\ RootsOf(S) \cap DOMAIN lock = {}
  /\ LET threads == {session[r] : r \in RootsOf(S) \cap DOMAIN session}
     IN  /\ threads # {} => runner
         /\ deletion' = [pc |-> "cleaning", chosen |-> S, targets |-> Core!Targets(S),
                         threads |-> threads, now |-> NoThread]
  /\ lock' = Held(RootsOf(S), Deleter)
  /\ deletes' = deletes + 1
  /\ UNCHANGED <<core, job, queue, progress, deleted, disk, runner, stored, text,
                 overlooked, abandoned, crashes>>

\* Slip: the conversation is forgotten here and kept in Codex.
ForgetOnly(t) ==
  /\ deletion.pc = "cleaning"
  /\ t \in deletion.threads
  /\ deletion' = [deletion EXCEPT !.pc = "forgetting", !.now = t]
  /\ UNCHANGED <<core, lock, deleted, disk, stored, text>> /\ UNCHANGED calm

\* thread/delete; a conversation already gone counts as deleted.
DeleteConversation(t) ==
  /\ deletion.pc = "cleaning"
  /\ t \in deletion.threads
  /\ text' = [text EXCEPT ![t] = {}]
  /\ deletion' = [deletion EXCEPT !.pc = "forgetting", !.now = t]
  /\ UNCHANGED <<core, lock, deleted, disk, stored>> /\ UNCHANGED calm

\* on_deleted, after the answer to thread/delete.
ForgetConversation(t) ==
  /\ deletion.pc = "forgetting"
  /\ t = deletion.now
  /\ Core!ForgetCodexThread(t)
  /\ deletion' = [deletion EXCEPT !.pc = "cleaning", !.threads = @ \ {t}, !.now = NoThread]
  /\ UNCHANGED <<lock, deleted, disk, stored, text>> /\ UNCHANGED calm

\* The cleanup fails or its answer is lost: the issues stay, for a retry.
CleanupFails ==
  /\ deletion.threads # {}
  /\ deletion' = Idle
  /\ lock' = Released(RootsOf(deletion.chosen))
  /\ UNCHANGED <<core, deleted, disk, stored, text>> /\ UNCHANGED calm

MarkDeleted ==
  /\ deletion.pc = "cleaning"
  /\ deletion.threads = {}
  /\ deleted' = deleted \cup deletion.targets
  /\ deletion' = [deletion EXCEPT !.pc = "deleting"]
  /\ UNCHANGED <<core, lock, disk, stored, text>> /\ UNCHANGED calm

\* The core works out the targets again, and its answer is what is removed:
\* sub-issues made meanwhile go too, though they are not marked as deleted.
DeleteRows ==
  /\ deletion.pc = "deleting"
  /\ Core!DeleteIssues(deletion.chosen)
  /\ LET gone == Core!Targets(deletion.chosen)
     IN  /\ stored' = {m \in stored : job[m].issue \notin gone}
         /\ overlooked' = overlooked \cup
              {m \in stored : job[m].issue \in gone \ deletion.targets}
         /\ abandoned' = abandoned \cup (gone \ deletion.targets)
         /\ deletion' = [deletion EXCEPT !.pc = "removing", !.targets = gone]
  /\ UNCHANGED <<lock, deleted, disk, text, job, queue, progress, runner, deletes, crashes>>

RemoveFiles ==
  /\ deletion.pc = "removing"
  /\ files' = files \ deletion.targets
  /\ snapshots' = snapshots \ deletion.targets
  /\ progress' = progress \ deletion.targets
  /\ lock' = Released(RootsOf(deletion.chosen))
  /\ deletion' = Idle
  /\ UNCHANGED <<core, job, queue, deleted, runner, stored, text, bound>>

-----------------------------------------------------------------------------
\* The process dies and comes back: what was only in its memory is gone.  Files
\* of deleted issues stay if a job was writing them or they were to be removed.
Crash ==
  /\ crashes < MaxCrashes
  /\ crashes' = crashes + 1
  /\ job' = [j \in Numbers |-> IF job[j].pc = "done" THEN job[j]
                               ELSE [job[j] EXCEPT !.pc = "lost"]]
  /\ queue' = << >>
  /\ lock' = [r \in {} |-> Deleter]
  /\ progress' = {} /\ deleted' = {} /\ snapshots' = {}
  /\ deletion' = Idle
  /\ Abandon({job[j].issue : j \in {k \in Numbers : job[k].pc = "collecting"}}
             \cup IF deletion.pc = "removing" THEN deletion.targets ELSE {})
  /\ UNCHANGED <<core, files, runner, stored, text, overlooked, deletes>>

Init ==
  /\ Core!Init
  /\ job = << >> /\ queue = << >>
  /\ lock = [r \in {} |-> Deleter]
  /\ progress = {} /\ deleted = {} /\ snapshots = {} /\ files = {} /\ stored = {}
  /\ overlooked = {} /\ abandoned = {}
  /\ runner \in BOOLEAN
  /\ text = [t \in Threads |-> {}]
  /\ deletion = Idle
  /\ deletes = 0 /\ crashes = 0

Report ==
  \/ \E r \in Roots, who \in Reporters : CreateIssue(r, who)
  \/ \E i \in DOMAIN issue, who \in Reporters : CreateSubissue(i, who)
  \/ \E i \in DOMAIN issue : AppendMessage(i) \/ RequestHandoff(i) \/ RetryHandoff(i)

Analyze(j) ==
  \/ Acquire(j) \/ Capture(j) \/ StartConversation(j) \/ ResumeConversation(j)
  \/ SaveThread(j) \/ CheckInput(j) \/ AppendOutcome(j)

Work(j) == StartJob(j) \/ Collect(j) \/ ReadForBundle(j) \/ Bundle(j) \/ Analyze(j)

Delete ==
  \/ \E t \in Threads : DeleteConversation(t) \/ ForgetConversation(t)
  \/ CleanupFails \/ MarkDeleted \/ DeleteRows \/ RemoveFiles

Next ==
  \/ Report
  \/ \E j \in Numbers : Work(j)
  \/ \E S \in SUBSET DOMAIN issue : BeginDelete(S)
  \/ Delete
  \/ Configure
  \/ \E t \in Threads : LoseConversation(t)
  \/ Crash

Spec == Init /\ [][Next]_vars

\* A worker goes on with its job (the collector, Codex and the cleanup have
\* time limits) and takes the next one when it is free.  Nothing is assumed of
\* who gets a lock first.
Fairness ==
  /\ \A j \in Number : WF_vars(j \in Numbers /\ Work(j))
  /\ WF_vars(Delete)

FairSpec == Spec /\ Fairness

-----------------------------------------------------------------------------
\* Jobs, locks and the runtime's tables hold values of their types.
TypeOK ==
  /\ job \in Seq(Job) /\ Len(job) <= MaxJobs
  /\ queue \in Seq(Numbers)
  /\ DOMAIN lock \subseteq Roots /\ \A r \in DOMAIN lock : lock[r] \in Numbers \cup {Deleter}
  /\ {progress, deleted, snapshots, files, abandoned} \subseteq SUBSET IssueId
  /\ runner \in BOOLEAN
  /\ stored \subseteq Numbers /\ overlooked \subseteq Numbers
  /\ text \in [Threads -> SUBSET Numbers]
  /\ deletion.chosen \subseteq IssueId /\ deletion.targets \subseteq IssueId

\* The conversation kept for a family holds messages of that family only, and
\* none that was deleted, and no report or file is left of an issue that is not
\* there: a deleted sub-issue does not live on in the context the others are
\* analysed in.  The exceptions are the messages of an issue that was made while
\* its parent was being deleted (`overlooked`), the files of a snapshot under
\* way, and what is left of an issue that was deleted without a mark, of one
\* whose snapshot raised or whose bundle was written after the deletion, and of
\* one whose snapshot or deletion a crash cut short (`abandoned`).
ConversationsAreClean ==
  \A r \in DOMAIN session \ RootsOf(deletion.chosen) :
    \A m \in text[session[r]] : m \in stored \cup overlooked /\ RootOf(m) = r

UnderWay(i) == \E j \in Numbers : job[j].issue = i /\ job[j].pc = "collecting"

FilesAreClean ==
  deletion = Idle =>
    \A i \in (files \cup snapshots) \ (DOMAIN issue \cup abandoned) :
      i \notin snapshots /\ UnderWay(i)

DeletedLeaveNothing == ConversationsAreClean /\ FilesAreClean

\* A conversation's id is let go only when Codex no longer has it, so that a
\* failed or interrupted deletion can be repeated.
ForgottenIsGone ==
  [][\A r \in DOMAIN session :
        (r \in DOMAIN session' => session'[r] # session[r]) => text[session[r]] = {}]_vars

Replied(j) ==
  j \in Numbers /\ job[j].pc = "done" /\ job[j].outcome \in {"answer", "failure"}

\* No answer is due: the message was deleted, Codex is not configured, or the
\* issue was handed over.
Waived(j) == j \in stored => job[j].outcome \in {"off", "withheld"}

\* Every message to the assistant is answered, if only with the notice that
\* the analysis failed: however jobs, deletions and failures meet, no job
\* waits for ever and none ends silently, but by a crash or for an issue
\* number that was deleted before (_analyze, _analyze_locked, _submit).
MessagesAreAnswered ==
  \A j \in Number :
    (j \in stored /\ job[j].pc = "queued")
      ~> \/ Replied(j) \/ Waived(j)
         \/ job[j].pc = "lost"
         \/ job[j].issue \in deleted
=============================================================================
