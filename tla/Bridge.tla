------------------------------- MODULE Bridge -------------------------------
(***************************************************************************)
(* The bridge process: asyncio tasks that listen for messages and card     *)
(* actions, analyse the oldest pending message with Codex, send replies    *)
(* and mirror issues to a Feishu Base.  Tasks interleave only at awaits,   *)
(* so an action is what a task does between two of them: `turn`, `sending` *)
(* and `sync` are the three tasks' calls in flight.  A process that dies   *)
(* loses them and recovers the database; nothing happens while it is down  *)
(* that could not happen right after it is up, so the two are one step.    *)
(***************************************************************************)
EXTENDS BridgeStore

CONSTANTS
  Asked,        \* the commands typed in an instance
  Pressed,      \* the commands of the buttons pressed in it
  HasBase,      \* a Base is configured
  MaxMessages,  \* bound on messages
  MaxEdits,     \* bound on engineers' edits of the sheet
  MaxFailures,  \* bound on failing calls of lark-cli
  MaxCrashes    \* bound on restarts

VARIABLES
  db,       \* the committed database
  turn,     \* the message Codex is asked about, and its session; or None
  sending,  \* the reply lark-cli is sending, or None
  sync,     \* the mirror's call in flight, or None
  sheet,    \* the rows of the Base: issue id -> row
  shown,    \* the replies Feishu has
  edits,    \* engineers' edits so far
  failures, \* failing calls of lark-cli so far
  crashes   \* restarts so far

vars == <<db, turn, sending, sync, sheet, shown, edits, failures, crashes>>

Turn == [message : Nat, thread : Threads \cup {None}]

SheetRow == [status : Status, plan : Plans \cup {None}, by : {"bridge", "engineer"}]

Sync == [issue : IssueId, at : {"find", "read", "write"}, status : Status,
         plan : Plans \cup {None}, signature : Plans \cup {None}, revision : Nat]

ASSUME BridgeAssumption ==
  /\ Asked \subseteq Commands /\ Pressed \subseteq Commands
  /\ None \notin Turn \cup Sync
  /\ HasBase \in BOOLEAN
  /\ {MaxMessages, MaxEdits, MaxFailures, MaxCrashes} \subseteq Nat

Init ==
  /\ db = EmptyDatabase
  /\ turn = None /\ sending = None /\ sync = None
  /\ sheet = << >> /\ shown = {}
  /\ edits = 0 /\ failures = 0 /\ crashes = 0

-----------------------------------------------------------------------------
(* Calls in flight may have reached Feishu whether or not they return: `taken`. *)

ShownAfter(taken) == IF taken /\ sending # None THEN shown \cup {sending} ELSE shown

WithRow(i, row) == [j \in DOMAIN sheet \cup {i} |-> IF j = i THEN row ELSE sheet[j]]

\* A row is created open; one that is written keeps its plan while the issue
\* has none.  Feishu does not write a row that was removed.
Found ==
  IF sync.issue \in DOMAIN sheet THEN sheet
  ELSE WithRow(sync.issue, [status |-> "open", plan |-> None, by |-> "bridge"])

Written ==
  WithRow(sync.issue,
    [status |-> sync.status, by |-> "bridge",
     plan |-> IF sync.plan # None THEN sync.plan ELSE sheet[sync.issue].plan])

SheetAfter(taken) ==
  CASE taken /\ sync # None /\ sync.at = "find"  -> Found
    [] taken /\ sync # None /\ sync.at = "write" /\ sync.issue \in DOMAIN sheet -> Written
    [] OTHER -> sheet

-----------------------------------------------------------------------------
(* A process that dies, and its restart. *)

Restarted(d) ==
  /\ crashes < MaxCrashes
  /\ db' = Recover(d)
  /\ \E taken \in BOOLEAN : shown' = ShownAfter(taken) /\ sheet' = SheetAfter(taken)
  /\ turn' = None /\ sending' = None /\ sync' = None
  /\ crashes' = crashes + 1
  /\ UNCHANGED <<edits, failures>>

Restart == Restarted(db)

-----------------------------------------------------------------------------
(* listen and listen_cards. *)

Room == Len(db.inbox) < MaxMessages
Listening == UNCHANGED <<turn, sending, sync, sheet, shown, edits, failures, crashes>>

\* An event delivered again finds its row, and changes nothing.
Receive(p, ask) ==
  /\ Room
  /\ db' = Last(Commits(db, p, ask, None))
  /\ Listening

ReceiveTorn(p, ask) ==
  LET c == Commits(db, p, ask, None) IN
  /\ Room
  /\ Len(c) > 1
  /\ Restarted(c[1])

\* Whoever sees the card presses it; only its owner's press counts.
CanPress(b, i) == Room /\ b.row \in shown /\ Pressable(db, b) /\ i \in b.options

AskOf(b, i) == [op |-> b.op, issue |-> i, version |-> b.version, plan |-> None]

Press(b, i) ==
  /\ CanPress(b, i)
  /\ db' = Used(Last(Commits(db, b.place, AskOf(b, i), b)), b)
  /\ Listening

\* The button is marked used after all the commits of its command.
PressTorn(b, i) ==
  LET c == Commits(db, b.place, AskOf(b, i), b) IN
  /\ CanPress(b, i)
  /\ \E k \in DOMAIN c : Restarted(c[k])

-----------------------------------------------------------------------------
(* analyze. *)

Analyzing == UNCHANGED <<sending, sync, sheet, shown, edits, failures, crashes>>

StartTurn ==
  LET m == NextMessage(db) IN
  /\ turn = None
  /\ m # None
  /\ db' = MarkRunning(db, m)
  /\ turn' = [message |-> m, thread |-> SessionFor(db, m)]
  /\ Analyzing

\* Codex resumes the session it is given, or starts one of its own.
Threaded == IF turn.thread # None THEN {turn.thread} ELSE Threads \ ThreadsOf(db)

\* Slip: the session of whatever issue is active by now is used.
FinishedActive(m, thread) ==
  LET i == db.active[db.inbox[m].place]
      f == Finish(db, m, None)
  IN IF i = None THEN Finish(db, m, thread) ELSE [f EXCEPT !.issues[i].thread = thread]

Finished(m, thread) == Finish(db, m, thread)

\* The answer, and in a transaction of its own the solution it proposes.
Answered(plan, thread) ==
  LET m == turn.message
      i == db.inbox[m].issue
      f == Finished(m, thread)
  IN
  /\ turn # None
  /\ thread \in Threaded
  /\ plan # None => i # None
  /\ db' = IF plan = None THEN f ELSE Propose(f, i, plan)
  /\ turn' = None
  /\ Analyzing

AnsweredTorn(thread) ==
  /\ turn # None
  /\ thread \in Threaded
  /\ db.inbox[turn.message].issue # None
  /\ Restarted(Finished(turn.message, thread))

\* The call fails, times out, or its answer has the wrong form.
AskFails ==
  /\ turn # None
  /\ db' = RetryModel(db, turn.message)
  /\ turn' = None
  /\ Analyzing

MessageDue(m) ==
  /\ db.inbox[m].status = "pending" /\ ~db.inbox[m].due
  /\ db' = [db EXCEPT !.inbox[m].due = TRUE]
  /\ UNCHANGED <<turn, sending, sync, sheet, shown, edits, failures, crashes>>

-----------------------------------------------------------------------------
(* send. *)

Failing == failures < MaxFailures /\ failures' = failures + 1

Sending == UNCHANGED <<turn, sync, sheet, edits, crashes>>

StartSend ==
  /\ sending = None
  /\ NextReply(db) # None
  /\ sending' = NextReply(db)
  /\ UNCHANGED <<db, shown, failures>>
  /\ Sending

SendSucceeds ==
  /\ sending # None
  /\ db' = MarkSent(db, sending)
  /\ shown' = ShownAfter(TRUE)
  /\ sending' = None
  /\ UNCHANGED failures
  /\ Sending

\* Refused, or taken with the response lost: the idempotency key keeps Feishu
\* from showing the reply again.
SendFails(taken) ==
  /\ sending # None
  /\ db' = RetryReply(db, sending)
  /\ shown' = ShownAfter(taken)
  /\ sending' = None
  /\ Failing
  /\ Sending

ReplyDue(n) ==
  /\ ~db.outbox[n].sent /\ ~db.outbox[n].due
  /\ db' = [db EXCEPT !.outbox[n].due = TRUE]
  /\ UNCHANGED <<turn, sending, sync, sheet, shown, edits, failures, crashes>>

-----------------------------------------------------------------------------
(* sync_base: one issue at a time, one call at a time. *)

Syncing == UNCHANGED <<turn, sending, shown, edits, crashes>>

Idle(i) == [issue |-> i, at |-> "find", status |-> "open", plan |-> None,
            signature |-> None, revision |-> 0]

\* once: issues that changed, and from time to time the others, are mirrored.
StartSync(i) ==
  /\ HasBase
  /\ sync = None
  /\ db.issues[i].due
  /\ sync' = [Idle(i) EXCEPT !.at = IF db.issues[i].known THEN "read" ELSE "find"]
  /\ UNCHANGED <<db, sheet, failures>>
  /\ Syncing

\* The row is looked for by the issue's id and created open if there is none.
FindRow ==
  /\ sync # None
  /\ sync.at = "find"
  /\ sheet' = SheetAfter(TRUE)
  /\ db' = [db EXCEPT !.issues[sync.issue].known = TRUE]
  /\ sync' = [sync EXCEPT !.at = "read"]
  /\ UNCHANGED failures
  /\ Syncing

\* A concrete plan in a waiting row, unlike what the bridge wrote last and
\* not taken before, is taken as the developers' submission.
Submitted(i, row) ==
  /\ db.issues[i].status # "resolved"
  /\ row.status = "waiting" /\ row.plan # None
  /\ <<row.status, row.plan>> # db.issues[i].written
  /\ <<i, row.plan>> \notin db.seen

Taken(i, row) ==
  IF Submitted(i, row)
  THEN [Propose(db, i, row.plan) EXCEPT !.seen = @ \cup {<<i, row.plan>>}]
  ELSE db

\* Slip: a row is left alone once its issue is mirrored.
ReadRowOnce ==
  LET i == sync.issue
      d == Taken(i, sheet[i])
      issue == d.issues[i]
  IN
  /\ sync # None
  /\ sync.at = "read" /\ i \in DOMAIN sheet
  /\ db' = d
  /\ sync' = IF issue.synced = issue.revision THEN None
             ELSE [issue |-> i, at |-> "write", status |-> issue.status, plan |-> issue.plan,
                   signature |-> IF issue.plan # None THEN issue.plan ELSE sheet[i].plan,
                   revision |-> issue.revision]
  /\ UNCHANGED <<sheet, failures>>
  /\ Syncing

\* The row is read, and the fields to write are those of the issue as it is
\* now; nothing is written when neither side has changed.
ReadRow ==
  LET i == sync.issue
      d == Taken(i, sheet[i])
      issue == d.issues[i]
  IN
  /\ sync # None
  /\ sync.at = "read" /\ i \in DOMAIN sheet
  /\ db' = d
  /\ sync' = IF issue.synced = issue.revision /\ sheet[i].status = issue.status THEN None
             ELSE [issue |-> i, at |-> "write", status |-> issue.status, plan |-> issue.plan,
                   signature |-> IF issue.plan # None THEN issue.plan ELSE sheet[i].plan,
                   revision |-> issue.revision]
  /\ UNCHANGED <<sheet, failures>>
  /\ Syncing

\* Slip: the revision the issue has by now is marked as mirrored.
MirroredNow(d) ==
  [d EXCEPT !.issues[sync.issue].synced = d.issues[sync.issue].revision,
            !.issues[sync.issue].written = <<sync.status, sync.signature>>]

Mirrored(d) ==
  [d EXCEPT !.issues[sync.issue].synced = sync.revision,
            !.issues[sync.issue].written = <<sync.status, sync.signature>>]

WriteRow ==
  /\ sync # None
  /\ sync.at = "write" /\ sync.issue \in DOMAIN sheet
  /\ sheet' = SheetAfter(TRUE)
  /\ db' = Mirrored(db)
  /\ sync' = None
  /\ UNCHANGED failures
  /\ Syncing

\* A row known to the bridge is not created again when it is gone: the issue
\* waits, and its next time ends in the same way.
RowMissing ==
  /\ sync # None
  /\ sync.at # "find" /\ sync.issue \notin DOMAIN sheet
  /\ db' = [db EXCEPT !.issues[sync.issue].due = FALSE]
  /\ sync' = None
  /\ UNCHANGED <<sheet, failures>>
  /\ Syncing

\* A call fails, or its response is lost: the issue waits for its next time.
SyncFails(taken) ==
  /\ sync # None
  /\ sheet' = SheetAfter(taken)
  /\ db' = [db EXCEPT !.issues[sync.issue].due = FALSE]
  /\ sync' = None
  /\ Failing
  /\ Syncing

IssueDue(i) ==
  /\ ~db.issues[i].due
  /\ db' = [db EXCEPT !.issues[i].due = TRUE]
  /\ UNCHANGED <<turn, sending, sync, sheet, shown, edits, failures, crashes>>

\* Engineers set a row's status and plan as they like, or remove it.
Edit(i, status, plan) ==
  /\ edits < MaxEdits
  /\ <<status, plan>> # <<sheet[i].status, sheet[i].plan>>
  /\ sheet' = WithRow(i, [status |-> status, plan |-> plan, by |-> "engineer"])
  /\ edits' = edits + 1
  /\ UNCHANGED <<db, turn, sending, sync, shown, failures, crashes>>

Remove(i) ==
  /\ edits < MaxEdits
  /\ sheet' = [j \in DOMAIN sheet \ {i} |-> sheet[j]]
  /\ edits' = edits + 1
  /\ UNCHANGED <<db, turn, sending, sync, shown, failures, crashes>>

-----------------------------------------------------------------------------

\* A verdict can name a version the issue has had, or none.
Verdicts ==
  UNION {[op : Asked \cap {"confirm", "reopen"}, issue : {i},
          version : {None} \cup 1..db.issues[i].version, plan : {None}]
         : i \in DOMAIN db.issues}

\* What can be typed: an issue for the commands that name one, and a plan for
\* /verify.
Typed ==
  [op : Asked \ {"sub", "use", "issue", "confirm", "reopen", "verify"},
   issue : {None}, version : {None}, plan : {None}]
  \cup [op : Asked \cap {"sub", "use", "issue"},
        issue : DOMAIN db.issues, version : {None}, plan : {None}]
  \cup [op : Asked \cap {"use", "issue"}, issue : {None}, version : {None}, plan : {None}]
  \cup Verdicts
  \cup [op : Asked \cap {"verify"}, issue : DOMAIN db.issues, version : {None}, plan : Plans]

Hear ==
  \/ \E p \in Places, ask \in Typed : Receive(p, ask) \/ ReceiveTorn(p, ask)
  \/ \E b \in db.buttons :
       /\ b.op \in Pressed
       /\ \E i \in b.options : Press(b, i) \/ PressTorn(b, i)

Analyze ==
  \/ StartTurn
  \/ \E plan \in Plans \cup {None}, t \in Threads : Answered(plan, t)
  \/ \E t \in Threads : AnsweredTorn(t)
  \/ AskFails
  \/ \E m \in DOMAIN db.inbox : MessageDue(m)

Send ==
  \/ StartSend \/ SendSucceeds
  \/ \E taken \in BOOLEAN : SendFails(taken)
  \/ \E n \in DOMAIN db.outbox : ReplyDue(n)

Mirror ==
  \/ \E i \in DOMAIN db.issues : StartSync(i) \/ IssueDue(i)
  \/ FindRow \/ ReadRow \/ WriteRow \/ RowMissing
  \/ \E taken \in BOOLEAN : SyncFails(taken)
  \/ \E i \in DOMAIN sheet, status \in Status, plan \in Plans \cup {None} : Edit(i, status, plan)
  \/ \E i \in DOMAIN sheet : Remove(i)

\* The tasks that change issues, and all of them.
Work == Restart \/ Hear \/ Analyze \/ Mirror
Next == Work \/ Send

Spec == Init /\ [][Next]_vars

-----------------------------------------------------------------------------
(* What is checked. *)

\* The database and the tasks are well-typed.
TypeOK ==
  /\ db.inbox \in Seq(Message)
  /\ db.outbox \in Seq(Reply)
  /\ \A i \in DOMAIN db.issues : i \in IssueId /\ db.issues[i] \in Issue
  /\ db.active \in [Places -> (DOMAIN db.issues) \cup {None}]
  /\ db.mode \in [Places -> {"choose", "chat", None}]
  /\ db.chats \in [Places -> Threads \cup {None}]
  /\ db.buttons \subseteq Button /\ db.used \subseteq db.buttons
  /\ db.seen \subseteq (DOMAIN db.issues) \X Plans
  /\ turn \in Turn \cup {None}
  /\ sending \in (DOMAIN db.outbox) \cup {None}
  /\ sync \in Sync \cup {None}
  /\ \A i \in DOMAIN sheet : i \in DOMAIN db.issues /\ sheet[i] \in SheetRow
  /\ shown \subseteq DOMAIN db.outbox

\* Messages are analysed in the order they came, also through failures and
\* back-off: when one is being asked about, every earlier one is done with.
QueueInOrder ==
  \A m \in DOMAIN db.inbox : db.inbox[m].status = "running" =>
    /\ turn # None /\ turn.message = m
    /\ \A k \in 1..(m - 1) : db.inbox[k].status = "done"

\* A Codex conversation serves one issue, or the ordinary chat of one place.
ThreadsAreSeparate ==
  LET Of(i) == db.issues[i].thread IN
  /\ \A i, j \in DOMAIN db.issues : Of(i) = Of(j) => i = j \/ Of(i) = None
  /\ \A p, q \in Places : db.chats[p] = db.chats[q] => p = q \/ db.chats[p] = None
  /\ \A i \in DOMAIN db.issues, p \in Places : Of(i) = db.chats[p] => Of(i) = None

\* An issue waiting for verification is decided only by its reporter, and only
\* of the version his command or his button names; a resolved issue keeps its
\* status, version and plan whatever answers and edits are still to come.
Decides(m, i, status) ==
  LET ask == m.ask IN
  /\ Sender[m.place] = db.issues[i].reporter
  /\ ask.issue = i /\ ask.version \in {None, db.issues[i].version}
  /\ ask.op = IF status = "resolved" THEN "confirm" ELSE "reopen"

OnlyReporterDecides ==
  [][\A i \in DOMAIN db.issues :
       LET old == db.issues[i]
           new == db'.issues[i]
       IN /\ old.status # new.status /\ new.status # "waiting" =>
               /\ old.status = "waiting"
               /\ Len(db'.inbox) > Len(db.inbox)
               /\ Decides(Last(db'.inbox), i, new.status)
          /\ old.status = "resolved" =>
               /\ new.status = "resolved"
               /\ new.version = old.version /\ new.plan = old.plan]_vars

\* When an issue counts as mirrored and no engineer has edited its row since,
\* the row shows its status and its plan, whatever changed while the mirror's
\* calls were in flight or their responses were lost.
MirrorIsCurrent ==
  \A i \in DOMAIN sheet :
    LET issue == db.issues[i] IN
    issue.synced = issue.revision /\ sheet[i].by = "bridge" =>
      /\ sheet[i].status = issue.status
      /\ issue.plan # None => sheet[i].plan = issue.plan

-----------------------------------------------------------------------------
(* Liveness.  Each task loops for ever and its sleeps end, the mirror's     *)
(* loop comes to every issue, and no call stays in flight: it succeeds or   *)
(* fails, and fails no more than MaxFailures times in an instance.          *)

QueueFairness ==
  /\ WF_vars(StartTurn) /\ []<>(turn = None)
  /\ WF_vars(\E m \in DOMAIN db.inbox : MessageDue(m))

SendFairness ==
  /\ WF_vars(StartSend) /\ []<>(sending = None)
  /\ WF_vars(\E n \in DOMAIN db.outbox : ReplyDue(n))

MirrorFairness ==
  /\ \A m \in 1..MaxMessages : SF_vars(<<m>> \in DOMAIN db.issues /\ StartSync(<<m>>))
  /\ \A m \in 1..MaxMessages : WF_vars(<<m>> \in DOMAIN db.issues /\ IssueDue(<<m>>))
  /\ []<>(sync = None)

FairSpec == Spec /\ QueueFairness /\ SendFairness

\* Every message that was taken is answered, and every reply reaches Feishu,
\* through failing calls, back-off and restarts.
Answers == (\A m \in DOMAIN db.inbox : db.inbox[m].status = "done") /\ Unsent(db) = {}
EverythingIsAnswered == []<>Answers

\* The sheet comes back to the issues' own status, also after an engineer has
\* closed a row by hand; a row that an engineer has removed is not made again.
Agrees == \A i \in DOMAIN db.issues :
            IF i \in DOMAIN sheet THEN sheet[i].status = db.issues[i].status
            ELSE db.issues[i].known
SheetCatchesUp == []<>Agrees
=============================================================================
