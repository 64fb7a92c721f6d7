----------------------------- MODULE BridgeStore -----------------------------
(***************************************************************************)
(* The Feishu-Codex bridge's SQLite store: MessageStore with IssueMixin.   *)
(* A transaction is an operator from the database `d` to the database it   *)
(* commits.  `with self.db` commits where its block ends even inside       *)
(* another such block, so an incoming command commits once or twice:       *)
(* Commits gives the databases in turn, and a process that dies between    *)
(* leaves the first.  Texts, times and the wording of replies are          *)
(* abstracted away; a reply is one part, whatever its length.  Of the      *)
(* history entries only those the Base mirror looks up are kept (`seen`).  *)
(***************************************************************************)
EXTENDS Integers, Sequences, FiniteSets

CONSTANTS
  Places,     \* session keys: a user in a chat, or in a topic of a group
  Sender,     \* the user of each place
  Engineers,  \* engineer_users
  Threads,    \* Codex conversation ids
  Plans,      \* solutions with their verification steps
  None,       \* NULL
  Attempts    \* calls of the model before it is given up: 3 in the source

Users    == {Sender[p] : p \in Places}
\* ISS-...: the message that reported it, then one number per level of sub-issue.
IssueId  == Seq(Nat)
Status   == {"open", "waiting", "resolved"}
Commands == {"report", "describe", "sub", "select", "new", "list", "use", "issue",
             "chat", "confirm", "reopen", "verify", "text", "other"}

Ask == [op : Commands, issue : IssueId \cup {None}, version : Nat \cup {None},
        plan : Plans \cup {None}]

\* A button of a card: the reply that shows it, its owner's place, its command.
Button == [row : Nat, place : Places, op : Commands,
           options : SUBSET (IssueId \cup {None}), version : Nat \cup {None}]

ASSUME BridgeStoreAssumption ==
  /\ None \notin Places \cup Threads \cup Plans \cup Nat \cup IssueId \cup Button
  /\ Attempts \in Nat \ {0}

Message == [place : Places, ask : Ask,
            button   : Button \cup {None},      \* of a synthetic message
            issue    : IssueId \cup {None},
            kind     : {"chat", "command", "question"},
            status   : {"pending", "running", "done"},
            attempts : 0..Attempts,
            due      : BOOLEAN]                 \* next_attempt has come

Part  == {"ack", "answer", "menu", "card", "notice", "notice card"} \X Nat
Reply == [message : Nat, part : Part, sent : BOOLEAN, due : BOOLEAN]

Issue == [reporter : Users,
          parent   : IssueId \cup {None},
          children : Nat,
          status   : Status,
          version  : Nat,                       \* verification_version
          plan     : Plans \cup {None},
          thread   : Threads \cup {None},
          revision : Nat,
          synced   : Nat,                       \* synced_revision
          known    : BOOLEAN,                   \* record_id is stored
          written  : (Status \X (Plans \cup {None})) \cup {None}, \* remote_proposal
          due      : BOOLEAN]                   \* retry_at has come

EmptyDatabase ==
  [inbox   |-> << >>,                           \* messages in seq order
   outbox  |-> << >>,                           \* replies in seq order
   issues  |-> << >>,                           \* issue id -> Issue
   active  |-> [p \in Places |-> None],         \* active_issues
   mode    |-> [p \in Places |-> None],         \* conversation_modes
   chats   |-> [p \in Places |-> None],         \* sessions of ordinary chats
   buttons |-> {}, used |-> {},                 \* card_actions
   seen    |-> {}]                              \* base:...:pending entries

SenderOf(d, m) == Sender[d.inbox[m].place]
ThreadsOf(d) == {d.chats[p] : p \in Places} \cup {d.issues[i].thread : i \in DOMAIN d.issues}
Last(s) == s[Len(s)]
Greatest(S) == CHOOSE n \in S : \A k \in S : k <= n
Least(S) == CHOOSE n \in S : \A k \in S : n <= k

-----------------------------------------------------------------------------
(* Replies and their cards. *)

Rows(d, m, part) == {n \in DOMAIN d.outbox : d.outbox[n].message = m /\ d.outbox[n].part = part}

\* _reply: INSERT OR IGNORE on the message and the part.
Replied(d, m, part) ==
  IF Rows(d, m, part) # {} THEN d
  ELSE [d EXCEPT !.outbox =
          Append(@, [message |-> m, part |-> part, sent |-> FALSE, due |-> TRUE])]

Act(op, options, version) == [op |-> op, options |-> options, version |-> version]
Plain(op) == Act(op, {None}, None)

\* action_card: each button gets a token of its own.
ActionCard(d, m, part, acts) ==
  LET r == Replied(d, m, part)
      n == Least(Rows(r, m, part))
  IN [r EXCEPT !.buttons = @ \cup
       {[row |-> n, place |-> d.inbox[m].place, op |-> b.op, options |-> b.options,
         version |-> b.version] : b \in acts}]

Menu(d, m) == ActionCard(d, m, <<"menu", 0>>, {Plain("report"), Plain("select"), Plain("chat")})

\* The verdict buttons carry the version they were drawn for.
IssueCard(d, m, i, part) ==
  LET issue == d.issues[i]
      acts == CASE issue.status = "waiting" /\ SenderOf(d, m) = issue.reporter ->
                     {Act("confirm", {i}, issue.version), Act("reopen", {i}, issue.version)}
                [] issue.status = "resolved" -> {}
                [] OTHER -> {Act("use", {i}, None)}
  IN ActionCard(d, m, part, acts \cup {Act("sub", {i}, None), Plain("new")})

Touched(d, i) == [d EXCEPT !.issues[i].revision = @ + 1]

\* The newest message of the reporter in the issue, if there is one, is replied to.
NotifyReporter(d, i) ==
  LET own == {m \in DOMAIN d.inbox :
                d.inbox[m].issue = i /\ SenderOf(d, m) = d.issues[i].reporter}
      m == Greatest(own)
      rev == d.issues[i].revision
  IN IF own = {} THEN d
     ELSE IssueCard(Replied(d, m, <<"notice", rev>>), m, i, <<"notice card", rev>>)

-----------------------------------------------------------------------------
(* Messages and issues. *)

Bind(d, m, i, kind) == [d EXCEPT !.inbox[m].issue = i, !.inbox[m].kind = kind]

Finish(d, m, thread) ==
  LET i == d.inbox[m].issue
      done == [d EXCEPT !.inbox[m].status = "done"]
      kept == CASE thread = None -> done
                [] thread # None /\ i # None -> [done EXCEPT !.issues[i].thread = thread]
                [] OTHER -> [done EXCEPT !.chats[d.inbox[m].place] = thread]
  IN Replied(IF i = None THEN kept ELSE Touched(kept, i), m, <<"answer", 0>>)

ChooseMode(d, m, mode) ==
  [d EXCEPT !.active[d.inbox[m].place] = None, !.mode[d.inbox[m].place] = mode]

Activate(d, m, i) ==
  [d EXCEPT !.active[d.inbox[m].place] = i, !.mode[d.inbox[m].place] = None]

\* A reporter sees his own issues, an engineer all.
Allowed(d, m, i) ==
  /\ i \in DOMAIN d.issues
  /\ SenderOf(d, m) \in Engineers \cup {d.issues[i].reporter}

Visible(d, m) == {i \in DOMAIN d.issues : Allowed(d, m, i)}

NewIssue(reporter, parent) ==
  [reporter |-> reporter, parent |-> parent, children |-> 0, status |-> "open",
   version |-> 0, plan |-> None, thread |-> None, revision |-> 1, synced |-> 0,
   known |-> FALSE, written |-> None, due |-> TRUE]

Counted(d, parent) ==
  IF parent = None THEN d ELSE [d EXCEPT !.issues[parent].children = @ + 1]

IdFor(d, m, parent) ==
  IF parent = None THEN <<m>> ELSE Append(parent, d.issues[parent].children + 1)

\* Slip: a sub-issue goes on in its parent's conversation.
CreateIssueContinuing(d, m, parent) ==
  LET i == IdFor(d, m, parent)
      c == Counted(d, parent)
      new == [NewIssue(SenderOf(d, m), parent) EXCEPT
                !.thread = IF parent = None THEN None ELSE c.issues[parent].thread]
      made == [c EXCEPT !.issues = [j \in DOMAIN c.issues \cup {i} |->
                 IF j = i THEN new ELSE c.issues[j]]]
  IN Activate(made, m, i)

CreateIssue(d, m, parent) ==
  LET i == IdFor(d, m, parent)
      c == Counted(d, parent)
      made == [c EXCEPT !.issues = [j \in DOMAIN c.issues \cup {i} |->
                 IF j = i THEN NewIssue(SenderOf(d, m), parent) ELSE c.issues[j]]]
  IN Activate(made, m, i)

QueueQuestion(d, m, i) ==
  Replied(Touched(Bind(d, m, i, "question"), i), m, <<"ack", 0>>)

Propose(d, i, plan) ==
  IF d.issues[i].status = "resolved" THEN d
  ELSE NotifyReporter(Touched([d EXCEPT !.issues[i].status = "waiting", !.issues[i].plan = plan,
                                        !.issues[i].version = @ + 1], i), i)

\* session of a message: that of its issue, or of its place.
SessionFor(d, m) ==
  LET i == d.inbox[m].issue
  IN IF i # None THEN d.issues[i].thread ELSE d.chats[d.inbox[m].place]

-----------------------------------------------------------------------------
(* Incoming commands: message m is the newest row and not yet bound.       *)

Refused(d, m) == <<Finish(d, m, None)>>

\* Answered, then the entry menu beside the answer.
ThenMenu(d, m) == LET f == Finish(d, m, None) IN <<f, Menu(f, m)>>

\* /report without a description, and /sub with its parent.
Report(d, m, parent) ==
  LET i == IdFor(d, m, parent)
      f == Finish(Bind(CreateIssue(d, m, parent), m, i, "command"), m, None)
  IN <<f, ActionCard(f, m, <<"card", 0>>, {Act("issue", {i}, None), Plain("new")})>>

\* /report with a description is a question at once.
Describe(d, m) ==
  LET q == QueueQuestion(CreateIssue(d, m, None), m, <<m>>)
  IN <<ActionCard(q, m, <<"card", 0>>, {Act("issue", {<<m>>}, None), Plain("new")})>>

Sub(d, m, parent) == IF Allowed(d, m, parent) THEN Report(d, m, parent) ELSE Refused(d, m)

\* /sub without a parent offers a selection of the visible issues.
Select(d, m) ==
  LET f == Finish(ChooseMode(d, m, "choose"), m, None)
  IN <<f, IF Visible(d, m) = {} THEN Menu(f, m)
          ELSE ActionCard(f, m, <<"card", 0>>, {Plain("new"), Act("sub", Visible(d, m), None)})>>

\* /use, and /issue or /history; without an argument of the active issue.
Look(d, m, arg, use) ==
  LET i == IF arg = None THEN d.active[d.inbox[m].place] ELSE arg
      b == Bind(d, m, i, "command")
      f == Finish(IF use THEN Activate(b, m, i) ELSE b, m, None)
  IN IF Allowed(d, m, i) THEN <<f, IssueCard(f, m, i, <<"card", 0>>)>> ELSE Refused(d, m)

\* Slip: the version shown is not compared.
VerdictOfAnyVersion(d, m, i, version, status) ==
  LET b == Bind(d, m, i, "command")
  IN IF ~Allowed(d, m, i) THEN Refused(d, m)
     ELSE IF SenderOf(d, m) # d.issues[i].reporter \/ d.issues[i].status # "waiting"
     THEN Refused(b, m)
     ELSE <<Finish(Touched([b EXCEPT !.issues[i].status = status], i), m, None)>>

\* /confirm and /reopen.  Past the version check the message belongs to the
\* issue, even if the verdict is then refused.
Verdict(d, m, i, version, status) ==
  LET b == Bind(d, m, i, "command")
  IN IF ~Allowed(d, m, i) \/ version \notin {None, d.issues[i].version}
     THEN Refused(d, m)
     ELSE IF SenderOf(d, m) # d.issues[i].reporter \/ d.issues[i].status # "waiting"
     THEN Refused(b, m)
     ELSE <<Finish(Touched([b EXCEPT !.issues[i].status = status], i), m, None)>>

\* /verify: the solution is committed before the command is finished.
Verify(d, m, i, plan) ==
  LET p == Propose(Bind(d, m, i, "command"), i, plan)
  IN IF ~Allowed(d, m, i) \/ SenderOf(d, m) \notin Engineers THEN Refused(d, m)
     ELSE IF d.issues[i].status = "resolved" THEN Refused(p, m)
     ELSE <<p, Finish(p, m, None)>>

\* Anything that is no command goes to the active issue, or to the chat.
Text(d, m) ==
  LET p == d.inbox[m].place
      i == d.active[p]
  IN CASE i # None -> IF d.issues[i].status = "resolved" THEN ThenMenu(d, m)
                      ELSE <<QueueQuestion(d, m, i)>>
       [] i = None /\ d.mode[p] = "chat" -> <<Replied(d, m, <<"ack", 0>>)>>
       [] OTHER -> ThenMenu(d, m)

Received(d, place, ask, button) ==
  [d EXCEPT !.inbox = Append(@, [place |-> place, ask |-> ask, button |-> button,
     issue |-> None, kind |-> "chat", status |-> "pending", attempts |-> 0, due |-> TRUE])]

\* enqueue of a message_id not seen before: what it commits, in turn.
Commits(d, place, ask, button) ==
  LET r == Received(d, place, ask, button)
      m == Len(r.inbox)
  IN CASE ask.op = "report"   -> Report(r, m, None)
       [] ask.op = "describe" -> Describe(r, m)
       [] ask.op = "sub"      -> Sub(r, m, ask.issue)
       [] ask.op = "select"   -> Select(r, m)
       [] ask.op = "new"      -> ThenMenu(ChooseMode(r, m, "choose"), m)
       [] ask.op = "list"     -> ThenMenu(r, m)
       [] ask.op = "use"      -> Look(r, m, ask.issue, TRUE)
       [] ask.op = "issue"    -> Look(r, m, ask.issue, FALSE)
       [] ask.op = "chat"     -> <<Finish(ChooseMode(r, m, "chat"), m, None)>>
       [] ask.op = "confirm"  -> Verdict(r, m, ask.issue, ask.version, "resolved")
       [] ask.op = "reopen"   -> Verdict(r, m, ask.issue, ask.version, "open")
       [] ask.op = "verify"   -> Verify(r, m, ask.issue, ask.plan)
       [] ask.op = "text"     -> Text(r, m)
       [] ask.op = "other"    -> Refused(r, m)

\* enqueue_callback of an unused button: its message id derives from the token,
\* so a second press finds it even if the process died before marking it used.
Pressable(d, b) ==
  /\ b \in d.buttons \ d.used
  /\ \A m \in DOMAIN d.inbox : d.inbox[m].button # b

Used(d, b) == [d EXCEPT !.used = @ \cup {b}]

-----------------------------------------------------------------------------
(* The analysis queue. *)

PendingMessages(d) == {m \in DOMAIN d.inbox : d.inbox[m].status = "pending"}

\* Slip: a message that backs off lets the next one pass.
NextDue(d) ==
  LET due == {m \in PendingMessages(d) : d.inbox[m].due}
  IN IF due = {} THEN None ELSE Least(due)

\* The oldest pending message, unless it backs off: it is a barrier.
NextMessage(d) ==
  LET oldest == Least(PendingMessages(d))
  IN IF PendingMessages(d) = {} \/ ~d.inbox[oldest].due THEN None ELSE oldest

MarkRunning(d, m) ==
  [d EXCEPT !.inbox[m].status = "running", !.inbox[m].attempts = @ + 1]

\* Slip: the attempts are not counted out.
RetryForEver(d, m) ==
  [d EXCEPT !.inbox[m].status = "pending", !.inbox[m].due = FALSE, !.inbox[m].attempts = 0]

\* Slip: one attempt too many.
RetryOnceMore(d, m) ==
  IF d.inbox[m].attempts > Attempts THEN Finish(d, m, None)
  ELSE [d EXCEPT !.inbox[m].status = "pending", !.inbox[m].due = FALSE]

RetryModel(d, m) ==
  IF d.inbox[m].attempts >= Attempts THEN Finish(d, m, None)
  ELSE [d EXCEPT !.inbox[m].status = "pending", !.inbox[m].due = FALSE]

\* recover: a turn the last process did not finish is answered, not replayed.
\* The queue runs one turn at a time, so there is one at most.
Recover(d) ==
  LET running == {m \in DOMAIN d.inbox : d.inbox[m].status = "running"}
  IN IF running = {} THEN d ELSE Finish(d, Least(running), None)

-----------------------------------------------------------------------------
(* The reply queue. *)

Unsent(d) == {n \in DOMAIN d.outbox : ~d.outbox[n].sent}

\* Due, and not behind an unsent reply to the same message.
NextReply(d) ==
  LET first == {n \in Unsent(d) :
                  /\ d.outbox[n].due
                  /\ \A k \in Unsent(d) : k < n => d.outbox[k].message # d.outbox[n].message}
  IN IF first = {} THEN None ELSE Least(first)

MarkSent(d, n)   == [d EXCEPT !.outbox[n].sent = TRUE]
RetryReply(d, n) == [d EXCEPT !.outbox[n].due = FALSE]
=============================================================================
