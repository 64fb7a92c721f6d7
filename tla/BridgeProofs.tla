---------------------------- MODULE BridgeProofs -----------------------------
(***************************************************************************)
(* For any number of places, messages, issues and engineers, and however   *)
(* many calls fail and processes die: messages are analysed in order, a    *)
(* conversation serves one issue or one place, an issue is decided by its  *)
(* reporter only, and what counts as mirrored is what the sheet shows.     *)
(* Of the bridge's process, see the second half.                           *)
(*                                                                         *)
(* The argument has two levels.  A transaction of the store is an operator *)
(* from a database to the next, and Goes(d, e, m) says what all of them    *)
(* have in common: the tables stay consistent, the messages but m and the  *)
(* conversations stay as they are, and an issue whose status or plan       *)
(* changes has a new revision.  Goes is transitive, so it holds of every   *)
(* transaction once it holds of the parts they are made of.  Two parts go  *)
(* further, the end of a turn and a verdict, and have lemmas of their own. *)
(* The tasks then need only what they know of the database between two     *)
(* steps: Asks, InOrder, Shows and Mirrors.                                *)
(***************************************************************************)
EXTENDS Bridge, BridgeControl, SequenceTheorems, WellFoundedInduction, TLAPS

\* The tables hold values of their types.
Tables(d) ==
  /\ DOMAIN d = {"inbox", "outbox", "issues", "active", "mode", "chats", "buttons", "used", "seen"}
  /\ d.inbox \in Seq(Message) /\ d.outbox \in Seq(Reply)
  /\ DOMAIN d.issues \subseteq IssueId /\ d.issues \in [DOMAIN d.issues -> Issue]
  /\ d.active \in [Places -> (DOMAIN d.issues) \cup {None}]
  /\ d.mode \in [Places -> {"choose", "chat", None}]
  /\ d.chats \in [Places -> Threads \cup {None}]
  /\ d.buttons \subseteq Button /\ d.used \subseteq d.buttons
  /\ d.seen \subseteq (DOMAIN d.issues) \X Plans

\* A message is bound to an issue there is, and has an attempt left.
Bound(d) ==
  \A m \in DOMAIN d.inbox :
    /\ d.inbox[m].issue \in (DOMAIN d.issues) \cup {None}
    /\ d.inbox[m].status = "pending" => d.inbox[m].attempts < Attempts

\* An issue is named after a message, or is one of those its parent counts.
Child(d, j) == \E p \in DOMAIN d.issues : \E k \in 1 .. d.issues[p].children : j = Append(p, k)
Named(d) ==
  \A j \in DOMAIN d.issues : (\E n \in DOMAIN d.inbox : j = <<n>>) \/ Child(d, j)

\* The mirror is never ahead of an issue.
Revised(d) ==
  \A i \in DOMAIN d.issues :
    d.issues[i].revision >= 1 /\ d.issues[i].synced <= d.issues[i].revision

Consistent(d) == Tables(d) /\ Bound(d) /\ Named(d) /\ Revised(d)

\* What the analysis knows of the message it asks about, in turn t: the session
\* it took is that of the message still.
Asks(d, t) ==
  t # None =>
    /\ t.message \in DOMAIN d.inbox /\ d.inbox[t.message].status = "running"
    /\ t.thread = SessionFor(d, t.message)

InOrder(d, t) ==
  \A m \in DOMAIN d.inbox : d.inbox[m].status = "running" =>
    /\ t # None /\ t.message = m
    /\ \A k \in 1 .. (m - 1) : d.inbox[k].status = "done"

Separate(d) ==
  /\ \A i, j \in DOMAIN d.issues :
       d.issues[i].thread = d.issues[j].thread => i = j \/ d.issues[i].thread = None
  /\ \A p, q \in Places : d.chats[p] = d.chats[q] => p = q \/ d.chats[p] = None
  /\ \A i \in DOMAIN d.issues, p \in Places :
       d.issues[i].thread = d.chats[p] => d.issues[i].thread = None

\* What the rows of the sheet show of the issues.
Shows(d, rows) ==
  /\ DOMAIN rows \subseteq DOMAIN d.issues /\ rows \in [DOMAIN rows -> SheetRow]
  /\ \A i \in DOMAIN d.issues : ~d.issues[i].known => d.issues[i].synced = 0
  /\ \A i \in DOMAIN rows :
       d.issues[i].synced = d.issues[i].revision /\ rows[i].by = "bridge" =>
         /\ rows[i].status = d.issues[i].status
         /\ d.issues[i].plan # None => rows[i].plan = d.issues[i].plan

\* What the mirror knows of the issue its call is about.
Mirrors(d, call) ==
  call # None =>
    /\ call.issue \in DOMAIN d.issues
    /\ call.at = "find" => d.issues[call.issue].synced = 0
    /\ call.at # "find" => d.issues[call.issue].known
    /\ call.at = "write" =>
         LET issue == d.issues[call.issue] IN
         /\ issue.synced <= call.revision /\ call.revision <= issue.revision
         /\ call.revision = issue.revision =>
              call.status = issue.status /\ call.plan = issue.plan

\* The tasks' calls, and what Feishu has, are of their types.
Tasks ==
  /\ turn \in Turn \cup {None} /\ sync \in Sync \cup {None}
  /\ sending \in (DOMAIN db.outbox) \cup {None} /\ shown \subseteq DOMAIN db.outbox

IInv ==
  /\ Consistent(db) /\ Tasks /\ Asks(db, turn) /\ InOrder(db, turn) /\ Separate(db)
  /\ Shows(db, sheet) /\ Mirrors(db, sync)

-----------------------------------------------------------------------------
(* Numbers, and what a transaction may do. *)

LEMMA Constants ==
  /\ None \notin Places /\ None \notin Threads /\ None \notin Plans /\ None \notin Nat
  /\ None \notin IssueId /\ None \notin Button /\ None \notin Turn /\ None \notin Sync
  /\ Attempts \in Nat /\ Attempts > 0
BY BridgeStoreAssumption, BridgeAssumption

LEMMA LeastIsLeast ==
  ASSUME NEW S, S \subseteq Nat, S # {}
  PROVE  Least(S) \in S /\ \A n \in S : Least(S) <= n
<1> DEFINE Below == {p \in Nat \X Nat : p[1] < p[2]}
<1>1. IsWellFoundedOn(Below, Nat)
  BY NatLessThanWellFounded DEF OpToRel
<1>2. PICK n \in S : \A k \in S : <<k, n>> \notin Below
  BY <1>1, WFMin
<1>3. ASSUME NEW k \in S PROVE n <= k
  <2>1. <<k, n>> \in Nat \X Nat /\ ~(k < n)
    BY <1>2, <1>3
  <2> QED BY <2>1
<1> QED BY <1>2, <1>3 DEF Least

\* Numbers with a bound have a greatest one.
LEMMA GreatestIsGreatest ==
  ASSUME NEW S, NEW b \in Nat, S \subseteq 1 .. b, S # {}
  PROVE  Greatest(S) \in S /\ \A n \in S : n <= Greatest(S)
<1> DEFINE T == {b - n : n \in S}
<1>1. T \subseteq Nat /\ T # {}
  OBVIOUS
<1>2. Least(T) \in T /\ \A n \in T : Least(T) <= n
  BY <1>1, LeastIsLeast
<1>3. PICK g \in S : Least(T) = b - g
  BY <1>2
<1>4. ASSUME NEW n \in S PROVE n <= g
  <2>1. b - g <= b - n
    BY <1>2, <1>3
  <2> QED BY <2>1
<1> QED BY <1>4 DEF Greatest

\* What a row of an issue keeps in every transaction but the mirror's own.
RowGoesOn(r, s) ==
  /\ s.reporter = r.reporter /\ s.synced = r.synced /\ s.known = r.known
  /\ r.revision <= s.revision /\ r.children <= s.children
  /\ s.revision = r.revision => s.status = r.status /\ s.plan = r.plan

\* The row of an issue just made.
RowBegins(r) ==
  r.synced = 0 /\ ~r.known /\ r.thread = None

\* From d to e a transaction of message m changes no other message.
MessagesStay(d, e, m) ==
  /\ Len(e.inbox) = Len(d.inbox) /\ Len(d.outbox) <= Len(e.outbox) /\ d.buttons \subseteq e.buttons
  /\ \A k \in DOMAIN d.inbox :
       /\ k # m => e.inbox[k] = d.inbox[k]
       /\ e.inbox[k].place = d.inbox[k].place /\ e.inbox[k].ask = d.inbox[k].ask
       /\ e.inbox[k].status \in {d.inbox[k].status, "done"}

IssuesStay(d, e) ==
  /\ DOMAIN d.issues \subseteq DOMAIN e.issues
  /\ \A i \in DOMAIN d.issues : RowGoesOn(d.issues[i], e.issues[i])
  /\ \A i \in DOMAIN e.issues : i \notin DOMAIN d.issues => RowBegins(e.issues[i])

\* Conversations stay where they are.
ThreadsStay(d, e) ==
  e.chats = d.chats /\ \A i \in DOMAIN d.issues : e.issues[i].thread = d.issues[i].thread

\* Nothing is decided: an issue may come to wait for a decision.
Undecided(d, e) ==
  \A i \in DOMAIN d.issues :
    LET r == d.issues[i]
        s == e.issues[i] IN
    /\ s.status = r.status \/ (s.status = "waiting" /\ r.status # "resolved")
    /\ r.status = "resolved" => s.version = r.version /\ s.plan = r.plan

Stays(d, e, m) ==
  Consistent(e) /\ MessagesStay(d, e, m) /\ IssuesStay(d, e) /\ ThreadsStay(d, e)
Goes(d, e, m) == Stays(d, e, m) /\ Undecided(d, e)

\* One part of a transaction after the other.
LEMMA StaysOn ==
  ASSUME NEW d, NEW e, NEW f, NEW m, Consistent(d), Stays(d, e, m), Stays(e, f, m)
  PROVE  Stays(d, f, m)
<1>1. Len(d.outbox) \in Nat /\ Len(e.outbox) \in Nat /\ Len(f.outbox) \in Nat
      /\ DOMAIN d.inbox = 1 .. Len(d.inbox) /\ DOMAIN e.inbox = 1 .. Len(e.inbox)
  BY DEF Stays, Consistent, Tables
<1>2. MessagesStay(d, f, m)
  BY <1>1 DEF Stays, MessagesStay
<1>3. \A i \in DOMAIN d.issues :
        /\ i \in DOMAIN e.issues /\ i \in DOMAIN f.issues
        /\ d.issues[i] \in Issue /\ e.issues[i] \in Issue /\ f.issues[i] \in Issue
  BY DEF Stays, IssuesStay, Consistent, Tables
<1>4. ASSUME NEW i \in DOMAIN d.issues PROVE RowGoesOn(d.issues[i], f.issues[i])
  <2>1. RowGoesOn(d.issues[i], e.issues[i]) /\ RowGoesOn(e.issues[i], f.issues[i])
    BY <1>3 DEF Stays, IssuesStay
  <2>2. /\ d.issues[i].revision \in Nat /\ e.issues[i].revision \in Nat /\ f.issues[i].revision \in Nat
        /\ d.issues[i].children \in Nat /\ e.issues[i].children \in Nat /\ f.issues[i].children \in Nat
    BY <1>3 DEF Issue
  <2> QED BY <2>1, <2>2 DEF RowGoesOn
<1>5. \A i \in DOMAIN f.issues : i \notin DOMAIN d.issues => RowBegins(f.issues[i])
  BY DEF Stays, IssuesStay, ThreadsStay, RowBegins, RowGoesOn
<1>6. IssuesStay(d, f)
  BY <1>3, <1>4, <1>5 DEF IssuesStay
<1>7. ThreadsStay(d, f)
  BY <1>3 DEF Stays, ThreadsStay
<1> QED BY <1>2, <1>6, <1>7 DEF Stays

LEMMA GoesOn ==
  ASSUME NEW d, NEW e, NEW f, NEW m, Consistent(d), Goes(d, e, m), Goes(e, f, m)
  PROVE  Goes(d, f, m)
<1>1. Stays(d, f, m)
  BY StaysOn DEF Goes
<1>2. \A i \in DOMAIN d.issues : i \in DOMAIN e.issues
  BY DEF Goes, Stays, IssuesStay
<1>3. Undecided(d, f)
  BY <1>2 DEF Goes, Undecided
<1> QED BY <1>1, <1>3 DEF Goes

\* A transaction that changes nothing.
LEMMA GoesNowhere ==
  ASSUME NEW d, NEW m, Consistent(d)
  PROVE  Goes(d, d, m)
<1>1. Len(d.outbox) \in Nat /\ \A i \in DOMAIN d.issues : d.issues[i] \in Issue
  BY DEF Consistent, Tables
<1>2. \A i \in DOMAIN d.issues : d.issues[i].revision \in Nat /\ d.issues[i].children \in Nat
  BY <1>1 DEF Issue
<1> QED
  BY <1>1, <1>2 DEF Goes, Stays, MessagesStay, IssuesStay, ThreadsStay, Undecided, RowGoesOn

-----------------------------------------------------------------------------
(* Changes of one table. *)

\* A part that changes neither messages nor issues nor conversations.
LEMMA Elsewhere ==
  ASSUME NEW d, NEW e, NEW m, Consistent(d), Tables(e), e.inbox = d.inbox, e.issues = d.issues,
         e.chats = d.chats, Len(d.outbox) <= Len(e.outbox), d.buttons \subseteq e.buttons
  PROVE  Goes(d, e, m)
<1>1. Consistent(e)
  BY DEF Consistent, Bound, Named, Child, Revised
<1>2. \A i \in DOMAIN d.issues : d.issues[i].revision \in Nat /\ d.issues[i].children \in Nat
  BY DEF Consistent, Tables, Issue
<1> QED
  BY <1>1, <1>2 DEF Goes, Stays, MessagesStay, IssuesStay, ThreadsStay, Undecided, RowGoesOn

\* A message's row changes.
LEMMA NewRow ==
  ASSUME NEW d, NEW m \in DOMAIN d.inbox, NEW r \in Message, Consistent(d),
         r.issue \in (DOMAIN d.issues) \cup {None},
         r.status = "pending" => r.attempts < Attempts
  PROVE  LET e == [d EXCEPT !.inbox[m] = r] IN
         /\ Consistent(e)
         /\ e.inbox = [d.inbox EXCEPT ![m] = r] /\ e.outbox = d.outbox /\ e.issues = d.issues
         /\ e.active = d.active /\ e.mode = d.mode /\ e.chats = d.chats
         /\ e.buttons = d.buttons /\ e.used = d.used /\ e.seen = d.seen
<1> DEFINE x == [d.inbox EXCEPT ![m] = r]
           e == [d EXCEPT !.inbox[m] = r]
<1>1. d.inbox \in Seq(Message) /\ DOMAIN d.inbox = 1 .. Len(d.inbox)
  BY DEF Consistent, Tables
<1>2. x \in Seq(Message) /\ Len(x) = Len(d.inbox) /\ DOMAIN x = DOMAIN d.inbox
      /\ x[m] = r /\ \A k \in DOMAIN d.inbox : k # m => x[k] = d.inbox[k]
  BY <1>1
<1>3. /\ DOMAIN e = DOMAIN d /\ e.issues = d.issues /\ e.inbox = x /\ e.outbox = d.outbox
      /\ e.active = d.active /\ e.mode = d.mode /\ e.chats = d.chats
      /\ e.buttons = d.buttons /\ e.used = d.used /\ e.seen = d.seen
  BY DEF Consistent, Tables
<1> HIDE DEF e, x
<1>4. Tables(e)
  BY <1>2, <1>3 DEF Consistent, Tables
<1>5. Bound(e)
  BY <1>2, <1>3 DEF Consistent, Bound
<1>6. Named(e) /\ Revised(e)
  BY <1>2, <1>3 DEF Consistent, Named, Child, Revised
<1>7. Consistent(e)
  BY <1>4, <1>5, <1>6 DEF Consistent
<1> QED BY <1>3, <1>7 DEF e, x

\* One that stays where it was, or is done with.
LEMMA MessageGoes ==
  ASSUME NEW d, NEW m \in DOMAIN d.inbox, NEW r \in Message, Consistent(d),
         r.issue \in (DOMAIN d.issues) \cup {None},
         r.status \in {d.inbox[m].status, "done"},
         r.attempts = d.inbox[m].attempts, r.place = d.inbox[m].place, r.ask = d.inbox[m].ask
  PROVE  Goes(d, [d EXCEPT !.inbox[m] = r], m)
<1> DEFINE e == [d EXCEPT !.inbox[m] = r]
<1>1. r.status = "pending" => r.attempts < Attempts
  BY DEF Consistent, Bound
<1>2. /\ Consistent(e) /\ e.inbox = [d.inbox EXCEPT ![m] = r] /\ e.outbox = d.outbox
      /\ e.issues = d.issues /\ e.chats = d.chats /\ e.buttons = d.buttons
  BY <1>1, NewRow
<1> HIDE DEF e
<1>3. d.inbox \in Seq(Message) /\ Len(d.outbox) \in Nat
      /\ \A i \in DOMAIN d.issues : d.issues[i].revision \in Nat /\ d.issues[i].children \in Nat
  BY DEF Consistent, Tables, Issue
<1>4. MessagesStay(d, e, m)
  BY <1>2, <1>3 DEF MessagesStay
<1> QED
  <2>1. Goes(d, e, m)
    BY <1>2, <1>3, <1>4 DEF Goes, Stays, IssuesStay, ThreadsStay, Undecided, RowGoesOn
  <2> QED BY <2>1 DEF e

\* An issue's row changes.
LEMMA IssueChanges ==
  ASSUME NEW d, NEW i \in DOMAIN d.issues, NEW r \in Issue, Consistent(d),
         d.issues[i].children <= r.children, r.revision >= 1, r.synced <= r.revision
  PROVE  LET e == [d EXCEPT !.issues[i] = r] IN
         /\ Consistent(e)
         /\ e.issues = [d.issues EXCEPT ![i] = r] /\ e.inbox = d.inbox /\ e.outbox = d.outbox
         /\ e.active = d.active /\ e.mode = d.mode /\ e.chats = d.chats
         /\ e.buttons = d.buttons /\ e.used = d.used /\ e.seen = d.seen
<1> DEFINE x == [d.issues EXCEPT ![i] = r]
           e == [d EXCEPT !.issues[i] = r]
<1>1. d.issues \in [DOMAIN d.issues -> Issue]
  BY DEF Consistent, Tables
<1>2. x \in [DOMAIN d.issues -> Issue] /\ DOMAIN x = DOMAIN d.issues
      /\ x[i] = r /\ \A j \in DOMAIN d.issues : j # i => x[j] = d.issues[j]
  BY <1>1
<1>3. /\ DOMAIN e = DOMAIN d /\ e.issues = x /\ e.inbox = d.inbox /\ e.outbox = d.outbox
      /\ e.active = d.active /\ e.mode = d.mode /\ e.chats = d.chats
      /\ e.buttons = d.buttons /\ e.used = d.used /\ e.seen = d.seen
  BY DEF Consistent, Tables
<1> HIDE DEF e, x
<1>4. Tables(e)
  BY <1>2, <1>3 DEF Consistent, Tables
<1>5. Bound(e) /\ Revised(e)
  BY <1>2, <1>3 DEF Consistent, Bound, Revised
<1>6. Named(e)
  <2>1. ASSUME NEW p \in DOMAIN d.issues, NEW k \in 1 .. d.issues[p].children
        PROVE  k \in 1 .. x[p].children
    <3>1. d.issues[p].children \in Nat /\ x[p].children \in Nat
          /\ d.issues[p].children <= x[p].children
      BY <1>1, <1>2 DEF Issue
    <3> QED BY <3>1
  <2>2. \A j \in DOMAIN d.issues : Child(d, j) => Child(e, j)
    BY <1>2, <1>3, <2>1 DEF Child
  <2> QED BY <1>2, <1>3, <2>2 DEF Consistent, Named
<1>7. Consistent(e)
  BY <1>4, <1>5, <1>6 DEF Consistent
<1> QED BY <1>3, <1>7 DEF e, x

LEMMA IssueGoes ==
  ASSUME NEW d, NEW i \in DOMAIN d.issues, NEW r \in Issue, NEW m, Consistent(d),
         RowGoesOn(d.issues[i], r), r.thread = d.issues[i].thread,
         r.status = d.issues[i].status \/ (r.status = "waiting" /\ d.issues[i].status # "resolved"),
         d.issues[i].status = "resolved" =>
           r.version = d.issues[i].version /\ r.plan = d.issues[i].plan
  PROVE  Goes(d, [d EXCEPT !.issues[i] = r], m)
<1> DEFINE e == [d EXCEPT !.issues[i] = r]
<1>1. /\ d.issues \in [DOMAIN d.issues -> Issue] /\ Len(d.outbox) \in Nat
      /\ d.issues[i] \in Issue
      /\ \A j \in DOMAIN d.issues : d.issues[j].revision \in Nat /\ d.issues[j].children \in Nat
  BY DEF Consistent, Tables, Issue
<1>2. r.revision >= 1 /\ r.synced <= r.revision
  <2>1. /\ d.issues[i].revision \in Nat /\ d.issues[i].synced \in Nat /\ r.revision \in Nat
        /\ d.issues[i].revision >= 1 /\ d.issues[i].synced <= d.issues[i].revision
    BY <1>1 DEF Issue, Consistent, Revised
  <2> QED BY <2>1 DEF RowGoesOn
<1>3. /\ Consistent(e) /\ e.issues = [d.issues EXCEPT ![i] = r] /\ e.inbox = d.inbox
      /\ e.outbox = d.outbox /\ e.chats = d.chats /\ e.buttons = d.buttons
  BY <1>2, IssueChanges DEF RowGoesOn
<1> HIDE DEF e
<1>4. DOMAIN e.issues = DOMAIN d.issues /\ e.issues[i] = r
      /\ \A j \in DOMAIN d.issues : j # i => e.issues[j] = d.issues[j]
  BY <1>1, <1>3
<1>5. IssuesStay(d, e)
  BY <1>1, <1>4 DEF IssuesStay, RowGoesOn
<1>6. MessagesStay(d, e, m) /\ ThreadsStay(d, e) /\ Undecided(d, e)
  BY <1>1, <1>3, <1>4 DEF MessagesStay, ThreadsStay, Undecided
<1> QED BY <1>3, <1>5, <1>6 DEF Goes, Stays, e

-----------------------------------------------------------------------------
(* Replies and cards. *)

\* A reply is queued once, and then there is one.
LEMMA RepliedGoes ==
  ASSUME NEW d, NEW m \in DOMAIN d.inbox, NEW part \in Part, Consistent(d)
  PROVE  LET e == Replied(d, m, part) IN
         /\ Goes(d, e, m) /\ e.issues = d.issues /\ e.inbox = d.inbox
         /\ e.active = d.active /\ e.chats = d.chats
         /\ Rows(e, m, part) # {} /\ Rows(e, m, part) \subseteq Nat
<1> DEFINE r == [message |-> m, part |-> part, sent |-> FALSE, due |-> TRUE]
           e == Replied(d, m, part)
<1>1. /\ d.inbox \in Seq(Message) /\ d.outbox \in Seq(Reply) /\ m \in Nat
      /\ DOMAIN d.outbox = 1 .. Len(d.outbox) /\ Len(d.outbox) \in Nat
  BY DEF Consistent, Tables
<1>2. CASE Rows(d, m, part) # {}
  <2>1. e = d
    BY <1>2 DEF Replied
  <2>2. Rows(d, m, part) \subseteq Nat
    BY <1>1 DEF Rows
  <2> QED BY <1>2, <2>1, <2>2, GoesNowhere
<1>3. CASE Rows(d, m, part) = {}
  <2>1. e = [d EXCEPT !.outbox = Append(d.outbox, r)]
    BY <1>3 DEF Replied
  <2>2. r \in Reply
    BY <1>1 DEF Reply
  <2>3. /\ Append(d.outbox, r) \in Seq(Reply) /\ Len(Append(d.outbox, r)) = Len(d.outbox) + 1
        /\ DOMAIN Append(d.outbox, r) = 1 .. (Len(d.outbox) + 1)
        /\ Append(d.outbox, r)[Len(d.outbox) + 1] = r
    BY <1>1, <2>2
  <2>4. /\ DOMAIN e = DOMAIN d /\ e.issues = d.issues /\ e.inbox = d.inbox
        /\ e.outbox = Append(d.outbox, r)
        /\ e.active = d.active /\ e.mode = d.mode /\ e.chats = d.chats
        /\ e.buttons = d.buttons /\ e.used = d.used /\ e.seen = d.seen
    BY <2>1 DEF Consistent, Tables
  <2>5. Len(d.outbox) + 1 \in DOMAIN e.outbox /\ e.outbox[Len(d.outbox) + 1] = r
        /\ DOMAIN e.outbox \subseteq Nat
    BY <1>1, <2>3, <2>4
  <2>6. r.message = m /\ r.part = part
    OBVIOUS
  <2> HIDE DEF e, r
  <2>7. Tables(e) /\ Len(d.outbox) <= Len(e.outbox)
    BY <1>1, <2>3, <2>4 DEF Consistent, Tables
  <2>8. Goes(d, e, m)
    BY <2>4, <2>7, Elsewhere
  <2>9. Len(d.outbox) + 1 \in Rows(e, m, part) /\ Rows(e, m, part) \subseteq Nat
    BY <2>5, <2>6 DEF Rows
  <2> QED BY <2>4, <2>8, <2>9 DEF e
<1> QED BY <1>2, <1>3

\* Buttons of a card say what a button may say.
Acts == [op : Commands, options : SUBSET (IssueId \cup {None}), version : Nat \cup {None}]

LEMMA ActsAreActs ==
  ASSUME NEW op \in Commands, NEW options, options \subseteq IssueId \cup {None}
  PROVE  Act(op, options, None) \in Acts /\ Plain(op) \in Acts
BY DEF Act, Plain, Acts

LEMMA CardGoes ==
  ASSUME NEW d, NEW m \in DOMAIN d.inbox, NEW part \in Part, NEW acts, acts \subseteq Acts,
         Consistent(d)
  PROVE  LET e == ActionCard(d, m, part, acts) IN
         Goes(d, e, m) /\ e.issues = d.issues /\ e.inbox = d.inbox
<1> DEFINE r == Replied(d, m, part)
           n == Least(Rows(r, m, part))
           Drawn(b) == [row |-> n, place |-> d.inbox[m].place, op |-> b.op,
                        options |-> b.options, version |-> b.version]
           new == {Drawn(b) : b \in acts}
           e == [r EXCEPT !.buttons = r.buttons \cup new]
<1>1. /\ Goes(d, r, m) /\ r.issues = d.issues /\ r.inbox = d.inbox
      /\ Rows(r, m, part) # {} /\ Rows(r, m, part) \subseteq Nat
  BY RepliedGoes
<1>2. n \in Nat
  BY <1>1, LeastIsLeast
<1>3. d.inbox[m].place \in Places
  <2>1. d.inbox[m] \in Message
    BY DEF Consistent, Tables
  <2> QED BY <2>1 DEF Message
<1>4. Consistent(r)
  BY <1>1 DEF Goes, Stays
<1> HIDE DEF r, n
<1>5. new \subseteq Button
  <2>1. ASSUME NEW b \in acts PROVE Drawn(b) \in Button
    BY <1>2, <1>3 DEF Acts, Button
  <2> QED BY <2>1
<1> HIDE DEF new
<1>6. /\ DOMAIN e = DOMAIN r /\ e.issues = r.issues /\ e.inbox = r.inbox /\ e.outbox = r.outbox
      /\ e.active = r.active /\ e.mode = r.mode /\ e.chats = r.chats
      /\ e.buttons = r.buttons \cup new /\ e.used = r.used /\ e.seen = r.seen
  BY <1>4 DEF Consistent, Tables
<1>7. ActionCard(d, m, part, acts) = e
  BY DEF ActionCard, r, n, new
<1> HIDE DEF e
<1>8. Tables(e) /\ Len(r.outbox) <= Len(e.outbox)
  BY <1>4, <1>5, <1>6 DEF Consistent, Tables
<1>9. Goes(r, e, m)
  BY <1>4, <1>6, <1>8, Elsewhere
<1>10. Goes(d, e, m)
  BY <1>1, <1>9, GoesOn
<1> QED BY <1>1, <1>6, <1>7, <1>10

LEMMA MenuGoes ==
  ASSUME NEW d, NEW m \in DOMAIN d.inbox, Consistent(d)
  PROVE  Goes(d, Menu(d, m), m)
<1>1. {Plain("report"), Plain("select"), Plain("chat")} \subseteq Acts
  BY DEF Plain, Act, Acts, Commands
<1>2. <<"menu", 0>> \in Part
  BY DEF Part
<1> QED BY <1>1, <1>2, CardGoes DEF Menu

LEMMA IssueCardGoes ==
  ASSUME NEW d, NEW m \in DOMAIN d.inbox, NEW i \in DOMAIN d.issues, NEW part \in Part,
         Consistent(d)
  PROVE  LET e == IssueCard(d, m, i, part) IN
         Goes(d, e, m) /\ e.issues = d.issues /\ e.inbox = d.inbox
<1> DEFINE issue == d.issues[i]
           acts == CASE issue.status = "waiting" /\ SenderOf(d, m) = issue.reporter ->
                          {Act("confirm", {i}, issue.version), Act("reopen", {i}, issue.version)}
                     [] issue.status = "resolved" -> {}
                     [] OTHER -> {Act("use", {i}, None)}
           all == acts \cup {Act("sub", {i}, None), Plain("new")}
<1>1. i \in IssueId /\ issue.version \in Nat
  BY DEF Consistent, Tables, Issue
<1>2. all \subseteq Acts
  BY <1>1 DEF Plain, Act, Acts, Commands
<1>3. IssueCard(d, m, i, part) = ActionCard(d, m, part, all)
  BY DEF IssueCard
<1> HIDE DEF all
<1> QED BY <1>2, <1>3, CardGoes

-----------------------------------------------------------------------------
(* Messages and issues. *)

LEMMA RowTypes ==
  ASSUME NEW d, Consistent(d)
  PROVE  /\ \A m \in DOMAIN d.inbox :
              /\ d.inbox[m] \in Message /\ m \in Nat
              /\ d.inbox[m].place \in Places /\ d.inbox[m].attempts \in 0 .. Attempts
              /\ d.inbox[m].issue \in (DOMAIN d.issues) \cup {None}
              /\ d.inbox[m].status \in {"pending", "running", "done"}
              /\ SenderOf(d, m) \in Users
         /\ \A i \in DOMAIN d.issues :
              /\ d.issues[i] \in Issue /\ i \in IssueId /\ i # None
              /\ d.issues[i].revision \in Nat /\ d.issues[i].children \in Nat
              /\ d.issues[i].synced \in Nat /\ d.issues[i].version \in Nat
              /\ d.issues[i].status \in Status /\ d.issues[i].plan \in Plans \cup {None}
              /\ d.issues[i].thread \in Threads \cup {None} /\ d.issues[i].reporter \in Users
<1>1. d.inbox \in Seq(Message) /\ d.issues \in [DOMAIN d.issues -> Issue]
      /\ DOMAIN d.issues \subseteq IssueId /\ DOMAIN d.inbox = 1 .. Len(d.inbox)
  BY DEF Consistent, Tables
<1>2. ASSUME NEW m \in DOMAIN d.inbox
      PROVE  d.inbox[m] \in Message /\ m \in Nat
  BY <1>1
<1>3. ASSUME NEW m \in DOMAIN d.inbox
      PROVE  /\ d.inbox[m].place \in Places /\ d.inbox[m].attempts \in 0 .. Attempts
             /\ d.inbox[m].issue \in (DOMAIN d.issues) \cup {None}
             /\ d.inbox[m].status \in {"pending", "running", "done"}
             /\ SenderOf(d, m) \in Users
  BY <1>2 DEF Message, Consistent, Bound, SenderOf, Users
<1>4. ASSUME NEW i \in DOMAIN d.issues PROVE d.issues[i] \in Issue /\ i \in IssueId /\ i # None
  BY <1>1, Constants
<1> QED BY <1>2, <1>3, <1>4 DEF Issue

LEMMA TouchedGoes ==
  ASSUME NEW d, NEW i \in DOMAIN d.issues, NEW m, Consistent(d)
  PROVE  /\ Goes(d, Touched(d, i), m)
         /\ Touched(d, i).inbox = d.inbox /\ Touched(d, i).active = d.active
<1> DEFINE r == [d.issues[i] EXCEPT !.revision = d.issues[i].revision + 1]
<1>1. d.issues[i] \in Issue /\ d.issues[i].revision \in Nat /\ d.issues[i].children \in Nat
  BY RowTypes
<1>2. r \in Issue /\ r.revision = d.issues[i].revision + 1
      /\ r.reporter = d.issues[i].reporter /\ r.synced = d.issues[i].synced
      /\ r.known = d.issues[i].known /\ r.children = d.issues[i].children
      /\ r.thread = d.issues[i].thread /\ r.status = d.issues[i].status
      /\ r.version = d.issues[i].version /\ r.plan = d.issues[i].plan
  BY <1>1 DEF Issue
<1>3. Touched(d, i) = [d EXCEPT !.issues[i] = r]
  BY DEF Touched
<1> HIDE DEF r
<1>4. RowGoesOn(d.issues[i], r)
  BY <1>1, <1>2 DEF RowGoesOn
<1>5. Goes(d, [d EXCEPT !.issues[i] = r], m)
  BY <1>2, <1>4, IssueGoes
<1>6. Touched(d, i).inbox = d.inbox /\ Touched(d, i).active = d.active
  BY DEF Touched, Consistent, Tables
<1> QED BY <1>3, <1>5, <1>6

\* What is said to the reporter is said in one of his own messages' threads.
LEMMA NotifyGoes ==
  ASSUME NEW d, NEW i \in DOMAIN d.issues, NEW m, Consistent(d)
  PROVE  LET e == NotifyReporter(d, i) IN
         Goes(d, e, m) /\ e.inbox = d.inbox /\ e.issues = d.issues
<1> DEFINE own == {k \in DOMAIN d.inbox :
                     d.inbox[k].issue = i /\ SenderOf(d, k) = d.issues[i].reporter}
           n == Greatest(own)
           rev == d.issues[i].revision
           r == Replied(d, n, <<"notice", rev>>)
           e == NotifyReporter(d, i)
<1>1. CASE own = {}
  <2>1. e = d
    BY <1>1 DEF NotifyReporter
  <2> QED BY <2>1, GoesNowhere
<1>2. CASE own # {}
  <2>1. DOMAIN d.inbox = 1 .. Len(d.inbox) /\ Len(d.inbox) \in Nat
    BY DEF Consistent, Tables
  <2>2. n \in DOMAIN d.inbox
    <3> HIDE DEF n
    <3>1. own \subseteq 1 .. Len(d.inbox)
      BY <2>1
    <3> HIDE DEF own
    <3>2. Greatest(own) \in own
      BY <1>2, <2>1, <3>1, GreatestIsGreatest
    <3> QED BY <2>1, <3>1, <3>2 DEF n
  <2>3. rev \in Nat
    BY RowTypes
  <2>4. <<"notice", rev>> \in Part /\ <<"notice card", rev>> \in Part
    BY <2>3 DEF Part
  <2>5. e = IssueCard(r, n, i, <<"notice card", rev>>)
    BY <1>2 DEF NotifyReporter
  <2> HIDE DEF e, n, own, rev
  <2>6. Goes(d, r, n) /\ r.issues = d.issues /\ r.inbox = d.inbox
    BY <2>2, <2>4, RepliedGoes
  <2>7. Consistent(r) /\ n \in DOMAIN r.inbox /\ i \in DOMAIN r.issues
    BY <2>2, <2>6 DEF Goes, Stays
  <2> HIDE DEF r
  <2>8. Goes(r, e, n) /\ e.issues = r.issues /\ e.inbox = r.inbox
    BY <2>4, <2>5, <2>7, IssueCardGoes
  <2>9. Goes(d, e, n)
    BY <2>6, <2>8, GoesOn
  <2>10. Goes(d, e, m)
    BY <2>6, <2>8, <2>9 DEF Goes, Stays, MessagesStay
  <2> QED BY <2>6, <2>8, <2>10 DEF e
<1> QED BY <1>1, <1>2

LEMMA BindGoes ==
  ASSUME NEW d, NEW m \in DOMAIN d.inbox, NEW i \in (DOMAIN d.issues) \cup {None},
         NEW kind \in {"chat", "command", "question"}, Consistent(d)
  PROVE  LET e == Bind(d, m, i, kind) IN
         /\ Goes(d, e, m) /\ e.issues = d.issues /\ e.active = d.active
         /\ e.inbox[m].issue = i /\ e.inbox[m].status = d.inbox[m].status
<1> DEFINE r == [d.inbox[m] EXCEPT !.issue = i, !.kind = kind]
           e == [d EXCEPT !.inbox[m] = r]
<1>1. d.inbox[m] \in Message /\ DOMAIN d.issues \subseteq IssueId /\ d.inbox \in Seq(Message)
  BY RowTypes DEF Consistent, Tables
<1>2. r \in Message /\ r.issue = i /\ r.status = d.inbox[m].status
      /\ r.attempts = d.inbox[m].attempts /\ r.place = d.inbox[m].place
      /\ r.ask = d.inbox[m].ask
  BY <1>1 DEF Message
<1>3. Bind(d, m, i, kind) = e
  BY <1>1 DEF Bind, Consistent, Tables
<1>4. e.issues = d.issues /\ e.active = d.active /\ e.inbox[m] = r
  BY <1>1 DEF Consistent, Tables
<1> HIDE DEF r
<1>5. Goes(d, e, m)
  BY <1>2, MessageGoes
<1> QED BY <1>2, <1>3, <1>4, <1>5

\* A place has another active issue, or mode.
Placed(d, p, i, mode) == [d EXCEPT !.active[p] = i, !.mode[p] = mode]

LEMMA PlaceGoes ==
  ASSUME NEW d, NEW p \in Places, NEW i \in (DOMAIN d.issues) \cup {None},
         NEW mode \in {"choose", "chat", None}, NEW m, Consistent(d)
  PROVE  LET e == Placed(d, p, i, mode) IN
         Goes(d, e, m) /\ e.issues = d.issues /\ e.inbox = d.inbox
<1> DEFINE e == [d EXCEPT !.active[p] = i, !.mode[p] = mode]
<1>1. /\ DOMAIN e = DOMAIN d /\ e.issues = d.issues /\ e.inbox = d.inbox /\ e.outbox = d.outbox
      /\ e.active = [d.active EXCEPT ![p] = i] /\ e.mode = [d.mode EXCEPT ![p] = mode]
      /\ e.chats = d.chats /\ e.buttons = d.buttons /\ e.used = d.used /\ e.seen = d.seen
  BY DEF Consistent, Tables
<1> HIDE DEF e
<1>2. e.active \in [Places -> (DOMAIN e.issues) \cup {None}]
      /\ e.mode \in [Places -> {"choose", "chat", None}]
  BY <1>1 DEF Consistent, Tables
<1>3. Tables(e) /\ Len(d.outbox) <= Len(e.outbox)
  BY <1>1, <1>2 DEF Consistent, Tables
<1>4. Goes(d, e, m)
  BY <1>1, <1>3, Elsewhere
<1> QED BY <1>1, <1>4 DEF e, Placed

LEMMA ModeGoes ==
  ASSUME NEW d, NEW m \in DOMAIN d.inbox, NEW mode \in {"choose", "chat"}, Consistent(d)
  PROVE  LET e == ChooseMode(d, m, mode) IN
         Goes(d, e, m) /\ e.issues = d.issues /\ e.inbox = d.inbox
<1> DEFINE p == d.inbox[m].place
<1>1. p \in Places
  BY RowTypes
<1> DEFINE e == Placed(d, p, None, mode)
<1>2. ChooseMode(d, m, mode) = e
  BY DEF ChooseMode, Placed
<1>3. None \in (DOMAIN d.issues) \cup {None} /\ mode \in {"choose", "chat", None}
  OBVIOUS
<1> HIDE DEF p
<1>4. Goes(d, e, m) /\ e.issues = d.issues /\ e.inbox = d.inbox
  BY <1>1, <1>3, PlaceGoes
<1> HIDE DEF e
<1> QED BY <1>2, <1>4

LEMMA ActivateGoes ==
  ASSUME NEW d, NEW m \in DOMAIN d.inbox, NEW i \in DOMAIN d.issues, Consistent(d)
  PROVE  LET e == Activate(d, m, i) IN
         Goes(d, e, m) /\ e.issues = d.issues /\ e.inbox = d.inbox
<1> DEFINE p == d.inbox[m].place
<1>1. p \in Places
  BY RowTypes
<1> DEFINE e == Placed(d, p, i, None)
<1>2. Activate(d, m, i) = e
  BY DEF Activate, Placed
<1>3. i \in (DOMAIN d.issues) \cup {None} /\ None \in {"choose", "chat", None}
  OBVIOUS
<1> HIDE DEF p
<1>4. Goes(d, e, m) /\ e.issues = d.issues /\ e.inbox = d.inbox
  BY <1>1, <1>3, PlaceGoes
<1> HIDE DEF e
<1> QED BY <1>2, <1>4

\* A message is done with, and what was kept in its session is kept.
LEMMA FinishGoes ==
  ASSUME NEW d, NEW m \in DOMAIN d.inbox, Consistent(d)
  PROVE  LET e == Finish(d, m, None) IN
         /\ Goes(d, e, m) /\ e.inbox[m].status = "done"
         /\ e.inbox[m].issue = d.inbox[m].issue /\ DOMAIN e.issues = DOMAIN d.issues
<1> DEFINE i == d.inbox[m].issue
           r == [d.inbox[m] EXCEPT !.status = "done"]
           done == [d EXCEPT !.inbox[m] = r]
           kept == IF i = None THEN done ELSE Touched(done, i)
           e == Replied(kept, m, <<"answer", 0>>)
<1>1. d.inbox[m] \in Message /\ i \in (DOMAIN d.issues) \cup {None} /\ d.inbox \in Seq(Message)
  BY RowTypes DEF Consistent, Tables
<1>2. r \in Message /\ r.issue = i /\ r.status = "done" /\ r.attempts = d.inbox[m].attempts
      /\ r.place = d.inbox[m].place /\ r.ask = d.inbox[m].ask
  BY <1>1 DEF Message
<1>3. Finish(d, m, None) = e
  BY DEF Finish
<1>4. done.inbox = [d.inbox EXCEPT ![m] = r] /\ done.issues = d.issues
  <2> HIDE DEF r
  <2>1. {"inbox", "issues"} \subseteq DOMAIN d
    BY DEF Consistent, Tables
  <2> QED BY <2>1
<1>5. done.inbox[m] = r /\ m \in DOMAIN done.inbox
  BY <1>1, <1>4
<1> HIDE DEF r
<1>6. Goes(d, done, m)
  BY <1>1, <1>2, MessageGoes
<1> HIDE DEF done, i
<1>7. Consistent(done)
  BY <1>6 DEF Goes, Stays
<1>8. Goes(done, kept, m) /\ kept.inbox = done.inbox /\ DOMAIN kept.issues = DOMAIN done.issues
  <2>1. CASE i = None
    BY <1>7, <2>1, GoesNowhere
  <2>2. CASE i # None
    <3>1. i \in DOMAIN done.issues
      BY <1>1, <1>4, <2>2
    <3>2. DOMAIN Touched(done, i).issues = DOMAIN done.issues
      BY <1>7 DEF Touched, Consistent, Tables
    <3> QED BY <1>7, <2>2, <3>1, <3>2, TouchedGoes
  <2> QED BY <2>1, <2>2
<1>9. Goes(d, kept, m)
  BY <1>6, <1>8, GoesOn
<1>10. Consistent(kept) /\ m \in DOMAIN kept.inbox
  BY <1>5, <1>8 DEF Goes, Stays
<1>11. <<"answer", 0>> \in Part
  BY DEF Part
<1> HIDE DEF kept
<1>12. Goes(kept, e, m) /\ e.issues = kept.issues /\ e.inbox = kept.inbox
  BY <1>10, <1>11, RepliedGoes
<1>13. Goes(d, e, m)
  BY <1>9, <1>12, GoesOn
<1> QED BY <1>2, <1>3, <1>4, <1>5, <1>8, <1>12, <1>13 DEF i

-----------------------------------------------------------------------------
(* A new issue. *)

LEMMA AppendTells ==
  ASSUME NEW p \in IssueId, NEW q \in IssueId, NEW k \in Nat, NEW l \in Nat
  PROVE  /\ Append(p, k) \in IssueId
         /\ Append(p, k) = Append(q, l) => p = q /\ k = l
         /\ p # << >> => \A n : Append(p, k) # <<n>>
         /\ Append(p, k) # << >> /\ <<k>> \in IssueId /\ <<k>> # << >>
<1>1. p \in Seq(Nat) /\ q \in Seq(Nat)
  BY DEF IssueId
<1>2. Append(p, k) \in Seq(Nat) /\ <<k>> \in Seq(Nat)
  BY <1>1
<1>3. Len(Append(p, k)) = Len(p) + 1 /\ Len(p) \in Nat
  BY <1>1
<1>4. Append(p, k) # << >> /\ <<k>> # << >>
  BY <1>3
<1>5. ASSUME p # << >>, NEW n, Append(p, k) = <<n>> PROVE FALSE
  <2>1. Len(p) # 0
    BY <1>1, <1>5, EmptySeq
  <2>2. Len(<<n>>) = 1
    OBVIOUS
  <2> QED BY <1>3, <1>5, <2>1, <2>2
<1>6. Append(p, k) = Append(q, l) => p = q /\ k = l
  BY <1>1, AppendInjective
<1> QED BY <1>2, <1>4, <1>5, <1>6 DEF IssueId

LEMMA IdsAreSequences ==
  ASSUME NEW d, Consistent(d), NEW i \in DOMAIN d.issues
  PROVE  i \in IssueId /\ i # << >>
<1>1. DOMAIN d.issues \subseteq IssueId /\ DOMAIN d.inbox = 1 .. Len(d.inbox)
      /\ \A p \in DOMAIN d.issues : d.issues[p].children \in Nat
  <2>1. Tables(d)
    BY DEF Consistent
  <2>2. DOMAIN d.inbox = 1 .. Len(d.inbox)
    BY <2>1 DEF Tables
  <2>3. DOMAIN d.issues \subseteq IssueId
    BY <2>1 DEF Tables
  <2>4. \A p \in DOMAIN d.issues : d.issues[p].children \in Nat
    BY RowTypes
  <2> QED BY <2>2, <2>3, <2>4
<1>2. CASE \E n \in DOMAIN d.inbox : i = <<n>>
  BY <1>1, <1>2
<1>3. CASE Child(d, i)
  <2>1. PICK p \in DOMAIN d.issues : \E k \in 1 .. d.issues[p].children : i = Append(p, k)
    BY <1>3 DEF Child
  <2>2. PICK k \in 1 .. d.issues[p].children : i = Append(p, k)
    BY <2>1
  <2> QED BY <1>1, <2>2, AppendTells
<1> QED BY <1>1, <1>2, <1>3 DEF Consistent, Named

\* The id of a new issue is new.
LEMMA IdIsNew ==
  ASSUME NEW d, NEW m \in DOMAIN d.inbox, NEW parent \in (DOMAIN d.issues) \cup {None},
         Consistent(d), <<m>> \notin DOMAIN d.issues
  PROVE  /\ IdFor(d, m, parent) \in IssueId /\ IdFor(d, m, parent) \notin DOMAIN d.issues
         /\ parent = None => IdFor(d, m, parent) = <<m>>
         /\ parent # None => IdFor(d, m, parent) = Append(parent, d.issues[parent].children + 1)
<1>1. CASE parent = None
  <2>1. m \in Nat
    BY RowTypes
  <2>2. <<m>> \in IssueId
    BY <2>1 DEF IssueId
  <2> QED BY <1>1, <2>2 DEF IdFor
<1>2. CASE parent # None
  <2> DEFINE c == d.issues[parent].children
             next == c + 1
             i == Append(parent, next)
  <2>1. parent \in DOMAIN d.issues /\ c \in Nat /\ next \in Nat /\ ~(next <= c)
    <3>1. parent \in DOMAIN d.issues /\ c \in Nat
      BY <1>2, RowTypes
    <3> QED BY <3>1
  <2>2. parent \in IssueId /\ parent # << >>
    BY <2>1, IdsAreSequences
  <2> HIDE DEF next
  <2>3. i \in IssueId /\ \A n : i # <<n>>
    BY <2>1, <2>2, AppendTells
  <2>4. ASSUME i \in DOMAIN d.issues PROVE FALSE
    <3>1. Child(d, i)
      BY <2>3, <2>4 DEF Consistent, Named
    <3>2. PICK p \in DOMAIN d.issues : \E k \in 1 .. d.issues[p].children : i = Append(p, k)
      BY <3>1 DEF Child
    <3>3. PICK k \in 1 .. d.issues[p].children : i = Append(p, k)
      BY <3>2
    <3>4. p \in IssueId /\ d.issues[p].children \in Nat
      BY RowTypes
    <3>5. k \in Nat /\ k <= d.issues[p].children
      BY <3>3, <3>4
    <3>6. p = parent /\ k = next
      BY <2>1, <2>2, <3>3, <3>4, <3>5, AppendTells
    <3> QED BY <2>1, <3>5, <3>6
  <2> QED BY <1>2, <2>3, <2>4 DEF IdFor, next
<1> QED BY <1>1, <1>2

LEMMA CountedGoes ==
  ASSUME NEW d, NEW m, NEW parent \in (DOMAIN d.issues) \cup {None}, Consistent(d)
  PROVE  LET e == Counted(d, parent) IN
         /\ Goes(d, e, m) /\ e.inbox = d.inbox /\ DOMAIN e.issues = DOMAIN d.issues
         /\ parent # None => e.issues[parent].children = d.issues[parent].children + 1
<1>1. CASE parent = None
  BY <1>1, GoesNowhere DEF Counted
<1>2. CASE parent # None
  <2> DEFINE r == [d.issues[parent] EXCEPT !.children = d.issues[parent].children + 1]
             e == [d EXCEPT !.issues[parent] = r]
  <2>1. parent \in DOMAIN d.issues /\ d.issues[parent] \in Issue
        /\ d.issues[parent].revision \in Nat /\ d.issues[parent].children \in Nat
    BY <1>2, RowTypes
  <2>2. r \in Issue /\ r.revision = d.issues[parent].revision
        /\ r.reporter = d.issues[parent].reporter /\ r.synced = d.issues[parent].synced
        /\ r.known = d.issues[parent].known
        /\ r.children = d.issues[parent].children + 1
        /\ r.thread = d.issues[parent].thread /\ r.status = d.issues[parent].status
        /\ r.version = d.issues[parent].version /\ r.plan = d.issues[parent].plan
    BY <2>1 DEF Issue
  <2>3. Counted(d, parent) = e
    BY <1>2 DEF Counted
  <2>4. e.inbox = d.inbox /\ DOMAIN e.issues = DOMAIN d.issues /\ e.issues[parent] = r
    BY <2>1 DEF Consistent, Tables
  <2> HIDE DEF r
  <2>5. RowGoesOn(d.issues[parent], r)
    BY <2>1, <2>2 DEF RowGoesOn
  <2>6. Goes(d, e, m)
    BY <2>1, <2>2, <2>5, IssueGoes
  <2> QED BY <2>2, <2>3, <2>4, <2>6
<1> QED BY <1>1, <1>2

\* A row is added to the issues.
WithIssue(d, i, r) ==
  [d EXCEPT !.issues = [j \in DOMAIN d.issues \cup {i} |-> IF j = i THEN r ELSE d.issues[j]]]

LEMMA WithIssueGoes ==
  ASSUME NEW d, NEW m, NEW i \in IssueId, NEW r \in Issue, Consistent(d),
         i \notin DOMAIN d.issues, RowBegins(r), r.revision = 1, r.children = 0,
         (\E n \in DOMAIN d.inbox : i = <<n>>) \/ Child(d, i)
  PROVE  LET e == WithIssue(d, i, r) IN
         Goes(d, e, m) /\ e.inbox = d.inbox /\ DOMAIN e.issues = DOMAIN d.issues \cup {i}
<1> DEFINE x == [j \in DOMAIN d.issues \cup {i} |-> IF j = i THEN r ELSE d.issues[j]]
           e == [d EXCEPT !.issues = x]
<1>1. d.issues \in [DOMAIN d.issues -> Issue] /\ DOMAIN d.issues \subseteq IssueId
  BY DEF Consistent, Tables
<1>2. /\ x \in [DOMAIN x -> Issue] /\ DOMAIN x = DOMAIN d.issues \cup {i} /\ x[i] = r
      /\ DOMAIN x \subseteq IssueId
      /\ \A j \in DOMAIN d.issues : x[j] = d.issues[j]
  BY <1>1
<1>3. /\ DOMAIN e = DOMAIN d /\ e.issues = x /\ e.inbox = d.inbox /\ e.outbox = d.outbox
      /\ e.active = d.active /\ e.mode = d.mode /\ e.chats = d.chats
      /\ e.buttons = d.buttons /\ e.used = d.used /\ e.seen = d.seen
  BY DEF Consistent, Tables
<1>4. WithIssue(d, i, r) = e
  BY DEF WithIssue
<1> HIDE DEF x, e
<1>5. Tables(e)
  <2>1. e.active \in [Places -> (DOMAIN e.issues) \cup {None}]
        /\ e.seen \subseteq (DOMAIN e.issues) \X Plans
    BY <1>2, <1>3 DEF Consistent, Tables
  <2> QED BY <1>2, <1>3, <2>1 DEF Consistent, Tables
<1>6. Bound(e)
  BY <1>2, <1>3 DEF Consistent, Bound
<1>7. Named(e)
  <2>1. \A j : Child(d, j) => Child(e, j)
    BY <1>2, <1>3 DEF Child
  <2> QED BY <1>2, <1>3, <2>1 DEF Consistent, Named
<1>8. Revised(e)
  BY <1>2, <1>3 DEF Consistent, Revised, RowBegins
<1>9. IssuesStay(d, e)
  <2>1. \A j \in DOMAIN d.issues : d.issues[j].revision \in Nat /\ d.issues[j].children \in Nat
    BY RowTypes
  <2> QED BY <1>2, <1>3, <2>1 DEF IssuesStay, RowGoesOn
<1>10. MessagesStay(d, e, m) /\ ThreadsStay(d, e) /\ Undecided(d, e)
  <2>1. Len(d.outbox) \in Nat
    BY DEF Consistent, Tables
  <2> QED BY <1>2, <1>3, <2>1 DEF MessagesStay, ThreadsStay, Undecided
<1>11. Goes(d, e, m)
  BY <1>5, <1>6, <1>7, <1>8, <1>9, <1>10 DEF Goes, Stays, Consistent
<1> QED BY <1>2, <1>3, <1>4, <1>11

\* create_issue: the message's place goes on in the new issue.
LEMMA CreateGoes ==
  ASSUME NEW d, NEW m \in DOMAIN d.inbox, NEW parent \in (DOMAIN d.issues) \cup {None},
         Consistent(d), <<m>> \notin DOMAIN d.issues
  PROVE  LET e == CreateIssue(d, m, parent)
             i == IdFor(d, m, parent) IN
         /\ Goes(d, e, m) /\ e.inbox = d.inbox /\ i \in DOMAIN e.issues
         /\ parent = None => i = <<m>>
<1> DEFINE i == IdFor(d, m, parent)
           c == Counted(d, parent)
           r == NewIssue(SenderOf(d, m), parent)
           made == WithIssue(c, i, r)
           e == Activate(made, m, i)
<1>1. /\ i \in IssueId /\ i \notin DOMAIN d.issues
      /\ parent = None => i = <<m>>
      /\ parent # None => i = Append(parent, d.issues[parent].children + 1)
  BY IdIsNew
<1>2. /\ Goes(d, c, m) /\ c.inbox = d.inbox /\ DOMAIN c.issues = DOMAIN d.issues
      /\ parent # None => c.issues[parent].children = d.issues[parent].children + 1
  BY CountedGoes
<1>3. r \in Issue /\ RowBegins(r) /\ r.revision = 1 /\ r.children = 0
  <2>1. SenderOf(d, m) \in Users /\ parent \in IssueId \cup {None}
    BY RowTypes
  <2> QED BY <2>1 DEF NewIssue, Issue, RowBegins, Status
<1>4. CreateIssue(d, m, parent) = e
  BY DEF CreateIssue, WithIssue
<1> HIDE DEF i, c, r
<1>5. Consistent(c) /\ i \notin DOMAIN c.issues /\ m \in DOMAIN c.inbox
  BY <1>1, <1>2 DEF Goes, Stays
<1>6. (\E n \in DOMAIN c.inbox : i = <<n>>) \/ Child(c, i)
  <2>1. CASE parent = None
    BY <1>1, <1>5, <2>1
  <2>2. CASE parent # None
    <3>1. parent \in DOMAIN d.issues /\ d.issues[parent].children \in Nat
      BY <2>2, RowTypes
    <3>2. d.issues[parent].children + 1 \in 1 .. c.issues[parent].children
      BY <1>2, <2>2, <3>1
    <3>3. parent \in DOMAIN c.issues
      BY <1>2, <3>1
    <3> QED BY <1>1, <2>2, <3>2, <3>3 DEF Child
  <2> QED BY <2>1, <2>2
<1>7. Goes(c, made, m) /\ made.inbox = c.inbox /\ DOMAIN made.issues = DOMAIN c.issues \cup {i}
  BY <1>1, <1>3, <1>5, <1>6, WithIssueGoes
<1> HIDE DEF made
<1>8. Goes(d, made, m)
  BY <1>2, <1>7, GoesOn
<1>9. Consistent(made) /\ m \in DOMAIN made.inbox /\ i \in DOMAIN made.issues
  BY <1>5, <1>7 DEF Goes, Stays
<1>10. Goes(made, e, m) /\ e.issues = made.issues /\ e.inbox = made.inbox
  BY <1>9, ActivateGoes
<1> HIDE DEF e
<1>11. Goes(d, e, m)
  BY <1>8, <1>10, GoesOn
<1> QED BY <1>1, <1>2, <1>4, <1>7, <1>9, <1>10, <1>11 DEF i

LEMMA QuestionGoes ==
  ASSUME NEW d, NEW m \in DOMAIN d.inbox, NEW i \in DOMAIN d.issues, Consistent(d)
  PROVE  LET e == QueueQuestion(d, m, i) IN
         /\ Goes(d, e, m) /\ DOMAIN e.issues = DOMAIN d.issues
         /\ e.inbox[m].status = d.inbox[m].status
<1> DEFINE b == Bind(d, m, i, "question")
           t == Touched(b, i)
           e == Replied(t, m, <<"ack", 0>>)
<1>1. Goes(d, b, m) /\ b.issues = d.issues /\ b.inbox[m].status = d.inbox[m].status
  BY BindGoes
<1>2. QueueQuestion(d, m, i) = e /\ <<"ack", 0>> \in Part
  BY DEF QueueQuestion, Part
<1>3. m \in DOMAIN b.inbox
  BY <1>1 DEF Goes, Stays, MessagesStay, Consistent, Tables
<1> HIDE DEF b
<1>4. Consistent(b) /\ i \in DOMAIN b.issues
  BY <1>1 DEF Goes, Stays
<1>5. Goes(b, t, m) /\ t.inbox = b.inbox /\ DOMAIN t.issues = DOMAIN b.issues
  <2>1. DOMAIN t.issues = DOMAIN b.issues
    BY <1>4 DEF Touched, Consistent, Tables
  <2> QED BY <1>4, <2>1, TouchedGoes
<1> HIDE DEF t
<1>6. Goes(d, t, m) /\ Consistent(t) /\ m \in DOMAIN t.inbox
  BY <1>1, <1>3, <1>5, GoesOn DEF Goes, Stays
<1>7. Goes(t, e, m) /\ e.issues = t.issues /\ e.inbox = t.inbox
  BY <1>2, <1>6, RepliedGoes
<1> HIDE DEF e
<1>8. Goes(d, e, m)
  BY <1>6, <1>7, GoesOn
<1> QED BY <1>1, <1>2, <1>5, <1>7, <1>8

\* A plan for an issue that is not resolved waits for its reporter's decision.
LEMMA ProposeGoes ==
  ASSUME NEW d, NEW i \in DOMAIN d.issues, NEW plan \in Plans \cup {None}, NEW m, Consistent(d)
  PROVE  LET e == Propose(d, i, plan) IN
         /\ Goes(d, e, m) /\ e.inbox = d.inbox /\ DOMAIN e.issues = DOMAIN d.issues
<1> DEFINE o == d.issues[i]
           r == [o EXCEPT !.status = "waiting", !.plan = plan, !.version = o.version + 1,
                          !.revision = o.revision + 1]
           t == [d EXCEPT !.issues[i] = r]
           e == NotifyReporter(t, i)
<1>1. CASE o.status = "resolved"
  BY <1>1, GoesNowhere DEF Propose
<1>2. CASE o.status # "resolved"
  <2>1. o \in Issue /\ o.revision \in Nat /\ o.version \in Nat /\ o.children \in Nat
    BY RowTypes
  <2>2. /\ r \in Issue /\ r.revision = o.revision + 1 /\ r.status = "waiting"
        /\ r.reporter = o.reporter /\ r.synced = o.synced /\ r.known = o.known
        /\ r.children = o.children /\ r.thread = o.thread
    <3> HIDE DEF o
    <3>1. o.version + 1 \in Nat /\ o.revision + 1 \in Nat /\ "waiting" \in Status
      BY <2>1 DEF Status
    <3> QED BY <2>1, <3>1 DEF Issue
  <2> DEFINE rq == [o EXCEPT !.status = "waiting", !.plan = plan, !.version = o.version + 1]
             xq == [d.issues EXCEPT ![i] = rq]
             q == [d EXCEPT !.issues[i].status = "waiting", !.issues[i].plan = plan,
                            !.issues[i].version = o.version + 1]
  <2>3. q = [d EXCEPT !.issues = xq]
    OBVIOUS
  <2>4. q.issues = xq /\ xq[i] = rq /\ rq.revision = o.revision
    BY <2>1, <2>3 DEF Issue, Consistent, Tables
  <2>5. [rq EXCEPT !.revision = rq.revision + 1] = r
    BY <2>1, <2>4 DEF Issue
  <2>6. Touched(q, i) = [q EXCEPT !.issues = [q.issues EXCEPT ![i] = [q.issues[i] EXCEPT !.revision = q.issues[i].revision + 1]]]
    BY DEF Touched
  <2>7. Touched(q, i) = [q EXCEPT !.issues = [xq EXCEPT ![i] = r]]
    BY <2>4, <2>5, <2>6
  <2>8. Touched(q, i) = t
    <3> HIDE DEF r, rq
    <3>1. [xq EXCEPT ![i] = r] = [d.issues EXCEPT ![i] = r]
      OBVIOUS
    <3> HIDE DEF xq
    <3>2. [[d EXCEPT !.issues = xq] EXCEPT !.issues = [xq EXCEPT ![i] = r]] = [d EXCEPT !.issues = [d.issues EXCEPT ![i] = r]]
      BY <3>1
    <3> QED BY <2>3, <2>7, <3>2
  <2>9. Propose(d, i, plan) = e
    <3>1. Propose(d, i, plan) = NotifyReporter(Touched(q, i), i)
      BY <1>2 DEF Propose
    <3> QED BY <2>8, <3>1
  <2> HIDE DEF r
  <2>10. t.inbox = d.inbox /\ DOMAIN t.issues = DOMAIN d.issues
    <3>1. {"inbox", "issues"} \subseteq DOMAIN d
      BY DEF Consistent, Tables
    <3> QED BY <3>1
  <2>11. RowGoesOn(o, r)
    BY <2>1, <2>2 DEF RowGoesOn
  <2>12. Goes(d, t, m)
    BY <1>2, <2>2, <2>11, IssueGoes
  <2> HIDE DEF t
  <2>13. Consistent(t) /\ i \in DOMAIN t.issues
    BY <2>10, <2>12 DEF Goes, Stays
  <2>14. Goes(t, e, m) /\ e.inbox = t.inbox /\ e.issues = t.issues
    BY <2>13, NotifyGoes
  <2> HIDE DEF e
  <2>15. Goes(d, e, m)
    BY <2>12, <2>14, GoesOn
  <2> QED BY <2>9, <2>10, <2>14, <2>15
<1> QED BY <1>1, <1>2

-----------------------------------------------------------------------------
(* Incoming commands. *)

\* The reporter decides issue i, of the version that waits, by message m.
DecidesIn(d, m, i, status) ==
  LET ask == d.inbox[m].ask IN
  /\ d.issues[i].status = "waiting"
  /\ Sender[d.inbox[m].place] = d.issues[i].reporter
  /\ ask.issue = i /\ ask.version \in {None, d.issues[i].version}
  /\ ask.op = IF status = "resolved" THEN "confirm" ELSE "reopen"

\* What is decided from d to e is decided by message m.
DecidedBy(d, e, m) ==
  \A i \in DOMAIN d.issues :
    LET r == d.issues[i]
        s == e.issues[i] IN
    /\ s.status = r.status \/ (s.status = "waiting" /\ r.status # "resolved")
         \/ DecidesIn(d, m, i, s.status)
    /\ r.status = "resolved" => s.version = r.version /\ s.plan = r.plan

Handles(d, e, m) == Stays(d, e, m) /\ DecidedBy(d, e, m)

\* All that is committed for a message.
Handled(d, c, m) ==
  \E x, y : c \in {<<x>>, <<x, y>>} /\ Handles(d, x, m) /\ Handles(d, y, m)

LEMMA HandledEach ==
  ASSUME NEW d, NEW c, NEW m, Handled(d, c, m)
  PROVE  /\ \A k \in DOMAIN c : Handles(d, c[k], m)
         /\ Handles(d, Last(c), m) /\ 1 \in DOMAIN c
<1>1. PICK x, y : c \in {<<x>>, <<x, y>>} /\ Handles(d, x, m) /\ Handles(d, y, m)
  BY DEF Handled
<1>2. CASE c = <<x>>
  <2>1. Len(c) = 1 /\ DOMAIN c = {1} /\ c[1] = x
    BY <1>2
  <2> QED BY <1>1, <2>1 DEF Last
<1>3. CASE c = <<x, y>>
  <2>1. Len(c) = 2 /\ DOMAIN c = {1, 2} /\ c[1] = x /\ c[2] = y
    BY <1>3
  <2> QED BY <1>1, <2>1 DEF Last
<1> QED BY <1>1, <1>2, <1>3

LEMMA GoesHandled ==
  ASSUME NEW d, NEW x, NEW m, Goes(d, x, m)
  PROVE  /\ Handled(d, <<x>>, m)
         /\ \A y : Goes(d, y, m) => Handled(d, <<x, y>>, m)
         /\ \A y : Goes(x, y, m) /\ Consistent(d) => Handled(d, <<x, y>>, m)
<1>1. \A y : Goes(d, y, m) => Handles(d, y, m)
  BY DEF Goes, Undecided, Handles, DecidedBy
<1>2. \A y : Goes(x, y, m) /\ Consistent(d) => Goes(d, y, m)
  BY GoesOn
<1> QED BY <1>1, <1>2 DEF Handled

LEMMA RefusedHandled ==
  ASSUME NEW d, NEW m \in DOMAIN d.inbox, Consistent(d)
  PROVE  Handled(d, Refused(d, m), m)
BY FinishGoes, GoesHandled DEF Refused

\* A database that comes from d: message m is still a message of it.
LEMMA StillThere ==
  ASSUME NEW d, NEW e, NEW m \in DOMAIN d.inbox, Consistent(d), Goes(d, e, m)
  PROVE  /\ Consistent(e) /\ m \in DOMAIN e.inbox /\ DOMAIN d.issues \subseteq DOMAIN e.issues
         /\ e.inbox[m].place = d.inbox[m].place /\ e.inbox[m].ask = d.inbox[m].ask
BY DEF Goes, Stays, MessagesStay, IssuesStay, Consistent, Tables

LEMMA ThenMenuHandled ==
  ASSUME NEW d, NEW m \in DOMAIN d.inbox, NEW e, Consistent(d), Goes(d, e, m)
  PROVE  Handled(d, ThenMenu(e, m), m)
<1> DEFINE f == Finish(e, m, None)
<1>1. Consistent(e) /\ m \in DOMAIN e.inbox
  BY StillThere
<1>2. Goes(e, f, m)
  BY <1>1, FinishGoes
<1> HIDE DEF f
<1>3. Consistent(f) /\ m \in DOMAIN f.inbox
  BY <1>1, <1>2, StillThere
<1>4. Goes(f, Menu(f, m), m)
  BY <1>3, MenuGoes
<1>5. Goes(d, f, m)
  BY <1>2, GoesOn
<1>6. Handled(d, <<f, Menu(f, m)>>, m)
  BY <1>4, <1>5, GoesHandled
<1> QED BY <1>6 DEF ThenMenu, f

LEMMA ReportHandled ==
  ASSUME NEW d, NEW m \in DOMAIN d.inbox, NEW parent \in (DOMAIN d.issues) \cup {None},
         Consistent(d), <<m>> \notin DOMAIN d.issues
  PROVE  Handled(d, Report(d, m, parent), m)
<1> DEFINE i == IdFor(d, m, parent)
           c == CreateIssue(d, m, parent)
           b == Bind(c, m, i, "command")
           f == Finish(b, m, None)
           acts == {Act("issue", {i}, None), Plain("new")}
           e == ActionCard(f, m, <<"card", 0>>, acts)
<1>1. Goes(d, c, m) /\ c.inbox = d.inbox /\ i \in DOMAIN c.issues
  BY CreateGoes
<1>2. Report(d, m, parent) = <<f, e>>
  BY DEF Report
<1> HIDE DEF c, i
<1>3. Consistent(c) /\ m \in DOMAIN c.inbox
  BY <1>1, StillThere
<1>4. Goes(c, b, m)
  BY <1>1, <1>3, BindGoes
<1> HIDE DEF b
<1>5. Consistent(b) /\ m \in DOMAIN b.inbox
  BY <1>3, <1>4, StillThere
<1>6. Goes(b, f, m)
  BY <1>5, FinishGoes
<1> HIDE DEF f
<1>7. Consistent(f) /\ m \in DOMAIN f.inbox
  BY <1>5, <1>6, StillThere
<1>8. acts \subseteq Acts /\ <<"card", 0>> \in Part
  <2>1. i \in IssueId
    BY <1>1, <1>3, RowTypes
  <2>2. Act("issue", {i}, None) \in Acts /\ Plain("new") \in Acts
    BY <2>1, ActsAreActs DEF Commands
  <2> QED BY <2>2 DEF Part
<1> HIDE DEF acts
<1>9. Goes(f, e, m)
  BY <1>7, <1>8, CardGoes
<1>10. Goes(d, f, m)
  BY <1>1, <1>3, <1>4, <1>5, <1>6, GoesOn
<1>11. Handled(d, <<f, e>>, m)
  BY <1>9, <1>10, GoesHandled
<1> QED BY <1>2, <1>11

LEMMA DescribeHandled ==
  ASSUME NEW d, NEW m \in DOMAIN d.inbox, Consistent(d), <<m>> \notin DOMAIN d.issues
  PROVE  Handled(d, Describe(d, m), m)
<1> DEFINE c == CreateIssue(d, m, None)
           q == QueueQuestion(c, m, <<m>>)
           acts == {Act("issue", {<<m>>}, None), Plain("new")}
           e == ActionCard(q, m, <<"card", 0>>, acts)
<1>1. Goes(d, c, m) /\ <<m>> \in DOMAIN c.issues
  BY CreateGoes
<1>2. Describe(d, m) = <<e>>
  BY DEF Describe
<1> HIDE DEF c
<1>3. Consistent(c) /\ m \in DOMAIN c.inbox
  BY <1>1, StillThere
<1>4. Goes(c, q, m)
  BY <1>1, <1>3, QuestionGoes
<1> HIDE DEF q
<1>5. Consistent(q) /\ m \in DOMAIN q.inbox
  BY <1>3, <1>4, StillThere
<1>6. acts \subseteq Acts /\ <<"card", 0>> \in Part
  <2>1. <<m>> \in IssueId
    BY <1>1, <1>3, RowTypes
  <2>2. Act("issue", {<<m>>}, None) \in Acts /\ Plain("new") \in Acts
    BY <2>1, ActsAreActs DEF Commands
  <2> QED BY <2>2 DEF Part
<1> HIDE DEF acts
<1>7. Goes(q, e, m)
  BY <1>5, <1>6, CardGoes
<1> HIDE DEF e
<1>8. Goes(d, e, m)
  BY <1>1, <1>4, <1>7, GoesOn
<1> QED BY <1>2, <1>8, GoesHandled

LEMMA SelectHandled ==
  ASSUME NEW d, NEW m \in DOMAIN d.inbox, Consistent(d)
  PROVE  Handled(d, Select(d, m), m)
<1> DEFINE c == ChooseMode(d, m, "choose")
           f == Finish(c, m, None)
           acts == {Plain("new"), Act("sub", Visible(d, m), None)}
           card == ActionCard(f, m, <<"card", 0>>, acts)
           e == IF Visible(d, m) = {} THEN Menu(f, m) ELSE card
<1>1. Goes(d, c, m)
  BY ModeGoes
<1>2. Select(d, m) = <<f, e>>
  BY DEF Select
<1> HIDE DEF c
<1>3. Consistent(c) /\ m \in DOMAIN c.inbox
  BY <1>1, StillThere
<1>4. Goes(c, f, m)
  BY <1>3, FinishGoes
<1> HIDE DEF f
<1>5. Consistent(f) /\ m \in DOMAIN f.inbox
  BY <1>3, <1>4, StillThere
<1>6. acts \subseteq Acts /\ <<"card", 0>> \in Part
  <2>1. Visible(d, m) \subseteq IssueId
    BY RowTypes DEF Visible
  <2>2. Act("sub", Visible(d, m), None) \in Acts /\ Plain("new") \in Acts
    BY <2>1, ActsAreActs DEF Commands
  <2> QED BY <2>2 DEF Part
<1> HIDE DEF acts
<1>7. Goes(f, Menu(f, m), m) /\ Goes(f, card, m)
  BY <1>5, <1>6, CardGoes, MenuGoes
<1> HIDE DEF card
<1>8. Goes(f, e, m) /\ Goes(d, f, m)
  BY <1>1, <1>4, <1>7, GoesOn
<1> HIDE DEF e
<1> QED BY <1>2, <1>8, GoesHandled

LEMMA LookHandled ==
  ASSUME NEW d, NEW m \in DOMAIN d.inbox, NEW arg, NEW use \in BOOLEAN, Consistent(d)
  PROVE  Handled(d, Look(d, m, arg, use), m)
<1> DEFINE i == IF arg = None THEN d.active[d.inbox[m].place] ELSE arg
           b == Bind(d, m, i, "command")
           a == IF use THEN Activate(b, m, i) ELSE b
           f == Finish(a, m, None)
           e == IssueCard(f, m, i, <<"card", 0>>)
<1>1. CASE ~Allowed(d, m, i)
  <2>1. Look(d, m, arg, use) = Refused(d, m)
    BY <1>1 DEF Look
  <2> QED BY <2>1, RefusedHandled
<1>2. CASE Allowed(d, m, i)
  <2>1. Look(d, m, arg, use) = <<f, e>>
    BY <1>2 DEF Look
  <2>2. i \in DOMAIN d.issues
    BY <1>2 DEF Allowed
  <2> HIDE DEF i
  <2>3. Goes(d, b, m) /\ b.issues = d.issues
    BY <2>2, BindGoes
  <2> HIDE DEF b
  <2>4. Consistent(b) /\ m \in DOMAIN b.inbox /\ i \in DOMAIN b.issues
    BY <2>2, <2>3, StillThere
  <2>5. Goes(b, a, m)
    BY <2>4, ActivateGoes, GoesNowhere
  <2> HIDE DEF a
  <2>6. Goes(d, a, m)
    BY <2>3, <2>5, GoesOn
  <2>7. Consistent(a) /\ m \in DOMAIN a.inbox /\ i \in DOMAIN a.issues
    BY <2>2, <2>6, StillThere
  <2>8. Goes(a, f, m)
    BY <2>7, FinishGoes
  <2> HIDE DEF f
  <2>9. Consistent(f) /\ m \in DOMAIN f.inbox /\ i \in DOMAIN f.issues
    BY <2>7, <2>8, StillThere
  <2>10. <<"card", 0>> \in Part
    BY DEF Part
  <2>11. Goes(f, e, m)
    BY <2>9, <2>10, IssueCardGoes
  <2> HIDE DEF e
  <2>12. Goes(d, f, m)
    BY <2>6, <2>8, GoesOn
  <2> QED BY <2>1, <2>11, <2>12, GoesHandled
<1> QED BY <1>1, <1>2

\* A verdict on the version that waits, by its reporter.
Ruled(d, i, status) == Touched([d EXCEPT !.issues[i].status = status], i)

LEMMA DecideStays ==
  ASSUME NEW d, NEW m \in DOMAIN d.inbox, NEW i \in DOMAIN d.issues,
         NEW status \in {"resolved", "open"}, Consistent(d), DecidesIn(d, m, i, status)
  PROVE  LET e == Ruled(d, i, status) IN
         Handles(d, e, m) /\ e.inbox = d.inbox
<1> DEFINE o == d.issues[i]
           rq == [o EXCEPT !.status = status]
           xq == [d.issues EXCEPT ![i] = rq]
           q == [d EXCEPT !.issues[i].status = status]
           r == [o EXCEPT !.status = status, !.revision = o.revision + 1]
           e == [d EXCEPT !.issues[i] = r]
<1>1. o \in Issue /\ o.revision \in Nat /\ o.children \in Nat /\ o.synced \in Nat
  BY RowTypes
<1>2. o.revision >= 1 /\ o.synced <= o.revision
  BY DEF Consistent, Revised
<1>3. /\ r \in Issue /\ r.revision = o.revision + 1 /\ r.status = status
      /\ r.reporter = o.reporter /\ r.synced = o.synced /\ r.known = o.known
      /\ r.children = o.children /\ r.thread = o.thread
  <2> HIDE DEF o
  <2>1. o.revision + 1 \in Nat /\ status \in Status
    BY <1>1 DEF Status
  <2> QED BY <1>1, <2>1 DEF Issue
<1>4. Touched(q, i) = e
  <2>1. q = [d EXCEPT !.issues = xq]
    OBVIOUS
  <2>2. q.issues = xq /\ xq[i] = rq /\ rq.revision = o.revision
    BY <1>1, <2>1 DEF Issue, Consistent, Tables
  <2>3. [rq EXCEPT !.revision = rq.revision + 1] = r
    BY <1>1, <2>2 DEF Issue
  <2>4. Touched(q, i) = [q EXCEPT !.issues =
          [q.issues EXCEPT ![i] = [q.issues[i] EXCEPT !.revision = q.issues[i].revision + 1]]]
    BY DEF Touched
  <2>5. Touched(q, i) = [q EXCEPT !.issues = [xq EXCEPT ![i] = r]]
    BY <2>2, <2>3, <2>4
  <2> HIDE DEF r, rq
  <2>6. [xq EXCEPT ![i] = r] = [d.issues EXCEPT ![i] = r]
    OBVIOUS
  <2> HIDE DEF xq
  <2>7. [[d EXCEPT !.issues = xq] EXCEPT !.issues = [xq EXCEPT ![i] = r]]
          = [d EXCEPT !.issues = [d.issues EXCEPT ![i] = r]]
    BY <2>6
  <2> QED BY <2>1, <2>5, <2>7
<1> HIDE DEF r
<1>5. /\ Consistent(e) /\ e.issues = [d.issues EXCEPT ![i] = r] /\ e.inbox = d.inbox
      /\ e.outbox = d.outbox /\ e.chats = d.chats /\ e.buttons = d.buttons
  <2>1. o.children <= r.children /\ r.revision >= 1 /\ r.synced <= r.revision
    BY <1>1, <1>2, <1>3
  <2> QED BY <1>3, <2>1, IssueChanges
<1> HIDE DEF e
<1>6. /\ d.issues \in [DOMAIN d.issues -> Issue] /\ Len(d.outbox) \in Nat
      /\ \A j \in DOMAIN d.issues : d.issues[j].revision \in Nat /\ d.issues[j].children \in Nat
  BY RowTypes DEF Consistent, Tables
<1>7. DOMAIN e.issues = DOMAIN d.issues /\ e.issues[i] = r
      /\ \A j \in DOMAIN d.issues : j # i => e.issues[j] = d.issues[j]
  BY <1>5, <1>6
<1>8. RowGoesOn(o, r)
  BY <1>1, <1>3 DEF RowGoesOn
<1>9. IssuesStay(d, e)
  <2>1. \A j \in DOMAIN d.issues : j # i => RowGoesOn(d.issues[j], e.issues[j])
    BY <1>6, <1>7 DEF RowGoesOn
  <2> QED BY <1>7, <1>8, <2>1 DEF IssuesStay
<1>10. MessagesStay(d, e, m) /\ ThreadsStay(d, e)
  BY <1>3, <1>5, <1>6, <1>7 DEF MessagesStay, ThreadsStay
<1>11. DecidedBy(d, e, m)
  <2>1. \A j \in DOMAIN d.issues : j # i => e.issues[j] = d.issues[j]
    BY <1>7
  <2>2. d.issues[i].status = "waiting" /\ e.issues[i].status = status
    BY <1>3, <1>7 DEF DecidesIn
  <2> QED BY <2>1, <2>2 DEF DecidedBy
<1>12. Handles(d, e, m)
  BY <1>5, <1>9, <1>10, <1>11 DEF Handles, Stays
<1> QED BY <1>4, <1>5, <1>12 DEF r, Ruled

\* The message belongs to the issue once its version is right.
LEMMA VerdictHandled ==
  ASSUME NEW d, NEW m \in DOMAIN d.inbox, Consistent(d), NEW status \in {"resolved", "open"},
         d.inbox[m].ask.op = IF status = "resolved" THEN "confirm" ELSE "reopen"
  PROVE  Handled(d, Verdict(d, m, d.inbox[m].ask.issue, d.inbox[m].ask.version, status), m)
<1> DEFINE ask == d.inbox[m].ask
           i == ask.issue
           b == Bind(d, m, i, "command")
           t == Ruled(b, i, status)
           e == Finish(t, m, None)
           all == Verdict(d, m, i, ask.version, status)
<1>1. CASE ~Allowed(d, m, i) \/ ask.version \notin {None, d.issues[i].version}
  <2>1. all = Refused(d, m)
    BY <1>1 DEF Verdict
  <2> QED BY <2>1, RefusedHandled
<1>2. CASE /\ Allowed(d, m, i) /\ ask.version \in {None, d.issues[i].version}
           /\ SenderOf(d, m) # d.issues[i].reporter \/ d.issues[i].status # "waiting"
  <2>1. all = <<Finish(b, m, None)>>
    BY <1>2 DEF Verdict, Refused
  <2>2. i \in DOMAIN d.issues
    BY <1>2 DEF Allowed
  <2>3. Goes(d, b, m)
    BY <2>2, BindGoes
  <2> HIDE DEF b
  <2>4. Consistent(b) /\ m \in DOMAIN b.inbox
    BY <2>3, StillThere
  <2>5. Goes(b, Finish(b, m, None), m)
    BY <2>4, FinishGoes
  <2>6. Goes(d, Finish(b, m, None), m)
    BY <2>3, <2>5, GoesOn
  <2> QED BY <2>1, <2>6, GoesHandled
<1>3. CASE /\ Allowed(d, m, i) /\ ask.version \in {None, d.issues[i].version}
           /\ SenderOf(d, m) = d.issues[i].reporter /\ d.issues[i].status = "waiting"
  <2>1. all = <<e>>
    BY <1>3 DEF Verdict, Ruled
  <2>2. i \in DOMAIN d.issues
    BY <1>3 DEF Allowed
  <2>3. Goes(d, b, m) /\ b.issues = d.issues
    BY <2>2, BindGoes
  <2>4. DecidesIn(d, m, i, status)
    BY <1>3 DEF DecidesIn, SenderOf
  <2> HIDE DEF b
  <2>5. /\ Consistent(b) /\ m \in DOMAIN b.inbox
        /\ b.inbox[m].place = d.inbox[m].place /\ b.inbox[m].ask = d.inbox[m].ask
    BY <2>3, StillThere
  <2>6. DecidesIn(b, m, i, status)
    BY <2>3, <2>4, <2>5 DEF DecidesIn
  <2>7. Handles(b, t, m) /\ t.inbox = b.inbox
    BY <2>2, <2>3, <2>5, <2>6, DecideStays
  <2> HIDE DEF t
  <2>8. Consistent(t) /\ m \in DOMAIN t.inbox
    BY <2>5, <2>7 DEF Handles, Stays
  <2>9. Goes(t, e, m)
    BY <2>8, FinishGoes
  <2> HIDE DEF e
  <2>10. Stays(d, b, m) /\ Stays(b, t, m) /\ Stays(t, e, m)
    BY <2>3, <2>7, <2>9 DEF Goes, Handles
  <2>11. Stays(d, e, m)
    BY <2>5, <2>8, <2>10, StaysOn
  <2>12. \A j \in DOMAIN d.issues : j \in DOMAIN t.issues
    BY <2>3, <2>10 DEF Stays, IssuesStay
  <2>13. \A j \in DOMAIN d.issues : \A s : DecidesIn(b, m, j, s) => DecidesIn(d, m, j, s)
    BY <2>3, <2>5 DEF DecidesIn
  <2>14. DecidedBy(d, e, m)
    <3>1. DecidedBy(b, t, m) /\ Undecided(t, e)
      BY <2>7, <2>9 DEF Handles, Goes
    <3> SUFFICES ASSUME NEW j \in DOMAIN d.issues
                 PROVE  LET r == d.issues[j]
                            x == t.issues[j]
                            y == e.issues[j] IN
                        /\ y.status = r.status \/ (y.status = "waiting" /\ r.status # "resolved")
                             \/ DecidesIn(d, m, j, y.status)
                        /\ r.status = "resolved" => y.version = r.version /\ y.plan = r.plan
      BY DEF DecidedBy
    <3> DEFINE r == d.issues[j]
               x == t.issues[j]
               y == e.issues[j]
    <3>2. /\ x.status = r.status \/ (x.status = "waiting" /\ r.status # "resolved")
               \/ DecidesIn(d, m, j, x.status)
          /\ r.status = "resolved" => x.version = r.version /\ x.plan = r.plan
      BY <2>3, <2>13, <3>1 DEF DecidedBy
    <3>3. /\ y.status = x.status \/ (y.status = "waiting" /\ x.status # "resolved")
          /\ x.status = "resolved" => y.version = x.version /\ y.plan = x.plan
      BY <2>12, <3>1 DEF Undecided
    <3>4. DecidesIn(d, m, j, x.status) => r.status = "waiting"
      BY DEF DecidesIn
    <3> HIDE DEF r, x, y
    <3>5. /\ y.status = r.status \/ (y.status = "waiting" /\ r.status # "resolved")
               \/ DecidesIn(d, m, j, y.status)
          /\ r.status = "resolved" => y.version = r.version /\ y.plan = r.plan
      BY <3>2, <3>3, <3>4
    <3> QED BY <3>5 DEF r, x, y
  <2>15. Handles(d, e, m)
    BY <2>11, <2>14 DEF Handles
  <2> QED BY <2>1, <2>15 DEF Handled
<1> QED BY <1>1, <1>2, <1>3

LEMMA VerifyHandled ==
  ASSUME NEW d, NEW m \in DOMAIN d.inbox, NEW i, NEW plan \in Plans \cup {None}, Consistent(d)
  PROVE  Handled(d, Verify(d, m, i, plan), m)
<1> DEFINE b == Bind(d, m, i, "command")
           p == Propose(b, i, plan)
           f == Finish(p, m, None)
<1>1. CASE ~Allowed(d, m, i) \/ SenderOf(d, m) \notin Engineers
  <2>1. Verify(d, m, i, plan) = Refused(d, m)
    BY <1>1 DEF Verify
  <2> QED BY <2>1, RefusedHandled
<1>2. CASE Allowed(d, m, i) /\ SenderOf(d, m) \in Engineers
  <2>1. Verify(d, m, i, plan) \in {<<f>>, <<p, f>>}
    BY <1>2 DEF Verify, Refused
  <2>2. i \in DOMAIN d.issues
    BY <1>2 DEF Allowed
  <2>3. Goes(d, b, m)
    BY <2>2, BindGoes
  <2> HIDE DEF b
  <2>4. Consistent(b) /\ m \in DOMAIN b.inbox /\ i \in DOMAIN b.issues
    BY <2>2, <2>3, StillThere
  <2>5. Goes(b, p, m)
    BY <2>4, ProposeGoes
  <2> HIDE DEF p
  <2>6. Consistent(p) /\ m \in DOMAIN p.inbox
    BY <2>4, <2>5, StillThere
  <2>7. Goes(p, f, m)
    BY <2>6, FinishGoes
  <2> HIDE DEF f
  <2>8. Goes(d, p, m) /\ Goes(d, f, m)
    BY <2>3, <2>4, <2>5, <2>7, GoesOn
  <2> QED BY <2>1, <2>8, GoesHandled
<1> QED BY <1>1, <1>2

LEMMA TextHandled ==
  ASSUME NEW d, NEW m \in DOMAIN d.inbox, Consistent(d)
  PROVE  Handled(d, Text(d, m), m)
<1> DEFINE i == d.active[d.inbox[m].place]
           a == Replied(d, m, <<"ack", 0>>)
           q == QueueQuestion(d, m, i)
<1>1. i \in (DOMAIN d.issues) \cup {None}
  <2>1. d.inbox[m].place \in Places
    BY RowTypes
  <2> QED BY <2>1 DEF Consistent, Tables
<1>2. Text(d, m) \in {<<a>>, ThenMenu(d, m)} \/ (i # None /\ Text(d, m) = <<q>>)
  BY DEF Text
<1>3. Handled(d, <<a>>, m)
  <2>1. <<"ack", 0>> \in Part
    BY DEF Part
  <2>2. Goes(d, a, m)
    BY <2>1, RepliedGoes
  <2> HIDE DEF a
  <2> QED BY <2>2, GoesHandled
<1>4. Handled(d, ThenMenu(d, m), m)
  BY GoesNowhere, ThenMenuHandled
<1>5. ASSUME i # None PROVE Handled(d, <<q>>, m)
  <2>1. i \in DOMAIN d.issues
    BY <1>1, <1>5
  <2> HIDE DEF i
  <2>2. Goes(d, q, m)
    BY <2>1, QuestionGoes
  <2> HIDE DEF q
  <2> QED BY <2>2, GoesHandled
<1> HIDE DEF a, q, i
<1> QED BY <1>2, <1>3, <1>4, <1>5

\* From d to r a message has arrived: the newest, and pending.
Arrives(d, r, p, ask) ==
  LET m == Len(r.inbox) IN
  /\ Consistent(r) /\ m = Len(d.inbox) + 1 /\ m \in DOMAIN r.inbox
  /\ <<m>> \notin DOMAIN r.issues
  /\ r.inbox[m].place = p /\ r.inbox[m].ask = ask /\ r.inbox[m].status = "pending"
  /\ \A k \in DOMAIN d.inbox : k \in DOMAIN r.inbox /\ r.inbox[k] = d.inbox[k] /\ k # m
  /\ r.issues = d.issues /\ r.chats = d.chats /\ r.outbox = d.outbox /\ r.buttons = d.buttons

LEMMA ReceivedKeeps ==
  ASSUME NEW d, NEW p \in Places, NEW ask \in Ask, NEW button \in Button \cup {None},
         Consistent(d)
  PROVE  Arrives(d, Received(d, p, ask, button), p, ask)
<1> DEFINE new == [place |-> p, ask |-> ask, button |-> button, issue |-> None, kind |-> "chat",
                   status |-> "pending", attempts |-> 0, due |-> TRUE]
           x == Append(d.inbox, new)
           r == Received(d, p, ask, button)
           m == Len(d.inbox) + 1
<1>1. d.inbox \in Seq(Message) /\ DOMAIN d.inbox = 1 .. Len(d.inbox) /\ Len(d.inbox) \in Nat
  BY DEF Consistent, Tables
<1>2. new \in Message
  BY Constants DEF Message
<1>3. new.issue = None /\ new.status = "pending" /\ new.attempts = 0
      /\ new.place = p /\ new.ask = ask
  OBVIOUS
<1>4. r = [d EXCEPT !.inbox = x]
  BY DEF Received
<1> HIDE DEF new
<1>5. /\ x \in Seq(Message) /\ Len(x) = m /\ DOMAIN x = 1 .. m /\ x[m] = new
      /\ \A k \in 1 .. Len(d.inbox) : x[k] = d.inbox[k]
  BY <1>1, <1>2
<1>6. /\ DOMAIN r = DOMAIN d /\ r.issues = d.issues /\ r.inbox = x /\ r.outbox = d.outbox
      /\ r.active = d.active /\ r.mode = d.mode /\ r.chats = d.chats
      /\ r.buttons = d.buttons /\ r.used = d.used /\ r.seen = d.seen
  BY <1>4 DEF Consistent, Tables
<1> HIDE DEF r, x
<1>7. Tables(r)
  BY <1>5, <1>6 DEF Consistent, Tables
<1>8. \A k \in DOMAIN d.inbox : k \in DOMAIN r.inbox /\ r.inbox[k] = d.inbox[k] /\ k # m
  BY <1>1, <1>5, <1>6
<1>9. m \in DOMAIN r.inbox /\ \A k \in DOMAIN r.inbox : k \in DOMAIN d.inbox \/ k = m
  BY <1>1, <1>5, <1>6
<1>10. Bound(r)
  BY <1>3, <1>5, <1>6, <1>8, <1>9, Constants DEF Consistent, Bound
<1>11. Named(r) /\ Revised(r)
  BY <1>6, <1>8 DEF Consistent, Named, Child, Revised
<1>12. <<m>> \notin DOMAIN r.issues
  <2>1. ASSUME <<m>> \in DOMAIN d.issues PROVE FALSE
    <3>1. CASE \E n \in DOMAIN d.inbox : <<m>> = <<n>>
      <4>1. PICK n \in DOMAIN d.inbox : <<m>> = <<n>>
        BY <3>1
      <4>2. m = n
        BY <4>1
      <4> QED BY <1>1, <4>2
    <3>2. CASE Child(d, <<m>>)
      <4>1. PICK q \in DOMAIN d.issues : \E k \in 1 .. d.issues[q].children : <<m>> = Append(q, k)
        BY <3>2 DEF Child
      <4>2. PICK k \in 1 .. d.issues[q].children : <<m>> = Append(q, k)
        BY <4>1
      <4>3. d.issues[q].children \in Nat /\ q \in IssueId /\ q # << >>
        BY RowTypes, IdsAreSequences
      <4>4. k \in Nat
        BY <4>3
      <4>5. m \in Nat
        BY <1>1
      <4> QED BY <4>2, <4>3, <4>4, <4>5, AppendTells
    <3> QED BY <2>1, <3>1, <3>2 DEF Consistent, Named
  <2> QED BY <1>6, <2>1
<1>13. Consistent(r)
  BY <1>7, <1>10, <1>11 DEF Consistent
<1>14. Arrives(d, r, p, ask)
  BY <1>3, <1>5, <1>6, <1>8, <1>9, <1>12, <1>13 DEF Arrives
<1> QED BY <1>14 DEF r

\* Whatever arrives, each of its commits leaves what a transaction leaves.
LEMMA CommitsHandled ==
  ASSUME NEW d, NEW p \in Places, NEW ask \in Ask, NEW button \in Button \cup {None},
         Consistent(d)
  PROVE  LET r == Received(d, p, ask, button) IN
         Handled(r, Commits(d, p, ask, button), Len(r.inbox))
<1> DEFINE r == Received(d, p, ask, button)
           m == Len(r.inbox)
           c == Commits(d, p, ask, button)
<1> SUFFICES Handled(r, c, m)
  OBVIOUS
<1>1. Consistent(r) /\ m \in DOMAIN r.inbox /\ <<m>> \notin DOMAIN r.issues /\ r.inbox[m].ask = ask
  <2>1. Arrives(d, r, p, ask)
    BY ReceivedKeeps
  <2> HIDE DEF r
  <2> QED BY <2>1 DEF Arrives
<1>2. ask.op \in Commands /\ ask.plan \in Plans \cup {None}
  BY DEF Ask
<1>3. CASE ask.op = "report"
  <2>1. c = Report(r, m, None)
    BY <1>3 DEF Commits
  <2> HIDE DEF r, m, c
  <2> QED BY <1>1, <2>1, ReportHandled
<1>4. CASE ask.op = "describe"
  <2>1. c = Describe(r, m)
    BY <1>4 DEF Commits
  <2> HIDE DEF r, m, c
  <2> QED BY <1>1, <2>1, DescribeHandled
<1>5. CASE ask.op = "sub"
  <2>1. c = Sub(r, m, ask.issue)
    BY <1>5 DEF Commits
  <2> HIDE DEF r, m, c
  <2>2. CASE Allowed(r, m, ask.issue)
    <3>1. ask.issue \in DOMAIN r.issues
      BY <2>2 DEF Allowed
    <3> QED BY <1>1, <2>1, <2>2, <3>1, ReportHandled DEF Sub
  <2>3. CASE ~Allowed(r, m, ask.issue)
    BY <1>1, <2>1, <2>3, RefusedHandled DEF Sub
  <2> QED BY <2>2, <2>3
<1>6. CASE ask.op = "select"
  <2>1. c = Select(r, m)
    BY <1>6 DEF Commits
  <2> HIDE DEF r, m, c
  <2> QED BY <1>1, <2>1, SelectHandled
<1>7. CASE ask.op = "new"
  <2>1. c = ThenMenu(ChooseMode(r, m, "choose"), m)
    BY <1>7 DEF Commits
  <2> HIDE DEF r, m, c
  <2>2. Goes(r, ChooseMode(r, m, "choose"), m)
    BY <1>1, ModeGoes
  <2> QED BY <1>1, <2>1, <2>2, ThenMenuHandled
<1>8. CASE ask.op = "list"
  <2>1. c = ThenMenu(r, m)
    BY <1>8 DEF Commits
  <2> HIDE DEF r, m, c
  <2> QED BY <1>1, <2>1, GoesNowhere, ThenMenuHandled
<1>9. CASE ask.op \in {"use", "issue"}
  <2>1. c = Look(r, m, ask.issue, ask.op = "use")
    BY <1>9 DEF Commits
  <2> HIDE DEF r, m, c
  <2>2. (ask.op = "use") \in BOOLEAN
    OBVIOUS
  <2> QED BY <1>1, <2>1, <2>2, LookHandled
<1>10. CASE ask.op = "chat"
  <2> DEFINE a == ChooseMode(r, m, "chat")
             f == Finish(a, m, None)
  <2>1. c = <<f>>
    BY <1>10 DEF Commits
  <2> HIDE DEF r, m, c
  <2>2. Goes(r, a, m)
    BY <1>1, ModeGoes
  <2> HIDE DEF a
  <2>3. Consistent(a) /\ m \in DOMAIN a.inbox
    BY <1>1, <2>2, StillThere
  <2>4. Goes(a, f, m)
    BY <2>3, FinishGoes
  <2> HIDE DEF f
  <2>5. Goes(r, f, m)
    BY <1>1, <2>2, <2>4, GoesOn
  <2> QED BY <2>1, <2>5, GoesHandled
<1>11. CASE ask.op = "confirm"
  <2>1. c = Verdict(r, m, r.inbox[m].ask.issue, r.inbox[m].ask.version, "resolved")
    BY <1>1, <1>11 DEF Commits
  <2> HIDE DEF r, m, c
  <2> QED BY <1>1, <1>11, <2>1, VerdictHandled
<1>12. CASE ask.op = "reopen"
  <2>1. c = Verdict(r, m, r.inbox[m].ask.issue, r.inbox[m].ask.version, "open")
    BY <1>1, <1>12 DEF Commits
  <2> HIDE DEF r, m, c
  <2> QED BY <1>1, <1>12, <2>1, VerdictHandled
<1>13. CASE ask.op = "verify"
  <2>1. c = Verify(r, m, ask.issue, ask.plan)
    BY <1>13 DEF Commits
  <2> HIDE DEF r, m, c
  <2> QED BY <1>1, <1>2, <2>1, VerifyHandled
<1>14. CASE ask.op = "text"
  <2>1. c = Text(r, m)
    BY <1>14 DEF Commits
  <2> HIDE DEF r, m, c
  <2> QED BY <1>1, <2>1, TextHandled
<1>15. CASE ask.op = "other"
  <2>1. c = Refused(r, m)
    BY <1>15 DEF Commits
  <2> HIDE DEF r, m, c
  <2> QED BY <1>1, <2>1, RefusedHandled
<1> QED
  BY <1>2, <1>3, <1>4, <1>5, <1>6, <1>7, <1>8, <1>9, <1>10, <1>11, <1>12, <1>13, <1>14, <1>15
  DEF Commands

-----------------------------------------------------------------------------
(* What the tasks know, after a transaction of another one. *)

\* No message begins or ends being analysed, and none changes its issue.
Queued(d, e) ==
  /\ \A k \in DOMAIN d.inbox :
       /\ k \in DOMAIN e.inbox /\ e.inbox[k].status = d.inbox[k].status
       /\ e.inbox[k].issue = d.inbox[k].issue /\ e.inbox[k].place = d.inbox[k].place
  /\ \A k \in DOMAIN e.inbox : k \notin DOMAIN d.inbox => e.inbox[k].status # "running"

LEMMA AsksOn ==
  ASSUME NEW d, NEW e, NEW t, Consistent(d), Queued(d, e), ThreadsStay(d, e), Asks(d, t)
  PROVE  Asks(e, t)
<1>1. \A k \in DOMAIN d.inbox : d.inbox[k].issue \in (DOMAIN d.issues) \cup {None}
  BY RowTypes
<1>2. \A k \in DOMAIN d.inbox : SessionFor(e, k) = SessionFor(d, k)
  BY <1>1 DEF SessionFor, Queued, ThreadsStay
<1> QED BY <1>2 DEF Asks, Queued

LEMMA InOrderOn ==
  ASSUME NEW d, NEW e, NEW t, Consistent(d), Queued(d, e), InOrder(d, t)
  PROVE  InOrder(e, t)
<1>1. DOMAIN d.inbox = 1 .. Len(d.inbox) /\ Len(d.inbox) \in Nat
  BY DEF Consistent, Tables
<1>2. ASSUME NEW m \in DOMAIN e.inbox, e.inbox[m].status = "running"
      PROVE  t # None /\ t.message = m /\ \A k \in 1 .. (m - 1) : e.inbox[k].status = "done"
  <2>1. m \in DOMAIN d.inbox /\ d.inbox[m].status = "running"
    BY <1>2 DEF Queued
  <2>2. t # None /\ t.message = m /\ \A k \in 1 .. (m - 1) : d.inbox[k].status = "done"
    BY <2>1 DEF InOrder
  <2>3. 1 .. (m - 1) \subseteq DOMAIN d.inbox
    BY <1>1, <2>1
  <2> QED BY <2>2, <2>3 DEF Queued
<1> QED BY <1>2 DEF InOrder

LEMMA SeparateOn ==
  ASSUME NEW d, NEW e, IssuesStay(d, e), ThreadsStay(d, e), Separate(d)
  PROVE  Separate(e)
<1>1. \A i \in DOMAIN e.issues :
        \/ i \in DOMAIN d.issues /\ e.issues[i].thread = d.issues[i].thread
        \/ e.issues[i].thread = None
  BY DEF IssuesStay, ThreadsStay, RowBegins
<1>2. e.chats = d.chats
  BY DEF ThreadsStay
<1> QED BY <1>1, <1>2 DEF Separate

LEMMA ShowsOn ==
  ASSUME NEW d, NEW e, NEW rows, Consistent(d), Consistent(e), IssuesStay(d, e), Shows(d, rows)
  PROVE  Shows(e, rows)
<1>1. DOMAIN rows \subseteq DOMAIN e.issues /\ rows \in [DOMAIN rows -> SheetRow]
  BY DEF Shows, IssuesStay
<1>2. ASSUME NEW i \in DOMAIN e.issues
      PROVE  ~e.issues[i].known => e.issues[i].synced = 0
  <2>1. CASE i \in DOMAIN d.issues
    BY <2>1 DEF Shows, IssuesStay, RowGoesOn
  <2>2. CASE i \notin DOMAIN d.issues
    BY <2>2 DEF Shows, IssuesStay, RowBegins
  <2> QED BY <2>1, <2>2
<1>3. ASSUME NEW i \in DOMAIN rows,
             e.issues[i].synced = e.issues[i].revision, rows[i].by = "bridge"
      PROVE  /\ rows[i].status = e.issues[i].status
             /\ e.issues[i].plan # None => rows[i].plan = e.issues[i].plan
  <2> DEFINE r == d.issues[i]
             s == e.issues[i]
  <2>1. i \in DOMAIN d.issues /\ i \in DOMAIN e.issues
    BY DEF Shows, IssuesStay
  <2>2. /\ r.synced \in Nat /\ r.revision \in Nat /\ r.synced <= r.revision
        /\ s.synced \in Nat /\ s.revision \in Nat
    BY <2>1, RowTypes DEF Consistent, Revised
  <2>3. RowGoesOn(r, s)
    BY <2>1 DEF IssuesStay
  <2> HIDE DEF r, s
  <2>4. s.revision = r.revision /\ r.synced = r.revision
    BY <1>3, <2>2, <2>3 DEF RowGoesOn, r, s
  <2>5. s.status = r.status /\ s.plan = r.plan
    BY <2>3, <2>4 DEF RowGoesOn
  <2> QED BY <1>3, <2>4, <2>5 DEF Shows, r, s
<1> QED BY <1>1, <1>2, <1>3 DEF Shows

LEMMA MirrorsOn ==
  ASSUME NEW d, NEW e, NEW call \in Sync \cup {None}, Consistent(d), Consistent(e),
         IssuesStay(d, e), Mirrors(d, call)
  PROVE  Mirrors(e, call)
<1>1. CASE call = None
  BY <1>1 DEF Mirrors
<1>2. CASE call # None
  <2> DEFINE i == call.issue
             r == d.issues[i]
             s == e.issues[i]
  <2>1. i \in DOMAIN d.issues /\ i \in DOMAIN e.issues /\ call.revision \in Nat
    BY <1>2 DEF Mirrors, IssuesStay, Sync
  <2>2. /\ r.synced \in Nat /\ r.revision \in Nat /\ s.synced \in Nat /\ s.revision \in Nat
    BY <2>1, RowTypes
  <2>3. RowGoesOn(r, s) /\ s.synced = r.synced /\ s.known = r.known
    BY <2>1 DEF IssuesStay, RowGoesOn
  <2>4. ASSUME call.at = "write"
        PROVE  /\ s.synced <= call.revision /\ call.revision <= s.revision
               /\ call.revision = s.revision => call.status = s.status /\ call.plan = s.plan
    <3>1. /\ r.synced <= call.revision /\ call.revision <= r.revision
          /\ call.revision = r.revision => call.status = r.status /\ call.plan = r.plan
      BY <1>2, <2>4 DEF Mirrors
    <3> HIDE DEF r, s
    <3> QED BY <2>1, <2>2, <2>3, <3>1 DEF RowGoesOn
  <2> QED BY <1>2, <2>1, <2>3, <2>4 DEF Mirrors
<1> QED BY <1>1, <1>2

\* A transaction all the tasks can live with.
Passes(d, e) ==
  /\ Consistent(e) /\ IssuesStay(d, e) /\ ThreadsStay(d, e) /\ Queued(d, e)
  /\ Len(d.outbox) <= Len(e.outbox)

\* What OnlyReporterDecides says of a step from d to e.
OnlyBy(d, e) ==
  \A i \in DOMAIN d.issues :
    LET r == d.issues[i]
        s == e.issues[i]
        message == Last(e.inbox)
        ask == message.ask IN
    /\ \/ s.status = r.status
       \/ s.status = "waiting" /\ r.status # "resolved"
       \/ /\ r.status = "waiting" /\ Len(e.inbox) > Len(d.inbox)
          /\ Sender[message.place] = r.reporter
          /\ ask.issue = i /\ ask.version \in {None, r.version}
          /\ ask.op = IF s.status = "resolved" THEN "confirm" ELSE "reopen"
    /\ r.status = "resolved" => s.version = r.version /\ s.plan = r.plan

LEMMA GoesPasses ==
  ASSUME NEW d, NEW e, NEW m, Goes(d, e, m), Queued(d, e)
  PROVE  Passes(d, e) /\ OnlyBy(d, e)
BY DEF Goes, Stays, MessagesStay, Passes, OnlyBy, Undecided

\* A verdict stands through what follows it in the step.
LEMMA OnlyByOn ==
  ASSUME NEW d, NEW e, NEW f, NEW n, Consistent(d), Consistent(e), IssuesStay(d, e), OnlyBy(d, e),
         Goes(e, f, n), Len(d.inbox) <= Len(e.inbox)
  PROVE  OnlyBy(d, f)
<1>1. /\ Len(d.inbox) \in Nat /\ Len(e.inbox) \in Nat /\ Len(f.inbox) = Len(e.inbox)
      /\ DOMAIN e.inbox = 1 .. Len(e.inbox)
  BY DEF Consistent, Tables, Goes, Stays, MessagesStay
<1>2. Len(e.inbox) > Len(d.inbox) =>
        Last(f.inbox).place = Last(e.inbox).place /\ Last(f.inbox).ask = Last(e.inbox).ask
  BY <1>1 DEF Goes, Stays, MessagesStay, Last
<1>3. ASSUME NEW i \in DOMAIN d.issues
      PROVE  /\ f.issues[i].status = e.issues[i].status
                  \/ (f.issues[i].status = "waiting" /\ e.issues[i].status # "resolved")
             /\ e.issues[i].status = "resolved" =>
                  f.issues[i].version = e.issues[i].version /\ f.issues[i].plan = e.issues[i].plan
  BY DEF Goes, Undecided, IssuesStay
<1> QED BY <1>1, <1>2, <1>3 DEF OnlyBy

LEMMA PassesOn ==
  ASSUME IInv, Passes(db, db'), UNCHANGED <<turn, sync, sheet>>,
         sending' \in (DOMAIN db.outbox) \cup {None}, shown' \subseteq DOMAIN db.outbox
  PROVE  IInv'
<1>1. DOMAIN db.outbox \subseteq DOMAIN db'.outbox
  BY DEF IInv, Passes, Consistent, Tables
<1>2. Tasks'
  BY <1>1 DEF IInv, Tasks
<1>3. Consistent(db) /\ Consistent(db')
  BY DEF IInv, Passes
<1>4. Asks(db, turn)' /\ InOrder(db, turn)'
  BY <1>3, AsksOn, InOrderOn DEF IInv, Passes
<1>5. Separate(db)' /\ Shows(db, sheet)'
  BY <1>3, SeparateOn, ShowsOn DEF IInv, Passes
<1>6. Mirrors(db, sync)'
  BY <1>3, MirrorsOn DEF IInv, Tasks, Passes
<1> QED BY <1>2, <1>3, <1>4, <1>5, <1>6 DEF IInv

-----------------------------------------------------------------------------
(* What arrives. *)

LEMMA ArrivalPasses ==
  ASSUME NEW d, NEW p \in Places, NEW ask \in Ask, NEW button \in Button \cup {None},
         Consistent(d)
  PROVE  LET c == Commits(d, p, ask, button) IN
         /\ 1 \in DOMAIN c
         /\ \A e \in {c[k] : k \in DOMAIN c} \cup {Last(c)} :
              Passes(d, e) /\ OnlyBy(d, e) /\ Len(d.inbox) <= Len(e.inbox)
                /\ d.buttons \subseteq e.buttons
<1> DEFINE r == Received(d, p, ask, button)
           m == Len(r.inbox)
           c == Commits(d, p, ask, button)
<1> SUFFICES /\ 1 \in DOMAIN c
             /\ \A e \in {c[k] : k \in DOMAIN c} \cup {Last(c)} :
                  Passes(d, e) /\ OnlyBy(d, e) /\ Len(d.inbox) <= Len(e.inbox)
                    /\ d.buttons \subseteq e.buttons
  OBVIOUS
<1>1. /\ Consistent(r) /\ m = Len(d.inbox) + 1 /\ m \in DOMAIN r.inbox
      /\ r.inbox[m].status = "pending" /\ r.issues = d.issues /\ r.chats = d.chats
      /\ r.outbox = d.outbox /\ r.buttons = d.buttons
      /\ \A k \in DOMAIN d.inbox : k \in DOMAIN r.inbox /\ r.inbox[k] = d.inbox[k] /\ k # m
  <2>1. Arrives(d, r, p, ask)
    BY ReceivedKeeps
  <2> HIDE DEF r
  <2> QED BY <2>1 DEF Arrives
<1>2. Handled(r, c, m)
  BY CommitsHandled
<1> HIDE DEF r, c
<1>3. 1 \in DOMAIN c /\ \A e \in {c[k] : k \in DOMAIN c} \cup {Last(c)} : Handles(r, e, m)
  BY <1>2, HandledEach
<1> HIDE DEF m
<1>4. ASSUME NEW e, Handles(r, e, m)
      PROVE  Passes(d, e) /\ OnlyBy(d, e) /\ Len(d.inbox) <= Len(e.inbox)
               /\ d.buttons \subseteq e.buttons
  <2>1. /\ Consistent(e) /\ MessagesStay(r, e, m) /\ IssuesStay(r, e) /\ ThreadsStay(r, e)
        /\ DecidedBy(r, e, m)
    BY <1>4 DEF Handles, Stays
  <2>2. IssuesStay(d, e) /\ ThreadsStay(d, e)
    BY <1>1, <2>1 DEF IssuesStay, ThreadsStay
  <2>3. /\ DOMAIN d.inbox = 1 .. Len(d.inbox) /\ DOMAIN e.inbox = 1 .. Len(e.inbox)
        /\ DOMAIN r.inbox = 1 .. Len(r.inbox)
        /\ Len(d.inbox) \in Nat /\ Len(r.inbox) \in Nat /\ Len(e.inbox) = Len(r.inbox)
        /\ Len(r.inbox) = m
    BY <2>1 DEF Consistent, Tables, MessagesStay, m
  <2>4. Queued(d, e)
    <3>1. \A k \in DOMAIN d.inbox : k \in DOMAIN e.inbox /\ e.inbox[k] = d.inbox[k]
      BY <1>1, <2>1, <2>3 DEF MessagesStay
    <3>2. e.inbox[m].status # "running"
      BY <1>1, <2>1 DEF MessagesStay
    <3>3. \A k \in DOMAIN e.inbox : k \notin DOMAIN d.inbox => k = m
      BY <1>1, <2>3
    <3> QED BY <3>1, <3>2, <3>3 DEF Queued
  <2>5. Last(e.inbox).place = r.inbox[m].place /\ Last(e.inbox).ask = r.inbox[m].ask
    BY <1>1, <2>1, <2>3 DEF MessagesStay, Last
  <2>6. OnlyBy(d, e)
    BY <1>1, <2>1, <2>3, <2>5 DEF OnlyBy, DecidedBy, DecidesIn
  <2> QED BY <1>1, <2>1, <2>2, <2>3, <2>4, <2>6 DEF Passes, MessagesStay
<1> QED BY <1>3, <1>4

-----------------------------------------------------------------------------
(* Calls of the mirror that may have been taken. *)

\* A row found or written, while the issue may have gone on, shows the issue
\* whenever it counts as mirrored.
LEMMA SheetShows ==
  ASSUME IInv, NEW taken \in BOOLEAN
  PROVE  /\ Shows(db, SheetAfter(taken))
         /\ taken /\ sync # None /\ sync.at = "write" /\ sync.issue \in DOMAIN sheet =>
              SheetAfter(taken) = Written /\ DOMAIN Written = DOMAIN sheet
<1> DEFINE i == sync.issue
<1>1. Consistent(db) /\ Shows(db, sheet) /\ Mirrors(db, sync) /\ sync \in Sync \cup {None}
  BY DEF IInv, Tasks
<1>2. DOMAIN sheet \subseteq DOMAIN db.issues /\ sheet \in [DOMAIN sheet -> SheetRow]
  BY <1>1 DEF Shows
<1>3. CASE taken /\ sync # None /\ sync.at = "find"
  <2> DEFINE row == [status |-> "open", plan |-> None, by |-> "bridge"]
  <2>1. SheetAfter(taken) = Found
    BY <1>3 DEF SheetAfter
  <2>2. CASE i \in DOMAIN sheet
    <3>1. Found = sheet
      BY <2>2 DEF Found
    <3> QED BY <1>1, <1>3, <2>1, <2>2, <3>1
  <2>3. CASE i \notin DOMAIN sheet
    <3> DEFINE rows == WithRow(i, row)
    <3>1. Found = rows
      BY <2>3 DEF Found
    <3>2. row \in SheetRow
      BY DEF SheetRow, Status
    <3>3. i \in DOMAIN db.issues
      BY <1>1, <1>3 DEF Mirrors
    <3>4. DOMAIN rows = DOMAIN sheet \cup {i} /\ rows[i] = row
          /\ \A j \in DOMAIN sheet : rows[j] = sheet[j]
      BY <2>3 DEF WithRow
    <3>5. rows \in [DOMAIN rows -> SheetRow]
      BY <1>2, <3>2 DEF WithRow
    <3> HIDE DEF row, rows
    <3>6. db.issues[i].synced = 0 /\ db.issues[i].revision >= 1 /\ db.issues[i].revision \in Nat
      BY <1>1, <1>3, <3>3, RowTypes DEF Mirrors, Consistent, Revised
    <3>7. db.issues[i].synced # db.issues[i].revision
      BY <3>6
    <3>8. Shows(db, rows)
      BY <1>1, <3>3, <3>4, <3>5, <3>7 DEF Shows
    <3> QED BY <1>3, <2>1, <3>1, <3>4, <3>8
  <2> QED BY <2>2, <2>3
<1>4. CASE taken /\ sync # None /\ sync.at = "write" /\ sync.issue \in DOMAIN sheet
  <2> DEFINE row == [status |-> sync.status, by |-> "bridge",
                     plan |-> IF sync.plan # None THEN sync.plan ELSE sheet[i].plan]
             rows == WithRow(i, row)
  <2>1. SheetAfter(taken) = rows /\ rows = Written
    BY <1>4 DEF SheetAfter, Written
  <2>2. sync \in Sync /\ i \in DOMAIN sheet /\ i \in DOMAIN db.issues
    BY <1>1, <1>4 DEF Mirrors, Shows
  <2>3. sheet[i] \in SheetRow
    BY <1>2, <2>2
  <2>4. sheet[i].plan \in Plans \cup {None} /\ sync.status \in Status
        /\ sync.plan \in Plans \cup {None}
    BY <2>2, <2>3 DEF SheetRow, Sync
  <2>5. row \in SheetRow /\ row.status = sync.status /\ (sync.plan # None => row.plan = sync.plan)
    BY <2>4 DEF SheetRow
  <2>6. DOMAIN rows = DOMAIN sheet /\ rows[i] = row
        /\ \A j \in DOMAIN sheet : j # i => rows[j] = sheet[j]
    BY <2>2 DEF WithRow
  <2> HIDE DEF row
  <2>7. rows \in [DOMAIN rows -> SheetRow]
    BY <1>2, <2>2, <2>5 DEF WithRow
  <2> HIDE DEF rows
  <2>8. db.issues[i].synced = db.issues[i].revision =>
          /\ row.status = db.issues[i].status
          /\ db.issues[i].plan # None => row.plan = db.issues[i].plan
    <3>1. db.issues[i].synced \in Nat /\ db.issues[i].revision \in Nat /\ sync.revision \in Nat
      BY <1>1, <2>2, RowTypes DEF Sync
    <3>2. /\ db.issues[i].synced <= sync.revision /\ sync.revision <= db.issues[i].revision
          /\ sync.revision = db.issues[i].revision =>
               sync.status = db.issues[i].status /\ sync.plan = db.issues[i].plan
      BY <1>1, <1>4 DEF Mirrors
    <3> QED BY <2>5, <3>1, <3>2
  <2>9. Shows(db, rows)
    <3>1. \A j \in DOMAIN rows :
            db.issues[j].synced = db.issues[j].revision /\ rows[j].by = "bridge" =>
              /\ rows[j].status = db.issues[j].status
              /\ db.issues[j].plan # None => rows[j].plan = db.issues[j].plan
      BY <1>1, <2>6, <2>8 DEF Shows
    <3> QED BY <1>1, <2>6, <2>7, <3>1 DEF Shows
  <2> QED BY <1>4, <2>1, <2>6, <2>9
<1>5. CASE \/ ~taken
           \/ sync = None
           \/ sync.at # "find" /\ ~(sync.at = "write" /\ sync.issue \in DOMAIN sheet)
  BY <1>1, <1>5 DEF SheetAfter
<1> QED BY <1>3, <1>4, <1>5

-----------------------------------------------------------------------------
(* A restart. *)

\* The turn that was running is answered, and none is running.
LEMMA RecoverGoes ==
  ASSUME NEW d, Consistent(d),
         \A k, l \in DOMAIN d.inbox :
           d.inbox[k].status = "running" /\ d.inbox[l].status = "running" => k = l
  PROVE  /\ \E n : Goes(d, Recover(d), n)
         /\ \A k \in DOMAIN Recover(d).inbox : Recover(d).inbox[k].status # "running"
<1> DEFINE running == {m \in DOMAIN d.inbox : d.inbox[m].status = "running"}
<1>1. CASE running = {}
  <2>1. Recover(d) = d
    BY <1>1 DEF Recover
  <2>2. Goes(d, d, 0)
    BY GoesNowhere
  <2> QED BY <1>1, <2>1, <2>2
<1>2. CASE running # {}
  <2> DEFINE n == Least(running)
             e == Finish(d, n, None)
  <2>1. Recover(d) = e
    BY <1>2 DEF Recover
  <2>2. running \subseteq Nat
    BY RowTypes
  <2>3. n \in running
    BY <1>2, <2>2, LeastIsLeast
  <2> HIDE DEF n
  <2>4. Goes(d, e, n) /\ e.inbox[n].status = "done"
    BY <2>3, FinishGoes
  <2> HIDE DEF e
  <2>5. DOMAIN d.inbox = 1 .. Len(d.inbox) /\ DOMAIN e.inbox = DOMAIN d.inbox
    BY <2>4 DEF Goes, Stays, MessagesStay, Consistent, Tables
  <2>6. ASSUME NEW k \in DOMAIN e.inbox PROVE e.inbox[k].status # "running"
    <3>1. CASE k = n
      BY <2>4, <3>1
    <3>2. CASE k # n
      <4>1. e.inbox[k] = d.inbox[k] /\ d.inbox[k].status # "running"
        BY <2>3, <2>4, <2>5, <3>2 DEF Goes, Stays, MessagesStay
      <4> QED BY <4>1
    <3> QED BY <3>1, <3>2
  <2> QED BY <2>1, <2>4, <2>6
<1> QED BY <1>1, <1>2

\* What a process leaves that dies at d.
Leaves(d) ==
  /\ Consistent(d) /\ IssuesStay(db, d) /\ Separate(d) /\ OnlyBy(db, d)
  /\ Len(db.outbox) <= Len(d.outbox) /\ Len(db.inbox) <= Len(d.inbox)
  /\ \A k, l \in DOMAIN d.inbox :
       d.inbox[k].status = "running" /\ d.inbox[l].status = "running" => k = l

LEMMA Restarts ==
  ASSUME IInv, NEW d, Leaves(d), Restarted(d)
  PROVE  IInv' /\ OnlyBy(db, db')
<1>1. PICK n : Goes(d, Recover(d), n)
  BY RecoverGoes DEF Leaves
<1>2. db' = Recover(d) /\ turn' = None /\ sending' = None /\ sync' = None
  BY DEF Restarted
<1>3. PICK taken \in BOOLEAN : shown' = ShownAfter(taken) /\ sheet' = SheetAfter(taken)
  BY DEF Restarted
<1>4. Goes(d, db', n) /\ \A k \in DOMAIN db'.inbox : db'.inbox[k].status # "running"
  BY <1>1, <1>2, RecoverGoes DEF Leaves
<1>5. Consistent(db') /\ Consistent(db) /\ Consistent(d)
  BY <1>4 DEF Goes, Stays, IInv, Leaves
<1>6. Separate(db)'
  BY <1>4, SeparateOn DEF Leaves, Goes, Stays
<1>7. Shows(db, sheet)'
  <2>1. Shows(db, sheet')
    BY <1>3, SheetShows
  <2>2. Shows(d, sheet')
    BY <1>5, <2>1, ShowsOn DEF Leaves
  <2> QED BY <1>4, <1>5, <2>2, ShowsOn DEF Goes, Stays
<1>8. Tasks'
  <2>1. /\ DOMAIN db.outbox = 1 .. Len(db.outbox) /\ DOMAIN db'.outbox = 1 .. Len(db'.outbox)
        /\ Len(db.outbox) \in Nat /\ Len(d.outbox) \in Nat /\ Len(db'.outbox) \in Nat
    BY <1>5 DEF Consistent, Tables
  <2>2. DOMAIN db.outbox \subseteq DOMAIN db'.outbox
    BY <1>4, <2>1 DEF Leaves, Goes, Stays, MessagesStay
  <2>3. shown' \subseteq DOMAIN db.outbox
    BY <1>3 DEF ShownAfter, IInv, Tasks
  <2> QED BY <1>2, <2>2, <2>3 DEF Tasks
<1>9. Asks(db, turn)' /\ InOrder(db, turn)' /\ Mirrors(db, sync)'
  BY <1>2, <1>4 DEF Asks, InOrder, Mirrors
<1>10. OnlyBy(db, db')
  BY <1>4, <1>5, OnlyByOn DEF Leaves
<1> QED BY <1>5, <1>6, <1>7, <1>8, <1>9, <1>10 DEF IInv

LEMMA PassesLeaves ==
  ASSUME IInv, NEW d, Passes(db, d), OnlyBy(db, d), Len(db.inbox) <= Len(d.inbox)
  PROVE  Leaves(d)
<1>1. \A k \in DOMAIN d.inbox : d.inbox[k].status = "running" =>
        k \in DOMAIN db.inbox /\ db.inbox[k].status = "running"
  BY DEF Passes, Queued
<1>2. \A k \in DOMAIN d.inbox : d.inbox[k].status = "running" => turn.message = k
  BY <1>1 DEF IInv, InOrder
<1>3. Separate(d)
  BY SeparateOn DEF Passes, IInv
<1> QED BY <1>2, <1>3 DEF Leaves, Passes

-----------------------------------------------------------------------------
(* The end of a turn. *)

\* The session of message m is conversation t from now on.
Conversed(d, m, t) ==
  IF d.inbox[m].issue # None THEN [d EXCEPT !.issues[d.inbox[m].issue].thread = t]
  ELSE [d EXCEPT !.chats[d.inbox[m].place] = t]

\* To answer is to keep the conversation, and to be done.
LEMMA FinishIsConversed ==
  ASSUME NEW d, NEW m \in DOMAIN d.inbox, NEW t \in Threads, Consistent(d)
  PROVE  Finish(d, m, t) = Finish(Conversed(d, m, t), m, None)
<1> DEFINE i == d.inbox[m].issue
           p == d.inbox[m].place
           k == Conversed(d, m, t)
           x == [d.inbox EXCEPT ![m].status = "done"]
           done == [d EXCEPT !.inbox = x]
<1>1. t # None
  BY Constants
<1>2. {"inbox", "issues", "chats"} \subseteq DOMAIN d
  BY DEF Consistent, Tables
<1>3. CASE i # None
  <2> DEFINE y == [d.issues EXCEPT ![i].thread = t]
             j == [d EXCEPT !.issues = y]
             both == [[d EXCEPT !.inbox = x] EXCEPT !.issues = y]
  <2>1. k = j /\ j.inbox = d.inbox
    BY <1>2, <1>3 DEF Conversed
  <2>2. done.issues = d.issues
    BY <1>2
  <2>3. [j EXCEPT !.inbox = x] = both
    <3> HIDE DEF x, y
    <3> QED BY <1>2
  <2>4. [done EXCEPT !.issues[i].thread = t] = both
    BY <2>2
  <2>5. Finish(d, m, t) = Replied(Touched(both, i), m, <<"answer", 0>>)
    BY <1>1, <1>3, <2>4 DEF Finish
  <2>6. Finish(j, m, None) = Replied(Touched([j EXCEPT !.inbox = x], i), m, <<"answer", 0>>)
    BY <1>3, <2>1 DEF Finish
  <2> QED BY <2>1, <2>3, <2>5, <2>6
<1>4. CASE i = None
  <2> DEFINE y == [d.chats EXCEPT ![p] = t]
             j == [d EXCEPT !.chats = y]
             both == [[d EXCEPT !.inbox = x] EXCEPT !.chats = y]
  <2>1. k = j /\ j.inbox = d.inbox
    BY <1>2, <1>4 DEF Conversed
  <2>2. done.chats = d.chats
    BY <1>2
  <2>3. [j EXCEPT !.inbox = x] = both
    <3> HIDE DEF x, y
    <3> QED BY <1>2
  <2>4. [done EXCEPT !.chats[p] = t] = both
    BY <2>2
  <2>5. Finish(d, m, t) = Replied(both, m, <<"answer", 0>>)
    BY <1>1, <1>4, <2>4 DEF Finish
  <2>6. Finish(j, m, None) = Replied([j EXCEPT !.inbox = x], m, <<"answer", 0>>)
    BY <1>4, <2>1 DEF Finish
  <2> QED BY <2>1, <2>3, <2>5, <2>6
<1> QED BY <1>3, <1>4

\* The session a turn may resume or start: that of its message, or a fresh one.
Fresh(d, m, t) == t = SessionFor(d, m) \/ t \notin ThreadsOf(d)

LEMMA ConversedStays ==
  ASSUME NEW d, NEW m \in DOMAIN d.inbox, NEW t \in Threads, Consistent(d), Separate(d),
         Fresh(d, m, t)
  PROVE  LET k == Conversed(d, m, t) IN
         /\ Consistent(k) /\ IssuesStay(d, k) /\ Undecided(d, k) /\ Separate(k)
         /\ DOMAIN k.issues = DOMAIN d.issues /\ k.inbox = d.inbox /\ k.outbox = d.outbox
<1> DEFINE i == d.inbox[m].issue
           p == d.inbox[m].place
           k == Conversed(d, m, t)
<1> SUFFICES /\ Consistent(k) /\ IssuesStay(d, k) /\ Undecided(d, k) /\ Separate(k)
             /\ DOMAIN k.issues = DOMAIN d.issues /\ k.inbox = d.inbox /\ k.outbox = d.outbox
  OBVIOUS
<1>1. /\ t # None /\ p \in Places /\ i \in (DOMAIN d.issues) \cup {None}
      /\ d.issues \in [DOMAIN d.issues -> Issue]
      /\ d.chats \in [Places -> Threads \cup {None}]
      /\ \A j \in DOMAIN d.issues :
           /\ d.issues[j] \in Issue /\ d.issues[j].revision \in Nat /\ d.issues[j].children \in Nat
           /\ d.issues[j].synced \in Nat
  BY RowTypes, Constants DEF Consistent, Tables
<1>2. CASE i # None
  <2> DEFINE o == d.issues[i]
             r == [o EXCEPT !.thread = t]
             e == [d EXCEPT !.issues[i] = r]
  <2>1. i \in DOMAIN d.issues /\ o \in Issue
    BY <1>1, <1>2
  <2>2. k = e
    BY <1>2 DEF Conversed
  <2>3. /\ r \in Issue /\ r.thread = t /\ r.reporter = o.reporter /\ r.synced = o.synced
        /\ r.known = o.known /\ r.children = o.children /\ r.status = o.status
        /\ r.version = o.version /\ r.plan = o.plan /\ r.revision = o.revision
    <3> HIDE DEF o
    <3>1. r \in Issue
      BY <2>1 DEF Issue
    <3>2. r.thread = t /\ r.reporter = o.reporter /\ r.synced = o.synced
          /\ r.known = o.known /\ r.children = o.children
      BY <2>1 DEF Issue
    <3>3. r.status = o.status /\ r.version = o.version /\ r.plan = o.plan /\ r.revision = o.revision
      BY <2>1 DEF Issue
    <3> QED BY <3>1, <3>2, <3>3
  <2> HIDE DEF r
  <2>4. r.revision >= 1 /\ r.synced <= r.revision /\ o.children <= r.children
    <3>1. o.revision >= 1 /\ o.synced <= o.revision
      BY <2>1 DEF Consistent, Revised
    <3>2. o.children \in Nat
      BY <1>1, <2>1
    <3> HIDE DEF o
    <3> QED BY <2>3, <3>1, <3>2
  <2>5. /\ Consistent(e) /\ e.issues = [d.issues EXCEPT ![i] = r] /\ e.inbox = d.inbox
        /\ e.outbox = d.outbox /\ e.chats = d.chats
    <3>1. /\ i \in DOMAIN d.issues /\ r \in Issue /\ d.issues[i].children <= r.children
          /\ r.revision >= 1 /\ r.synced <= r.revision
      BY <2>1, <2>3, <2>4
    <3> HIDE DEF i, o
    <3> QED BY <3>1, IssueChanges
  <2> HIDE DEF e
  <2>6. DOMAIN e.issues = DOMAIN d.issues /\ e.issues[i] = r
        /\ \A j \in DOMAIN d.issues : j # i => e.issues[j] = d.issues[j]
    BY <1>1, <2>1, <2>5
  <2>7. \A j \in DOMAIN d.issues : RowGoesOn(d.issues[j], e.issues[j])
    BY <1>1, <2>3, <2>6 DEF RowGoesOn
  <2>8. IssuesStay(d, e) /\ Undecided(d, e)
    BY <2>3, <2>6, <2>7 DEF IssuesStay, Undecided
  <2>9. t = o.thread \/ t \notin ThreadsOf(d)
    BY <1>2 DEF Fresh, SessionFor
  <2>10. Separate(e)
    <3>1. CASE t = o.thread
      <4>1. \A j \in DOMAIN d.issues : e.issues[j].thread = d.issues[j].thread
        BY <2>3, <2>6, <3>1
      <4> QED BY <2>5, <2>6, <4>1 DEF Separate
    <3>2. CASE t \notin ThreadsOf(d)
      <4>1. (\A j \in DOMAIN d.issues : d.issues[j].thread # t) /\ \A q \in Places : d.chats[q] # t
        BY <3>2 DEF ThreadsOf
      <4>2. /\ e.issues[i].thread = t /\ e.chats = d.chats
            /\ \A j \in DOMAIN d.issues : j # i => e.issues[j].thread = d.issues[j].thread
        BY <2>3, <2>5, <2>6
      <4>3. \A j, l \in DOMAIN d.issues :
              e.issues[j].thread = e.issues[l].thread => j = l \/ e.issues[j].thread = None
        BY <4>1, <4>2 DEF Separate
      <4>4. \A j \in DOMAIN d.issues, q \in Places :
              e.issues[j].thread = d.chats[q] => e.issues[j].thread = None
        BY <4>1, <4>2 DEF Separate
      <4> QED BY <2>6, <4>2, <4>3, <4>4 DEF Separate
    <3> QED BY <2>9, <3>1, <3>2
  <2> QED BY <2>2, <2>5, <2>6, <2>8, <2>10
<1>3. CASE i = None
  <2> DEFINE y == [d.chats EXCEPT ![p] = t]
             e == [d EXCEPT !.chats = y]
  <2>1. k = e
    BY <1>3 DEF Conversed
  <2>2. y \in [Places -> Threads \cup {None}] /\ y[p] = t
        /\ \A q \in Places : q # p => y[q] = d.chats[q]
    BY <1>1
  <2> HIDE DEF y
  <2>3. /\ DOMAIN e = DOMAIN d /\ e.issues = d.issues /\ e.inbox = d.inbox /\ e.outbox = d.outbox
        /\ e.active = d.active /\ e.mode = d.mode /\ e.chats = y
        /\ e.buttons = d.buttons /\ e.used = d.used /\ e.seen = d.seen
    BY DEF Consistent, Tables
  <2> HIDE DEF e
  <2>4. Tables(e)
    BY <2>2, <2>3 DEF Consistent, Tables
  <2>5. Consistent(e)
    BY <2>3, <2>4 DEF Consistent, Bound, Named, Child, Revised
  <2>6. IssuesStay(d, e) /\ Undecided(d, e)
    BY <1>1, <2>3 DEF IssuesStay, RowGoesOn, Undecided
  <2>7. t = d.chats[p] \/ t \notin ThreadsOf(d)
    BY <1>3 DEF Fresh, SessionFor
  <2>8. Separate(e)
    <3>1. CASE t = d.chats[p]
      <4>1. \A q \in Places : y[q] = d.chats[q]
        BY <2>2, <3>1
      <4> QED BY <2>3, <4>1 DEF Separate
    <3>2. CASE t \notin ThreadsOf(d)
      <4>1. (\A j \in DOMAIN d.issues : d.issues[j].thread # t) /\ \A q \in Places : d.chats[q] # t
        BY <3>2 DEF ThreadsOf
      <4> QED BY <2>2, <2>3, <4>1 DEF Separate
    <3> QED BY <2>7, <3>1, <3>2
  <2> QED BY <2>1, <2>3, <2>5, <2>6, <2>8
<1> QED BY <1>2, <1>3

NoTurn(d) == \A n \in DOMAIN d.inbox : d.inbox[n].status # "running"

\* Once the message asked about is done with, no turn is running.
LEMMA TurnEnds ==
  ASSUME IInv, turn # None, NEW k, NEW e, Consistent(k), IssuesStay(db, k), Undecided(db, k),
         Separate(k), DOMAIN k.issues = DOMAIN db.issues, k.inbox = db.inbox, k.outbox = db.outbox,
         Goes(k, e, turn.message), e.inbox[turn.message].status = "done"
  PROVE  Leaves(e) /\ NoTurn(e)
<1> DEFINE m == turn.message
<1>1. /\ Consistent(db) /\ Consistent(e) /\ MessagesStay(k, e, m) /\ IssuesStay(k, e)
      /\ ThreadsStay(k, e)
  BY DEF IInv, Goes, Stays
<1>2. DOMAIN e.inbox = DOMAIN db.inbox /\ Len(db.inbox) \in Nat /\ Len(db.outbox) <= Len(e.outbox)
      /\ Len(e.inbox) = Len(db.inbox)
  BY <1>1 DEF Consistent, Tables, MessagesStay
<1>3. NoTurn(e)
  <2>1. ASSUME NEW n \in DOMAIN e.inbox, n # m PROVE e.inbox[n].status # "running"
    <3>1. e.inbox[n] = db.inbox[n]
      BY <1>1, <1>2, <2>1 DEF MessagesStay
    <3>2. db.inbox[n].status # "running"
      BY <1>2, <2>1 DEF IInv, InOrder
    <3> QED BY <3>1, <3>2
  <2> QED BY <2>1 DEF NoTurn
<1>4. IssuesStay(db, e)
  <2>1. ASSUME NEW i \in DOMAIN db.issues PROVE RowGoesOn(db.issues[i], e.issues[i])
    <3>1. RowGoesOn(db.issues[i], k.issues[i]) /\ RowGoesOn(k.issues[i], e.issues[i])
      BY <1>1 DEF IssuesStay
    <3>2. i \in DOMAIN e.issues
      BY <1>1 DEF IssuesStay
    <3>3. /\ db.issues[i].revision \in Nat /\ k.issues[i].revision \in Nat
          /\ e.issues[i].revision \in Nat
          /\ db.issues[i].children \in Nat /\ k.issues[i].children \in Nat
          /\ e.issues[i].children \in Nat
      BY <1>1, <3>2, RowTypes
    <3> QED BY <3>1, <3>3 DEF RowGoesOn
  <2> QED BY <1>1, <2>1 DEF IssuesStay
<1>5. OnlyBy(db, e)
  <2>1. OnlyBy(db, k)
    BY DEF OnlyBy, Undecided
  <2>2. Len(db.inbox) <= Len(k.inbox)
    BY <1>2
  <2> QED BY <1>1, <2>1, <2>2, OnlyByOn
<1>6. Separate(e)
  BY <1>1, SeparateOn
<1>7. Len(db.inbox) <= Len(e.inbox)
  BY <1>2
<1> QED BY <1>1, <1>2, <1>3, <1>4, <1>5, <1>6, <1>7 DEF Leaves, NoTurn

LEMMA TurnOver ==
  ASSUME IInv, Leaves(db'), NoTurn(db'), turn' = None, Analyzing
  PROVE  IInv' /\ OnlyBy(db, db')
<1>1. Consistent(db) /\ Consistent(db') /\ IssuesStay(db, db') /\ Separate(db)' /\ OnlyBy(db, db')
  BY DEF IInv, Leaves
<1>2. /\ sync' = sync /\ sheet' = sheet /\ sending' = sending /\ shown' = shown
      /\ sync \in Sync \cup {None}
  BY DEF Analyzing, IInv, Tasks
<1>3. Shows(db, sheet)'
  BY <1>1, <1>2, ShowsOn DEF IInv
<1>4. Mirrors(db, sync)'
  BY <1>1, <1>2, MirrorsOn DEF IInv
<1>5. DOMAIN db.outbox \subseteq DOMAIN db'.outbox
  BY <1>1 DEF Leaves, Consistent, Tables
<1>6. Tasks'
  BY <1>2, <1>5 DEF IInv, Tasks
<1>7. Asks(db, turn)' /\ InOrder(db, turn)'
  BY DEF Asks, InOrder, NoTurn
<1> QED BY <1>1, <1>3, <1>4, <1>6, <1>7 DEF IInv

-----------------------------------------------------------------------------
(* The steps of the analysis. *)

LEMMA StartTurnStep ==
  ASSUME IInv, StartTurn
  PROVE  IInv' /\ OnlyBy(db, db')
<1> DEFINE m == NextMessage(db)
           pending == PendingMessages(db)
           o == db.inbox[m]
           r == [o EXCEPT !.status = "running", !.attempts = o.attempts + 1]
           e == [db EXCEPT !.inbox[m] = r]
<1>1. /\ turn = None /\ m # None /\ db' = MarkRunning(db, m)
      /\ turn' = [message |-> m, thread |-> SessionFor(db, m)]
      /\ sending' = sending /\ sync' = sync /\ sheet' = sheet /\ shown' = shown
  BY DEF StartTurn, Analyzing
<1>2. Consistent(db) /\ Tasks /\ DOMAIN db.inbox = 1 .. Len(db.inbox) /\ Len(db.inbox) \in Nat
  BY DEF IInv, Consistent, Tables
<1>3. pending # {} /\ m = Least(pending) /\ pending \subseteq Nat /\ pending \subseteq DOMAIN db.inbox
  <2>1. pending # {} /\ m = Least(pending)
    BY <1>1 DEF NextMessage
  <2>2. pending \subseteq DOMAIN db.inbox
    BY DEF PendingMessages
  <2> QED BY <1>2, <2>1, <2>2
<1>4. m \in pending /\ \A k \in pending : m <= k
  BY <1>3, LeastIsLeast
<1> HIDE DEF m
<1>5. m \in DOMAIN db.inbox /\ o.status = "pending" /\ o \in Message /\ m \in Nat
      /\ o.attempts \in 0 .. Attempts /\ o.attempts < Attempts
  BY <1>2, <1>4, RowTypes DEF PendingMessages, Consistent, Bound
<1>6. r \in Message /\ r.status = "running" /\ r.issue = o.issue /\ r.place = o.place
  <2>1. o.attempts + 1 \in 0 .. Attempts
    BY <1>5, Constants
  <2> HIDE DEF o
  <2> QED BY <1>5, <2>1 DEF Message
<1>7. db' = e
  BY <1>1 DEF MarkRunning
<1>8. r.issue \in (DOMAIN db.issues) \cup {None}
  BY <1>2, <1>5, <1>6, RowTypes
<1> HIDE DEF r
<1>9. /\ Consistent(e) /\ e.inbox = [db.inbox EXCEPT ![m] = r] /\ e.outbox = db.outbox
      /\ e.issues = db.issues /\ e.chats = db.chats
  BY <1>2, <1>5, <1>6, <1>8, NewRow
<1> HIDE DEF e
<1>10. /\ e.inbox[m] = r /\ DOMAIN e.inbox = DOMAIN db.inbox
       /\ \A k \in DOMAIN db.inbox : k # m => e.inbox[k] = db.inbox[k]
  BY <1>2, <1>5, <1>9
<1>11. \A i \in DOMAIN db.issues : db.issues[i].revision \in Nat /\ db.issues[i].children \in Nat
  BY <1>2, RowTypes
<1>12. IssuesStay(db, e) /\ ThreadsStay(db, e) /\ OnlyBy(db, e)
  BY <1>9, <1>11 DEF IssuesStay, ThreadsStay, OnlyBy, RowGoesOn
<1>13. SessionFor(db, m) = SessionFor(e, m) /\ SessionFor(db, m) \in Threads \cup {None}
  <2>1. o.issue \in (DOMAIN db.issues) \cup {None} /\ o.place \in Places
    BY <1>2, <1>5, RowTypes
  <2>2. db.chats \in [Places -> Threads \cup {None}]
    BY <1>2 DEF Consistent, Tables
  <2>3. o.issue # None => db.issues[o.issue].thread \in Threads \cup {None}
    BY <1>2, <2>1, RowTypes
  <2> QED BY <1>6, <1>9, <1>10, <2>1, <2>2, <2>3 DEF SessionFor
<1>14. turn' \in Turn /\ turn'.message = m /\ turn'.thread = SessionFor(db, m) /\ turn' # None
  <2>1. turn' \in Turn /\ turn'.message = m /\ turn'.thread = SessionFor(db, m)
    BY <1>1, <1>5, <1>13 DEF Turn
  <2> QED BY <2>1, Constants
<1>15. Asks(db, turn)'
  BY <1>5, <1>6, <1>7, <1>10, <1>13, <1>14 DEF Asks
<1>16. InOrder(db, turn)'
  <2>1. ASSUME NEW n \in DOMAIN db.inbox PROVE db.inbox[n].status # "running"
    BY <1>1 DEF IInv, InOrder
  <2>2. ASSUME NEW k \in 1 .. (m - 1) PROVE e.inbox[k].status = "done"
    <3>1. k \in DOMAIN db.inbox /\ k # m /\ k < m /\ k \in Nat
      BY <1>2, <1>5
    <3>2. k \notin pending
      BY <1>4, <1>5, <3>1
    <3>3. db.inbox[k].status # "pending" /\ db.inbox[k].status # "running"
      BY <2>1, <3>1, <3>2 DEF PendingMessages
    <3>4. db.inbox[k].status \in {"pending", "running", "done"}
      BY <1>2, <3>1, RowTypes
    <3> QED BY <1>10, <3>1, <3>3, <3>4
  <2>3. ASSUME NEW n \in DOMAIN e.inbox, e.inbox[n].status = "running" PROVE n = m
    BY <1>10, <2>1, <2>3
  <2> QED BY <1>7, <1>14, <2>2, <2>3 DEF InOrder
<1>17. Separate(db)' /\ Shows(db, sheet)'
  BY <1>1, <1>2, <1>7, <1>9, <1>12, SeparateOn, ShowsOn DEF IInv
<1>18. Mirrors(db, sync)'
  BY <1>1, <1>2, <1>7, <1>9, <1>12, MirrorsOn DEF IInv, Tasks
<1>19. Tasks'
  BY <1>1, <1>2, <1>7, <1>9, <1>14 DEF Tasks
<1> QED BY <1>7, <1>9, <1>12, <1>15, <1>16, <1>17, <1>18, <1>19 DEF IInv

\* The answer is kept with the conversation it came from.
LEMMA FinishedGoes ==
  ASSUME IInv, turn # None, NEW t \in Threads, t \in Threaded
  PROVE  LET m == turn.message
             k == Conversed(db, m, t)
             f == Finished(m, t) IN
         /\ m \in DOMAIN db.inbox
         /\ Consistent(k) /\ IssuesStay(db, k) /\ Undecided(db, k) /\ Separate(k)
         /\ DOMAIN k.issues = DOMAIN db.issues /\ k.inbox = db.inbox /\ k.outbox = db.outbox
         /\ Goes(k, f, m) /\ f.inbox[m].status = "done"
         /\ DOMAIN f.issues = DOMAIN db.issues
<1> DEFINE m == turn.message
           k == Conversed(db, m, t)
           f == Finished(m, t)
<1> SUFFICES /\ m \in DOMAIN db.inbox
             /\ Consistent(k) /\ IssuesStay(db, k) /\ Undecided(db, k) /\ Separate(k)
             /\ DOMAIN k.issues = DOMAIN db.issues /\ k.inbox = db.inbox /\ k.outbox = db.outbox
             /\ Goes(k, f, m) /\ f.inbox[m].status = "done"
             /\ DOMAIN f.issues = DOMAIN db.issues
  OBVIOUS
<1>1. Consistent(db) /\ Separate(db) /\ m \in DOMAIN db.inbox /\ turn.thread = SessionFor(db, m)
  BY DEF IInv, Asks
<1>2. Fresh(db, m, t)
  BY <1>1 DEF Threaded, Fresh
<1>3. f = Finish(k, m, None)
  BY <1>1, FinishIsConversed DEF Finished
<1>4. /\ Consistent(k) /\ IssuesStay(db, k) /\ Undecided(db, k) /\ Separate(k)
      /\ DOMAIN k.issues = DOMAIN db.issues /\ k.inbox = db.inbox /\ k.outbox = db.outbox
  BY <1>1, <1>2, ConversedStays
<1> HIDE DEF k, f
<1>5. Goes(k, f, m) /\ f.inbox[m].status = "done" /\ DOMAIN f.issues = DOMAIN k.issues
  BY <1>1, <1>3, <1>4, FinishGoes
<1> QED BY <1>1, <1>4, <1>5

LEMMA AnsweredStep ==
  ASSUME IInv, NEW plan \in Plans \cup {None}, NEW t \in Threads, Answered(plan, t)
  PROVE  IInv' /\ OnlyBy(db, db')
<1> DEFINE m == turn.message
           i == db.inbox[m].issue
           k == Conversed(db, m, t)
           f == Finished(m, t)
<1>1. /\ turn # None /\ t \in Threaded /\ (plan # None => i # None)
      /\ db' = (IF plan = None THEN f ELSE Propose(f, i, plan))
      /\ turn' = None /\ Analyzing
  BY DEF Answered
<1>2. /\ m \in DOMAIN db.inbox
      /\ Consistent(k) /\ IssuesStay(db, k) /\ Undecided(db, k) /\ Separate(k)
      /\ DOMAIN k.issues = DOMAIN db.issues /\ k.inbox = db.inbox /\ k.outbox = db.outbox
      /\ Goes(k, f, m) /\ f.inbox[m].status = "done"
      /\ DOMAIN f.issues = DOMAIN db.issues
  BY <1>1, FinishedGoes
<1>3. i \in (DOMAIN db.issues) \cup {None}
  BY <1>2, RowTypes DEF IInv
<1> HIDE DEF f, k, i
<1>4. Goes(k, db', m) /\ db'.inbox[m].status = "done"
  <2>1. CASE plan = None
    BY <1>1, <1>2, <2>1
  <2>2. CASE plan # None
    <3> DEFINE e == Propose(f, i, plan)
    <3>1. i \in DOMAIN f.issues /\ Consistent(f)
      BY <1>1, <1>2, <1>3, <2>2 DEF Goes, Stays
    <3>2. Goes(f, e, m) /\ e.inbox = f.inbox
      BY <3>1, ProposeGoes
    <3> HIDE DEF e
    <3>3. Goes(k, e, m)
      BY <1>2, <3>2, GoesOn
    <3> QED BY <1>1, <1>2, <2>2, <3>2, <3>3 DEF e
  <2> QED BY <2>1, <2>2
<1>5. Leaves(db') /\ NoTurn(db')
  BY <1>1, <1>2, <1>4, TurnEnds
<1> QED BY <1>1, <1>5, TurnOver

LEMMA AnsweredTornStep ==
  ASSUME IInv, NEW t \in Threads, AnsweredTorn(t)
  PROVE  IInv' /\ OnlyBy(db, db')
<1> DEFINE m == turn.message
           k == Conversed(db, m, t)
           f == Finished(m, t)
<1>1. turn # None /\ t \in Threaded /\ Restarted(f)
  BY DEF AnsweredTorn
<1>2. /\ Consistent(k) /\ IssuesStay(db, k) /\ Undecided(db, k) /\ Separate(k)
      /\ DOMAIN k.issues = DOMAIN db.issues /\ k.inbox = db.inbox /\ k.outbox = db.outbox
      /\ Goes(k, f, m) /\ f.inbox[m].status = "done"
  BY <1>1, FinishedGoes
<1> HIDE DEF f, k
<1>3. Leaves(f)
  BY <1>1, <1>2, TurnEnds
<1> QED BY <1>1, <1>3, Restarts

LEMMA AskFailsStep ==
  ASSUME IInv, AskFails
  PROVE  IInv' /\ OnlyBy(db, db')
<1> DEFINE m == turn.message
           o == db.inbox[m]
<1>1. turn # None /\ db' = RetryModel(db, m) /\ turn' = None /\ Analyzing
  BY DEF AskFails
<1>2. Consistent(db) /\ m \in DOMAIN db.inbox /\ o.status = "running" /\ Separate(db)
  BY <1>1 DEF IInv, Asks
<1>3. CASE o.attempts >= Attempts
  <2>1. db' = Finish(db, m, None)
    BY <1>1, <1>3 DEF RetryModel
  <2>2. Goes(db, db', m) /\ db'.inbox[m].status = "done"
    BY <1>2, <2>1, FinishGoes
  <2>3. IssuesStay(db, db) /\ Undecided(db, db)
    BY <1>2, GoesNowhere DEF Goes, Stays
  <2>4. Leaves(db') /\ NoTurn(db')
    BY <1>1, <1>2, <2>2, <2>3, TurnEnds
  <2> QED BY <1>1, <2>4, TurnOver
<1>4. CASE ~(o.attempts >= Attempts)
  <2> DEFINE r == [o EXCEPT !.status = "pending", !.due = FALSE]
             e == [db EXCEPT !.inbox[m] = r]
  <2>1. o \in Message /\ o.issue \in (DOMAIN db.issues) \cup {None} /\ o.attempts \in 0 .. Attempts
        /\ db.inbox \in Seq(Message)
    BY <1>2, RowTypes DEF Consistent, Tables
  <2>2. r \in Message /\ r.issue = o.issue /\ r.attempts = o.attempts /\ r.status = "pending"
    BY <2>1 DEF Message
  <2>3. db' = e
    BY <1>1, <1>4 DEF RetryModel
  <2> HIDE DEF r
  <2>4. r.attempts < Attempts
    BY <1>4, <2>1, <2>2, Constants
  <2>5. /\ Consistent(e) /\ e.inbox = [db.inbox EXCEPT ![m] = r] /\ e.outbox = db.outbox
        /\ e.issues = db.issues /\ e.chats = db.chats
    BY <1>2, <2>1, <2>2, <2>4, NewRow
  <2> HIDE DEF e
  <2>6. /\ Len(e.inbox) = Len(db.inbox) /\ Len(db.inbox) \in Nat /\ Len(db.outbox) \in Nat
        /\ DOMAIN e.inbox = DOMAIN db.inbox
        /\ e.inbox[m] = r
        /\ \A n \in DOMAIN db.inbox : n # m => e.inbox[n] = db.inbox[n]
    BY <1>2, <2>1, <2>5 DEF Consistent, Tables
  <2>7. IssuesStay(db, e) /\ OnlyBy(db, e) /\ Separate(e)
    <3>1. \A i \in DOMAIN db.issues : db.issues[i].revision \in Nat /\ db.issues[i].children \in Nat
      BY <1>2, RowTypes
    <3> QED BY <1>2, <2>5, <3>1 DEF IssuesStay, RowGoesOn, OnlyBy, Separate
  <2>8. NoTurn(e)
    <3>1. \A n \in DOMAIN db.inbox : n # m => db.inbox[n].status # "running"
      BY DEF IInv, InOrder
    <3> QED BY <2>2, <2>6, <3>1 DEF NoTurn
  <2>9. Leaves(e)
    BY <2>5, <2>6, <2>7, <2>8 DEF Leaves, NoTurn
  <2> QED BY <1>1, <2>3, <2>8, <2>9, TurnOver
<1> QED BY <1>3, <1>4

LEMMA MessageDueStep ==
  ASSUME IInv, NEW m \in DOMAIN db.inbox, MessageDue(m)
  PROVE  IInv' /\ OnlyBy(db, db')
<1> DEFINE o == db.inbox[m]
           r == [o EXCEPT !.due = TRUE]
           e == [db EXCEPT !.inbox[m] = r]
<1>1. /\ db' = e /\ turn' = turn /\ sending' = sending /\ sync' = sync /\ sheet' = sheet
      /\ shown' = shown
  BY DEF MessageDue
<1>2. Consistent(db) /\ o \in Message /\ o.issue \in (DOMAIN db.issues) \cup {None}
      /\ db.inbox \in Seq(Message) /\ Tasks
  BY RowTypes DEF IInv, Consistent, Tables
<1>3. r \in Message /\ r.issue = o.issue /\ r.status = o.status /\ r.attempts = o.attempts
      /\ r.place = o.place /\ r.ask = o.ask
  BY <1>2 DEF Message
<1> HIDE DEF r
<1>4. Goes(db, e, m)
  BY <1>2, <1>3, MessageGoes
<1>5. e.inbox = [db.inbox EXCEPT ![m] = r]
  BY <1>2 DEF Consistent, Tables
<1> HIDE DEF e
<1>6. Queued(db, e)
  BY <1>2, <1>3, <1>5 DEF Queued
<1>7. Passes(db, e) /\ OnlyBy(db, e)
  BY <1>4, <1>6, GoesPasses
<1> QED BY <1>1, <1>2, <1>7, PassesOn DEF Tasks

-----------------------------------------------------------------------------
(* The steps of the listeners. *)

LEMMA TypedIsAsk ==
  ASSUME Consistent(db)
  PROVE  Typed \subseteq Ask
<1>1. Asked \subseteq Commands
  BY BridgeAssumption
<1>2. DOMAIN db.issues \subseteq IssueId /\ \A i \in DOMAIN db.issues : db.issues[i].version \in Nat
  BY RowTypes DEF Consistent, Tables
<1> DEFINE A == [op : Asked \ {"sub", "use", "issue", "confirm", "reopen", "verify"},
                 issue : {None}, version : {None}, plan : {None}]
           B == [op : Asked \cap {"sub", "use", "issue"},
                 issue : DOMAIN db.issues, version : {None}, plan : {None}]
           C == [op : Asked \cap {"use", "issue"}, issue : {None}, version : {None}, plan : {None}]
           E == [op : Asked \cap {"verify"}, issue : DOMAIN db.issues, version : {None},
                 plan : Plans]
<1>3. Typed = A \cup B \cup C \cup Verdicts \cup E
  BY DEF Typed
<1>4. A \subseteq Ask /\ C \subseteq Ask
  BY <1>1 DEF Ask
<1>5. B \subseteq Ask /\ E \subseteq Ask
  BY <1>1, <1>2 DEF Ask
<1>6. ASSUME NEW ask \in Verdicts PROVE ask \in Ask
  <2>1. PICK i \in DOMAIN db.issues :
          ask \in [op : Asked \cap {"confirm", "reopen"}, issue : {i},
                   version : {None} \cup 1 .. db.issues[i].version, plan : {None}]
    BY <1>6 DEF Verdicts
  <2>2. {None} \cup 1 .. db.issues[i].version \subseteq Nat \cup {None} /\ i \in IssueId
    BY <1>2
  <2> QED BY <1>1, <2>1, <2>2 DEF Ask
<1> HIDE DEF A, B, C, E
<1> QED BY <1>3, <1>4, <1>5, <1>6

LEMMA ReceiveStep ==
  ASSUME IInv, NEW p \in Places, NEW ask \in Typed, Receive(p, ask) \/ ReceiveTorn(p, ask)
  PROVE  IInv' /\ OnlyBy(db, db')
<1> DEFINE c == Commits(db, p, ask, None)
<1>1. Consistent(db) /\ Tasks /\ ask \in Ask
  BY TypedIsAsk DEF IInv
<1>2. /\ 1 \in DOMAIN c
      /\ \A e \in {c[k] : k \in DOMAIN c} \cup {Last(c)} :
           Passes(db, e) /\ OnlyBy(db, e) /\ Len(db.inbox) <= Len(e.inbox)
  BY <1>1, ArrivalPasses
<1>3. CASE Receive(p, ask)
  <2>1. db' = Last(c) /\ Listening
    BY <1>3 DEF Receive
  <2> HIDE DEF c
  <2>2. Passes(db, db') /\ OnlyBy(db, db')
    BY <1>2, <2>1
  <2> QED BY <1>1, <2>1, <2>2, PassesOn DEF Listening, Tasks
<1>4. CASE ReceiveTorn(p, ask)
  <2>1. Restarted(c[1])
    BY <1>4 DEF ReceiveTorn
  <2> HIDE DEF c
  <2>2. Leaves(c[1])
    BY <1>2, PassesLeaves
  <2> QED BY <2>1, <2>2, Restarts
<1> QED BY <1>3, <1>4

LEMMA PressStep ==
  ASSUME IInv, NEW b \in db.buttons, NEW i \in b.options, Press(b, i) \/ PressTorn(b, i)
  PROVE  IInv' /\ OnlyBy(db, db')
<1> DEFINE c == Commits(db, b.place, AskOf(b, i), b)
<1>1. Consistent(db) /\ Tasks /\ b \in Button
  BY DEF IInv, Consistent, Tables
<1>2. b.place \in Places /\ AskOf(b, i) \in Ask
  BY <1>1 DEF Button, Ask, AskOf
<1>3. /\ 1 \in DOMAIN c
      /\ \A e \in {c[k] : k \in DOMAIN c} \cup {Last(c)} :
           Passes(db, e) /\ OnlyBy(db, e) /\ Len(db.inbox) <= Len(e.inbox)
             /\ db.buttons \subseteq e.buttons
  BY <1>1, <1>2, ArrivalPasses
<1>4. CASE Press(b, i)
  <2> DEFINE e == Last(c)
             u == Used(e, b)
  <2>1. db' = u /\ Listening
    BY <1>4 DEF Press
  <2>2. Passes(db, e) /\ OnlyBy(db, e) /\ db.buttons \subseteq e.buttons
    BY <1>3
  <2> HIDE DEF e
  <2>3. Consistent(e) /\ b \in e.buttons
    BY <2>2 DEF Passes
  <2>4. /\ DOMAIN u = DOMAIN e /\ u.issues = e.issues /\ u.inbox = e.inbox /\ u.outbox = e.outbox
        /\ u.active = e.active /\ u.mode = e.mode /\ u.chats = e.chats
        /\ u.buttons = e.buttons /\ u.used = e.used \cup {b} /\ u.seen = e.seen
    BY <2>3 DEF Used, Consistent, Tables
  <2> HIDE DEF u
  <2>5. Tables(u)
    BY <2>3, <2>4 DEF Consistent, Tables
  <2>6. Consistent(u)
    BY <2>3, <2>4, <2>5 DEF Consistent, Bound, Named, Child, Revised
  <2>7. Passes(db, u) /\ OnlyBy(db, u)
    BY <2>2, <2>4, <2>6 DEF Passes, OnlyBy, Queued, IssuesStay, ThreadsStay
  <2> QED BY <1>1, <2>1, <2>7, PassesOn DEF Listening, Tasks
<1>5. CASE PressTorn(b, i)
  <2>1. PICK k \in DOMAIN c : Restarted(c[k])
    BY <1>5 DEF PressTorn
  <2> HIDE DEF c
  <2>2. Leaves(c[k])
    BY <1>3, PassesLeaves
  <2> QED BY <2>1, <2>2, Restarts
<1> QED BY <1>4, <1>5

LEMMA RestartStep ==
  ASSUME IInv, Restart
  PROVE  IInv' /\ OnlyBy(db, db')
<1>1. Consistent(db) /\ DOMAIN db.inbox = 1 .. Len(db.inbox) /\ Len(db.inbox) \in Nat
  BY DEF IInv, Consistent, Tables
<1>2. Goes(db, db, 0) /\ Queued(db, db)
  BY <1>1, GoesNowhere DEF Queued
<1>3. Leaves(db)
  BY <1>1, <1>2, GoesPasses, PassesLeaves
<1> QED BY <1>3, Restarts DEF Restart

-----------------------------------------------------------------------------
(* The steps of the sender. *)

\* A reply's row changes.
LEMMA ReplyChanges ==
  ASSUME NEW d, NEW n \in DOMAIN d.outbox, NEW r \in Reply, Consistent(d)
  PROVE  LET e == [d EXCEPT !.outbox[n] = r] IN Passes(d, e) /\ OnlyBy(d, e)
<1> DEFINE x == [d.outbox EXCEPT ![n] = r]
           e == [d EXCEPT !.outbox[n] = r]
<1>1. d.outbox \in Seq(Reply) /\ DOMAIN d.outbox = 1 .. Len(d.outbox)
  BY DEF Consistent, Tables
<1>2. x \in Seq(Reply) /\ Len(x) = Len(d.outbox)
  BY <1>1
<1>3. /\ DOMAIN e = DOMAIN d /\ e.issues = d.issues /\ e.inbox = d.inbox /\ e.outbox = x
      /\ e.active = d.active /\ e.mode = d.mode /\ e.chats = d.chats
      /\ e.buttons = d.buttons /\ e.used = d.used /\ e.seen = d.seen
  BY DEF Consistent, Tables
<1> HIDE DEF e, x
<1>4. Tables(e)
  BY <1>2, <1>3 DEF Consistent, Tables
<1>5. Len(d.outbox) <= Len(e.outbox)
  BY <1>1, <1>2, <1>3
<1>6. Goes(d, e, 0)
  BY <1>3, <1>4, <1>5, Elsewhere
<1>7. Queued(d, e)
  BY <1>3 DEF Queued
<1>8. Passes(d, e) /\ OnlyBy(d, e)
  BY <1>6, <1>7, GoesPasses
<1> QED BY <1>8 DEF e

LEMMA ReplyTypes ==
  ASSUME NEW d, NEW n \in DOMAIN d.outbox, Consistent(d)
  PROVE  /\ [d.outbox[n] EXCEPT !.sent = TRUE] \in Reply
         /\ \A due \in BOOLEAN : [d.outbox[n] EXCEPT !.due = due] \in Reply
<1>1. d.outbox[n] \in Reply
  BY DEF Consistent, Tables
<1> QED BY <1>1 DEF Reply

LEMMA NextReplyIsReply ==
  ASSUME Consistent(db), NextReply(db) # None
  PROVE  NextReply(db) \in DOMAIN db.outbox
<1> DEFINE first == {n \in Unsent(db) :
                       /\ db.outbox[n].due
                       /\ \A k \in Unsent(db) :
                            k < n => db.outbox[k].message # db.outbox[n].message}
<1>1. NextReply(db) = Least(first) /\ first # {}
  BY DEF NextReply
<1>2. DOMAIN db.outbox = 1 .. Len(db.outbox) /\ Len(db.outbox) \in Nat
  BY DEF Consistent, Tables
<1>3. first \subseteq DOMAIN db.outbox
  BY DEF Unsent
<1>4. first \subseteq Nat
  BY <1>2, <1>3
<1> HIDE DEF first
<1> QED BY <1>1, <1>3, <1>4, LeastIsLeast

LEMMA SendStep ==
  ASSUME IInv, Send
  PROVE  IInv' /\ OnlyBy(db, db')
<1>1. Consistent(db) /\ Tasks
  BY DEF IInv
<1>2. Passes(db, db) /\ OnlyBy(db, db)
  <2>1. Goes(db, db, 0) /\ Queued(db, db)
    BY <1>1, GoesNowhere DEF Queued
  <2> QED BY <2>1, GoesPasses
<1>3. CASE StartSend
  <2>1. /\ db' = db /\ sending' = NextReply(db) /\ NextReply(db) # None
        /\ shown' = shown /\ UNCHANGED <<turn, sync, sheet>>
    BY <1>3 DEF StartSend, Sending
  <2>2. sending' \in DOMAIN db.outbox
    BY <1>1, <2>1, NextReplyIsReply
  <2> QED BY <1>1, <1>2, <2>1, <2>2, PassesOn DEF Tasks
<1>4. CASE SendSucceeds
  <2>1. /\ sending # None /\ db' = MarkSent(db, sending) /\ sending' = None
        /\ shown' = ShownAfter(TRUE) /\ UNCHANGED <<turn, sync, sheet>>
    BY <1>4 DEF SendSucceeds, Sending
  <2>2. sending \in DOMAIN db.outbox
    BY <1>1, <2>1 DEF Tasks
  <2> DEFINE r == [db.outbox[sending] EXCEPT !.sent = TRUE]
  <2>3. db' = [db EXCEPT !.outbox[sending] = r]
    BY <2>1 DEF MarkSent
  <2>4. r \in Reply
    BY <1>1, <2>2, ReplyTypes
  <2> HIDE DEF r
  <2>5. Passes(db, db') /\ OnlyBy(db, db')
    BY <1>1, <2>2, <2>3, <2>4, ReplyChanges
  <2> QED BY <1>1, <2>1, <2>5, PassesOn DEF Tasks, ShownAfter
<1>5. ASSUME NEW taken \in BOOLEAN, SendFails(taken) PROVE IInv' /\ OnlyBy(db, db')
  <2>1. /\ sending # None /\ db' = RetryReply(db, sending) /\ sending' = None
        /\ shown' = ShownAfter(taken) /\ UNCHANGED <<turn, sync, sheet>>
    BY <1>5 DEF SendFails, Sending
  <2>2. sending \in DOMAIN db.outbox
    BY <1>1, <2>1 DEF Tasks
  <2> DEFINE r == [db.outbox[sending] EXCEPT !.due = FALSE]
  <2>3. db' = [db EXCEPT !.outbox[sending] = r]
    BY <2>1 DEF RetryReply
  <2>4. r \in Reply
    BY <1>1, <2>2, ReplyTypes
  <2> HIDE DEF r
  <2>5. Passes(db, db') /\ OnlyBy(db, db')
    BY <1>1, <2>2, <2>3, <2>4, ReplyChanges
  <2> QED BY <1>1, <2>1, <2>5, PassesOn DEF Tasks, ShownAfter
<1>6. ASSUME NEW n \in DOMAIN db.outbox, ReplyDue(n) PROVE IInv' /\ OnlyBy(db, db')
  <2> DEFINE r == [db.outbox[n] EXCEPT !.due = TRUE]
  <2>1. /\ db' = [db EXCEPT !.outbox[n] = r] /\ sending' = sending
        /\ shown' = shown /\ UNCHANGED <<turn, sync, sheet>>
    BY <1>6 DEF ReplyDue
  <2>2. r \in Reply
    BY <1>1, ReplyTypes
  <2> HIDE DEF r
  <2>3. Passes(db, db') /\ OnlyBy(db, db')
    BY <1>1, <2>1, <2>2, ReplyChanges
  <2> QED BY <1>1, <2>1, <2>3, PassesOn DEF Tasks
<1> QED BY <1>3, <1>4, <1>5, <1>6 DEF Send

-----------------------------------------------------------------------------
(* The steps of the mirror. *)

LEMMA CallChanges ==
  ASSUME IInv, Passes(db, db'), UNCHANGED <<turn, sending, shown>>,
         sync' \in Sync \cup {None}, Shows(db, sheet)', Mirrors(db, sync)'
  PROVE  IInv'
<1>1. Consistent(db) /\ Consistent(db') /\ Tasks
  BY DEF IInv, Passes
<1>2. DOMAIN db.outbox \subseteq DOMAIN db'.outbox
  BY <1>1 DEF Passes, Consistent, Tables
<1>3. Tasks'
  BY <1>1, <1>2 DEF Tasks
<1>4. Asks(db, turn)' /\ InOrder(db, turn)'
  BY <1>1, AsksOn, InOrderOn DEF IInv, Passes
<1>5. Separate(db)'
  BY SeparateOn DEF IInv, Passes
<1> QED BY <1>1, <1>3, <1>4, <1>5 DEF IInv

\* Nothing of the database changes.
LEMMA StandsStill ==
  ASSUME IInv, db' = db
  PROVE  Passes(db, db') /\ OnlyBy(db, db')
<1>1. Goes(db, db, 0) /\ Queued(db, db)
  BY GoesNowhere DEF IInv, Queued
<1> QED BY <1>1, GoesPasses

\* The mirror notes in an issue's row what has become of its call.
LEMMA NoteChanges ==
  ASSUME IInv, NEW i \in DOMAIN db.issues, NEW r \in Issue, db' = [db EXCEPT !.issues[i] = r],
         r.thread = db.issues[i].thread, r.status = db.issues[i].status,
         r.version = db.issues[i].version, r.plan = db.issues[i].plan,
         r.children = db.issues[i].children, r.revision = db.issues[i].revision,
         r.synced <= r.revision,
         UNCHANGED <<turn, sending, shown>>, sync' \in Sync \cup {None},
         Shows(db, sheet)', Mirrors(db, sync)'
  PROVE  IInv' /\ OnlyBy(db, db')
<1>1. Consistent(db) /\ Tasks /\ Asks(db, turn) /\ InOrder(db, turn) /\ Separate(db)
  BY DEF IInv
<1>2. /\ db.issues \in [DOMAIN db.issues -> Issue] /\ db.issues[i].revision \in Nat
      /\ db.issues[i].children \in Nat /\ db.issues[i].revision >= 1
  BY <1>1, RowTypes DEF Consistent, Tables, Revised
<1>3. db.issues[i].children <= r.children /\ r.revision >= 1
  BY <1>2
<1>4. /\ Consistent(db') /\ db'.issues = [db.issues EXCEPT ![i] = r]
      /\ db'.inbox = db.inbox /\ db'.outbox = db.outbox /\ db'.chats = db.chats
  BY <1>1, <1>3, IssueChanges
<1>5. DOMAIN db'.issues = DOMAIN db.issues /\ db'.issues[i] = r
      /\ \A j \in DOMAIN db.issues : j # i => db'.issues[j] = db.issues[j]
  BY <1>2, <1>4
<1>6. ThreadsStay(db, db') /\ Queued(db, db')
  BY <1>4, <1>5 DEF ThreadsStay, Queued
<1>7. Asks(db, turn)' /\ InOrder(db, turn)'
  BY <1>1, <1>6, AsksOn, InOrderOn
<1>8. Separate(db)'
  BY <1>1, <1>5, <1>6 DEF Separate, ThreadsStay
<1>9. OnlyBy(db, db')
  BY <1>5 DEF OnlyBy
<1>10. Tasks'
  BY <1>1, <1>4 DEF Tasks
<1> QED BY <1>4, <1>7, <1>8, <1>9, <1>10 DEF IInv

LEMMA StartSyncStep ==
  ASSUME IInv, NEW i \in DOMAIN db.issues, StartSync(i)
  PROVE  IInv' /\ OnlyBy(db, db')
<1>1. /\ db' = db /\ sheet' = sheet /\ UNCHANGED <<turn, sending, shown>>
      /\ sync' = [Idle(i) EXCEPT !.at = IF db.issues[i].known THEN "read" ELSE "find"]
  BY DEF StartSync, Syncing
<1>2. i \in IssueId /\ Shows(db, sheet) /\ db.issues[i].known \in BOOLEAN
  BY RowTypes DEF IInv, Consistent, Tables, Issue
<1>3. sync' \in Sync /\ sync'.issue = i
      /\ sync'.at = IF db.issues[i].known THEN "read" ELSE "find"
  BY <1>1, <1>2 DEF Idle, Sync, Status
<1>4. Mirrors(db, sync)'
  BY <1>1, <1>2, <1>3 DEF Mirrors, Shows
<1>5. Shows(db, sheet)'
  BY <1>1, <1>2
<1> QED BY <1>1, <1>3, <1>4, <1>5, StandsStill, CallChanges

LEMMA FindRowStep ==
  ASSUME IInv, FindRow
  PROVE  IInv' /\ OnlyBy(db, db')
<1> DEFINE i == sync.issue
           o == db.issues[i]
           r == [o EXCEPT !.known = TRUE]
           e == [db EXCEPT !.issues[i] = r]
<1>1. /\ sync # None /\ sync.at = "find" /\ sheet' = SheetAfter(TRUE) /\ db' = e
      /\ sync' = [sync EXCEPT !.at = "read"] /\ UNCHANGED <<turn, sending, shown>>
  BY DEF FindRow, Syncing
<1>2. Consistent(db) /\ sync \in Sync /\ i \in DOMAIN db.issues
  BY <1>1 DEF IInv, Tasks, Mirrors
<1>3. o \in Issue /\ o.synced \in Nat /\ o.revision \in Nat /\ o.synced <= o.revision
      /\ db.issues \in [DOMAIN db.issues -> Issue]
  BY <1>2, RowTypes DEF Consistent, Tables, Revised
<1>4. /\ r \in Issue /\ r.thread = o.thread /\ r.status = o.status /\ r.version = o.version
      /\ r.plan = o.plan /\ r.children = o.children /\ r.revision = o.revision
      /\ r.synced = o.synced /\ r.known
  BY <1>3 DEF Issue
<1> HIDE DEF r
<1>5. e.issues = [db.issues EXCEPT ![i] = r]
  BY <1>2 DEF Consistent, Tables
<1>6. DOMAIN e.issues = DOMAIN db.issues /\ e.issues[i] = r
      /\ \A j \in DOMAIN db.issues : j # i => e.issues[j] = db.issues[j]
  BY <1>2, <1>3, <1>5
<1> HIDE DEF e
<1>7. Shows(db, sheet')
  BY <1>1, SheetShows
<1>8. Shows(db, sheet)'
  <2>1. Shows(e, sheet')
    BY <1>4, <1>6, <1>7 DEF Shows
  <2> QED BY <1>1, <2>1
<1>9. sync' \in Sync /\ sync'.issue = i /\ sync'.at = "read"
  BY <1>1, <1>2 DEF Sync
<1>10. Mirrors(db, sync)'
  BY <1>1, <1>2, <1>4, <1>6, <1>9 DEF Mirrors
<1>11. r.synced <= r.revision
  BY <1>3, <1>4
<1>12. db' = [db EXCEPT !.issues[i] = r]
  BY <1>1 DEF e
<1> QED BY <1>1, <1>2, <1>4, <1>8, <1>9, <1>10, <1>11, <1>12, NoteChanges

LEMMA WriteRowStep ==
  ASSUME IInv, WriteRow
  PROVE  IInv' /\ OnlyBy(db, db')
<1> DEFINE i == sync.issue
           o == db.issues[i]
           note == <<sync.status, sync.signature>>
           r == [o EXCEPT !.synced = sync.revision, !.written = note]
           e == [db EXCEPT !.issues[i] = r]
<1>1. /\ sync # None /\ sync.at = "write" /\ sheet' = SheetAfter(TRUE) /\ db' = Mirrored(db)
      /\ sync' = None /\ i \in DOMAIN sheet /\ UNCHANGED <<turn, sending, shown>>
  BY DEF WriteRow, Syncing
<1>2. Consistent(db) /\ sync \in Sync /\ i \in DOMAIN db.issues /\ o.known
  BY <1>1 DEF IInv, Tasks, Mirrors
<1>3. /\ o \in Issue /\ o.revision \in Nat /\ sync.revision \in Nat
      /\ db.issues \in [DOMAIN db.issues -> Issue]
      /\ sync.revision <= o.revision
      /\ sync.revision = o.revision => sync.status = o.status /\ sync.plan = o.plan
  BY <1>1, <1>2, RowTypes DEF Consistent, Tables, IInv, Mirrors, Sync
<1>4. note \in (Status \X (Plans \cup {None})) \cup {None}
  BY <1>2 DEF Sync
<1>5. db' = e
  <2> HIDE DEF note
  <2> DEFINE rq == [o EXCEPT !.synced = sync.revision]
             xq == [db.issues EXCEPT ![i] = rq]
             q == [db EXCEPT !.issues = xq]
  <2>1. db' = [q EXCEPT !.issues = [q.issues EXCEPT ![i] = [q.issues[i] EXCEPT !.written = note]]]
    BY <1>1 DEF Mirrored, note
  <2>2. q.issues = xq /\ xq[i] = rq
    BY <1>2, <1>3 DEF Consistent, Tables
  <2>3. [rq EXCEPT !.written = note] = r
    OBVIOUS
  <2> HIDE DEF r, rq
  <2>4. [xq EXCEPT ![i] = r] = [db.issues EXCEPT ![i] = r]
    OBVIOUS
  <2>5. db' = [q EXCEPT !.issues = [xq EXCEPT ![i] = r]]
    BY <2>1, <2>2, <2>3
  <2> HIDE DEF xq
  <2>6. [[db EXCEPT !.issues = xq] EXCEPT !.issues = [xq EXCEPT ![i] = r]]
          = [db EXCEPT !.issues = [db.issues EXCEPT ![i] = r]]
    BY <2>4
  <2> QED BY <2>5, <2>6
<1>6. /\ r \in Issue /\ r.thread = o.thread /\ r.status = o.status /\ r.version = o.version
      /\ r.plan = o.plan /\ r.children = o.children /\ r.revision = o.revision
      /\ r.synced = sync.revision /\ r.known = o.known
  <2> HIDE DEF o, note
  <2> QED BY <1>3, <1>4 DEF Issue
<1> HIDE DEF r
<1>7. e.issues = [db.issues EXCEPT ![i] = r]
  BY <1>2 DEF Consistent, Tables
<1>8. DOMAIN e.issues = DOMAIN db.issues /\ e.issues[i] = r
      /\ \A j \in DOMAIN db.issues : j # i => e.issues[j] = db.issues[j]
  BY <1>2, <1>3, <1>7
<1> HIDE DEF e
<1>9. Shows(db, sheet') /\ sheet' = Written /\ DOMAIN sheet' = DOMAIN sheet
  BY <1>1, SheetShows
<1>10. sheet'[i].status = sync.status /\ (sync.plan # None => sheet'[i].plan = sync.plan)
  <2>1. Written[i] = [status |-> sync.status, by |-> "bridge",
                      plan |-> IF sync.plan # None THEN sync.plan ELSE sheet[i].plan]
    BY <1>1 DEF Written, WithRow
  <2> QED BY <1>9, <2>1
<1>11. Shows(db, sheet)'
  <2>1. r.synced = r.revision => sheet'[i].status = r.status /\ (r.plan # None => sheet'[i].plan = r.plan)
    BY <1>3, <1>6, <1>10
  <2>2. Shows(e, sheet')
    BY <1>1, <1>2, <1>6, <1>8, <1>9, <2>1 DEF Shows
  <2> QED BY <1>5, <2>2
<1>12. Mirrors(db, sync)'
  BY <1>1 DEF Mirrors
<1>13. r.synced <= r.revision
  BY <1>3, <1>6
<1>14. db' = [db EXCEPT !.issues[i] = r]
  BY <1>5 DEF e
<1> QED BY <1>1, <1>2, <1>6, <1>11, <1>12, <1>13, <1>14, NoteChanges

\* An issue waits for its next time, or its time has come.
LEMMA DueGoes ==
  ASSUME NEW i \in DOMAIN db.issues, NEW due \in BOOLEAN, Consistent(db),
         db' = [db EXCEPT !.issues[i].due = due]
  PROVE  Passes(db, db') /\ OnlyBy(db, db')
<1> DEFINE o == db.issues[i]
           r == [o EXCEPT !.due = due]
           e == [db EXCEPT !.issues[i] = r]
<1>1. o \in Issue /\ o.revision \in Nat /\ o.children \in Nat
  BY RowTypes
<1>2. /\ r \in Issue /\ r.thread = o.thread /\ r.status = o.status /\ r.version = o.version
      /\ r.plan = o.plan /\ r.children = o.children /\ r.revision = o.revision
      /\ r.synced = o.synced /\ r.reporter = o.reporter /\ r.known = o.known
  BY <1>1 DEF Issue
<1>3. db' = e
  OBVIOUS
<1> HIDE DEF r
<1>4. RowGoesOn(o, r)
  BY <1>1, <1>2 DEF RowGoesOn
<1>5. Goes(db, e, 0)
  BY <1>2, <1>4, IssueGoes
<1>6. e.inbox = db.inbox
  BY DEF Consistent, Tables
<1> HIDE DEF e
<1>7. Queued(db, e)
  BY <1>6 DEF Queued
<1> QED BY <1>3, <1>5, <1>7, GoesPasses

LEMMA SyncFailsStep ==
  ASSUME IInv, NEW taken \in BOOLEAN, SyncFails(taken)
  PROVE  IInv' /\ OnlyBy(db, db')
<1>1. /\ sync # None /\ sheet' = SheetAfter(taken) /\ sync' = None
      /\ db' = [db EXCEPT !.issues[sync.issue].due = FALSE]
      /\ UNCHANGED <<turn, sending, shown>>
  BY DEF SyncFails, Syncing
<1>2. Consistent(db) /\ sync.issue \in DOMAIN db.issues
  BY <1>1 DEF IInv, Mirrors
<1>3. Passes(db, db') /\ OnlyBy(db, db')
  BY <1>1, <1>2, DueGoes
<1>4. Shows(db, sheet')
  BY <1>1, SheetShows
<1>5. Shows(db, sheet)'
  BY <1>2, <1>3, <1>4, ShowsOn DEF Passes
<1>6. Mirrors(db, sync)'
  BY <1>1 DEF Mirrors
<1> QED BY <1>1, <1>3, <1>5, <1>6, CallChanges

LEMMA RowMissingStep ==
  ASSUME IInv, RowMissing
  PROVE  IInv' /\ OnlyBy(db, db')
<1>1. /\ sync # None /\ sheet' = sheet /\ sync' = None
      /\ db' = [db EXCEPT !.issues[sync.issue].due = FALSE]
      /\ UNCHANGED <<turn, sending, shown>>
  BY DEF RowMissing, Syncing
<1>2. Consistent(db) /\ sync.issue \in DOMAIN db.issues /\ Shows(db, sheet)
  BY <1>1 DEF IInv, Mirrors
<1>3. Passes(db, db') /\ OnlyBy(db, db')
  BY <1>1, <1>2, DueGoes
<1>4. Shows(db, sheet)'
  BY <1>1, <1>2, <1>3, ShowsOn DEF Passes
<1>5. Mirrors(db, sync)'
  BY <1>1 DEF Mirrors
<1> QED BY <1>1, <1>3, <1>4, <1>5, CallChanges

LEMMA IssueDueStep ==
  ASSUME IInv, NEW i \in DOMAIN db.issues, IssueDue(i)
  PROVE  IInv' /\ OnlyBy(db, db')
<1>1. /\ db' = [db EXCEPT !.issues[i].due = TRUE]
      /\ UNCHANGED <<turn, sending, sync, sheet, shown>>
  BY DEF IssueDue
<1>2. Consistent(db) /\ Tasks
  BY DEF IInv
<1>3. Passes(db, db') /\ OnlyBy(db, db')
  BY <1>1, <1>2, DueGoes
<1> QED BY <1>1, <1>2, <1>3, PassesOn DEF Tasks

LEMMA EditStep ==
  ASSUME IInv, NEW i \in DOMAIN sheet, NEW status \in Status, NEW plan \in Plans \cup {None},
         Edit(i, status, plan)
  PROVE  IInv' /\ OnlyBy(db, db')
<1> DEFINE row == [status |-> status, plan |-> plan, by |-> "engineer"]
<1>1. /\ sheet' = WithRow(i, row) /\ UNCHANGED <<db, turn, sending, sync, shown>>
  BY DEF Edit
<1>2. Shows(db, sheet) /\ Mirrors(db, sync) /\ sync \in Sync \cup {None}
  BY DEF IInv, Tasks
<1>3. row \in SheetRow /\ row.by # "bridge"
  BY DEF SheetRow
<1> HIDE DEF row
<1>4. DOMAIN sheet' = DOMAIN sheet /\ sheet'[i] = row
      /\ \A j \in DOMAIN sheet : j # i => sheet'[j] = sheet[j]
  BY <1>1 DEF WithRow
<1>5. sheet' \in [DOMAIN sheet' -> SheetRow]
  BY <1>1, <1>2, <1>3 DEF WithRow, Shows
<1>6. Shows(db, sheet')
  BY <1>2, <1>3, <1>4, <1>5 DEF Shows
<1>7. Mirrors(db, sync)
  BY <1>2, <1>4 DEF Mirrors
<1> QED BY <1>1, <1>2, <1>6, <1>7, StandsStill, CallChanges

\* A row that is gone shows nothing.
LEMMA RemoveStep ==
  ASSUME IInv, NEW i \in DOMAIN sheet, Remove(i)
  PROVE  IInv' /\ OnlyBy(db, db')
<1>1. /\ sheet' = [j \in DOMAIN sheet \ {i} |-> sheet[j]]
      /\ UNCHANGED <<db, turn, sending, sync, shown>>
  BY DEF Remove
<1>2. Shows(db, sheet) /\ Mirrors(db, sync) /\ sync \in Sync \cup {None}
  BY DEF IInv, Tasks
<1>3. DOMAIN sheet' \subseteq DOMAIN sheet /\ \A j \in DOMAIN sheet' : sheet'[j] = sheet[j]
  BY <1>1
<1>4. sheet' \in [DOMAIN sheet' -> SheetRow]
  BY <1>1, <1>2 DEF Shows
<1>5. Shows(db, sheet')
  BY <1>2, <1>3, <1>4 DEF Shows
<1> QED BY <1>1, <1>2, <1>5, StandsStill, CallChanges

\* A submission is a plan like any other, and it is noted that it was taken.
LEMMA TakenGoes ==
  ASSUME NEW i \in DOMAIN db.issues, NEW row \in SheetRow, Consistent(db)
  PROVE  LET d == Taken(i, row) IN Passes(db, d) /\ OnlyBy(db, d)
<1> DEFINE d == Taken(i, row)
<1> SUFFICES Passes(db, d) /\ OnlyBy(db, d)
  OBVIOUS
<1>1. CASE ~Submitted(i, row)
  <2>1. d = db
    BY <1>1 DEF Taken
  <2>2. Goes(db, d, 0) /\ Queued(db, d)
    BY <2>1, GoesNowhere DEF Queued
  <2> QED BY <2>2, GoesPasses
<1>2. CASE Submitted(i, row)
  <2> DEFINE p == Propose(db, i, row.plan)
             e == [p EXCEPT !.seen = p.seen \cup {<<i, row.plan>>}]
  <2>1. d = e
    BY <1>2 DEF Taken
  <2>2. row.plan \in Plans /\ row.plan \in Plans \cup {None}
    BY <1>2 DEF Submitted, SheetRow
  <2>3. Goes(db, p, 0) /\ p.inbox = db.inbox /\ DOMAIN p.issues = DOMAIN db.issues
    BY <2>2, ProposeGoes
  <2> HIDE DEF p
  <2>4. Consistent(p)
    BY <2>3 DEF Goes, Stays
  <2>5. /\ DOMAIN e = DOMAIN p /\ e.issues = p.issues /\ e.inbox = p.inbox /\ e.outbox = p.outbox
        /\ e.active = p.active /\ e.mode = p.mode /\ e.chats = p.chats
        /\ e.buttons = p.buttons /\ e.used = p.used /\ e.seen = p.seen \cup {<<i, row.plan>>}
    BY <2>4 DEF Consistent, Tables
  <2> HIDE DEF e
  <2>6. <<i, row.plan>> \in (DOMAIN p.issues) \X Plans
    BY <2>2, <2>3
  <2>7. Tables(e) /\ Len(p.outbox) <= Len(e.outbox)
    BY <2>4, <2>5, <2>6 DEF Consistent, Tables
  <2>8. Goes(p, e, 0)
    BY <2>4, <2>5, <2>7, Elsewhere
  <2>9. Goes(db, e, 0)
    BY <2>3, <2>8, GoesOn
  <2>10. Queued(db, e)
    BY <2>3, <2>5 DEF Queued
  <2> QED BY <2>1, <2>9, <2>10, GoesPasses
<1> QED BY <1>1, <1>2

LEMMA ReadRowStep ==
  ASSUME IInv, ReadRow
  PROVE  IInv' /\ OnlyBy(db, db')
<1> DEFINE i == sync.issue
           issue == db'.issues[i]
           call == [issue |-> i, at |-> "write", status |-> issue.status, plan |-> issue.plan,
                    signature |-> IF issue.plan # None THEN issue.plan ELSE sheet[i].plan,
                    revision |-> issue.revision]
<1>1. /\ sync # None /\ sync.at = "read" /\ i \in DOMAIN sheet /\ db' = Taken(i, sheet[i])
      /\ sync' \in {None, call}
      /\ sheet' = sheet /\ UNCHANGED <<turn, sending, shown>>
  BY DEF ReadRow, Syncing
<1>2. /\ Consistent(db) /\ Shows(db, sheet) /\ i \in DOMAIN db.issues /\ db.issues[i].known
      /\ i \in IssueId
  BY <1>1 DEF IInv, Mirrors, Consistent, Tables
<1>3. sheet[i] \in SheetRow /\ sheet[i].plan \in Plans \cup {None}
  BY <1>1, <1>2 DEF Shows, SheetRow
<1>4. Passes(db, db') /\ OnlyBy(db, db')
  BY <1>1, <1>2, <1>3, TakenGoes
<1>5. Consistent(db') /\ i \in DOMAIN db'.issues /\ issue.known
  BY <1>2, <1>4 DEF Passes, IssuesStay, RowGoesOn
<1>6. Shows(db, sheet)'
  BY <1>1, <1>2, <1>4, ShowsOn DEF Passes
<1>7. /\ issue.status \in Status /\ issue.plan \in Plans \cup {None} /\ issue.revision \in Nat
      /\ issue.synced <= issue.revision
  BY <1>5, RowTypes DEF Consistent, Revised
<1>8. /\ call \in Sync /\ call.issue = i /\ call.at = "write" /\ call.status = issue.status
      /\ call.plan = issue.plan /\ call.revision = issue.revision
  <2> HIDE DEF issue
  <2> QED BY <1>2, <1>3, <1>7 DEF Sync
<1> HIDE DEF call
<1>9. Mirrors(db', call)
  BY <1>1, <1>2, <1>5, <1>7, <1>8 DEF Mirrors
<1>10. sync' \in Sync \cup {None} /\ Mirrors(db, sync)'
  BY <1>1, <1>8, <1>9 DEF Mirrors
<1> QED BY <1>1, <1>4, <1>6, <1>10, CallChanges

-----------------------------------------------------------------------------
(* The invariant. *)

\* The empty database is consistent, and no task has a call in flight.
LEMMA IInvInit == Init => IInv
<1> SUFFICES ASSUME Init PROVE IInv
  OBVIOUS
<1>1. db = EmptyDatabase /\ turn = None /\ sending = None /\ sync = None /\ sheet = << >>
      /\ shown = {}
  BY DEF Init
<1>2. /\ DOMAIN db = {"inbox", "outbox", "issues", "active", "mode", "chats", "buttons", "used",
                      "seen"}
      /\ db.inbox = << >> /\ db.outbox = << >> /\ db.issues = << >>
      /\ db.active = [p \in Places |-> None] /\ db.mode = [p \in Places |-> None]
      /\ db.chats = [p \in Places |-> None]
      /\ db.buttons = {} /\ db.used = {} /\ db.seen = {}
  BY <1>1 DEF EmptyDatabase
<1>3. DOMAIN db.issues = {} /\ DOMAIN db.inbox = {} /\ DOMAIN sheet = {} /\ DOMAIN db.outbox = {}
  BY <1>1, <1>2
<1>4. db.issues \in [DOMAIN db.issues -> Issue] /\ sheet \in [DOMAIN sheet -> SheetRow]
  BY <1>1, <1>2, <1>3
<1>5. Tables(db)
  BY <1>2, <1>3, <1>4 DEF Tables
<1>6. Consistent(db)
  BY <1>3, <1>5 DEF Consistent, Bound, Named, Revised
<1>7. Separate(db)
  BY <1>2, <1>3 DEF Separate
<1>8. Asks(db, turn) /\ InOrder(db, turn) /\ Shows(db, sheet) /\ Mirrors(db, sync)
  BY <1>1, <1>3, <1>4 DEF Asks, InOrder, Shows, Mirrors
<1> QED BY <1>1, <1>6, <1>7, <1>8 DEF IInv, Tasks

\* Every step keeps the invariant, and decides nothing its reporter did not.
LEMMA IInvStep ==
  ASSUME IInv, [Next]_vars
  PROVE  IInv' /\ OnlyBy(db, db')
<1>1. CASE Restart
  BY <1>1, RestartStep
<1>2. CASE Hear
  <2>1. ASSUME NEW p \in Places, NEW ask \in Typed, Receive(p, ask) \/ ReceiveTorn(p, ask)
        PROVE  IInv' /\ OnlyBy(db, db')
    BY <2>1, ReceiveStep
  <2>2. ASSUME NEW b \in db.buttons, NEW i \in b.options, Press(b, i) \/ PressTorn(b, i)
        PROVE  IInv' /\ OnlyBy(db, db')
    BY <2>2, PressStep
  <2> QED BY <1>2, <2>1, <2>2 DEF Hear
<1>3. CASE Analyze
  <2>1. CASE StartTurn
    BY <2>1, StartTurnStep
  <2>2. ASSUME NEW plan \in Plans \cup {None}, NEW t \in Threads, Answered(plan, t)
        PROVE  IInv' /\ OnlyBy(db, db')
    BY <2>2, AnsweredStep
  <2>3. ASSUME NEW t \in Threads, AnsweredTorn(t) PROVE IInv' /\ OnlyBy(db, db')
    BY <2>3, AnsweredTornStep
  <2>4. CASE AskFails
    BY <2>4, AskFailsStep
  <2>5. ASSUME NEW m \in DOMAIN db.inbox, MessageDue(m) PROVE IInv' /\ OnlyBy(db, db')
    BY <2>5, MessageDueStep
  <2> QED BY <1>3, <2>1, <2>2, <2>3, <2>4, <2>5 DEF Analyze
<1>4. CASE Mirror
  <2>1. ASSUME NEW i \in DOMAIN db.issues, StartSync(i) PROVE IInv' /\ OnlyBy(db, db')
    BY <2>1, StartSyncStep
  <2>2. ASSUME NEW i \in DOMAIN db.issues, IssueDue(i) PROVE IInv' /\ OnlyBy(db, db')
    BY <2>2, IssueDueStep
  <2>3. CASE FindRow
    BY <2>3, FindRowStep
  <2>4. CASE ReadRow
    BY <2>4, ReadRowStep
  <2>5. CASE WriteRow
    BY <2>5, WriteRowStep
  <2>6. ASSUME NEW taken \in BOOLEAN, SyncFails(taken) PROVE IInv' /\ OnlyBy(db, db')
    BY <2>6, SyncFailsStep
  <2>7. ASSUME NEW i \in DOMAIN sheet, NEW status \in Status, NEW plan \in Plans \cup {None},
               Edit(i, status, plan)
        PROVE  IInv' /\ OnlyBy(db, db')
    BY <2>7, EditStep
  <2>8. ASSUME NEW i \in DOMAIN sheet, Remove(i) PROVE IInv' /\ OnlyBy(db, db')
    BY <2>8, RemoveStep
  <2>9. CASE RowMissing
    BY <2>9, RowMissingStep
  <2> QED BY <1>4, <2>1, <2>2, <2>3, <2>4, <2>5, <2>6, <2>7, <2>8, <2>9 DEF Mirror
<1>5. CASE Send
  BY <1>5, SendStep
<1>6. CASE UNCHANGED vars
  <2>1. db' = db /\ UNCHANGED <<turn, sending, sync, sheet, shown>>
    BY <1>6 DEF vars
  <2>2. Passes(db, db') /\ OnlyBy(db, db')
    BY <2>1, StandsStill
  <2> QED BY <2>1, <2>2, PassesOn DEF IInv, Tasks
<1> QED BY <1>1, <1>2, <1>3, <1>4, <1>5, <1>6 DEF Next, Work

LEMMA IInvHolds == Spec => []IInv
<1>1. IInv /\ [Next]_vars => IInv'
  BY IInvStep
<1> QED BY IInvInit, <1>1, PTL DEF Spec

-----------------------------------------------------------------------------
(* What follows from it. *)

\* The database, its tables and the calls in flight are well-typed: a message
\* has an attempt left whenever it waits, an active issue exists, a button was
\* drawn before it was used.
THEOREM BridgeTypeCorrect == Spec => []TypeOK
<1>1. IInv => TypeOK
  <2> SUFFICES ASSUME IInv PROVE TypeOK
    OBVIOUS
  <2>1. Tables(db) /\ Tasks /\ Shows(db, sheet)
    BY DEF IInv, Consistent
  <2>2. \A i \in DOMAIN db.issues : i \in IssueId /\ db.issues[i] \in Issue
    BY <2>1 DEF Tables
  <2>3. \A i \in DOMAIN sheet : i \in DOMAIN db.issues /\ sheet[i] \in SheetRow
    BY <2>1 DEF Shows
  <2> QED BY <2>1, <2>2, <2>3 DEF TypeOK, Tables, Tasks
<1> QED BY <1>1, IInvHolds, PTL

\* analyze: through failing calls, back-off and restarts, a message is asked
\* about only when every message before it is done with.
THEOREM QueueKeepsOrder == Spec => []QueueInOrder
<1>1. IInv => QueueInOrder
  BY DEF IInv, InOrder, QueueInOrder
<1> QED BY <1>1, IInvHolds, PTL

\* finish: however turns, new issues and restarts interleave, no Codex
\* conversation serves two issues, two places, or an issue and a chat.
THEOREM ConversationsStayApart == Spec => []ThreadsAreSeparate
<1>1. IInv => ThreadsAreSeparate
  BY DEF IInv, Separate, ThreadsAreSeparate
<1> QED BY <1>1, IInvHolds, PTL

\* sync_base: a row that counts as mirrored and that no engineer has edited
\* shows the issue's status and plan, whatever changed during the calls.
THEOREM MirroredRowIsCurrent == Spec => []MirrorIsCurrent
<1>1. IInv => MirrorIsCurrent
  BY DEF IInv, Shows, MirrorIsCurrent
<1> QED BY <1>1, IInvHolds, PTL

\* resolve_issue, propose_solution: no order of answers, edits, commands,
\* buttons and restarts decides an issue without its reporter, or changes one
\* that is resolved.
THEOREM ReportersDecide == Spec => OnlyReporterDecides
<1> DEFINE Step ==
      \A i \in DOMAIN db.issues :
        LET old == db.issues[i]
            new == db'.issues[i]
        IN /\ old.status # new.status /\ new.status # "waiting" =>
                /\ old.status = "waiting"
                /\ Len(db'.inbox) > Len(db.inbox)
                /\ Decides(Last(db'.inbox), i, new.status)
           /\ old.status = "resolved" =>
                /\ new.status = "resolved"
                /\ new.version = old.version /\ new.plan = old.plan
<1>1. OnlyBy(db, db') => Step
  BY DEF OnlyBy, Decides
<1>2. IInv /\ [Next]_vars => Step
  BY <1>1, IInvStep
<1>3. IInv /\ [Next]_vars => [Step]_vars
  BY <1>2
<1> QED BY <1>3, IInvHolds, PTL DEF Spec, OnlyReporterDecides

-----------------------------------------------------------------------------
(* The process of the bridge: for any number of instances and commands,    *)
(* one instance at a time holds the lock, and what stop, start and         *)
(* health.json say is so.                                                  *)
(*                                                                         *)
(* The argument: whoever is between taking the lock and giving it back,    *)
(* instance or probe, is the one the system has on record as its holder.   *)
(* So a probe that finds the lock free knows that no instance is running,  *)
(* and a stop that waited for it knows that the instance it signalled,     *)
(* which can only end, has ended.                                          *)

Ended == {"gone", "killed"}
Started == {"running", "stopping"} \cup Ended
Waiting == {"wait", "wait holding", "wait reading", "last", "last holding", "last reading"}
ProbeHolds == {"holding", "wait holding", "last holding"}

\* Who is inside the lock is its holder.
LockIsHeld ==
  /\ \A p \in Instances : instance[p] \in Holding => lock = p
  /\ \A c \in Invocations : command[c].at \in ProbeHolds => lock = c

\* A stop waits for an instance that had the lock, and has seen it end when the
\* wait is over; what was said is said at the end.
StopKnows ==
  \A c \in Invocations :
    /\ command[c].at \in Waiting =>
         found[c] \in Instances /\ instance[found[c]] \in Holding \cup Ended
    /\ command[c].at = "stopped" \/ said[c] = "stopped" =>
         found[c] \in Instances /\ instance[found[c]] \in Ended
    /\ said[c] # "nothing" => command[c].at = "done"

\* health.json is written from run() only; a start that polls has a child.
HealthIsOfARun ==
  /\ \A p \in Instances : health.pid = p => instance[p] \in Started
  /\ \A c \in Invocations :
       /\ command[c].at = "polling" => child[c] \in Instances
       /\ said[c] = "ready" => child[c] \in Instances /\ instance[child[c]] \in Started

ControlInv == ControlTypeOK /\ LockIsHeld /\ StopKnows /\ HealthIsOfARun /\ CleanEndIsRecorded

\* The steps by which an instance or a command goes on, for the case analyses.
LEMMA ControlCases ==
  ASSUME NEW P, [ControlNext]_controlVars,
         \A p \in Instances : InstanceStep(p) => P,
         \A c \in Invocations : CommandStep(c) => P,
         UNCHANGED controlVars => P
  PROVE  P
BY DEF ControlNext

\* A command that goes on is still a command.
CommandType == command \in [Invocations -> [kind : Kinds \cup {"none"}, at : Calls]]

LEMMA StepType ==
  ASSUME CommandType, NEW c \in Invocations, NEW at \in Calls, StepTo(c, at)
  PROVE  CommandType'
<1> DEFINE R == [kind : Kinds \cup {"none"}, at : Calls]
<1>1. command[c] \in R
  BY DEF CommandType
<1>2. [command[c] EXCEPT !.at = at] \in R
  BY <1>1
<1>3. command' = [command EXCEPT ![c] = [command[c] EXCEPT !.at = at]]
  BY DEF StepTo, CommandType
<1> QED BY <1>2, <1>3 DEF CommandType

LEMMA StepAt ==
  ASSUME ControlTypeOK, NEW c \in Invocations, NEW at, StepTo(c, at)
  PROVE  /\ command'[c].at = at
         /\ \A d \in Invocations : d # c => command'[d] = command[d]
BY DEF ControlTypeOK, StepTo

\* The lock's holder, and everything else, is of its type.
LEMMA TypeStep == ASSUME ControlTypeOK, [ControlNext]_controlVars PROVE ControlTypeOK'
<1> USE BridgeControlAssumption
<1>1. ASSUME NEW p \in Instances, InstanceStep(p) PROVE ControlTypeOK'
  <2>1. CASE Launch(p) \/ AcquireLock(p) \/ Truncate(p) \/ WritePid(p) \/ Run(p)
    BY <2>1 DEF ControlTypeOK, Launch, AcquireLock, Truncate, WritePid, Run, Goto, Stages, Holding,
                inside, outside, file
  <2>2. ASSUME NEW line \in CardLines, HearMessages(p, line) \/ HearCards(p, line) PROVE ControlTypeOK'
    BY <2>2 DEF ControlTypeOK, HearMessages, HearCards, Lines, CardLines, outside, file
  <2>3. CASE TaskRaises(p) \/ Obey(p)
    BY <2>3 DEF ControlTypeOK, TaskRaises, Obey, Goto, Stages, Holding, Lines, inside, outside, file
  <2>4. CASE Heartbeat(p)
    BY <2>4 DEF ControlTypeOK, Heartbeat, Lines, outside, file
  <2>5. CASE End(p) \/ Die(p)
    <3>1. instance' \in [Instances -> Stages] /\ lock' \in Instances \cup Invocations \cup {Absent}
      BY <2>5 DEF ControlTypeOK, End, Die, Goto, Stages
    <3>2. /\ connection' \in [Instances -> Lines] /\ card_connection' \in [Instances -> CardLines]
          /\ asked' \subseteq Instances
      BY <2>5 DEF ControlTypeOK, End, Die, Lines, CardLines
    <3>3. health' \in [pid : Instances \cup {Absent}, connection : Lines \cup {"none"}]
      BY <2>5 DEF ControlTypeOK, End, Die, Lines
    <3>4. UNCHANGED <<text, command, found, child, said>>
      BY <2>5 DEF End, Die, outside
    <3> QED BY <3>1, <3>2, <3>3, <3>4 DEF ControlTypeOK
  <2> QED BY <1>1, <2>1, <2>2, <2>3, <2>4, <2>5 DEF InstanceStep
<1>2. ASSUME NEW c \in Invocations, CommandStep(c) PROVE ControlTypeOK'
  <2>1. ASSUME NEW kind \in Kinds, Type(c, kind) PROVE ControlTypeOK'
    BY <2>1 DEF ControlTypeOK, Type, Call, Calls, inside, file
  <2>2. CASE NoFile(c) \/ Probe(c) \/ ProbeFree(c)
    BY <2>2, StepType DEF ControlTypeOK, CommandType, NoFile, Probe, ProbeFree, Holds, Reads, Calls,
                inside, file
  <2>3. CASE ReadPid(c)
    <3>1. CommandType'
      <4>1. CommandType /\ {"next", "wait", "last", "done"} \subseteq Calls
        BY DEF ControlTypeOK, CommandType, Calls
      <4>2. \E at \in {"next", "wait", "last", "done"} : StepTo(c, at)
        BY <2>3 DEF ReadPid, Say
      <4> QED BY <4>1, <4>2, StepType
    <3>2. said' \in [Invocations -> Words]
      BY <2>3 DEF ControlTypeOK, ReadPid, Say, Words
    <3>3. found' \in [Invocations -> Instances \cup {Absent}]
      BY <2>3 DEF ControlTypeOK, ReadPid
    <3>4. UNCHANGED <<lock, text, instance, connection, card_connection, asked, health, child>>
      BY <2>3 DEF ReadPid, inside, file
    <3> QED BY <3>1, <3>2, <3>3, <3>4 DEF ControlTypeOK, CommandType
  <2>4. CASE StatusEnds(c) \/ NotRunning(c) \/ Stopped(c)
    BY <2>4, StepType DEF ControlTypeOK, CommandType, StatusEnds, NotRunning, Stopped, Say, Calls, Words,
                inside, file
  <2>5. CASE Signal(c)
    <3>1. CommandType'
      <4>1. CommandType /\ {"next", "wait", "polling", "done"} \subseteq Calls
        BY DEF ControlTypeOK, CommandType, Calls
      <4>2. \E at \in {"next", "wait", "polling", "done"} : StepTo(c, at)
        BY <2>5 DEF Signal, Say
      <4> QED BY <4>1, <4>2, StepType
    <3>2. instance' \in [Instances -> Stages] /\ said' \in [Invocations -> Words]
      BY <2>5 DEF ControlTypeOK, Signal, Say, Goto, Stages, Words
    <3>3. asked' \subseteq Instances /\ lock' \in Instances \cup Invocations \cup {Absent}
      BY <2>5 DEF ControlTypeOK, Signal
    <3> QED BY <2>5, <3>1, <3>2, <3>3 DEF ControlTypeOK, CommandType, Signal
  <2>6. ASSUME NEW p \in Instances, LaunchChild(c, p) PROVE ControlTypeOK'
    <3>1. CommandType'
      <4>1. CommandType /\ {"next", "wait", "polling", "done"} \subseteq Calls
        BY DEF ControlTypeOK, CommandType, Calls
      <4>2. \E at \in {"next", "wait", "polling", "done"} : StepTo(c, at)
        BY <2>6 DEF LaunchChild, Say
      <4> QED BY <4>1, <4>2, StepType
    <3>2. instance' \in [Instances -> Stages] /\ said' \in [Invocations -> Words]
      BY <2>6 DEF ControlTypeOK, LaunchChild, Say, Goto, Stages, Words
    <3> QED BY <2>6, <3>1, <3>2 DEF ControlTypeOK, CommandType, LaunchChild, inside, file
  <2>7. CASE Ready(c) \/ NotReady(c)
    BY <2>7, StepType DEF ControlTypeOK, CommandType, Ready, NotReady, Say, Calls, Words, inside, file
  <2> QED BY <1>2, <2>1, <2>2, <2>3, <2>4, <2>5, <2>6, <2>7 DEF CommandStep
<1>3. UNCHANGED controlVars => ControlTypeOK'
  BY DEF controlVars, ControlTypeOK
<1> QED BY <1>1, <1>2, <1>3, ControlCases

\* A command that takes no lock leaves it with its holder.
LEMMA LockKept ==
  ASSUME ControlTypeOK, LockIsHeld, NEW c \in Invocations, NEW at, StepTo(c, at), at \notin ProbeHolds,
         UNCHANGED lock,
         \A p \in Instances : instance'[p] \in Holding => instance[p] \in Holding
  PROVE  LockIsHeld'
BY StepAt DEF LockIsHeld

\* Between taking the lock and giving it back nobody else takes it.
LEMMA LockStep == ASSUME ControlTypeOK, LockIsHeld, [ControlNext]_controlVars PROVE LockIsHeld'
<1> USE BridgeControlAssumption
<1>1. ASSUME NEW p \in Instances, InstanceStep(p) PROVE LockIsHeld'
  <2>1. CASE Launch(p) \/ AcquireLock(p) \/ Truncate(p) \/ WritePid(p) \/ Run(p)
    BY <2>1 DEF ControlTypeOK, LockIsHeld, Launch, AcquireLock, Truncate, WritePid, Run, Goto,
                Holding, ProbeHolds, outside, file
  <2>2. ASSUME NEW line \in CardLines, HearMessages(p, line) \/ HearCards(p, line) PROVE LockIsHeld'
    BY <2>2 DEF LockIsHeld, HearMessages, HearCards, outside, file
  <2>3. CASE TaskRaises(p) \/ Obey(p) \/ Heartbeat(p)
    BY <2>3 DEF ControlTypeOK, LockIsHeld, TaskRaises, Obey, Heartbeat, Goto, Holding, outside, file
  <2>4. CASE End(p) \/ Die(p)
    BY <2>4 DEF ControlTypeOK, LockIsHeld, End, Die, Alive, Goto, Holding, outside
  <2> QED BY <1>1, <2>1, <2>2, <2>3, <2>4 DEF InstanceStep
<1>2. ASSUME NEW c \in Invocations, CommandStep(c) PROVE LockIsHeld'
  <2>1. ASSUME NEW kind \in Kinds, Type(c, kind) PROVE LockIsHeld'
    BY <2>1 DEF ControlTypeOK, LockIsHeld, Type, Call, ProbeHolds, file
  <2>2. CASE NoFile(c)
    BY <2>2, LockKept DEF NoFile, ProbeHolds, file
  <2>3. CASE Probe(c)
    <3>1. CASE lock # Absent
      BY <2>3, <3>1, LockKept DEF Probe, Reads, ProbeHolds
    <3>2. CASE lock = Absent
      <4>1. PICK at \in {"wait holding", "holding", "last holding"} : StepTo(c, at)
        BY <2>3, <3>2 DEF Probe, Holds
      <4>2. lock' = c /\ UNCHANGED instance
        BY <2>3, <3>2 DEF Probe
      <4> QED BY <3>2, <4>1, <4>2, StepAt DEF LockIsHeld
    <3> QED BY <3>1, <3>2
  <2>4. CASE ProbeFree(c)
    <3>1. PICK at \in {"next", "last", "stopped"} : StepTo(c, at)
      BY <2>4 DEF ProbeFree
    <3>2. lock = c /\ UNCHANGED instance
      BY <2>4 DEF ProbeFree, LockIsHeld, ProbeHolds
    <3> QED BY <3>1, <3>2, StepAt DEF LockIsHeld, ProbeHolds
  <2>5. CASE ReadPid(c)
    <3>1. \E at \in {"next", "wait", "last", "done"} : StepTo(c, at)
      BY <2>5 DEF ReadPid, Say
    <3> QED BY <2>5, <3>1, LockKept DEF ReadPid, ProbeHolds, file
  <2>6. CASE StatusEnds(c) \/ NotRunning(c) \/ Stopped(c)
    BY <2>6, LockKept DEF StatusEnds, NotRunning, Stopped, Say, ProbeHolds, file
  <2>7. CASE Signal(c)
    <3>1. PICK at \in {"wait", "done"} : StepTo(c, at)
      BY <2>7 DEF Signal, Say
    <3>2. CASE UNCHANGED <<instance, lock>>
      BY <3>1, <3>2, LockKept DEF ProbeHolds
    <3>3. CASE instance[found[c]] = "acquired" /\ Goto(found[c], "killed") /\ lock' = Absent
      <4>1. found[c] \in Instances /\ lock = found[c]
        BY <2>7, <3>3 DEF ControlTypeOK, Signal, LockIsHeld, Holding
      <4>2. \A q \in Instances : instance'[q] \notin Holding
        BY <3>3, <4>1 DEF ControlTypeOK, LockIsHeld, Goto, Holding
      <4>3. \A d \in Invocations : command[d].at \notin ProbeHolds
        BY <4>1 DEF LockIsHeld
      <4>4. \A d \in Invocations : command'[d].at \notin ProbeHolds
        BY <3>1, <4>3, StepAt DEF ProbeHolds
      <4> QED BY <4>2, <4>4 DEF LockIsHeld
    <3> QED BY <2>7, <3>2, <3>3 DEF Signal
  <2>8. ASSUME NEW p \in Instances, LaunchChild(c, p) PROVE LockIsHeld'
    <3>1. PICK at \in {"polling", "done"} : StepTo(c, at)
      BY <2>8 DEF LaunchChild, Say
    <3>2. UNCHANGED lock /\ \A q \in Instances : instance'[q] \in Holding => instance[q] \in Holding
      BY <2>8 DEF ControlTypeOK, LaunchChild, Goto, Holding, file
    <3> QED BY <3>1, <3>2, LockKept DEF ProbeHolds
  <2>9. CASE Ready(c) \/ NotReady(c)
    BY <2>9, LockKept DEF Ready, NotReady, Say, ProbeHolds, file
  <2> QED BY <1>2, <2>1, <2>2, <2>3, <2>4, <2>5, <2>6, <2>7, <2>8, <2>9 DEF CommandStep
<1>3. UNCHANGED controlVars => LockIsHeld'
  BY DEF controlVars, LockIsHeld
<1> QED BY <1>1, <1>2, <1>3, ControlCases

\* An instance only goes forward: what has ended stays so, what had the lock has
\* it or has ended, what was in run() was in run().
Forward ==
  \A p \in Instances :
    /\ instance[p] \in Holding => instance'[p] \in Holding \cup Ended
    /\ instance[p] \in Started => instance'[p] \in Started
    /\ instance[p] \in Ended => instance'[p] = instance[p]

LEMMA InstancesGoForward == ASSUME ControlTypeOK, [ControlNext]_controlVars PROVE Forward
<1>1. ASSUME NEW p \in Instances, InstanceStep(p) PROVE Forward
  <2>1. CASE Launch(p) \/ AcquireLock(p) \/ Truncate(p) \/ WritePid(p) \/ Run(p)
    BY <2>1 DEF ControlTypeOK, Forward, Launch, AcquireLock, Truncate, WritePid, Run, Goto,
                Holding, Started, Ended
  <2>2. ASSUME NEW line \in CardLines, HearMessages(p, line) \/ HearCards(p, line) PROVE Forward
    BY <2>2 DEF Forward, HearMessages, HearCards
  <2>3. CASE TaskRaises(p) \/ Obey(p) \/ Heartbeat(p) \/ End(p) \/ Die(p)
    BY <2>3 DEF ControlTypeOK, Forward, TaskRaises, Obey, Heartbeat, End, Die, Alive, Goto,
                Holding, Started, Ended
  <2> QED BY <1>1, <2>1, <2>2, <2>3 DEF InstanceStep
<1>2. ASSUME NEW c \in Invocations, CommandStep(c) PROVE Forward
  <2>1. CASE Signal(c)
    BY <2>1 DEF ControlTypeOK, Forward, Signal, Goto, Holding, Started, Ended
  <2>2. ASSUME NEW p \in Instances, LaunchChild(c, p) PROVE Forward
    BY <2>2 DEF ControlTypeOK, Forward, LaunchChild, Goto, Holding, Started, Ended
  <2>3. CASE UNCHANGED instance
    BY <2>3 DEF Forward
  <2> QED BY <1>2, <2>1, <2>2, <2>3 DEF CommandStep, Type, NoFile, Probe, ProbeFree, ReadPid,
          StatusEnds, NotRunning, Stopped, Ready, NotReady
<1>3. UNCHANGED controlVars => Forward
  BY DEF controlVars, Forward
<1> QED BY <1>1, <1>2, <1>3, ControlCases

\* What a stop has seen stays true, and it sees the end of its instance when its
\* own probe has the lock.
LEMMA StopStep ==
  ASSUME ControlTypeOK, LockIsHeld, StopKnows, [ControlNext]_controlVars PROVE StopKnows'
<1> USE BridgeControlAssumption
<1>0. Forward
  BY InstancesGoForward
<1>1. ASSUME NEW p \in Instances, InstanceStep(p) PROVE StopKnows'
  <2>1. UNCHANGED outside
    BY <1>1 DEF InstanceStep, Launch, AcquireLock, Truncate, WritePid, Run, HearMessages, HearCards,
                TaskRaises, Heartbeat, Obey, End, Die
  <2> QED BY <1>0, <2>1 DEF StopKnows, Forward, outside, Ended
<1>2. ASSUME NEW c \in Invocations, CommandStep(c) PROVE StopKnows'
  <2> DEFINE Knows(d) ==
        /\ command[d].at \in Waiting =>
             found[d] \in Instances /\ instance[found[d]] \in Holding \cup Ended
        /\ command[d].at = "stopped" \/ said[d] = "stopped" =>
             found[d] \in Instances /\ instance[found[d]] \in Ended
        /\ said[d] # "nothing" => command[d].at = "done"
  <2>1. \A d \in Invocations : Knows(d)
    BY DEF StopKnows
  <2>2. ASSUME NEW d \in Invocations, d # c PROVE Knows(d)'
    <3>1. command'[d] = command[d] /\ found'[d] = found[d] /\ said'[d] = said[d]
      BY <1>2, <2>2 DEF ControlTypeOK, CommandStep, Type, NoFile, Probe, ProbeFree, ReadPid, StatusEnds,
           NotRunning, Signal, Stopped, LaunchChild, Ready, NotReady, StepTo, Say
    <3> QED BY <1>0, <2>1, <3>1 DEF Forward, Ended
  <2>3. Knows(c)'
    <3>1. ASSUME NEW at, StepTo(c, at), at \notin Waiting \cup {"stopped"}, UNCHANGED said,
                 said[c] = "nothing"
          PROVE  Knows(c)'
      BY <3>1, StepAt
    <3>2. ASSUME NEW word, word # "stopped", Say(c, word)
          PROVE  Knows(c)'
      <4>1. command'[c].at = "done" /\ said'[c] = word
        BY <3>2, StepAt DEF ControlTypeOK, Say
      <4> QED BY <3>2, <4>1 DEF Waiting
    <3>3. command[c].at # "done" => said[c] = "nothing"
      BY <2>1
    <3>4. ASSUME NEW kind \in Kinds, Type(c, kind) PROVE Knows(c)'
      <4>1. command'[c].at = "probe" /\ UNCHANGED said /\ said[c] = "nothing"
        BY <3>3, <3>4 DEF ControlTypeOK, Type, Call
      <4> QED BY <4>1 DEF Waiting
    <3>5. CASE NoFile(c)
      BY <3>1, <3>3, <3>5 DEF NoFile, Waiting
    <3>6. CASE Probe(c)
      <4>1. PICK at \in {"wait holding", "holding", "wait reading", "reading", "last holding",
                         "last reading"} :
              StepTo(c, at) /\ (at \in Waiting => command[c].at \in Waiting)
        BY <3>6 DEF Probe, Holds, Reads, Waiting
      <4>2. said[c] = "nothing" /\ UNCHANGED <<said, found, instance>>
        BY <3>3, <3>6 DEF Probe
      <4>3. CASE at \in {"holding", "reading"}
        BY <3>1, <4>1, <4>2, <4>3 DEF Waiting
      <4>4. CASE at \in Waiting
        <5>1. found[c] \in Instances /\ instance[found[c]] \in Holding \cup Ended
          BY <2>1, <4>1, <4>4
        <5>2. command'[c].at \in Waiting /\ said'[c] = "nothing"
          BY <4>1, <4>2, <4>4, StepAt
        <5> QED BY <4>2, <5>1, <5>2 DEF Waiting
      <4> QED BY <4>1, <4>3, <4>4 DEF Waiting
    <3>7. CASE ProbeFree(c)
      <4>1. said[c] = "nothing" /\ UNCHANGED <<said, instance>>
        BY <3>3, <3>7 DEF ProbeFree
      <4>2. CASE command[c].at = "holding" /\ StepTo(c, "next")
        BY <3>1, <4>1, <4>2 DEF Waiting
      <4>3. CASE command[c].at = "wait holding" /\ StepTo(c, "last")
        <5>1. found[c] \in Instances /\ instance[found[c]] \in Holding \cup Ended /\ UNCHANGED found
          BY <2>1, <3>7, <4>3 DEF ProbeFree, Waiting
        <5>2. command'[c].at = "last" /\ said'[c] = "nothing"
          BY <4>1, <4>3, StepAt
        <5> QED BY <4>1, <5>1, <5>2 DEF Waiting
      <4>4. CASE command[c].at = "last holding" /\ StepTo(c, "stopped")
        <5>1. found[c] \in Instances /\ instance[found[c]] \in Holding \cup Ended /\ UNCHANGED found
          BY <2>1, <3>7, <4>4 DEF ProbeFree, Waiting
        <5>2. instance[found[c]] \notin Holding
          BY <4>4, <5>1 DEF LockIsHeld, ProbeHolds
        <5>3. command'[c].at = "stopped" /\ said'[c] = "nothing"
          BY <4>1, <4>4, StepAt
        <5> QED BY <4>1, <5>1, <5>2, <5>3 DEF Waiting
      <4> QED BY <3>7, <4>2, <4>3, <4>4 DEF ProbeFree
    <3>8. CASE ReadPid(c)
      <4>1. CASE Say(c, "error")
        BY <3>2, <4>1
      <4>2. CASE StepTo(c, "next") /\ UNCHANGED said
        BY <3>1, <3>3, <3>8, <4>2 DEF ReadPid, Waiting
      <4>3. ASSUME command[c].at = "wait reading", UNCHANGED <<found, said>>,
                   NEW at \in {"wait", "last"}, StepTo(c, at)
            PROVE  Knows(c)'
        <5>1. found[c] \in Instances /\ instance[found[c]] \in Holding \cup Ended
          BY <2>1, <4>3 DEF Waiting
        <5>2. command'[c].at = at /\ said'[c] = "nothing" /\ UNCHANGED instance
          BY <3>3, <3>8, <4>3, StepAt DEF ReadPid
        <5> QED BY <4>3, <5>1, <5>2 DEF Waiting
      <4>4. CASE Say(c, "cleaning up")
        BY <3>2, <4>4
      <4> QED BY <3>8, <4>1, <4>2, <4>3, <4>4 DEF ReadPid
    <3>9. CASE StatusEnds(c) \/ NotRunning(c) \/ Ready(c) \/ NotReady(c)
      BY <3>2, <3>9 DEF StatusEnds, NotRunning, Ready, NotReady
    <3>10. CASE Stopped(c)
      <4>1. found[c] \in Instances /\ instance[found[c]] \in Ended /\ UNCHANGED <<found, instance>>
        BY <2>1, <3>10 DEF Stopped, At, Call
      <4>2. command'[c].at = "done"
        BY <3>10, StepAt DEF Stopped, Say
      <4> QED BY <4>1, <4>2 DEF Waiting
    <3>11. CASE Signal(c)
      <4>1. found[c] \in Instances /\ UNCHANGED found /\ command[c].at = "next"
        BY <3>11 DEF ControlTypeOK, Signal, At, Call
      <4>2. CASE StepTo(c, "wait") /\ UNCHANGED said /\ instance[found[c]] \in Holding
        <5>1. instance'[found[c]] \in Holding \cup Ended
          BY <1>0, <4>1, <4>2 DEF Forward
        <5>2. command'[c].at = "wait" /\ said'[c] = "nothing"
          BY <3>3, <4>1, <4>2, StepAt
        <5> QED BY <4>1, <5>1, <5>2 DEF Waiting
      <4>3. CASE Say(c, "error")
        BY <3>2, <4>3
      <4> QED BY <3>11, <4>2, <4>3 DEF Signal, Holding
    <3>12. ASSUME NEW p \in Instances, LaunchChild(c, p) PROVE Knows(c)'
      <4>1. CASE Say(c, "already running")
        BY <3>2, <4>1
      <4>2. CASE StepTo(c, "polling") /\ UNCHANGED said
        <5>1. command[c].at = "next"
          <6>1. At(c, "start", "next")
            BY <3>12 DEF LaunchChild
          <6> QED BY <6>1 DEF At, Call
        <5> QED BY <3>1, <3>3, <4>2, <5>1 DEF Waiting
      <4> QED BY <3>12, <4>1, <4>2 DEF LaunchChild
    <3> QED BY <1>2, <3>4, <3>5, <3>6, <3>7, <3>8, <3>9, <3>10, <3>11, <3>12 DEF CommandStep
  <2> QED BY <2>2, <2>3 DEF StopKnows
<1>3. UNCHANGED controlVars => StopKnows'
  BY DEF controlVars, StopKnows
<1> QED BY <1>1, <1>2, <1>3, ControlCases

\* health.json names an instance that got into run(), and a start that said
\* "ready" read its own child's name there.
LEMMA HealthStep ==
  ASSUME ControlTypeOK, StopKnows, HealthIsOfARun, [ControlNext]_controlVars PROVE HealthIsOfARun'
<1> USE BridgeControlAssumption
<1>0. Forward
  BY InstancesGoForward
<1>1. ASSUME NEW p \in Instances, InstanceStep(p) PROVE HealthIsOfARun'
  <2>1. UNCHANGED outside
    BY <1>1 DEF InstanceStep, Launch, AcquireLock, Truncate, WritePid, Run, HearMessages, HearCards,
                TaskRaises, Heartbeat, Obey, End, Die
  <2>2. UNCHANGED health \/ (health'.pid = p /\ instance[p] \in Started)
    <3>1. CASE Heartbeat(p) \/ End(p)
      BY <3>1 DEF Heartbeat, End, Started
    <3>2. CASE Launch(p) \/ AcquireLock(p) \/ Truncate(p) \/ WritePid(p) \/ Run(p)
      BY <3>2 DEF Launch, AcquireLock, Truncate, WritePid, Run, inside, outside, file
    <3>3. CASE \E line \in CardLines : HearMessages(p, line) \/ HearCards(p, line)
      BY <3>3 DEF HearMessages, HearCards, outside, file
    <3>4. CASE TaskRaises(p) \/ Obey(p) \/ Die(p)
      BY <3>4 DEF TaskRaises, Obey, Die, inside, outside, file
    <3> QED BY <1>1, <3>1, <3>2, <3>3, <3>4 DEF InstanceStep
  <2> QED BY <1>0, <2>1, <2>2 DEF HealthIsOfARun, Forward, outside
<1>2. ASSUME NEW c \in Invocations, CommandStep(c) PROVE HealthIsOfARun'
  <2> DEFINE Launches(d) ==
        /\ command[d].at = "polling" => child[d] \in Instances
        /\ said[d] = "ready" => child[d] \in Instances /\ instance[child[d]] \in Started
  <2>1. UNCHANGED health
    BY <1>2 DEF CommandStep, Type, NoFile, Probe, ProbeFree, ReadPid, StatusEnds, NotRunning,
         Signal, Stopped, LaunchChild, Ready, NotReady, inside
  <2>2. \A d \in Invocations : Launches(d)
    BY DEF HealthIsOfARun
  <2>3. ASSUME NEW d \in Invocations, d # c PROVE Launches(d)'
    <3>1. command'[d] = command[d] /\ child'[d] = child[d] /\ said'[d] = said[d]
      BY <1>2, <2>3 DEF ControlTypeOK, CommandStep, Type, NoFile, Probe, ProbeFree, ReadPid, StatusEnds,
           NotRunning, Signal, Stopped, LaunchChild, Ready, NotReady, StepTo, Say
    <3> QED BY <1>0, <2>2, <3>1 DEF Forward
  <2>4. Launches(c)'
    <3>1. command[c].at # "done" => said[c] = "nothing"
      BY DEF StopKnows
    <3>2. ASSUME NEW at, StepTo(c, at), at # "polling", UNCHANGED said, said[c] = "nothing"
          PROVE  Launches(c)'
      BY <3>2, StepAt
    <3>3. ASSUME NEW word, word # "ready", Say(c, word) PROVE Launches(c)'
      <4>1. command'[c].at = "done" /\ said'[c] = word
        BY <3>3, StepAt DEF ControlTypeOK, Say
      <4> QED BY <3>3, <4>1
    <3>4. ASSUME NEW kind \in Kinds, Type(c, kind) PROVE Launches(c)'
      <4>1. command'[c].at = "probe" /\ UNCHANGED said /\ said[c] = "nothing"
        BY <3>1, <3>4 DEF ControlTypeOK, Type, Call
      <4> QED BY <4>1
    <3>5. CASE NoFile(c) \/ Probe(c) \/ ProbeFree(c)
      <4>1. \E at \in {"next", "wait holding", "holding", "wait reading", "reading", "last",
                       "last holding", "last reading", "stopped"} : StepTo(c, at)
        BY <3>5 DEF NoFile, Probe, ProbeFree, Holds, Reads
      <4>2. UNCHANGED said /\ said[c] = "nothing"
        BY <3>1, <3>5 DEF NoFile, Probe, ProbeFree
      <4> QED BY <3>2, <4>1, <4>2
    <3>6. CASE ReadPid(c)
      <4>1. CASE Say(c, "error")
        BY <3>3, <4>1
      <4>2. CASE UNCHANGED said /\ \E at \in {"next", "wait", "last"} : StepTo(c, at)
        BY <3>1, <3>2, <3>6, <4>2 DEF ReadPid
      <4>3. CASE Say(c, "cleaning up")
        BY <3>3, <4>3
      <4> QED BY <3>6, <4>1, <4>2, <4>3 DEF ReadPid
    <3>7. CASE StatusEnds(c) \/ NotRunning(c) \/ Stopped(c) \/ NotReady(c)
      BY <3>3, <3>7 DEF StatusEnds, NotRunning, Stopped, NotReady
    <3>8. CASE Signal(c)
      <4>1. CASE Say(c, "error")
        BY <3>3, <4>1
      <4>2. CASE UNCHANGED said /\ StepTo(c, "wait")
        BY <3>1, <3>2, <3>8, <4>2 DEF Signal, At, Call
      <4> QED BY <3>8, <4>1, <4>2 DEF Signal
    <3>9. ASSUME NEW p \in Instances, LaunchChild(c, p) PROVE Launches(c)'
      <4>1. CASE Say(c, "already running")
        BY <3>3, <4>1
      <4>2. CASE child' = [child EXCEPT ![c] = p] /\ UNCHANGED said
        <5>1. said'[c] = "nothing"
          <6>1. At(c, "start", "next")
            BY <3>9 DEF LaunchChild
          <6> QED BY <3>1, <4>2, <6>1 DEF At, Call
        <5> QED BY <4>2, <5>1 DEF ControlTypeOK
      <4> QED BY <3>9, <4>1, <4>2 DEF LaunchChild
    <3>10. CASE Ready(c)
      <4>1. child[c] \in Instances /\ UNCHANGED <<child, instance>>
        BY <2>2, <3>10 DEF Ready, At, Call
      <4>2. instance[child[c]] \in Started
        BY <3>10, <4>1 DEF Ready, HealthIsOfARun
      <4> QED BY <4>1, <4>2
    <3> QED BY <1>2, <3>4, <3>5, <3>6, <3>7, <3>8, <3>9, <3>10 DEF CommandStep
  <2> QED BY <1>0, <2>1, <2>3, <2>4 DEF HealthIsOfARun, Forward
<1>3. UNCHANGED controlVars => HealthIsOfARun'
  BY DEF controlVars, HealthIsOfARun
<1> QED BY <1>1, <1>2, <1>3, ControlCases

\* The last health an instance writes says stopped, and nobody writes in its name.
LEMMA CleanStep ==
  ASSUME ControlTypeOK, CleanEndIsRecorded, [ControlNext]_controlVars PROVE CleanEndIsRecorded'
<1>1. ASSUME NEW p \in Instances, InstanceStep(p) PROVE CleanEndIsRecorded'
  <2>1. CASE Launch(p) \/ AcquireLock(p) \/ Truncate(p) \/ WritePid(p) \/ Run(p)
    BY <2>1 DEF ControlTypeOK, CleanEndIsRecorded, Launch, AcquireLock, Truncate, WritePid, Run, Goto, inside
  <2>2. ASSUME NEW line \in CardLines, HearMessages(p, line) \/ HearCards(p, line) PROVE CleanEndIsRecorded'
    BY <2>2 DEF CleanEndIsRecorded, HearMessages, HearCards
  <2>3. CASE TaskRaises(p) \/ Obey(p) \/ Heartbeat(p) \/ End(p) \/ Die(p)
    BY <2>3 DEF ControlTypeOK, CleanEndIsRecorded, TaskRaises, Obey, Heartbeat, End, Die, Goto, inside
  <2> QED BY <1>1, <2>1, <2>2, <2>3 DEF InstanceStep
<1>2. ASSUME NEW c \in Invocations, CommandStep(c) PROVE CleanEndIsRecorded'
  <2>1. UNCHANGED health
    BY <1>2 DEF CommandStep, Type, NoFile, Probe, ProbeFree, ReadPid, StatusEnds, NotRunning,
         Signal, Stopped, LaunchChild, Ready, NotReady, inside
  <2>2. \A p \in Instances : instance'[p] = "gone" => instance[p] = "gone"
    BY <1>2 DEF ControlTypeOK, CommandStep, Type, NoFile, Probe, ProbeFree, ReadPid, StatusEnds,
         NotRunning, Signal, Stopped, LaunchChild, Ready, NotReady, Goto
  <2> QED BY <2>1, <2>2 DEF CleanEndIsRecorded
<1>3. UNCHANGED controlVars => CleanEndIsRecorded'
  BY DEF controlVars, CleanEndIsRecorded
<1> QED BY <1>1, <1>2, <1>3, ControlCases

-----------------------------------------------------------------------------
LEMMA ControlInductive == ControlSpec => []ControlInv
<1>1. ControlInit => ControlInv
  <2> SUFFICES ASSUME ControlInit PROVE ControlInv
    OBVIOUS
  <2>1. ControlTypeOK
    BY DEF ControlInit, ControlTypeOK, Stages, Lines, CardLines, Calls, Words, Call
  <2>2. LockIsHeld /\ StopKnows
    BY DEF ControlInit, LockIsHeld, StopKnows, Holding, Call, Waiting, ProbeHolds
  <2>3. HealthIsOfARun /\ CleanEndIsRecorded
    BY BridgeControlAssumption DEF ControlInit, HealthIsOfARun, CleanEndIsRecorded, Call
  <2> QED BY <2>1, <2>2, <2>3 DEF ControlInv
<1>2. ControlInv /\ [ControlNext]_controlVars => ControlInv'
  BY TypeStep, LockStep, StopStep, HealthStep, CleanStep DEF ControlInv
<1> QED BY <1>1, <1>2, PTL DEF ControlSpec

\* Every variable keeps to its type.
THEOREM ControlTypeCorrect == ControlSpec => []ControlTypeOK
<1>1. ControlInv => ControlTypeOK
  BY DEF ControlInv
<1> QED BY <1>1, ControlInductive, PTL

\* Of any number of instances, launched and killed at any time and probed by any
\* number of commands, at most one is between acquire_lock and its end.
THEOREM SingleInstanceHolds == ControlSpec => []SingleInstance
<1>1. ControlInv => SingleInstance
  BY DEF ControlInv, LockIsHeld, SingleInstance
<1> QED BY <1>1, ControlInductive, PTL

\* A stop that says "stopped" has seen the end of the instance it signalled.
THEOREM StoppedIsGoneHolds == ControlSpec => []StoppedIsGone
<1>1. ControlInv => StoppedIsGone
  BY DEF ControlInv, StopKnows, StoppedIsGone, Ended
<1> QED BY <1>1, ControlInductive, PTL

\* A start that says "ready" launched an instance that got into run().
THEOREM ReadyIsRealHolds == ControlSpec => []ReadyIsReal
<1>1. ControlInv => ReadyIsReal
  BY DEF ControlInv, HealthIsOfARun, ReadyIsReal, Started, Ended
<1> QED BY <1>1, ControlInductive, PTL

\* The health an instance leaves when it ends in order says stopped.
THEOREM CleanEndHolds == ControlSpec => []CleanEndIsRecorded
<1>1. ControlInv => CleanEndIsRecorded
  BY DEF ControlInv
<1> QED BY <1>1, ControlInductive, PTL
=============================================================================
