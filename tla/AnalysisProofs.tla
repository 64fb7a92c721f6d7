---------------------------- MODULE AnalysisProofs ----------------------------
(***************************************************************************)
(* For any number of families, conversations, jobs, workers, deletions and *)
(* crashes: what is deleted leaves nothing in a conversation or on the     *)
(* disk, and a conversation is forgotten only after Codex has deleted it.  *)
(*                                                                         *)
(* The argument is about locks.  Between two steps an analysis holds its   *)
(* family's lock, and so finds its issue, its message and its family's     *)
(* conversation as they were (Works); a deletion holds the locks of every  *)
(* family it touches, and knows their conversations (Deletes).  The two    *)
(* never meet, so a step of the one spares the families of the other.  A   *)
(* conversation that is not empty tells whose it is by its messages        *)
(* (Known).  An issue that is gone has files only while a snapshot or the  *)
(* deletion itself is about to remove them, and as long as a job may still *)
(* write some it is marked as deleted (Disks); what is left all the same   *)
(* is abandoned.                                                           *)
(***************************************************************************)
EXTENDS Analysis, SequenceTheorems, TLAPS

Deletion == [pc : {"idle", "cleaning", "forgetting", "deleting", "removing"},
             chosen : SUBSET IssueId, targets : SUBSET IssueId,
             threads : SUBSET Threads, now : Threads \cup {NoThread}]

\* An issue was reported from one of its family.
Rows ==
  /\ DOMAIN issue \subseteq IssueId /\ issue \in [DOMAIN issue -> Core!Row]
  /\ \A i \in DOMAIN issue : issue[i].parent \in IssueId => issue[i].parent[1] = i[1]

Types ==
  /\ TypeOK /\ deletion \in Deletion
  /\ DOMAIN session \subseteq Roots /\ session \in [DOMAIN session -> Threads]

\* The executor's queue holds jobs nobody has started, in the order of their
\* submission.
Queued ==
  \A n \in 1..Len(queue) :
    /\ job[queue[n]].pc = "queued"
    /\ \A k \in 1..Len(queue) : n < k => queue[n] < queue[k]

Kept == stored \cup overlooked
Clean(t, r) == \A m \in text[t] : m \in Kept /\ RootOf(m) = r
Known == \A r \in DOMAIN session : Clean(session[r], r)

\* No two families share a conversation.
Apart == \A q, r \in DOMAIN session : session[q] = session[r] => q = r

\* What a step that forgets a conversation may do.
LetsGo ==
  \A r \in DOMAIN session :
    (r \in DOMAIN session' => session'[r] # session[r]) => text[session[r]] = {}

\* Between two steps of an analysis: it holds its family's lock, so its issue,
\* its message and its family's conversation are what it found.
Works(k) ==
  LET r == RootOf(k) IN
  /\ job[k].pc \in Analyzing \cup {"waiting"} => job[k].kind = "analyze"
  /\ job[k].kind = "analyze" /\ job[k].pc \in {"queued", "waiting"} =>
       k \in Kept \/ job[k].issue \in deleted
  /\ job[k].pc \in Analyzing =>
       /\ r \in DOMAIN lock /\ lock[r] = k
       /\ k \in Kept /\ job[k].issue \notin deleted
  /\ job[k].pc \in {"begun", "asking"} =>
       job[k].thread = IF r \in DOMAIN session THEN session[r] ELSE NoThread
  /\ job[k].pc = "saving" =>
       /\ job[k].thread \in Threads /\ text[job[k].thread] # {} /\ Clean(job[k].thread, r)
       /\ r \in DOMAIN session => session[r] = job[k].thread \/ text[session[r]] = {}

\* Between two steps of a deletion.
Deletes ==
  LET rs == RootsOf(deletion.chosen) \cap DOMAIN session IN
  /\ deletion.pc = "idle" => deletion = Idle
  /\ \A r \in RootsOf(deletion.chosen) : r \in DOMAIN lock /\ lock[r] = Deleter
  /\ deletion.pc \in {"cleaning", "forgetting"} => deletion.threads = {session[r] : r \in rs}
  /\ deletion.pc = "forgetting" => deletion.now \in deletion.threads /\ text[deletion.now] = {}
  /\ deletion.pc \in {"deleting", "removing"} => rs = {} /\ deletion.threads = {}
  /\ deletion.pc \in {"cleaning", "forgetting", "deleting"} =>
       /\ deletion.chosen \subseteq DOMAIN issue
       /\ deletion.targets \subseteq Core!Targets(deletion.chosen)
  /\ deletion.pc = "deleting" => deletion.targets \subseteq deleted

Removing(i) == deletion.pc = "removing" /\ i \in deletion.targets

\* Issues that are not there and have left nothing behind; jobs that may still
\* write files.
Gone == IssueId \ (DOMAIN issue \cup abandoned)
Live(k) == job[k].pc \notin {"done", "lost"}

Disks ==
  \A i \in Gone :
    /\ i \in snapshots => Removing(i)
    /\ i \in files => UnderWay(i) \/ Removing(i)
    /\ i \in deleted \/ \A k \in Numbers : job[k].issue = i => ~Live(k)

IInv ==
  /\ Rows /\ Types /\ Queued /\ (\A k \in Numbers : Works(k)) /\ Deletes
  /\ Known /\ Apart /\ Disks

-----------------------------------------------------------------------------
(* The core's tables. *)

\* Rows stay, and keep their parents.
Grow ==
  /\ DOMAIN issue \subseteq DOMAIN issue'
  /\ \A i \in DOMAIN issue : issue'[i].parent = issue[i].parent

\* The first part of an issue's number is its root.
LEMMA RootsAreRoots == \A i \in IssueId : i[1] \in Roots
BY DEF IssueId, Core!IssueId

\* What is deleted with some issues is of their families.
LEMMA TargetsWithin ==
  ASSUME Rows, NEW S \in SUBSET DOMAIN issue
  PROVE  /\ Core!Targets(S) \subseteq DOMAIN issue
         /\ \A i \in Core!Targets(S) : i[1] \in RootsOf(S)
<1> DEFINE T == {i \in DOMAIN issue : i[1] \in RootsOf(S)}
           E == Core!Expanded(S)
<1>1. Core!Targets(S) \subseteq DOMAIN issue
  BY DEF Core!Targets, Core!Ids
<1>2. E \subseteq T
  <2>1. \A i \in DOMAIN issue : Core!Main(Core!RootOf(i))[1] = i[1]
    BY DEF Core!Main, Core!RootOf
  <2> QED BY <2>1 DEF Core!Expanded, Core!Ids, RootsOf
<1>3. ASSUME NEW j \in DOMAIN issue, issue[j].parent \in T PROVE j \in T
  <2>1. issue[j].parent \in IssueId
    BY <1>3 DEF Rows
  <2> QED BY <1>3, <2>1 DEF Rows
<1>4. \A i \in Core!Targets(S) : i \in T
  BY <1>2, <1>3 DEF Core!Targets, Core!Ids
<1> QED BY <1>1, <1>4

\* New rows take nothing from what is to be deleted.
LEMMA TargetsGrow ==
  ASSUME Grow, NEW S \in SUBSET DOMAIN issue
  PROVE  Core!Targets(S) \subseteq Core!Targets(S)'
<1> SUFFICES ASSUME NEW i \in Core!Targets(S) PROVE i \in Core!Targets(S)'
  OBVIOUS
<1>1. i \in DOMAIN issue /\ i \in DOMAIN issue'
  BY DEF Core!Targets, Core!Ids, Grow
<1>2. ASSUME NEW T \in SUBSET DOMAIN issue', Core!Expanded(S)' \subseteq T,
             \A j \in DOMAIN issue' : issue'[j].parent \in T => j \in T
      PROVE  i \in T
  <2> DEFINE U == T \cap DOMAIN issue
  <2>1. U \in SUBSET DOMAIN issue
    OBVIOUS
  <2>2. Core!Expanded(S) \subseteq U
    BY <1>2 DEF Core!Expanded, Core!Ids, Grow
  <2>3. \A j \in DOMAIN issue : issue[j].parent \in U => j \in U
    BY <1>2 DEF Grow
  <2> HIDE DEF U
  <2>4. i \in U
    BY <2>1, <2>2, <2>3 DEF Core!Targets, Core!Ids
  <2> QED BY <2>4 DEF U
<1> QED BY <1>1, <1>2 DEF Core!Targets, Core!Ids

\* Recalculating rollups changes neither rows' types nor their parents.
LEMMA Rolled ==
  ASSUME NEW tab, NEW rs, NEW D, tab \in [D -> Core!Row]
  PROVE  LET t == Core!Recalculated(tab, rs) IN
         /\ t \in [D -> Core!Row]
         /\ \A i \in D : t[i].parent = tab[i].parent
<1> DEFINE t == Core!Recalculated(tab, rs)
<1>1. \A i \in D : Core!RollupOf(tab, Core!RootOf(i)) \in Core!Status
  BY DEF Core!RollupOf, Core!Status
<1>2. ASSUME NEW i \in D
      PROVE  LET x == [tab[i] EXCEPT !.rollup = Core!RollupOf(tab, Core!RootOf(i))] IN
             x \in Core!Row /\ x.parent = tab[i].parent
  <2> DEFINE c == Core!RollupOf(tab, Core!RootOf(i))
  <2>1. c \in Core!Status /\ tab[i] \in Core!Row
    BY <1>1
  <2> HIDE DEF c
  <2>2. [tab[i] EXCEPT !.rollup = c] \in Core!Row
    BY <2>1 DEF Core!Row
  <2>3. [tab[i] EXCEPT !.rollup = c].parent = tab[i].parent
    BY <2>1 DEF Core!Row
  <2> QED BY <2>2, <2>3 DEF c
<1>3. DOMAIN t = D /\ \A i \in D : t[i] \in Core!Row /\ t[i].parent = tab[i].parent
  BY <1>2 DEF Core!Recalculated
<1>4. t = [i \in D |-> t[i]]
  BY DEF Core!Recalculated
<1> HIDE DEF t
<1>5. t \in [D -> Core!Row]
  BY <1>3, <1>4
<1> QED BY <1>3, <1>5 DEF t

\* A new row is a row, with the parent it was given.
LEMMA NewRowIsRow ==
  ASSUME NEW who \in Reporters, NEW p \in IssueId \cup {NoIssue}
  PROVE  Core!NewRow(who, p) \in Core!Row /\ Core!NewRow(who, p).parent = p
BY DEF Core!NewRow, Core!Row, Core!Status, Core!Handoff, Core!Version, IssueId

\* A row of a new issue.
LEMMA InsertedRow ==
  ASSUME Rows, NEW i \in IssueId, i \notin DOMAIN issue, NEW x \in Core!Row,
         x.parent \in IssueId => x.parent[1] = i[1],
         issue' = Core!Inserted(issue, i, x)
  PROVE  Rows' /\ Grow /\ DOMAIN issue' = DOMAIN issue \cup {i}
<1>1. /\ DOMAIN issue' = DOMAIN issue \cup {i} /\ issue'[i] = x
      /\ \A j \in DOMAIN issue : issue'[j] = issue[j]
      /\ issue' = [j \in DOMAIN issue \cup {i} |-> issue'[j]]
  BY DEF Core!Inserted
<1>2. \A j \in DOMAIN issue' : issue'[j] \in Core!Row
  BY <1>1 DEF Rows
<1>3. issue' \in [DOMAIN issue' -> Core!Row]
  BY <1>1, <1>2
<1> QED BY <1>1, <1>3 DEF Rows, Grow

\* A new main issue has no parent.
LEMMA CreatedRows ==
  ASSUME Rows, NEW r \in Roots, NEW who \in Reporters, Core!CreateIssue(r, who)
  PROVE  Rows' /\ Grow /\ session' = session /\ DOMAIN issue' = DOMAIN issue \cup {Core!Main(r)}
<1>1. Core!Main(r) \in IssueId /\ Core!Main(r) \notin DOMAIN issue /\ NoIssue \notin IssueId
  BY AnalysisAssumption DEF Core!Main, IssueId, Core!IssueId, Core!CreateIssue, Core!Ids
<1>2. /\ issue' = Core!Inserted(issue, Core!Main(r), Core!NewRow(who, NoIssue))
      /\ session' = session
  BY DEF Core!CreateIssue
<1>3. Core!NewRow(who, NoIssue) \in Core!Row /\ Core!NewRow(who, NoIssue).parent = NoIssue
  BY NewRowIsRow
<1> QED BY <1>1, <1>2, <1>3, InsertedRow

\* A row of the table changes, and its parent does not.
LEMMA ChangedRow ==
  ASSUME Rows, NEW i, NEW x \in Core!Row, i \in DOMAIN issue => x.parent = issue[i].parent,
         issue' = [issue EXCEPT ![i] = x]
  PROVE  Rows' /\ Grow /\ DOMAIN issue' = DOMAIN issue
<1>1. /\ DOMAIN issue' = DOMAIN issue
      /\ \A j \in DOMAIN issue : issue'[j] = IF j = i THEN x ELSE issue[j]
      /\ issue' = [j \in DOMAIN issue' |-> issue'[j]]
  BY DEF Rows
<1>2. \A j \in DOMAIN issue' : issue'[j] \in Core!Row /\ issue'[j].parent = issue[j].parent
  BY <1>1 DEF Rows
<1>3. issue' \in [DOMAIN issue' -> Core!Row]
  BY <1>1, <1>2
<1> QED BY <1>1, <1>2, <1>3 DEF Rows, Grow

\* A field of a row that is no key changes.
LEMMA RowFields ==
  ASSUME NEW x \in Core!Row, NEW b \in BOOLEAN
  PROVE  /\ [x EXCEPT !.concluded = b] \in Core!Row
         /\ [x EXCEPT !.concluded = b].parent = x.parent
         /\ [x EXCEPT !.handoff = "queued", !.input = FALSE] \in Core!Row
         /\ [x EXCEPT !.handoff = "queued", !.input = FALSE].parent = x.parent
         /\ [x EXCEPT !.rollup = "open"] \in Core!Row
         /\ [x EXCEPT !.rollup = "open"].parent = x.parent
BY DEF Core!Row, Core!Status, Core!Handoff

\* A message changes no more of a row than whether it is concluded.
LEMMA AppendedRows ==
  ASSUME Rows, NEW i, NEW role, NEW channel, NEW byCodex \in BOOLEAN,
         Core!AppendMessage(i, role, channel, byCodex)
  PROVE  Rows' /\ Grow /\ session' = session /\ DOMAIN issue' = DOMAIN issue
<1> DEFINE b == issue[i].concluded \/ (role = "assistant" /\ byCodex)
           x == [issue[i] EXCEPT !.concluded = b]
<1>1. i \in DOMAIN issue /\ issue[i] \in Core!Row /\ session' = session
  BY DEF Core!AppendMessage, Core!Ids, Rows
<1>2. issue' = [issue EXCEPT ![i] = x]
  BY DEF Core!AppendMessage
<1>3. b \in BOOLEAN
  BY <1>1 DEF Core!Row
<1> HIDE DEF b
<1>4. x \in Core!Row /\ x.parent = issue[i].parent
  BY <1>1, <1>3, RowFields
<1> HIDE DEF x
<1> QED BY <1>1, <1>2, <1>4, ChangedRow

\* A handoff changes no more than its state and the input of its issue.
LEMMA HandedRows ==
  ASSUME Rows, NEW i, Core!RequestHandoff(i)
  PROVE  Rows' /\ Grow /\ session' = session /\ DOMAIN issue' = DOMAIN issue
<1> DEFINE x == [issue[i] EXCEPT !.handoff = "queued", !.input = FALSE]
<1>1. i \in DOMAIN issue /\ issue[i] \in Core!Row /\ session' = session
  BY DEF Core!RequestHandoff, Core!Ids, Rows
<1>2. issue' = [issue EXCEPT ![i] = x]
  BY DEF Core!RequestHandoff
<1>3. x \in Core!Row /\ x.parent = issue[i].parent
  BY <1>1, RowFields
<1> HIDE DEF x
<1> QED BY <1>1, <1>2, <1>3, ChangedRow

\* A new sub-issue, and the rollup of its main issue.
LEMMA SubRows ==
  ASSUME Rows, NEW selected \in DOMAIN issue, NEW who \in Reporters,
         Core!CreateSubissue(selected, who)
  PROVE  Rows' /\ Grow /\ session' = session /\ DOMAIN issue' \subseteq IssueId
<1>1. PICK n \in 1..MaxSub :
        LET r   == Core!RootOf(selected)
            new == Core!Inserted(issue, <<r, n>>, Core!NewRow(who, selected))
        IN  /\ Core!NextSequence(r, n)
            /\ issue' = [new EXCEPT ![Core!Main(r)].rollup = "open"]
  BY DEF Core!CreateSubissue
<1> DEFINE r   == selected[1]
           i   == <<r, n>>
           m   == <<r, 0>>
           row == Core!NewRow(who, selected)
           new == Core!Inserted(issue, i, row)
           x   == [new[m] EXCEPT !.rollup = "open"]
<1>2. session' = session /\ issue' = [new EXCEPT ![m] = x] /\ Core!NextSequence(r, n)
  BY <1>1 DEF Core!CreateSubissue, Core!RootOf, Core!Main
<1>3. selected \in IssueId /\ r \in Roots /\ i \in IssueId /\ i[1] = r
  BY AnalysisAssumption DEF Rows, IssueId, Core!IssueId
<1>4. i \notin DOMAIN issue
  <2>1. \A j \in DOMAIN issue : j[1] = r => j[2] < n
    BY <1>2 DEF Core!NextSequence, Core!Family, Core!RootOf
  <2> QED BY <2>1
<1>5. row \in Core!Row /\ row.parent = selected
  BY <1>3, NewRowIsRow
<1> HIDE DEF row
<1>6. /\ DOMAIN new = DOMAIN issue \cup {i} /\ new[i] = row
      /\ \A j \in DOMAIN issue : new[j] = issue[j]
  BY <1>4 DEF Core!Inserted
<1> HIDE DEF new
<1>7. \A j \in DOMAIN new :
        /\ j \in IssueId /\ new[j] \in Core!Row
        /\ new[j].parent \in IssueId => new[j].parent[1] = j[1]
  BY <1>3, <1>5, <1>6 DEF Rows
<1>8. m \in DOMAIN new => x \in Core!Row /\ x.parent = new[m].parent
  BY <1>7, RowFields
<1> HIDE DEF x
<1>9. new = [j \in DOMAIN new |-> new[j]]
  BY DEF new, Core!Inserted
<1>10. /\ DOMAIN issue' = DOMAIN new /\ issue' = [j \in DOMAIN issue' |-> issue'[j]]
       /\ \A j \in DOMAIN new : issue'[j] = IF j = m THEN x ELSE new[j]
  BY <1>2, <1>9
<1>11. \A j \in DOMAIN issue' : issue'[j] \in Core!Row /\ issue'[j].parent = new[j].parent
  BY <1>7, <1>8, <1>10
<1>12. issue' \in [DOMAIN issue' -> Core!Row]
  BY <1>10, <1>11
<1> QED BY <1>2, <1>6, <1>7, <1>10, <1>11, <1>12 DEF Rows, Grow

\* What delete_issues leaves.
LEMMA DeletedRows ==
  ASSUME Rows, NEW S, Core!DeleteIssues(S)
  PROVE  /\ Rows'
         /\ session' = [r \in DOMAIN session' |-> session[r]] /\ DOMAIN session' \subseteq DOMAIN session
         /\ \A r \in DOMAIN session \ DOMAIN session' : Core!Main(r) \in S
<1> DEFINE D    == DOMAIN issue \ Core!Targets(S)
           kept == [i \in D |-> issue[i]]
           gone == {r \in Roots : Core!Main(r) \in S}
           rs   == {r \in Roots : \E i \in Core!Targets(S) : Core!RootOf(i) = r} \ gone
<1>1. issue' = Core!Recalculated(kept, rs) /\ session' = [r \in DOMAIN session \ gone |-> session[r]]
  BY DEF Core!DeleteIssues, Core!Ids
<1>2. kept \in [D -> Core!Row] /\ \A i \in D : kept[i] = issue[i]
  BY DEF Rows
<1> HIDE DEF kept, rs, D
<1>3. issue' \in [D -> Core!Row] /\ \A i \in D : issue'[i].parent = issue[i].parent
  BY <1>1, <1>2, Rolled
<1>4. D \subseteq DOMAIN issue
  BY DEF D
<1> QED BY <1>1, <1>3, <1>4 DEF Rows

-----------------------------------------------------------------------------
(* The executor. *)

\* The record of one job changes.
LEMMA JobChanges ==
  ASSUME job \in Seq(Job), NEW j \in Numbers, NEW x \in Job, job' = [job EXCEPT ![j] = x]
  PROVE  /\ job' \in Seq(Job) /\ Len(job') = Len(job) /\ Numbers' = Numbers
         /\ job'[j] = x /\ \A k \in Numbers : k # j => job'[k] = job[k]
BY DEF Numbers

\* New jobs come behind those there are, and are queued behind them.
LEMMA Submitted ==
  ASSUME TypeOK, Queued, NEW new \in Seq(Job), Submit(new),
         \A n \in 1..Len(new) : new[n].pc = "queued"
  PROVE  /\ job' \in Seq(Job) /\ Len(job') = Len(job) + Len(new) /\ Len(job') <= MaxJobs
         /\ Numbers \subseteq Numbers' /\ \A k \in Numbers : job'[k] = job[k]
         /\ \A i \in 1..Len(new) : job'[Len(job) + i] = new[i]
         /\ \A k \in Numbers' \ Numbers : \E i \in 1..Len(new) : k = Len(job) + i
         /\ queue' \in Seq(Numbers') /\ Queued'
<1> DEFINE tail == [n \in 1..Len(new) |-> Len(job) + n]
<1>1. job' = job \o new /\ queue' = queue \o tail /\ Len(job) + Len(new) <= MaxJobs
  BY DEF Submit
<1>2. job \in Seq(Job) /\ queue \in Seq(Numbers) /\ Len(job) \in Nat /\ Len(new) \in Nat
      /\ Len(queue) \in Nat
  BY DEF TypeOK
<1>3. /\ job' \in Seq(Job) /\ Len(job') = Len(job) + Len(new)
      /\ \A k \in 1..Len(job) : job'[k] = job[k]
      /\ \A k \in (Len(job) + 1)..(Len(job) + Len(new)) : job'[k] = new[k - Len(job)]
  BY <1>1, <1>2, ConcatProperties
<1>4. \A i \in 1..Len(new) : Len(job) + i \in Numbers' /\ job'[Len(job) + i] = new[i]
  <2> TAKE i \in 1..Len(new)
  <2> DEFINE k == Len(job) + i
  <2>1. k \in (Len(job) + 1)..(Len(job) + Len(new)) /\ k - Len(job) = i
    BY <1>2
  <2>2. k \in Numbers' /\ job'[k] = new[k - Len(job)]
    BY <1>2, <1>3, <2>1 DEF Numbers
  <2> QED BY <2>1, <2>2
<1>5. \A k \in Numbers' \ Numbers : \E i \in 1..Len(new) : k = Len(job) + i
  <2> TAKE k \in Numbers' \ Numbers
  <2>1. k - Len(job) \in 1..Len(new) /\ k = Len(job) + (k - Len(job))
    BY <1>2, <1>3 DEF Numbers
  <2> QED BY <2>1
<1>6. Numbers \subseteq Numbers' /\ \A k \in Numbers : job'[k] = job[k]
  BY <1>2, <1>3 DEF Numbers
<1>7. tail \in Seq(Nat) /\ Len(tail) = Len(new) /\ \A i \in 1..Len(new) : tail[i] = Len(job) + i
  <2>1. tail \in [1..Len(new) -> Nat]
    BY <1>2
  <2> QED BY <1>2, <2>1
<1> HIDE DEF tail
<1>8. queue \in Seq(Nat) /\ \A n \in 1..Len(queue) : queue[n] \in Numbers
  BY <1>2 DEF Numbers
<1>9. /\ queue' \in Seq(Nat) /\ Len(queue') = Len(queue) + Len(new)
      /\ \A n \in 1..Len(queue) : queue'[n] = queue[n]
      /\ \A n \in (Len(queue) + 1)..(Len(queue) + Len(new)) : queue'[n] = tail[n - Len(queue)]
  <2>1. PICK q \in Seq(Nat), u \in Seq(Nat) :
          q = queue /\ u = tail /\ Len(u) = Len(new) /\ queue' = q \o u
    BY <1>1, <1>7, <1>8
  <2>2. /\ q \o u \in Seq(Nat) /\ Len(q \o u) = Len(q) + Len(u)
        /\ \A n \in 1..(Len(q) + Len(u)) :
             (q \o u)[n] = IF n <= Len(q) THEN q[n] ELSE u[n - Len(q)]
    BY ConcatProperties, Zenon
  <2>3. PICK a \in Nat, b \in Nat : a = Len(queue) /\ b = Len(new)
    BY <1>2
  <2>4. /\ queue' \in Seq(Nat) /\ Len(queue') = a + b
        /\ \A n \in 1..(a + b) : queue'[n] = IF n <= a THEN queue[n] ELSE tail[n - a]
    BY <2>1, <2>2, <2>3, Zenon
  <2>5. /\ \A n \in 1..a : n \in 1..(a + b) /\ n <= a
        /\ \A n \in (a + 1)..(a + b) : n \in 1..(a + b) /\ ~(n <= a)
    OBVIOUS
  <2>6. /\ \A n \in 1..a : queue'[n] = queue[n]
        /\ \A n \in (a + 1)..(a + b) : queue'[n] = tail[n - a]
    BY <2>4, <2>5, Zenon
  <2> QED BY <2>3, <2>4, <2>6, Zenon
<1>10. \A i \in 1..Len(new) : queue'[Len(queue) + i] = Len(job) + i
  <2> TAKE i \in 1..Len(new)
  <2> DEFINE n == Len(queue) + i
  <2>1. n \in (Len(queue) + 1)..(Len(queue) + Len(new)) /\ n - Len(queue) = i
    BY <1>2
  <2> HIDE DEF n
  <2>2. queue'[n] = Len(job) + i
    BY <1>7, <1>9, <2>1
  <2> QED BY <2>2 DEF n
<1>11. \A n \in 1..Len(queue') : n \in 1..Len(queue) \/ \E i \in 1..Len(new) : n = Len(queue) + i
  <2> TAKE n \in 1..Len(queue')
  <2>1. n \in 1..Len(queue) \/ (n - Len(queue) \in 1..Len(new) /\ n = Len(queue) + (n - Len(queue)))
    BY <1>2, <1>9
  <2> QED BY <2>1
<1>12. ASSUME NEW n \in 1..Len(queue')
       PROVE  queue'[n] \in Numbers' /\ job'[queue'[n]].pc = "queued"
  <2>1. CASE n \in 1..Len(queue)
    BY <1>6, <1>8, <1>9, <2>1 DEF Queued
  <2>2. CASE \E i \in 1..Len(new) : n = Len(queue) + i
    BY <1>4, <1>10, <2>2
  <2> QED BY <1>11, <2>1, <2>2
<1>13. ASSUME NEW n \in 1..Len(queue'), NEW k \in 1..Len(queue'), n < k
       PROVE  queue'[n] < queue'[k]
  <2>1. CASE n \in 1..Len(queue) /\ k \in 1..Len(queue)
    BY <1>9, <1>13, <2>1 DEF Queued
  <2>2. CASE n \in 1..Len(queue) /\ \E i \in 1..Len(new) : k = Len(queue) + i
    <3>1. PICK i \in 1..Len(new) : k = Len(queue) + i
      BY <2>2
    <3>2. queue'[n] \in 1..Len(job) /\ queue'[k] = Len(job) + i
      BY <1>8, <1>9, <1>10, <2>2, <3>1 DEF Numbers
    <3> QED BY <1>2, <3>2
  <2>3. CASE (\E h \in 1..Len(new) : n = Len(queue) + h) /\ \E i \in 1..Len(new) : k = Len(queue) + i
    <3>1. PICK h \in 1..Len(new), i \in 1..Len(new) : n = Len(queue) + h /\ k = Len(queue) + i
      BY <2>3
    <3>2. h < i /\ queue'[n] = Len(job) + h /\ queue'[k] = Len(job) + i
      BY <1>2, <1>10, <1>13, <3>1
    <3> QED BY <1>2, <3>2
  <2>4. ASSUME NEW h \in 1..Len(new), n = Len(queue) + h PROVE k \notin 1..Len(queue)
    BY <1>2, <1>13, <2>4
  <2> QED BY <1>11, <2>1, <2>2, <2>3, <2>4
<1>14. queue' \in Seq(Numbers')
  BY <1>9, <1>12
<1> QED BY <1>1, <1>3, <1>4, <1>5, <1>6, <1>12, <1>13, <1>14 DEF Queued

-----------------------------------------------------------------------------
(* What a step of somebody else leaves. *)

\* What a job's number gives access to is well-typed.
LEMMA JobTypes ==
  ASSUME Types, NEW k \in Numbers
  PROVE  /\ job[k] \in Job /\ k \in Nat \ {0} /\ RootOf(k) \in Roots /\ job[k].issue \in IssueId
         /\ \A t \in Threads : text[t] \subseteq Numbers
<1>1. job[k] \in Job /\ k \in Nat \ {0}
  BY DEF Types, TypeOK, Numbers
<1>2. job[k].issue \in IssueId
  BY <1>1 DEF Job
<1> QED BY <1>1, <1>2, RootsAreRoots DEF RootOf, Types, TypeOK

\* Jobs are what they were about, and those that are done stay so.
Ongoing ==
  /\ Numbers \subseteq Numbers'
  /\ \A m \in Numbers : job'[m].issue = job[m].issue /\ job'[m].kind = job[m].kind

\* Rows that stay as they are have not shrunk.
LEMMA RowsStill ==
  ASSUME Rows, issue' = issue
  PROVE  Rows' /\ Grow
BY DEF Rows, Grow

\* A conversation nobody touches stays clean while the messages of its family
\* stay.
LEMMA CleanOn ==
  ASSUME Ongoing, NEW t, NEW r, Clean(t, r), text'[t] = text[t], text[t] \subseteq Numbers,
         \A m \in Kept : RootOf(m) = r => m \in Kept'
  PROVE  Clean(t, r)'
BY DEF Clean, RootOf, Ongoing

\* So do all of them.
LEMMA KnownOn ==
  ASSUME Types, Known, Ongoing, UNCHANGED <<session, text>>,
         \A m \in Kept : m \in Kept' \/ RootOf(m) \notin DOMAIN session
  PROVE  Known'
<1> SUFFICES ASSUME NEW r \in DOMAIN session PROVE Clean(session[r], r)'
  BY DEF Known
<1>1. PICK t : t = session[r]
  OBVIOUS
<1>2. t \in Threads /\ text[t] \subseteq Numbers
  BY <1>1 DEF Types, TypeOK
<1>3. Clean(t, r)
  BY <1>1 DEF Known
<1>4. Clean(t, r)'
  BY <1>2, <1>3, CleanOn
<1> QED BY <1>1, <1>4 DEF Clean

\* An analysis at rest keeps what it knows, as long as nothing of its family
\* changes.
LEMMA WorksOn ==
  ASSUME Types, NEW k \in Numbers, Works(k), Ongoing, job'[k] = job[k],
         k \in Kept => k \in Kept' \/ job[k].issue \in deleted', deleted \subseteq deleted',
         job[k].pc \in Analyzing =>
           LET r == RootOf(k) IN
           /\ r \in DOMAIN lock /\ lock[r] = k => r \in DOMAIN lock' /\ lock'[r] = k
           /\ job[k].issue \in deleted' => job[k].issue \in deleted
           /\ \A m \in Kept : RootOf(m) = r => m \in Kept'
           /\ r \in DOMAIN session <=> r \in DOMAIN session'
           /\ r \in DOMAIN session => session'[r] = session[r]
           /\ r \in DOMAIN session /\ text[session[r]] = {} => text'[session[r]] = {}
           /\ \A t \in Threads : (t = job[k].thread /\ text[t] # {} /\ Clean(t, r)) => text'[t] = text[t]
  PROVE  Works(k)'
<1> DEFINE r == RootOf(k)
<1>1. RootOf(k)' = r /\ Analyzing' = Analyzing
  BY DEF RootOf, Analyzing
<1>2. /\ job'[k].pc \in Analyzing \cup {"waiting"} => job'[k].kind = "analyze"
      /\ job'[k].kind = "analyze" /\ job'[k].pc \in {"queued", "waiting"} =>
           k \in Kept' \/ job'[k].issue \in deleted'
  BY DEF Works
<1>3. job'[k].pc \in Analyzing =>
        /\ r \in DOMAIN lock' /\ lock'[r] = k
        /\ k \in Kept' /\ job'[k].issue \notin deleted'
  BY DEF Works
<1>4. job'[k].pc \in {"begun", "asking"} =>
        job'[k].thread = IF r \in DOMAIN session' THEN session'[r] ELSE NoThread
  BY DEF Works, Analyzing
<1>5. ASSUME job[k].pc = "saving"
      PROVE  /\ job'[k].thread \in Threads /\ text'[job'[k].thread] # {}
             /\ \A m \in text'[job'[k].thread] : m \in Kept' /\ RootOf(m)' = r
             /\ r \in DOMAIN session' => session'[r] = job'[k].thread \/ text'[session'[r]] = {}
  <2>1. PICK t, q : t = job[k].thread /\ q = r
    OBVIOUS
  <2>2. t \in Threads /\ text[t] # {} /\ Clean(t, q) /\ job[k].pc \in Analyzing
    BY <1>5, <2>1 DEF Works, Analyzing
  <2>3. text'[t] = text[t] /\ text[t] \subseteq Numbers
    BY <2>1, <2>2 DEF Types, TypeOK
  <2>4. \A m \in Kept : RootOf(m) = q => m \in Kept'
    BY <2>1, <2>2
  <2>5. Clean(t, q)'
    BY <2>2, <2>3, <2>4, CleanOn
  <2>6. q \in DOMAIN session' => session'[q] = t \/ text'[session'[q]] = {}
    BY <1>5, <2>1, <2>2 DEF Works
  <2>7. \A m \in text'[t] : m \in Kept' /\ RootOf(m)' = q
    BY <2>5 DEF Clean
  <2> QED BY <2>1, <2>2, <2>3, <2>6, <2>7
<1>6. job'[k].pc = "saving" =>
        /\ job'[k].thread \in Threads /\ text'[job'[k].thread] # {}
        /\ Clean(job[k].thread, RootOf(k))'
        /\ r \in DOMAIN session' => session'[r] = job'[k].thread \/ text'[session'[r]] = {}
  BY <1>1, <1>5 DEF Clean
<1> QED BY <1>1, <1>2, <1>3, <1>4, <1>6 DEF Works

\* A deletion at rest keeps what it knows, as long as nobody touches the
\* families it has locked; new sub-issues only add to its targets.
LEMMA DeletesOn ==
  ASSUME Deletes, deletion' = deletion, Grow, deleted \subseteq deleted',
         deletion.pc = "forgetting" => text'[deletion.now] = {},
         \A r \in RootsOf(deletion.chosen) :
           /\ lock[r] = Deleter => r \in DOMAIN lock' /\ lock'[r] = Deleter
           /\ r \in DOMAIN session <=> r \in DOMAIN session'
           /\ r \in DOMAIN session => session'[r] = session[r]
  PROVE  Deletes'
<1> DEFINE rs == RootsOf(deletion.chosen) \cap DOMAIN session
<1>1. RootsOf(deletion.chosen)' = RootsOf(deletion.chosen)
  BY DEF RootsOf
<1>2. RootsOf(deletion.chosen) \cap DOMAIN session' = rs
  OBVIOUS
<1>3. {session'[r] : r \in rs} = {session[r] : r \in rs}
  OBVIOUS
<1>4. deletion.pc \in {"cleaning", "forgetting", "deleting"} =>
        /\ deletion.chosen \subseteq DOMAIN issue'
        /\ deletion.targets \subseteq Core!Targets(deletion.chosen)'
  <2> SUFFICES ASSUME deletion.pc \in {"cleaning", "forgetting", "deleting"}
               PROVE  /\ deletion.chosen \subseteq DOMAIN issue'
                      /\ deletion.targets \subseteq Core!Targets(deletion.chosen)'
    OBVIOUS
  <2>1. PICK S : S = deletion.chosen
    OBVIOUS
  <2>2. S \in SUBSET DOMAIN issue /\ deletion.targets \subseteq Core!Targets(S)
    BY <2>1 DEF Deletes
  <2>3. Core!Targets(S) \subseteq Core!Targets(S)'
    BY <2>2, TargetsGrow
  <2>4. S \subseteq DOMAIN issue'
    BY <2>2 DEF Grow
  <2> QED BY <2>1, <2>2, <2>3, <2>4 DEF Core!Targets, Core!Ids, Core!Expanded
<1> HIDE DEF rs
<1>5. /\ deletion.pc = "idle" => deletion = Idle
      /\ \A r \in RootsOf(deletion.chosen) : r \in DOMAIN lock /\ lock[r] = Deleter
      /\ deletion.pc \in {"cleaning", "forgetting"} => deletion.threads = {session[r] : r \in rs}
      /\ deletion.pc = "forgetting" => deletion.now \in deletion.threads
      /\ deletion.pc \in {"deleting", "removing"} => rs = {} /\ deletion.threads = {}
      /\ deletion.pc = "deleting" => deletion.targets \subseteq deleted
  BY DEF Deletes, rs
<1> QED BY <1>1, <1>2, <1>3, <1>4, <1>5 DEF Deletes

\* The usual case: nothing a deletion knows of changes.
LEMMA DeletesRest ==
  ASSUME Deletes, Grow, UNCHANGED <<deletion, deleted, lock, session, text>>
  PROVE  Deletes'
<1>1. \A r \in RootsOf(deletion.chosen) :
        /\ lock[r] = Deleter => r \in DOMAIN lock' /\ lock'[r] = Deleter
        /\ r \in DOMAIN session <=> r \in DOMAIN session'
        /\ r \in DOMAIN session => session'[r] = session[r]
  BY DEF Deletes
<1>2. deletion.pc = "forgetting" => text'[deletion.now] = {}
  BY DEF Deletes
<1> QED BY <1>1, <1>2, DeletesOn

\* Files of an issue that is gone appear only while a snapshot of it is under
\* way, and jobs only of issues that are there.
LEMMA DisksOn ==
  ASSUME Disks, Ongoing, DOMAIN issue \subseteq DOMAIN issue', abandoned \subseteq abandoned',
         deleted \subseteq deleted', \A i : Removing(i) => Removing(i)',
         \A k \in Numbers' \ Numbers : job'[k].issue \in DOMAIN issue',
         \A k \in Numbers : Live(k)' => Live(k),
         \A i \in Gone' : i \in snapshots' => i \in snapshots,
         \A i \in Gone' : i \in files' => i \in files \/ UnderWay(i)',
         \A k \in Numbers : job[k].pc = "collecting" =>
           \/ job'[k].pc = "collecting"
           \/ job[k].issue \notin Gone' \/ job[k].issue \notin files'
  PROVE  Disks'
<1>1. Gone' \subseteq Gone /\ \A i \in Gone' : i \notin DOMAIN issue'
  BY DEF Gone
<1>2. \A i \in Gone' : UnderWay(i) /\ i \in files' => UnderWay(i)'
  BY DEF UnderWay, Ongoing
<1>3. ASSUME NEW i \in Gone'
      PROVE  /\ i \in snapshots' => Removing(i)'
             /\ i \in files' => UnderWay(i)' \/ Removing(i)'
  BY <1>1, <1>2, <1>3 DEF Disks
<1>4. ASSUME NEW i \in Gone', i \notin deleted', NEW k \in Numbers', job'[k].issue = i
      PROVE  ~Live(k)'
  <2>1. k \in Numbers /\ job[k].issue = i
    BY <1>1, <1>4 DEF Ongoing
  <2>2. ~Live(k)
    BY <1>1, <1>4, <2>1 DEF Disks
  <2> QED BY <2>1, <2>2
<1> QED BY <1>3, <1>4 DEF Disks

\* An issue that is gone is marked while a job of it may write.
LEMMA LiveIsMarked ==
  ASSUME Disks, NEW k \in Numbers, Live(k), job[k].issue \in Gone
  PROVE  job[k].issue \in deleted
BY DEF Disks

\* The usual case: the executor, the rows and the files stay as they are.
LEMMA DisksRest ==
  ASSUME Disks, UNCHANGED <<job, issue, files, snapshots, abandoned>>, deleted \subseteq deleted',
         \A i : Removing(i) => Removing(i)'
  PROVE  Disks'
<1>1. Ongoing /\ Numbers' = Numbers /\ Gone' = Gone
  BY DEF Ongoing, Numbers, Gone
<1>2. \A k \in Numbers : Live(k)' => Live(k)
  BY DEF Live
<1> QED BY <1>1, <1>2, DisksOn

-----------------------------------------------------------------------------
(* The reporter's steps. *)

\* What a report leaves: new jobs, queued, of messages that are stored.
Reports ==
  /\ job' \in Seq(Job) /\ Len(job') <= MaxJobs
  /\ Numbers \subseteq Numbers' /\ \A k \in Numbers : job'[k] = job[k]
  /\ \A k \in Numbers' \ Numbers :
       /\ job'[k].pc = "queued" /\ job'[k].issue \in DOMAIN issue'
       /\ job'[k].kind = "analyze" => k \in stored'
  /\ queue' \in Seq(Numbers') /\ Queued'
  /\ stored \subseteq stored' /\ stored' \subseteq Numbers'

\* A job as it is submitted.
LEMMA NewJobs ==
  ASSUME NEW i \in IssueId, NEW kind \in {"capture", "handoff", "analyze"}
  PROVE  LET x == NewJob(kind, i) IN
         x \in Job /\ x.pc = "queued" /\ x.issue = i /\ x.kind = kind
BY DEF NewJob, Job, JobState, Outcome

\* Submitting the jobs of stored messages is all a report does to the executor.
LEMMA SubmitReports ==
  ASSUME Types, Queued, NEW new \in Seq(Job), Submit(new),
         \A n \in 1..Len(new) : new[n].pc = "queued" /\ new[n].issue \in DOMAIN issue',
         \A n \in 1..Len(new) : new[n].kind = "analyze" => Len(job) + n \in stored',
         \A m \in stored' : m \in stored \/ \E n \in 1..Len(new) : m = Len(job) + n,
         stored \subseteq stored'
  PROVE  Reports
<1>1. TypeOK /\ Len(job) \in Nat /\ Len(new) \in Nat /\ stored \subseteq Numbers
  BY DEF Types, TypeOK
<1>2. /\ job' \in Seq(Job) /\ Len(job') = Len(job) + Len(new) /\ Len(job') <= MaxJobs
      /\ Numbers \subseteq Numbers' /\ \A k \in Numbers : job'[k] = job[k]
      /\ \A n \in 1..Len(new) : job'[Len(job) + n] = new[n]
      /\ \A k \in Numbers' \ Numbers : \E n \in 1..Len(new) : k = Len(job) + n
      /\ queue' \in Seq(Numbers') /\ Queued'
  BY <1>1, Submitted
<1>3. \A n \in 1..Len(new) : Len(job) + n \in Numbers'
  BY <1>1, <1>2 DEF Numbers
<1>4. stored' \subseteq Numbers'
  BY <1>1, <1>2, <1>3
<1>5. \A k \in Numbers' \ Numbers :
        /\ job'[k].pc = "queued" /\ job'[k].issue \in DOMAIN issue'
        /\ job'[k].kind = "analyze" => k \in stored'
  BY <1>2
<1> QED BY <1>2, <1>4, <1>5 DEF Reports

\* So is submitting none.
LEMMA NothingReports ==
  ASSUME Types, Queued, UNCHANGED <<job, queue, stored>>
  PROVE  Reports
BY DEF Types, TypeOK, Queued, Reports, Numbers

\* A report keeps the invariant.
LEMMA ReportKeeps ==
  ASSUME IInv, Rows', Grow, session' = session, UNCHANGED quiet, Reports
  PROVE  IInv'
<1>1. /\ Types /\ Known /\ Apart /\ Deletes /\ Disks /\ \A k \in Numbers : Works(k)
      /\ UNCHANGED <<lock, progress, deleted, files, snapshots, runner, text, deletion,
                     overlooked, abandoned, deletes, crashes>>
  BY DEF IInv, quiet, bound
<1>2. Ongoing /\ Kept \subseteq Kept'
  BY <1>1 DEF Reports, Ongoing, Kept
<1>3. Types'
  BY <1>1 DEF Types, TypeOK, Reports
<1>4. Known'
  BY <1>1, <1>2, KnownOn
<1>5. Deletes'
  BY <1>1, DeletesRest
<1>6. Disks'
  <2>1. \A k \in Numbers : Live(k)' => Live(k)
    BY DEF Reports, Live
  <2>2. \A i : Removing(i) => Removing(i)'
    BY <1>1 DEF Removing
  <2> QED BY <1>1, <1>2, <2>1, <2>2, DisksOn DEF Reports, Grow
<1>7. ASSUME NEW k \in Numbers' PROVE Works(k)'
  <2>1. CASE k \in Numbers
    BY <1>1, <1>2, <2>1, WorksOn DEF Reports
  <2>2. CASE k \notin Numbers
    BY <2>2 DEF Works, Reports, Kept, Analyzing
  <2> QED BY <2>1, <2>2
<1> QED BY <1>3, <1>4, <1>5, <1>6, <1>7 DEF IInv, Reports, Apart

\* A new issue, with a description or without.
LEMMA NewReportReports ==
  ASSUME Types, Queued, NEW i \in IssueId, i \in DOMAIN issue', NEW described \in BOOLEAN,
         NewReport(i, described)
  PROVE  Reports
<1> DEFINE c == NewJob("capture", i)
           a == NewJob("analyze", i)
<1>1. /\ c \in Job /\ c.pc = "queued" /\ c.issue = i /\ c.kind = "capture"
      /\ a \in Job /\ a.pc = "queued" /\ a.issue = i /\ a.kind = "analyze"
  BY NewJobs
<1> HIDE DEF c, a
<1>2. CASE described
  <2>1. Submit(<<c, a>>) /\ stored' = stored \cup {Len(job) + 2}
    BY <1>2 DEF NewReport, c, a
  <2>2. /\ <<c, a>> \in Seq(Job) /\ Len(<<c, a>>) = 2
        /\ <<c, a>>[1] = c /\ <<c, a>>[2] = a /\ 1..2 = {1, 2}
    BY <1>1
  <2>3. PICK new : new = <<c, a>>
    OBVIOUS
  <2> QED BY <1>1, <2>1, <2>2, <2>3, SubmitReports
<1>3. CASE ~described
  <2>1. Submit(<<c>>) /\ stored' = stored
    BY <1>3 DEF NewReport, c
  <2>2. <<c>> \in Seq(Job) /\ Len(<<c>>) = 1 /\ <<c>>[1] = c /\ 1..1 = {1}
    BY <1>1
  <2>3. PICK new : new = <<c>>
    OBVIOUS
  <2> QED BY <1>1, <2>1, <2>2, <2>3, SubmitReports
<1> QED BY <1>2, <1>3

LEMMA CreateIssueStep ==
  ASSUME IInv, NEW r \in Roots, NEW who \in Reporters, CreateIssue(r, who)
  PROVE  IInv' /\ session' = session
<1>1. /\ Core!CreateIssue(r, who) /\ UNCHANGED quiet
      /\ \E described \in BOOLEAN : NewReport(Core!Main(r), described)
  BY DEF CreateIssue
<1>2. Rows' /\ Grow /\ session' = session /\ Core!Main(r) \in DOMAIN issue'
  BY <1>1, CreatedRows DEF IInv
<1>3. Core!Main(r) \in IssueId
  BY AnalysisAssumption DEF Core!Main, IssueId, Core!IssueId
<1>4. Reports
  BY <1>1, <1>2, <1>3, NewReportReports DEF IInv
<1> QED BY <1>1, <1>2, <1>4, ReportKeeps

LEMMA CreateSubissueStep ==
  ASSUME IInv, NEW i \in DOMAIN issue, NEW who \in Reporters, CreateSubissue(i, who)
  PROVE  IInv' /\ session' = session
<1>1. /\ Core!CreateSubissue(i, who) /\ UNCHANGED quiet
      /\ \E n \in DOMAIN issue' \ DOMAIN issue, described \in BOOLEAN : NewReport(n, described)
  BY DEF CreateSubissue
<1>2. Rows' /\ Grow /\ session' = session /\ DOMAIN issue' \subseteq IssueId
  BY <1>1, SubRows DEF IInv
<1>3. Reports
  BY <1>1, <1>2, NewReportReports DEF IInv
<1> QED BY <1>1, <1>2, <1>3, ReportKeeps

LEMMA AppendMessageStep ==
  ASSUME IInv, NEW i \in DOMAIN issue, AppendMessage(i)
  PROVE  IInv' /\ session' = session
<1> DEFINE a == NewJob("analyze", i)
<1>1. /\ Core!AppendMessage(i, "reporter", "local", FALSE) /\ UNCHANGED quiet
      /\ Submit(<<a>>) /\ stored' = stored \cup {Len(job) + 1}
  BY DEF AppendMessage
<1>2. Rows' /\ Grow /\ session' = session
  BY <1>1, AppendedRows DEF IInv
<1>3. i \in IssueId /\ i \in DOMAIN issue'
  BY <1>2 DEF IInv, Rows, IssueId, Grow
<1>4. a \in Job /\ a.pc = "queued" /\ a.issue = i /\ a.kind = "analyze"
  BY <1>3, NewJobs
<1> HIDE DEF a
<1>5. <<a>> \in Seq(Job) /\ Len(<<a>>) = 1 /\ <<a>>[1] = a /\ 1..1 = {1}
  BY <1>4
<1>6. PICK new : new = <<a>>
  OBVIOUS
<1>7. Reports
  BY <1>1, <1>3, <1>4, <1>5, <1>6, SubmitReports DEF IInv
<1> QED BY <1>1, <1>2, <1>7, ReportKeeps

\* A handoff job is queued, or one is already under way.
LEMMA QueueHandoffReports ==
  ASSUME Types, Queued, NEW i \in IssueId, i \in DOMAIN issue', QueueHandoff(i), UNCHANGED stored
  PROVE  Reports
<1> DEFINE h == NewJob("handoff", i)
<1>1. UNCHANGED <<job, queue>> \/ Submit(<<h>>)
  BY DEF QueueHandoff
<1>2. h \in Job /\ h.pc = "queued" /\ h.issue = i /\ h.kind = "handoff"
  BY NewJobs
<1> HIDE DEF h
<1>3. <<h>> \in Seq(Job) /\ Len(<<h>>) = 1 /\ <<h>>[1] = h /\ 1..1 = {1}
  BY <1>2
<1>4. PICK new : new = <<h>>
  OBVIOUS
<1> QED BY <1>1, <1>2, <1>3, <1>4, SubmitReports, NothingReports

LEMMA RequestHandoffStep ==
  ASSUME IInv, NEW i \in DOMAIN issue, RequestHandoff(i)
  PROVE  IInv' /\ session' = session
<1>1. Core!RequestHandoff(i) /\ QueueHandoff(i) /\ UNCHANGED stored /\ UNCHANGED quiet
  BY DEF RequestHandoff
<1>2. Rows' /\ Grow /\ session' = session
  BY <1>1, HandedRows DEF IInv
<1>3. i \in IssueId /\ i \in DOMAIN issue'
  BY <1>2 DEF IInv, Rows, IssueId, Grow
<1>4. Reports
  BY <1>1, <1>3, QueueHandoffReports DEF IInv
<1> QED BY <1>1, <1>2, <1>4, ReportKeeps

LEMMA RetryHandoffStep ==
  ASSUME IInv, NEW i \in DOMAIN issue, RetryHandoff(i)
  PROVE  IInv' /\ session' = session
<1>1. UNCHANGED core /\ QueueHandoff(i) /\ UNCHANGED stored /\ UNCHANGED quiet
  BY DEF RetryHandoff
<1>2. Rows' /\ Grow /\ session' = session /\ issue' = issue
  BY <1>1, RowsStill DEF IInv, core
<1>3. i \in IssueId /\ i \in DOMAIN issue'
  BY <1>2 DEF IInv, Rows, IssueId, Grow
<1>4. Reports
  BY <1>1, <1>3, QueueHandoffReports DEF IInv
<1> QED BY <1>1, <1>2, <1>4, ReportKeeps

-----------------------------------------------------------------------------
(* The workers' steps. *)

\* A job goes on: what it is about does not change.
Goes(j) ==
  \E x \in Job :
    /\ job' = [job EXCEPT ![j] = x]
    /\ x.issue = job[j].issue /\ x.kind = job[j].kind

\* Everything else about jobs stays.
LEMMA GoesOn ==
  ASSUME Types, NEW j \in Numbers, Goes(j)
  PROVE  /\ job' \in Seq(Job) /\ Len(job') = Len(job) /\ Numbers' = Numbers /\ Ongoing
         /\ \A k \in Numbers : k # j => job'[k] = job[k]
         /\ \A k \in Numbers : RootOf(k)' = RootOf(k)
<1>1. job \in Seq(Job)
  BY DEF Types, TypeOK
<1>2. PICK x \in Job : /\ job' = [job EXCEPT ![j] = x]
                       /\ x.issue = job[j].issue /\ x.kind = job[j].kind
  BY DEF Goes
<1>3. /\ job' \in Seq(Job) /\ Len(job') = Len(job) /\ Numbers' = Numbers
      /\ job'[j] = x /\ \A k \in Numbers : k # j => job'[k] = job[k]
  BY <1>1, <1>2, JobChanges
<1>4. Ongoing
  BY <1>2, <1>3 DEF Ongoing
<1> QED BY <1>3, <1>4 DEF Ongoing, RootOf

\* A job's next step, and nothing else of it.
LEMMA GoesTo ==
  ASSUME Types, NEW j \in Numbers, NEW pc \in JobState, To(j, pc)
  PROVE  /\ Goes(j) /\ job'[j].pc = pc /\ job'[j].thread = job[j].thread
         /\ job'[j].outcome = job[j].outcome
         /\ job'[j].issue = job[j].issue /\ job'[j].kind = job[j].kind
<1> DEFINE x == [job[j] EXCEPT !.pc = pc]
<1>1. job \in Seq(Job) /\ job[j] \in Job
  BY DEF Types, TypeOK, Numbers
<1>2. /\ x \in Job /\ x.pc = pc /\ x.thread = job[j].thread /\ x.outcome = job[j].outcome
      /\ x.issue = job[j].issue /\ x.kind = job[j].kind
  BY <1>1 DEF Job
<1>3. job' = [job EXCEPT ![j] = x]
  BY DEF To
<1> HIDE DEF x
<1>4. job'[j] = x
  BY <1>1, <1>2, <1>3, JobChanges
<1> QED BY <1>2, <1>3, <1>4 DEF Goes

\* A job that ends.
LEMMA GoesEnded ==
  ASSUME Types, NEW j \in Numbers, NEW o \in Outcome, Ended(j, o)
  PROVE  /\ Goes(j) /\ job'[j].pc = "done" /\ job'[j].outcome = o
         /\ job'[j].issue = job[j].issue /\ job'[j].kind = job[j].kind
<1> DEFINE x == [job[j] EXCEPT !.pc = "done", !.thread = NoThread, !.outcome = o]
<1>1. job \in Seq(Job) /\ job[j] \in Job
  BY DEF Types, TypeOK, Numbers
<1>2. /\ x \in Job /\ x.pc = "done" /\ x.outcome = o
      /\ x.issue = job[j].issue /\ x.kind = job[j].kind
  BY <1>1 DEF Job, JobState
<1>3. job' = [job EXCEPT ![j] = x]
  BY <1>1 DEF Ended
<1> HIDE DEF x
<1>4. job'[j] = x
  BY <1>1, <1>2, <1>3, JobChanges
<1> QED BY <1>2, <1>3, <1>4 DEF Goes

\* A step of an analysis that decides its outcome, or its conversation too.
Turns(j, pc, o, t) ==
  \/ job' = [job EXCEPT ![j].pc = pc, ![j].outcome = o] /\ t = job[j].thread
  \/ job' = [job EXCEPT ![j].pc = pc, ![j].thread = t] /\ o = job[j].outcome
  \/ job' = [job EXCEPT ![j].pc = pc, ![j].thread = t, ![j].outcome = o]

\* Such a step leaves a job of the same kind and issue.
LEMMA GoesWith ==
  ASSUME Types, NEW j \in Numbers, NEW pc \in JobState, NEW o \in Outcome,
         NEW t \in Threads \cup {NoThread}, Turns(j, pc, o, t)
  PROVE  /\ Goes(j) /\ job'[j].pc = pc /\ job'[j].outcome = o /\ job'[j].thread = t
         /\ job'[j].issue = job[j].issue /\ job'[j].kind = job[j].kind
<1> DEFINE x == [job[j] EXCEPT !.pc = pc, !.thread = t, !.outcome = o]
<1>1. job \in Seq(Job) /\ job[j] \in Job
  BY DEF Types, TypeOK, Numbers
<1>2. /\ x \in Job /\ x.pc = pc /\ x.outcome = o /\ x.thread = t
      /\ x.issue = job[j].issue /\ x.kind = job[j].kind
  BY <1>1 DEF Job
<1>3. job' = [job EXCEPT ![j] = x]
  <2>1. CASE job' = [job EXCEPT ![j].pc = pc, ![j].outcome = o] /\ t = job[j].thread
    <3>1. [job[j] EXCEPT !.pc = pc, !.outcome = o] = x
      BY <1>1, <2>1 DEF Job
    <3> QED BY <2>1, <3>1
  <2>2. CASE job' = [job EXCEPT ![j].pc = pc, ![j].thread = t, ![j].outcome = o]
    BY <2>2
  <2>3. CASE job' = [job EXCEPT ![j].pc = pc, ![j].thread = t] /\ o = job[j].outcome
    <3>1. [job[j] EXCEPT !.pc = pc, !.thread = t] = x
      BY <1>1, <2>3 DEF Job
    <3> QED BY <2>3, <3>1
  <2> QED BY <2>1, <2>2, <2>3 DEF Turns
<1> HIDE DEF x
<1>4. job'[j] = x
  BY <1>1, <1>2, <1>3, JobChanges
<1> QED BY <1>2, <1>3, <1>4 DEF Goes

\* What a step of j's analysis changes of the locks, of the conversations' ids
\* and of the conversations: only what is its family's.
LocksOf(j) ==
  /\ DOMAIN lock' \subseteq Roots /\ \A r \in DOMAIN lock' : lock'[r] \in Numbers \cup {Deleter}
  /\ \A r \in DOMAIN lock : r # RootOf(j) => r \in DOMAIN lock' /\ lock'[r] = lock[r]

SessionsOf(j) ==
  /\ DOMAIN session' \subseteq Roots /\ session' \in [DOMAIN session' -> Threads]
  /\ \A r \in Roots \ {RootOf(j)} :
       /\ r \in DOMAIN session' <=> r \in DOMAIN session
       /\ r \in DOMAIN session => session'[r] = session[r]
  /\ RootOf(j) \in DOMAIN session' => Clean(session[RootOf(j)], RootOf(j))'

TextsOf(j) ==
  /\ text' \in [Threads -> SUBSET Numbers]
  /\ \A t \in Threads :
       \/ text'[t] = text[t]
       \/ /\ Clean(t, RootOf(j))
          /\ text[t] = {} => \A r \in DOMAIN session : session[r] # t

\* A step of an analysis that changes only what is its family's keeps the
\* invariant, as far as that is about others.
LEMMA AnalysisKeeps ==
  ASSUME IInv, NEW j \in Numbers, Goes(j), Works(j)', Rows', Grow, Apart', Disks',
         job[j].pc \in Analyzing \cup {"waiting"},
         job[j].pc = "waiting" => RootOf(j) \notin DOMAIN lock,
         LocksOf(j), SessionsOf(j), TextsOf(j),
         progress' \subseteq IssueId, files' \subseteq IssueId, snapshots' \subseteq IssueId,
         UNCHANGED stored, UNCHANGED still
  PROVE  IInv'
<1>1. /\ Types /\ Known /\ Deletes /\ Queued /\ \A k \in Numbers : Works(k)
      /\ UNCHANGED <<queue, deleted, runner, deletion, stored, overlooked, abandoned, deletes, crashes>>
  BY DEF IInv, still, bound
<1>2. /\ job' \in Seq(Job) /\ Len(job') = Len(job) /\ Numbers' = Numbers /\ Ongoing
      /\ \A k \in Numbers : k # j => job'[k] = job[k]
      /\ \A k \in Numbers : RootOf(k)' = RootOf(k)
  BY <1>1, GoesOn
<1>3. PICK r \in Roots : r = RootOf(j)
  BY <1>1, JobTypes
<1>4. j \in Nat \ {0} /\ Kept' = Kept
  BY <1>1, JobTypes DEF Kept
<1>5. r \in DOMAIN lock => lock[r] = j
  BY <1>1, <1>3 DEF Works
<1>6. Types'
  BY <1>1, <1>2 DEF Types, TypeOK, LocksOf, SessionsOf, TextsOf
<1>7. Queued'
  <2>1. \A n \in 1..Len(queue) : queue[n] \in Numbers /\ queue[n] # j
    BY <1>1 DEF Types, TypeOK, Queued, Analyzing
  <2> QED BY <1>1, <1>2, <2>1 DEF Queued
<1>8. ASSUME NEW q \in DOMAIN session, q # r, NEW t, t = session[q]
      PROVE  text'[t] = text[t]
  <2>1. t \in Threads /\ Clean(t, q)
    BY <1>1, <1>8 DEF Types, Known
  <2>2. ASSUME Clean(t, r), text[t] # {} PROVE FALSE
    BY <1>8, <2>1, <2>2 DEF Clean
  <2> QED BY <1>3, <1>8, <2>1, <2>2 DEF TextsOf
<1>9. Known'
  <2> SUFFICES ASSUME NEW q \in DOMAIN session' PROVE Clean(session[q], q)'
    BY DEF Known
  <2>1. CASE q = r
    BY <1>2, <1>3, <2>1 DEF SessionsOf, Clean
  <2>2. CASE q # r
    <3>1. q \in DOMAIN session /\ session'[q] = session[q]
      BY <1>3, <2>2 DEF SessionsOf
    <3>2. PICK t : t = session[q]
      OBVIOUS
    <3>3. t \in Threads /\ text[t] \subseteq Numbers /\ text'[t] = text[t] /\ Clean(t, q)
      BY <1>1, <1>8, <2>2, <3>1, <3>2 DEF Types, TypeOK, Known
    <3>4. Clean(t, q)'
      BY <1>2, <1>4, <3>3, CleanOn
    <3> QED BY <3>1, <3>2, <3>4 DEF Clean
  <2> QED BY <2>1, <2>2
<1>10. ASSUME NEW q \in RootsOf(deletion.chosen)
       PROVE  q \in Roots /\ q # r /\ q \in DOMAIN lock /\ lock[q] = Deleter
  <2>1. q \in DOMAIN lock /\ lock[q] = Deleter
    BY <1>1 DEF Deletes
  <2> QED BY <1>1, <1>4, <1>5, <2>1 DEF Types, TypeOK, Deleter
<1>11. Deletes'
  <2>1. ASSUME deletion.pc = "forgetting" PROVE text'[deletion.now] = {}
    <3>1. PICK q \in RootsOf(deletion.chosen) \cap DOMAIN session : deletion.now = session[q]
      BY <1>1, <2>1 DEF Deletes
    <3>2. text'[deletion.now] = text[deletion.now]
      BY <1>8, <1>10, <3>1
    <3> QED BY <1>1, <2>1, <3>2 DEF Deletes
  <2>2. \A q \in RootsOf(deletion.chosen) :
          /\ lock[q] = Deleter => q \in DOMAIN lock' /\ lock'[q] = Deleter
          /\ q \in DOMAIN session <=> q \in DOMAIN session'
          /\ q \in DOMAIN session => session'[q] = session[q]
    BY <1>3, <1>10 DEF LocksOf, SessionsOf
  <2> QED BY <1>1, <2>1, <2>2, DeletesOn
<1>12. ASSUME NEW k \in Numbers, k # j PROVE Works(k)'
  <2>1. PICK q \in Roots : q = RootOf(k)
    BY <1>1, JobTypes
  <2>2. job[k].pc \in Analyzing => q # r /\ q \in DOMAIN lock /\ lock[q] = k
    BY <1>1, <1>5, <1>12, <2>1 DEF Works
  <2>3. ASSUME NEW t \in Threads, q # r, text[t] # {}, Clean(t, q) PROVE text'[t] = text[t]
    <3>1. ~Clean(t, r)
      BY <2>3 DEF Clean
    <3> QED BY <1>3, <3>1 DEF TextsOf
  <2>4. job[k].pc \in Analyzing =>
           /\ q \in DOMAIN lock /\ lock[q] = k => q \in DOMAIN lock' /\ lock'[q] = k
           /\ q \in DOMAIN session <=> q \in DOMAIN session'
           /\ q \in DOMAIN session => session'[q] = session[q]
           /\ q \in DOMAIN session /\ text[session[q]] = {} => text'[session[q]] = {}
           /\ \A t \in Threads : (t = job[k].thread /\ text[t] # {} /\ Clean(t, q)) => text'[t] = text[t]
    BY <1>3, <1>8, <2>2, <2>3 DEF LocksOf, SessionsOf
  <2>5. Works(k) /\ job'[k] = job[k]
    BY <1>1, <1>2, <1>12
  <2> QED BY <1>1, <1>2, <1>4, <2>1, <2>4, <2>5, WorksOn
<1>13. \A k \in Numbers' : Works(k)'
  BY <1>2, <1>12
<1> QED BY <1>6, <1>7, <1>9, <1>11, <1>13 DEF IInv

\* The lock is kept, or given back at the end.
LEMMA LockRests ==
  ASSUME IInv, NEW j \in Numbers, Goes(j), UNCHANGED <<lock, progress>> \/ Finish(j)
  PROVE  LocksOf(j) /\ progress' \subseteq IssueId
<1>1. Types /\ Numbers' = Numbers
  BY GoesOn DEF IInv
<1>2. CASE UNCHANGED <<lock, progress>>
  BY <1>1, <1>2 DEF LocksOf, Types, TypeOK
<1>3. CASE Finish(j)
  BY <1>1, <1>3 DEF LocksOf, Types, TypeOK, Finish, Released
<1> QED BY <1>2, <1>3

\* No conversation's id changes.
LEMMA SessionRests ==
  ASSUME IInv, NEW j \in Numbers, Goes(j), UNCHANGED <<session, stored, overlooked>>,
         TextsOf(j), \A t \in Threads : text'[t] = text[t] \/ Clean(t, RootOf(j))'
  PROVE  SessionsOf(j) /\ Apart'
<1>1. /\ Types /\ Known /\ Apart /\ Ongoing /\ Kept' = Kept
      /\ \A k \in Numbers : RootOf(k)' = RootOf(k)
  BY GoesOn DEF IInv, Kept
<1>2. PICK r \in Roots : r = RootOf(j)
  BY <1>1, JobTypes
<1>3. ASSUME r \in DOMAIN session PROVE Clean(session[r], r)'
  <2>1. PICK t : t = session[r]
    OBVIOUS
  <2>2. t \in Threads /\ Clean(t, r) /\ text[t] \subseteq Numbers
    BY <1>1, <1>3, <2>1 DEF Types, TypeOK, Known
  <2>3. CASE text'[t] = text[t]
    BY <1>1, <2>1, <2>2, <2>3, CleanOn DEF Clean
  <2>4. CASE Clean(t, RootOf(j))'
    BY <1>1, <1>2, <2>1, <2>4 DEF Clean
  <2> QED BY <2>2, <2>3, <2>4
<1>4. /\ DOMAIN session' \subseteq Roots /\ session' \in [DOMAIN session' -> Threads]
      /\ session' = session
  BY <1>1 DEF Types
<1>5. RootOf(j) \in DOMAIN session' => Clean(session[RootOf(j)], RootOf(j))'
  BY <1>1, <1>2, <1>3 DEF Clean
<1> QED BY <1>1, <1>4, <1>5 DEF SessionsOf, Apart

\* No conversation changes.
LEMMA TextRests ==
  ASSUME IInv, NEW j \in Numbers, Goes(j), UNCHANGED text
  PROVE  TextsOf(j)
BY GoesOn DEF TextsOf, IInv, Types, TypeOK

\* The snapshot of an analysis is of an issue that is not deleted.
LEMMA DiskRests ==
  ASSUME IInv, NEW j \in Numbers, Goes(j), job[j].pc \in Analyzing \cup {"waiting"},
         UNCHANGED still, Grow,
         \/ UNCHANGED disk
         \/ job[j].pc \in Analyzing /\ Captured(job[j].issue)
         \/ job[j].pc \in Analyzing /\ CaptureFails(job[j].issue)
  PROVE  Disks' /\ files' \subseteq IssueId /\ snapshots' \subseteq IssueId
<1>1. /\ Types /\ Disks /\ Ongoing /\ Numbers' = Numbers
      /\ UNCHANGED <<deleted, deletion, abandoned>> /\ job[j].issue \in IssueId
      /\ \A k \in Numbers : k # j => job'[k] = job[k]
      /\ job[j].pc \in Analyzing => job[j].issue \notin deleted
      /\ job[j].pc # "collecting" /\ Live(j)
  BY GoesOn, JobTypes DEF IInv, still, bound, Works, Analyzing, Live
<1>2. DOMAIN issue \subseteq DOMAIN issue' /\ Gone' \subseteq Gone
  BY <1>1 DEF Grow, Gone
<1>3. job[j].pc \in Analyzing => job[j].issue \notin Gone'
  BY <1>1, <1>2, LiveIsMarked
<1>4. /\ files' \subseteq IssueId /\ snapshots' \subseteq IssueId
      /\ \A i \in Gone' : (i \in snapshots' => i \in snapshots) /\ (i \in files' => i \in files)
  BY <1>1, <1>3 DEF Types, TypeOK, disk, Captured, CaptureKept, CaptureFails
<1>5. /\ \A k \in Numbers : job[k].pc = "collecting" => job'[k].pc = "collecting"
      /\ \A k \in Numbers : Live(k)' => Live(k)
      /\ \A i : Removing(i) => Removing(i)'
  BY <1>1 DEF Live, Removing
<1>6. Disks'
  BY <1>1, <1>2, <1>4, <1>5, DisksOn
<1> QED BY <1>4, <1>6

\* Under the lock the issue is there, or the job ends.
LEMMA AcquireStep ==
  ASSUME IInv, NEW j \in Numbers, Acquire(j)
  PROVE  IInv' /\ session' = session
<1>1. /\ Types /\ Works(j) /\ job[j].pc = "waiting" /\ RootOf(j) \notin DOMAIN lock
      /\ issue' = issue /\ UNCHANGED <<session, disk, stored, text, overlooked, deleted>> /\ UNCHANGED still
  BY DEF IInv, Acquire, core, still, bound
<1>2. PICK r \in Roots : r = RootOf(j)
  BY <1>1, JobTypes
<1>3. CASE To(j, "done") /\ UNCHANGED <<lock, progress>>
  <2>1. Goes(j) /\ job'[j].pc = "done"
    BY <1>1, <1>3, GoesTo DEF JobState
  <2>2. Works(j)'
    BY <2>1 DEF Works, Analyzing
  <2>3. LocksOf(j) /\ progress' \subseteq IssueId
    BY <1>3, <2>1, LockRests
  <2>4. TextsOf(j) /\ SessionsOf(j) /\ Apart'
    BY <1>1, <2>1, TextRests, SessionRests
  <2>5. Disks' /\ files' \subseteq IssueId /\ snapshots' \subseteq IssueId
    BY <1>1, <2>1, DiskRests, RowsStill DEF IInv
  <2>6. Rows' /\ Grow
    BY <1>1, RowsStill DEF IInv
  <2> QED BY <1>1, <2>1, <2>2, <2>3, <2>4, <2>5, <2>6, AnalysisKeeps
<1>4. CASE /\ job[j].issue \in DOMAIN issue \ deleted
           /\ lock' = Held({RootOf(j)}, j) /\ progress' = progress \cup {job[j].issue}
           /\ job' = [job EXCEPT ![j].pc = "begun",
                                 ![j].thread = IF RootOf(j) \in DOMAIN session
                                               THEN session[RootOf(j)] ELSE NoThread]
  <2>1. PICK t \in Threads \cup {NoThread} : t = IF r \in DOMAIN session THEN session[r] ELSE NoThread
    BY <1>1 DEF Types
  <2>2. /\ Goes(j) /\ job'[j].pc = "begun" /\ job'[j].thread = t /\ job'[j].outcome = job[j].outcome
        /\ job'[j].kind = job[j].kind /\ job'[j].issue = job[j].issue
    <3>1. job[j].outcome \in Outcome /\ "begun" \in JobState
      BY <1>1, JobTypes DEF Job, JobState
    <3>2. Turns(j, "begun", job[j].outcome, t)
      BY <1>2, <1>4, <2>1 DEF Turns
    <3> QED BY <1>1, <3>1, <3>2, GoesWith
  <2>3. LocksOf(j) /\ progress' \subseteq IssueId /\ r \in DOMAIN lock' /\ lock'[r] = j
    BY <1>1, <1>2, <1>4, <2>2, GoesOn, JobTypes DEF Held, LocksOf, Types, TypeOK
  <2>4. Works(j)'
    <3>1. /\ job[j].kind = "analyze" /\ j \in Kept
          /\ job'[j].issue \notin deleted' /\ session' = session
      BY <2>2, <1>1, <1>4 DEF Works
    <3>2. RootOf(j)' = r /\ Kept' = Kept
      BY <1>1, <1>2, <2>2, GoesOn DEF Kept
    <3> QED BY <2>1, <2>2, <2>3, <3>1, <3>2 DEF Works, Analyzing
  <2>5. TextsOf(j) /\ SessionsOf(j) /\ Apart'
    BY <1>1, <2>2, TextRests, SessionRests
  <2>6. Disks' /\ files' \subseteq IssueId /\ snapshots' \subseteq IssueId
    BY <1>1, <2>2, DiskRests, RowsStill DEF IInv
  <2>7. Rows' /\ Grow
    BY <1>1, RowsStill DEF IInv
  <2> QED BY <1>1, <2>2, <2>3, <2>4, <2>5, <2>6, <2>7, AnalysisKeeps
<1> QED BY <1>3, <1>4 DEF Acquire

\* The analysis keeps to its snapshot, its lock and the core's tables.
LEMMA AnalysisRests ==
  ASSUME IInv, NEW j \in Numbers, Goes(j), Works(j)', job[j].pc \in Analyzing, Rows', Grow,
         UNCHANGED <<lock, progress>> \/ Finish(j), UNCHANGED <<session, stored, text>>,
         UNCHANGED still,
         UNCHANGED disk \/ Captured(job[j].issue) \/ CaptureFails(job[j].issue)
  PROVE  IInv'
<1>1. LocksOf(j) /\ progress' \subseteq IssueId
  BY LockRests
<1>2. TextsOf(j) /\ UNCHANGED <<session, stored, overlooked>>
  BY TextRests DEF still, bound
<1>3. SessionsOf(j) /\ Apart'
  BY <1>2, SessionRests
<1>4. Disks' /\ files' \subseteq IssueId /\ snapshots' \subseteq IssueId
  BY DiskRests
<1>5. job[j].pc # "waiting"
  BY DEF Analyzing
<1> QED BY <1>1, <1>2, <1>3, <1>4, <1>5, AnalysisKeeps

\* An analysis that ends, or goes on to look whether its answer may be given.
LEMMA EndWorks ==
  ASSUME IInv, NEW j \in Numbers, job'[j].pc = "done" PROVE Works(j)'
BY DEF Works, Analyzing

\* From here on it needs only its lock.
LEMMA NextWorks ==
  ASSUME IInv, NEW j \in Numbers, job[j].pc \in Analyzing, Goes(j), UNCHANGED <<lock, stored>>,
         UNCHANGED still,
         job'[j].pc \in {"checking", "appending"}
  PROVE  Works(j)'
<1>1. /\ Works(j) /\ job'[j].issue = job[j].issue /\ job'[j].kind = job[j].kind
      /\ RootOf(j)' = RootOf(j) /\ Kept' = Kept /\ deleted' = deleted
  BY GoesOn DEF IInv, still, bound, Kept, Ongoing
<1> QED BY <1>1 DEF Works, Analyzing

\* The snapshot of an analysis.
LEMMA CaptureStep ==
  ASSUME IInv, NEW j \in Numbers, Capture(j)
  PROVE  IInv' /\ session' = session
<1>1. /\ Types /\ Works(j) /\ job[j].pc = "begun" /\ job[j].pc \in Analyzing
      /\ issue' = issue /\ UNCHANGED <<session, stored, text>> /\ UNCHANGED still
      /\ UNCHANGED <<overlooked, deleted>> /\ Rows' /\ Grow
  BY RowsStill DEF IInv, Capture, core, still, bound, Analyzing
<1>2. CASE Captured(job[j].issue) /\ To(j, "asking") /\ UNCHANGED <<lock, progress>>
  <2>1. /\ Goes(j) /\ job'[j].pc = "asking" /\ job'[j].thread = job[j].thread
        /\ job'[j].outcome = job[j].outcome
        /\ job'[j].issue = job[j].issue /\ job'[j].kind = job[j].kind
    BY <1>1, <1>2, GoesTo DEF JobState
  <2>2. Works(j)'
    <3>1. RootOf(j)' = RootOf(j) /\ Kept' = Kept /\ deleted' = deleted
      BY <1>1, <2>1, GoesOn DEF Kept
    <3> QED BY <1>1, <1>2, <2>1, <3>1 DEF Works, Analyzing
  <2> QED BY <1>1, <1>2, <2>1, <2>2, AnalysisRests
<1>3. CASE Captured(job[j].issue) /\ Ended(j, "off") /\ Finish(j)
  <2>1. Goes(j) /\ job'[j].pc = "done"
    BY <1>1, <1>3, GoesEnded DEF Outcome
  <2>2. Works(j)'
    BY <2>1, EndWorks
  <2> QED BY <1>1, <1>3, <2>1, <2>2, AnalysisRests
<1>4. CASE /\ job' = [job EXCEPT ![j].pc = "checking", ![j].outcome = "failure"]
           /\ CaptureFails(job[j].issue) /\ UNCHANGED <<lock, progress>>
  <2>1. Goes(j) /\ job'[j].pc = "checking" /\ job'[j].outcome = "failure"
    <3>1. job[j].thread \in Threads \cup {NoThread} /\ "checking" \in JobState /\ "failure" \in Outcome
      BY <1>1, JobTypes DEF Job, JobState, Outcome
    <3>2. Turns(j, "checking", "failure", job[j].thread)
      BY <1>4 DEF Turns
    <3> QED BY <1>1, <3>1, <3>2, GoesWith
  <2>2. CaptureFails(job[j].issue) /\ UNCHANGED <<lock, progress>>
    BY <1>4
  <2>3. Works(j)'
    BY <1>1, <2>1, <2>2, NextWorks
  <2> QED BY <1>1, <2>1, <2>2, <2>3, AnalysisRests
<1> QED BY <1>2, <1>3, <1>4 DEF Capture

\* The look at local_input_enabled.
LEMMA CheckInputStep ==
  ASSUME IInv, NEW j \in Numbers, CheckInput(j)
  PROVE  IInv' /\ session' = session
<1>1. /\ Types /\ Works(j) /\ job[j].pc = "checking" /\ job[j].pc \in Analyzing
      /\ issue' = issue /\ UNCHANGED <<session, disk, stored, text>> /\ UNCHANGED still
      /\ Rows' /\ Grow
  BY RowsStill DEF IInv, CheckInput, core, Analyzing
<1>2. CASE To(j, "appending") /\ UNCHANGED <<lock, progress>>
  <2>1. Goes(j) /\ job'[j].pc = "appending" /\ job'[j].outcome = job[j].outcome
    BY <1>1, <1>2, GoesTo DEF JobState
  <2>2. Works(j)'
    BY <1>1, <1>2, <2>1, NextWorks
  <2> QED BY <1>1, <1>2, <2>1, <2>2, AnalysisRests
<1>3. CASE Ended(j, "withheld") /\ Finish(j)
  <2>1. Goes(j) /\ job'[j].pc = "done"
    BY <1>1, <1>3, GoesEnded DEF Outcome
  <2>2. Works(j)'
    BY <2>1, EndWorks
  <2> QED BY <1>1, <1>3, <2>1, <2>2, AnalysisRests
<1> QED BY <1>2, <1>3 DEF CheckInput

\* The outcome is appended, and the lock given back.
LEMMA AppendOutcomeStep ==
  ASSUME IInv, NEW j \in Numbers, AppendOutcome(j)
  PROVE  IInv' /\ session' = session
<1>1. /\ Types /\ job[j].pc \in Analyzing /\ UNCHANGED <<disk, stored, text>> /\ UNCHANGED still
      /\ Core!AppendMessage(job[j].issue, "assistant", "system", job[j].outcome = "answer")
      /\ Ended(j, job[j].outcome) /\ Finish(j)
  BY DEF IInv, AppendOutcome, Analyzing
<1>2. Rows' /\ Grow /\ session' = session
  <2>1. PICK b \in BOOLEAN : b = (job[j].outcome = "answer")
    OBVIOUS
  <2>2. Core!AppendMessage(job[j].issue, "assistant", "system", b)
    BY <1>1, <2>1
  <2> QED BY <2>2, AppendedRows DEF IInv
<1>3. Goes(j) /\ job'[j].pc = "done"
  <2>1. job[j].outcome \in Outcome
    BY <1>1, JobTypes DEF Job
  <2> QED BY <1>1, <2>1, GoesEnded
<1>4. Works(j)'
  BY <1>3, EndWorks
<1> QED BY <1>1, <1>2, <1>3, <1>4, AnalysisRests

\* An analysis that talks to Codex, in a conversation no other family has.
LEMMA TalkKeeps ==
  ASSUME IInv, NEW j \in Numbers, job[j].pc = "asking", Goes(j), Works(j)', TextsOf(j),
         \A t \in Threads : text'[t] = text[t] \/ Clean(t, RootOf(j))',
         UNCHANGED <<core, lock, progress, disk, stored>>, UNCHANGED still
  PROVE  IInv'
<1>1. /\ job[j].pc \in Analyzing /\ job[j].pc # "waiting" /\ issue' = issue /\ Rows' /\ Grow
      /\ UNCHANGED <<lock, progress>> /\ UNCHANGED disk /\ UNCHANGED <<session, stored, overlooked>>
  BY RowsStill DEF IInv, Analyzing, core, still, bound
<1>2. LocksOf(j) /\ progress' \subseteq IssueId
  BY <1>1, LockRests
<1>3. SessionsOf(j) /\ Apart'
  BY <1>1, SessionRests
<1>4. Disks' /\ files' \subseteq IssueId /\ snapshots' \subseteq IssueId
  BY <1>1, DiskRests
<1> QED BY <1>1, <1>2, <1>3, <1>4, AnalysisKeeps

\* A seed holds messages of the family, and at least one.
LEMMA SeedIsClean ==
  ASSUME IInv, NEW j \in Numbers, job[j].pc \in Analyzing
  PROVE  /\ Seed(j) # {} /\ Seed(j) \subseteq Numbers
         /\ \A m \in Seed(j) : m \in Kept /\ RootOf(m) = RootOf(j)
<1>1. j \in Kept /\ stored \subseteq Numbers
  BY DEF IInv, Works, Types, TypeOK
<1> QED BY <1>1 DEF Seed, Kept

\* A new conversation is nobody else's, and one whose answer is never learnt is
\* nobody's.
LEMMA StartConversationStep ==
  ASSUME IInv, NEW j \in Numbers, StartConversation(j)
  PROVE  IInv' /\ session' = session
<1>1. /\ Types /\ Known /\ Works(j) /\ job[j].pc = "asking" /\ job[j].pc \in Analyzing
      /\ job[j].thread # NoThread => text[job[j].thread] = {}
      /\ UNCHANGED <<core, lock, progress, disk, stored>> /\ UNCHANGED still
      /\ session' = session /\ Kept' = Kept /\ deleted' = deleted
  BY DEF IInv, StartConversation, Analyzing, core, still, bound, Kept
<1>2. PICK r \in Roots : r = RootOf(j)
  BY <1>1, JobTypes
<1>3. job[j].thread \in Threads \cup {NoThread} /\ {"checking", "saving"} \subseteq JobState
      /\ {"failure", "answer"} \subseteq Outcome
  BY <1>1, JobTypes DEF Job, JobState, Outcome
<1>4. ASSUME job' = [job EXCEPT ![j].pc = "checking", ![j].outcome = "failure"]
      PROVE  Goes(j) /\ Works(j)'
  <2>1. Turns(j, "checking", "failure", job[j].thread)
    BY <1>4 DEF Turns
  <2>2. Goes(j) /\ job'[j].pc = "checking" /\ job'[j].outcome = "failure"
    BY <1>1, <1>3, <2>1, GoesWith
  <2> QED BY <1>1, <2>2, NextWorks
<1>5. ASSUME NEW t \in Threads, FreshThread(t), text' = [text EXCEPT ![t] = Seed(j)], Goes(j)
      PROVE  /\ TextsOf(j) /\ text'[t] # {} /\ Clean(t, r)'
             /\ \A u \in Threads : u # t => text'[u] = text[u]
  <2>1. PICK seed \in SUBSET Numbers :
          seed = Seed(j) /\ seed # {} /\ \A m \in seed : m \in Kept /\ RootOf(m) = r
    BY <1>1, <1>2, SeedIsClean
  <2>2. /\ text \in [Threads -> SUBSET Numbers] /\ Numbers' = Numbers
        /\ \A m \in Numbers : RootOf(m)' = RootOf(m)
    BY <1>1, <1>5, GoesOn DEF Types, TypeOK
  <2>3. text' = [text EXCEPT ![t] = seed]
    BY <1>5, <2>1
  <2>4. /\ text' \in [Threads -> SUBSET Numbers] /\ text'[t] = seed
        /\ \A u \in Threads : u # t => text'[u] = text[u]
    BY <2>2, <2>3
  <2>5. Clean(t, r)'
    BY <1>1, <2>1, <2>2, <2>4 DEF Clean
  <2>6. text[t] = {} /\ (\A q \in DOMAIN session : session[q] # t) /\ Clean(t, RootOf(j))
    BY <1>5 DEF FreshThread, Clean
  <2> QED BY <2>1, <2>4, <2>5, <2>6 DEF TextsOf
<1>6. ASSUME NEW t \in Threads, FreshThread(t), text' = [text EXCEPT ![t] = Seed(j)],
             Goes(j), Works(j)'
      PROVE  IInv'
  <2>1. /\ TextsOf(j) /\ Clean(t, r)' /\ \A u \in Threads : u # t => text'[u] = text[u]
    BY <1>5, <1>6
  <2>2. \A u \in Threads : text'[u] = text[u] \/ Clean(u, RootOf(j))'
    BY <1>1, <1>2, <1>6, <2>1, GoesOn DEF Clean
  <2> QED BY <1>1, <1>6, <2>1, <2>2, TalkKeeps
<1>7. ASSUME NEW t \in Threads, FreshThread(t), text' = [text EXCEPT ![t] = Seed(j)],
             job' = [job EXCEPT ![j].pc = "saving", ![j].thread = t, ![j].outcome = "answer"]
      PROVE  Goes(j) /\ Works(j)'
  <2>1. Turns(j, "saving", "answer", t)
    BY <1>7 DEF Turns
  <2>2. /\ Goes(j) /\ job'[j].pc = "saving" /\ job'[j].outcome = "answer" /\ job'[j].thread = t
        /\ job'[j].issue = job[j].issue /\ job'[j].kind = job[j].kind
    BY <1>1, <1>3, <2>1, GoesWith
  <2>3. /\ text'[t] # {} /\ Clean(t, r)'
        /\ \A u \in Threads : u # t => text'[u] = text[u]
    BY <1>5, <1>7, <2>2
  <2>4. RootOf(j)' = r
    BY <1>1, <1>2, <2>2, GoesOn
  <2>5. r \in DOMAIN session' => text'[session'[r]] = {}
    <3>1. SUFFICES ASSUME r \in DOMAIN session PROVE text'[session[r]] = {}
      BY <1>1
    <3>2. job[j].thread = session[r] /\ session[r] \in Threads /\ session[r] # t
      BY <1>1, <1>2, <1>7, <3>1 DEF Works, Types, FreshThread
    <3>3. text[session[r]] = {}
      BY <1>1, <3>2, AnalysisAssumption
    <3> QED BY <2>3, <3>2, <3>3
  <2>6. Clean(job[j].thread, RootOf(j))'
    BY <2>2, <2>3, <2>4 DEF Clean
  <2>7. /\ job[j].kind = "analyze" /\ j \in Kept /\ job[j].issue \notin deleted
        /\ r \in DOMAIN lock' /\ lock'[r] = j
    BY <1>1, <1>2 DEF Works
  <2> QED BY <1>1, <2>2, <2>3, <2>4, <2>5, <2>6, <2>7 DEF Works, Analyzing
<1>8. CASE job' = [job EXCEPT ![j].pc = "checking", ![j].outcome = "failure"] /\ UNCHANGED text
  <2>1. Goes(j) /\ Works(j)'
    BY <1>4, <1>8
  <2>2. TextsOf(j) /\ \A u \in Threads : text'[u] = text[u]
    BY <1>8, <2>1, TextRests
  <2> QED BY <1>1, <2>1, <2>2, TalkKeeps
<1> QED BY <1>1, <1>4, <1>6, <1>7, <1>8 DEF StartConversation

\* The family's conversation takes in one more of its messages.
LEMMA ResumeConversationStep ==
  ASSUME IInv, NEW j \in Numbers, ResumeConversation(j)
  PROVE  IInv' /\ session' = session
<1>1. /\ Types /\ Known /\ Works(j) /\ job[j].pc = "asking" /\ job[j].pc \in Analyzing
      /\ UNCHANGED <<core, lock, progress, disk, stored>> /\ UNCHANGED still
      /\ session' = session /\ Kept' = Kept /\ deleted' = deleted
  BY DEF IInv, ResumeConversation, Analyzing, core, still, bound, Kept
<1>2. PICK r \in Roots : r = RootOf(j)
  BY <1>1, JobTypes
<1>3. {"checking", "saving"} \subseteq JobState /\ {"failure", "answer"} \subseteq Outcome
  BY DEF JobState, Outcome
<1>4. PICK t : t = job[j].thread
  OBVIOUS
<1>5. t \in Threads /\ r \in DOMAIN session /\ session[r] = t /\ text[t] # {} /\ Clean(t, r)
  BY <1>1, <1>2, <1>4 DEF ResumeConversation, Works, Types, Known
<1>6. CASE job' = [job EXCEPT ![j].pc = "checking", ![j].outcome = "failure"] /\ UNCHANGED text
  <2>1. Turns(j, "checking", "failure", t)
    BY <1>4, <1>6 DEF Turns
  <2>2. Goes(j) /\ job'[j].pc = "checking" /\ job'[j].outcome = "failure"
    BY <1>1, <1>3, <1>5, <2>1, GoesWith
  <2>3. Works(j)'
    BY <1>1, <2>2, NextWorks
  <2>4. TextsOf(j) /\ \A u \in Threads : text'[u] = text[u]
    BY <1>6, <2>2, TextRests
  <2> QED BY <1>1, <2>2, <2>3, <2>4, TalkKeeps
<1>7. ASSUME text' = [text EXCEPT ![job[j].thread] = @ \cup {j}], NEW o \in {"answer", "failure"},
             job' = [job EXCEPT ![j].pc = IF o = "answer" THEN "saving" ELSE "checking",
                                ![j].outcome = o]
      PROVE  IInv'
  <2>1. PICK pc \in {"saving", "checking"} : pc = IF o = "answer" THEN "saving" ELSE "checking"
    OBVIOUS
  <2>2. Turns(j, pc, o, t)
    BY <1>4, <1>7, <2>1 DEF Turns
  <2>3. /\ Goes(j) /\ job'[j].pc = pc /\ job'[j].outcome = o /\ job'[j].thread = t
        /\ job'[j].issue = job[j].issue /\ job'[j].kind = job[j].kind
    BY <1>1, <1>3, <1>5, <2>2, GoesWith
  <2>4. /\ text \in [Threads -> SUBSET Numbers] /\ Numbers' = Numbers
        /\ \A m \in Numbers : RootOf(m)' = RootOf(m)
    BY <1>1, <2>3, GoesOn DEF Types, TypeOK
  <2>5. text' = [text EXCEPT ![t] = text[t] \cup {j}]
    BY <1>4, <1>7
  <2>6. /\ text' \in [Threads -> SUBSET Numbers] /\ text'[t] = text[t] \cup {j}
        /\ \A u \in Threads : u # t => text'[u] = text[u]
    BY <1>5, <2>4, <2>5
  <2>7. j \in Kept /\ RootOf(j) = r
    BY <1>1, <1>2 DEF Works
  <2>8. Clean(t, r)'
    BY <1>1, <1>5, <2>4, <2>6, <2>7 DEF Clean, Types, TypeOK
  <2>9. TextsOf(j)
    BY <1>2, <1>5, <2>4, <2>6 DEF TextsOf
  <2>10. \A u \in Threads : text'[u] = text[u] \/ Clean(u, RootOf(j))'
    BY <2>4, <2>6, <2>7, <2>8 DEF Clean
  <2>11. Works(j)'
    <3>1. CASE pc = "checking"
      BY <1>1, <2>1, <2>3, <3>1, NextWorks
    <3>2. CASE pc = "saving"
      <4>1. /\ job[j].kind = "analyze" /\ j \in Kept /\ job[j].issue \notin deleted
            /\ r \in DOMAIN lock' /\ lock'[r] = j /\ text'[t] # {} /\ session'[r] = t
        BY <1>1, <1>2, <1>5, <2>6 DEF Works
      <4>2. Clean(job[j].thread, RootOf(j))' /\ RootOf(j)' = r
        BY <2>3, <2>4, <2>7, <2>8 DEF Clean
      <4> QED BY <1>1, <1>5, <2>3, <3>2, <4>1, <4>2 DEF Works, Analyzing
    <3> QED BY <3>1, <3>2
  <2> QED BY <1>1, <2>3, <2>9, <2>10, <2>11, TalkKeeps
<1> QED BY <1>1, <1>6, <1>7 DEF ResumeConversation

\* The id of a conversation replaces one that Codex has lost, or none.
LEMMA SaveThreadStep ==
  ASSUME IInv, NEW j \in Numbers, SaveThread(j)
  PROVE  IInv' /\ LetsGo
<1>1. /\ Types /\ Apart /\ Known /\ Works(j) /\ job[j].pc = "saving" /\ job[j].pc \in Analyzing
      /\ Core!SaveCodexThread(job[j].issue, job[j].thread)
      /\ UNCHANGED <<lock, progress, disk, stored, text>> /\ UNCHANGED still
      /\ Kept' = Kept /\ deleted' = deleted
  BY DEF IInv, SaveThread, Analyzing, still, bound, Kept
<1>2. PICK r \in Roots, t \in Threads : r = RootOf(j) /\ t = job[j].thread
  BY <1>1, JobTypes DEF Works
<1>3. /\ issue' = issue /\ \A q \in DOMAIN session \ {r} : session[q] # t
      /\ session' = [q \in DOMAIN session \cup {r} |-> IF q = r THEN t ELSE session[q]]
  BY <1>1, <1>2 DEF Core!SaveCodexThread, Core!RootOf, RootOf
<1>4. Goes(j) /\ job'[j].pc = "checking"
  <2>1. PICK o \in {"answer", "failure"} :
          job' = [job EXCEPT ![j].pc = "checking", ![j].outcome = o]
    BY DEF SaveThread
  <2>2. Turns(j, "checking", o, t)
    BY <1>2, <2>1 DEF Turns
  <2>3. "checking" \in JobState /\ o \in Outcome
    BY DEF JobState, Outcome
  <2>4. Goes(j) /\ job'[j].pc = "checking" /\ job'[j].outcome = o
    BY <1>1, <2>2, <2>3, GoesWith
  <2> QED BY <2>4
<1>5. Works(j)'
  BY <1>1, <1>4, NextWorks
<1>6. /\ \A m \in Numbers : RootOf(m)' = RootOf(m)
      /\ text[t] \subseteq Numbers /\ Clean(t, r)
  BY <1>1, <1>2, <1>4, GoesOn DEF Works, Types, TypeOK
<1>7. Clean(t, r)'
  BY <1>1, <1>6 DEF Clean
<1>8. /\ DOMAIN session' = DOMAIN session \cup {r} /\ session'[r] = t
      /\ \A q \in DOMAIN session : q # r => session'[q] = session[q]
      /\ session' \in [DOMAIN session' -> Threads] /\ DOMAIN session' \subseteq Roots
  BY <1>1, <1>3 DEF Types
<1>9. SessionsOf(j)
  <2>1. Clean(session[RootOf(j)], RootOf(j))'
    BY <1>2, <1>6, <1>7, <1>8 DEF Clean
  <2> QED BY <1>2, <1>8, <2>1 DEF SessionsOf
<1>10. Apart'
  BY <1>1, <1>3, <1>8 DEF Apart
<1>11. LetsGo
  BY <1>1, <1>2, <1>8 DEF LetsGo, Works
<1>12. LocksOf(j) /\ progress' \subseteq IssueId /\ TextsOf(j)
  BY <1>1, <1>4, LockRests, TextRests
<1>13. Rows' /\ Grow
  BY <1>3, RowsStill DEF IInv
<1>14. Disks' /\ files' \subseteq IssueId /\ snapshots' \subseteq IssueId
  BY <1>1, <1>4, <1>13, DiskRests
<1>15. job[j].pc # "waiting" /\ stored' = stored
  BY <1>1
<1> QED BY <1>1, <1>4, <1>5, <1>9, <1>10, <1>11, <1>12, <1>13, <1>14, <1>15, AnalysisKeeps

\* A job that is no analysis under way.
LEMMA JobKeeps ==
  ASSUME IInv, NEW j \in Numbers, Goes(j), Works(j)', job[j].pc \notin Analyzing,
         queue' \in Seq(Numbers), Queued', Disks',
         files' \subseteq IssueId, snapshots' \subseteq IssueId,
         abandoned' \subseteq IssueId,
         UNCHANGED <<core, lock, progress, deleted, runner, stored, text, deletion, overlooked,
                     deletes, crashes>>
  PROVE  IInv'
<1>1. /\ Types /\ Known /\ Apart /\ Deletes /\ \A k \in Numbers : Works(k)
      /\ issue' = issue
      /\ UNCHANGED <<session, lock, progress, deleted, runner, stored, text, deletion,
                     overlooked, deletes, crashes>>
  BY DEF IInv, core
<1>2. /\ job' \in Seq(Job) /\ Len(job') = Len(job) /\ Numbers' = Numbers /\ Ongoing
      /\ \A k \in Numbers : k # j => job'[k] = job[k]
  BY <1>1, GoesOn
<1>3. Types'
  BY <1>1, <1>2 DEF Types, TypeOK
<1>4. Rows' /\ Grow
  BY <1>1, RowsStill DEF IInv
<1>5. Known' /\ Apart'
  <2>1. Kept' = Kept
    BY <1>1 DEF Kept
  <2> QED BY <1>1, <1>2, <2>1, KnownOn DEF Apart
<1>6. Deletes'
  BY <1>1, <1>4, DeletesRest
<1>7. ASSUME NEW k \in Numbers, k # j PROVE Works(k)'
  BY <1>1, <1>2, <1>7, WorksOn DEF Kept
<1>8. \A k \in Numbers' : Works(k)'
  BY <1>2, <1>7
<1> QED BY <1>3, <1>4, <1>5, <1>6, <1>8 DEF IInv

\* The queue does not mind a job that has left it.
LEMMA QueueRests ==
  ASSUME IInv, NEW j \in Numbers, Goes(j), job[j].pc # "queued", UNCHANGED queue
  PROVE  queue' \in Seq(Numbers) /\ Queued'
<1>1. /\ queue \in Seq(Numbers) /\ Queued
      /\ \A k \in Numbers : k # j => job'[k] = job[k]
  BY GoesOn DEF IInv, Types, TypeOK
<1> QED BY <1>1 DEF Queued

\* A job under way that collects, reads or writes evidence.
LEMMA EvidenceKeeps ==
  ASSUME IInv, NEW j \in Numbers, NEW pc \in {"done", "reading", "bundling"}, To(j, pc),
         job[j].pc \in Evidence, NEW i, i = job[j].issue,
         abandoned' = abandoned \/ Abandon({i}),
         files' \subseteq IssueId, snapshots' \subseteq IssueId,
         \A n \in Gone' : n \in snapshots' => n \in snapshots,
         \A n \in Gone' : n \in files' => n \in files,
         job[j].pc = "collecting" => i \notin Gone' \/ i \notin files',
         UNCHANGED <<core, queue, lock, progress, deleted, runner, stored, text, deletion,
                     overlooked, deletes, crashes>>
  PROVE  IInv' /\ session' = session
<1>1. /\ Types /\ Disks /\ Works(j) /\ job[j].pc \notin Analyzing \cup {"queued"} /\ Live(j)
      /\ session' = session /\ issue' = issue /\ UNCHANGED <<deleted, deletion>> /\ UNCHANGED queue
      /\ i \in IssueId
  BY JobTypes DEF IInv, Analyzing, Evidence, core, Live
<1>2. /\ Goes(j) /\ job'[j].pc = pc /\ job'[j].issue = i /\ job'[j].kind = job[j].kind
      /\ job'[j].outcome = job[j].outcome
  BY <1>1, GoesTo DEF JobState
<1>3. /\ Ongoing /\ Numbers' = Numbers /\ \A k \in Numbers : k # j => job'[k] = job[k]
  BY <1>1, <1>2, GoesOn
<1>4. Works(j)' /\ queue' \in Seq(Numbers) /\ Queued'
  <2>1. Works(j)'
    BY <1>2 DEF Works, Analyzing
  <2> QED BY <1>1, <1>2, <2>1, QueueRests
<1>5. abandoned' \subseteq IssueId /\ abandoned \subseteq abandoned'
  BY <1>1 DEF Abandon, Types, TypeOK
<1>6. Disks'
  <2>1. \A k \in Numbers : Live(k)' => Live(k)
    BY <1>1, <1>3 DEF Live
  <2>2. \A k \in Numbers : job[k].pc = "collecting" =>
           \/ job'[k].pc = "collecting"
           \/ job[k].issue \notin Gone' \/ job[k].issue \notin files'
    BY <1>3
  <2>3. \A n : Removing(n) => Removing(n)'
    BY <1>1 DEF Removing
  <2> QED BY <1>1, <1>3, <1>5, <2>1, <2>2, <2>3, DisksOn
<1> QED BY <1>1, <1>2, <1>4, <1>5, <1>6, JobKeeps

\* A snapshot removes the files of an issue deleted meanwhile, unless it fails.
LEMMA CollectStep ==
  ASSUME IInv, NEW j \in Numbers, Collect(j)
  PROVE  IInv' /\ session' = session
<1>1. /\ Types /\ Disks /\ job[j].pc = "collecting" /\ job[j].pc \in Evidence /\ Live(j)
      /\ UNCHANGED <<core, queue, lock, progress, deleted, runner, stored, text, deletion,
                     overlooked, deletes, crashes>>
      /\ issue' = issue
  BY DEF IInv, Collect, Evidence, Live, core
<1>2. PICK i \in IssueId : i = job[j].issue
  BY <1>1, JobTypes
<1>3. ASSUME NEW pc \in {"done", "reading"}, To(j, pc), Captured(i), abandoned' = abandoned
      PROVE  IInv' /\ session' = session
  <2>1. Gone' = Gone
    BY <1>1, <1>3 DEF Gone
  <2>2. i \in Gone => i \in deleted
    BY <1>1, <1>2, LiveIsMarked
  <2>3. /\ files' \subseteq IssueId /\ snapshots' \subseteq IssueId
        /\ \A n \in Gone' : (n \in snapshots' => n \in snapshots) /\ (n \in files' => n \in files)
        /\ i \notin Gone' \/ i \notin files'
    BY <1>1, <1>3, <2>1, <2>2 DEF Captured, CaptureKept, Types, TypeOK
  <2> QED BY <1>1, <1>2, <1>3, <2>3, EvidenceKeeps
<1>4. CASE To(j, "done") /\ CaptureFails(i) /\ Abandon({i})
  <2>1. i \notin Gone' /\ Gone' \subseteq Gone
    BY <1>1, <1>4 DEF Gone, Abandon
  <2>2. /\ files' \subseteq IssueId /\ snapshots' \subseteq IssueId
        /\ \A n \in Gone' : (n \in snapshots' => n \in snapshots) /\ (n \in files' => n \in files)
    BY <1>1, <1>4, <2>1 DEF CaptureFails, Types, TypeOK
  <2> QED BY <1>1, <1>2, <1>4, <2>1, <2>2, EvidenceKeeps
<1>5. PICK pc \in {"done", "reading"} :
        pc = IF job[j].kind = "handoff" /\ i \notin deleted THEN "reading" ELSE "done"
  OBVIOUS
<1>6. \/ To(j, pc) /\ Captured(i) /\ UNCHANGED abandoned
      \/ To(j, "done") /\ CaptureFails(i) /\ Abandon({i})
  BY <1>2, <1>5 DEF Collect
<1> QED BY <1>3, <1>4, <1>6

\* Nothing but the job's own progress changes.
LEMMA ReadForBundleStep ==
  ASSUME IInv, NEW j \in Numbers, ReadForBundle(j)
  PROVE  IInv' /\ session' = session
<1>1. /\ Types /\ job[j].pc = "reading" /\ job[j].pc \in Evidence
      /\ UNCHANGED <<core, queue, lock, progress, deleted, runner, stored, text, deletion,
                     overlooked, deletes, crashes>>
      /\ UNCHANGED <<files, snapshots>> /\ abandoned' = abandoned
  BY DEF IInv, ReadForBundle, Evidence, disk, bound
<1>2. \E pc \in {"done", "bundling"} : To(j, pc)
  <2>1. To(j, "done") \/ To(j, "bundling")
    BY DEF ReadForBundle
  <2> QED BY <2>1
<1>3. files' \subseteq IssueId /\ snapshots' \subseteq IssueId
  BY <1>1 DEF Types, TypeOK
<1> QED BY <1>1, <1>2, <1>3, EvidenceKeeps

\* A bundle written of an issue that is gone is left behind.
LEMMA BundleStep ==
  ASSUME IInv, NEW j \in Numbers, Bundle(j)
  PROVE  IInv' /\ session' = session
<1>1. /\ Types /\ To(j, "done") /\ job[j].pc = "bundling" /\ job[j].pc \in Evidence
      /\ UNCHANGED <<core, queue, lock, progress, deleted, runner, stored, text, deletion,
                     overlooked, deletes, crashes>>
      /\ snapshots' = snapshots /\ issue' = issue
  BY DEF IInv, Bundle, Evidence, core
<1>2. PICK i \in IssueId : i = job[j].issue
  BY <1>1, JobTypes
<1>3. CASE files' = files \cup {i} /\ Abandon({i})
  <2>1. i \notin Gone'
    BY <1>1, <1>3 DEF Gone, Abandon
  <2>2. files' \subseteq IssueId /\ snapshots' \subseteq IssueId
    BY <1>1, <1>3 DEF Types, TypeOK
  <2> QED BY <1>1, <1>2, <1>3, <2>1, <2>2, EvidenceKeeps
<1>4. CASE UNCHANGED <<files, abandoned>>
  <2>1. files' \subseteq IssueId /\ snapshots' \subseteq IssueId
    BY <1>1, <1>4 DEF Types, TypeOK
  <2> QED BY <1>1, <1>2, <1>4, <2>1, EvidenceKeeps
<1> QED BY <1>2, <1>3, <1>4 DEF Bundle

\* A worker takes the oldest job: nobody has started it before.
LEMMA StartJobStep ==
  ASSUME IInv, NEW j \in Numbers, StartJob(j)
  PROVE  IInv' /\ session' = session
<1>1. /\ Types /\ Disks /\ Queued /\ Works(j) /\ queue \in Seq(Numbers) /\ queue # << >>
      /\ j = Head(queue) /\ queue' = Tail(queue) /\ snapshots' = snapshots
      /\ UNCHANGED <<core, lock, progress, deleted, runner, stored, text, deletion, bound>>
      /\ session' = session /\ Kept' = Kept /\ UNCHANGED <<deleted, deletion>>
      /\ issue' = issue /\ abandoned' = abandoned /\ Gone' = Gone
  BY DEF IInv, StartJob, core, bound, Types, TypeOK, Kept, Gone
<1>2. /\ Len(queue) \in Nat \ {0} /\ queue' \in Seq(Numbers) /\ Len(queue') = Len(queue) - 1
      /\ \A n \in 1..Len(queue') : queue'[n] = queue[n + 1] /\ n + 1 \in 1..Len(queue)
  BY <1>1
<1>3. j = queue[1] /\ job[j].pc = "queued"
  BY <1>1, <1>2 DEF Queued
<1>4. ASSUME NEW pc \in {"done", "collecting", "reading", "waiting"}, To(j, pc),
             pc = "waiting" => job[j].kind = "analyze", pc = "reading" => job[j].kind = "handoff",
             files' = files \/ (job[j].issue \notin deleted /\ files' = files \cup {job[j].issue})
      PROVE  IInv'
  <2>1. /\ Goes(j) /\ job'[j].pc = pc /\ job'[j].outcome = job[j].outcome
        /\ job'[j].issue = job[j].issue /\ job'[j].kind = job[j].kind
    BY <1>1, <1>4, GoesTo DEF JobState
  <2>2. Ongoing /\ \A k \in Numbers : k # j => job'[k] = job[k]
    BY <1>1, <2>1, GoesOn
  <2>3. Works(j)'
    <3>1. pc = "waiting" => j \in Kept' \/ job[j].issue \in deleted'
      BY <1>1, <1>3, <1>4 DEF Works
    <3> QED BY <1>4, <2>1, <3>1 DEF Works, Analyzing
  <2>4. Queued'
    <3>1. ASSUME NEW n \in 1..Len(queue') PROVE queue'[n] # j /\ queue'[n] \in Numbers
      BY <1>1, <1>2, <1>3 DEF Queued, Numbers
    <3>2. ASSUME NEW n \in 1..Len(queue'), NEW k \in 1..Len(queue'), n < k
          PROVE  queue'[n] < queue'[k]
      BY <1>1, <1>2, <3>2 DEF Queued
    <3>3. \A n \in 1..Len(queue') : job'[queue'[n]].pc = "queued"
      BY <1>1, <1>2, <2>2, <3>1 DEF Queued
    <3> QED BY <3>2, <3>3 DEF Queued
  <2>5. files' \subseteq IssueId /\ snapshots' \subseteq IssueId
        /\ \A n \in Gone' : n \in files' => n \in files
    <3>1. Live(j)
      BY <1>3 DEF Live
    <3>2. job[j].issue \in Gone => job[j].issue \in deleted
      BY <1>1, <3>1, LiveIsMarked
    <3> QED BY <1>1, <1>4, <3>2, JobTypes DEF Types, TypeOK
  <2>6. Disks'
    <3>1. /\ \A k \in Numbers : job[k].pc = "collecting" => job'[k].pc = "collecting"
          /\ \A k \in Numbers : Live(k)' => Live(k)
          /\ \A n : Removing(n) => Removing(n)'
      BY <1>1, <1>3, <2>1, <2>2 DEF Live, Removing
    <3>2. Numbers' = Numbers
      BY <1>1, <2>1, GoesOn
    <3> QED BY <1>1, <2>2, <2>5, <3>1, <3>2, DisksOn
  <2>7. job[j].pc \notin Analyzing
    BY <1>3 DEF Analyzing
  <2>8. abandoned' \subseteq IssueId /\ UNCHANGED <<overlooked, deletes, crashes>>
    BY <1>1 DEF Types, TypeOK, bound
  <2> QED BY <1>1, <1>2, <2>1, <2>3, <2>4, <2>5, <2>6, <2>7, <2>8, JobKeeps
<1>5. CASE job[j].kind = "capture"
  BY <1>1, <1>4, <1>5 DEF StartJob
<1>6. CASE job[j].kind = "analyze"
  <2>1. PICK pc \in {"done", "waiting"} : pc = IF job[j].issue \in DOMAIN issue THEN "waiting" ELSE "done"
    OBVIOUS
  <2> QED BY <1>1, <1>4, <1>6, <2>1 DEF StartJob
<1>7. CASE job[j].kind = "handoff"
  BY <1>1, <1>4, <1>7 DEF StartJob
<1>8. job[j].kind \in {"capture", "handoff", "analyze"}
  BY <1>1, JobTypes DEF Job
<1> QED BY <1>1, <1>5, <1>6, <1>7, <1>8

-----------------------------------------------------------------------------
(* Deletion. *)

\* No analysis is under way in a family that a deletion has locked.
LEMMA NobodyWorks ==
  ASSUME IInv, NEW k \in Numbers, job[k].pc \in Analyzing
  PROVE  RootOf(k) \notin RootsOf(deletion.chosen)
<1>1. lock[RootOf(k)] = k /\ k \in Nat \ {0}
  BY JobTypes DEF IInv, Works
<1> QED BY <1>1 DEF IInv, Deletes, Deleter

\* A step of a deletion disturbs no family but those it has locked.
Spares ==
  /\ deleted \subseteq deleted'
  /\ \A i \in deleted' : i \in deleted \/ i[1] \in RootsOf(deletion.chosen)
  /\ \A m \in Kept :
       \/ m \in Kept'
       \/ job[m].issue \in deleted' /\ RootOf(m) \in RootsOf(deletion.chosen)
  /\ \A r \in Roots \ RootsOf(deletion.chosen) :
       /\ r \in DOMAIN lock => r \in DOMAIN lock' /\ lock'[r] = lock[r]
       /\ r \in DOMAIN session <=> r \in DOMAIN session'
       /\ r \in DOMAIN session => session'[r] = session[r]
  /\ \A t \in Threads :
       \/ text'[t] = text[t]
       \/ text'[t] = {} /\ \E r \in RootsOf(deletion.chosen) \cap DOMAIN session : session[r] = t

\* The analyses of all other families go on.
LEMMA OthersWork ==
  ASSUME IInv, job' = job, Spares
  PROVE  Ongoing /\ Numbers' = Numbers /\ \A k \in Numbers' : Works(k)'
<1>1. Ongoing /\ Numbers' = Numbers /\ \A k \in Numbers : job'[k] = job[k]
  BY DEF Ongoing, Numbers
<1>2. Types /\ Known /\ \A k \in Numbers : Works(k)
  BY DEF IInv
<1>3. ASSUME NEW k \in Numbers PROVE Works(k)'
  <2>1. PICK q \in Roots : q = RootOf(k) /\ job[k].issue[1] = q
    BY <1>2, JobTypes DEF RootOf
  <2>2. job[k].pc \in Analyzing => q \notin RootsOf(deletion.chosen)
    BY <2>1, NobodyWorks
  <2>3. ASSUME NEW t \in Threads, text[t] # {}, Clean(t, q), q \notin RootsOf(deletion.chosen)
        PROVE  text'[t] = text[t]
    <3>1. ASSUME NEW r \in RootsOf(deletion.chosen) \cap DOMAIN session, session[r] = t
          PROVE  FALSE
      <4>1. Clean(t, r) /\ r # q
        BY <1>2, <2>3, <3>1 DEF Known
      <4> QED BY <2>3, <4>1 DEF Clean
    <3> QED BY <3>1 DEF Spares
  <2>4. q \in DOMAIN session => session[q] \in Threads
    BY <1>2 DEF Types
  <2>5. job[k].pc \in Analyzing =>
           /\ q \in DOMAIN lock /\ lock[q] = k => q \in DOMAIN lock' /\ lock'[q] = k
           /\ job[k].issue \in deleted' => job[k].issue \in deleted
           /\ \A m \in Kept : RootOf(m) = q => m \in Kept'
           /\ q \in DOMAIN session <=> q \in DOMAIN session'
           /\ q \in DOMAIN session => session'[q] = session[q]
           /\ q \in DOMAIN session /\ text[session[q]] = {} => text'[session[q]] = {}
           /\ \A t \in Threads : (t = job[k].thread /\ text[t] # {} /\ Clean(t, q)) => text'[t] = text[t]
    BY <2>1, <2>2, <2>3, <2>4 DEF Spares
  <2> QED BY <1>1, <1>2, <2>1, <2>5, WorksOn DEF Spares
<1> QED BY <1>1, <1>3

\* The executor stands still.
LEMMA JobsRest ==
  ASSUME IInv, UNCHANGED <<job, queue>>
  PROVE  /\ job' \in Seq(Job) /\ Len(job') <= MaxJobs /\ queue' \in Seq(Numbers')
         /\ Numbers' = Numbers /\ Ongoing /\ Queued'
         /\ (\A k \in Numbers : job'[k] = job[k]) /\ \A k \in Numbers : RootOf(k)' = RootOf(k)
BY DEF IInv, Types, TypeOK, Queued, Numbers, Ongoing, RootOf

\* No deletion is under way.
LEMMA IdleDeletes ==
  ASSUME deletion' = Idle
  PROVE  /\ Deletes' /\ RootsOf(deletion.chosen)' = {}
         /\ deletion' \in Deletion /\ deletion'.chosen \subseteq IssueId
         /\ deletion'.targets \subseteq IssueId
<1>1. /\ deletion'.pc = "idle" /\ deletion'.chosen = {} /\ deletion'.targets = {}
      /\ deletion'.threads = {} /\ deletion'.now = NoThread
  BY DEF Idle
<1>2. RootsOf(deletion.chosen)' = {}
  BY <1>1 DEF RootsOf
<1>3. deletion' \in Deletion
  BY <1>1 DEF Deletion, Idle
<1>4. Deletes'
  BY <1>1, <1>2 DEF Deletes, Idle
<1> QED BY <1>1, <1>2, <1>3, <1>4

\* With or without Codex.
LEMMA ConfigureStep ==
  ASSUME IInv, Configure
  PROVE  IInv' /\ session' = session
<1>1. /\ Deletes /\ runner' = ~runner
      /\ issue' = issue /\ session' = session /\ Kept' = Kept
      /\ UNCHANGED <<job, queue>> /\ UNCHANGED <<lock, progress, deleted, files, snapshots,
                     stored, text, deletion, overlooked, abandoned, deletes, crashes>>
  BY DEF IInv, Configure, core, disk, bound, Kept
<1>2. /\ job' \in Seq(Job) /\ Len(job') <= MaxJobs /\ queue' \in Seq(Numbers')
      /\ Numbers' = Numbers /\ Ongoing /\ Queued'
  BY <1>1, JobsRest
<1>3. Types'
  BY <1>1, <1>2 DEF IInv, Types, TypeOK
<1>4. Rows' /\ Grow
  BY <1>1, RowsStill DEF IInv
<1>5. Known' /\ Apart'
  BY <1>1, <1>2, KnownOn DEF IInv, Apart
<1>6. Deletes'
  BY <1>1, <1>4, DeletesRest
<1>7. ASSUME NEW k \in Numbers PROVE Works(k)'
  <2>1. Types /\ Works(k) /\ job'[k] = job[k]
    BY <1>1 DEF IInv
  <2> QED BY <1>1, <1>2, <2>1, WorksOn
<1>8. Disks'
  <2>1. \A i : Removing(i) => Removing(i)'
    BY <1>1 DEF Removing
  <2> QED BY <1>1, <2>1, DisksRest DEF IInv
<1> QED BY <1>1, <1>2, <1>3, <1>4, <1>5, <1>6, <1>7, <1>8 DEF IInv

\* A conversation Codex has lost is clean.
LEMMA LoseConversationStep ==
  ASSUME IInv, NEW t \in Threads, LoseConversation(t)
  PROVE  IInv' /\ session' = session
<1>1. /\ deletion = Idle /\ text' = [text EXCEPT ![t] = {}] /\ Kept' = Kept
      /\ \A j \in Numbers : job[j].pc \in Analyzing => job[j].thread # t
      /\ issue' = issue /\ session' = session
      /\ UNCHANGED <<job, queue>> /\ UNCHANGED <<lock, progress, deleted, files, snapshots,
                     runner, stored, deletion, overlooked, abandoned, deletes, crashes>>
  BY DEF LoseConversation, core, disk, bound, Kept
<1>2. /\ job' \in Seq(Job) /\ Len(job') <= MaxJobs /\ queue' \in Seq(Numbers')
      /\ Numbers' = Numbers /\ Ongoing /\ Queued' /\ \A k \in Numbers : RootOf(k)' = RootOf(k)
      /\ \A k \in Numbers : job'[k] = job[k]
  BY <1>1, JobsRest
<1>3. Types /\ Known /\ text \in [Threads -> SUBSET Numbers] /\ \A k \in Numbers : Works(k)
  BY DEF IInv, Types, TypeOK
<1>4. /\ text' \in [Threads -> SUBSET Numbers] /\ text'[t] = {}
      /\ \A u \in Threads : u # t => text'[u] = text[u]
  BY <1>1, <1>3
<1>5. Types'
  BY <1>1, <1>2, <1>3, <1>4 DEF Types, TypeOK
<1>6. Rows' /\ Grow
  BY <1>1, RowsStill DEF IInv
<1>7. Known' /\ Apart'
  <2>1. ASSUME NEW r \in DOMAIN session PROVE Clean(session[r], r)'
    <3>1. PICK u \in Threads : u = session[r]
      BY <1>3 DEF Types
    <3>2. Clean(u, r) /\ text[u] \subseteq Numbers
      BY <1>3, <3>1 DEF Known
    <3>3. Clean(u, r)'
      BY <1>1, <1>2, <1>4, <3>2 DEF Clean
    <3> QED BY <1>1, <3>1, <3>3 DEF Clean
  <2> QED BY <1>1, <2>1 DEF IInv, Known, Apart
<1>8. Deletes'
  BY <1>1, IdleDeletes
<1>9. ASSUME NEW k \in Numbers PROVE Works(k)'
  <2>1. PICK q \in Roots : q = RootOf(k)
    BY <1>3, JobTypes
  <2>2. \A u \in Threads : text'[u] = {} \/ text'[u] = text[u]
    BY <1>4
  <2>3. q \in DOMAIN session => session[q] \in Threads
    BY <1>3 DEF Types
  <2>4. job[k].pc \in Analyzing =>
           /\ q \in DOMAIN lock /\ lock[q] = k => q \in DOMAIN lock' /\ lock'[q] = k
           /\ q \in DOMAIN session /\ text[session[q]] = {} => text'[session[q]] = {}
           /\ \A u \in Threads : (u = job[k].thread /\ text[u] # {} /\ Clean(u, q)) => text'[u] = text[u]
    BY <1>1, <1>4, <2>2, <2>3
  <2> QED BY <1>1, <1>2, <1>3, <2>1, <2>4, WorksOn
<1>10. Disks'
  <2>1. \A i : Removing(i) => Removing(i)'
    BY <1>1 DEF Removing
  <2> QED BY <1>1, <2>1, DisksRest DEF IInv
<1> QED BY <1>1, <1>2, <1>5, <1>6, <1>7, <1>8, <1>9, <1>10 DEF IInv

\* What a step of a deletion leaves as it is.
Calm == UNCHANGED <<job, queue, progress, runner, crashes>>

\* A step of a deletion that removes no row and no file.
LEMMA DeletionKeeps ==
  ASSUME IInv, Calm, Spares, Deletes', Known', Apart', Disks',
         UNCHANGED <<issue, files, snapshots, stored, overlooked, abandoned>>,
         DOMAIN session' \subseteq Roots, session' \in [DOMAIN session' -> Threads],
         DOMAIN lock' \subseteq Roots, \A r \in DOMAIN lock' : lock'[r] \in Numbers \cup {Deleter},
         deleted' \subseteq IssueId, text' \in [Threads -> SUBSET Numbers],
         deletion' \in Deletion
  PROVE  IInv'
<1>1. /\ job' \in Seq(Job) /\ Len(job') <= MaxJobs /\ queue' \in Seq(Numbers')
      /\ Numbers' = Numbers /\ Ongoing /\ Queued'
  BY JobsRest DEF Calm
<1>2. deletion'.chosen \subseteq IssueId /\ deletion'.targets \subseteq IssueId
  BY DEF Deletion
<1>3. Types'
  BY <1>1, <1>2 DEF IInv, Types, TypeOK, Calm
<1>4. Rows'
  BY DEF IInv, Rows
<1>5. \A k \in Numbers' : Works(k)'
  BY OthersWork DEF Calm
<1> QED BY <1>1, <1>3, <1>4, <1>5 DEF IInv

\* A deletion takes every lock at once, and so finds every conversation it must
\* clean up.
LEMMA BeginDeleteStep ==
  ASSUME IInv, NEW S \in SUBSET DOMAIN issue, BeginDelete(S)
  PROVE  IInv' /\ session' = session
<1> DEFINE rs      == RootsOf(S)
           threads == {session[r] : r \in rs \cap DOMAIN session}
<1>1. /\ deletion = Idle /\ RootsOf(S) \cap DOMAIN lock = {}
      /\ deletion' = [pc |-> "cleaning", chosen |-> S, targets |-> Core!Targets(S),
                      threads |-> threads, now |-> NoThread]
      /\ lock' = Held(RootsOf(S), Deleter)
      /\ session' = session /\ Calm /\ UNCHANGED <<issue, files, snapshots, stored, overlooked, abandoned>>
      /\ text' = text /\ deleted' = deleted
  BY DEF BeginDelete, core, disk, Calm
<1>2. /\ Types /\ Rows /\ Known /\ Apart /\ Disks /\ Kept' = Kept
      /\ S \subseteq IssueId /\ Core!Targets(S) \subseteq IssueId
      /\ rs \subseteq Roots /\ threads \subseteq Threads
  <2>1. Rows /\ Types
    BY DEF IInv
  <2>2. S \subseteq IssueId /\ Core!Targets(S) \subseteq IssueId
    BY <2>1, TargetsWithin DEF Rows
  <2>3. rs \subseteq Roots
    BY <2>2, RootsAreRoots DEF RootsOf
  <2> QED BY <1>1, <2>1, <2>2, <2>3 DEF IInv, Types, Kept
<1>3. Ongoing /\ Numbers' = Numbers
  BY <1>1, JobsRest DEF Calm
<1> HIDE DEF threads
<1>4. /\ deletion'.pc = "cleaning" /\ deletion'.chosen = S /\ deletion'.threads = threads
      /\ deletion'.targets = Core!Targets(S) /\ deletion' \in Deletion
  BY <1>1, <1>2 DEF Deletion
<1>5. RootsOf(deletion.chosen)' = rs
  BY <1>4 DEF RootsOf
<1>6. /\ \A r \in rs : r \in DOMAIN lock' /\ lock'[r] = Deleter
      /\ DOMAIN lock' \subseteq Roots /\ \A r \in DOMAIN lock' : lock'[r] \in Numbers \cup {Deleter}
      /\ \A r \in DOMAIN lock : r \in DOMAIN lock' /\ lock'[r] = lock[r]
  <2>1. DOMAIN lock \subseteq Roots /\ \A r \in DOMAIN lock : lock[r] \in Numbers \cup {Deleter}
    BY <1>2 DEF Types, TypeOK
  <2> HIDE DEF rs
  <2>2. lock' = Held(rs, Deleter) /\ rs \cap DOMAIN lock = {}
    BY <1>1 DEF rs
  <2> QED BY <1>2, <2>1, <2>2 DEF Held
<1>7. deletion'.targets \subseteq Core!Targets(deletion.chosen)'
  <2>1. Grow
    BY <1>1 DEF Grow
  <2>2. Core!Targets(S) \subseteq Core!Targets(S)'
    BY <2>1, TargetsGrow
  <2> QED BY <1>4, <2>2 DEF Core!Targets, Core!Ids, Core!Expanded
<1>8. Deletes'
  <2>1. threads = {session[r] : r \in RootsOf(deletion.chosen)' \cap DOMAIN session'}
    BY <1>1, <1>5 DEF threads
  <2>2. S \subseteq DOMAIN issue'
    BY <1>1
  <2> QED BY <1>1, <1>4, <1>5, <1>6, <1>7, <2>1, <2>2 DEF Deletes
<1>9. Spares
  <2>1. UNCHANGED <<session, text, deleted>> /\ Kept' = Kept
    BY <1>1, <1>2
  <2>2. \A r \in DOMAIN lock : r \in DOMAIN lock' /\ lock'[r] = lock[r]
    BY <1>6
  <2> QED BY <2>1, <2>2 DEF Spares
<1>10. Known' /\ Apart'
  BY <1>1, <1>2, <1>3, KnownOn DEF Apart
<1>11. Disks'
  <2>1. \A i : ~Removing(i)
    BY <1>1 DEF Removing, Idle
  <2> QED BY <1>1, <1>2, <2>1, DisksRest DEF Calm
<1>12. DOMAIN session' \subseteq Roots /\ session' \in [DOMAIN session' -> Threads]
       /\ deleted' \subseteq IssueId /\ text' \in [Threads -> SUBSET Numbers]
  BY <1>1, <1>2 DEF Types, TypeOK
<1> QED BY <1>1, <1>4, <1>6, <1>8, <1>9, <1>10, <1>11, <1>12, DeletionKeeps

\* The conversation deleted is of a family the deletion has locked.
LEMMA DeleteConversationStep ==
  ASSUME IInv, NEW t \in Threads, DeleteConversation(t)
  PROVE  IInv' /\ session' = session
<1>1. /\ deletion.pc = "cleaning" /\ t \in deletion.threads
      /\ text' = [text EXCEPT ![t] = {}]
      /\ deletion' = [deletion EXCEPT !.pc = "forgetting", !.now = t]
      /\ session' = session /\ Calm /\ UNCHANGED <<issue, files, snapshots, stored, overlooked, abandoned>>
      /\ lock' = lock /\ deleted' = deleted /\ Kept' = Kept
  BY DEF DeleteConversation, core, disk, calm, bound, Calm, Kept
<1>2. Types /\ Rows /\ Known /\ Apart /\ Disks /\ Deletes /\ deletion \in Deletion
  BY DEF IInv, Types
<1>3. /\ deletion'.pc = "forgetting" /\ deletion'.now = t /\ deletion'.chosen = deletion.chosen
      /\ deletion'.targets = deletion.targets /\ deletion'.threads = deletion.threads
      /\ deletion' \in Deletion
  BY <1>1, <1>2 DEF Deletion
<1>4. /\ text' \in [Threads -> SUBSET Numbers] /\ text'[t] = {}
      /\ \A u \in Threads : u # t => text'[u] = text[u]
  BY <1>1, <1>2 DEF Types, TypeOK
<1>5. /\ Ongoing /\ Numbers' = Numbers /\ \A k \in Numbers : RootOf(k)' = RootOf(k)
  BY <1>1, JobsRest DEF Calm
<1>6. Spares
  <2>1. \E r \in RootsOf(deletion.chosen) \cap DOMAIN session : session[r] = t
    BY <1>1, <1>2 DEF Deletes
  <2> QED BY <1>1, <1>4, <2>1 DEF Spares
<1>7. Known' /\ Apart'
  <2>1. ASSUME NEW r \in DOMAIN session PROVE Clean(session[r], r)'
    <3>1. PICK u \in Threads : u = session[r]
      BY <1>2 DEF Types
    <3>2. Clean(u, r) /\ text[u] \subseteq Numbers
      BY <1>2, <3>1 DEF Known, Types, TypeOK
    <3>3. Clean(u, r)'
      BY <1>1, <1>4, <1>5, <3>2 DEF Clean
    <3> QED BY <1>1, <3>1, <3>3 DEF Clean
  <2> QED BY <1>1, <1>2, <2>1 DEF Known, Apart
<1>8. Deletes'
  <2>1. RootsOf(deletion.chosen)' = RootsOf(deletion.chosen)
    BY <1>3 DEF RootsOf
  <2>2. Core!Targets(deletion.chosen)' = Core!Targets(deletion.chosen)
    BY <1>1, <1>3 DEF Core!Targets, Core!Ids, Core!Expanded
  <2> QED BY <1>1, <1>2, <1>3, <1>4, <2>1, <2>2 DEF Deletes
<1>9. Disks'
  <2>1. \A i : ~Removing(i)
    BY <1>1 DEF Removing
  <2> QED BY <1>1, <1>2, <2>1, DisksRest DEF Calm
<1>10. /\ DOMAIN session' \subseteq Roots /\ session' \in [DOMAIN session' -> Threads]
       /\ DOMAIN lock' \subseteq Roots /\ \A r \in DOMAIN lock' : lock'[r] \in Numbers \cup {Deleter}
       /\ deleted' \subseteq IssueId
  BY <1>1, <1>2 DEF Types, TypeOK
<1> QED BY <1>1, <1>3, <1>4, <1>6, <1>7, <1>8, <1>9, <1>10, DeletionKeeps

\* What is forgotten is empty, and was of no other family.
LEMMA ForgetConversationStep ==
  ASSUME IInv, NEW t \in Threads, ForgetConversation(t)
  PROVE  IInv' /\ LetsGo
<1>1. /\ deletion.pc = "forgetting" /\ t = deletion.now
      /\ deletion' = [deletion EXCEPT !.pc = "cleaning", !.threads = @ \ {t}, !.now = NoThread]
      /\ session' = [r \in {q \in DOMAIN session : session[q] # t} |-> session[r]]
      /\ Calm /\ UNCHANGED <<issue, files, snapshots, stored, overlooked, abandoned>>
      /\ lock' = lock /\ deleted' = deleted /\ text' = text /\ Kept' = Kept
  BY DEF ForgetConversation, Core!ForgetCodexThread, disk, calm, bound, Calm, Kept
<1>2. Types /\ Rows /\ Known /\ Apart /\ Disks /\ Deletes /\ deletion \in Deletion
  BY DEF IInv, Types
<1>3. /\ deletion'.pc = "cleaning" /\ deletion'.chosen = deletion.chosen
      /\ deletion'.targets = deletion.targets /\ deletion'.threads = deletion.threads \ {t}
      /\ deletion' \in Deletion
  BY <1>1, <1>2 DEF Deletion
<1>4. /\ DOMAIN session' = {q \in DOMAIN session : session[q] # t}
      /\ \A q \in DOMAIN session' : session'[q] = session[q]
      /\ session' \in [DOMAIN session' -> Threads] /\ DOMAIN session' \subseteq Roots
  BY <1>1, <1>2 DEF Types
<1>5. /\ Ongoing /\ Numbers' = Numbers /\ \A k \in Numbers : RootOf(k)' = RootOf(k)
  BY <1>1, JobsRest DEF Calm
<1>6. /\ text[t] = {} /\ t \in deletion.threads
      /\ deletion.threads = {session[r] : r \in RootsOf(deletion.chosen) \cap DOMAIN session}
  BY <1>1, <1>2 DEF Deletes
<1>7. Spares
  <2>1. PICK r \in RootsOf(deletion.chosen) \cap DOMAIN session : session[r] = t
    BY <1>6
  <2>2. \A q \in DOMAIN session \ RootsOf(deletion.chosen) : session[q] # t
    BY <1>2, <2>1 DEF Apart
  <2> QED BY <1>1, <1>4, <2>2 DEF Spares
<1>8. LetsGo
  BY <1>4, <1>6 DEF LetsGo
<1>9. Known' /\ Apart'
  <2>1. ASSUME NEW r \in DOMAIN session' PROVE Clean(session[r], r)'
    <3>1. PICK u \in Threads : u = session[r] /\ session'[r] = u
      BY <1>2, <1>4 DEF Types
    <3>2. Clean(u, r) /\ text[u] \subseteq Numbers
      BY <1>2, <1>4, <3>1 DEF Known, Types, TypeOK
    <3>3. Clean(u, r)'
      BY <1>1, <1>5, <3>2 DEF Clean
    <3> QED BY <1>1, <3>1, <3>3 DEF Clean
  <2> QED BY <1>2, <1>4, <2>1 DEF Known, Apart
<1>10. Deletes'
  <2>1. RootsOf(deletion.chosen)' = RootsOf(deletion.chosen)
    BY <1>3 DEF RootsOf
  <2>2. Core!Targets(deletion.chosen)' = Core!Targets(deletion.chosen)
    BY <1>1, <1>3 DEF Core!Targets, Core!Ids, Core!Expanded
  <2>3. deletion'.threads = {session'[r] : r \in RootsOf(deletion.chosen) \cap DOMAIN session'}
    BY <1>3, <1>4, <1>6
  <2> QED BY <1>1, <1>2, <1>3, <2>1, <2>2, <2>3 DEF Deletes
<1>11. Disks'
  <2>1. \A i : ~Removing(i)
    BY <1>1 DEF Removing
  <2> QED BY <1>1, <1>2, <2>1, DisksRest DEF Calm
<1>12. /\ DOMAIN lock' \subseteq Roots /\ \A r \in DOMAIN lock' : lock'[r] \in Numbers \cup {Deleter}
       /\ deleted' \subseteq IssueId /\ text' \in [Threads -> SUBSET Numbers]
  BY <1>1, <1>2 DEF Types, TypeOK
<1> QED BY <1>1, <1>3, <1>4, <1>7, <1>8, <1>9, <1>10, <1>11, <1>12, DeletionKeeps

\* The issues stay, and none was marked.
LEMMA CleanupFailsStep ==
  ASSUME IInv, CleanupFails
  PROVE  IInv' /\ session' = session
<1>1. /\ deletion.threads # {} /\ deletion' = Idle
      /\ lock' = Released(RootsOf(deletion.chosen))
      /\ session' = session /\ Calm /\ UNCHANGED <<issue, files, snapshots, stored, overlooked, abandoned>>
      /\ text' = text /\ deleted' = deleted /\ Kept' = Kept
  BY DEF CleanupFails, core, disk, calm, bound, Calm, Kept
<1>2. Types /\ Rows /\ Known /\ Apart /\ Disks /\ Deletes
  BY DEF IInv
<1>3. Ongoing /\ Numbers' = Numbers
  BY <1>1, JobsRest DEF Calm
<1>4. Deletes' /\ deletion' \in Deletion
  BY <1>1, IdleDeletes
<1>5. /\ DOMAIN lock' = DOMAIN lock \ RootsOf(deletion.chosen)
      /\ \A r \in DOMAIN lock' : lock'[r] = lock[r]
  BY <1>1 DEF Released
<1>6. Spares
  BY <1>1, <1>5 DEF Spares
<1>7. Known' /\ Apart'
  BY <1>1, <1>2, <1>3, KnownOn DEF Apart
<1>8. Disks'
  <2>1. \A i : ~Removing(i)
    BY <1>1, <1>2 DEF Removing, Deletes
  <2> QED BY <1>1, <1>2, <2>1, DisksRest DEF Calm
<1>9. /\ DOMAIN session' \subseteq Roots /\ session' \in [DOMAIN session' -> Threads]
      /\ DOMAIN lock' \subseteq Roots /\ \A r \in DOMAIN lock' : lock'[r] \in Numbers \cup {Deleter}
      /\ deleted' \subseteq IssueId /\ text' \in [Threads -> SUBSET Numbers]
  BY <1>1, <1>2, <1>5 DEF Types, TypeOK
<1> QED BY <1>1, <1>4, <1>6, <1>7, <1>8, <1>9, DeletionKeeps

\* From here on no conversation of the families is left, and files are this
\* deletion's to remove.
LEMMA MarkDeletedStep ==
  ASSUME IInv, MarkDeleted
  PROVE  IInv' /\ session' = session
<1>1. /\ deletion.pc = "cleaning" /\ deletion.threads = {}
      /\ deleted' = deleted \cup deletion.targets
      /\ deletion' = [deletion EXCEPT !.pc = "deleting"]
      /\ session' = session /\ Calm /\ UNCHANGED <<issue, files, snapshots, stored, overlooked, abandoned>>
      /\ text' = text /\ lock' = lock /\ Kept' = Kept
  BY DEF MarkDeleted, core, disk, calm, bound, Calm, Kept
<1>2. Types /\ Rows /\ Known /\ Apart /\ Disks /\ Deletes /\ deletion \in Deletion
  BY DEF IInv, Types
<1>3. Ongoing /\ Numbers' = Numbers
  BY <1>1, JobsRest DEF Calm
<1>4. /\ deletion'.pc = "deleting" /\ deletion'.chosen = deletion.chosen
      /\ deletion'.targets = deletion.targets /\ deletion'.threads = {}
      /\ deletion' \in Deletion
  BY <1>1, <1>2 DEF Deletion
<1>5. \A i \in deletion.targets : i \in IssueId /\ i[1] \in RootsOf(deletion.chosen)
  <2>1. PICK S : S = deletion.chosen
    OBVIOUS
  <2>2. S \in SUBSET DOMAIN issue /\ deletion.targets \subseteq Core!Targets(S)
    BY <1>1, <1>2, <2>1 DEF Deletes
  <2>3. Core!Targets(S) \subseteq DOMAIN issue /\ \A i \in Core!Targets(S) : i[1] \in RootsOf(S)
    BY <1>2, <2>2, TargetsWithin
  <2> QED BY <1>2, <2>1, <2>2, <2>3 DEF Rows
<1>6. Spares
  BY <1>1, <1>5 DEF Spares
<1>7. Known' /\ Apart'
  BY <1>1, <1>2, <1>3, KnownOn DEF Apart
<1>8. Deletes'
  <2>1. RootsOf(deletion.chosen)' = RootsOf(deletion.chosen)
    BY <1>4 DEF RootsOf
  <2>2. Core!Targets(deletion.chosen)' = Core!Targets(deletion.chosen)
    BY <1>1, <1>4 DEF Core!Targets, Core!Ids, Core!Expanded
  <2>3. RootsOf(deletion.chosen) \cap DOMAIN session = {}
    BY <1>1, <1>2 DEF Deletes
  <2> QED BY <1>1, <1>2, <1>4, <2>1, <2>2, <2>3 DEF Deletes
<1>9. Disks'
  <2>1. \A i : ~Removing(i)
    BY <1>1 DEF Removing
  <2> QED BY <1>1, <1>2, <2>1, DisksRest DEF Calm
<1>10. /\ DOMAIN session' \subseteq Roots /\ session' \in [DOMAIN session' -> Threads]
       /\ DOMAIN lock' \subseteq Roots /\ \A r \in DOMAIN lock' : lock'[r] \in Numbers \cup {Deleter}
       /\ deleted' \subseteq IssueId /\ text' \in [Threads -> SUBSET Numbers]
  BY <1>1, <1>2, <1>5 DEF Types, TypeOK
<1> QED BY <1>1, <1>4, <1>6, <1>7, <1>8, <1>9, <1>10, DeletionKeeps

\* What is removed is of the families locked; a message goes with a marked
\* issue or is overlooked.
LEMMA DeleteRowsStep ==
  ASSUME IInv, DeleteRows
  PROVE  IInv' /\ session' = session
<1>1. PICK S : S = deletion.chosen
  OBVIOUS
<1> DEFINE gone == Core!Targets(S)
           rs   == RootsOf(S)
<1>2. /\ deletion.pc = "deleting" /\ Core!DeleteIssues(S)
      /\ stored' = {m \in stored : job[m].issue \notin gone}
      /\ overlooked' = overlooked \cup {m \in stored : job[m].issue \in gone \ deletion.targets}
      /\ abandoned' = abandoned \cup (gone \ deletion.targets)
      /\ deletion' = [deletion EXCEPT !.pc = "removing", !.targets = gone]
      /\ UNCHANGED <<job, queue>> /\ UNCHANGED <<lock, deleted, files, snapshots, text, progress, runner, crashes, deletes>>
  BY <1>1 DEF DeleteRows, disk
<1>3. Types /\ Rows /\ Known /\ Apart /\ Disks /\ Deletes /\ deletion \in Deletion
  BY DEF IInv, Types
<1>4. /\ S \in SUBSET DOMAIN issue /\ deletion.targets \subseteq gone /\ deletion.targets \subseteq deleted
      /\ rs \cap DOMAIN session = {} /\ deletion.threads = {}
  BY <1>1, <1>2, <1>3 DEF Deletes
<1>5. gone \subseteq IssueId /\ \A i \in gone : i[1] \in rs
  BY <1>3, <1>4, TargetsWithin DEF Rows
<1> HIDE DEF gone
<1>6. /\ deletion'.pc = "removing" /\ deletion'.chosen = S /\ deletion'.targets = gone
      /\ deletion'.threads = {} /\ deletion' \in Deletion
  BY <1>1, <1>2, <1>3, <1>4, <1>5 DEF Deletion
<1>7. /\ Rows' /\ session' = [r \in DOMAIN session' |-> session[r]]
      /\ DOMAIN session' \subseteq DOMAIN session
      /\ \A r \in DOMAIN session \ DOMAIN session' : Core!Main(r) \in S
  BY <1>2, <1>3, DeletedRows
<1>8. session' = session
  <2>1. ASSUME NEW r \in DOMAIN session, Core!Main(r) \in S PROVE FALSE
    <3>1. Core!Main(r)[1] = r
      BY DEF Core!Main
    <3>2. r \in rs
      BY <2>1, <3>1 DEF RootsOf
    <3> QED BY <1>4, <2>1, <3>2
  <2>2. DOMAIN session' = DOMAIN session
    BY <1>7, <2>1
  <2>3. session = [r \in DOMAIN session |-> session[r]]
    BY <1>3 DEF Types
  <2> QED BY <1>7, <2>2, <2>3
<1>9. /\ job' \in Seq(Job) /\ Len(job') <= MaxJobs /\ queue' \in Seq(Numbers')
      /\ Numbers' = Numbers /\ Ongoing /\ Queued' /\ \A k \in Numbers : RootOf(k)' = RootOf(k)
  BY <1>2, JobsRest
<1>10. ASSUME NEW m \in Kept
       PROVE  m \in Kept' \/ (job[m].issue \in deleted /\ RootOf(m) \in rs)
  BY <1>2, <1>4, <1>5 DEF Kept, RootOf
<1>11. Types'
  BY <1>2, <1>3, <1>5, <1>6, <1>8, <1>9 DEF Types, TypeOK, Deletion
<1>12. \A k \in Numbers' : Works(k)'
  <2>1. Spares
    BY <1>1, <1>2, <1>8, <1>10 DEF Spares
  <2> QED BY <1>2, <2>1, OthersWork
<1>13. Known' /\ Apart'
  <2>1. \A m \in Kept : m \in Kept' \/ RootOf(m) \notin DOMAIN session
    BY <1>4, <1>10
  <2> QED BY <1>2, <1>3, <1>8, <1>9, <2>1, KnownOn DEF Apart
<1>14. Deletes'
  <2>1. RootsOf(deletion.chosen)' = rs
    BY <1>6 DEF RootsOf
  <2>2. \A r \in rs : r \in DOMAIN lock' /\ lock'[r] = Deleter
    BY <1>1, <1>2, <1>3 DEF Deletes
  <2>3. rs \cap DOMAIN session' = {}
    BY <1>4, <1>8
  <2> QED BY <1>6, <2>1, <2>2, <2>3 DEF Deletes
<1>15. Disks'
  <2>1. DOMAIN issue' = DOMAIN issue \ gone
    BY <1>2 DEF Core!DeleteIssues, Core!Ids, Core!Recalculated, gone
  <2>2. \A i \in Gone' : i \in Gone \/ i \in deletion.targets
    BY <1>2, <2>1 DEF Gone
  <2>3. \A i \in deletion.targets : Removing(i)' /\ i \in deleted'
    BY <1>2, <1>4, <1>6 DEF Removing
  <2>4. \A i : ~Removing(i)
    BY <1>2 DEF Removing
  <2>5. ASSUME NEW i \in Gone
        PROVE  /\ i \notin snapshots' /\ (i \in files' => UnderWay(i)')
               /\ i \in deleted' \/ \A k \in Numbers' : job'[k].issue = i => ~Live(k)'
    BY <1>2, <1>3, <1>9, <2>4 DEF Disks, UnderWay, Live
  <2> QED BY <2>2, <2>3, <2>5 DEF Disks
<1> QED BY <1>7, <1>8, <1>9, <1>11, <1>12, <1>13, <1>14, <1>15 DEF IInv

\* The deletion removes the files that were its to remove.
LEMMA RemoveFilesStep ==
  ASSUME IInv, RemoveFiles
  PROVE  IInv' /\ session' = session
<1>1. /\ deletion.pc = "removing" /\ deletion' = Idle
      /\ files' = files \ deletion.targets /\ snapshots' = snapshots \ deletion.targets
      /\ progress' = progress \ deletion.targets
      /\ lock' = Released(RootsOf(deletion.chosen))
      /\ issue' = issue /\ session' = session /\ Kept' = Kept
      /\ UNCHANGED <<job, queue>> /\ UNCHANGED <<deleted, runner, stored, text, overlooked, abandoned, deletes, crashes>>
  BY DEF RemoveFiles, core, bound, Kept
<1>2. Types /\ Rows /\ Known /\ Apart /\ Disks
  BY DEF IInv
<1>3. /\ job' \in Seq(Job) /\ Len(job') <= MaxJobs /\ queue' \in Seq(Numbers')
      /\ Numbers' = Numbers /\ Ongoing /\ Queued'
  BY <1>1, JobsRest
<1>4. Deletes' /\ deletion' \in Deletion /\ deletion'.chosen \subseteq IssueId /\ deletion'.targets \subseteq IssueId
  BY <1>1, IdleDeletes
<1>5. /\ DOMAIN lock' = DOMAIN lock \ RootsOf(deletion.chosen)
      /\ \A r \in DOMAIN lock' : lock'[r] = lock[r]
  BY <1>1 DEF Released
<1>6. Types'
  BY <1>1, <1>2, <1>3, <1>4, <1>5 DEF Types, TypeOK
<1>7. \A k \in Numbers' : Works(k)'
  <2>1. Spares
    BY <1>1, <1>5 DEF Spares
  <2> QED BY <1>1, <2>1, OthersWork
<1>8. Known' /\ Apart'
  BY <1>1, <1>2, <1>3, KnownOn DEF Apart
<1>9. Disks'
  <2>1. Gone' = Gone /\ \A i : Removing(i) => i \notin files' /\ i \notin snapshots'
    BY <1>1 DEF Gone, Removing
  <2>2. ASSUME NEW i \in Gone
        PROVE  /\ i \notin snapshots' /\ (i \in files' => UnderWay(i)')
               /\ i \in deleted' \/ \A k \in Numbers' : job'[k].issue = i => ~Live(k)'
    BY <1>1, <1>2, <1>3, <2>1 DEF Disks, UnderWay, Live
  <2> QED BY <2>1, <2>2 DEF Disks
<1>10. Rows'
  BY <1>1, <1>2 DEF Rows
<1> QED BY <1>1, <1>3, <1>4, <1>6, <1>7, <1>8, <1>9, <1>10 DEF IInv

-----------------------------------------------------------------------------
(* The whole specification. *)

\* A crash ends every analysis and every deletion, and the marks with them.
LEMMA CrashStep ==
  ASSUME IInv, Crash
  PROVE  IInv' /\ session' = session
<1> DEFINE Fallen(j) == IF job[j].pc = "done" THEN job[j] ELSE [job[j] EXCEPT !.pc = "lost"]
<1>1. /\ job' = [j \in Numbers |-> Fallen(j)] /\ queue' = << >>
      /\ lock' = [r \in {} |-> Deleter] /\ progress' = {} /\ deleted' = {} /\ snapshots' = {}
      /\ deletion' = Idle /\ issue' = issue /\ session' = session /\ Kept' = Kept
      /\ UNCHANGED <<files, runner, stored, text, overlooked, deletes>>
  BY DEF Crash, core, Kept
<1>2. Types /\ Rows /\ Known /\ Apart /\ job \in Seq(Job) /\ Len(job) \in Nat
  BY DEF IInv, Types, TypeOK
<1>3. ASSUME NEW j \in Numbers
      PROVE  /\ Fallen(j) \in Job /\ Fallen(j).issue = job[j].issue /\ Fallen(j).kind = job[j].kind
             /\ Fallen(j).pc \in {"done", "lost"}
  <2>1. job[j] \in Job
    BY <1>2 DEF Numbers
  <2>2. CASE job[j].pc = "done"
    BY <2>1, <2>2
  <2>3. CASE job[j].pc # "done"
    BY <2>1, <2>3 DEF Job, JobState
  <2> QED BY <2>2, <2>3
<1> HIDE DEF Fallen
<1>4. /\ job' \in Seq(Job) /\ Len(job') = Len(job) /\ Numbers' = Numbers
      /\ \A j \in Numbers : job'[j] = Fallen(j)
  BY <1>1, <1>2, <1>3 DEF Numbers
<1>5. Ongoing
  BY <1>3, <1>4 DEF Ongoing
<1>6. Deletes' /\ deletion' \in Deletion /\ deletion'.chosen \subseteq IssueId /\ deletion'.targets \subseteq IssueId
  BY <1>1, IdleDeletes
<1>7. DOMAIN lock' = {} /\ queue' \in Seq(Numbers')
  BY <1>1
<1>9. Queued'
  BY <1>1 DEF Queued
<1>10. ASSUME NEW k \in Numbers PROVE Works(k)'
  <2>1. job'[k].pc \in {"done", "lost"}
    BY <1>3, <1>4
  <2> QED BY <2>1 DEF Works, Analyzing
<1>11. Known' /\ Apart'
  BY <1>1, <1>2, <1>5, KnownOn DEF Apart
<1>12. Disks'
  <2> DEFINE cut == {job[j].issue : j \in {k \in Numbers : job[k].pc = "collecting"}}
                    \cup IF deletion.pc = "removing" THEN deletion.targets ELSE {}
  <2>1. abandoned' = abandoned \cup (cut \ DOMAIN issue)
    BY DEF Crash, Abandon
  <2>2. \A i : UnderWay(i) \/ Removing(i) => i \in cut
    BY DEF UnderWay, Removing
  <2> HIDE DEF cut
  <2>3. \A i \in Gone' : i \in Gone /\ i \notin cut
    BY <1>1, <2>1 DEF Gone
  <2>4. \A i \in Gone' : i \notin files' /\ i \notin snapshots'
    BY <1>1, <2>2, <2>3 DEF IInv, Disks
  <2>5. \A k \in Numbers' : ~Live(k)'
    BY <1>3, <1>4 DEF Live
  <2> QED BY <2>4, <2>5 DEF Disks
<1>13. Rows' /\ abandoned' \subseteq IssueId
  <2>1. \A j \in Numbers : job[j].issue \in IssueId
    BY <1>2, JobTypes
  <2>2. deletion.targets \subseteq IssueId /\ abandoned \subseteq IssueId
    BY <1>2 DEF Types, TypeOK
  <2>3. abandoned' \subseteq IssueId
    BY <2>1, <2>2 DEF Crash, Abandon
  <2> QED BY <1>1, <1>2, <2>3 DEF Rows
<1>14. Types'
  BY <1>1, <1>2, <1>4, <1>6, <1>7, <1>13 DEF Types, TypeOK
<1> QED BY <1>1, <1>4, <1>6, <1>9, <1>10, <1>11, <1>12, <1>13, <1>14 DEF IInv

\* The invariant holds in the beginning.
LEMMA IInvInit == Init => IInv
<1> SUFFICES ASSUME Init PROVE IInv
  OBVIOUS
<1>1. /\ DOMAIN issue = {} /\ DOMAIN session = {} /\ issue \in [DOMAIN issue -> Core!Row]
      /\ session \in [DOMAIN session -> Threads]
      /\ job = << >> /\ queue = << >> /\ DOMAIN lock = {} /\ Numbers = {} /\ Len(job) = 0
  BY DEF Init, Core!Init, Numbers
<1>2. /\ progress = {} /\ deleted = {} /\ snapshots = {} /\ files = {} /\ stored = {} /\ overlooked = {}
      /\ abandoned = {} /\ runner \in BOOLEAN /\ text = [t \in Threads |-> {}] /\ deletion = Idle
  BY DEF Init
<1>3. /\ deletion.pc = "idle" /\ deletion.chosen = {} /\ deletion.targets = {}
      /\ deletion.threads = {} /\ deletion.now = NoThread /\ deletion \in Deletion
  BY <1>2 DEF Idle, Deletion
<1>4. Types
  BY <1>1, <1>2, <1>3, AnalysisAssumption DEF Types, TypeOK
<1>5. Deletes
  <2>1. RootsOf(deletion.chosen) = {}
    BY <1>3 DEF RootsOf
  <2> QED BY <1>2, <1>3, <2>1 DEF Deletes
<1>6. Rows /\ Queued /\ Known /\ Apart /\ Disks /\ \A k \in Numbers : Works(k)
  BY <1>1, <1>2 DEF Rows, Queued, Known, Apart, Disks
<1> QED BY <1>4, <1>5, <1>6 DEF IInv

\* Every step keeps the invariant, and lets go only of conversations that are
\* gone.
LEMMA IInvStep == IInv /\ [Next]_vars => IInv' /\ LetsGo
<1> SUFFICES ASSUME IInv, [Next]_vars PROVE IInv' /\ LetsGo
  OBVIOUS
<1>1. ASSUME session' = session PROVE LetsGo
  BY <1>1 DEF LetsGo
<1>2. CASE Report
  BY <1>1, <1>2, CreateIssueStep, CreateSubissueStep, AppendMessageStep,
     RequestHandoffStep, RetryHandoffStep DEF Report
<1>3. ASSUME NEW j \in Numbers, Work(j) PROVE IInv' /\ LetsGo
  <2>1. CASE StartJob(j) \/ Collect(j) \/ ReadForBundle(j) \/ Bundle(j)
    BY <1>1, <2>1, StartJobStep, CollectStep, ReadForBundleStep, BundleStep
  <2>2. CASE Acquire(j) \/ Capture(j) \/ CheckInput(j) \/ AppendOutcome(j)
    BY <1>1, <2>2, AcquireStep, CaptureStep, CheckInputStep, AppendOutcomeStep
  <2>3. CASE StartConversation(j) \/ ResumeConversation(j) \/ SaveThread(j)
    BY <1>1, <2>3, StartConversationStep, ResumeConversationStep, SaveThreadStep
  <2> QED BY <1>3, <2>1, <2>2, <2>3 DEF Work, Analyze
<1>4. ASSUME NEW S \in SUBSET DOMAIN issue, BeginDelete(S) PROVE IInv' /\ LetsGo
  BY <1>1, <1>4, BeginDeleteStep
<1>5. CASE Delete
  <2>1. ASSUME NEW t \in Threads, DeleteConversation(t) \/ ForgetConversation(t) PROVE IInv' /\ LetsGo
    BY <1>1, <2>1, DeleteConversationStep, ForgetConversationStep
  <2>2. CASE CleanupFails \/ MarkDeleted
    BY <1>1, <2>2, CleanupFailsStep, MarkDeletedStep
  <2>3. CASE DeleteRows \/ RemoveFiles
    BY <1>1, <2>3, DeleteRowsStep, RemoveFilesStep
  <2> QED BY <1>5, <2>1, <2>2, <2>3 DEF Delete
<1>6. CASE Configure
  BY <1>1, <1>6, ConfigureStep
<1>7. ASSUME NEW t \in Threads, LoseConversation(t) PROVE IInv' /\ LetsGo
  BY <1>1, <1>7, LoseConversationStep
<1>8. CASE Crash
  BY <1>1, <1>8, CrashStep
<1>9. CASE UNCHANGED vars
  <2>1. /\ UNCHANGED <<job, queue>> /\ issue' = issue /\ session' = session /\ Kept' = Kept
        /\ UNCHANGED <<lock, progress, deleted, files, snapshots, runner, stored, text, deletion>>
        /\ UNCHANGED <<overlooked, abandoned, deletes, crashes>>
    BY <1>9 DEF vars, Kept
  <2>2. UNCHANGED quiet /\ Rows' /\ Grow
    BY <2>1, RowsStill DEF IInv, quiet, bound
  <2>3. Reports
    BY <2>1, NothingReports DEF IInv
  <2> QED BY <1>1, <2>1, <2>2, <2>3, ReportKeeps
<1> QED BY <1>2, <1>3, <1>4, <1>5, <1>6, <1>7, <1>8, <1>9 DEF Next

\* What the theorems below rest on.
THEOREM AnalysisInvariant == Spec => []IInv
BY IInvInit, IInvStep, PTL DEF Spec

\* Jobs, the executor's queue, the locks, the runtime's tables and Codex's
\* conversations hold values of their types; a lock's holder is a job there is,
\* or the deletion.
THEOREM AnalysisTypeCorrect == Spec => []TypeOK
<1>1. IInv => TypeOK
  BY DEF IInv, Types
<1> QED BY <1>1, AnalysisInvariant, PTL

\* delete_issues against _capture and _analyze_locked: whatever is under way, a
\* family's conversation holds no message of another family and none of a
\* deleted issue, and no issue that is not there has a report or files, with
\* the exceptions that DeletedLeaveNothing names.
THEOREM NothingOfDeleted == Spec => []DeletedLeaveNothing
<1>1. ASSUME IInv PROVE DeletedLeaveNothing
  <2>1. ConversationsAreClean
    BY <1>1 DEF IInv, ConversationsAreClean, Known, Clean, Kept
  <2>2. ASSUME deletion = Idle PROVE \A i : ~Removing(i)
    BY <2>2 DEF Removing, Idle
  <2>3. (files \cup snapshots) \ (DOMAIN issue \cup abandoned) \subseteq Gone
    BY <1>1 DEF IInv, Types, TypeOK, Gone
  <2>4. FilesAreClean
    BY <1>1, <2>2, <2>3 DEF IInv, Disks, FilesAreClean
  <2> QED BY <2>1, <2>4 DEF DeletedLeaveNothing
<1> QED BY <1>1, AnalysisInvariant, PTL

\* save_codex_thread, forget_codex_thread and delete_issues of the core: through
\* failing cleanups and crashes, the id of a conversation is let go only when
\* Codex no longer has the conversation.
THEOREM ForgottenAreGone == Spec => ForgottenIsGone
<1>1. IInv /\ [Next]_vars =>
        [\A r \in DOMAIN session :
           (r \in DOMAIN session' => session'[r] # session[r]) => text[session[r]] = {}]_vars
  BY IInvStep DEF LetsGo
<1> QED BY <1>1, AnalysisInvariant, PTL DEF Spec, ForgottenIsGone

-----------------------------------------------------------------------------
(* The core below the analysis. *)

\* The runtime's steps on the core's tables, and no other, change them.
LEMMA OtherStepsLeaveTheCore ==
  ASSUME [Next]_vars,
         ~ Report, ~ (\E j \in Numbers : SaveThread(j) \/ AppendOutcome(j)),
         ~ (\E t \in Threads : ForgetConversation(t)), ~ DeleteRows
  PROVE  UNCHANGED core
<1>1. ASSUME NEW j \in Numbers, Work(j) PROVE UNCHANGED core
  <2>1. CASE StartJob(j) \/ Collect(j) \/ ReadForBundle(j) \/ Bundle(j)
    BY <2>1 DEF StartJob, Collect, ReadForBundle, Bundle, core
  <2>5. CASE Acquire(j) \/ Capture(j)
    BY <2>5 DEF Acquire, Capture, core
  <2>2. CASE StartConversation(j)
    BY <2>2 DEF StartConversation
  <2>3. CASE ResumeConversation(j)
    BY <2>3 DEF ResumeConversation
  <2>4. CASE CheckInput(j)
    BY <2>4 DEF CheckInput
  <2> QED BY <1>1, <2>1, <2>2, <2>3, <2>4, <2>5 DEF Work, Analyze
<1>2. ASSUME NEW S \in SUBSET DOMAIN issue, BeginDelete(S) PROVE UNCHANGED core
  BY <1>2 DEF BeginDelete, core
<1>3. CASE Delete
  <2>1. ASSUME NEW t \in Threads, DeleteConversation(t) PROVE UNCHANGED core
    BY <2>1 DEF DeleteConversation
  <2>2. CASE CleanupFails \/ MarkDeleted \/ RemoveFiles
    BY <2>2 DEF CleanupFails, MarkDeleted, RemoveFiles
  <2> QED BY <1>3, <2>1, <2>2 DEF Delete
<1>4. CASE Configure \/ Crash \/ \E t \in Threads : LoseConversation(t)
  BY <1>4 DEF Configure, Crash, LoseConversation, core
<1>5. CASE UNCHANGED vars
  BY <1>5 DEF vars, core
<1> QED BY <1>1, <1>2, <1>3, <1>4, <1>5 DEF Next

\* The issues and conversations of the analysing runtime (RuntimeService) are
\* those of the issue core: whatever jobs, deletions, failing cleanups and
\* crashes do, a step is one of IssueCore or changes nothing there.
THEOREM AnalysisRunsTheCore == Spec => Core!Spec
<1>1. Init => Core!Init
  BY DEF Init
<1>2. IInv /\ [Next]_vars => [Core!Next]_(Core!vars)
  <2> SUFFICES ASSUME IInv, [Next]_vars, ~UNCHANGED core
               PROVE  Core!Next
    BY DEF Core!vars, core
  <2>1. DOMAIN issue = Core!Ids
    BY DEF Core!Ids
  <2>2. CASE Report
    <3>1. ASSUME NEW r \in Roots, NEW who \in Reporters, CreateIssue(r, who) PROVE Core!Next
      BY <3>1 DEF CreateIssue, Core!Next, Core!Report
    <3>2. ASSUME NEW i \in DOMAIN issue, NEW who \in Reporters, CreateSubissue(i, who) PROVE Core!Next
      BY <2>1, <3>2 DEF CreateSubissue, Core!Next, Core!Report
    <3>3. ASSUME NEW i \in DOMAIN issue, AppendMessage(i) PROVE Core!Next
      <4>1. /\ Core!AppendMessage(i, "reporter", "local", FALSE)
            /\ "reporter" \in Core!Roles /\ "local" \in Core!Channels
        BY <3>3 DEF AppendMessage, Core!Roles, Core!Channels
      <4> QED BY <2>1, <4>1 DEF Core!Next, Core!Report
    <3>4. ASSUME NEW i \in DOMAIN issue, RequestHandoff(i) PROVE Core!Next
      BY <2>1, <3>4 DEF RequestHandoff, Core!Next, Core!HumanHandoff
    <3>5. ASSUME NEW i \in DOMAIN issue, RetryHandoff(i) PROVE FALSE
      BY <3>5 DEF RetryHandoff
    <3> QED BY <2>2, <3>1, <3>2, <3>3, <3>4, <3>5 DEF Report
  <2>3. ASSUME NEW j \in Numbers, SaveThread(j) PROVE Core!Next
    <3>1. /\ Core!SaveCodexThread(job[j].issue, job[j].thread)
          /\ job[j].thread \in Threads
      BY <2>3 DEF SaveThread, IInv, Works
    <3>2. job[j].issue \in Core!Ids
      BY <3>1 DEF Core!SaveCodexThread
    <3> QED BY <3>1, <3>2 DEF Core!Next, Core!Housekeeping
  <2>4. ASSUME NEW j \in Numbers, AppendOutcome(j) PROVE Core!Next
    <3>1. \E c \in BOOLEAN : Core!AppendMessage(job[j].issue, "assistant", "system", c)
      BY <2>4 DEF AppendOutcome
    <3>2. PICK c \in BOOLEAN : Core!AppendMessage(job[j].issue, "assistant", "system", c)
      BY <3>1
    <3>3. /\ job[j].issue \in Core!Ids
          /\ "assistant" \in Core!Roles /\ "system" \in Core!Channels
      BY <3>2 DEF Core!AppendMessage, Core!Roles, Core!Channels
    <3> QED BY <3>2, <3>3 DEF Core!Next, Core!Report
  <2>5. ASSUME NEW t \in Threads, ForgetConversation(t) PROVE Core!Next
    BY <2>5 DEF ForgetConversation, Core!Next, Core!Housekeeping
  <2>6. CASE DeleteRows
    <3>1. Core!DeleteIssues(deletion.chosen) /\ deletion.chosen \in SUBSET Core!Ids
      BY <2>6 DEF DeleteRows, Core!DeleteIssues
    <3> QED BY <3>1 DEF Core!Next, Core!Housekeeping
  <2> QED BY <2>2, <2>3, <2>4, <2>5, <2>6, OtherStepsLeaveTheCore
<1> QED BY <1>1, <1>2, AnalysisInvariant, PTL DEF Spec, Core!Spec
=============================================================================
