------------------------------ MODULE DeviceProofs ------------------------------
(***************************************************************************)
(* For any number of issues, workers, submissions and crashes: the device  *)
(* runs its core only by the core's own steps, the cards of a family hang  *)
(* off one topic, a recorded solution is lost to nothing but a handoff's   *)
(* write-back, and a card that looks closed is of a closed issue.          *)
(*                                                                         *)
(* The argument is about _handoff_lock.  One handoff at a time is inside   *)
(* it, so what that one has read of its record and of its family's topic   *)
(* is still so when it writes, whatever forms, updates and deletions come  *)
(* in between; only a deletion of the whole family takes the topic away,   *)
(* and then nothing is left of the family that could disagree.             *)
(***************************************************************************)
EXTENDS Device, FiniteSetTheorems, SequenceTheorems, TLAPS

\* A card of the issue is there.
Has(m, i) == m \in Messages /\ card[m] # None /\ card[m].issue = i

\* The submissions the client has heard of: each has made one version at most.
Pressed == {p \in Presses : press[p] = Heard}

\* Roots whose main issue was there and never comes back.
Gone(r) == r \in spent /\ Core!Main(r) \notin DOMAIN issue

\* A record names a card of its issue, or is none.
RecordOK(i) ==
  /\ item[i].version <= Cardinality(Pressed)
  /\ IF item[i].message = None THEN item[i] = Blank
     ELSE Has(item[i].message, i) /\ i[1] \in spent

\* So does the copy a call has made.  A call is about an issue there was; what
\* it forgets of a family's topic is of a family that is gone.
CallOK(c) ==
  /\ c.issue[1] \in spent
  /\ c.copy.version <= Cardinality(Pressed)
  /\ c.copy.message # None => Has(c.copy.message, c.issue)
  /\ c.pc = "update" => c.copy.message # None
  /\ c.op = "forget" => c.pc = "store" /\ \A r \in Roots : Core!Main(r) \in c.targets => Gone(r)

CardOK(m) ==
  card[m] # None => card[m].issue[1] \in spent /\ card[m].uuid \in {None, card[m].issue}

\* The tables, and everything the process keeps, name issues there were.
Rows == Core!TypeOK /\ Core!FamilyIntact /\ IsFiniteSet(DOMAIN issue)
Named ==
  /\ \A i \in DOMAIN issue : i[1] \in spent
  /\ \A n \in DOMAIN queue : queue[n].issue[1] \in spent
  /\ \A i \in backoff : i[1] \in spent

\* A handoff between _handoff_lock's two ends.
Inside(c) == c.op = "handoff" /\ c.pc \in Locked
OneInside == \A c, d \in calls : Inside(c) /\ Inside(d) => c = d

\* What it knows: as long as it has sent no card there is no record, and the
\* topic it took is the one its family has, if the family is still there.
HoldsOK(c) ==
  /\ c.pc \in {"send", "sent"} => item[c.issue] = Blank
  /\ c.pc = "send" => c.copy = Blank
  /\ c.pc = "sent" => c.copy.message # None /\ c.copy.version = 0 /\ c.topic # None
  /\ c.pc \in {"connect", "evidence", "finish"} => c.copy.message # None
  /\ Root(c.issue) \in DOMAIN issue =>
       LET t == topic[Root(c.issue)] IN
       /\ c.pc = "send" => c.topic = t
       /\ c.pc = "sent" => t \in {None, c.topic}
       /\ c.pc \in {"connect", "evidence", "finish"} => t # None /\ c.topic = t
       /\ c.pc \in {"evidence", "finish"} => c.copy.topic = t

FamilyTopic ==
  \A i \in Issues :
    Root(i) \in DOMAIN issue /\ item[i].message # None =>
      topic[Root(i)] # None /\ item[i].topic = topic[Root(i)]

IInv ==
  /\ TypeOK /\ Rows /\ Named
  /\ \A i \in Issues : RecordOK(i)
  /\ \A c \in calls : CallOK(c)
  /\ \A m \in Messages : CardOK(m)
  /\ OneInside /\ \A c \in calls : Inside(c) => HoldsOK(c)
  /\ FamilyTopic

\* The issue of this number was confirmed and, until one of this number is
\* deleted, is there and closed.
Settled(i) ==
  i \in confirmed /\ (i \notin retired => i \in DOMAIN issue /\ issue[i].status = "closed")
ClosedInv ==
  /\ \A i \in Issues : item[i].handoff = "closed" => Settled(i)
  /\ \A m \in Messages : card[m] # None /\ card[m].shows = "closed" => Settled(card[m].issue)
  /\ \A c \in calls : c.op = "confirm" \/ c.copy.handoff = "closed" => Settled(c.issue)
  /\ \A n \in DOMAIN queue : queue[n].op = "confirm" => Settled(queue[n].issue)

-----------------------------------------------------------------------------
(* The core's tables. *)

\* Closed issues stay closed while they are there.
StayClosed ==
  \A i \in DOMAIN issue \cap DOMAIN issue' : issue[i].status = "closed" => issue'[i].status = "closed"

\* An issue's root is a root, and its main issue an issue.
LEMMA RootsOfIssues ==
  ASSUME NEW i \in Issues
  PROVE  /\ i[1] \in Roots /\ i[2] \in 0..MaxSub /\ i = <<i[1], i[2]>>
         /\ Root(i) = Core!Main(i[1]) /\ Root(i) \in Issues /\ Root(i) \in Mains
BY DeviceAssumption DEF Issues, Core!IssueId, Root, Core!Main, Core!RootOf, Mains

\* Recalculating rollups changes neither rows' types nor parents nor statuses.
LEMMA Rolled ==
  ASSUME NEW tab, NEW rs, NEW D, tab \in [D -> Core!Row]
  PROVE  LET t == Core!Recalculated(tab, rs) IN
         /\ t \in [D -> Core!Row]
         /\ \A i \in D : t[i].parent = tab[i].parent /\ t[i].status = tab[i].status
<1> DEFINE t == Core!Recalculated(tab, rs)
<1>1. \A i \in D : Core!RollupOf(tab, Core!RootOf(i)) \in Core!Status
  BY DEF Core!RollupOf, Core!Status
<1>2. ASSUME NEW i \in D
      PROVE  LET x == [tab[i] EXCEPT !.rollup = Core!RollupOf(tab, Core!RootOf(i))] IN
             x \in Core!Row /\ x.parent = tab[i].parent /\ x.status = tab[i].status
  <2> DEFINE c == Core!RollupOf(tab, Core!RootOf(i))
  <2>1. c \in Core!Status /\ tab[i] \in Core!Row
    BY <1>1
  <2> HIDE DEF c
  <2>2. [tab[i] EXCEPT !.rollup = c] \in Core!Row
    BY <2>1 DEF Core!Row
  <2>3. /\ [tab[i] EXCEPT !.rollup = c].parent = tab[i].parent
        /\ [tab[i] EXCEPT !.rollup = c].status = tab[i].status
    BY <2>1 DEF Core!Row
  <2> QED BY <2>2, <2>3 DEF c
<1>3. DOMAIN t = D
      /\ \A i \in D : t[i] \in Core!Row /\ t[i].parent = tab[i].parent /\ t[i].status = tab[i].status
  BY <1>2 DEF Core!Recalculated
<1>4. t = [i \in D |-> t[i]]
  BY DEF Core!Recalculated
<1> HIDE DEF t
<1>5. t \in [D -> Core!Row]
  BY <1>3, <1>4
<1> QED BY <1>3, <1>5 DEF t

\* Rows that keep their parents are families still.
LEMMA SameRows ==
  ASSUME Rows, issue' \in [DOMAIN issue -> Core!Row], session' = session,
         \A j \in DOMAIN issue : issue'[j].parent = issue[j].parent
  PROVE  Rows' /\ DOMAIN issue' = DOMAIN issue
<1>1. DOMAIN issue' = DOMAIN issue
  OBVIOUS
<1> QED BY <1>1 DEF Rows, Core!TypeOK, Core!FamilyIntact, Core!Ids, Core!Main, Core!RootOf

\* One row changes, with its family's rollup or without.
LEMMA RowChanges ==
  ASSUME Rows, NEW i \in DOMAIN issue, NEW x \in Core!Row, x.parent = issue[i].parent, session' = session,
         \/ issue' = [issue EXCEPT ![i] = x]
         \/ \E rs : issue' = Core!Recalculated([issue EXCEPT ![i] = x], rs)
  PROVE  /\ Rows' /\ DOMAIN issue' = DOMAIN issue
         /\ issue'[i].status = x.status
         /\ \A j \in DOMAIN issue \ {i} : issue'[j].status = issue[j].status
<1> DEFINE tab == [issue EXCEPT ![i] = x]
<1>1. issue \in [DOMAIN issue -> Core!Row]
  BY DEF Rows, Core!TypeOK, Core!Ids
<1>2. tab \in [DOMAIN issue -> Core!Row] /\ \A j \in DOMAIN issue : tab[j] = IF j = i THEN x ELSE issue[j]
  BY <1>1
<1> HIDE DEF tab
<1>3. /\ issue' \in [DOMAIN issue -> Core!Row]
      /\ \A j \in DOMAIN issue : issue'[j].parent = tab[j].parent /\ issue'[j].status = tab[j].status
  <2>1. CASE issue' = tab
    BY <1>2, <2>1
  <2>2. CASE \E rs : issue' = Core!Recalculated(tab, rs)
    BY <1>2, <2>2, Rolled
  <2> QED BY <2>1, <2>2 DEF tab
<1>4. Rows' /\ DOMAIN issue' = DOMAIN issue
  BY <1>2, <1>3, SameRows
<1> QED BY <1>2, <1>3, <1>4

\* What the runtime changes of a row is of its type, and leaves the parent alone.
LEMMA RowFields ==
  ASSUME NEW x \in Core!Row
  PROVE  /\ LET y == [x EXCEPT !.handoff = "queued", !.input = FALSE] IN
              y \in Core!Row /\ y.parent = x.parent /\ y.status = x.status
         /\ LET y == [x EXCEPT !.handoff = "delivered"] IN
              y \in Core!Row /\ y.parent = x.parent /\ y.status = x.status
         /\ LET y == [x EXCEPT !.status = "open"] IN y \in Core!Row /\ y.parent = x.parent
         /\ LET y == [x EXCEPT !.rollup = "open"] IN
              y \in Core!Row /\ y.parent = x.parent /\ y.status = x.status
BY DEF Core!Row, Core!Status, Core!Handoff

LEMMA SolutionFields ==
  ASSUME NEW x \in Core!Row, NEW v \in Core!Version
  PROVE  /\ Core!WithSolution(x, v) \in Core!Row /\ Core!WithSolution(x, v).parent = x.parent
         /\ LET y == [x EXCEPT !.status = "closed", !.confirmed = @ \cup {v}] IN
              y \in Core!Row /\ y.parent = x.parent /\ y.status = "closed"
<1>1. /\ x.solutions \cup {v} \in SUBSET Core!Version /\ x.confirmed \cup {v} \in SUBSET Core!Version
      /\ v \in 0..MaxVersion
  BY DeviceAssumption DEF Core!Row, Core!Version
<1>2. ASSUME NEW s \in SUBSET Core!Version
      PROVE  LET y == [x EXCEPT !.status = "pending_verification", !.version = v, !.solutions = s] IN
             y \in Core!Row /\ y.parent = x.parent
  BY <1>1 DEF Core!Row, Core!Status
<1>3. ASSUME NEW s \in SUBSET Core!Version
      PROVE  LET y == [x EXCEPT !.status = "closed", !.confirmed = s] IN
             y \in Core!Row /\ y.parent = x.parent /\ y.status = "closed"
  BY DEF Core!Row, Core!Status
<1> QED BY <1>1, <1>2, <1>3 DEF Core!WithSolution

\* A handoff is requested or found delivered: the row stays as open as it was.
LEMMA HandedOff ==
  ASSUME Rows, NEW i, Core!RequestHandoff(i) \/ Core!MarkHandoffDelivered(i)
  PROVE  Rows' /\ DOMAIN issue' = DOMAIN issue /\ StayClosed
<1>1. i \in DOMAIN issue /\ issue[i] \in Core!Row /\ session' = session
  BY DEF Core!RequestHandoff, Core!MarkHandoffDelivered, Core!Ids, Rows, Core!TypeOK
<1>2. PICK x \in {[issue[i] EXCEPT !.handoff = "queued", !.input = FALSE],
                  [issue[i] EXCEPT !.handoff = "delivered"]} :
        issue' = [issue EXCEPT ![i] = x]
  BY DEF Core!RequestHandoff, Core!MarkHandoffDelivered
<1>3. x \in Core!Row /\ x.parent = issue[i].parent /\ x.status = issue[i].status
  BY <1>1, RowFields
<1> QED BY <1>1, <1>2, <1>3, RowChanges DEF StayClosed

\* A solution arrives for an issue that is not closed.
LEMMA Answered ==
  ASSUME Rows, NEW i, NEW v \in Core!Version, Core!ImportSolution(i, v)
  PROVE  Rows' /\ DOMAIN issue' = DOMAIN issue /\ StayClosed
<1> DEFINE x == Core!WithSolution(issue[i], v)
<1>1. i \in DOMAIN issue /\ issue[i] \in Core!Row /\ session' = session /\ issue[i].status # "closed"
  BY DEF Core!ImportSolution, Core!Ids, Rows, Core!TypeOK
<1>2. issue' = Core!Recalculated([issue EXCEPT ![i] = x], {Core!RootOf(i)})
  BY DEF Core!ImportSolution, Core!SaveAndRollup
<1>3. x \in Core!Row /\ x.parent = issue[i].parent
  BY <1>1, SolutionFields
<1> HIDE DEF x
<1> QED BY <1>1, <1>2, <1>3, RowChanges DEF StayClosed

\* Its verification fails: it was not closed either.
LEMMA FailureReported ==
  ASSUME Rows, NEW i, NEW who, Core!ReportVerificationFailure(i, who)
  PROVE  Rows' /\ DOMAIN issue' = DOMAIN issue /\ StayClosed
<1> DEFINE x == [issue[i] EXCEPT !.status = "open"]
<1>1. i \in DOMAIN issue /\ issue[i] \in Core!Row /\ session' = session /\ issue[i].status # "closed"
  BY DEF Core!ReportVerificationFailure, Core!Ids, Rows, Core!TypeOK
<1>2. issue' = Core!Recalculated([issue EXCEPT ![i] = x], {Core!RootOf(i)})
  BY DEF Core!ReportVerificationFailure, Core!SaveAndRollup
<1>3. x \in Core!Row /\ x.parent = issue[i].parent
  BY <1>1, RowFields
<1> HIDE DEF x
<1> QED BY <1>1, <1>2, <1>3, RowChanges DEF StayClosed

\* A confirmation closes its issue.
LEMMA Confirmed ==
  ASSUME Rows, NEW i, NEW who, NEW v \in Core!Version, Core!ConfirmSolution(i, who, v)
  PROVE  /\ Rows' /\ DOMAIN issue' = DOMAIN issue /\ StayClosed
         /\ i \in DOMAIN issue /\ issue'[i].status = "closed"
<1> DEFINE x == [issue[i] EXCEPT !.status = "closed", !.confirmed = @ \cup {v}]
<1>1. i \in DOMAIN issue /\ issue[i] \in Core!Row /\ session' = session
  BY DEF Core!ConfirmSolution, Core!Ids, Rows, Core!TypeOK
<1>2. issue' = Core!Recalculated([issue EXCEPT ![i] = x], {Core!RootOf(i)})
  BY DEF Core!ConfirmSolution, Core!SaveAndRollup
<1>3. x \in Core!Row /\ x.parent = issue[i].parent /\ x.status = "closed"
  BY <1>1, SolutionFields
<1> HIDE DEF x
<1>4. /\ Rows' /\ DOMAIN issue' = DOMAIN issue /\ issue'[i].status = "closed"
      /\ \A j \in DOMAIN issue \ {i} : issue'[j].status = issue[j].status
  BY <1>1, <1>2, <1>3, RowChanges
<1> QED BY <1>1, <1>4 DEF StayClosed

\* A new row is a row, with the parent it was given.
LEMMA NewRowIsRow ==
  ASSUME NEW who \in Reporters, NEW p \in Issues \cup {NoIssue}
  PROVE  Core!NewRow(who, p) \in Core!Row /\ Core!NewRow(who, p).parent = p
BY DeviceAssumption DEF Core!NewRow, Core!Row, Core!Status, Core!Handoff, Core!Version, Issues

\* A row of a new issue, whose family is there or begins with it.
LEMMA RowInserted ==
  ASSUME Rows, NEW i \in Issues, i \notin DOMAIN issue, NEW x \in Core!Row, NEW tab,
         tab = Core!Inserted(issue, i, x),
         \/ i[2] = 0 /\ x.parent = NoIssue
         \/ /\ i[2] # 0 /\ Core!Main(i[1]) \in DOMAIN issue
            /\ x.parent \in DOMAIN issue /\ x.parent[1] = i[1]
  PROVE  /\ tab \in [DOMAIN issue \cup {i} -> Core!Row]
         /\ \A j \in DOMAIN issue : tab[j] = issue[j]
         /\ (issue' = tab /\ session' = session => Rows')
<1>1. /\ DOMAIN tab = DOMAIN issue \cup {i} /\ tab[i] = x
      /\ \A j \in DOMAIN issue : tab[j] = issue[j]
      /\ tab = [j \in DOMAIN issue \cup {i} |-> tab[j]]
  BY DEF Core!Inserted
<1>2. \A j \in DOMAIN tab : tab[j] \in Core!Row
  BY <1>1 DEF Rows, Core!TypeOK, Core!Ids
<1>3. tab \in [DOMAIN issue \cup {i} -> Core!Row]
  BY <1>1, <1>2
<1>4. ASSUME issue' = tab, session' = session PROVE Rows'
  <2>1. Core!TypeOK'
    BY <1>1, <1>3, <1>4 DEF Rows, Core!TypeOK, Core!Ids, Issues
  <2>2. Core!FamilyIntact'
    <3>1. i = <<i[1], i[2]>>
      BY RootsOfIssues
    <3>2. i[2] = 0 => Core!Main(i[1]) = i
      BY <3>1 DEF Core!Main
    <3> QED BY <1>1, <1>4, <3>2 DEF Rows, Core!FamilyIntact, Core!Ids, Core!RootOf
  <2>3. IsFiniteSet(DOMAIN issue')
    BY <1>1, <1>4, FS_AddElement DEF Rows
  <2> QED BY <2>1, <2>2, <2>3 DEF Rows
<1> QED BY <1>1, <1>3, <1>4

\* A new main issue.
LEMMA RootCreated ==
  ASSUME Rows, NEW r \in Roots, NEW who \in Reporters, Core!CreateIssue(r, who)
  PROVE  /\ Rows' /\ DOMAIN issue' = DOMAIN issue \cup {Core!Main(r)} /\ StayClosed
         /\ Core!Main(r) \notin DOMAIN issue
<1> DEFINE x == Core!NewRow(who, NoIssue)
<1>1. /\ Core!Main(r) \in Issues /\ Core!Main(r) \notin DOMAIN issue
      /\ Core!Main(r)[1] = r /\ Core!Main(r)[2] = 0
  BY DeviceAssumption DEF Core!Main, Issues, Core!IssueId, Core!CreateIssue, Core!Ids
<1>2. issue' = Core!Inserted(issue, Core!Main(r), x) /\ session' = session
  BY DEF Core!CreateIssue
<1>3. x \in Core!Row /\ x.parent = NoIssue
  BY NewRowIsRow
<1> HIDE DEF x
<1> QED BY <1>1, <1>2, <1>3, RowInserted DEF StayClosed

\* A new sub-issue, and the rollup of its main issue.
LEMMA SubCreated ==
  ASSUME Rows, NEW selected, NEW who \in Reporters, Core!CreateSubissue(selected, who)
  PROVE  /\ Rows' /\ StayClosed /\ selected \in DOMAIN issue
         /\ \E n \in 1..MaxSub : DOMAIN issue' = DOMAIN issue \cup {<<selected[1], n>>}
<1>1. PICK n \in 1..MaxSub :
        LET r   == Core!RootOf(selected)
            new == Core!Inserted(issue, <<r, n>>, Core!NewRow(who, selected))
        IN  /\ Core!NextSequence(r, n)
            /\ issue' = [new EXCEPT ![Core!Main(r)].rollup = "open"]
  BY DEF Core!CreateSubissue
<1> DEFINE r   == selected[1]
           i   == <<r, n>>
           m   == <<r, 0>>
           row == Core!NewRow(who, selected)
           tab == Core!Inserted(issue, i, row)
           x   == [tab[m] EXCEPT !.rollup = "open"]
<1>2. /\ session' = session /\ issue' = [tab EXCEPT ![m] = x] /\ Core!NextSequence(r, n)
      /\ selected \in DOMAIN issue
  BY <1>1 DEF Core!CreateSubissue, Core!RootOf, Core!Main, Core!Ids
<1>3. selected \in Issues /\ r \in Roots /\ i \in Issues /\ i[1] = r /\ i[2] # 0
  BY <1>2, DeviceAssumption DEF Rows, Core!TypeOK, Core!Ids, Issues, Core!IssueId
<1>4. i \notin DOMAIN issue
  <2>1. \A j \in DOMAIN issue : j[1] = r => j[2] < n
    BY <1>2 DEF Core!NextSequence, Core!Family, Core!RootOf
  <2> QED BY <2>1
<1>5. m \in DOMAIN issue
  BY <1>2 DEF Rows, Core!FamilyIntact, Core!Ids, Core!Main, Core!RootOf
<1>6. row \in Core!Row /\ row.parent = selected
  BY <1>3, NewRowIsRow
<1> HIDE DEF row
<1>7. /\ tab \in [DOMAIN issue \cup {i} -> Core!Row]
      /\ \A j \in DOMAIN issue : tab[j] = issue[j]
  BY <1>2, <1>3, <1>4, <1>5, <1>6, RowInserted DEF Core!Main
<1>8. tab[i] = row
  BY DEF Core!Inserted
<1> HIDE DEF tab
<1>9. x \in Core!Row /\ x.parent = tab[m].parent /\ x.status = tab[m].status
  BY <1>5, <1>7, RowFields
<1> HIDE DEF x
<1>10. /\ issue' \in [DOMAIN issue \cup {i} -> Core!Row]
       /\ \A j \in DOMAIN issue \cup {i} :
            issue'[j].parent = tab[j].parent /\ issue'[j].status = tab[j].status
  BY <1>2, <1>5, <1>7, <1>9
<1>11. Core!TypeOK'
  BY <1>2, <1>3, <1>10 DEF Rows, Core!TypeOK, Core!Ids, Issues
<1>12. Core!FamilyIntact'
  <2>1. \A j \in DOMAIN issue : issue'[j].parent = issue[j].parent
    BY <1>7, <1>10
  <2>2. issue'[i].parent = selected
    BY <1>6, <1>8, <1>10
  <2>3. DOMAIN issue' = DOMAIN issue \cup {i}
    BY <1>10
  <2>4. \A j \in DOMAIN issue :
          /\ Core!Main(Core!RootOf(j)) \in DOMAIN issue
          /\ j[2] = 0 => issue[j].parent = NoIssue
          /\ j[2] # 0 => issue[j].parent \in DOMAIN issue /\ Core!RootOf(issue[j].parent) = Core!RootOf(j)
    BY DEF Rows, Core!FamilyIntact, Core!Ids
  <2>5. \A j \in DOMAIN issue :
          /\ Core!Main(Core!RootOf(j)) \in DOMAIN issue'
          /\ j[2] = 0 => issue'[j].parent = NoIssue
          /\ j[2] # 0 => issue'[j].parent \in DOMAIN issue' /\ Core!RootOf(issue'[j].parent) = Core!RootOf(j)
    BY <2>1, <2>3, <2>4
  <2>6. /\ Core!Main(Core!RootOf(i)) \in DOMAIN issue' /\ i[2] # 0
        /\ issue'[i].parent \in DOMAIN issue' /\ Core!RootOf(issue'[i].parent) = Core!RootOf(i)
    BY <1>2, <1>3, <1>5, <2>2, <2>3 DEF Core!RootOf, Core!Main
  <2> QED BY <2>3, <2>5, <2>6 DEF Core!FamilyIntact, Core!Ids
<1>13. IsFiniteSet(DOMAIN issue')
  BY <1>10, FS_AddElement DEF Rows
<1> QED BY <1>2, <1>7, <1>10, <1>11, <1>12, <1>13 DEF Rows, StayClosed

\* Deleted rows are closed under "is the main issue of" and "is the parent of";
\* no main issue goes unless it was selected.
LEMMA TargetsOf ==
  ASSUME Rows, NEW S \in SUBSET DOMAIN issue
  PROVE  /\ Core!Targets(S) \subseteq DOMAIN issue /\ S \subseteq Core!Targets(S)
         /\ \A j \in DOMAIN issue : issue[j].parent \in Core!Targets(S) => j \in Core!Targets(S)
         /\ \A j \in DOMAIN issue : Core!Main(j[1]) \in Core!Targets(S) => j \in Core!Targets(S)
<1> DEFINE Closed(T) == /\ Core!Expanded(S) \subseteq T
                        /\ \A j \in DOMAIN issue : issue[j].parent \in T => j \in T
           gone == Core!Targets(S)
<1>1. gone = {i \in DOMAIN issue : \A T \in SUBSET DOMAIN issue : Closed(T) => i \in T}
  BY DEF Core!Targets, Core!Ids
<1>2. /\ S \subseteq Core!Expanded(S)
      /\ \A j \in DOMAIN issue : Core!Main(j[1]) \in S => j \in Core!Expanded(S)
  BY DEF Core!Expanded, Core!Ids, Core!RootOf
<1>3. \A j \in DOMAIN issue : j \in Core!Expanded(S) => j \in gone
  BY <1>1
<1>4. \A j \in DOMAIN issue : issue[j].parent \in gone => j \in gone
  BY <1>1
<1>5. ASSUME NEW j \in DOMAIN issue, j[2] = 0, j \notin S
      PROVE  j \notin gone
  <2> DEFINE T == DOMAIN issue \ {j}
  <2>1. j \in Issues /\ Core!Main(j[1]) = j
    BY <1>5, RootsOfIssues DEF Rows, Core!TypeOK, Core!Ids, Issues, Core!Main
  <2>2. Core!Expanded(S) \subseteq T
    BY <1>5, <2>1 DEF Core!Expanded, Core!Ids, Core!RootOf
  <2>3. issue[j].parent = NoIssue /\ NoIssue \notin DOMAIN issue
    BY <1>5, DeviceAssumption DEF Rows, Core!FamilyIntact, Core!TypeOK, Core!Ids, Issues
  <2>4. \A k \in DOMAIN issue : issue[k].parent \in T => k \in T
    BY <2>3
  <2>5. T \in SUBSET DOMAIN issue /\ Closed(T) /\ j \notin T
    BY <2>2, <2>4
  <2> HIDE DEF T, Closed
  <2> QED BY <1>1, <2>5
<1>6. ASSUME NEW j \in DOMAIN issue, Core!Main(j[1]) \in gone
      PROVE  j \in gone
  <2>1. Core!Main(j[1]) \in DOMAIN issue /\ Core!Main(j[1])[2] = 0
    BY <1>1, <1>6 DEF Core!Main
  <2>2. Core!Main(j[1]) \in S
    BY <1>5, <1>6, <2>1
  <2> QED BY <1>2, <1>3, <2>2
<1>7. gone \subseteq DOMAIN issue
  BY <1>1
<1> HIDE DEF gone
<1> QED BY <1>2, <1>3, <1>4, <1>6, <1>7 DEF gone

\* What delete_issues leaves of the tables.
LEMMA RowsDeleted ==
  ASSUME Rows, NEW S, Core!DeleteIssues(S)
  PROVE  /\ Rows' /\ DOMAIN issue' = DOMAIN issue \ Core!Targets(S) /\ StayClosed
         /\ \A j \in DOMAIN issue' : issue'[j].status = issue[j].status
         /\ Core!Targets(S) \subseteq DOMAIN issue
         /\ \A j \in DOMAIN issue : Core!Main(j[1]) \in Core!Targets(S) => j \in Core!Targets(S)
<1> DEFINE gone == Core!Targets(S)
           D    == DOMAIN issue \ gone
           kept == [i \in D |-> issue[i]]
           left == {r \in Roots : Core!Main(r) \in S}
           rs   == {r \in Roots : \E i \in gone : Core!RootOf(i) = r} \ left
<1>1. /\ issue' = Core!Recalculated(kept, rs) /\ session' = [r \in DOMAIN session \ left |-> session[r]]
      /\ S \in SUBSET DOMAIN issue
  BY DEF Core!DeleteIssues, Core!Ids
<1>2. /\ gone \subseteq DOMAIN issue
      /\ \A j \in DOMAIN issue : issue[j].parent \in gone => j \in gone
      /\ \A j \in DOMAIN issue : Core!Main(j[1]) \in gone => j \in gone
  BY <1>1, TargetsOf
<1> HIDE DEF gone
<1>3. kept \in [D -> Core!Row] /\ \A i \in D : kept[i] = issue[i]
  BY DEF Rows, Core!TypeOK, Core!Ids
<1> HIDE DEF kept, rs, left
<1>4. /\ issue' \in [D -> Core!Row]
      /\ \A i \in D : issue'[i].parent = issue[i].parent /\ issue'[i].status = issue[i].status
  BY <1>1, <1>3, Rolled
<1>5. DOMAIN issue' = D /\ D \subseteq DOMAIN issue
  BY <1>4
<1>6. Core!TypeOK'
  <2>1. DOMAIN session' \in SUBSET Roots /\ session' \in [DOMAIN session' -> {}]
    BY <1>1 DEF Rows, Core!TypeOK
  <2> QED BY <1>4, <1>5, <2>1 DEF Rows, Core!TypeOK, Core!Ids
<1>7. Core!FamilyIntact'
  <2>1. \A j \in DOMAIN issue :
          /\ Core!Main(j[1]) \in DOMAIN issue
          /\ j[2] = 0 => issue[j].parent = NoIssue
          /\ j[2] # 0 => issue[j].parent \in DOMAIN issue /\ issue[j].parent[1] = j[1]
    BY DEF Rows, Core!FamilyIntact, Core!Ids, Core!RootOf
  <2>2. \A j \in D :
          /\ Core!Main(j[1]) \in D
          /\ j[2] = 0 => issue'[j].parent = NoIssue
          /\ j[2] # 0 => issue'[j].parent \in D /\ issue'[j].parent[1] = j[1]
    BY <1>2, <1>4, <2>1
  <2> QED BY <1>5, <2>2 DEF Core!FamilyIntact, Core!Ids, Core!RootOf
<1>8. IsFiniteSet(DOMAIN issue')
  BY <1>5, FS_Subset DEF Rows
<1> QED BY <1>2, <1>4, <1>5, <1>6, <1>7, <1>8 DEF Rows, StayClosed, gone

-----------------------------------------------------------------------------
(* What every step keeps. *)

\* The world only grows: cards stay those of their issues, no submission is
\* unheard of again, no root is given out twice.
Grows ==
  /\ spent \subseteq spent'
  /\ Pressed \subseteq Pressed'
  /\ \A m \in Messages, i \in Issues : Has(m, i) => Has(m, i)'
  /\ \A r \in Roots : Gone(r) => Gone(r)'

\* The steps that change the tables, Feishu, the executor, and the client.
CoreMove ==
  \/ \E r \in Roots, who \in Reporters : CreateIssue(r, who)
  \/ \E i \in DOMAIN issue, who \in Reporters :
       \/ CreateSubissue(i, who) \/ ReportVerificationFailure(i, who)
       \/ \E v \in 1..MaxVersion : ConfirmSolution(i, who, v)
  \/ \E i \in DOMAIN issue : RequestHandoff(i) \/ DeleteIssue(i)
  \/ \E c \in calls : MarkDelivered(c) \/ ImportSolution(c)
FeishuMove ==
  \/ \E c \in calls : SendCard(c) \/ HandoffFails(c) \/ UpdateCard(c) \/ UpdateFails(c)
  \/ \E p \in Presses : PressSubmit(p) \/ ReceivePress(p)
ExecutorMove ==
  \/ StartJob \/ Crash
  \/ \E i \in Issues : RetryTime(i)
  \/ \E i \in DOMAIN issue :
       \/ RequestHandoff(i) \/ DeleteIssue(i)
       \/ \E who \in Reporters :
            \/ ReportVerificationFailure(i, who)
            \/ \E v \in 1..MaxVersion : ConfirmSolution(i, who, v)
  \/ \E c \in calls : QueueAgain(c) \/ FailHandoff(c)
CallMove ==
  \/ StartJob \/ Crash
  \/ \E i \in DOMAIN issue : Poll(i) \/ DeleteIssue(i)
  \/ \E c \in calls : \/ QueueAgain(c) \/ MarkDelivered(c) \/ ImportSolution(c)
                      \/ CopyForSync(c) \/ CopyForConfirm(c) \/ CopyForFailure(c)
                      \/ UpdateCard(c) \/ UpdateFails(c)
HandoffMove ==
  \E c \in calls : \/ CopyForHandoff(c) \/ SendCard(c) \/ StoreCard(c) \/ CompleteTopic(c)
                   \/ SendEvidence(c) \/ FinishHandoff(c) \/ HandoffFails(c)
RecordMove ==
  \/ \E c \in calls : StoreUpdate(c) \/ ForgetIssues(c)
  \/ \E p \in Presses : ReceivePress(p)

\* A step changes nothing of a part that it is not among the moves of.
LEMMA Frames ==
  ASSUME [Next]_vars
  PROVE  /\ CoreMove \/ UNCHANGED <<issue, session, spent, retired, confirmed>>
         /\ FeishuMove \/ UNCHANGED <<card, press>>
         /\ ExecutorMove \/ UNCHANGED <<queue, backoff, deleted, crashes, deletes>>
         /\ HandoffMove \/ RecordMove \/ (CallMove /\ UNCHANGED <<item, topic>>)
            \/ UNCHANGED <<item, topic, calls>>
<1>1. CASE UNCHANGED vars
  BY <1>1 DEF vars
<1>2. CASE UI
  BY <1>2 DEF UI, CoreMove, FeishuMove, ExecutorMove, CallMove, feishu, bound, core, CreateIssue,
     CreateSubissue, RequestHandoff, Poll, ConfirmSolution, ReportVerificationFailure, DeleteIssue
<1>3. CASE StartJob \/ Crash \/ \E i \in Issues : RetryTime(i)
  BY <1>3 DEF CoreMove, FeishuMove, ExecutorMove, CallMove, feishu, bound, core, StartJob, RetryTime, Crash
<1>4. ASSUME NEW c \in calls, Elsewhere,
             CopyForHandoff(c) \/ StoreCard(c) \/ FinishHandoff(c) \/ CopyForSync(c) \/ CopyForConfirm(c)
               \/ CopyForFailure(c) \/ StoreUpdate(c) \/ ForgetIssues(c)
      PROVE  UNCHANGED <<card, press>> /\ (HandoffMove \/ RecordMove \/ (CallMove /\ UNCHANGED <<item, topic>>))
  BY <1>4 DEF HandoffMove, RecordMove, CallMove, CopyForHandoff, StoreCard, FinishHandoff, CopyForSync,
     CopyForConfirm, CopyForFailure, StoreUpdate, ForgetIssues
<1>5. ASSUME NEW c \in calls, QueueAgain(c) \/ MarkDelivered(c) \/ ImportSolution(c)
      PROVE  /\ CoreMove \/ UNCHANGED <<issue, session, spent, retired, confirmed>>
             /\ UNCHANGED <<card, press, item, topic>> /\ CallMove
             /\ ExecutorMove \/ UNCHANGED <<queue, backoff, deleted, crashes, deletes>>
  BY <1>5 DEF CoreMove, ExecutorMove, CallMove, QueueAgain, MarkDelivered, ImportSolution, core, bound
<1>6. ASSUME NEW c \in calls, Sends(c) \/ Updates(c) \/ Fails(c)
      PROVE  /\ FeishuMove \/ UNCHANGED <<card, press>>
             /\ UNCHANGED <<issue, session, spent, retired, confirmed>>
             /\ ExecutorMove \/ UNCHANGED <<queue, backoff, deleted, crashes, deletes>>
             /\ HandoffMove \/ (CallMove /\ UNCHANGED <<item, topic>>)
  BY <1>6 DEF Sends, Updates, Fails, FailHandoff, FeishuMove, ExecutorMove, HandoffMove, CallMove,
     SendCard, CompleteTopic, SendEvidence, UpdateCard, UpdateFails, HandoffFails, Elsewhere, core, bound
<1>7. CASE Engineer \/ Arrives
  BY <1>7 DEF Engineer, Arrives, FeishuMove, RecordMove, PressSubmit, ReceivePress, Elsewhere, core, bound
<1> QED
  BY <1>1, <1>2, <1>3, <1>4, <1>5, <1>6, <1>7 DEF Next, Advance, Elsewhere, core, bound

\* As many submissions as there are can have been heard of.
LEMMA PressedIsFinite ==
  /\ IsFiniteSet(Pressed) /\ Cardinality(Pressed) \in Nat /\ Cardinality(Pressed) <= MaxVersion
  /\ MaxVersion \in Nat
<1>1. /\ IsFiniteSet(Presses) /\ Cardinality(Presses) \in Nat /\ MaxVersion \in Nat
      /\ Cardinality(Presses) <= MaxVersion
  BY DeviceAssumption, FS_CardinalityType
<1>2. IsFiniteSet(Pressed) /\ Cardinality(Pressed) \in Nat /\ Cardinality(Pressed) <= Cardinality(Presses)
  BY <1>1, FS_Subset, FS_CardinalityType DEF Pressed
<1> QED BY <1>1, <1>2

\* A version the client holds is one the core can be given.
LEMMA VersionsInRange ==
  ASSUME NEW v \in Nat, v <= Cardinality(Pressed)
  PROVE  v \in 0..MaxVersion /\ (v # 0 => v \in Core!Version)
BY PressedIsFinite DEF Core!Version

\* An answer comes with a version the client holds.
LEMMA ImportInRange ==
  ASSUME IInv, NEW c \in calls, ImportSolution(c)
  PROVE  \/ UNCHANGED <<issue, session>>
         \/ c.copy.version \in Core!Version /\ Core!ImportSolution(c.issue, c.copy.version)
<1>1. c.copy.version \in Nat /\ c.copy.version <= Cardinality(Pressed)
  BY DEF IInv, TypeOK, CallType, ItemType, CallOK
<1>2. c.copy.version \in 0..MaxVersion /\ (c.copy.version # 0 => c.copy.version \in Core!Version)
  BY <1>1, VersionsInRange DEF IInv
<1>3. ASSUME c.issue \in DOMAIN issue, c.copy.version > issue[c.issue].version
      PROVE  c.copy.version # 0
  BY <1>2, <1>3 DEF IInv, Rows, Core!TypeOK, Core!Ids, Core!Row
<1> QED BY <1>2, <1>3 DEF ImportSolution, core

\* The tables after any step: they are of their types, the issues there are of
\* roots given out, closed ones stay closed, and deleted roots stay away.
LEMMA CoreStep ==
  ASSUME IInv, [Next]_vars
  PROVE  /\ Rows' /\ StayClosed
         /\ spent' \subseteq Roots /\ spent \subseteq spent'
         /\ \A i \in DOMAIN issue' : i[1] \in spent'
         /\ \A r \in Roots : Gone(r) => Gone(r)'
<1> DEFINE Goal == /\ Rows' /\ StayClosed
                   /\ spent' \subseteq Roots /\ spent \subseteq spent'
                   /\ \A i \in DOMAIN issue' : i[1] \in spent'
                   /\ \A r \in Roots : Gone(r) => Gone(r)'
<1>0. Rows /\ spent \subseteq Roots /\ \A i \in DOMAIN issue : i[1] \in spent
  BY DEF IInv, Named, TypeOK
<1>1. ASSUME UNCHANGED <<issue, session, spent>> PROVE Goal
  BY <1>0, <1>1 DEF Rows, Core!TypeOK, Core!FamilyIntact, Core!Ids, StayClosed, Gone
<1>2. ASSUME NEW r \in Roots, NEW who \in Reporters, CreateIssue(r, who) PROVE Goal
  <2>1. Rows' /\ DOMAIN issue' = DOMAIN issue \cup {Core!Main(r)} /\ StayClosed
    BY <1>0, <1>2, RootCreated DEF CreateIssue
  <2>2. spent' = spent \cup {r} /\ r \notin spent
    BY <1>2 DEF CreateIssue
  <2>3. Core!Main(r)[1] = r /\ \A q \in Roots : Core!Main(q) = Core!Main(r) => q = r
    BY DEF Core!Main
  <2> QED BY <1>0, <2>1, <2>2, <2>3 DEF Gone
<1>3. ASSUME NEW i \in DOMAIN issue, NEW who \in Reporters, CreateSubissue(i, who) PROVE Goal
  <2>1. PICK n \in 1..MaxSub : DOMAIN issue' = DOMAIN issue \cup {<<i[1], n>>}
    BY <1>0, <1>3, SubCreated DEF CreateSubissue
  <2>2. Rows' /\ StayClosed /\ spent' = spent
    BY <1>0, <1>3, SubCreated DEF CreateSubissue, bound
  <2>3. \A q \in Roots : Core!Main(q) # <<i[1], n>>
    BY <2>1 DEF Core!Main
  <2> QED BY <1>0, <2>1, <2>2, <2>3 DEF Gone
<1>4. ASSUME Rows', DOMAIN issue' = DOMAIN issue, StayClosed, spent' = spent PROVE Goal
  BY <1>0, <1>4 DEF Gone
<1>5. ASSUME NEW i \in DOMAIN issue, RequestHandoff(i) PROVE Goal
  <2>1. Core!RequestHandoff(i) /\ spent' = spent
    BY <1>5 DEF RequestHandoff, bound
  <2> QED BY <1>0, <1>4, <2>1, HandedOff
<1>6. ASSUME NEW c \in calls, MarkDelivered(c) PROVE Goal
  <2>1. (UNCHANGED <<issue, session>> \/ Core!MarkHandoffDelivered(c.issue)) /\ spent' = spent
    BY <1>6 DEF MarkDelivered, bound, core
  <2> QED BY <1>0, <1>1, <1>4, <2>1, HandedOff
<1>7. ASSUME NEW c \in calls, ImportSolution(c) PROVE Goal
  <2>1. spent' = spent
    BY <1>7 DEF ImportSolution, bound
  <2> QED BY <1>0, <1>1, <1>4, <1>7, <2>1, ImportInRange, Answered
<1>8. ASSUME NEW i \in DOMAIN issue, NEW who \in Reporters, ReportVerificationFailure(i, who) PROVE Goal
  <2>1. Core!ReportVerificationFailure(i, who) /\ spent' = spent
    BY <1>8 DEF ReportVerificationFailure, bound
  <2>2. Rows' /\ DOMAIN issue' = DOMAIN issue /\ StayClosed
    BY <1>0, <2>1, FailureReported
  <2> QED BY <1>4, <2>1, <2>2
<1>9. ASSUME NEW i \in DOMAIN issue, NEW who \in Reporters, NEW v \in 1..MaxVersion,
             ConfirmSolution(i, who, v)
      PROVE  Goal
  <2>1. Core!ConfirmSolution(i, who, v) /\ spent' = spent /\ v \in Core!Version
    BY <1>9 DEF ConfirmSolution, bound, Core!Version
  <2>2. Rows' /\ DOMAIN issue' = DOMAIN issue /\ StayClosed
    BY <1>0, <2>1, Confirmed
  <2> QED BY <1>4, <2>1, <2>2
<1>10. ASSUME NEW i \in DOMAIN issue, DeleteIssue(i) PROVE Goal
  <2>1. Core!DeleteIssues({i}) /\ spent' = spent
    BY <1>10 DEF DeleteIssue
  <2>2. Rows' /\ DOMAIN issue' \subseteq DOMAIN issue /\ StayClosed
    BY <1>0, <2>1, RowsDeleted
  <2> QED BY <1>0, <2>1, <2>2 DEF Gone
<1> HIDE DEF Goal
<1>11. Goal
  BY <1>1, <1>2, <1>3, <1>5, <1>6, <1>7, <1>8, <1>9, <1>10, Frames DEF CoreMove
<1> QED BY <1>11 DEF Goal

\* The numbers of deleted and of confirmed issues stay remembered.
LEMMA HistoriesGrow ==
  ASSUME IInv, [Next]_vars
  PROVE  /\ retired \subseteq retired' /\ retired' \subseteq Issues
         /\ confirmed \subseteq confirmed' /\ confirmed' \subseteq Issues
<1>1. /\ retired \subseteq Issues /\ confirmed \subseteq Issues /\ Rows /\ DOMAIN issue \subseteq Issues
      /\ CoreMove \/ UNCHANGED <<retired, confirmed>>
  BY Frames DEF IInv, TypeOK, Rows, Core!TypeOK, Core!Ids, Issues
<1>2. ASSUME NEW i \in DOMAIN issue, DeleteIssue(i)
      PROVE  /\ retired \subseteq retired' /\ retired' \subseteq Issues /\ UNCHANGED confirmed
  <2>1. /\ Core!DeleteIssues({i}) /\ retired' = retired \cup Core!Targets({i}) /\ UNCHANGED confirmed
    BY <1>2 DEF DeleteIssue
  <2> QED BY <1>1, <2>1, RowsDeleted
<1>3. ASSUME NEW i \in DOMAIN issue, NEW who \in Reporters, NEW v \in 1..MaxVersion,
             ConfirmSolution(i, who, v)
      PROVE  confirmed' = confirmed \cup {i} /\ UNCHANGED retired
  BY <1>3 DEF ConfirmSolution
<1>4. ASSUME NEW r \in Roots, NEW who \in Reporters, CreateIssue(r, who)
      PROVE  UNCHANGED <<retired, confirmed>>
  BY <1>4 DEF CreateIssue
<1>5. ASSUME NEW i \in DOMAIN issue, NEW who \in Reporters,
             CreateSubissue(i, who) \/ ReportVerificationFailure(i, who) \/ RequestHandoff(i)
      PROVE  UNCHANGED <<retired, confirmed>>
  BY <1>5 DEF CreateSubissue, ReportVerificationFailure, RequestHandoff, bound
<1>6. ASSUME NEW c \in calls, MarkDelivered(c) \/ ImportSolution(c)
      PROVE  UNCHANGED <<retired, confirmed>>
  BY <1>6 DEF MarkDelivered, ImportSolution, bound
<1>7. CASE UNCHANGED <<retired, confirmed>>
  BY <1>1, <1>7
<1>8. CASE CoreMove
  <2>1. CASE \E i \in DOMAIN issue, who \in Reporters, v \in 1..MaxVersion : ConfirmSolution(i, who, v)
    BY <1>1, <1>3, <2>1
  <2>2. CASE \E i \in DOMAIN issue : DeleteIssue(i)
    BY <1>1, <1>2, <2>2
  <2>3. CASE \E r \in Roots, who \in Reporters : CreateIssue(r, who)
    BY <1>4, <1>7, <2>3
  <2>4. CASE \E i \in DOMAIN issue : RequestHandoff(i)
    <3>1. PICK i \in DOMAIN issue : RequestHandoff(i)
      BY <2>4
    <3>2. UNCHANGED <<retired, confirmed>>
      BY <3>1 DEF RequestHandoff, bound
    <3> QED BY <1>7, <3>2
  <2>5. CASE \E i \in DOMAIN issue, who \in Reporters :
               CreateSubissue(i, who) \/ ReportVerificationFailure(i, who)
    BY <1>5, <1>7, <2>5
  <2>6. CASE \E c \in calls : MarkDelivered(c) \/ ImportSolution(c)
    BY <1>6, <1>7, <2>6
  <2> QED BY <1>8, <2>1, <2>2, <2>3, <2>4, <2>5, <2>6 DEF CoreMove
<1> QED BY <1>1, <1>7, <1>8

\* The faces of cards and calls are of their types.
LEMMA CardFields ==
  ASSUME NEW x \in CardType, NEW face \in Faces, NEW v \in Nat
  PROVE  LET y == [x EXCEPT !.shows = face, !.version = v] IN
         y \in CardType /\ y.issue = x.issue /\ y.uuid = x.uuid /\ y.shows = face
BY DEF CardType

\* A card is shown for a call that updates one: it stays the card it was.
LEMMA Shown ==
  ASSUME IInv, NEW c \in calls, c.pc = "update", Shows(c.copy.message, Face(c.op), c.copy.version)
  PROVE  LET m == c.copy.message IN
         /\ m \in Messages /\ card[m] \in CardType /\ card[m].issue = c.issue
         /\ card' \in [Messages -> CardType \cup {None}]
         /\ card'[m] \in CardType /\ card'[m].issue = c.issue /\ card'[m].uuid = card[m].uuid
         /\ card'[m].shows = Face(c.op)
         /\ \A n \in Messages \ {m} : card'[n] = card[n]
<1> DEFINE m == c.copy.message
           x == [card[m] EXCEPT !.shows = Face(c.op), !.version = c.copy.version]
<1>1. c \in CallType /\ CallOK(c) /\ card \in [Messages -> CardType \cup {None}]
  BY DEF IInv, TypeOK
<1>2. m # None /\ Has(m, c.issue) /\ c.copy.version \in Nat /\ c.op # "forget"
  BY <1>1 DEF CallOK, CallType, ItemType
<1>3. m \in Messages /\ card[m] \in CardType /\ card[m].issue = c.issue
  BY <1>1, <1>2 DEF Has
<1>4. Face(c.op) \in Faces
  BY <1>1, <1>2 DEF CallType, Face, Faces, JobOps
<1>5. x \in CardType /\ x.issue = c.issue /\ x.uuid = card[m].uuid /\ x.shows = Face(c.op)
  <2> DEFINE k == card[m]
             f == Face(c.op)
             v == c.copy.version
  <2>1. k \in CardType /\ f \in Faces /\ v \in Nat /\ k.issue = c.issue
    BY <1>2, <1>3, <1>4
  <2> HIDE DEF k, f, v
  <2>2. LET y == [k EXCEPT !.shows = f, !.version = v] IN
        y \in CardType /\ y.issue = k.issue /\ y.uuid = k.uuid /\ y.shows = f
    BY <2>1, CardFields
  <2> QED BY <2>1, <2>2 DEF k, f, v
<1>6. card' = [card EXCEPT ![m] = x]
  <2>1. card' = [card EXCEPT ![m].shows = Face(c.op), ![m].version = c.copy.version]
    BY DEF Shows
  <2> QED BY <2>1, <1>1, <1>3
<1> HIDE DEF x, m
<1> QED BY <1>1, <1>3, <1>5, <1>6 DEF m

\* A card is posted for a handoff: the issue's, under its uuid if under any.
LEMMA Posted ==
  ASSUME IInv, NEW i \in Issues, i[1] \in spent, NEW root \in Messages \cup {None}, NEW m \in Messages,
         Posts(i, root, m)
  PROVE  /\ card' \in [Messages -> CardType \cup {None}]
         /\ Has(m, i)'
         /\ \A n \in Messages : card[n] # None => card'[n] = card[n]
         /\ \A n \in Messages : card'[n] = card[n] \/
              (n = m /\ card[m] = None /\ card'[m].issue = i /\ card'[m].uuid \in {None, i}
                 /\ card'[m].shows = "form")
<1> DEFINE x == [issue |-> i, uuid |-> IF root = None THEN None ELSE i,
                 topic |-> IF root = None THEN m ELSE root, shows |-> "form", version |-> 0]
<1>1. card \in [Messages -> CardType \cup {None}] /\ None \notin CardType
  BY DeviceAssumption DEF IInv, TypeOK
<1>2. CASE m \in Known(i, root) /\ UNCHANGED card
  <2>1. root # None /\ card[m] # None /\ card[m].uuid = i /\ CardOK(m)
    BY <1>2 DEF Known, IInv
  <2>2. i # None
    BY DeviceAssumption
  <2>3. card[m].issue = i
    BY <2>1, <2>2 DEF CardOK
  <2> QED BY <1>1, <1>2, <2>1, <2>3 DEF Has
<1>3. CASE m \in Fresh /\ card' = [card EXCEPT ![m] = x]
  <2>1. card[m] = None
    BY <1>3 DEF Fresh
  <2>2. x \in CardType /\ x.issue = i /\ x.uuid \in {None, i} /\ x.shows = "form"
    BY DEF CardType, Faces
  <2> HIDE DEF x
  <2> QED BY <1>1, <1>3, <2>1, <2>2 DEF Has
<1> QED BY <1>2, <1>3 DEF Posts

\* Feishu after any step: cards are of their types and of issues there were,
\* none is lost to its issue, and no submission is unheard of again.
LEMMA FeishuStep ==
  ASSUME IInv, [Next]_vars
  PROVE  /\ card' \in [Messages -> CardType \cup {None}] /\ press' \in [Presses -> Unpressed..Heard]
         /\ \A m \in Messages : CardOK(m)'
         /\ Pressed \subseteq Pressed'
         /\ \A m \in Messages, i \in Issues : Has(m, i) => Has(m, i)'
<1> DEFINE Cards == /\ card' \in [Messages -> CardType \cup {None}]
                    /\ \A m \in Messages : CardOK(m)'
                    /\ \A m \in Messages, i \in Issues : Has(m, i) => Has(m, i)'
           Forms == press' \in [Presses -> Unpressed..Heard] /\ Pressed \subseteq Pressed'
<1>1. /\ card \in [Messages -> CardType \cup {None}] /\ press \in [Presses -> Unpressed..Heard]
      /\ \A m \in Messages : CardOK(m)
      /\ MaxMessages \in Nat /\ None \notin Messages /\ None \notin CardType
  BY DeviceAssumption DEF IInv, TypeOK
<1>2. spent \subseteq spent'
  BY CoreStep
<1>3. ASSUME UNCHANGED card PROVE Cards
  BY <1>1, <1>2, <1>3 DEF CardOK, Has
<1>4. ASSUME UNCHANGED press PROVE Forms
  BY <1>1, <1>4 DEF Pressed
<1>5. ASSUME NEW i \in Issues, i[1] \in spent, NEW root \in Messages \cup {None}, NEW m \in Messages,
             Posts(i, root, m)
      PROVE  Cards
  BY <1>1, <1>2, <1>5, Posted DEF CardOK, Has
<1>6. ASSUME NEW c \in calls, c.pc = "update", Shows(c.copy.message, Face(c.op), c.copy.version)
      PROVE  Cards
  <2>1. CardOK(c.copy.message)
    BY <1>1, <1>6, Shown
  <2> QED BY <1>1, <1>2, <1>6, <2>1, Shown DEF CardOK, Has
<1>7. ASSUME NEW c \in calls, SendCard(c) \/ HandoffFails(c) PROVE Cards /\ Forms
  <2>1. c.issue \in Issues /\ c.issue[1] \in spent /\ c.topic \in Messages \cup {None}
    BY DEF IInv, TypeOK, CallType, CallOK
  <2>2. UNCHANGED press /\ (UNCHANGED card \/ \E m : Posts(c.issue, c.topic, m))
    <3>1. CASE SendCard(c)
      BY <3>1 DEF SendCard
    <3>2. CASE HandoffFails(c)
      BY <3>2 DEF HandoffFails
    <3> QED BY <1>7, <3>1, <3>2
  <2>3. ASSUME NEW m, Posts(c.issue, c.topic, m) PROVE m \in Messages
    BY <2>3 DEF Posts, Known, Fresh
  <2> QED BY <1>3, <1>4, <1>5, <2>1, <2>2, <2>3
<1>8. ASSUME NEW c \in calls, UpdateCard(c) \/ UpdateFails(c) PROVE Cards /\ Forms
  <2>1. c.pc = "update" /\ UNCHANGED press
        /\ (UNCHANGED card \/ Shows(c.copy.message, Face(c.op), c.copy.version))
    BY <1>8 DEF UpdateCard, UpdateFails
  <2> QED BY <1>3, <1>4, <1>6, <2>1
<1>9. ASSUME NEW p \in Presses, PressSubmit(p) \/ ReceivePress(p) PROVE Cards /\ Forms
  <2>1. UNCHANGED card
    BY <1>9 DEF PressSubmit, ReceivePress
  <2>2. ASSUME NEW v \in Unpressed..Heard, press' = [press EXCEPT ![p] = v], press[p] # Heard
        PROVE  Forms
    BY <1>1, <2>2 DEF Pressed
  <2>3. ASSUME PressSubmit(p) PROVE Forms
    <3>1. PICK m \in Messages : press' = [press EXCEPT ![p] = m] /\ press[p] = Unpressed
      BY <2>3 DEF PressSubmit
    <3>2. m \in Unpressed..Heard /\ press[p] # Heard
      BY <1>1, <3>1 DEF Messages, Heard, Unpressed
    <3> QED BY <2>2, <3>1, <3>2
  <2>4. ASSUME ReceivePress(p) PROVE Forms
    <3>1. press' = [press EXCEPT ![p] = Heard] /\ press[p] \in Messages
      BY <2>4 DEF ReceivePress
    <3>2. Heard \in Unpressed..Heard /\ press[p] # Heard
      BY <1>1, <3>1 DEF Messages, Heard, Unpressed
    <3> QED BY <2>2, <3>1, <3>2
  <2> QED BY <1>3, <1>9, <2>1, <2>3, <2>4
<1> HIDE DEF Cards, Forms
<1>10. Cards /\ Forms
  BY <1>3, <1>4, <1>7, <1>8, <1>9, Frames DEF FeishuMove
<1> QED BY <1>10 DEF Cards, Forms

\* So the world only grows.
LEMMA WorldGrows ==
  ASSUME IInv, [Next]_vars
  PROVE  /\ Grows
         /\ Cardinality(Pressed) \in Nat /\ Cardinality(Pressed') \in Nat
         /\ Cardinality(Pressed) <= Cardinality(Pressed')
<1>1. Grows
  BY CoreStep, FeishuStep DEF Grows
<1>2. IsFiniteSet(Presses) /\ Pressed' \subseteq Presses /\ Pressed \subseteq Pressed'
  BY <1>1, DeviceAssumption DEF Grows, Pressed
<1>3. IsFiniteSet(Pressed') /\ IsFiniteSet(Pressed)
  BY <1>2, FS_Subset
<1> QED BY <1>1, <1>2, <1>3, FS_Subset, FS_CardinalityType

\* What holds of a record, a call and a handoff holds on, as the world grows.
LEMMA RecordKept ==
  ASSUME IInv, Grows, Cardinality(Pressed) \in Nat, Cardinality(Pressed') \in Nat,
         Cardinality(Pressed) <= Cardinality(Pressed'),
         NEW i \in Issues, item'[i] = item[i]
  PROVE  RecordOK(i)'
BY DEF IInv, RecordOK, Grows, TypeOK, ItemType

LEMMA CallKept ==
  ASSUME IInv, Grows, Cardinality(Pressed) \in Nat, Cardinality(Pressed') \in Nat,
         Cardinality(Pressed) <= Cardinality(Pressed'),
         NEW c \in calls
  PROVE  CallOK(c)'
<1>1. c \in CallType /\ CallOK(c) /\ c.issue \in Issues /\ c.copy.version \in Nat
      /\ c.copy.message \in Messages \cup {None}
  BY DEF IInv, TypeOK, CallType, ItemType
<1>2. c.copy.message # None => Has(c.copy.message, c.issue)'
  BY <1>1 DEF CallOK, Grows
<1>3. c.issue[1] \in spent' /\ c.copy.version <= Cardinality(Pressed')
  BY <1>1 DEF CallOK, Grows
<1>4. c.op = "forget" => \A r \in Roots : Core!Main(r) \in c.targets => Gone(r)'
  BY <1>1 DEF CallOK, Grows
<1> QED BY <1>1, <1>2, <1>3, <1>4 DEF CallOK

\* A root's main issue, once given out, does not come back.
LEMMA RootStays ==
  ASSUME Grows, NEW i \in Issues, i[1] \in spent, Root(i) \in DOMAIN issue'
  PROVE  Root(i) \in DOMAIN issue
BY RootsOfIssues DEF Grows, Gone

LEMMA HoldsKept ==
  ASSUME IInv, Grows, NEW c \in calls, Inside(c),
         item[c.issue] = Blank => item'[c.issue] = Blank,
         Root(c.issue) \in DOMAIN issue' => topic'[Root(c.issue)] = topic[Root(c.issue)]
  PROVE  HoldsOK(c)'
<1>1. HoldsOK(c) /\ c.issue \in Issues /\ c.issue[1] \in spent
  BY DEF IInv, TypeOK, CallType, CallOK
<1>2. Root(c.issue) \in DOMAIN issue' => Root(c.issue) \in DOMAIN issue
  BY <1>1, RootStays
<1> QED BY <1>1, <1>2 DEF HoldsOK

-----------------------------------------------------------------------------
(* The executor. *)

JobsOf(s) == {j \in JobType : j.issue[1] \in s}
ExecutorOK ==
  /\ queue \in Seq(JobsOf(spent))
  /\ backoff \subseteq {i \in Issues : i[1] \in spent} /\ deleted \subseteq Issues
  /\ crashes \in 0..MaxCrashes /\ deletes \in 0..MaxDeletes

LEMMA QueueNamed ==
  ASSUME NEW q, NEW s
  PROVE  q \in Seq(JobsOf(s)) <=> q \in Seq(JobType) /\ \A n \in DOMAIN q : q[n].issue[1] \in s
BY DEF JobsOf

\* More roots, and a longer queue.
LEMMA QueueGrows ==
  ASSUME NEW s, NEW t, s \subseteq t, NEW q \in Seq(JobsOf(s))
  PROVE  /\ q \in Seq(JobsOf(t))
         /\ \A j \in JobsOf(t) : Append(q, j) \in Seq(JobsOf(t))
<1>1. q \in Seq(JobsOf(t))
  BY DEF JobsOf
<1> QED BY <1>1

\* Any new job is about an issue there was.
LEMMA NewJob ==
  ASSUME NEW i \in Issues, i[1] \in spent, NEW op \in JobOps, NEW v \in Nat
  PROVE  Job(op, i, v) \in JobsOf(spent)
BY DEF Job, JobsOf, JobType

LEMMA ExecutorStep ==
  ASSUME IInv, [Next]_vars
  PROVE  ExecutorOK'
<1>1. /\ ExecutorOK /\ calls \subseteq CallType /\ DOMAIN issue \subseteq Issues
      /\ IsFiniteSet(DOMAIN issue)
      /\ \A i \in DOMAIN issue : i[1] \in spent /\ issue[i].version \in Nat
      /\ \A c \in calls : c.issue \in Issues /\ c.issue[1] \in spent
      /\ MaxCrashes \in Nat /\ MaxDeletes \in Nat
  <2>1. queue \in Seq(JobsOf(spent))
    BY QueueNamed DEF IInv, TypeOK, Named
  <2>2. \A i \in DOMAIN issue : issue[i].version \in Nat
    BY DeviceAssumption DEF IInv, Rows, Core!TypeOK, Core!Ids, Core!Row
  <2> QED BY <2>1, <2>2, DeviceAssumption
          DEF IInv, TypeOK, Named, ExecutorOK, CallOK, CallType, Rows, Core!TypeOK, Core!Ids, Issues
<1>2. spent \subseteq spent'
  BY CoreStep
<1>3. queue \in Seq(JobsOf(spent')) /\ backoff \subseteq {i \in Issues : i[1] \in spent'}
  BY <1>1, <1>2, QueueGrows DEF ExecutorOK
<1>4. ASSUME UNCHANGED <<queue, backoff, deleted, crashes, deletes>> PROVE ExecutorOK'
  BY <1>1, <1>3, <1>4 DEF ExecutorOK
<1>5. ASSUME NEW i \in Issues, i[1] \in spent, NEW op \in JobOps, NEW v \in Nat,
             queue' \in {queue, Append(queue, Job(op, i, v))},
             UNCHANGED <<backoff, deleted, crashes, deletes>>
      PROVE  ExecutorOK'
  <2>1. Job(op, i, v) \in JobsOf(spent')
    BY <1>2, <1>5, NewJob DEF JobsOf
  <2> QED BY <1>1, <1>3, <1>5, <2>1, QueueGrows DEF ExecutorOK
<1>6. ASSUME NEW i \in DOMAIN issue, RequestHandoff(i) PROVE ExecutorOK'
  <2>1. queue' \in {queue, Append(queue, Job("handoff", i, 0))}
        /\ UNCHANGED <<backoff, deleted, crashes, deletes>>
    BY <1>6 DEF RequestHandoff, Queued, bound
  <2> QED BY <1>1, <1>5, <2>1 DEF JobOps
<1>7. ASSUME NEW c \in calls, QueueAgain(c) PROVE ExecutorOK'
  <2>1. queue' \in {queue, Append(queue, Job("handoff", c.issue, 0))}
        /\ UNCHANGED <<backoff, deleted, crashes, deletes>>
    BY <1>7 DEF QueueAgain, Queued, bound
  <2> QED BY <1>1, <1>5, <2>1 DEF JobOps
<1>8. ASSUME NEW i \in DOMAIN issue, NEW who \in Reporters, ReportVerificationFailure(i, who)
      PROVE  ExecutorOK'
  <2>1. queue' = Append(queue, Job("failed", i, issue[i].version))
        /\ UNCHANGED <<backoff, deleted, crashes, deletes>>
    BY <1>8 DEF ReportVerificationFailure, bound
  <2> QED BY <1>1, <1>5, <2>1 DEF JobOps
<1>9. ASSUME NEW i \in DOMAIN issue, NEW who \in Reporters, NEW v \in 1..MaxVersion,
             ConfirmSolution(i, who, v)
      PROVE  ExecutorOK'
  <2>1. queue' = Append(queue, Job("confirm", i, v))
        /\ UNCHANGED <<backoff, deleted, crashes, deletes>> /\ v \in Nat
    BY <1>9 DEF ConfirmSolution, bound
  <2> QED BY <1>1, <1>5, <2>1 DEF JobOps
<1>10. ASSUME NEW i \in DOMAIN issue, DeleteIssue(i) PROVE ExecutorOK'
  <2>1. /\ deletes < MaxDeletes /\ deletes' = deletes + 1 /\ UNCHANGED <<queue, backoff, crashes>>
        /\ deleted' = deleted \cup Core!Targets({i}) /\ Core!DeleteIssues({i})
    BY <1>10 DEF DeleteIssue
  <2>2. Core!Targets({i}) \subseteq Issues
    BY <1>1, <2>1, RowsDeleted DEF IInv
  <2>3. deletes' \in 0..MaxDeletes
    BY <1>1, <2>1 DEF ExecutorOK
  <2> QED BY <1>1, <1>3, <2>1, <2>2, <2>3 DEF ExecutorOK
<1>11. ASSUME NEW i \in Issues, RetryTime(i) PROVE ExecutorOK'
  <2>1. backoff' \subseteq backoff /\ UNCHANGED <<queue, deleted, crashes, deletes>>
    BY <1>11 DEF RetryTime, bound
  <2> QED BY <1>1, <1>3, <2>1 DEF ExecutorOK
<1>12. ASSUME NEW c \in calls, FailHandoff(c) PROVE ExecutorOK'
  <2>1. backoff' = backoff \cup {c.issue} /\ UNCHANGED <<queue, deleted, crashes, deletes>>
    BY <1>12 DEF FailHandoff, bound
  <2> QED BY <1>1, <1>2, <1>3, <2>1 DEF ExecutorOK
<1>13. ASSUME StartJob PROVE ExecutorOK'
  <2>1. /\ queue # << >> /\ queue' = Tail(queue) /\ UNCHANGED <<deleted, crashes, deletes>>
        /\ backoff' \in {backoff, backoff \cup {Head(queue).issue}}
    BY <1>13 DEF StartJob, bound
  <2>2. Head(queue) \in JobsOf(spent')
    BY <1>3, <2>1
  <2>3. Head(queue).issue \in {i \in Issues : i[1] \in spent'}
    BY <2>2 DEF JobsOf, JobType
  <2>4. queue' \in Seq(JobsOf(spent'))
    BY <1>3, <2>1
  <2> QED BY <1>1, <1>3, <2>1, <2>3, <2>4 DEF ExecutorOK
<1>14. ASSUME Crash PROVE ExecutorOK'
  <2> DEFINE S == {i \in DOMAIN issue : issue[i].handoff # "none" /\ issue[i].status # "closed"}
  <2>1. /\ crashes < MaxCrashes /\ crashes' = crashes + 1 /\ backoff' = {} /\ deleted' = {}
        /\ UNCHANGED deletes
        /\ \E order \in SetToSeqs(S) : queue' = [n \in DOMAIN order |-> Job("handoff", order[n], 0)]
    BY <1>14 DEF Crash
  <2>2. PICK order \in SetToSeqs(S) : queue' = [n \in DOMAIN order |-> Job("handoff", order[n], 0)]
    BY <2>1
  <2>3. S \subseteq {i \in Issues : i[1] \in spent} /\ Cardinality(S) \in Nat
    BY <1>1, FS_Subset, FS_CardinalityType
  <2> HIDE DEF S
  <2>4. order \in [1..Cardinality(S) -> S]
    BY DEF SetToSeqs
  <2>5. \A n \in 1..Cardinality(S) : Job("handoff", order[n], 0) \in JobsOf(spent')
    BY <1>2, <2>3, <2>4, NewJob DEF JobsOf, JobOps
  <2>6. queue' \in Seq(JobsOf(spent'))
    BY <2>2, <2>3, <2>4, <2>5
  <2>7. crashes' \in 0..MaxCrashes
    BY <1>1, <2>1 DEF ExecutorOK
  <2> QED BY <1>1, <2>1, <2>6, <2>7 DEF ExecutorOK
<1> QED BY <1>4, <1>6, <1>7, <1>8, <1>9, <1>10, <1>11, <1>12, <1>13, <1>14, Frames DEF ExecutorMove

-----------------------------------------------------------------------------
(* The client. *)

ClientOK ==
  /\ item \in [Issues -> ItemType] /\ topic \in [Mains -> Messages \cup {None}] /\ calls \subseteq CallType
  /\ \A i \in Issues : RecordOK(i)
  /\ \A c \in calls : CallOK(c)
  /\ OneInside /\ \A c \in calls : Inside(c) => HoldsOK(c)
  /\ FamilyTopic

\* What the pieces of the proof take from the invariant, and where the step leads.
Moving ==
  /\ IInv /\ Grows
  /\ Cardinality(Pressed) \in Nat /\ Cardinality(Pressed') \in Nat
  /\ Cardinality(Pressed) <= Cardinality(Pressed')

\* A record is none or has a card, and its type.
LEMMA Records ==
  ASSUME IInv, NEW i \in Issues
  PROVE  /\ item[i] \in ItemType /\ item[i].version \in Nat
         /\ item[i].message # None => Has(item[i].message, i) /\ i[1] \in spent
         /\ item[i].message = None <=> item[i] = Blank
BY DEF IInv, TypeOK, ItemType, RecordOK, Blank

LEMMA CallsOfType ==
  ASSUME IInv, NEW c \in calls
  PROVE  /\ c \in CallType /\ CallOK(c) /\ c.issue \in Issues /\ c.issue[1] \in spent
         /\ c.copy \in ItemType /\ c.copy.version \in Nat
BY DEF IInv, TypeOK, CallType, ItemType, CallOK

\* Outside the lock records keep their message and topic, and topics change
\* only with their families gone.
LEMMA Outside ==
  ASSUME Moving, item' \in [Issues -> ItemType], topic' \in [Mains -> Messages \cup {None}],
         \A i \in Issues : \/ item'[i] = item[i] \/ item'[i] = Blank
                           \/ /\ item[i].message # None
                              /\ item'[i].message = item[i].message /\ item'[i].topic = item[i].topic
                              /\ item'[i].version <= Cardinality(Pressed'),
         \A i \in Issues : Root(i) \in DOMAIN issue' => topic'[Root(i)] = topic[Root(i)],
         \A d \in calls' : d \in calls \/ (d \in CallType /\ CallOK(d)' /\ ~Inside(d))
  PROVE  ClientOK'
<1>1. IInv /\ Grows /\ calls' \subseteq CallType
  BY DEF Moving, IInv, TypeOK
<1>2. ASSUME NEW i \in Issues PROVE RecordOK(i)'
  <2>1. CASE item'[i] = item[i]
    BY <2>1, RecordKept DEF Moving
  <2>2. CASE item'[i] = Blank
    BY <2>2 DEF Moving, RecordOK, Blank
  <2>3. CASE /\ item[i].message # None /\ item'[i].message = item[i].message
             /\ item'[i].version <= Cardinality(Pressed')
    <3>1. PICK m \in Messages : m = item[i].message /\ Has(m, i)
      BY <1>1, <2>3, Records DEF Has
    <3>2. Has(m, i)' /\ i[1] \in spent' /\ m # None
      BY <1>1, <2>3, <3>1, Records DEF Grows
    <3> QED BY <2>3, <3>1, <3>2 DEF RecordOK
  <2> QED BY <2>1, <2>2, <2>3
<1>3. \A d \in calls' : CallOK(d)'
  BY CallKept DEF Moving
<1>4. OneInside'
  BY <1>1 DEF IInv, OneInside, Inside
<1>5. ASSUME NEW d \in calls', Inside(d) PROVE HoldsOK(d)'
  <2>1. d \in calls /\ d.issue \in Issues
    BY <1>1, <1>5, CallsOfType
  <2>2. item[d.issue] = Blank => item'[d.issue] = Blank
    BY <1>1, <2>1, Records
  <2> QED BY <1>1, <1>5, <2>1, <2>2, HoldsKept
<1>6. ASSUME NEW i \in Issues, Root(i) \in DOMAIN issue', item'[i].message # None
      PROVE  topic'[Root(i)] # None /\ item'[i].topic = topic'[Root(i)]
  <2>1. item[i].message # None /\ item'[i].topic = item[i].topic
    BY <1>6 DEF Blank
  <2>2. Root(i) \in DOMAIN issue
    BY <1>1, <1>6, <2>1, Records, RootStays
  <2> QED BY <1>1, <1>6, <2>1, <2>2 DEF IInv, FamilyTopic
<1>7. FamilyTopic'
  BY <1>6 DEF FamilyTopic
<1> QED BY <1>1, <1>2, <1>3, <1>4, <1>5, <1>7 DEF ClientOK

\* A call is begun, goes on or ends outside the lock, and no record changes.
LEMMA OutsideCall ==
  ASSUME Moving, UNCHANGED <<item, topic>>,
         \A d \in calls' : d \in calls \/ (d \in CallType /\ CallOK(d)' /\ ~Inside(d))
  PROVE  ClientOK'
BY Outside DEF Moving, IInv, TypeOK

\* A call that has only begun.
LEMMA NewCall ==
  ASSUME Moving, NEW i \in Issues, i[1] \in spent, NEW op \in JobOps \cup {"timeline", "card"},
         NEW pc \in {"lock", "copy", "queue"}
  PROVE  LET d == Call(op, i, pc) IN
         /\ d \in CallType /\ d.op = op /\ d.issue = i /\ d.pc = pc /\ CallOK(d)' /\ ~Inside(d)
         /\ \A v \in Nat : LET e == [d EXCEPT !.version = v] IN
              e \in CallType /\ CallOK(e)' /\ ~Inside(e)
         /\ \A s \in Core!Status : LET e == [d EXCEPT !.status = s] IN
              e \in CallType /\ CallOK(e)' /\ ~Inside(e)
<1> DEFINE d == Call(op, i, pc)
<1>1. Blank \in ItemType /\ Blank.message = None /\ Blank.version = 0
  BY DEF Blank, ItemType
<1>2. /\ d \in CallType /\ d.op = op /\ d.issue = i /\ d.pc = pc /\ d.copy = Blank
      /\ \A v \in Nat : LET e == [d EXCEPT !.version = v] IN
           e \in CallType /\ e.op = op /\ e.issue = i /\ e.pc = pc /\ e.copy = Blank
      /\ \A s \in Core!Status : LET e == [d EXCEPT !.status = s] IN
           e \in CallType /\ e.op = op /\ e.issue = i /\ e.pc = pc /\ e.copy = Blank
  BY <1>1 DEF CallType, Call, JobOps
<1>3. ASSUME NEW e, e.op = op, e.issue = i, e.pc = pc, e.copy = Blank
      PROVE  CallOK(e)' /\ ~Inside(e)
  BY <1>1, <1>3 DEF CallOK, Inside, Locked, Moving, Grows, JobOps
<1> HIDE DEF d
<1> QED BY <1>2, <1>3 DEF d

\* A call goes on to its next step, with the copy it had.
LEMMA CallAdvances ==
  ASSUME Moving, NEW c \in calls, c.op # "forget",
         NEW pc \in {"copy", "store", "mark", "import"}
  PROVE  LET d == [c EXCEPT !.pc = pc] IN
         d \in CallType /\ CallOK(d)' /\ ~Inside(d)
<1> DEFINE d == [c EXCEPT !.pc = pc]
<1>1. IInv /\ c \in CallType
  BY CallsOfType DEF Moving
<1>2. /\ d \in CallType /\ d.op = c.op /\ d.issue = c.issue /\ d.pc = pc /\ d.copy = c.copy
      /\ d.targets = c.targets
  BY <1>1 DEF CallType
<1>3. CallOK(c)'
  BY CallKept DEF Moving
<1> HIDE DEF d
<1>4. CallOK(d)' /\ ~Inside(d)
  BY <1>2, <1>3 DEF CallOK, Inside, Locked
<1> QED BY <1>2, <1>4 DEF d

\* A call copies the record it is about, as it is.
LEMMA CallCopies ==
  ASSUME Moving, NEW c \in calls, c.op # "forget", NEW pc \in {"update", "store", "mark"},
         item[c.issue].message = None => pc # "update",
         NEW d, d = [c EXCEPT !.copy = item[c.issue], !.pc = pc]
  PROVE  d \in CallType /\ CallOK(d)' /\ ~Inside(d)
<1> DEFINE i == c.issue
<1>1. IInv /\ c \in CallType /\ i \in Issues /\ i[1] \in spent /\ item[i] \in ItemType
  BY CallsOfType, Records DEF Moving
<1>2. d \in CallType /\ d.op = c.op /\ d.issue = i /\ d.pc = pc /\ d.copy = item[i]
  BY <1>1 DEF CallType
<1>3. d.copy.version <= Cardinality(Pressed') /\ i[1] \in spent'
  BY <1>1, <1>2 DEF Moving, Grows, IInv, RecordOK, ItemType
<1>4. ASSUME d.copy.message # None PROVE Has(d.copy.message, d.issue)'
  <2>1. PICK m \in Messages : m = item[i].message /\ Has(m, i)
    BY <1>1, <1>2, <1>4, Records DEF Has
  <2> QED BY <1>1, <1>2, <2>1 DEF Moving, Grows
<1> HIDE DEF i
<1>5. CallOK(d)' /\ ~Inside(d)
  BY <1>2, <1>3, <1>4 DEF CallOK, Inside, Locked
<1> QED BY <1>2, <1>5

\* The calls of the UI and the executor, and the updates of cards, change no record.
LEMMA CallStep ==
  ASSUME Moving, CallMove, UNCHANGED <<item, topic>>
  PROVE  ClientOK'
<1> DEFINE New(d) == d \in CallType /\ CallOK(d)' /\ ~Inside(d)
<1>0. IInv /\ Grows
  BY DEF Moving
<1>1. ASSUME NEW d, New(d), calls' \subseteq calls \cup {d} PROVE ClientOK'
  BY <1>1, OutsideCall
<1>2. ASSUME calls' \subseteq calls PROVE ClientOK'
  BY <1>2, OutsideCall
<1>3. \A c \in calls : c.pc # "store" => c.op # "forget"
  BY <1>0, CallsOfType DEF CallOK
<1>4. \A i \in DOMAIN issue : i \in Issues /\ i[1] \in spent
  BY <1>0 DEF IInv, Rows, Core!TypeOK, Core!Ids, Issues, Named
<1>5. CASE StartJob
  <2> DEFINE job == Head(queue)
  <2>1. queue # << >> /\ queue \in Seq(JobType) /\ \A n \in DOMAIN queue : queue[n].issue[1] \in spent
    BY <1>0, <1>5 DEF StartJob, IInv, TypeOK, Named
  <2>2. job \in JobType /\ job.issue[1] \in spent
    BY <2>1
  <2>3. job.op \in JobOps /\ job.issue \in Issues /\ job.version \in Nat
    BY <2>2 DEF JobType
  <2>4. \/ calls' = calls
        \/ calls' = calls \cup {[Call(job.op, job.issue, "copy") EXCEPT !.version = job.version]}
        \/ /\ job.issue \in DOMAIN issue
           /\ calls' = calls \cup {[Call("handoff", job.issue, "lock") EXCEPT
                                      !.status = issue[job.issue].status]}
    BY <1>5 DEF StartJob
  <2> HIDE DEF job
  <2>5. ASSUME calls' = calls \cup {[Call(job.op, job.issue, "copy") EXCEPT !.version = job.version]}
        PROVE  ClientOK'
    <3> DEFINE op == job.op
               i  == job.issue
               v  == job.version
    <3>1. PICK o \in JobOps, k \in Issues, n \in Nat : o = op /\ k = i /\ n = v /\ k[1] \in spent
      BY <2>2, <2>3
    <3> DEFINE d == [Call(o, k, "copy") EXCEPT !.version = n]
    <3>2. New(d)
      BY <3>1, NewCall
    <3>3. calls' = calls \cup {d}
      BY <2>5, <3>1
    <3> QED BY <1>1, <3>2, <3>3
  <2>6. ASSUME job.issue \in DOMAIN issue,
               calls' = calls \cup {[Call("handoff", job.issue, "lock") EXCEPT
                                      !.status = issue[job.issue].status]}
        PROVE  ClientOK'
    <3>1. issue[job.issue].status \in Core!Status
      BY <1>0, <2>6 DEF IInv, Rows, Core!TypeOK, Core!Ids, Core!Row
    <3>2. PICK k \in Issues, s \in Core!Status :
            k = job.issue /\ s = issue[job.issue].status /\ k[1] \in spent
      BY <2>2, <2>3, <3>1
    <3> DEFINE d == [Call("handoff", k, "lock") EXCEPT !.status = s]
    <3>3. New(d)
      BY <3>2, NewCall DEF JobOps
    <3>4. calls' = calls \cup {d}
      BY <2>6, <3>2
    <3> QED BY <1>1, <3>3, <3>4
  <2> QED BY <1>2, <2>4, <2>5, <2>6
<1>6. CASE Crash
  BY <1>2, <1>6 DEF Crash
<1>7. ASSUME NEW i \in DOMAIN issue, Poll(i) PROVE ClientOK'
  <2>1. PICK pc \in {"queue", "copy"} : calls' = calls \cup {Call("timeline", i, pc)}
    BY <1>7 DEF Poll
  <2>2. New(Call("timeline", i, pc))
    BY <1>4, NewCall
  <2> QED BY <1>1, <2>1, <2>2
<1>8. ASSUME NEW i \in DOMAIN issue, DeleteIssue(i) PROVE ClientOK'
  <2>1. PICK T : T = Core!Targets({i})
    OBVIOUS
  <2> DEFINE d == [Call("forget", i, "store") EXCEPT !.targets = T]
  <2>2. calls' = calls \cup {d} /\ Core!DeleteIssues({i}) /\ spent' = spent
    BY <1>8, <2>1 DEF DeleteIssue
  <2>3. T \subseteq DOMAIN issue /\ DOMAIN issue' = DOMAIN issue \ T
    BY <1>0, <2>1, <2>2, RowsDeleted DEF IInv
  <2>4. T \subseteq Issues /\ Blank \in ItemType /\ Blank.version = 0 /\ Blank.message = None
    BY <1>4, <2>3 DEF Blank, ItemType
  <2>5. /\ d \in CallType /\ d.op = "forget" /\ d.issue = i /\ d.pc = "store" /\ d.copy = Blank
        /\ d.targets = T
    BY <1>4, <2>4 DEF CallType, Call
  <2> HIDE DEF d
  <2>6. \A r \in Roots : Core!Main(r) \in T => Gone(r)'
    <3>1. \A r \in Roots : Core!Main(r)[1] = r
      BY DEF Core!Main
    <3> QED BY <1>4, <2>2, <2>3, <3>1 DEF Gone
  <2>7. CallOK(d)' /\ ~Inside(d)
    BY <1>4, <2>2, <2>4, <2>5, <2>6 DEF CallOK, Inside, Moving
  <2> QED BY <1>1, <2>2, <2>5, <2>7
<1>9. ASSUME NEW c \in calls, QueueAgain(c) \/ MarkDelivered(c) PROVE ClientOK'
  <2>1. c.pc # "store" /\ (calls' \subseteq calls \/ \E pc \in {"copy", "import"} :
                             calls' = (calls \ {c}) \cup {[c EXCEPT !.pc = pc]})
    BY <1>9 DEF QueueAgain, MarkDelivered, Becomes, Ends, In
  <2> QED BY <1>1, <1>2, <1>3, <2>1, CallAdvances
<1>10. ASSUME NEW c \in calls, ImportSolution(c) \/ UpdateFails(c) PROVE ClientOK'
  BY <1>2, <1>10 DEF ImportSolution, UpdateFails, Ends
<1>11. ASSUME NEW c \in calls, UpdateCard(c) PROVE ClientOK'
  <2>1. c.pc = "update" /\ calls' = (calls \ {c}) \cup {[c EXCEPT !.pc = "store"]}
    BY <1>11 DEF UpdateCard, Becomes
  <2> QED BY <1>1, <1>3, <2>1, CallAdvances
<1>12. ASSUME NEW c \in calls, CopyForSync(c) \/ CopyForConfirm(c) \/ CopyForFailure(c)
       PROVE  ClientOK'
  <2>1. /\ c.pc = "copy"
        /\ \/ calls' \subseteq calls
           \/ \E pc \in {"update", "store", "mark"} :
                /\ item[c.issue].message = None => pc # "update"
                /\ calls' = (calls \ {c}) \cup {[c EXCEPT !.copy = item[c.issue], !.pc = pc]}
    BY <1>12 DEF CopyForSync, CopyForConfirm, CopyForFailure, Becomes, Ends, In
  <2>2. ASSUME NEW pc \in {"update", "store", "mark"}, item[c.issue].message = None => pc # "update",
               calls' = (calls \ {c}) \cup {[c EXCEPT !.copy = item[c.issue], !.pc = pc]}
        PROVE  ClientOK'
    <3>1. PICK d : d = [c EXCEPT !.copy = item[c.issue], !.pc = pc]
      OBVIOUS
    <3>2. New(d)
      BY <1>3, <2>1, <2>2, <3>1, CallCopies
    <3> QED BY <1>1, <2>2, <3>1, <3>2
  <2> QED BY <1>2, <2>1, <2>2
<1> QED BY <1>5, <1>6, <1>7, <1>8, <1>9, <1>10, <1>11, <1>12 DEF CallMove

\* What the two locked updates make of a record.
LEMMA RecordFields ==
  ASSUME NEW x \in ItemType
  PROVE  /\ LET y == [x EXCEPT !.card_state = "waiting_verification"] IN
              y \in ItemType /\ y.message = x.message /\ y.topic = x.topic /\ y.version = x.version
         /\ LET y == [x EXCEPT !.handoff = "closed", !.card_state = "closed"] IN
              y \in ItemType /\ y.message = x.message /\ y.topic = x.topic /\ y.version = x.version
         /\ LET y == [x EXCEPT !.handoff = "delivered", !.card_state = "awaiting_engineer"] IN
              y \in ItemType /\ y.message = x.message /\ y.topic = x.topic /\ y.version = x.version
         /\ LET y == [x EXCEPT !.version = @ + 1, !.handoff = "solution_available"] IN
              y \in ItemType /\ y.message = x.message /\ y.topic = x.topic /\ y.version = x.version + 1
         /\ \A h \in Sent : LET y == [x EXCEPT !.handoff = h] IN
              y \in ItemType /\ y.message = x.message /\ y.topic = x.topic /\ y.version = x.version
<1>1. LET y == [x EXCEPT !.card_state = "waiting_verification"] IN
      y \in ItemType /\ y.message = x.message /\ y.topic = x.topic /\ y.version = x.version
  BY DEF ItemType
<1>2. LET y == [x EXCEPT !.handoff = "closed", !.card_state = "closed"] IN
      y \in ItemType /\ y.message = x.message /\ y.topic = x.topic /\ y.version = x.version
  BY DEF ItemType, Sent
<1>3. LET y == [x EXCEPT !.handoff = "delivered", !.card_state = "awaiting_engineer"] IN
      y \in ItemType /\ y.message = x.message /\ y.topic = x.topic /\ y.version = x.version
  BY DEF ItemType, Sent
<1>4. LET y == [x EXCEPT !.version = @ + 1, !.handoff = "solution_available"] IN
      y \in ItemType /\ y.message = x.message /\ y.topic = x.topic /\ y.version = x.version + 1
  <2>1. x.version \in Nat
    BY DEF ItemType
  <2> DEFINE v == x.version + 1
  <2>2. v \in Nat
    BY <2>1
  <2> HIDE DEF v
  <2>3. LET y == [x EXCEPT !.version = v, !.handoff = "solution_available"] IN
        y \in ItemType /\ y.message = x.message /\ y.topic = x.topic /\ y.version = v
    BY <2>2 DEF ItemType, Sent
  <2> QED BY <2>3 DEF v
<1>5. ASSUME NEW h \in Sent
      PROVE  LET y == [x EXCEPT !.handoff = h] IN
             y \in ItemType /\ y.message = x.message /\ y.topic = x.topic /\ y.version = x.version
  BY DEF ItemType
<1> QED BY <1>1, <1>2, <1>3, <1>4, <1>5

\* The second locked section changes a record's state, if there is a record.
LEMMA Updated ==
  ASSUME IInv, NEW c \in calls, StoreUpdate(c)
  PROVE  /\ item' \in [Issues -> ItemType] /\ c.issue \in Issues
         /\ \A i \in Issues \ {c.issue} : item'[i] = item[i]
         /\ item'[c.issue].message = item[c.issue].message /\ item'[c.issue].topic = item[c.issue].topic
         /\ item'[c.issue].version = item[c.issue].version
         /\ item[c.issue] = Blank => item'[c.issue] = Blank
         /\ item'[c.issue].handoff = "closed" => item[c.issue].handoff = "closed" \/ c.op = "confirm"
<1> DEFINE i == c.issue
           y == item'[i]
<1>1. i \in Issues /\ item \in [Issues -> ItemType] /\ item[i] \in ItemType
  BY CallsOfType, Records DEF IInv, TypeOK
<1>2. c.op \in JobOps \cup {"timeline", "card"}
  BY CallsOfType DEF StoreUpdate, CallType
<1>3. PICK x : /\ item' = [item EXCEPT ![i] = x]
               /\ \/ x = item[i]
                  \/ item[i] # Blank /\ x = [item[i] EXCEPT !.card_state = "waiting_verification"]
                  \/ /\ c.op = "confirm" /\ item[i] # Blank
                     /\ x = [item[i] EXCEPT !.handoff = "closed", !.card_state = "closed"]
                  \/ /\ item[i] # Blank
                     /\ x = [item[i] EXCEPT !.handoff = "delivered", !.card_state = "awaiting_engineer"]
  <2>1. item' = [item EXCEPT ![i] =
          IF ~Present(i) THEN @
          ELSE CASE Face(c.op) = "waiting_verification" -> [@ EXCEPT !.card_state = "waiting_verification"]
                 [] Face(c.op) = "closed" -> [@ EXCEPT !.handoff = "closed", !.card_state = "closed"]
                 [] Face(c.op) = "form" -> [@ EXCEPT !.handoff = "delivered",
                                                     !.card_state = "awaiting_engineer"]]
    BY DEF StoreUpdate
  <2>2. /\ Face(c.op) \in {"waiting_verification", "closed", "form"}
        /\ Face(c.op) = "closed" => c.op = "confirm"
    BY <1>2 DEF Face, JobOps
  <2> QED BY <1>1, <2>1, <2>2 DEF Present
<1>4. /\ x \in ItemType /\ x.message = item[i].message /\ x.topic = item[i].topic
      /\ x.version = item[i].version
  <2>1. PICK k \in ItemType : k = item[i]
    BY <1>1
  <2>2. \/ x = k \/ x = [k EXCEPT !.card_state = "waiting_verification"]
        \/ x = [k EXCEPT !.handoff = "closed", !.card_state = "closed"]
        \/ x = [k EXCEPT !.handoff = "delivered", !.card_state = "awaiting_engineer"]
    BY <1>3, <2>1
  <2>3. x \in ItemType /\ x.message = k.message /\ x.topic = k.topic /\ x.version = k.version
    BY <2>2, RecordFields
  <2> QED BY <2>1, <2>3
<1>5. x.handoff = "closed" => item[i].handoff = "closed" \/ c.op = "confirm"
  BY <1>1, <1>3 DEF ItemType
<1>6. item[i] = Blank => x = Blank
  BY <1>3
<1> QED BY <1>1, <1>3, <1>4, <1>5, <1>6

\* A submission is taken for the issue whose card carried it.
LEMMA Taken ==
  ASSUME IInv, NEW p \in Presses, ReceivePress(p)
  PROVE  \/ UNCHANGED <<item, calls>>
         \/ \E i \in Issues, x \in ItemType, d \in CallType :
              /\ item[i].message # None /\ Takes(i) /\ item' = [item EXCEPT ![i] = x]
              /\ x.message = item[i].message /\ x.topic = item[i].topic
              /\ x.version = item[i].version + 1 /\ x.handoff = "solution_available"
              /\ calls' = calls \cup {d}
              /\ d.op = "card" /\ d.issue = i /\ d.pc = "update" /\ d.copy = x
<1>1. SUFFICES ASSUME ~UNCHANGED <<item, calls>>
      PROVE  \E i \in Issues, x \in ItemType, d \in CallType :
               /\ item[i].message # None /\ Takes(i) /\ item' = [item EXCEPT ![i] = x]
               /\ x.message = item[i].message /\ x.topic = item[i].topic
               /\ x.version = item[i].version + 1 /\ x.handoff = "solution_available"
               /\ calls' = calls \cup {d}
               /\ d.op = "card" /\ d.issue = i /\ d.pc = "update" /\ d.copy = x
  OBVIOUS
<1>0. PICK i \in Issues :
        \E x :
          /\ item[i].message = press[p] /\ Takes(i) /\ press[p] \in Messages
          /\ x = [item[i] EXCEPT !.version = @ + 1, !.handoff = "solution_available"]
          /\ item' = [item EXCEPT ![i] = x]
          /\ calls' = calls \cup {[Call("card", i, "update") EXCEPT !.copy = x]}
  BY <1>1 DEF ReceivePress
<1>2. PICK x :
        /\ item[i].message = press[p] /\ Takes(i) /\ press[p] \in Messages
        /\ x = [item[i] EXCEPT !.version = @ + 1, !.handoff = "solution_available"]
        /\ item' = [item EXCEPT ![i] = x]
        /\ calls' = calls \cup {[Call("card", i, "update") EXCEPT !.copy = x]}
  BY <1>0
<1>3. item[i].message # None /\ item[i] \in ItemType
  BY <1>2, DeviceAssumption, Records
<1>4. /\ x \in ItemType /\ x.message = item[i].message /\ x.topic = item[i].topic
      /\ x.version = item[i].version + 1 /\ x.handoff = "solution_available"
  BY <1>2, <1>3, RecordFields DEF ItemType
<1> DEFINE d == [Call("card", i, "update") EXCEPT !.copy = x]
<1>5. x \in ItemType /\ d \in CallType /\ d.op = "card" /\ d.issue = i /\ d.pc = "update" /\ d.copy = x
  BY <1>4 DEF Call, CallType
<1> HIDE DEF d
<1>6. calls' = calls \cup {d}
  BY <1>2 DEF d
<1> USE <1>4, <1>5
<1> WITNESS i \in Issues, x \in ItemType, d \in CallType
<1> QED BY <1>2, <1>3, <1>4, <1>5, <1>6

\* The records outside a handoff: updates, submissions, and what is forgotten.
LEMMA RecordStep ==
  ASSUME Moving, RecordMove
  PROVE  ClientOK'
<1>0. /\ IInv /\ Grows /\ item \in [Issues -> ItemType]
      /\ topic \in [Mains -> Messages \cup {None}]
      /\ \A i \in Issues : item[i].version <= Cardinality(Pressed) /\ item[i].version \in Nat
  BY Records DEF Moving, IInv, TypeOK, RecordOK
<1>1. ASSUME NEW c \in calls, StoreUpdate(c) PROVE ClientOK'
  <2>1. ASSUME NEW d \in calls', d \notin calls PROVE d \in CallType /\ CallOK(d)' /\ ~Inside(d)
    <3>1. d = [c EXCEPT !.pc = "mark"] /\ c.op # "forget"
      BY <1>1, <2>1 DEF StoreUpdate, Becomes, Ends
    <3> QED BY <3>1, CallAdvances
  <2>2. topic' = topic
    BY <1>1 DEF StoreUpdate
  <2>3. /\ item' \in [Issues -> ItemType]
        /\ \A i \in Issues : \/ item'[i] = item[i] \/ item'[i] = Blank
                             \/ /\ item[i].message # None
                                /\ item'[i].message = item[i].message /\ item'[i].topic = item[i].topic
                                /\ item'[i].version <= Cardinality(Pressed')
    <3>1. \A i \in Issues : item[i].message = None => item[i] = Blank
      BY <1>0, Records
    <3>2. \A i \in Issues : item[i].version <= Cardinality(Pressed')
      BY <1>0 DEF Moving
    <3> QED BY <1>0, <1>1, <3>1, <3>2, Updated
  <2> QED BY <1>0, <2>1, <2>2, <2>3, Outside
<1>2. ASSUME NEW c \in calls, ForgetIssues(c) PROVE ClientOK'
  <2>1. /\ item' = [i \in Issues |-> IF i \in c.targets THEN Blank ELSE item[i]]
        /\ topic' = [r \in DOMAIN topic |-> IF r \in c.targets THEN None ELSE topic[r]]
        /\ calls' \subseteq calls /\ c.op = "forget"
    BY <1>2 DEF ForgetIssues, In, Ends
  <2>2. Blank \in ItemType
    BY DEF Blank, ItemType
  <2>3. item' \in [Issues -> ItemType] /\ \A i \in Issues : item'[i] = item[i] \/ item'[i] = Blank
    BY <1>0, <2>1, <2>2
  <2>4. topic' \in [Mains -> Messages \cup {None}]
    BY <1>0, <2>1
  <2>5. ASSUME NEW i \in Issues, Root(i) \in DOMAIN issue' PROVE topic'[Root(i)] = topic[Root(i)]
    <3>1. i[1] \in Roots /\ Root(i) = Core!Main(i[1]) /\ Root(i) \in Mains
      BY RootsOfIssues
    <3>2. Root(i) \notin c.targets
      BY <1>0, <2>1, <2>5, <3>1, CallsOfType DEF CallOK, Gone, Grows
    <3> QED BY <1>0, <2>1, <3>1, <3>2
  <2> QED BY <1>0, <2>1, <2>3, <2>4, <2>5, Outside
<1>3. ASSUME NEW p \in Presses, ReceivePress(p) PROVE ClientOK'
  <2>1. topic' = topic /\ press' = [press EXCEPT ![p] = Heard] /\ press[p] \in Messages
    BY <1>3 DEF ReceivePress
  <2>2. CASE UNCHANGED <<item, calls>>
    BY <2>1, <2>2, OutsideCall
  <2>3. ASSUME NEW i \in Issues, NEW x \in ItemType, NEW d \in CallType,
               item[i].message # None, item' = [item EXCEPT ![i] = x],
               x.message = item[i].message, x.topic = item[i].topic, x.version = item[i].version + 1,
               calls' = calls \cup {d},
               d.op = "card", d.issue = i, d.pc = "update", d.copy = x
        PROVE  ClientOK'
    <3>1. x.version <= Cardinality(Pressed')
      <4>1. IsFiniteSet(Pressed) /\ Cardinality(Pressed) \in Nat
        BY PressedIsFinite
      <4>2. Pressed' = Pressed \cup {p} /\ p \notin Pressed
        BY <1>0, <2>1, DeviceAssumption DEF Pressed, IInv, TypeOK, Messages, Heard
      <4>3. Cardinality(Pressed') = Cardinality(Pressed) + 1
        BY <4>1, <4>2, FS_AddElement
      <4> QED BY <1>0, <2>3, <4>1, <4>3
    <3>2. CallOK(d)' /\ ~Inside(d)
      <4>1. PICK m \in Messages : m = x.message /\ Has(m, i) /\ i[1] \in spent
        BY <1>0, <2>3, Records DEF Has
      <4>2. Has(m, i)' /\ i[1] \in spent'
        BY <1>0, <4>1 DEF Grows
      <4> QED BY <2>3, <3>1, <4>1, <4>2 DEF CallOK, Inside
    <3> QED BY <1>0, <2>1, <2>3, <3>1, <3>2, Outside
  <2> QED BY <1>0, <1>3, <2>2, <2>3, Taken
<1> QED BY <1>1, <1>2, <1>3 DEF RecordMove

-----------------------------------------------------------------------------
(* _handoff. *)

\* The handoff inside the lock goes on, or one enters as none is inside.
LEMMA InsideStep ==
  ASSUME Moving, NEW c \in calls, Inside(c) \/ \A e \in calls : ~Inside(e),
         NEW d \in CallType, calls' = (calls \ {c}) \cup {d}, d.issue = c.issue,
         item' \in [Issues -> ItemType], topic' \in [Mains -> Messages \cup {None}],
         \A i \in Issues \ {c.issue} : item'[i] = item[i],
         item'[c.issue] = item[c.issue] \/ RecordOK(c.issue)',
         CallOK(d)', Inside(d) => HoldsOK(d)', FamilyTopic'
  PROVE  ClientOK'
<1>1. IInv /\ Grows /\ calls' \subseteq CallType
  BY DEF Moving, IInv, TypeOK
<1>2. \A i \in Issues : RecordOK(i)'
  BY <1>1, RecordKept DEF Moving
<1>3. \A e \in calls' : CallOK(e)'
  BY CallKept DEF Moving
<1>4. \A e \in calls \ {c} : ~Inside(e)
  BY <1>1 DEF IInv, OneInside
<1>5. OneInside' /\ \A e \in calls' : Inside(e) => HoldsOK(e)'
  <2>1. \A e \in calls' : Inside(e) => e = d
    BY <1>4
  <2> QED BY <2>1 DEF OneInside, Inside
<1> QED BY <1>1, <1>2, <1>3, <1>5 DEF ClientOK

\* What a call inside the lock needs besides its type.
LEMMA CallInside ==
  ASSUME Moving, NEW c \in calls, c.op = "handoff", NEW d, d.op = "handoff", d.issue = c.issue,
         d.copy.version <= Cardinality(Pressed'),
         d.copy.message # None => Has(d.copy.message, c.issue)',
         d.pc # "update"
  PROVE  CallOK(d)'
<1>1. c.issue[1] \in spent /\ spent \subseteq spent'
  BY CallsOfType DEF Moving, Grows
<1> QED BY <1>1 DEF CallOK

\* Records and topics that stay as they are agree still.
LEMMA TopicsKept ==
  ASSUME Moving, UNCHANGED item,
         \A i \in Issues : Root(i) \in DOMAIN issue' => topic'[Root(i)] = topic[Root(i)]
  PROVE  FamilyTopic'
<1>1. IInv /\ Grows
  BY DEF Moving
<1>2. ASSUME NEW i \in Issues, Root(i) \in DOMAIN issue', item'[i].message # None
      PROVE  topic'[Root(i)] # None /\ item'[i].topic = topic'[Root(i)]
  <2>1. item[i].message # None /\ Root(i) \in DOMAIN issue
    BY <1>1, <1>2, Records, RootStays
  <2> QED BY <1>1, <1>2, <2>1 DEF IInv, FamilyTopic
<1> QED BY <1>2 DEF FamilyTopic

\* What the handoff knows of its family: the topics as they are, if it is there.
LEMMA HoldsNow ==
  ASSUME Moving, NEW c \in calls, c.op = "handoff", c.pc \in Locked
  PROVE  /\ Inside(c) /\ HoldsOK(c) /\ c \in CallType /\ CallOK(c)' /\ c.issue \in Issues
         /\ c.issue[1] \in spent' /\ Root(c.issue) \in Mains /\ c.copy \in ItemType
         /\ c.copy.version <= Cardinality(Pressed')
         /\ c.topic \in Messages \cup {None}
         /\ Root(c.issue) \in DOMAIN issue' => Root(c.issue) \in DOMAIN issue
<1>1. IInv /\ Grows /\ Inside(c)
  BY DEF Moving, Inside
<1>2. HoldsOK(c) /\ c \in CallType /\ c.issue \in Issues /\ c.issue[1] \in spent /\ c.copy \in ItemType
      /\ c.topic \in Messages \cup {None}
  BY <1>1, CallsOfType DEF IInv, CallType
<1>3. CallOK(c)'
  BY CallKept DEF Moving
<1>4. Root(c.issue) \in Mains /\ (Root(c.issue) \in DOMAIN issue' => Root(c.issue) \in DOMAIN issue)
  BY <1>1, <1>2, RootsOfIssues, RootStays
<1> QED BY <1>1, <1>2, <1>3, <1>4 DEF CallOK

LEMMA HandoffCopies ==
  ASSUME Moving, NEW c \in calls, CopyForHandoff(c)
  PROVE  ClientOK'
<1> DEFINE i == c.issue
           r == Root(c.issue)
<1>1. /\ c.op = "handoff" /\ UNCHANGED <<item, topic>> /\ \A e \in calls : ~Inside(e)
      /\ IInv /\ Grows
  BY DEF CopyForHandoff, In, Inside, Moving
<1>2. PICK d : /\ d = [c EXCEPT !.pc = IF item[i].message = None THEN "send" ELSE "connect",
                                !.copy = item[i],
                                !.topic = IF topic[r] # None THEN topic[r] ELSE item[i].topic]
               /\ calls' = (calls \ {c}) \cup {d}
  BY DEF CopyForHandoff, Becomes
<1>3. /\ c \in CallType /\ i \in Issues /\ item[i] \in ItemType /\ r \in Mains /\ i[1] \in spent
      /\ topic \in [Mains -> Messages \cup {None}] /\ item \in [Issues -> ItemType]
  BY <1>1, CallsOfType, Records, RootsOfIssues DEF IInv, TypeOK
<1>4. /\ d \in CallType /\ d.op = "handoff" /\ d.issue = i /\ d.copy = item[i]
      /\ d.pc = (IF item[i].message = None THEN "send" ELSE "connect")
      /\ d.topic = IF topic[r] # None THEN topic[r] ELSE item[i].topic
  <2>1. (IF topic[r] # None THEN topic[r] ELSE item[i].topic) \in Messages \cup {None}
    BY <1>3 DEF ItemType
  <2>2. (IF item[i].message = None THEN "send" ELSE "connect") \in Locked
    BY DEF Locked
  <2> QED BY <1>1, <1>2, <1>3, <2>1, <2>2 DEF CallType
<1>5. CallOK(d)'
  <2>1. d.copy.message # None => Has(d.copy.message, c.issue)'
    <3>1. SUFFICES ASSUME item[i].message # None PROVE Has(d.copy.message, c.issue)'
      BY <1>4
    <3>2. PICK m \in Messages : m = item[i].message /\ Has(m, i)
      BY <1>1, <1>3, <3>1, Records DEF Has
    <3> QED BY <1>1, <1>3, <1>4, <3>2 DEF Grows
  <2>2. d.copy.version <= Cardinality(Pressed') /\ d.pc # "update"
    BY <1>3, <1>4 DEF Moving, IInv, RecordOK, ItemType
  <2> HIDE DEF i
  <2> QED BY <1>1, <1>4, <2>1, <2>2, CallInside DEF i
<1>6. HoldsOK(d)'
  <2>1. item[i].message = None <=> item[i] = Blank
    BY <1>1, <1>3, Records
  <2>2. r \in DOMAIN issue' => r \in DOMAIN issue
    BY <1>1, <1>3, RootStays
  <2>3. r \in DOMAIN issue /\ item[i].message # None => topic[r] # None /\ item[i].topic = topic[r]
    BY <1>1, <1>3 DEF IInv, FamilyTopic
  <2>4. CASE item[i].message = None
    BY <1>1, <1>4, <2>1, <2>4 DEF HoldsOK, Blank
  <2>5. CASE item[i].message # None
    BY <1>1, <1>4, <2>2, <2>3, <2>5 DEF HoldsOK
  <2> QED BY <2>4, <2>5
<1>7. FamilyTopic'
  BY <1>1, TopicsKept
<1> QED BY <1>1, <1>2, <1>3, <1>4, <1>5, <1>6, <1>7, InsideStep

LEMMA HandoffSends ==
  ASSUME Moving, NEW c \in calls, SendCard(c)
  PROVE  ClientOK'
<1> DEFINE i == c.issue
           r == Root(c.issue)
<1>1. /\ c.op = "handoff" /\ c.pc = "send" /\ UNCHANGED <<item, topic>> /\ IInv /\ Grows
  BY DEF SendCard, In, Moving
<1>2. PICK m \in Messages :
        /\ Posts(i, c.topic, m)
        /\ calls' = (calls \ {c}) \cup {[c EXCEPT !.pc = "sent", !.topic = IF @ = None THEN m ELSE @,
                                                  !.copy.message = m]}
  BY DEF SendCard, Becomes
<1> DEFINE d == [c EXCEPT !.pc = "sent", !.topic = IF @ = None THEN m ELSE @, !.copy.message = m]
<1>3. /\ Inside(c) /\ HoldsOK(c) /\ c \in CallType /\ i \in Issues /\ r \in Mains /\ c.copy \in ItemType
      /\ c.topic \in Messages \cup {None} /\ (r \in DOMAIN issue' => r \in DOMAIN issue)
      /\ c.copy.version <= Cardinality(Pressed') /\ c.issue[1] \in spent
  BY <1>1, HoldsNow, CallsOfType DEF Locked
<1>4. /\ d \in CallType /\ d.op = "handoff" /\ d.issue = i /\ d.pc = "sent"
      /\ d.topic = (IF c.topic = None THEN m ELSE c.topic)
      /\ d.copy.message = m /\ d.copy.version = c.copy.version
  <2>1. [c.copy EXCEPT !.message = m] \in ItemType
    BY <1>3 DEF ItemType
  <2>2. (IF c.topic = None THEN m ELSE c.topic) \in Messages \cup {None}
    BY <1>3
  <2>3. d = [c EXCEPT !.pc = "sent", !.topic = IF c.topic = None THEN m ELSE c.topic,
                      !.copy = [c.copy EXCEPT !.message = m]]
    BY <1>3 DEF CallType
  <2>4. [c.copy EXCEPT !.message = m].message = m
        /\ [c.copy EXCEPT !.message = m].version = c.copy.version
    BY <1>3 DEF ItemType
  <2> QED BY <1>1, <1>3, <2>1, <2>2, <2>3, <2>4 DEF CallType, Locked
<1> HIDE DEF d
<1>5. m # None /\ Has(m, i)'
  BY <1>1, <1>2, <1>3, Posted, DeviceAssumption
<1>6. CallOK(d)'
  BY <1>1, <1>3, <1>4, <1>5, CallInside
<1>7. HoldsOK(d)'
  <2>1. item[i] = Blank /\ c.copy.version = 0
    BY <1>1, <1>3 DEF HoldsOK, Blank
  <2>2. r \in DOMAIN issue => c.topic = topic[r]
    BY <1>1, <1>3 DEF HoldsOK
  <2>3. d.copy.version = 0 /\ d.topic # None /\ (r \in DOMAIN issue' => topic[r] \in {None, d.topic})
    BY <1>3, <1>4, <1>5, <2>1, <2>2
  <2> QED BY <1>1, <1>4, <1>5, <2>1, <2>3 DEF HoldsOK
<1>8. FamilyTopic'
  BY <1>1, TopicsKept
<1>9. calls' = (calls \ {c}) \cup {d}
  BY <1>2 DEF d
<1>10. item \in [Issues -> ItemType] /\ topic \in [Mains -> Messages \cup {None}]
  BY <1>1 DEF IInv, TypeOK
<1> QED BY <1>1, <1>3, <1>4, <1>6, <1>7, <1>8, <1>9, <1>10, InsideStep

\* The card is recorded: its family's other cards hang off the same topic.
LEMMA HandoffStores ==
  ASSUME Moving, NEW c \in calls, StoreCard(c)
  PROVE  ClientOK'
<1> DEFINE i == c.issue
           r == Root(c.issue)
<1>1. c.op = "handoff" /\ c.pc = "sent" /\ IInv /\ Grows
  BY DEF StoreCard, In, Moving
<1> DEFINE new == [c.copy EXCEPT !.handoff = "delivering", !.topic = c.topic,
                                 !.card_state = "awaiting_engineer"]
           d == [c EXCEPT !.pc = "connect", !.copy = new]
<1>2. /\ item' = [item EXCEPT ![i] = new] /\ topic' = [topic EXCEPT ![r] = c.topic]
      /\ calls' = (calls \ {c}) \cup {d}
  BY DEF StoreCard, Becomes
<1>3. /\ Inside(c) /\ HoldsOK(c) /\ c \in CallType /\ CallOK(c)' /\ i \in Issues /\ r \in Mains
      /\ c.copy \in ItemType /\ c.topic \in Messages \cup {None} /\ i[1] \in spent'
      /\ (r \in DOMAIN issue' => r \in DOMAIN issue) /\ c.copy.version <= Cardinality(Pressed')
  BY <1>1, HoldsNow DEF Locked
<1>4. /\ c.copy.message # None /\ c.topic # None /\ Has(c.copy.message, i)'
      /\ r \in DOMAIN issue => topic[r] \in {None, c.topic}
  BY <1>1, <1>3 DEF HoldsOK, CallOK
<1>5. /\ new \in ItemType /\ new.message = c.copy.message /\ new.topic = c.topic
      /\ new.version = c.copy.version
  BY <1>3 DEF ItemType, Sent
<1> HIDE DEF new
<1>6. /\ d \in CallType /\ d.op = "handoff" /\ d.issue = i /\ d.pc = "connect"
      /\ d.topic = c.topic /\ d.copy = new
  BY <1>1, <1>3, <1>5 DEF CallType, Locked
<1> HIDE DEF d
<1>7. /\ item \in [Issues -> ItemType] /\ topic \in [Mains -> Messages \cup {None}]
  BY <1>1 DEF IInv, TypeOK
<1>8. /\ item' \in [Issues -> ItemType] /\ topic' \in [Mains -> Messages \cup {None}]
      /\ item'[i] = new /\ topic'[r] = c.topic
      /\ \A j \in Issues \ {i} : item'[j] = item[j]
      /\ \A q \in Mains \ {r} : topic'[q] = topic[q]
  BY <1>2, <1>3, <1>5, <1>7
<1>9. CallOK(d)'
  BY <1>1, <1>3, <1>4, <1>5, <1>6, CallInside
<1>10. RecordOK(i)'
  BY <1>3, <1>4, <1>5, <1>8 DEF RecordOK
<1>11. HoldsOK(d)'
  BY <1>4, <1>5, <1>6, <1>8 DEF HoldsOK
<1>12. ASSUME NEW j \in Issues, Root(j) \in DOMAIN issue', item'[j].message # None
       PROVE  topic'[Root(j)] # None /\ item'[j].topic = topic'[Root(j)]
  <2>1. CASE j = i
    BY <1>4, <1>5, <1>8, <2>1
  <2>2. CASE j # i
    <3>1. item[j].message # None /\ item'[j] = item[j] /\ Root(j) \in Mains
      BY <1>8, <1>12, <2>2, RootsOfIssues
    <3>2. Root(j) \in DOMAIN issue
      BY <1>1, <1>12, <3>1, Records, RootStays
    <3>3. topic[Root(j)] # None /\ item[j].topic = topic[Root(j)]
      BY <1>1, <3>1, <3>2 DEF IInv, FamilyTopic
    <3> QED BY <1>4, <1>8, <3>1, <3>2, <3>3
  <2> QED BY <2>1, <2>2
<1>13. FamilyTopic'
  BY <1>12 DEF FamilyTopic
<1> QED BY <1>2, <1>3, <1>6, <1>8, <1>9, <1>10, <1>11, <1>13, InsideStep

\* A card sent before: its family, if it is there, has a topic already.
LEMMA HandoffConnects ==
  ASSUME Moving, NEW c \in calls, CompleteTopic(c)
  PROVE  ClientOK'
<1> DEFINE i == c.issue
           r == Root(c.issue)
<1>1. c.op = "handoff" /\ c.pc = "connect" /\ IInv /\ Grows /\ UNCHANGED item
  BY DEF CompleteTopic, In, Moving
<1> DEFINE top == IF c.topic = None THEN c.copy.message ELSE c.topic
           d == [c EXCEPT !.pc = IF c.copy.evidence THEN "finish" ELSE "evidence",
                          !.topic = top, !.copy.topic = top]
<1>2. /\ topic' = [topic EXCEPT ![r] = IF @ = None THEN top ELSE @]
      /\ calls' = (calls \ {c}) \cup {d}
  BY DEF CompleteTopic, Becomes
<1>3. /\ Inside(c) /\ HoldsOK(c) /\ c \in CallType /\ CallOK(c)' /\ i \in Issues /\ r \in Mains
      /\ c.copy \in ItemType /\ c.topic \in Messages \cup {None}
      /\ (r \in DOMAIN issue' => r \in DOMAIN issue) /\ c.copy.version <= Cardinality(Pressed')
  BY <1>1, HoldsNow DEF Locked
<1>4. /\ c.copy.message # None /\ Has(c.copy.message, i)'
      /\ r \in DOMAIN issue => topic[r] # None /\ c.topic = topic[r]
  BY <1>1, <1>3 DEF HoldsOK, CallOK
<1>5. top \in Messages \cup {None} /\ (c.topic # None => top = c.topic)
  BY <1>3 DEF ItemType
<1> HIDE DEF top
<1>6. /\ d \in CallType /\ d.op = "handoff" /\ d.issue = i /\ d.pc \in {"finish", "evidence"}
      /\ d.topic = top /\ d.copy.topic = top
      /\ d.copy.message = c.copy.message /\ d.copy.version = c.copy.version
  <2> DEFINE x == [c.copy EXCEPT !.topic = top]
             pc == IF c.copy.evidence THEN "finish" ELSE "evidence"
  <2>1. x \in ItemType /\ x.topic = top /\ x.message = c.copy.message /\ x.version = c.copy.version
    BY <1>3, <1>5 DEF ItemType
  <2>2. pc \in {"finish", "evidence"}
    OBVIOUS
  <2>3. d = [c EXCEPT !.pc = pc, !.topic = top, !.copy = x]
    BY <1>3 DEF CallType
  <2> HIDE DEF x, pc, d
  <2> QED BY <1>1, <1>3, <1>5, <2>1, <2>2, <2>3 DEF CallType, Locked
<1> HIDE DEF d
<1>7. item \in [Issues -> ItemType] /\ topic \in [Mains -> Messages \cup {None}]
  BY <1>1 DEF IInv, TypeOK
<1>8. /\ topic' \in [Mains -> Messages \cup {None}]
      /\ topic[r] # None => topic' = topic
  BY <1>2, <1>3, <1>5, <1>7
<1>9. CallOK(d)'
  BY <1>1, <1>3, <1>4, <1>6, CallInside
<1>10. HoldsOK(d)'
  BY <1>3, <1>4, <1>5, <1>6, <1>8 DEF HoldsOK
<1>11. \A j \in Issues : Root(j) \in DOMAIN issue' => topic'[Root(j)] = topic[Root(j)]
  <2>1. SUFFICES ASSUME NEW j \in Issues, Root(j) \in DOMAIN issue' PROVE topic'[Root(j)] = topic[Root(j)]
    OBVIOUS
  <2>2. Root(j) \in Mains
    BY RootsOfIssues
  <2>3. CASE Root(j) = r
    BY <1>3, <1>4, <1>8, <2>1, <2>3
  <2>4. CASE Root(j) # r
    BY <1>2, <1>7, <2>2, <2>4
  <2> QED BY <2>3, <2>4
<1>12. FamilyTopic'
  BY <1>1, <1>11, TopicsKept
<1> QED BY <1>1, <1>2, <1>3, <1>6, <1>7, <1>8, <1>9, <1>10, <1>12, InsideStep

LEMMA EvidenceFollows ==
  ASSUME Moving, NEW c \in calls, SendEvidence(c)
  PROVE  ClientOK'
<1>1. c.op = "handoff" /\ c.pc = "evidence" /\ IInv /\ Grows /\ UNCHANGED <<item, topic>>
  BY DEF SendEvidence, In, Moving
<1> DEFINE d == [c EXCEPT !.pc = "finish", !.copy.evidence = TRUE]
<1>2. calls' = (calls \ {c}) \cup {d}
  BY DEF SendEvidence, Becomes
<1>3. /\ Inside(c) /\ HoldsOK(c) /\ c \in CallType /\ CallOK(c)' /\ c.copy \in ItemType
      /\ (Root(c.issue) \in DOMAIN issue' => Root(c.issue) \in DOMAIN issue)
  BY <1>1, HoldsNow DEF Locked
<1>4. /\ d \in CallType /\ d.op = "handoff" /\ d.issue = c.issue /\ d.pc = "finish"
      /\ d.topic = c.topic /\ d.copy.topic = c.copy.topic
      /\ d.copy.message = c.copy.message /\ d.copy.version = c.copy.version
  <2> DEFINE x == [c.copy EXCEPT !.evidence = TRUE]
  <2>1. /\ x \in ItemType /\ x.topic = c.copy.topic /\ x.message = c.copy.message
        /\ x.version = c.copy.version
    BY <1>3 DEF ItemType
  <2>2. d = [c EXCEPT !.pc = "finish", !.copy = x]
    BY <1>3 DEF CallType
  <2> HIDE DEF x, d
  <2> QED BY <1>1, <1>3, <2>1, <2>2 DEF CallType, Locked
<1> HIDE DEF d
<1>5. item \in [Issues -> ItemType] /\ topic \in [Mains -> Messages \cup {None}]
  BY <1>1 DEF IInv, TypeOK
<1>6. CallOK(d)'
  BY <1>1, <1>3, <1>4, CallInside DEF CallOK
<1>7. HoldsOK(d)'
  BY <1>1, <1>3, <1>4 DEF HoldsOK
<1>8. FamilyTopic'
  BY <1>1, TopicsKept
<1> QED BY <1>1, <1>2, <1>3, <1>4, <1>5, <1>6, <1>7, <1>8, InsideStep

\* The handoff's copy replaces the record, with the card and topic it names.
LEMMA HandoffFinishes ==
  ASSUME Moving, NEW c \in calls, FinishHandoff(c)
  PROVE  ClientOK'
<1> DEFINE i == c.issue
           r == Root(c.issue)
           new == Concluded(c.copy, c.status)
           d == Call("handoff", c.issue, "copy")
<1>1. /\ c.op = "handoff" /\ c.pc = "finish" /\ IInv /\ Grows /\ topic' = topic
      /\ item' = [item EXCEPT ![i] = new] /\ calls' = (calls \ {c}) \cup {d}
  BY DEF FinishHandoff, In, Becomes, Moving
<1>2. /\ Inside(c) /\ HoldsOK(c) /\ CallOK(c)' /\ i \in Issues /\ c.copy \in ItemType /\ i[1] \in spent'
      /\ (r \in DOMAIN issue' => r \in DOMAIN issue) /\ c.copy.version <= Cardinality(Pressed')
      /\ i[1] \in spent
  BY <1>1, HoldsNow, CallsOfType DEF Locked
<1>3. /\ c.copy.message # None /\ Has(c.copy.message, i)'
      /\ r \in DOMAIN issue => topic[r] # None /\ c.copy.topic = topic[r]
  BY <1>1, <1>2 DEF HoldsOK, CallOK
<1>4. /\ new \in ItemType /\ new.message = c.copy.message /\ new.topic = c.copy.topic
      /\ new.version = c.copy.version
  <2>1. new = c.copy \/ \E h \in {"solution_available", "delivered"} : new = [c.copy EXCEPT !.handoff = h]
    BY DEF Concluded
  <2>2. ASSUME NEW h \in {"solution_available", "delivered"}
        PROVE  LET y == [c.copy EXCEPT !.handoff = h] IN
               /\ y \in ItemType /\ y.message = c.copy.message /\ y.topic = c.copy.topic
               /\ y.version = c.copy.version
    <3>1. PICK k \in ItemType : k = c.copy
      BY <1>2
    <3>2. h \in Sent
      BY <2>2 DEF Sent
    <3> QED BY <3>1, <3>2, RecordFields
  <2> HIDE DEF new
  <2> QED BY <1>2, <2>1, <2>2
<1>5. d \in CallType /\ d.op = "handoff" /\ d.issue = i /\ CallOK(d)' /\ ~Inside(d)
  BY <1>2, NewCall DEF JobOps
<1> HIDE DEF new, d
<1>6. /\ item' \in [Issues -> ItemType] /\ topic' \in [Mains -> Messages \cup {None}]
      /\ item'[i] = new /\ \A j \in Issues \ {i} : item'[j] = item[j]
  BY <1>1, <1>2, <1>4 DEF IInv, TypeOK
<1>7. RecordOK(i)'
  BY <1>2, <1>3, <1>4, <1>6 DEF RecordOK
<1>8. ASSUME NEW j \in Issues, Root(j) \in DOMAIN issue', item'[j].message # None
      PROVE  topic'[Root(j)] # None /\ item'[j].topic = topic'[Root(j)]
  <2>1. CASE j = i
    BY <1>1, <1>2, <1>3, <1>4, <1>6, <1>8, <2>1
  <2>2. CASE j # i
    <3>1. item[j].message # None /\ item'[j] = item[j]
      BY <1>6, <1>8, <2>2
    <3>2. Root(j) \in DOMAIN issue
      BY <1>1, <1>8, <3>1, Records, RootStays
    <3> QED BY <1>1, <3>1, <3>2 DEF IInv, FamilyTopic
  <2> QED BY <2>1, <2>2
<1>9. FamilyTopic'
  BY <1>8 DEF FamilyTopic
<1> QED BY <1>1, <1>2, <1>5, <1>6, <1>7, <1>9, InsideStep

LEMMA HandoffStep ==
  ASSUME Moving, HandoffMove
  PROVE  ClientOK'
<1>1. ASSUME NEW c \in calls, HandoffFails(c) PROVE ClientOK'
  <2>1. calls' \subseteq calls /\ UNCHANGED <<item, topic>>
    BY <1>1 DEF HandoffFails, Ends
  <2> QED BY <2>1, OutsideCall
<1> QED BY <1>1, HandoffCopies, HandoffSends, HandoffStores, HandoffConnects, EvidenceFollows,
          HandoffFinishes DEF HandoffMove

-----------------------------------------------------------------------------
(* The invariant. *)

LEMMA ClientStep ==
  ASSUME IInv, [Next]_vars
  PROVE  ClientOK'
<1>1. Moving
  BY WorldGrows DEF Moving
<1>2. CASE UNCHANGED <<item, topic, calls>>
  BY <1>1, <1>2, OutsideCall
<1> QED BY <1>1, <1>2, CallStep, RecordStep, HandoffStep, Frames

LEMMA Initially ==
  ASSUME Init
  PROVE  IInv
<1>1. /\ DOMAIN issue = {} /\ DOMAIN session = {} /\ issue \in [{} -> Core!Row] /\ session \in [{} -> {}]
  BY DEF Init, Core!Init
<1>2. Rows
  BY <1>1, FS_EmptySet DEF Rows, Core!TypeOK, Core!FamilyIntact, Core!Ids
<1>3. /\ item = [i \in Issues |-> Blank] /\ topic = [r \in Mains |-> None] /\ calls = {}
      /\ card = [m \in Messages |-> None] /\ press = [p \in Presses |-> Unpressed]
  BY DEF Init, ClientInit
<1>4. Blank \in ItemType /\ Blank.message = None /\ Blank.version = 0
  BY DEF Blank, ItemType
<1>5. MaxMessages \in Nat /\ MaxCrashes \in Nat /\ MaxDeletes \in Nat
  BY DeviceAssumption
<1>6. /\ queue = << >> /\ queue \in Seq(JobType) /\ backoff = {} /\ deleted = {} /\ spent = {}
      /\ retired = {} /\ confirmed = {}
      /\ crashes \in 0..MaxCrashes /\ deletes \in 0..MaxDeletes
  BY <1>5 DEF Init
<1>7. item \in [Issues -> ItemType] /\ topic \in [Mains -> Messages \cup {None}]
  BY <1>3, <1>4
<1>8. card \in [Messages -> CardType \cup {None}] /\ press \in [Presses -> Unpressed..Heard]
  BY <1>3, <1>5 DEF Unpressed, Heard
<1>9. TypeOK
  BY <1>2, <1>3, <1>6, <1>7, <1>8 DEF TypeOK, Rows
<1>10. Cardinality(Pressed) \in Nat
  BY PressedIsFinite
<1>11. \A i \in Issues : RecordOK(i)
  BY <1>3, <1>4, <1>10 DEF RecordOK
<1>12. FamilyTopic
  BY <1>3, <1>4 DEF FamilyTopic
<1>13. \A m \in Messages : CardOK(m)
  BY <1>3 DEF CardOK
<1>14. Named
  BY <1>1, <1>6 DEF Named
<1> QED BY <1>2, <1>3, <1>9, <1>11, <1>12, <1>13, <1>14 DEF IInv, OneInside

LEMMA Inductive ==
  ASSUME IInv, [Next]_vars
  PROVE  IInv'
<1>1. /\ Rows' /\ \A i \in DOMAIN issue' : i[1] \in spent'
      /\ spent' \subseteq Roots /\ retired' \subseteq Issues /\ confirmed' \subseteq Issues
  BY CoreStep, HistoriesGrow
<1>2. /\ card' \in [Messages -> CardType \cup {None}] /\ press' \in [Presses -> Unpressed..Heard]
      /\ \A m \in Messages : CardOK(m)'
  BY FeishuStep
<1>3. ExecutorOK'
  BY ExecutorStep
<1>4. ClientOK'
  BY ClientStep
<1>5. queue' \in Seq(JobType) /\ \A n \in DOMAIN queue' : queue'[n].issue[1] \in spent'
  BY <1>3, QueueNamed DEF ExecutorOK
<1>6. TypeOK'
  BY <1>1, <1>2, <1>3, <1>4, <1>5 DEF TypeOK, Rows, ExecutorOK, ClientOK
<1>7. Named'
  BY <1>1, <1>3, <1>5 DEF Named, ExecutorOK
<1> QED BY <1>1, <1>2, <1>4, <1>6, <1>7 DEF IInv, ClientOK

LEMMA Invariant == Spec => []IInv
<1>1. Init => IInv
  BY Initially
<1>2. IInv /\ [Next]_vars => IInv'
  BY Inductive
<1> QED BY <1>1, <1>2, PTL DEF Spec

-----------------------------------------------------------------------------
(* The theorems. *)

\* The device's tables, the client's records, its calls in progress and the
\* executor's queue hold what they are declared to hold (RuntimeService,
\* DirectFeishuClient), whatever crashes and deletions come in between.
THEOREM DeviceTypeCorrect == Spec => []TypeOK
<1>1. IInv => TypeOK
  BY DEF IInv
<1> QED BY <1>1, Invariant, PTL

\* The cards of a family hang off the topic the client has stored for its
\* root, whichever member was handed off first and however often its card had
\* to be sent (CopyForHandoff, StoreCard under _handoff_lock).
THEOREM FamilyTopicIsShared == Spec => []FamilySharesTopic
<1>1. IInv => FamilySharesTopic
  <2> SUFFICES ASSUME IInv, NEW i \in DOMAIN issue, item[i].message # None
               PROVE  item[i].topic = topic[Root(i)]
    BY DEF FamilySharesTopic
  <2>1. i \in Issues /\ Root(i) \in DOMAIN issue
    BY DEF IInv, Rows, Core!TypeOK, Core!FamilyIntact, Core!Ids, Issues, Root
  <2> QED BY <2>1 DEF IInv, FamilyTopic
<1> QED BY <1>1, Invariant, PTL

\* A recorded solution is overwritten by nothing but a handoff of its issue
\* that had copied the record before (_handoff), or forgotten with the issue.
THEOREM SolutionsLostOnlyToHandoff == Spec => LostOnlyToHandoff
<1> DEFINE Kept == \A i \in Issues : item'[i].version < item[i].version =>
                     \E c \in calls : \/ c.issue = i /\ FinishHandoff(c)
                                      \/ i \in c.targets /\ ForgetIssues(c)
<1>1. IInv /\ [Next]_vars => [Kept]_vars
  <2> SUFFICES ASSUME IInv, [Next]_vars, NEW i \in Issues, item'[i].version < item[i].version,
                      item' # item
               PROVE  \E c \in calls : \/ c.issue = i /\ FinishHandoff(c)
                                       \/ i \in c.targets /\ ForgetIssues(c)
    <3>1. ASSUME item' = item, NEW i \in Issues, IInv PROVE ~(item'[i].version < item[i].version)
      BY <3>1, Records
    <3> QED BY <3>1
  <2>1. item \in [Issues -> ItemType] /\ item[i].version \in Nat /\ Moving
    BY Records, WorldGrows DEF Moving, IInv, TypeOK
  <2>2. ASSUME NEW c \in calls, StoreCard(c) PROVE FALSE
    <3>1. c.op = "handoff" /\ c.pc = "sent"
      BY <2>2 DEF StoreCard, In
    <3>2. item[c.issue] = Blank /\ Blank.version = 0 /\ c.copy \in ItemType
      BY <2>1, <3>1, HoldsNow DEF HoldsOK, Locked, Blank
    <3>3. i = c.issue
      BY <2>1, <2>2 DEF StoreCard
    <3>4. item'[i].version = c.copy.version /\ c.copy.version \in Nat
      BY <2>1, <2>2, <3>2, <3>3 DEF StoreCard, ItemType
    <3> QED BY <3>2, <3>3, <3>4
  <2>3. ASSUME NEW c \in calls, FinishHandoff(c) PROVE c.issue = i
    BY <2>1, <2>3 DEF FinishHandoff
  <2>4. ASSUME NEW c \in calls, StoreUpdate(c) PROVE FALSE
    BY <2>1, <2>4, Updated
  <2>5. ASSUME NEW c \in calls, ForgetIssues(c) PROVE i \in c.targets
    BY <2>1, <2>5 DEF ForgetIssues
  <2>6. ASSUME NEW p \in Presses, ReceivePress(p) PROVE FALSE
    BY <2>1, <2>6, Records, Taken
  <2>7. \/ \E c \in calls : StoreCard(c) \/ FinishHandoff(c) \/ StoreUpdate(c) \/ ForgetIssues(c)
        \/ \E p \in Presses : ReceivePress(p)
    BY Frames DEF HandoffMove, RecordMove, CopyForHandoff, SendCard, CompleteTopic, SendEvidence,
       HandoffFails
  <2> QED BY <2>2, <2>3, <2>4, <2>5, <2>6, <2>7
<1> QED BY <1>1, Invariant, PTL DEF Spec, LostOnlyToHandoff

\* The device changes its tables by the core's own operations only, and gives
\* them only versions the core knows: what IssueCore promises of its tables the
\* device keeps (CoreService is the only writer of the database).
THEOREM DeviceRunsTheCore == Spec => Core!Spec
<1>1. Init => Core!Init
  BY DEF Init
<1>2. IInv /\ [Next]_vars => [Core!Next]_(Core!vars)
  <2> SUFFICES ASSUME IInv, [Next]_vars, ~UNCHANGED <<issue, session>>
               PROVE  Core!Next
    BY DEF Core!vars
  <2>1. CoreMove
    BY Frames
  <2>2. DOMAIN issue = Core!Ids /\ MaxVersion \in Nat
    BY DeviceAssumption DEF Core!Ids
  <2>3. ASSUME NEW r \in Roots, NEW who \in Reporters, CreateIssue(r, who) PROVE Core!Next
    BY <2>3 DEF CreateIssue, Core!Next, Core!Report
  <2>4. ASSUME NEW i \in DOMAIN issue, NEW who \in Reporters, CreateSubissue(i, who) PROVE Core!Next
    BY <2>2, <2>4 DEF CreateSubissue, Core!Next, Core!Report
  <2>5. ASSUME NEW i \in DOMAIN issue, NEW who \in Reporters, ReportVerificationFailure(i, who)
        PROVE  Core!Next
    BY <2>2, <2>5 DEF ReportVerificationFailure, Core!Next, Core!Resolve
  <2>6. ASSUME NEW i \in DOMAIN issue, NEW who \in Reporters, NEW v \in 1..MaxVersion,
               ConfirmSolution(i, who, v)
        PROVE  Core!Next
    BY <2>2, <2>6 DEF ConfirmSolution, Core!Next, Core!Resolve, Core!Version
  <2>7. ASSUME NEW i \in DOMAIN issue, RequestHandoff(i) PROVE Core!Next
    BY <2>2, <2>7 DEF RequestHandoff, Core!Next, Core!HumanHandoff
  <2>8. ASSUME NEW i \in DOMAIN issue, DeleteIssue(i) PROVE Core!Next
    <3>1. Core!DeleteIssues({i}) /\ {i} \in SUBSET Core!Ids
      BY <2>2, <2>8 DEF DeleteIssue
    <3> QED BY <3>1 DEF Core!Next, Core!Housekeeping
  <2>9. ASSUME NEW c \in calls, MarkDelivered(c) PROVE Core!Next
    <3>1. Core!MarkHandoffDelivered(c.issue) /\ c.issue \in DOMAIN issue
      BY <2>9 DEF MarkDelivered, core
    <3> QED BY <2>2, <3>1 DEF Core!Next, Core!HumanHandoff
  <2>10. ASSUME NEW c \in calls, ImportSolution(c) PROVE Core!Next
    <3>1. Core!ImportSolution(c.issue, c.copy.version) /\ c.copy.version \in Core!Version
      BY <2>10, ImportInRange
    <3>2. c.issue \in Core!Ids
      BY <3>1 DEF Core!ImportSolution
    <3> QED BY <3>1, <3>2 DEF Core!Next, Core!Resolve
  <2> QED BY <2>1, <2>3, <2>4, <2>5, <2>6, <2>7, <2>8, <2>9, <2>10 DEF CoreMove
<1> QED BY <1>1, <1>2, Invariant, PTL DEF Spec, Core!Spec

-----------------------------------------------------------------------------
(* Closed cards. *)

\* A deleted issue's number is remembered, and only deletion takes issues away.
LEMMA GoneAreRetired ==
  ASSUME IInv, [Next]_vars
  PROVE  \A i \in DOMAIN issue : i \notin DOMAIN issue' => i \in retired'
<1>1. (CoreMove \/ UNCHANGED issue) /\ Rows
  BY Frames DEF IInv
<1>2. ASSUME NEW j \in DOMAIN issue, DeleteIssue(j)
      PROVE  \A i \in DOMAIN issue : i \notin DOMAIN issue' => i \in retired'
  <2>1. Core!DeleteIssues({j}) /\ retired' = retired \cup Core!Targets({j})
    BY <1>2 DEF DeleteIssue
  <2> QED BY <1>1, <2>1, RowsDeleted
<1>3. ASSUME NEW r \in Roots, NEW who \in Reporters, CreateIssue(r, who)
      PROVE  DOMAIN issue \subseteq DOMAIN issue'
  BY <1>1, <1>3, RootCreated DEF CreateIssue
<1>4. ASSUME NEW j \in DOMAIN issue, NEW who \in Reporters,
             CreateSubissue(j, who) \/ ReportVerificationFailure(j, who)
      PROVE  DOMAIN issue \subseteq DOMAIN issue'
  BY <1>1, <1>4, SubCreated, FailureReported DEF CreateSubissue, ReportVerificationFailure
<1>5. ASSUME NEW j \in DOMAIN issue, NEW who \in Reporters, NEW v \in 1..MaxVersion,
             ConfirmSolution(j, who, v)
      PROVE  DOMAIN issue \subseteq DOMAIN issue'
  BY <1>1, <1>5, Confirmed DEF ConfirmSolution, Core!Version
<1>6. ASSUME NEW j \in DOMAIN issue, RequestHandoff(j) PROVE DOMAIN issue \subseteq DOMAIN issue'
  BY <1>1, <1>6, HandedOff DEF RequestHandoff
<1>7. ASSUME NEW c \in calls, MarkDelivered(c) PROVE DOMAIN issue \subseteq DOMAIN issue'
  BY <1>1, <1>7, HandedOff DEF MarkDelivered, core
<1>8. ASSUME NEW c \in calls, ImportSolution(c) PROVE DOMAIN issue \subseteq DOMAIN issue'
  BY <1>1, <1>8, ImportInRange, Answered
<1> QED BY <1>1, <1>2, <1>3, <1>4, <1>5, <1>6, <1>7, <1>8 DEF CoreMove

\* So an issue that was confirmed stays closed until it is deleted.
LEMMA SettledKept ==
  ASSUME IInv, [Next]_vars, NEW i \in Issues, i[1] \in spent, Settled(i)
  PROVE  Settled(i)'
<1>1. i \in confirmed' /\ (i \notin retired' => i \notin retired)
  BY HistoriesGrow DEF Settled
<1>2. ASSUME i \notin retired' PROVE i \in DOMAIN issue' /\ issue'[i].status = "closed"
  <2>1. i \in DOMAIN issue /\ issue[i].status = "closed"
    BY <1>1, <1>2 DEF Settled
  <2>2. i \in DOMAIN issue'
    BY <1>2, <2>1, GoneAreRetired
  <2> QED BY <2>1, <2>2, CoreStep DEF StayClosed
<1> QED BY <1>1, <1>2 DEF Settled

\* A confirmation settles its issue.
LEMMA ConfirmationSettles ==
  ASSUME IInv, NEW i \in DOMAIN issue, NEW who, NEW v \in 1..MaxVersion, ConfirmSolution(i, who, v)
  PROVE  Settled(i)'
<1>1. Core!ConfirmSolution(i, who, v) /\ v \in Core!Version /\ Rows
  BY DEF ConfirmSolution, Core!Version, IInv
<1>2. i \in DOMAIN issue' /\ issue'[i].status = "closed" /\ i \in confirmed'
  BY <1>1, Confirmed DEF ConfirmSolution
<1> QED BY <1>2 DEF Settled

\* The jobs that close a card are those of confirmations.
LEMMA NewConfirmJobs ==
  ASSUME IInv, [Next]_vars, NEW n \in DOMAIN queue', queue'[n].op = "confirm"
  PROVE  \/ \E m \in DOMAIN queue : queue'[n] = queue[m]
         \/ Settled(queue[n].issue)'
<1>1. queue \in Seq(JobType)
  BY DEF IInv, TypeOK
<1>2. CASE queue' = queue
  BY <1>2
<1>3. ASSUME NEW j, j.op # "confirm", queue' = Append(queue, j)
      PROVE  \E m \in DOMAIN queue : queue'[n] = queue[m]
  <2>1. n \in 1..Len(queue) + 1 /\ n # Len(queue) + 1
    BY <1>1, <1>3
  <2>2. n \in DOMAIN queue /\ queue'[n] = queue[n]
    BY <1>1, <1>3, <2>1
  <2> QED BY <2>2
<1>4. \A i, v : Job("handoff", i, v).op # "confirm" /\ Job("failed", i, v).op # "confirm"
  BY DEF Job
<1>5. ASSUME NEW i, queue' \in {queue, Append(queue, Job("handoff", i, 0))}
      PROVE  \E m \in DOMAIN queue : queue'[n] = queue[m]
  BY <1>2, <1>3, <1>4, <1>5
<1>6. ASSUME NEW i \in DOMAIN issue, RequestHandoff(i) PROVE \E m \in DOMAIN queue : queue'[n] = queue[m]
  BY <1>5, <1>6 DEF RequestHandoff, Queued
<1>7. ASSUME NEW c \in calls, QueueAgain(c) PROVE \E m \in DOMAIN queue : queue'[n] = queue[m]
  BY <1>5, <1>7 DEF QueueAgain, Queued
<1>8. ASSUME NEW i \in DOMAIN issue, NEW who \in Reporters, ReportVerificationFailure(i, who)
      PROVE  \E m \in DOMAIN queue : queue'[n] = queue[m]
  BY <1>3, <1>4, <1>8 DEF ReportVerificationFailure
<1>9. ASSUME NEW i \in DOMAIN issue, NEW who \in Reporters, NEW v \in 1..MaxVersion,
             ConfirmSolution(i, who, v)
      PROVE  (\E m \in DOMAIN queue : queue'[n] = queue[m]) \/ Settled(queue[n].issue)'
  <2>1. queue' = Append(queue, Job("confirm", i, v))
    BY <1>9 DEF ConfirmSolution
  <2>2. Settled(i)'
    BY <1>9, ConfirmationSettles
  <2>3. CASE n = Len(queue) + 1
    <3>1. queue'[n].issue = i
      BY <1>1, <2>1, <2>3 DEF Job
    <3> QED BY <2>2, <3>1 DEF Settled
  <2>4. CASE n # Len(queue) + 1
    <3>1. n \in DOMAIN queue /\ queue'[n] = queue[n]
      BY <1>1, <2>1, <2>4
    <3> QED BY <3>1
  <2> QED BY <2>3, <2>4
<1>10. ASSUME StartJob PROVE \E m \in DOMAIN queue : queue'[n] = queue[m]
  <2>1. queue # << >> /\ queue' = Tail(queue)
    BY <1>10 DEF StartJob
  <2>2. n + 1 \in DOMAIN queue /\ queue'[n] = queue[n + 1]
    BY <1>1, <2>1
  <2> QED BY <2>2
<1>11. ASSUME Crash PROVE FALSE
  BY <1>4, <1>11 DEF Crash
<1>12. ASSUME NEW i \in DOMAIN issue, DeleteIssue(i) PROVE queue' = queue
  BY <1>12 DEF DeleteIssue
<1>13. ASSUME NEW i \in Issues, RetryTime(i) PROVE queue' = queue
  BY <1>13 DEF RetryTime
<1>14. ASSUME NEW c \in calls, FailHandoff(c) PROVE queue' = queue
  BY <1>14 DEF FailHandoff
<1> QED BY <1>2, <1>6, <1>7, <1>8, <1>9, <1>10, <1>11, <1>12, <1>13, <1>14, Frames DEF ExecutorMove

\* A call closes a card for a confirmation's job, and takes a record for closed
\* only if the record was, when the call copied it or before.
LEMMA NewClosedCalls ==
  ASSUME IInv, [Next]_vars, NEW d \in calls', d \notin calls
  PROVE  \/ d.op # "confirm" /\ d.copy.handoff # "closed"
         \/ /\ d.op = "confirm" /\ d.copy.handoff # "closed"
            /\ \E n \in DOMAIN queue : queue[n].op = "confirm" /\ queue[n].issue = d.issue
         \/ \E c \in calls :
              /\ d.issue = c.issue /\ d.op = c.op
              /\ d.copy.handoff = "closed" =>
                   c.copy.handoff = "closed" \/ item[c.issue].handoff = "closed"
<1> DEFINE Comes(c) == /\ d.issue = c.issue /\ d.op = c.op
                       /\ d.copy.handoff = "closed" =>
                            c.copy.handoff = "closed" \/ item[c.issue].handoff = "closed"
           Fresh0 == d.op # "confirm" /\ d.copy.handoff # "closed"
           Job0 == /\ d.op = "confirm" /\ d.copy.handoff # "closed"
                   /\ \E n \in DOMAIN queue : queue[n].op = "confirm" /\ queue[n].issue = d.issue
           Goal == Fresh0 \/ Job0 \/ \E c \in calls : Comes(c)
<1>1. /\ \A c \in calls : c \in CallType /\ c.copy \in ItemType
      /\ Blank.handoff = "none"
      /\ \A op, i, pc : LET n == Call(op, i, pc) IN n.op = op /\ n.issue = i /\ n.copy = Blank
  BY CallsOfType DEF Call, Blank
<1>2. ASSUME NEW op, NEW i, NEW pc, op # "confirm", NEW x,
             \/ d = Call(op, i, pc)
             \/ d = [Call(op, i, pc) EXCEPT !.status = x]
             \/ d = [Call(op, i, pc) EXCEPT !.targets = x]
             \/ d = [Call(op, i, pc) EXCEPT !.version = x]
             \/ d = [Call(op, i, pc) EXCEPT !.copy = x] /\ x.handoff # "closed"
      PROVE  Goal
  BY <1>2 DEF Call, Blank
<1>3. ASSUME NEW c \in calls, NEW x, NEW pc, NEW t,
             \/ d = [c EXCEPT !.pc = pc]
             \/ d = [c EXCEPT !.copy = x, !.pc = pc] /\ x.handoff = item[c.issue].handoff
             \/ d = [c EXCEPT !.pc = pc, !.copy = x] /\ x.handoff # "closed"
             \/ d = [c EXCEPT !.pc = pc, !.copy = x, !.topic = t] /\ x.handoff = item[c.issue].handoff
             \/ d = [c EXCEPT !.pc = pc, !.topic = t, !.copy = x] /\ x.handoff = c.copy.handoff
      PROVE  Goal
  <2>1. c \in CallType
    BY <1>1
  <2>2. CASE d = [c EXCEPT !.pc = pc]
    <3>1. d.issue = c.issue /\ d.op = c.op /\ d.copy = c.copy
      BY <2>1, <2>2 DEF CallType
    <3> QED BY <3>1
  <2>3. CASE \/ d = [c EXCEPT !.copy = x, !.pc = pc] \/ d = [c EXCEPT !.pc = pc, !.copy = x]
             \/ d = [c EXCEPT !.pc = pc, !.copy = x, !.topic = t]
             \/ d = [c EXCEPT !.pc = pc, !.topic = t, !.copy = x]
    <3>1. d.issue = c.issue /\ d.op = c.op /\ d.copy = x
      BY <2>1, <2>3 DEF CallType
    <3>2. x.handoff \in {item[c.issue].handoff, c.copy.handoff} \/ x.handoff # "closed" \/ d.copy = c.copy
      BY <1>3, <2>1 DEF CallType
    <3> QED BY <3>1, <3>2
  <2> QED BY <1>3, <2>2, <2>3
<1>4. ASSUME StartJob PROVE Goal
  <2>1. queue # << >> /\ queue \in Seq(JobType)
    BY <1>4 DEF StartJob, IInv, TypeOK
  <2>2. 1 \in DOMAIN queue /\ Head(queue) = queue[1]
    BY <2>1
  <2>3. \/ d = [Call(Head(queue).op, Head(queue).issue, "copy") EXCEPT !.version = Head(queue).version]
        \/ \E s : d = [Call("handoff", Head(queue).issue, "lock") EXCEPT !.status = s]
    BY <1>4 DEF StartJob
  <2>4. ASSUME d = [Call(Head(queue).op, Head(queue).issue, "copy") EXCEPT !.version = Head(queue).version]
        PROVE  Goal
    <3>1. d.op = Head(queue).op /\ d.issue = Head(queue).issue /\ d.copy = Blank
      BY <2>4 DEF Call
    <3> QED BY <1>1, <2>2, <3>1
  <2>5. ASSUME NEW s, d = [Call("handoff", Head(queue).issue, "lock") EXCEPT !.status = s]
        PROVE  Goal
    BY <1>2, <2>5
  <2> QED BY <2>3, <2>4, <2>5
<1>5. ASSUME Crash PROVE Goal
  BY <1>5 DEF Crash
<1>6. ASSUME NEW i \in DOMAIN issue, Poll(i) \/ DeleteIssue(i) PROVE Goal
  <2>1. (\E pc : d = Call("timeline", i, pc)) \/ \E t : d = [Call("forget", i, "store") EXCEPT !.targets = t]
    BY <1>6 DEF Poll, DeleteIssue
  <2> QED BY <1>2, <2>1
<1>7. ASSUME NEW c \in calls,
             QueueAgain(c) \/ MarkDelivered(c) \/ ImportSolution(c) \/ UpdateCard(c) \/ UpdateFails(c)
               \/ StoreUpdate(c) \/ ForgetIssues(c) \/ HandoffFails(c)
      PROVE  Goal
  <2>1. \E pc : d = [c EXCEPT !.pc = pc]
    BY <1>7 DEF QueueAgain, MarkDelivered, ImportSolution, UpdateCard, UpdateFails, StoreUpdate,
       ForgetIssues, HandoffFails, Becomes, Ends
  <2> QED BY <1>3, <2>1
<1>8. ASSUME NEW c \in calls, CopyForSync(c) \/ CopyForConfirm(c) \/ CopyForFailure(c) PROVE Goal
  <2>1. \E pc : d = [c EXCEPT !.copy = item[c.issue], !.pc = pc]
    BY <1>8 DEF CopyForSync, CopyForConfirm, CopyForFailure, Becomes, Ends
  <2> QED BY <1>3, <2>1
<1>9. ASSUME NEW c \in calls, CopyForHandoff(c) PROVE Goal
  <2>1. PICK pc, t : d = [c EXCEPT !.pc = pc, !.copy = item[c.issue], !.topic = t]
    BY <1>9 DEF CopyForHandoff, Becomes
  <2> QED BY <1>3, <2>1
<1>10. ASSUME NEW c \in calls, SendCard(c) \/ CompleteTopic(c) PROVE Goal
  <2>1. c \in CallType /\ c.copy \in ItemType
    BY <1>1
  <2>2. ASSUME NEW m, NEW pc, NEW t,
               \/ d = [c EXCEPT !.pc = pc, !.topic = t, !.copy.message = m]
               \/ d = [c EXCEPT !.pc = pc, !.topic = t, !.copy.topic = m]
        PROVE  Goal
    <3>1. ASSUME d = [c EXCEPT !.pc = pc, !.topic = t, !.copy.message = m] PROVE Goal
      <4> DEFINE x == [c.copy EXCEPT !.message = m]
      <4>1. x.handoff = c.copy.handoff /\ d = [c EXCEPT !.pc = pc, !.topic = t, !.copy = x]
        BY <2>1, <3>1 DEF CallType, ItemType
      <4> HIDE DEF x
      <4> QED BY <1>3, <4>1
    <3>2. ASSUME d = [c EXCEPT !.pc = pc, !.topic = t, !.copy.topic = m] PROVE Goal
      <4> DEFINE x == [c.copy EXCEPT !.topic = m]
      <4>1. x.handoff = c.copy.handoff /\ d = [c EXCEPT !.pc = pc, !.topic = t, !.copy = x]
        BY <2>1, <3>2 DEF CallType, ItemType
      <4> HIDE DEF x
      <4> QED BY <1>3, <4>1
    <3> QED BY <2>2, <3>1, <3>2
  <2>3. CASE SendCard(c)
    <3>1. PICK m : d = [c EXCEPT !.pc = "sent", !.topic = IF @ = None THEN m ELSE @, !.copy.message = m]
      BY <2>3 DEF SendCard, Becomes
    <3> QED BY <2>2, <3>1
  <2>4. CASE CompleteTopic(c)
    <3> DEFINE top == IF c.topic = None THEN c.copy.message ELSE c.topic
               pc == IF c.copy.evidence THEN "finish" ELSE "evidence"
    <3>1. d = [c EXCEPT !.pc = pc, !.topic = top, !.copy.topic = top]
      BY <2>4 DEF CompleteTopic, Becomes
    <3> HIDE DEF top, pc
    <3> QED BY <2>2, <3>1
  <2> QED BY <1>10, <2>3, <2>4
<1>11. ASSUME NEW c \in calls, SendEvidence(c) PROVE Goal
  <2>1. c \in CallType /\ c.copy \in ItemType /\ d = [c EXCEPT !.pc = "finish", !.copy.evidence = TRUE]
    BY <1>1, <1>11 DEF SendEvidence, Becomes
  <2>2. d.issue = c.issue /\ d.op = c.op /\ d.copy.handoff = c.copy.handoff
    BY <2>1 DEF CallType, ItemType
  <2> QED BY <2>2
<1>12. ASSUME NEW c \in calls, StoreCard(c) PROVE Goal
  <2>1. PICK x : d = [c EXCEPT !.pc = "connect", !.copy = x] /\ x.handoff # "closed"
    <3> DEFINE x == [c.copy EXCEPT !.handoff = "delivering", !.topic = c.topic,
                                   !.card_state = "awaiting_engineer"]
    <3>1. d = [c EXCEPT !.pc = "connect", !.copy = x]
      BY <1>12 DEF StoreCard, Becomes
    <3>2. x.handoff = "delivering"
      BY <1>1 DEF ItemType
    <3> QED BY <3>1, <3>2
  <2> QED BY <1>3, <2>1
<1>13. ASSUME NEW c \in calls, FinishHandoff(c) PROVE Goal
  <2>1. d = Call("handoff", c.issue, "copy")
    BY <1>13 DEF FinishHandoff, Becomes
  <2> QED BY <1>2, <2>1
<1>14. ASSUME NEW p \in Presses, ReceivePress(p) PROVE Goal
  <2>1. PICK i, x : d = [Call("card", i, "update") EXCEPT !.copy = x] /\ x.handoff # "closed"
    <3>1. PICK i \in Issues :
            d = [Call("card", i, "update") EXCEPT
                   !.copy = [item[i] EXCEPT !.version = @ + 1, !.handoff = "solution_available"]]
      BY <1>14 DEF ReceivePress
    <3>2. [item[i] EXCEPT !.version = @ + 1, !.handoff = "solution_available"].handoff
            = "solution_available"
      BY Records DEF ItemType
    <3> QED BY <3>1, <3>2
  <2> QED BY <1>2, <2>1
<1> HIDE DEF Goal
<1>15. Goal
  BY <1>4, <1>5, <1>6, <1>7, <1>8, <1>9, <1>10, <1>11, <1>12, <1>13, <1>14, Frames
     DEF CallMove, HandoffMove, RecordMove
<1> QED BY <1>15 DEF Goal

\* Records that look closed were closed by a confirmation's update, or taken
\* over by a handoff that had copied a closed one.
LEMMA NewClosedRecords ==
  ASSUME IInv, [Next]_vars, NEW i \in Issues, item'[i].handoff = "closed"
  PROVE  \/ item[i].handoff = "closed"
         \/ \E c \in calls : c.issue = i /\ (c.op = "confirm" \/ c.copy.handoff = "closed")
<1>1. item \in [Issues -> ItemType] /\ Moving /\ \A c \in calls : c.issue \in Issues /\ c.copy \in ItemType
  BY WorldGrows, CallsOfType DEF Moving, IInv, TypeOK
<1>2. CASE item' = item
  BY <1>2
<1>3. ASSUME NEW c \in calls, StoreCard(c) PROVE item'[i] = item[i]
  <2>1. item' = [item EXCEPT ![c.issue] = [c.copy EXCEPT !.handoff = "delivering", !.topic = c.topic,
                                                         !.card_state = "awaiting_engineer"]]
    BY <1>3 DEF StoreCard
  <2>2. CASE i = c.issue
    <3>1. item'[i].handoff = "delivering"
      BY <1>1, <2>1, <2>2 DEF ItemType
    <3> QED BY <3>1
  <2> QED BY <1>1, <2>1, <2>2
<1>4. ASSUME NEW c \in calls, FinishHandoff(c)
      PROVE  item'[i] = item[i] \/ (c.issue = i /\ c.copy.handoff = "closed")
  <2>1. item' = [item EXCEPT ![c.issue] = Concluded(c.copy, c.status)]
    BY <1>4 DEF FinishHandoff
  <2>2. CASE i = c.issue
    <3>1. Concluded(c.copy, c.status).handoff = "closed"
      BY <1>1, <2>1, <2>2
    <3>2. c.copy.handoff = "closed"
      BY <1>1, <3>1 DEF Concluded, ItemType
    <3> QED BY <2>2, <3>2
  <2> QED BY <1>1, <2>1, <2>2
<1>5. ASSUME NEW c \in calls, StoreUpdate(c)
      PROVE  item[i].handoff = "closed" \/ (c.issue = i /\ c.op = "confirm")
  <2>1. CASE i = c.issue
    BY <1>5, <2>1, Updated
  <2>2. CASE i # c.issue
    BY <1>5, <2>2, Updated
  <2> QED BY <2>1, <2>2
<1>6. ASSUME NEW c \in calls, ForgetIssues(c) PROVE item'[i] = item[i]
  BY <1>6 DEF ForgetIssues, Blank
<1>7. ASSUME NEW p \in Presses, ReceivePress(p) PROVE item'[i] = item[i]
  BY <1>1, <1>7, Taken
<1>8. \/ item' = item \/ \E p \in Presses : ReceivePress(p)
      \/ \E c \in calls : StoreCard(c) \/ FinishHandoff(c) \/ StoreUpdate(c) \/ ForgetIssues(c)
  BY Frames DEF HandoffMove, RecordMove, CopyForHandoff, SendCard, CompleteTopic, SendEvidence,
     HandoffFails
<1> QED BY <1>2, <1>3, <1>4, <1>5, <1>6, <1>7, <1>8

\* A card shows the closed face for a confirmation's update of its issue.
LEMMA NewClosedCards ==
  ASSUME IInv, [Next]_vars, NEW m \in Messages, card'[m] # None, card'[m].shows = "closed"
  PROVE  \/ card[m] # None /\ card[m].shows = "closed" /\ card[m].issue = card'[m].issue
         \/ \E c \in calls : c.op = "confirm" /\ c.issue = card'[m].issue
<1>1. None \notin CardType
  BY DeviceAssumption
<1>2. CASE card' = card
  BY <1>2
<1>3. ASSUME NEW c \in calls, SendCard(c) \/ HandoffFails(c) PROVE card'[m] = card[m]
  <2>1. c.issue \in Issues /\ c.issue[1] \in spent /\ c.topic \in Messages \cup {None}
    BY CallsOfType DEF CallType
  <2>2. card' = card \/ \E n : Posts(c.issue, c.topic, n)
    <3>1. CASE SendCard(c)
      BY <3>1 DEF SendCard
    <3>2. CASE HandoffFails(c)
      BY <3>2 DEF HandoffFails
    <3> QED BY <1>3, <3>1, <3>2
  <2>3. ASSUME NEW n, Posts(c.issue, c.topic, n) PROVE card'[m] = card[m]
    <3>1. n \in Messages
      BY <2>3 DEF Posts, Known, Fresh
    <3> QED BY <2>1, <2>3, <3>1, Posted
  <2> QED BY <2>2, <2>3
<1>4. ASSUME NEW c \in calls, c.pc = "update", Shows(c.copy.message, Face(c.op), c.copy.version)
      PROVE  card'[m] = card[m] \/ (c.op = "confirm" /\ c.issue = card'[m].issue)
  <2>1. CASE m = c.copy.message
    <3>1. card'[m].issue = c.issue /\ card'[m].shows = Face(c.op)
      BY <1>4, <2>1, Shown
    <3>2. c.op \in JobOps \cup {"timeline", "card"}
      BY <1>4, CallsOfType DEF CallOK, CallType
    <3> QED BY <3>1, <3>2 DEF Face, JobOps
  <2> QED BY <1>4, <2>1, Shown
<1>5. \/ card' = card
      \/ \E c \in calls : \/ SendCard(c) \/ HandoffFails(c)
                          \/ c.pc = "update" /\ Shows(c.copy.message, Face(c.op), c.copy.version)
  BY Frames DEF FeishuMove, UpdateCard, UpdateFails, PressSubmit, ReceivePress
<1> QED BY <1>2, <1>3, <1>4, <1>5

\* What looks closed is settled, after any step.
LEMMA ClosedStep ==
  ASSUME IInv, ClosedInv, [Next]_vars
  PROVE  ClosedInv'
<1>1. /\ \A i \in Issues : item[i].handoff = "closed" => Settled(i) /\ i[1] \in spent
      /\ \A c \in calls : /\ c.issue \in Issues /\ c.issue[1] \in spent
                          /\ c.op = "confirm" \/ c.copy.handoff = "closed" => Settled(c.issue)
      /\ \A n \in DOMAIN queue : /\ queue[n].issue \in Issues /\ queue[n].issue[1] \in spent
                                 /\ queue[n].op = "confirm" => Settled(queue[n].issue)
      /\ \A m \in Messages : card[m] # None =>
           /\ card[m].issue \in Issues /\ card[m].issue[1] \in spent
           /\ card[m].shows = "closed" => Settled(card[m].issue)
  <2>1. \A i \in Issues : item[i].handoff = "closed" => i[1] \in spent
    BY Records DEF Blank
  <2>2. \A n \in DOMAIN queue : queue[n].issue \in Issues /\ queue[n].issue[1] \in spent
    <3>1. \A n \in DOMAIN queue : queue[n] \in JobType
      BY DEF IInv, TypeOK
    <3> QED BY <3>1 DEF IInv, Named, JobType
  <2>3. \A m \in Messages : card[m] # None => card[m].issue \in Issues /\ card[m].issue[1] \in spent
    BY DEF IInv, TypeOK, CardType, CardOK
  <2> QED BY <2>1, <2>2, <2>3, CallsOfType DEF ClosedInv
<1>2. ASSUME NEW i \in Issues, i[1] \in spent, Settled(i) PROVE Settled(i)'
  BY <1>2, SettledKept
<1>3. ASSUME NEW i \in Issues, item'[i].handoff = "closed" PROVE Settled(i)'
  BY <1>1, <1>2, <1>3, NewClosedRecords
<1>4. ASSUME NEW m \in Messages, card'[m] # None, card'[m].shows = "closed",
             NEW i, i = card'[m].issue
      PROVE  Settled(i)'
  BY <1>1, <1>2, <1>4, NewClosedCards
<1>5. ASSUME NEW d \in calls', d.op = "confirm" \/ d.copy.handoff = "closed" PROVE Settled(d.issue)'
  <2>1. CASE d \in calls
    BY <1>1, <1>2, <1>5, <2>1
  <2>2. CASE d \notin calls
    BY <1>1, <1>2, <1>5, <2>2, NewClosedCalls
  <2> QED BY <2>1, <2>2
<1>6. ASSUME NEW n \in DOMAIN queue', queue'[n].op = "confirm" PROVE Settled(queue[n].issue)'
  <2>1. ASSUME NEW m \in DOMAIN queue, queue'[n] = queue[m] PROVE Settled(queue[n].issue)'
    <3>1. PICK i \in Issues : i = queue[m].issue /\ Settled(i)'
      BY <1>1, <1>2, <1>6, <2>1
    <3> QED BY <2>1, <3>1 DEF Settled
  <2> QED BY <1>6, <2>1, NewConfirmJobs
<1> HIDE DEF Settled
<1>7. \A i \in Issues : item'[i].handoff = "closed" => Settled(i)'
  BY <1>3
<1>8. \A m \in Messages : card'[m] # None /\ card'[m].shows = "closed" => Settled(card[m].issue)'
  <2> SUFFICES ASSUME NEW m \in Messages, card'[m] # None, card'[m].shows = "closed"
               PROVE  Settled(card[m].issue)'
    OBVIOUS
  <2>1. PICK i : i = card'[m].issue
    OBVIOUS
  <2>2. Settled(i)'
    BY <1>4, <2>1
  <2> QED BY <2>1, <2>2 DEF Settled
<1> QED BY <1>5, <1>6, <1>7, <1>8 DEF ClosedInv

\* Engineers see an issue as solved only if its reporter has confirmed it: a
\* card shows the closed face, and the client holds the issue as closed, only
\* for a number whose issue was confirmed, and until an issue of that number is
\* deleted the core's row is closed (confirm_solution, _handoff, sync, confirm).
THEOREM ClosedCardsAreOfClosedIssues == Spec => []ClosedCardMeansClosed
<1>1. Init => ClosedInv
  BY DEF Init, ClientInit, ClosedInv, Blank
<1>2. IInv /\ ClosedInv /\ [Next]_vars => ClosedInv'
  BY ClosedStep
<1>3. IInv /\ ClosedInv => ClosedCardMeansClosed
  BY DEF ClosedInv, ClosedCardMeansClosed, Settled
<1> QED BY <1>1, <1>2, <1>3, Invariant, PTL DEF Spec
=============================================================================
