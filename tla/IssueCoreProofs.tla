--------------------------- MODULE IssueCoreProofs ---------------------------
(***************************************************************************)
(* Theorems about IssueCore, for any roots, reporters, threads and bounds. *)
(*                                                                         *)
(* First each operation's effect on the table is described row by row      *)
(* (lemmas ...Effect); the invariants are then proved from these           *)
(* descriptions, the later ones from the earlier ones.                     *)
(***************************************************************************)
EXTENDS IssueCore, TLAPS

\* Two rows that agree on every column but the rollup.
SameReport(a, b) ==
  /\ a.reporter = b.reporter
  /\ a.parent = b.parent
  /\ a.status = b.status
  /\ a.version = b.version
  /\ a.solutions = b.solutions
  /\ a.confirmed = b.confirmed
  /\ a.handoff = b.handoff
  /\ a.input = b.input
  /\ a.concluded = b.concluded

\* A table of typed rows.
Table(tab) == /\ DOMAIN tab \in SUBSET IssueId
              /\ tab \in [DOMAIN tab -> Row]

-----------------------------------------------------------------------------
(* The helpers. *)

\* A family's rollup is one of the three statuses.
LEMMA RollupOfIsStatus ==
  ASSUME NEW tab, NEW r
  PROVE  RollupOf(tab, r) \in Status
BY DEF RollupOf, Status

\* The rollup depends on the statuses of the family and on nothing else.
LEMMA RollupOfSame ==
  ASSUME NEW s, NEW t, NEW r,
         Family(s, r) = Family(t, r),
         \A i \in Family(s, r) : s[i].status = t[i].status
  PROVE  RollupOf(s, r) = RollupOf(t, r)
BY DEF RollupOf

\* Recalculation rewrites the rollups of the roots it is given and no other
\* column of any row.
LEMMA RecalculatedEffect ==
  ASSUME NEW tab, Table(tab), NEW rs, rs \subseteq Roots
  PROVE  LET new == Recalculated(tab, rs)
         IN  /\ DOMAIN new = DOMAIN tab
             /\ Table(new)
             /\ \A i \in DOMAIN tab : SameReport(new[i], tab[i])
             /\ \A r \in rs : Main(r) \in DOMAIN tab =>
                  new[Main(r)].rollup = RollupOf(tab, r)
             /\ \A i \in DOMAIN tab : (\A r \in rs : i # Main(r)) => new[i] = tab[i]
<1> DEFINE new == Recalculated(tab, rs)
<1>1. DOMAIN new = DOMAIN tab
  BY DEF Recalculated
<1>2. ASSUME NEW i \in DOMAIN tab
      PROVE  /\ new[i] \in Row
             /\ SameReport(new[i], tab[i])
             /\ (\A r \in rs : i # Main(r)) => new[i] = tab[i]
  <2>1. tab[i] \in Row
    BY DEF Table
  <2>2. CASE \E r \in rs : i = Main(r)
    <3>1. new[i] = [tab[i] EXCEPT !.rollup = RollupOf(tab, RootOf(i))]
      BY <2>2 DEF Recalculated
    <3>2. RollupOf(tab, RootOf(i)) \in Status
      BY RollupOfIsStatus
    <3> QED
      BY <2>1, <2>2, <3>1, <3>2 DEF Row, SameReport
  <2>3. CASE ~ \E r \in rs : i = Main(r)
    BY <2>1, <2>3 DEF Recalculated, SameReport
  <2> QED
    BY <2>2, <2>3
<1>3. ASSUME NEW r \in rs, Main(r) \in DOMAIN tab
      PROVE  new[Main(r)].rollup = RollupOf(tab, r)
  <2>1. RootOf(Main(r)) = r
    BY DEF RootOf, Main
  <2>2. tab[Main(r)] \in Row
    BY <1>3 DEF Table
  <2> QED
    BY <1>3, <2>1, <2>2 DEF Recalculated, Row
<1>4. Table(new)
  <2>1. new = [i \in DOMAIN tab |-> new[i]]
    BY DEF Recalculated
  <2> QED
    BY <1>1, <1>2, <2>1 DEF Table
<1> QED
  BY <1>1, <1>2, <1>3, <1>4

\* What an UPDATE of one row followed by _recalculate_rollup leaves.
LEMMA SaveEffect ==
  ASSUME NEW i \in Ids, NEW row \in Row, TypeOK, SaveAndRollup(i, row)
  PROVE  /\ Ids' = Ids
         /\ Table(issue')
         /\ SameReport(issue'[i], row)
         /\ \A j \in Ids \ {i} : SameReport(issue'[j], issue[j])
         /\ \A r \in Roots \ {RootOf(i)} :
              Main(r) \in Ids => issue'[Main(r)].rollup = issue[Main(r)].rollup
         /\ Main(RootOf(i)) \in Ids =>
              issue'[Main(RootOf(i))].rollup = RollupOf(issue', RootOf(i))
<1> DEFINE tab == [issue EXCEPT ![i] = row]
<1> DEFINE rs == {RootOf(i)}
<1>1. /\ DOMAIN tab = Ids
      /\ Table(tab)
      /\ tab[i] = row
      /\ \A j \in Ids \ {i} : tab[j] = issue[j]
  BY DEF TypeOK, Table, Ids
<1>2. RootOf(i) \in Roots /\ rs \subseteq Roots
  BY DEF TypeOK, IssueId, RootOf
<1>3. issue' = Recalculated(tab, rs)
  BY DEF SaveAndRollup
<1> HIDE DEF tab, rs
<1>4. /\ DOMAIN issue' = DOMAIN tab
      /\ Table(issue')
      /\ \A j \in DOMAIN tab : SameReport(issue'[j], tab[j])
      /\ \A r \in rs : Main(r) \in DOMAIN tab =>
           issue'[Main(r)].rollup = RollupOf(tab, r)
      /\ \A j \in DOMAIN tab : (\A r \in rs : j # Main(r)) => issue'[j] = tab[j]
  BY <1>1, <1>2, <1>3, RecalculatedEffect
<1>5. ASSUME NEW r \in Roots \ {RootOf(i)}, Main(r) \in Ids
      PROVE  issue'[Main(r)].rollup = issue[Main(r)].rollup
  <2>1. Main(r) # Main(RootOf(i)) /\ RootOf(Main(r)) = r
    BY DEF Main, RootOf
  <2>2. Main(r) # i
    BY <2>1
  <2> QED
    BY <1>1, <1>4, <1>5, <2>1, <2>2 DEF rs
<1>6. RollupOf(issue', RootOf(i)) = RollupOf(tab, RootOf(i))
  <2>1. Family(issue', RootOf(i)) = Family(tab, RootOf(i))
    BY <1>4 DEF Family
  <2>2. \A j \in Family(issue', RootOf(i)) : issue'[j].status = tab[j].status
    BY <1>4 DEF Family, SameReport
  <2> QED
    BY <2>1, <2>2, RollupOfSame
<1> QED
  BY <1>1, <1>4, <1>5, <1>6 DEF Ids, SameReport, rs

-----------------------------------------------------------------------------
(* The operations, as effects on rows. *)

\* Row b follows row a in one verification step: a newer solution, its
\* rejection, its confirmation, or the confirmation of the assistant's advice.
Moves(a, b) ==
  \/ /\ a.status # "closed" /\ b.status = "pending_verification"
     /\ b.version \in Version /\ a.version < b.version
     /\ b.solutions = a.solutions \cup {b.version}
     /\ b.confirmed = a.confirmed
  \/ /\ a.status = "pending_verification" /\ b.status = "open"
     /\ b.version = a.version /\ b.solutions = a.solutions
     /\ b.confirmed = a.confirmed
  \/ /\ a.status = "pending_verification" /\ b.status = "closed"
     /\ b.version = a.version /\ b.solutions = a.solutions
     /\ b.confirmed = a.confirmed \cup {a.version}
  \/ /\ a.status = "open" /\ b.status = "closed"
     /\ b.version = a.version + 1
     /\ b.version \in Version
     /\ b.solutions = a.solutions \cup {b.version}
     /\ b.confirmed = a.confirmed \cup {b.version}

\* Rows that agree on all that verification is about.
SameProgress(a, b) ==
  /\ a.reporter = b.reporter
  /\ a.parent = b.parent
  /\ a.status = b.status
  /\ a.rollup = b.rollup
  /\ a.version = b.version
  /\ a.solutions = b.solutions
  /\ a.confirmed = b.confirmed

\* Every row read is a well-formed one.
LEMMA RowTyped == ASSUME TypeOK, NEW i \in Ids PROVE issue[i] \in Row
BY DEF TypeOK

\* Every Resolve step saves one row that follows the old one.
LEMMA ResolveEffect ==
  ASSUME TypeOK, Resolve
  PROVE  \E i \in Ids, row \in Row :
           /\ SaveAndRollup(i, row)
           /\ row.parent = issue[i].parent
           /\ row.reporter = issue[i].reporter
           /\ Moves(issue[i], row)
           /\ UNCHANGED session
<1> USE CoreAssumption
<1>1. ASSUME NEW i \in Ids, NEW v \in Version, issue[i].version < v,
             issue[i].status # "closed", SaveAndRollup(i, WithSolution(issue[i], v))
      PROVE  \E row \in Row : /\ SaveAndRollup(i, row)
                              /\ row.parent = issue[i].parent
                              /\ row.reporter = issue[i].reporter
                              /\ Moves(issue[i], row)
  <2> DEFINE row == WithSolution(issue[i], v)
  <2>1. issue[i] \in Row
    BY RowTyped
  <2>2. row \in Row
    BY <2>1, v \in 0..MaxVersion DEF WithSolution, Row, Version, Status
  <2>3. row.parent = issue[i].parent /\ row.reporter = issue[i].reporter
    BY <2>1 DEF WithSolution, Row
  <2>4. Moves(issue[i], row)
    BY <1>1, <2>1 DEF WithSolution, Row, Moves
  <2> QED
    BY <1>1, <2>2, <2>3, <2>4
<1>2. ASSUME NEW i \in Ids, SubmitSolution(i)
      PROVE  \E row \in Row : /\ SaveAndRollup(i, row)
                              /\ row.parent = issue[i].parent
                              /\ row.reporter = issue[i].reporter
                              /\ Moves(issue[i], row)
  <2>1. issue[i] \in Row
    BY RowTyped
  <2>2. issue[i].version + 1 \in Version /\ issue[i].version < issue[i].version + 1
    BY <1>2, <2>1 DEF SubmitSolution, Row, Version
  <2> QED
    BY <1>1, <1>2, <2>2 DEF SubmitSolution
<1>3. ASSUME NEW i \in Ids, NEW v \in Version, ImportSolution(i, v)
      PROVE  \E row \in Row : /\ SaveAndRollup(i, row)
                              /\ row.parent = issue[i].parent
                              /\ row.reporter = issue[i].reporter
                              /\ Moves(issue[i], row)
  <2>1. issue[i] \in Row
    BY RowTyped
  <2>2. issue[i].version < v
    BY <1>3, <2>1 DEF ImportSolution, Row, Version
  <2> QED
    BY <1>1, <1>3, <2>2 DEF ImportSolution
<1>4. ASSUME NEW i \in Ids, NEW who \in Reporters, ReportVerificationFailure(i, who)
      PROVE  \E row \in Row : /\ SaveAndRollup(i, row)
                              /\ row.parent = issue[i].parent
                              /\ row.reporter = issue[i].reporter
                              /\ Moves(issue[i], row)
  <2> DEFINE row == [issue[i] EXCEPT !.status = "open"]
  <2>1. issue[i] \in Row
    BY RowTyped
  <2>2. row \in Row /\ row.parent = issue[i].parent /\ row.reporter = issue[i].reporter
    BY <2>1 DEF Row, Status
  <2>3. Moves(issue[i], row)
    BY <1>4, <2>1 DEF ReportVerificationFailure, Row, Moves
  <2> QED
    BY <1>4, <2>2, <2>3 DEF ReportVerificationFailure
<1>5. ASSUME NEW i \in Ids, NEW who \in Reporters, NEW v \in Version,
             ConfirmSolution(i, who, v)
      PROVE  \E row \in Row : /\ SaveAndRollup(i, row)
                              /\ row.parent = issue[i].parent
                              /\ row.reporter = issue[i].reporter
                              /\ Moves(issue[i], row)
  <2> DEFINE row == [issue[i] EXCEPT !.status = "closed", !.confirmed = @ \cup {v}]
  <2>1. issue[i] \in Row
    BY RowTyped
  <2>2. row \in Row /\ row.parent = issue[i].parent /\ row.reporter = issue[i].reporter
    BY <2>1 DEF Row, Status
  <2>3. Moves(issue[i], row)
    BY <1>5, <2>1 DEF ConfirmSolution, Row, Moves
  <2> QED
    BY <1>5, <2>2, <2>3 DEF ConfirmSolution
<1>6. ASSUME NEW i \in Ids, NEW who \in Reporters, ConfirmAiResolution(i, who)
      PROVE  \E row \in Row : /\ SaveAndRollup(i, row)
                              /\ row.parent = issue[i].parent
                              /\ row.reporter = issue[i].reporter
                              /\ Moves(issue[i], row)
  <2> DEFINE v == issue[i].version + 1
  <2> DEFINE row == [issue[i] EXCEPT !.status = "closed", !.version = v,
                                     !.solutions = @ \cup {v},
                                     !.confirmed = @ \cup {v}]
  <2>1. issue[i] \in Row
    BY RowTyped
  <2>2. v \in Version /\ v \in 0..MaxVersion
    BY <1>6, <2>1 DEF ConfirmAiResolution, Row, Version
  <2>3. row \in Row /\ row.parent = issue[i].parent /\ row.reporter = issue[i].reporter
    BY <2>1, <2>2 DEF Row, Status
  <2>4. Moves(issue[i], row)
    BY <1>6, <2>1, <2>2 DEF ConfirmAiResolution, Row, Moves
  <2> QED
    BY <1>6, <2>3, <2>4 DEF ConfirmAiResolution
<1>7. UNCHANGED session
  BY DEF Resolve, SubmitSolution, ImportSolution, ReportVerificationFailure,
         ConfirmSolution, ConfirmAiResolution
<1> QED
  BY <1>2, <1>3, <1>4, <1>5, <1>6, <1>7 DEF Resolve

\* Chat and handoff rewrite one row and nothing that verification is about.
LEMMA ChatEffect ==
  ASSUME TypeOK,
         \/ \E i \in Ids, role \in Roles, ch \in Channels, c \in BOOLEAN :
              AppendMessage(i, role, ch, c)
         \/ HumanHandoff
  PROVE  /\ Ids' = Ids
         /\ Table(issue')
         /\ \A j \in Ids : SameProgress(issue'[j], issue[j])
         /\ UNCHANGED session
<1>1. ASSUME NEW i \in Ids, NEW row \in Row, issue' = [issue EXCEPT ![i] = row],
             SameProgress(row, issue[i])
      PROVE  /\ Ids' = Ids
             /\ Table(issue')
             /\ \A j \in Ids : SameProgress(issue'[j], issue[j])
  BY <1>1 DEF TypeOK, Ids, Table, SameProgress
<1>2. ASSUME NEW i \in Ids, NEW role \in Roles, NEW ch \in Channels, NEW c \in BOOLEAN,
             AppendMessage(i, role, ch, c)
      PROVE  \E row \in Row : issue' = [issue EXCEPT ![i] = row] /\ SameProgress(row, issue[i])
  <2> DEFINE b == issue[i].concluded \/ (role = "assistant" /\ c)
  <2> DEFINE row == [issue[i] EXCEPT !.concluded = b]
  <2>1. issue[i] \in Row
    BY RowTyped
  <2>2. b \in BOOLEAN
    OBVIOUS
  <2>3. issue' = [issue EXCEPT ![i] = row]
    BY <1>2 DEF AppendMessage
  <2> HIDE DEF b
  <2>4. row \in Row /\ SameProgress(row, issue[i])
    BY <2>1, <2>2 DEF Row, SameProgress
  <2> QED
    BY <2>3, <2>4
<1>3. ASSUME NEW i \in Ids, RequestHandoff(i) \/ MarkHandoffDelivered(i)
      PROVE  \E row \in Row : issue' = [issue EXCEPT ![i] = row] /\ SameProgress(row, issue[i])
  <2>1. issue[i] \in Row
    BY RowTyped
  <2>2. CASE RequestHandoff(i)
    <3> DEFINE row == [issue[i] EXCEPT !.handoff = "queued", !.input = FALSE]
    <3>1. issue' = [issue EXCEPT ![i] = row]
      BY <2>1, <2>2 DEF RequestHandoff, TypeOK
    <3>2. row \in Row /\ SameProgress(row, issue[i])
      BY <2>1 DEF Row, SameProgress, Handoff
    <3> QED
      BY <3>1, <3>2
  <2>3. CASE MarkHandoffDelivered(i)
    <3> DEFINE row == [issue[i] EXCEPT !.handoff = "delivered"]
    <3>1. issue' = [issue EXCEPT ![i] = row]
      BY <2>1, <2>3 DEF MarkHandoffDelivered, TypeOK
    <3>2. row \in Row /\ SameProgress(row, issue[i])
      BY <2>1 DEF Row, SameProgress, Handoff
    <3> QED
      BY <3>1, <3>2
  <2> QED
    BY <1>3, <2>2, <2>3
<1>4. UNCHANGED session
  BY DEF AppendMessage, HumanHandoff, RequestHandoff, MarkHandoffDelivered
<1> QED
  BY <1>1, <1>2, <1>3, <1>4 DEF HumanHandoff

\* The row an INSERT writes is well-formed.
LEMMA NewRowTyped ==
  ASSUME NEW who \in Reporters, NEW p \in IssueId \cup {NoIssue}
  PROVE  NewRow(who, p) \in Row
BY CoreAssumption DEF NewRow, Row, Status, Handoff

\* A report adds one row and changes no other, but for the rollup a
\* recurrence sets on its main issue.
LEMMA ReportEffect ==
  ASSUME TypeOK, FamilyIntact,
         \/ \E r \in Roots, who \in Reporters : CreateIssue(r, who)
         \/ \E i \in Ids, who \in Reporters : CreateSubissue(i, who)
  PROVE  \E i \in IssueId \ Ids, who \in Reporters, p \in Ids \cup {NoIssue} :
           /\ Ids' = Ids \cup {i}
           /\ Table(issue')
           /\ SameReport(issue'[i], NewRow(who, p))
           /\ \A j \in Ids : SameReport(issue'[j], issue[j])
           /\ \A j \in Ids : j # Main(RootOf(i)) => issue'[j] = issue[j]
           /\ issue'[Main(RootOf(i))].rollup = "open"
           /\ \/ p = NoIssue /\ i = Main(RootOf(i))
              \/ /\ p \in Ids /\ i[2] # 0 /\ RootOf(p) = RootOf(i)
                 /\ Main(RootOf(i)) \in Ids
           /\ UNCHANGED session
<1> USE CoreAssumption
<1>1. ASSUME NEW r \in Roots, NEW who \in Reporters, CreateIssue(r, who)
      PROVE  /\ Main(r) \in IssueId \ Ids
             /\ Ids' = Ids \cup {Main(r)}
             /\ Table(issue')
             /\ issue'[Main(r)] = NewRow(who, NoIssue)
             /\ \A j \in Ids : issue'[j] = issue[j]
             /\ Main(RootOf(Main(r))) = Main(r)
             /\ UNCHANGED session
  <2>1. Main(r) \in IssueId \ Ids /\ Main(RootOf(Main(r))) = Main(r)
    BY <1>1 DEF CreateIssue, Main, IssueId, RootOf
  <2>2. NewRow(who, NoIssue) \in Row
    BY NewRowTyped
  <2> QED
    BY <1>1, <2>1, <2>2 DEF CreateIssue, Inserted, Ids, Table, TypeOK
<1>2. ASSUME NEW p \in Ids, NEW who \in Reporters, CreateSubissue(p, who)
      PROVE  \E n \in 1..MaxSub :
               LET r == RootOf(p)
                   i == <<r, n>>
               IN /\ i \in IssueId \ Ids
                  /\ i # Main(r)
                  /\ Main(r) \in Ids
                  /\ Ids' = Ids \cup {i}
                  /\ Table(issue')
                  /\ issue'[i] = NewRow(who, p)
                  /\ \A j \in Ids : SameReport(issue'[j], issue[j])
                  /\ \A j \in Ids : j # Main(r) => issue'[j] = issue[j]
                  /\ issue'[Main(r)].rollup = "open"
                  /\ UNCHANGED session
  <2>1. PICK n \in 1..MaxSub :
          /\ NextSequence(RootOf(p), n)
          /\ issue' = [Inserted(issue, <<RootOf(p), n>>, NewRow(who, p))
                         EXCEPT ![Main(RootOf(p))].rollup = "open"]
    BY <1>2 DEF CreateSubissue
  <2> DEFINE r == RootOf(p)
             i == <<r, n>>
             new == Inserted(issue, i, NewRow(who, p))
  <2>2. /\ r \in Roots /\ i \in IssueId /\ i # Main(r) /\ RootOf(i) = r /\ i[2] = n
        /\ p \in IssueId
    BY DEF TypeOK, IssueId, RootOf, Main
  <2>3. i \notin Ids
    BY <2>1, <2>2 DEF NextSequence, Family, Ids
  <2>4. Main(r) \in Ids
    BY DEF FamilyIntact
  <2>5. NewRow(who, p) \in Row
    BY <2>2, NewRowTyped
  <2>6. /\ DOMAIN new = Ids \cup {i}
        /\ new[i] = NewRow(who, p)
        /\ \A j \in Ids : new[j] = issue[j]
        /\ \A j \in DOMAIN new : new[j] \in Row
        /\ new = [j \in DOMAIN new |-> new[j]]
    BY <2>3, <2>5, RowTyped DEF Inserted, Ids
  <2>7. DOMAIN new \in SUBSET IssueId /\ Main(r) \in DOMAIN new
    BY <2>2, <2>4, <2>6 DEF TypeOK
  <2> HIDE DEF new
  <2>8. issue' = [new EXCEPT ![Main(r)] = [new[Main(r)] EXCEPT !.rollup = "open"]]
    BY <2>1 DEF new
  <2>9. new[Main(r)] \in Row
    BY <2>6, <2>7
  <2>10. /\ [new[Main(r)] EXCEPT !.rollup = "open"] \in Row
         /\ SameReport([new[Main(r)] EXCEPT !.rollup = "open"], new[Main(r)])
         /\ [new[Main(r)] EXCEPT !.rollup = "open"].rollup = "open"
    BY <2>9 DEF Row, SameReport, Status
  <2>11. DOMAIN issue' = DOMAIN new /\ issue' \in [DOMAIN new -> Row]
    BY <2>6, <2>7, <2>8, <2>10
  <2>12. \A j \in Ids : j # Main(r) => issue'[j] = issue[j]
    BY <2>6, <2>8
  <2>13. SameReport(issue'[Main(r)], issue[Main(r)]) /\ issue'[Main(r)].rollup = "open"
    BY <2>4, <2>6, <2>7, <2>8, <2>10
  <2>14. issue'[i] = NewRow(who, p)
    BY <2>2, <2>6, <2>8
  <2>15. \A j \in Ids : SameReport(issue'[j], issue[j])
    BY <2>12, <2>13 DEF SameReport
  <2>16. UNCHANGED session
    BY <1>2 DEF CreateSubissue
  <2> QED
    BY <2>2, <2>3, <2>4, <2>6, <2>7, <2>11, <2>12, <2>13, <2>14, <2>15, <2>16
    DEF Ids, Table
<1>3. CASE \E r \in Roots, who \in Reporters : CreateIssue(r, who)
  <2>1. PICK r \in Roots, who \in Reporters : CreateIssue(r, who)
    BY <1>3
  <2>2. issue'[Main(r)] = NewRow(who, NoIssue)
    BY <1>1, <2>1
  <2>5. NewRow(who, NoIssue).rollup = "open"
    BY DEF NewRow
  <2>6. Main(r) \in IssueId \ Ids /\ Main(RootOf(Main(r))) = Main(r)
    BY <1>1, <2>1
  <2>3. \A j \in Ids : SameReport(issue'[j], issue[j])
    BY <1>1, <2>1 DEF SameReport
  <2>4. SameReport(issue'[Main(r)], NewRow(who, NoIssue))
    BY <1>1, <2>1 DEF SameReport
  <2>7. Main(r) \in IssueId \ Ids
    BY <2>6
  <2> WITNESS Main(r) \in IssueId \ Ids, who \in Reporters, NoIssue \in Ids \cup {NoIssue}
  <2> QED
    BY <1>1, <2>1, <2>2, <2>3, <2>4, <2>5, <2>6
<1>4. CASE \E p \in Ids, who \in Reporters : CreateSubissue(p, who)
  <2>1. PICK p \in Ids, who \in Reporters : CreateSubissue(p, who)
    BY <1>4
  <2>2. PICK n \in 1..MaxSub :
               LET r == RootOf(p)
                   i == <<r, n>>
               IN /\ i \in IssueId \ Ids
                  /\ i # Main(r)
                  /\ Main(r) \in Ids
                  /\ Ids' = Ids \cup {i}
                  /\ Table(issue')
                  /\ issue'[i] = NewRow(who, p)
                  /\ \A j \in Ids : SameReport(issue'[j], issue[j])
                  /\ \A j \in Ids : j # Main(r) => issue'[j] = issue[j]
                  /\ issue'[Main(r)].rollup = "open"
                  /\ UNCHANGED session
    BY <1>2, <2>1
  <2> DEFINE i == <<RootOf(p), n>>
  <2>3. RootOf(i) = RootOf(p) /\ i[2] = n /\ n # 0
    BY DEF RootOf
  <2>4. SameReport(issue'[i], NewRow(who, p))
    BY <2>2 DEF SameReport
  <2>5. i \in IssueId \ Ids
    BY <2>2
  <2> WITNESS i \in IssueId \ Ids, who \in Reporters, p \in Ids \cup {NoIssue}
  <2> QED
    BY <2>2, <2>3, <2>4
<1> QED
  BY <1>3, <1>4

\* The deleted rows are closed under "is the main issue of" and "is the
\* parent of", and no main issue goes unless it was selected.
LEMMA TargetsEffect ==
  ASSUME TypeOK, FamilyIntact, NEW S \in SUBSET Ids
  PROVE  /\ Targets(S) \in SUBSET Ids
         /\ S \subseteq Targets(S)
         /\ \A j \in Ids : issue[j].parent \in Targets(S) => j \in Targets(S)
         /\ \A j \in Ids : Main(RootOf(j)) \in Targets(S) => j \in Targets(S)
         /\ \A r \in Roots : Main(r) \in Targets(S) => Main(r) \in S
<1> USE CoreAssumption
<1> DEFINE Closed(T) == /\ Expanded(S) \subseteq T
                        /\ \A j \in Ids : issue[j].parent \in T => j \in T
<1>1. Targets(S) = {i \in Ids : \A T \in SUBSET Ids : Closed(T) => i \in T}
  BY DEF Targets
<1>2. S \subseteq Targets(S) /\ Expanded(S) \cap Ids \subseteq Targets(S)
  BY <1>1 DEF Expanded
<1>3. \A j \in Ids : issue[j].parent \in Targets(S) => j \in Targets(S)
  BY <1>1
<1>4. ASSUME NEW r \in Roots, Main(r) \in Ids, Main(r) \notin S
      PROVE  Main(r) \notin Targets(S)
  <2> DEFINE T == Ids \ {Main(r)}
  <2>1. RootOf(Main(r)) = r /\ Main(r)[2] = 0
    BY DEF Main, RootOf
  <2>2. Expanded(S) \subseteq T
    BY <1>4, <2>1 DEF Expanded
  <2>3. issue[Main(r)].parent = NoIssue
    BY <1>4, <2>1 DEF FamilyIntact
  <2>4. NoIssue \notin Ids
    BY DEF TypeOK, IssueId
  <2>5. \A j \in Ids : issue[j].parent \in T => j \in T
    BY <2>3, <2>4
  <2>6. T \in SUBSET Ids /\ Closed(T) /\ Main(r) \notin T
    BY <2>2, <2>5
  <2> HIDE DEF T, Closed
  <2> QED
    BY <1>1, <2>6
<1>5. Targets(S) \in SUBSET Ids
  BY <1>1
<1>6. ASSUME NEW j \in Ids, Main(RootOf(j)) \in Targets(S)
      PROVE  j \in Targets(S)
  <2>1. RootOf(j) \in Roots
    BY DEF TypeOK, IssueId, RootOf
  <2>2. Main(RootOf(j)) \in S
    BY <1>4, <1>5, <1>6, <2>1
  <2> QED
    BY <1>2, <2>2 DEF Expanded
<1> QED
  BY <1>2, <1>3, <1>4, <1>5, <1>6

\* What delete_issues leaves.
LEMMA DeleteEffect ==
  ASSUME TypeOK, FamilyIntact, NEW S \in SUBSET Ids, DeleteIssues(S)
  PROVE  LET gone == Targets(S)
         IN  /\ Ids' = Ids \ gone
             /\ Table(issue')
             /\ \A j \in Ids' : SameReport(issue'[j], issue[j])
             /\ \A r \in Roots : Main(r) \in Ids' =>
                  \/ issue'[Main(r)].rollup = RollupOf(issue', r)
                  \/ /\ \A j \in gone : RootOf(j) # r
                     /\ issue'[Main(r)].rollup = issue[Main(r)].rollup
             /\ DOMAIN session' = {r \in DOMAIN session : Main(r) \notin S}
             /\ \A r \in DOMAIN session' : session'[r] = session[r]
             /\ session' = [r \in DOMAIN session' |-> session'[r]]
<1> DEFINE gone    == Targets(S)
           kept    == [i \in Ids \ gone |-> issue[i]]
           removed == {r \in Roots : Main(r) \in S}
           touched == {r \in Roots : \E i \in gone : RootOf(i) = r}
           rs      == touched \ removed
<1>1. /\ issue' = Recalculated(kept, rs)
      /\ session' = [r \in DOMAIN session \ removed |-> session[r]]
  BY DEF DeleteIssues
<1>2. Table(kept) /\ DOMAIN kept = Ids \ gone
  BY RowTyped DEF Table, TypeOK
<1>3. rs \subseteq Roots
  OBVIOUS
<1>4. \A r \in Roots : RootOf(Main(r)) = r
  BY DEF RootOf, Main
<1>10. gone \in SUBSET Ids /\ \A r \in Roots : Main(r) \in S => Main(r) \in gone
  BY TargetsEffect
<1>11. DOMAIN session \subseteq Roots
  BY DEF TypeOK
<1>12. /\ DOMAIN session' = {r \in DOMAIN session : Main(r) \notin S}
       /\ \A r \in DOMAIN session' : session'[r] = session[r]
       /\ session' = [r \in DOMAIN session' |-> session'[r]]
  BY <1>1, <1>11
<1>13. \A r \in Roots : Main(r) \in Ids \ gone => r \notin removed
  BY <1>10
<1>14. \A r \in Roots : r \notin touched => \A j \in gone : RootOf(j) # r
  OBVIOUS
<1> HIDE DEF kept, rs, gone
<1>5. /\ DOMAIN issue' = DOMAIN kept
      /\ Table(issue')
      /\ \A i \in DOMAIN kept : SameReport(issue'[i], kept[i])
      /\ \A r \in rs : Main(r) \in DOMAIN kept => issue'[Main(r)].rollup = RollupOf(kept, r)
      /\ \A i \in DOMAIN kept : (\A r \in rs : i # Main(r)) => issue'[i] = kept[i]
  BY <1>1, <1>2, <1>3, RecalculatedEffect
<1>6. \A i \in Ids \ gone : kept[i] = issue[i]
  BY DEF kept
<1>7. \A r : RollupOf(issue', r) = RollupOf(kept, r)
  <2> TAKE r
  <2>1. Family(issue', r) = Family(kept, r)
    BY <1>5 DEF Family
  <2>2. \A j \in Family(issue', r) : issue'[j].status = kept[j].status
    BY <1>5 DEF Family, SameReport
  <2> QED
    BY <2>1, <2>2, RollupOfSame
<1>8. ASSUME NEW r \in Roots, Main(r) \in Ids \ gone
      PROVE  \/ issue'[Main(r)].rollup = RollupOf(issue', r)
             \/ /\ \A j \in gone : RootOf(j) # r
                /\ issue'[Main(r)].rollup = issue[Main(r)].rollup
  <2>1. CASE r \in rs
    BY <1>2, <1>5, <1>7, <1>8, <2>1
  <2>2. CASE r \notin rs
    <3>1. \A q \in rs : Main(r) # Main(q)
      BY <1>3, <1>4, <2>2
    <3>2. issue'[Main(r)] = issue[Main(r)]
      BY <1>2, <1>5, <1>6, <1>8, <3>1
    <3>3. r \notin touched
      BY <1>8, <1>13, <2>2 DEF rs
    <3> QED
      BY <1>14, <3>2, <3>3
  <2> QED
    BY <2>1, <2>2
<1>9. Ids' = Ids \ gone
  BY <1>2, <1>5 DEF Ids
<1> QED
  BY <1>2, <1>5, <1>6, <1>8, <1>9, <1>12 DEF gone

\* The ways a step can touch the tables.
LEMMA StepCases ==
  ASSUME [Next]_vars
  PROVE  \/ \/ \E r \in Roots, who \in Reporters : CreateIssue(r, who)
            \/ \E i \in Ids, who \in Reporters : CreateSubissue(i, who)
         \/ \/ \E i \in Ids, role \in Roles, ch \in Channels, c \in BOOLEAN :
                 AppendMessage(i, role, ch, c)
            \/ HumanHandoff
         \/ Resolve
         \/ \E S \in SUBSET Ids : DeleteIssues(S)
         \/ \E i \in Ids, t \in Threads : SaveCodexThread(i, t)
         \/ \E t \in Threads : ForgetCodexThread(t)
         \/ UNCHANGED vars
BY DEF Next, Report, Housekeeping

-----------------------------------------------------------------------------
(* Types and families: the part of the invariant everything else needs. *)

Base == TypeOK /\ FamilyIntact

\* The empty tables satisfy the base invariant.
LEMMA BaseInit == Init => Base
BY DEF Init, Base, TypeOK, FamilyIntact, Ids

\* Every operation preserves the types and the shape of the families.
LEMMA BaseStep == Base /\ [Next]_vars => Base'
<1> SUFFICES ASSUME TypeOK, FamilyIntact, [Next]_vars
             PROVE  TypeOK' /\ FamilyIntact'
  BY DEF Base
<1> USE CoreAssumption
<1>0. \A j \in Ids : /\ Main(RootOf(j)) \in IssueId /\ RootOf(j) \in Roots
                     /\ Main(RootOf(j))[2] = 0
                     /\ RootOf(Main(RootOf(j))) = RootOf(j)
  BY DEF TypeOK, IssueId, Main, RootOf
<1>1. CASE \/ \E r \in Roots, who \in Reporters : CreateIssue(r, who)
           \/ \E i \in Ids, who \in Reporters : CreateSubissue(i, who)
  <2>1. PICK i \in IssueId \ Ids, who \in Reporters, p \in Ids \cup {NoIssue} :
           /\ Ids' = Ids \cup {i}
           /\ Table(issue')
           /\ SameReport(issue'[i], NewRow(who, p))
           /\ \A j \in Ids : SameReport(issue'[j], issue[j])
           /\ \A j \in Ids : j # Main(RootOf(i)) => issue'[j] = issue[j]
           /\ issue'[Main(RootOf(i))].rollup = "open"
           /\ \/ p = NoIssue /\ i = Main(RootOf(i))
              \/ /\ p \in Ids /\ i[2] # 0 /\ RootOf(p) = RootOf(i)
                 /\ Main(RootOf(i)) \in Ids
           /\ UNCHANGED session
    BY <1>1, ReportEffect
  <2>2. issue'[i].parent = p
    BY <2>1 DEF SameReport, NewRow
  <2>3. \A j \in Ids : issue'[j].parent = issue[j].parent
    BY <2>1 DEF SameReport
  <2>4. TypeOK'
    BY <2>1 DEF TypeOK, Table, Ids
  <2>5. i = Main(RootOf(i)) => i[2] = 0
    BY DEF Main
  <2>6. FamilyIntact'
    BY <2>1, <2>2, <2>3, <2>5 DEF FamilyIntact
  <2> QED
    BY <2>4, <2>6
<1>2. CASE \/ \E i \in Ids, role \in Roles, ch \in Channels, c \in BOOLEAN :
                AppendMessage(i, role, ch, c)
           \/ HumanHandoff
  <2>1. /\ Ids' = Ids
        /\ Table(issue')
        /\ \A j \in Ids : SameProgress(issue'[j], issue[j])
        /\ UNCHANGED session
    BY <1>2, ChatEffect
  <2> QED
    BY <2>1 DEF TypeOK, Table, Ids, FamilyIntact, SameProgress
<1>3. CASE Resolve
  <2>1. PICK i \in Ids, row \in Row :
           /\ SaveAndRollup(i, row)
           /\ row.parent = issue[i].parent
           /\ UNCHANGED session
    BY <1>3, ResolveEffect
  <2>2. /\ Ids' = Ids
        /\ Table(issue')
        /\ SameReport(issue'[i], row)
        /\ \A j \in Ids \ {i} : SameReport(issue'[j], issue[j])
    BY <2>1, SaveEffect
  <2>3. \A j \in Ids : issue'[j].parent = issue[j].parent
    BY <2>1, <2>2 DEF SameReport
  <2>4. TypeOK'
    BY <2>1, <2>2 DEF TypeOK, Table, Ids
  <2>5. FamilyIntact'
    BY <2>2, <2>3 DEF FamilyIntact
  <2> QED
    BY <2>4, <2>5
<1>4. CASE \E S \in SUBSET Ids : DeleteIssues(S)
  <2>1. PICK S \in SUBSET Ids : DeleteIssues(S)
    BY <1>4
  <2> DEFINE gone == Targets(S)
  <2>2. /\ gone \in SUBSET Ids
        /\ \A j \in Ids : issue[j].parent \in gone => j \in gone
        /\ \A j \in Ids : Main(RootOf(j)) \in gone => j \in gone
    BY TargetsEffect
  <2>3. /\ Ids' = Ids \ gone
        /\ Table(issue')
        /\ \A j \in Ids' : SameReport(issue'[j], issue[j])
        /\ DOMAIN session' = {r \in DOMAIN session : Main(r) \notin S}
        /\ \A r \in DOMAIN session' : session'[r] = session[r]
        /\ session' = [r \in DOMAIN session' |-> session'[r]]
    BY <2>1, DeleteEffect
  <2> HIDE DEF gone
  <2>4. \A j \in Ids' : issue'[j].parent = issue[j].parent
    BY <2>3 DEF SameReport
  <2>5. DOMAIN session' \in SUBSET Roots /\ session' \in [DOMAIN session' -> Threads]
    BY <2>3 DEF TypeOK
  <2>6. TypeOK'
    BY <2>3, <2>5 DEF TypeOK, Table, Ids
  <2>7. FamilyIntact'
    BY <2>2, <2>3, <2>4 DEF FamilyIntact
  <2> QED
    BY <2>6, <2>7
<1>5. CASE \E i \in Ids, t \in Threads : SaveCodexThread(i, t)
  <2>1. PICK i \in Ids, t \in Threads : SaveCodexThread(i, t)
    BY <1>5
  <2>2. DOMAIN session' \in SUBSET Roots /\ session' \in [DOMAIN session' -> Threads]
    BY <1>0, <2>1 DEF TypeOK, SaveCodexThread
  <2> QED
    BY <2>1, <2>2 DEF SaveCodexThread, TypeOK, FamilyIntact, Ids
<1>6. CASE \E t \in Threads : ForgetCodexThread(t)
  <2>1. DOMAIN session' \in SUBSET Roots /\ session' \in [DOMAIN session' -> Threads]
    BY <1>6 DEF TypeOK, ForgetCodexThread
  <2> QED
    BY <1>6, <2>1 DEF ForgetCodexThread, TypeOK, FamilyIntact, Ids
<1>7. CASE UNCHANGED vars
  BY <1>7 DEF vars, TypeOK, FamilyIntact, Ids
<1> QED
  BY <1>1, <1>2, <1>3, <1>4, <1>5, <1>6, <1>7, StepCases

\* The tables always hold values of their columns' types.
THEOREM TypeCorrect == Spec => []TypeOK
<1>1. Base => TypeOK
  BY DEF Base
<1> QED
  BY <1>1, BaseInit, BaseStep, PTL DEF Spec

\* No deletion leaves a sub-issue without its main issue or its parent.
THEOREM FamiliesStayIntact == Spec => []FamilyIntact
<1>1. Base => FamilyIntact
  BY DEF Base
<1> QED
  BY <1>1, BaseInit, BaseStep, PTL DEF Spec

\* The base invariant as a fact every later theorem rests on.
LEMMA BaseAlways == Spec => []Base
BY BaseInit, BaseStep, PTL DEF Spec

-----------------------------------------------------------------------------
(* The rollup. *)

\* Every operation leaves every main issue with a current rollup.
LEMMA RollupStep == Base /\ RollupIsCurrent /\ [Next]_vars => RollupIsCurrent'
<1> SUFFICES ASSUME TypeOK, FamilyIntact, RollupIsCurrent, [Next]_vars
             PROVE  RollupIsCurrent'
  BY DEF Base
<1>0. /\ \A r \in Roots : RootOf(Main(r)) = r
      /\ \A q, r \in Roots : Main(q) = Main(r) => q = r
      /\ \A j \in Ids : RootOf(j) \in Roots
  BY DEF RootOf, Main, TypeOK, IssueId
<1> SUFFICES ASSUME NEW r \in Roots, Main(r) \in Ids'
             PROVE  issue'[Main(r)].rollup = RollupOf(issue', r)
  BY DEF RollupIsCurrent
\* A step that keeps the family, its statuses and its rollup is harmless.
<1>1. ASSUME Main(r) \in Ids,
             issue'[Main(r)].rollup = issue[Main(r)].rollup,
             Family(issue', r) = Family(issue, r),
             \A j \in Family(issue, r) : issue'[j].status = issue[j].status
      PROVE  issue'[Main(r)].rollup = RollupOf(issue', r)
  <2>1. RollupOf(issue', r) = RollupOf(issue, r)
    BY <1>1, RollupOfSame
  <2> QED
    BY <1>1, <2>1 DEF RollupIsCurrent
<1>2. CASE \/ \E q \in Roots, who \in Reporters : CreateIssue(q, who)
           \/ \E i \in Ids, who \in Reporters : CreateSubissue(i, who)
  <2>1. PICK i \in IssueId \ Ids, who \in Reporters, p \in Ids \cup {NoIssue} :
           /\ Ids' = Ids \cup {i}
           /\ SameReport(issue'[i], NewRow(who, p))
           /\ \A j \in Ids : SameReport(issue'[j], issue[j])
           /\ \A j \in Ids : j # Main(RootOf(i)) => issue'[j] = issue[j]
           /\ issue'[Main(RootOf(i))].rollup = "open"
           /\ (p = NoIssue /\ i = Main(RootOf(i))) \/ Main(RootOf(i)) \in Ids
    BY <1>2, ReportEffect
  <2>2. RootOf(i) \in Roots
    BY DEF RootOf, IssueId
  <2>3. CASE r = RootOf(i)
    <3>1. NewRow(who, p).status = "open"
      BY DEF NewRow
    <3>2. i \in Family(issue', r) /\ issue'[i].status = "open"
      BY <2>1, <2>3, <3>1 DEF Family, Ids, SameReport
    <3> QED
      BY <2>1, <2>3, <3>2 DEF RollupOf
  <2>4. CASE r # RootOf(i)
    <3>1. Main(r) # i /\ Main(r) # Main(RootOf(i))
      BY <1>0, <2>2, <2>4
    <3>2. Family(issue', r) = Family(issue, r)
      BY <2>1, <2>4 DEF Family, Ids
    <3>3. \A j \in Family(issue, r) : issue'[j].status = issue[j].status
      BY <2>1 DEF Family, Ids, SameReport
    <3>4. Main(r) \in Ids /\ issue'[Main(r)] = issue[Main(r)]
      BY <2>1, <3>1
    <3> QED
      BY <1>1, <3>2, <3>3, <3>4
  <2> QED
    BY <2>3, <2>4
<1>3. CASE \/ \E i \in Ids, role \in Roles, ch \in Channels, c \in BOOLEAN :
                AppendMessage(i, role, ch, c)
           \/ HumanHandoff
  <2>1. Ids' = Ids /\ \A j \in Ids : SameProgress(issue'[j], issue[j])
    BY <1>3, ChatEffect
  <2> QED
    BY <1>1, <2>1 DEF SameProgress, Family, Ids
<1>4. CASE Resolve
  <2>1. PICK i \in Ids, row \in Row : SaveAndRollup(i, row)
    BY <1>4, ResolveEffect
  <2>2. /\ Ids' = Ids
        /\ \A j \in Ids \ {i} : SameReport(issue'[j], issue[j])
        /\ \A q \in Roots \ {RootOf(i)} :
             Main(q) \in Ids => issue'[Main(q)].rollup = issue[Main(q)].rollup
        /\ Main(RootOf(i)) \in Ids =>
             issue'[Main(RootOf(i))].rollup = RollupOf(issue', RootOf(i))
    BY <2>1, SaveEffect
  <2>3. CASE r = RootOf(i)
    BY <2>2, <2>3
  <2>4. CASE r # RootOf(i)
    <3>1. Family(issue', r) = Family(issue, r)
      BY <2>2 DEF Family, Ids
    <3>2. \A j \in Family(issue, r) : issue'[j].status = issue[j].status
      BY <2>2, <2>4 DEF Family, Ids, SameReport
    <3>3. Main(r) \in Ids /\ issue'[Main(r)].rollup = issue[Main(r)].rollup
      BY <2>2, <2>4
    <3> QED
      BY <1>1, <3>1, <3>2, <3>3
  <2> QED
    BY <2>3, <2>4
<1>5. CASE \E S \in SUBSET Ids : DeleteIssues(S)
  <2>1. PICK S \in SUBSET Ids : DeleteIssues(S)
    BY <1>5
  <2> DEFINE gone == Targets(S)
  <2>2. /\ Ids' = Ids \ gone
        /\ \A j \in Ids' : SameReport(issue'[j], issue[j])
        /\ \/ issue'[Main(r)].rollup = RollupOf(issue', r)
           \/ /\ \A j \in gone : RootOf(j) # r
              /\ issue'[Main(r)].rollup = issue[Main(r)].rollup
    BY <2>1, DeleteEffect
  <2>3. ASSUME \A j \in gone : RootOf(j) # r,
               issue'[Main(r)].rollup = issue[Main(r)].rollup
        PROVE  issue'[Main(r)].rollup = RollupOf(issue', r)
    <3>1. Family(issue', r) = Family(issue, r)
      BY <2>2, <2>3 DEF Family, Ids
    <3>2. \A j \in Family(issue, r) : issue'[j].status = issue[j].status
      BY <2>2, <3>1 DEF Family, Ids, SameReport
    <3> QED
      BY <1>1, <2>2, <2>3, <3>1, <3>2
  <2> QED
    BY <2>2, <2>3
<1>6. CASE \/ \E i \in Ids, t \in Threads : SaveCodexThread(i, t)
           \/ \E t \in Threads : ForgetCodexThread(t)
           \/ UNCHANGED vars
  <2>1. issue' = issue
    BY <1>6 DEF SaveCodexThread, ForgetCodexThread, vars
  <2> QED
    BY <1>1, <2>1 DEF Ids
<1> QED
  BY <1>2, <1>3, <1>4, <1>5, <1>6, StepCases

\* The stored rollup of every main issue is the summary of its family.
THEOREM RollupStaysCurrent == Spec => []RollupIsCurrent
<1>1. Init => RollupIsCurrent
  BY DEF Init, RollupIsCurrent, Ids
<1> QED
  BY <1>1, BaseAlways, RollupStep, PTL DEF Spec

-----------------------------------------------------------------------------
(* Versions and confirmations. *)

\* A row whose versions and confirmation fit together.
Sound(row) ==
  /\ row.version = 0 => row.solutions = {}
  /\ row.version # 0 => row.version \in row.solutions
  /\ \A v \in row.solutions : v <= row.version
  /\ row.status = "closed" => row.confirmed = {row.version}
  /\ row.status # "closed" => row.confirmed = {}
  /\ row.status = "pending_verification" => row.version # 0

AllSound == \A i \in Ids : Sound(issue[i])

\* Soundness of a row reads only its progress columns.
LEMMA SoundOfSame ==
  ASSUME NEW a, NEW b, a.status = b.status, a.version = b.version,
         a.solutions = b.solutions, a.confirmed = b.confirmed, Sound(a)
  PROVE  Sound(b)
BY DEF Sound

\* A saved row that follows a sound one is sound.
LEMMA SoundMoves ==
  ASSUME NEW a \in Row, NEW b \in Row, Moves(a, b), Sound(a)
  PROVE  Sound(b)
<1> USE CoreAssumption
<1>1. /\ a.version \in Nat /\ a.solutions \subseteq Nat
      /\ b.version \in Nat
  BY DEF Row, Version
<1>2. CASE /\ a.status # "closed" /\ b.status = "pending_verification"
           /\ b.version \in Version /\ a.version < b.version
           /\ b.solutions = a.solutions \cup {b.version}
           /\ b.confirmed = a.confirmed
  BY <1>1, <1>2 DEF Sound, Version
<1>3. CASE /\ a.status = "pending_verification" /\ b.status = "open"
           /\ b.version = a.version /\ b.solutions = a.solutions
           /\ b.confirmed = a.confirmed
  BY <1>1, <1>3 DEF Sound
<1>4. CASE /\ a.status = "pending_verification" /\ b.status = "closed"
           /\ b.version = a.version /\ b.solutions = a.solutions
           /\ b.confirmed = a.confirmed \cup {a.version}
  BY <1>1, <1>4 DEF Sound
<1>5. CASE /\ a.status = "open" /\ b.status = "closed"
           /\ b.version = a.version + 1
           /\ b.version \in Version
           /\ b.solutions = a.solutions \cup {b.version}
           /\ b.confirmed = a.confirmed \cup {b.version}
  BY <1>1, <1>5 DEF Sound, Version
<1> QED
  BY <1>2, <1>3, <1>4, <1>5 DEF Moves

\* Every operation leaves every row sound.
LEMMA SoundStep == Base /\ AllSound /\ [Next]_vars => AllSound'
<1> SUFFICES ASSUME TypeOK, FamilyIntact, AllSound, [Next]_vars,
                    NEW j \in Ids'
             PROVE  Sound(issue'[j])
  BY DEF Base, AllSound
<1>1. ASSUME j \in Ids, SameReport(issue'[j], issue[j])
      PROVE  Sound(issue'[j])
  BY <1>1, SoundOfSame DEF AllSound, SameReport
<1>2. CASE \/ \E q \in Roots, who \in Reporters : CreateIssue(q, who)
           \/ \E i \in Ids, who \in Reporters : CreateSubissue(i, who)
  <2>1. PICK i \in IssueId \ Ids, who \in Reporters, p \in Ids \cup {NoIssue} :
           /\ Ids' = Ids \cup {i}
           /\ SameReport(issue'[i], NewRow(who, p))
           /\ \A k \in Ids : SameReport(issue'[k], issue[k])
    BY <1>2, ReportEffect
  <2>2. Sound(NewRow(who, p))
    BY DEF Sound, NewRow
  <2>3. Sound(issue'[i])
    BY <2>1, <2>2, SoundOfSame DEF SameReport
  <2> QED
    BY <1>1, <2>1, <2>3
<1>3. CASE \/ \E i \in Ids, role \in Roles, ch \in Channels, c \in BOOLEAN :
                AppendMessage(i, role, ch, c)
           \/ HumanHandoff
  <2>1. Ids' = Ids /\ SameProgress(issue'[j], issue[j])
    BY <1>3, ChatEffect
  <2> QED
    BY <2>1, SoundOfSame DEF SameProgress, AllSound
<1>4. CASE Resolve
  <2>1. PICK i \in Ids, row \in Row : SaveAndRollup(i, row) /\ Moves(issue[i], row)
    BY <1>4, ResolveEffect
  <2>2. /\ Ids' = Ids
        /\ SameReport(issue'[i], row)
        /\ \A k \in Ids \ {i} : SameReport(issue'[k], issue[k])
    BY <2>1, SaveEffect
  <2>3. Sound(row)
    BY <2>1, SoundMoves, RowTyped DEF AllSound
  <2>4. Sound(issue'[i])
    BY <2>2, <2>3, SoundOfSame DEF SameReport
  <2> QED
    BY <1>1, <2>2, <2>4
<1>5. CASE \E S \in SUBSET Ids : DeleteIssues(S)
  <2>1. PICK S \in SUBSET Ids : DeleteIssues(S)
    BY <1>5
  <2>2. Ids' = Ids \ Targets(S) /\ \A k \in Ids' : SameReport(issue'[k], issue[k])
    BY <2>1, DeleteEffect
  <2> QED
    BY <1>1, <2>2
<1>6. CASE \/ \E i \in Ids, t \in Threads : SaveCodexThread(i, t)
           \/ \E t \in Threads : ForgetCodexThread(t)
           \/ UNCHANGED vars
  BY <1>6 DEF SaveCodexThread, ForgetCodexThread, vars, AllSound, Ids
<1> QED
  BY <1>2, <1>3, <1>4, <1>5, <1>6, StepCases

\* All rows are sound in every reachable state.
LEMMA SoundAlways == Spec => []AllSound
<1>1. Init => AllSound
  BY DEF Init, AllSound, Ids
<1> QED
  BY <1>1, BaseAlways, SoundStep, PTL DEF Spec

\* latest_solution_version is the newest stored solution.
THEOREM LatestStaysStored == Spec => []LatestIsStored
<1>1. AllSound => LatestIsStored
  BY DEF AllSound, Sound, LatestIsStored
<1> QED
  BY <1>1, SoundAlways, PTL

\* A closed issue is closed by a confirmation of its latest solution.
THEOREM ClosedStaysConfirmed == Spec => []ClosedMeansLatestConfirmed
<1>1. AllSound => ClosedMeansLatestConfirmed
  BY DEF AllSound, Sound, ClosedMeansLatestConfirmed
<1> QED
  BY <1>1, SoundAlways, PTL

-----------------------------------------------------------------------------
(* Conversations. *)

\* Every operation leaves each conversation with its main issue.
LEMMA SessionStep == Base /\ SessionsAreOwned /\ [Next]_vars => SessionsAreOwned'
<1> SUFFICES ASSUME TypeOK, FamilyIntact, SessionsAreOwned, [Next]_vars
             PROVE  SessionsAreOwned'
  BY DEF Base
<1>1. ASSUME Ids \subseteq Ids', UNCHANGED session
      PROVE  SessionsAreOwned'
  BY <1>1 DEF SessionsAreOwned
<1>2. CASE \/ \E q \in Roots, who \in Reporters : CreateIssue(q, who)
           \/ \E i \in Ids, who \in Reporters : CreateSubissue(i, who)
  BY <1>1, <1>2, ReportEffect
<1>3. CASE \/ \E i \in Ids, role \in Roles, ch \in Channels, c \in BOOLEAN :
                AppendMessage(i, role, ch, c)
           \/ HumanHandoff
  BY <1>1, <1>3, ChatEffect
<1>4. CASE Resolve
  BY <1>1, <1>4, ResolveEffect, SaveEffect
<1>5. CASE \E S \in SUBSET Ids : DeleteIssues(S)
  <2>1. PICK S \in SUBSET Ids : DeleteIssues(S)
    BY <1>5
  <2>2. /\ Ids' = Ids \ Targets(S)
        /\ DOMAIN session' = {r \in DOMAIN session : Main(r) \notin S}
        /\ \A r \in DOMAIN session' : session'[r] = session[r]
    BY <2>1, DeleteEffect
  <2>3. \A r \in DOMAIN session' : Main(r) \in Ids'
    BY <2>2, TargetsEffect DEF SessionsAreOwned, TypeOK
  <2> QED
    BY <2>2, <2>3 DEF SessionsAreOwned
<1>6. CASE \E i \in Ids, t \in Threads : SaveCodexThread(i, t)
  <2>1. PICK i \in Ids, t \in Threads : SaveCodexThread(i, t)
    BY <1>6
  <2>2. Main(RootOf(i)) \in Ids
    BY DEF FamilyIntact
  <2>3. DOMAIN session' = DOMAIN session \cup {RootOf(i)} /\ Ids' = Ids
    BY <2>1 DEF SaveCodexThread, Ids
  <2>4. \A r \in DOMAIN session' : Main(r) \in Ids'
    BY <2>2, <2>3 DEF SessionsAreOwned
  <2>5. \A q, r \in DOMAIN session' : session'[q] = session'[r] => q = r
    BY <2>1, <2>3 DEF SessionsAreOwned, SaveCodexThread
  <2> QED
    BY <2>4, <2>5 DEF SessionsAreOwned
<1>7. CASE \E t \in Threads : ForgetCodexThread(t)
  BY <1>7 DEF ForgetCodexThread, SessionsAreOwned, Ids
<1>8. CASE UNCHANGED vars
  BY <1>8 DEF vars, SessionsAreOwned, Ids
<1> QED
  BY <1>2, <1>3, <1>4, <1>5, <1>6, <1>7, <1>8, StepCases

\* No conversation outlives its family or serves two.
THEOREM SessionsStayOwned == Spec => []SessionsAreOwned
<1>1. Init => SessionsAreOwned
  BY DEF Init, SessionsAreOwned
<1> QED
  BY <1>1, BaseAlways, SessionStep, PTL DEF Spec

-----------------------------------------------------------------------------
(* History. *)

\* What one step may do to an issue that exists before and after it.
Grows(a, b) ==
  /\ a.version <= b.version
  /\ a.solutions \subseteq b.solutions
  /\ a.confirmed \subseteq b.confirmed
  /\ a.status = "closed" => b.status = "closed"

\* A row with the same progress columns has lost nothing.
LEMMA GrowsSame ==
  ASSUME NEW a \in Row, NEW b, b.status = a.status, b.version = a.version,
         b.solutions = a.solutions, b.confirmed = a.confirmed
  PROVE  Grows(a, b)
BY CoreAssumption DEF Grows, Row

\* No operation takes progress from a row that survives it.
LEMMA HistoryStep ==
  ASSUME TypeOK, FamilyIntact, [Next]_vars, NEW j \in Ids \cap Ids'
  PROVE  Grows(issue[j], issue'[j])
<1>1. ASSUME SameReport(issue'[j], issue[j])
      PROVE  Grows(issue[j], issue'[j])
  BY <1>1, GrowsSame, RowTyped DEF SameReport
<1>2. CASE \/ \E q \in Roots, who \in Reporters : CreateIssue(q, who)
           \/ \E i \in Ids, who \in Reporters : CreateSubissue(i, who)
  BY <1>1, <1>2, ReportEffect
<1>3. CASE \/ \E i \in Ids, role \in Roles, ch \in Channels, c \in BOOLEAN :
                AppendMessage(i, role, ch, c)
           \/ HumanHandoff
  <2>1. SameProgress(issue'[j], issue[j])
    BY <1>3, ChatEffect
  <2> QED
    BY <2>1, GrowsSame, RowTyped DEF SameProgress
<1>4. CASE Resolve
  <2>1. PICK i \in Ids, row \in Row : SaveAndRollup(i, row) /\ Moves(issue[i], row)
    BY <1>4, ResolveEffect
  <2>2. /\ SameReport(issue'[i], row)
        /\ \A k \in Ids \ {i} : SameReport(issue'[k], issue[k])
    BY <2>1, SaveEffect
  <2>3. issue[i] \in Row
    BY RowTyped
  <2>4. Grows(issue[i], row)
    BY <2>1, <2>3, CoreAssumption DEF Moves, Grows, Row, Version
  <2>5. Grows(issue[i], issue'[i])
    BY <2>2, <2>4 DEF Grows, SameReport
  <2> QED
    BY <1>1, <2>2, <2>5
<1>5. CASE \E S \in SUBSET Ids : DeleteIssues(S)
  BY <1>1, <1>5, DeleteEffect
<1>6. CASE \/ \E i \in Ids, t \in Threads : SaveCodexThread(i, t)
           \/ \E t \in Threads : ForgetCodexThread(t)
           \/ UNCHANGED vars
  <2>1. issue' = issue
    BY <1>6 DEF SaveCodexThread, ForgetCodexThread, vars
  <2> QED
    BY <2>1, GrowsSame, RowTyped
<1> QED
  BY <1>2, <1>3, <1>4, <1>5, <1>6, StepCases

\* Versions, solutions, confirmations and closure are never taken back.
THEOREM HistoryIsKept == Spec => HistoryOnlyGrows
<1>1. Base /\ [Next]_vars =>
        [\A i \in Ids \cap DOMAIN issue' :
            /\ issue[i].version <= issue'[i].version
            /\ issue[i].solutions \subseteq issue'[i].solutions
            /\ issue[i].confirmed \subseteq issue'[i].confirmed
            /\ issue[i].status = "closed" => issue'[i].status = "closed"]_vars
  BY HistoryStep DEF Base, Grows, Ids
<1> QED
  BY <1>1, BaseAlways, PTL DEF Spec, HistoryOnlyGrows

-----------------------------------------------------------------------------
(* The store implements the contract. *)

\* A family is solved in the contract's sense when its RollupOf is closed.
LEMMA SolvedIsRollup ==
  ASSUME NEW r \in Roots, TypeOK
  PROVE  r \in Contract!Solved(phase) <=> Main(r) \in Ids /\ RollupOf(issue, r) = "closed"
<1> USE CoreAssumption
<1>1. Main(r) \in IssueId /\ \A n \in 0..MaxSub : <<r, n>> \in IssueId
  BY DEF Main, IssueId
<1>2. \A i \in Ids : issue[i].status \in {"open", "pending_verification", "closed"}
  BY RowTyped DEF Row, Status
<1>3. \A i \in Family(issue, r) : \E n \in 0..MaxSub : i = <<r, n>> /\ i \in Ids
  BY DEF Family, Ids, RootOf, TypeOK, IssueId
<1>4. \A n \in 0..MaxSub : <<r, n>> \in Ids => <<r, n>> \in Family(issue, r)
  BY DEF Family, Ids, RootOf
<1>5. RollupOf(issue, r) = "closed" <=> \A i \in Family(issue, r) : issue[i].status = "closed"
  BY <1>2, <1>3 DEF RollupOf
<1>6. (\A i \in Family(issue, r) : issue[i].status = "closed")
      <=> \A n \in 0..MaxSub : <<r, n>> \in Ids => issue[<<r, n>>].status = "closed"
  BY <1>3, <1>4
<1>7. \A n \in 0..MaxSub :
        /\ phase[<<r, n>>] = IF <<r, n>> \in Ids THEN issue[<<r, n>>].status ELSE "absent"
        /\ phase[<<r, n>>] \in {"absent", "closed"}
             <=> (<<r, n>> \in Ids => issue[<<r, n>>].status = "closed")
  BY <1>1, <1>2 DEF phase
<1>8. phase[<<r, 0>>] = "closed" <=> Main(r) \in Ids /\ issue[Main(r)].status = "closed"
  BY <1>7 DEF Main
<1>9. Main(r) = <<r, 0>> /\ 0 \in 0..MaxSub
  BY DEF Main
<1> QED
  BY <1>5, <1>6, <1>7, <1>8, <1>9 DEF Contract!Solved

\* The families the store shows as solved are those of the contract.
LEMMA SolvedShown ==
  TypeOK /\ RollupIsCurrent => solved = Contract!Solved(phase)
BY SolvedIsRollup DEF solved, RollupIsCurrent, Contract!Solved

\* The same of the state after a step.
LEMMA SolvedShownNext ==
  TypeOK' /\ RollupIsCurrent' => Contract!Refresh
<1>1. (TypeOK /\ RollupIsCurrent => solved = Contract!Solved(phase))'
  BY SolvedShown, PTL
<1> QED
  BY <1>1 DEF Contract!Refresh

\* Writing back what a function already holds leaves it as it is.
LEMMA ExceptSame ==
  ASSUME NEW D, NEW f, f = [x \in D |-> f[x]], NEW d, NEW e, e = f[d]
  PROVE  [f EXCEPT ![d] = e] = f
OBVIOUS

\* A function that gets one new value is the one with that value at its place.
LEMMA GetsOne ==
  ASSUME NEW D, NEW f, NEW g, f = [x \in D |-> f[x]], g = [x \in D |-> g[x]],
         NEW d \in D, NEW e, g[d] = e, \A x \in D \ {d} : g[x] = f[x]
  PROVE  g = [f EXCEPT ![d] = e]
OBVIOUS

\* The contract's steps, and the one it forbids.
ContractOrAdvice == Contract!Next \/ \E i \in IssueId : ClosesByAdvice(i)

\* The initial tables map to the initial state of the contract.
LEMMA ContractInit == Init => Contract!Init
BY CoreAssumption DEF Init, Ids, Contract!Init, phase, latest, solved, IssueId, Contract!IssueId

\* Every operation maps to such a step or to a stutter.
LEMMA ContractStep ==
  Base /\ Base' /\ RollupIsCurrent' /\ [Next]_vars => [ContractOrAdvice]_<<phase, latest, solved>>
<1> SUFFICES ASSUME TypeOK, FamilyIntact, TypeOK', RollupIsCurrent', [Next]_vars
             PROVE  ContractOrAdvice \/ UNCHANGED <<phase, latest, solved>>
  BY DEF Base
<1> USE CoreAssumption
<1>0. Contract!Refresh /\ Contract!IssueId = IssueId
  BY SolvedShownNext DEF IssueId, Contract!IssueId
<1>1. /\ Ids \subseteq IssueId
      /\ \A j \in Ids : phase[j] = issue[j].status /\ latest[j] = issue[j].version
      /\ \A j \in IssueId \ Ids : phase[j] = "absent" /\ latest[j] = 0
      /\ \A j \in Ids : issue[j].status # "absent"
  BY RowTyped DEF TypeOK, phase, latest, Row, Status
<1>2. /\ phase' = [j \in IssueId |-> IF j \in Ids' THEN issue'[j].status ELSE "absent"]
      /\ latest' = [j \in IssueId |-> IF j \in Ids' THEN issue'[j].version ELSE 0]
      /\ phase = [j \in IssueId |-> phase[j]]
      /\ latest = [j \in IssueId |-> latest[j]]
  BY DEF phase, latest
<1>3. CASE \/ \E q \in Roots, who \in Reporters : CreateIssue(q, who)
           \/ \E i \in Ids, who \in Reporters : CreateSubissue(i, who)
  <2>1. PICK i \in IssueId \ Ids, who \in Reporters, p \in Ids \cup {NoIssue} :
           /\ Ids' = Ids \cup {i}
           /\ SameReport(issue'[i], NewRow(who, p))
           /\ \A k \in Ids : SameReport(issue'[k], issue[k])
    BY <1>3, ReportEffect
  <2>2. issue'[i].status = "open" /\ issue'[i].version = 0
    BY <2>1 DEF SameReport, NewRow
  <2>3. \A k \in Ids : issue'[k].status = issue[k].status /\ issue'[k].version = issue[k].version
    BY <2>1 DEF SameReport
  <2>7. ASSUME NEW j \in IssueId
        PROVE  /\ phase'[j] = IF j = i THEN "open" ELSE phase[j]
               /\ latest'[j] = latest[j]
    <3>1. /\ phase'[j] = IF j \in Ids' THEN issue'[j].status ELSE "absent"
          /\ latest'[j] = IF j \in Ids' THEN issue'[j].version ELSE 0
      BY <1>2
    <3>2. CASE j \in Ids
      BY <1>1, <2>1, <2>3, <3>1, <3>2
    <3>3. CASE j \notin Ids
      BY <1>1, <2>1, <2>2, <3>1, <3>3
    <3> QED BY <3>2, <3>3
  <2>8. /\ phase' = [j \in IssueId |-> phase'[j]]
        /\ latest' = [j \in IssueId |-> latest'[j]]
    BY <1>2
  <2>4. phase' = [phase EXCEPT ![i] = "open"]
    <3>1. i \in IssueId /\ phase'[i] = "open" /\ \A j \in IssueId \ {i} : phase'[j] = phase[j]
      BY <2>7
    <3> QED BY ONLY <1>2, <2>8, <3>1, GetsOne
  <2>5. latest' = latest
    BY ONLY <1>2, <2>7, <2>8
  <2>6. Contract!Report(i)
    BY <1>0, <1>1, <2>4, <2>5 DEF Contract!Report
  <2> QED
    BY <1>0, <2>6 DEF Contract!Next, ContractOrAdvice
<1>4. CASE \/ \E i \in Ids, role \in Roles, ch \in Channels, c \in BOOLEAN :
                AppendMessage(i, role, ch, c)
           \/ HumanHandoff
  <2>1. Ids' = Ids /\ \A j \in Ids : SameProgress(issue'[j], issue[j])
    BY <1>4, ChatEffect
  <2>4. \A j \in Ids : issue'[j].status = issue[j].status /\ issue'[j].version = issue[j].version
    BY <2>1 DEF SameProgress
  <2>2. phase' = phase /\ latest' = latest
    <3>1. \A j \in IssueId : phase'[j] = phase[j] /\ latest'[j] = latest[j]
      BY <1>1, <1>2, <2>1, <2>4
    <3>2. /\ phase' = [j \in IssueId |-> phase'[j]]
          /\ latest' = [j \in IssueId |-> latest'[j]]
      BY <1>2
    <3> QED BY ONLY <1>2, <3>1, <3>2
  <2>3. solved' = solved
    BY <1>1, <2>1 DEF solved, SameProgress
  <2> QED
    BY <2>2, <2>3
<1>5. CASE Resolve
  <2>1. PICK i \in Ids, row \in Row : SaveAndRollup(i, row) /\ Moves(issue[i], row)
    BY <1>5, ResolveEffect
  <2>2. /\ Ids' = Ids
        /\ SameReport(issue'[i], row)
        /\ \A k \in Ids \ {i} : SameReport(issue'[k], issue[k])
    BY <2>1, SaveEffect
  <2>3. i \in IssueId /\ issue[i] \in Row
    BY <1>1, RowTyped
  <2>6. /\ issue'[i].status = row.status /\ issue'[i].version = row.version
        /\ \A k \in Ids \ {i} : /\ issue'[k].status = issue[k].status
                              /\ issue'[k].version = issue[k].version
    BY <2>2 DEF SameReport
  <2>4. /\ phase' = [phase EXCEPT ![i] = row.status]
        /\ latest' = [latest EXCEPT ![i] = row.version]
    <3>1. ASSUME NEW j \in IssueId
          PROVE  /\ phase'[j] = IF j = i THEN row.status ELSE phase[j]
                 /\ latest'[j] = IF j = i THEN row.version ELSE latest[j]
      BY <1>1, <1>2, <2>2, <2>6
    <3>2. /\ phase' = [j \in IssueId |-> phase'[j]]
          /\ latest' = [j \in IssueId |-> latest'[j]]
      BY <1>2
    <3> QED
      BY <1>2, <2>3, <3>1, <3>2
  <2>5. Contract!Propose(i) \/ Contract!Reject(i) \/ Contract!Accept(i) \/ ClosesByAdvice(i)
    <3>1. CASE /\ issue[i].status # "closed" /\ row.status = "pending_verification"
               /\ row.version \in Version /\ issue[i].version < row.version
      <4>1. issue[i].status \in {"open", "pending_verification"}
        BY <2>3, <3>1 DEF Row, Status
      <4>2. row.version \in (latest[i] + 1)..MaxVersion
        BY <1>1, <2>3, <3>1 DEF Row, Version
      <4> QED
        BY <1>0, <1>1, <2>4, <3>1, <4>1, <4>2 DEF Contract!Propose
    <3>2. CASE /\ issue[i].status = "pending_verification" /\ row.status = "open"
               /\ row.version = issue[i].version
      <4>1. latest' = latest
        <5>1. row.version = latest[i]
          BY <1>1, <3>2
        <5>2. [latest EXCEPT ![i] = row.version] = latest
          BY <1>2, <5>1, ExceptSame
        <5> QED
          BY <2>4, <5>2
      <4>2. phase[i] = issue[i].status /\ phase' = [phase EXCEPT ![i] = row.status]
        BY <1>1, <2>4
      <4> QED
        BY <1>0, <4>1, <4>2, <3>2 DEF Contract!Reject
    <3>3. CASE /\ issue[i].status = "pending_verification" /\ row.status = "closed"
               /\ row.version = issue[i].version
      <4>1. latest' = latest
        <5>1. row.version = latest[i]
          BY <1>1, <3>3
        <5>2. [latest EXCEPT ![i] = row.version] = latest
          BY <1>2, <5>1, ExceptSame
        <5> QED
          BY <2>4, <5>2
      <4>2. phase[i] = issue[i].status /\ phase' = [phase EXCEPT ![i] = row.status]
        BY <1>1, <2>4
      <4> QED
        BY <1>0, <4>1, <4>2, <3>3 DEF Contract!Accept
    <3>4. CASE /\ issue[i].status = "open" /\ row.status = "closed"
               /\ row.version = issue[i].version + 1
      BY <1>0, <1>1, <2>4, <3>4 DEF ClosesByAdvice
    <3>5. \/ /\ issue[i].status # "closed" /\ row.status = "pending_verification"
             /\ row.version \in Version /\ issue[i].version < row.version
          \/ /\ issue[i].status = "pending_verification" /\ row.status = "open"
             /\ row.version = issue[i].version
          \/ /\ issue[i].status = "pending_verification" /\ row.status = "closed"
             /\ row.version = issue[i].version
          \/ /\ issue[i].status = "open" /\ row.status = "closed"
             /\ row.version = issue[i].version + 1
      BY <2>1 DEF Moves
    <3> QED
      BY <3>1, <3>2, <3>3, <3>4, <3>5
  <2> QED
    BY <1>0, <2>3, <2>5 DEF Contract!Next, ContractOrAdvice
<1>6. CASE \E S \in SUBSET Ids : DeleteIssues(S)
  <2>1. PICK S \in SUBSET Ids : DeleteIssues(S)
    BY <1>6
  <2> DEFINE gone == Targets(S)
  <2>2. /\ Ids' = Ids \ gone
        /\ \A k \in Ids' : SameReport(issue'[k], issue[k])
    BY <2>1, DeleteEffect
  <2>3. /\ gone \in SUBSET Ids
        /\ \A j \in Ids : Main(RootOf(j)) \in gone => j \in gone
    BY TargetsEffect
  <2> HIDE DEF gone
  <2>8. \A k \in Ids' : issue'[k].status = issue[k].status /\ issue'[k].version = issue[k].version
    BY <2>2 DEF SameReport
  <2>4. /\ phase' = [j \in IssueId |-> IF j \in gone THEN "absent" ELSE phase[j]]
        /\ latest' = [j \in IssueId |-> IF j \in gone THEN 0 ELSE latest[j]]
    <3>1. ASSUME NEW j \in IssueId
          PROVE  /\ phase'[j] = IF j \in gone THEN "absent" ELSE phase[j]
                 /\ latest'[j] = IF j \in gone THEN 0 ELSE latest[j]
      BY <1>1, <1>2, <2>2, <2>3, <2>8
    <3>2. /\ phase' = [j \in IssueId |-> phase'[j]]
          /\ latest' = [j \in IssueId |-> latest'[j]]
      BY <1>2
    <3> QED
      BY <3>1, <3>2
  <2>5. ASSUME NEW r \in Roots, NEW n \in 0..MaxSub,
               <<r, 0>> \in gone, phase[<<r, n>>] # "absent"
        PROVE  <<r, n>> \in gone
    <3>1. <<r, n>> \in IssueId /\ Main(RootOf(<<r, n>>)) = <<r, 0>>
      BY DEF IssueId, Main, RootOf
    <3>2. <<r, n>> \in Ids
      BY <1>1, <2>5, <3>1
    <3> QED
      BY <2>3, <2>5, <3>1, <3>2
  <2>6. Contract!Withdraw(gone)
    BY <1>0, <1>1, <2>3, <2>4, <2>5 DEF Contract!Withdraw
  <2>7. gone \in SUBSET IssueId
    BY <1>1, <2>3
  <2> QED
    BY <1>0, <2>6, <2>7 DEF Contract!Next, ContractOrAdvice
<1>7. CASE \/ \E i \in Ids, t \in Threads : SaveCodexThread(i, t)
           \/ \E t \in Threads : ForgetCodexThread(t)
           \/ UNCHANGED vars
  <2>1. issue' = issue
    BY <1>7 DEF SaveCodexThread, ForgetCodexThread, vars
  <2> QED
    BY <2>1 DEF phase, latest, solved, Ids
<1> QED
  BY <1>3, <1>4, <1>5, <1>6, <1>7, StepCases

\* Every behaviour of the store is one the documents' contract allows, but for
\* the closing of a report by the assistant's advice (confirm_ai_resolution).
THEOREM CoreImplementsContract == Spec => ImplementsContract
<1>1. Spec => [](Base /\ RollupIsCurrent)
  BY BaseAlways, RollupStaysCurrent, PTL
<1> QED
  BY <1>1, ContractInit, ContractStep, PTL DEF Spec, ContractOrAdvice, ImplementsContract
=============================================================================
