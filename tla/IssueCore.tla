------------------------------ MODULE IssueCore ------------------------------
(***************************************************************************)
(* The device's issue store: CoreService over CoreDatabase.  Every         *)
(* operation of the service is one BEGIN IMMEDIATE transaction under the   *)
(* database lock, so every operation is one action here.  A row of `issue` *)
(* carries the issue's own columns together with what its child tables     *)
(* (messages, solutions, events) hold for it, because delete_issues drops  *)
(* them together.  Texts, timestamps and uuids are abstracted away; an     *)
(* issue id ISS-...-Snnn is the pair <<root, nnn>> and the main issue is   *)
(* <<root, 0>>.                                                            *)
(***************************************************************************)
EXTENDS Integers

CONSTANTS
  Roots,       \* ids _new_root_id can draw for a main issue
  Reporters,   \* reporter_id values
  Threads,     \* Codex conversation ids
  NoIssue,     \* the NULL parent of a main issue
  MaxSub,      \* bound on sub_sequence
  MaxVersion   \* bound on solution versions

ASSUME CoreAssumption ==
  /\ MaxSub \in Nat
  /\ MaxVersion \in Nat
  /\ NoIssue \notin Roots \X (0..MaxSub)

IssueId  == Roots \X (0..MaxSub)
Version  == 1..MaxVersion
Status   == {"open", "pending_verification", "closed"}
Handoff  == {"none", "queued", "delivered"}
Roles    == {"reporter", "assistant", "engineer", "system"}
Channels == {"local", "feishu", "system"}

Main(r)   == <<r, 0>>
RootOf(i) == i[1]

Row == [reporter  : Reporters,
        parent    : IssueId \cup {NoIssue},
        status    : Status,
        rollup    : Status,              \* only the main issue's is maintained
        version   : 0..MaxVersion,       \* latest_solution_version
        solutions : SUBSET Version,      \* versions in the solutions table
        confirmed : SUBSET Version,      \* versions with a ReporterConfirmed event
        handoff   : Handoff,
        input     : BOOLEAN,             \* local_input_enabled
        concluded : BOOLEAN]             \* an assistant message by codex exists

VARIABLES
  issue,    \* the issues table: ids in use -> Row
  session   \* the codex_sessions table: roots with a conversation -> thread

vars == <<issue, session>>

Ids == DOMAIN issue

-----------------------------------------------------------------------------
(* Reading and writing the tables. *)

Family(tab, r) == {i \in DOMAIN tab : RootOf(i) = r}

\* Slip: a sub-issue that waits for its reporter is not looked for.
RollupOfOpenOnly(tab, r) ==
  IF \E i \in Family(tab, r) : tab[i].status = "open" THEN "open"
  ELSE IF Main(r) \in DOMAIN tab /\ tab[Main(r)].status = "pending_verification"
       THEN "pending_verification"
       ELSE "closed"

\* What _recalculate_rollup derives from the statuses of one family.
RollupOf(tab, r) ==
  IF \E i \in Family(tab, r) : tab[i].status = "open" THEN "open"
  ELSE IF \E i \in Family(tab, r) : tab[i].status = "pending_verification"
       THEN "pending_verification"
       ELSE "closed"

\* The table after _recalculate_rollup of every root in rs.
Recalculated(tab, rs) ==
  [i \in DOMAIN tab |->
     IF \E r \in rs : i = Main(r)
     THEN [tab[i] EXCEPT !.rollup = RollupOf(tab, RootOf(i))]
     ELSE tab[i]]

\* INSERT of one row.
Inserted(tab, i, row) ==
  [j \in DOMAIN tab \cup {i} |-> IF j = i THEN row ELSE tab[j]]

NewRow(who, parent) ==
  [reporter |-> who, parent |-> parent, status |-> "open", rollup |-> "open",
   version |-> 0, solutions |-> {}, confirmed |-> {}, handoff |-> "none",
   input |-> TRUE, concluded |-> FALSE]

\* The domain's transition table (a recurrence is a new sub-issue, so no
\* transition leaves "closed").
Allowed ==
  {<<"open", "pending_verification", "solution_submitted">>,
   <<"pending_verification", "pending_verification", "solution_submitted">>,
   <<"pending_verification", "open", "verification_failed">>,
   <<"pending_verification", "closed", "reporter_confirmed">>}

CanMove(from, to, reason) == <<from, to, reason>> \in Allowed

\* UPDATE of one row of the table followed by _recalculate_rollup of its root.
SaveAndRollup(i, row) ==
  issue' = Recalculated([issue EXCEPT ![i] = row], {RootOf(i)})

-----------------------------------------------------------------------------
(* Reporting. *)

CreateIssue(r, who) ==
  /\ Main(r) \notin Ids
  /\ issue' = Inserted(issue, Main(r), NewRow(who, NoIssue))
  /\ UNCHANGED session

\* MAX(sub_sequence) + 1 over the rows present: the number of a deleted
\* last sub-issue is given out again.
NextSequence(r, n) ==
  /\ \A i \in Family(issue, r) : i[2] < n
  /\ \E i \in Family(issue, r) : i[2] = n - 1

\* `selected` may itself be a sub-issue; the new one still hangs off the root.
CreateSubissue(selected, who) ==
  /\ selected \in Ids
  /\ \E n \in 1..MaxSub :
       LET r   == RootOf(selected)
           new == Inserted(issue, <<r, n>>, NewRow(who, selected))
       IN  /\ NextSequence(r, n)
           /\ issue' = [new EXCEPT ![Main(r)].rollup = "open"]
  /\ UNCHANGED session

\* Only the message confirm_ai_resolution looks for is remembered.
AppendMessage(i, role, channel, byCodex) ==
  /\ i \in Ids
  /\ ~(channel = "local" /\ role = "reporter" /\ ~issue[i].input)
  /\ issue' = [issue EXCEPT ![i].concluded = @ \/ (role = "assistant" /\ byCodex)]
  /\ UNCHANGED session

-----------------------------------------------------------------------------
(* Human handoff. *)

RequestHandoff(i) ==
  /\ i \in Ids
  /\ issue[i].status # "closed"
  /\ issue[i].handoff = "none"
  /\ issue' = [issue EXCEPT ![i].handoff = "queued", ![i].input = FALSE]
  /\ UNCHANGED session

MarkHandoffDelivered(i) ==
  /\ i \in Ids
  /\ issue[i].handoff = "queued"
  /\ issue' = [issue EXCEPT ![i].handoff = "delivered"]
  /\ UNCHANGED session

-----------------------------------------------------------------------------
(* Solutions and their verification. *)

WithSolution(row, v) ==
  [row EXCEPT !.status = "pending_verification", !.version = v,
              !.solutions = @ \cup {v}]

SubmitSolution(i) ==
  /\ i \in Ids
  /\ issue[i].status # "closed"
  /\ CanMove(issue[i].status, "pending_verification", "solution_submitted")
  /\ issue[i].version < MaxVersion
  /\ SaveAndRollup(i, WithSolution(issue[i], issue[i].version + 1))
  /\ UNCHANGED session

\* Slip: a delayed answer with an older version is taken.
ImportStale(i, v) ==
  /\ i \in Ids
  /\ v \notin issue[i].solutions
  /\ issue[i].status # "closed"
  /\ SaveAndRollup(i, WithSolution(issue[i], v))
  /\ UNCHANGED session

\* Slip: an answer that arrives after the confirmation is taken.
ImportIntoClosed(i, v) ==
  /\ i \in Ids
  /\ v \notin issue[i].solutions
  /\ v > issue[i].version
  /\ SaveAndRollup(i, WithSolution(issue[i], v))
  /\ UNCHANGED session

\* The engineer side numbers the versions, so an import may skip some; a
\* version already stored is returned unchanged (no step).
ImportSolution(i, v) ==
  /\ i \in Ids
  /\ v \notin issue[i].solutions
  /\ issue[i].status # "closed"
  /\ v > issue[i].version
  /\ SaveAndRollup(i, WithSolution(issue[i], v))
  /\ UNCHANGED session

ReportVerificationFailure(i, who) ==
  /\ i \in Ids
  /\ issue[i].reporter = who
  /\ issue[i].status = "pending_verification"
  /\ CanMove(issue[i].status, "open", "verification_failed")
  /\ SaveAndRollup(i, [issue[i] EXCEPT !.status = "open"])
  /\ UNCHANGED session

ConfirmSolution(i, who, expected) ==
  /\ i \in Ids
  /\ issue[i].reporter = who
  /\ issue[i].status = "pending_verification"
  /\ issue[i].version = expected
  /\ CanMove(issue[i].status, "closed", "reporter_confirmed")
  /\ SaveAndRollup(i, [issue[i] EXCEPT !.status = "closed",
                                       !.confirmed = @ \cup {expected}])
  /\ UNCHANGED session

\* Both transitions and both events (SolutionSubmitted, ReporterConfirmed)
\* in one transaction: the row goes from open to closed in one commit.
ConfirmAiResolution(i, who) ==
  /\ i \in Ids
  /\ issue[i].reporter = who
  /\ issue[i].status = "open"
  /\ issue[i].handoff = "none"
  /\ issue[i].concluded
  /\ CanMove("open", "pending_verification", "solution_submitted")
  /\ CanMove("pending_verification", "closed", "reporter_confirmed")
  /\ issue[i].version < MaxVersion
  /\ LET v == issue[i].version + 1
     IN  SaveAndRollup(i, [issue[i] EXCEPT !.status = "closed",
                                           !.version = v,
                                           !.solutions = @ \cup {v},
                                           !.confirmed = @ \cup {v}])
  /\ UNCHANGED session

-----------------------------------------------------------------------------
(* Deletion. *)

\* Selecting a main issue selects its family.
Expanded(S) == S \cup {i \in Ids : Main(RootOf(i)) \in S}

\* Slip: only the selection itself is deleted.
TargetsSelf(S) == S

\* The fixed point of adding the rows whose parent is already a target.
Targets(S) ==
  {i \in Ids : \A T \in SUBSET Ids :
      /\ Expanded(S) \subseteq T
      /\ \A j \in Ids : issue[j].parent \in T => j \in T
      => i \in T}

DeleteIssues(S) ==
  /\ S # {}
  /\ S \subseteq Ids
  /\ LET gone    == Targets(S)
         kept    == [i \in Ids \ gone |-> issue[i]]
         removed == {r \in Roots : Main(r) \in S}
         touched == {r \in Roots : \E i \in gone : RootOf(i) = r}
     IN  /\ issue'   = Recalculated(kept, touched \ removed)
         /\ session' = [r \in DOMAIN session \ removed |-> session[r]]

-----------------------------------------------------------------------------
(* Codex conversations, one per family. *)

\* A thread already stored for another root breaks the UNIQUE constraint and
\* rolls the transaction back (no step).
SaveCodexThread(i, t) ==
  /\ i \in Ids
  /\ \A r \in DOMAIN session \ {RootOf(i)} : session[r] # t
  /\ session' = [r \in DOMAIN session \cup {RootOf(i)} |->
                   IF r = RootOf(i) THEN t ELSE session[r]]
  /\ UNCHANGED issue

ForgetCodexThread(t) ==
  /\ session' = [r \in {q \in DOMAIN session : session[q] # t} |-> session[r]]
  /\ UNCHANGED issue

-----------------------------------------------------------------------------
Init ==
  /\ issue   = [i \in {} |-> NoIssue]
  /\ session = [r \in {} |-> NoIssue]

Report ==
  \/ \E r \in Roots, who \in Reporters : CreateIssue(r, who)
  \/ \E i \in Ids, who \in Reporters : CreateSubissue(i, who)
  \/ \E i \in Ids, role \in Roles, ch \in Channels, c \in BOOLEAN :
       AppendMessage(i, role, ch, c)

HumanHandoff == \E i \in Ids : RequestHandoff(i) \/ MarkHandoffDelivered(i)

Resolve ==
  \/ \E i \in Ids : SubmitSolution(i)
  \/ \E i \in Ids, v \in Version : ImportSolution(i, v)
  \/ \E i \in Ids, who \in Reporters : ReportVerificationFailure(i, who)
  \/ \E i \in Ids, who \in Reporters, v \in Version : ConfirmSolution(i, who, v)
  \/ \E i \in Ids, who \in Reporters : ConfirmAiResolution(i, who)

Housekeeping ==
  \/ \E S \in SUBSET Ids : DeleteIssues(S)
  \/ \E i \in Ids, t \in Threads : SaveCodexThread(i, t)
  \/ \E t \in Threads : ForgetCodexThread(t)

Next == Report \/ HumanHandoff \/ Resolve \/ Housekeeping

Spec == Init /\ [][Next]_vars

-----------------------------------------------------------------------------
\* Rows, child tables and sessions hold values of their columns' types.
TypeOK ==
  /\ Ids \in SUBSET IssueId
  /\ issue \in [Ids -> Row]
  /\ DOMAIN session \in SUBSET Roots
  /\ session \in [DOMAIN session -> Threads]

\* The rollup_status kept on a main issue is at every moment the summary of
\* its whole family, whichever mix of sub-issue creation, verification and
\* deletion led there (create_subissue writes it directly, six operations
\* recompute it, the others leave it alone).
RollupIsCurrent ==
  \A r \in Roots : Main(r) \in Ids => issue[Main(r)].rollup = RollupOf(issue, r)

\* No orphan survives a deletion: a sub-issue's main issue and the issue it
\* was reported from are still there, in the same family (the foreign keys
\* root_issue_id and parent_issue_id).
FamilyIntact ==
  \A i \in Ids :
    /\ Main(RootOf(i)) \in Ids
    /\ i[2] = 0 => issue[i].parent = NoIssue
    /\ i[2] # 0 => /\ issue[i].parent \in Ids
                   /\ RootOf(issue[i].parent) = RootOf(i)

\* latest_solution_version names a stored solution and none is newer, even
\* though submissions count up and imports jump.
LatestIsStored ==
  \A i \in Ids :
    /\ issue[i].version = 0 => issue[i].solutions = {}
    /\ issue[i].version # 0 => issue[i].version \in issue[i].solutions
    /\ \A v \in issue[i].solutions : v <= issue[i].version

\* An issue is closed exactly when its reporter confirmed the solution that
\* is still the latest: no later submission or import slips in behind the
\* confirmation, and no confirmation is of an older version.
ClosedMeansLatestConfirmed ==
  \A i \in Ids :
    /\ issue[i].status = "closed" => issue[i].confirmed = {issue[i].version}
    /\ issue[i].status # "closed" => issue[i].confirmed = {}
    /\ issue[i].status = "pending_verification" => issue[i].version # 0

\* A conversation belongs to one existing family.
SessionsAreOwned ==
  /\ \A r \in DOMAIN session : Main(r) \in Ids
  /\ \A q, r \in DOMAIN session : session[q] = session[r] => q = r

\* While an issue exists its history only grows: versions never go back, a
\* stored solution or confirmation never disappears, a closed issue stays
\* closed (a recurrence is a new sub-issue).
HistoryOnlyGrows ==
  [][\A i \in Ids \cap DOMAIN issue' :
        /\ issue[i].version <= issue'[i].version
        /\ issue[i].solutions \subseteq issue'[i].solutions
        /\ issue[i].confirmed \subseteq issue'[i].confirmed
        /\ issue[i].status = "closed" => issue'[i].status = "closed"]_vars

-----------------------------------------------------------------------------
(* What the documents promise of one report and its family. *)

phase == [i \in IssueId |-> IF i \in Ids THEN issue[i].status ELSE "absent"]
latest == [i \in IssueId |-> IF i \in Ids THEN issue[i].version ELSE 0]
solved == {r \in Roots : Main(r) \in Ids /\ issue[Main(r)].rollup = "closed"}

Contract == INSTANCE IssueContract

\* The one step the contract forbids: confirm_ai_resolution submits the
\* assistant's answer as a solution and closes the report in one commit, so it
\* goes from open to closed without ever waiting for verification.
ClosesByAdvice(i) ==
  /\ phase[i] = "open"
  /\ phase' = [phase EXCEPT ![i] = "closed"]
  /\ latest' = [latest EXCEPT ![i] = @ + 1]
  /\ Contract!Refresh

\* The store keeps the documents' contract in every step but that one: reports
\* move only as contracts/domain.md says, versions rise, and a main issue shows
\* solved exactly when its family is, through every mix of solutions,
\* recurrences and deletions.
ImplementsContract ==
  /\ Contract!Init
  /\ [][Contract!Next \/ \E i \in IssueId : ClosesByAdvice(i)]_<<phase, latest, solved>>
=============================================================================
