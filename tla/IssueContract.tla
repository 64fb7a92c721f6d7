---------------------------- MODULE IssueContract ----------------------------
(***************************************************************************)
(* What the documents promise of reports: the three statuses, who moves    *)
(* them and which way (contracts/domain.md), versions of the solution, and *)
(* that a main issue is shown as solved only with its whole family         *)
(* (software-design-requirements.md, 4.3).  Nothing is said of tables,     *)
(* handoff, chat or sessions.                                              *)
(***************************************************************************)
EXTENDS Integers

CONSTANTS Roots, MaxSub, MaxVersion

IssueId == Roots \X (0..MaxSub)

VARIABLES
  phase,   \* status of every possible report, "absent" when there is none
  latest,  \* version of its latest solution
  solved   \* roots whose family is shown as solved

vars == <<phase, latest, solved>>

Solved(ph) ==
  {r \in Roots : /\ ph[<<r, 0>>] = "closed"
                /\ \A n \in 0..MaxSub : ph[<<r, n>>] \in {"absent", "closed"}}

Refresh == solved' = Solved(phase')

Init ==
  /\ phase  = [i \in IssueId |-> "absent"]
  /\ latest = [i \in IssueId |-> 0]
  /\ solved = {}

\* A report, or a recurrence of one, starts open without a solution.
Report(i) ==
  /\ phase[i] = "absent"
  /\ phase' = [phase EXCEPT ![i] = "open"]
  /\ UNCHANGED latest
  /\ Refresh

\* A solution with a higher version awaits verification.
Propose(i) ==
  /\ phase[i] \in {"open", "pending_verification"}
  /\ phase' = [phase EXCEPT ![i] = "pending_verification"]
  /\ \E v \in (latest[i] + 1)..MaxVersion : latest' = [latest EXCEPT ![i] = v]
  /\ Refresh

\* The reporter found that it does not work.
Reject(i) ==
  /\ phase[i] = "pending_verification"
  /\ phase' = [phase EXCEPT ![i] = "open"]
  /\ UNCHANGED latest
  /\ Refresh

\* The reporter confirmed it.  There is no other way to be closed: "Direct open
\* to closed is forbidden" (contracts/domain.md).
Accept(i) ==
  /\ phase[i] = "pending_verification"
  /\ phase' = [phase EXCEPT ![i] = "closed"]
  /\ UNCHANGED latest
  /\ Refresh

\* Reports are removed; without its main issue no member of a family stays.
Withdraw(S) ==
  /\ \A i \in S : phase[i] # "absent"
  /\ \A r \in Roots, n \in 0..MaxSub :
       <<r, 0>> \in S /\ phase[<<r, n>>] # "absent" => <<r, n>> \in S
  /\ phase'  = [i \in IssueId |-> IF i \in S THEN "absent" ELSE phase[i]]
  /\ latest' = [i \in IssueId |-> IF i \in S THEN 0 ELSE latest[i]]
  /\ Refresh

Next ==
  \/ \E i \in IssueId :
       Report(i) \/ Propose(i) \/ Reject(i) \/ Accept(i)
  \/ \E S \in SUBSET IssueId : Withdraw(S)

Spec == Init /\ [][Next]_vars
=============================================================================
