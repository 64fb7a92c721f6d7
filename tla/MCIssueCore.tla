----------------------------- MODULE MCIssueCore -----------------------------
(* The instance of IssueCore that TLC checks. *)
EXTENDS IssueCore
=============================================================================
