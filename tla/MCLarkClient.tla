----------------------------- MODULE MCLarkClient -----------------------------
(* The instance of LarkClient that TLC checks. *)
EXTENDS LarkClient
=============================================================================
