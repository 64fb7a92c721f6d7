------------------------------- MODULE MCBridge -------------------------------
(* The instances of Bridge that TLC checks. *)
EXTENDS Bridge

CONSTANTS ann, eng   \* a reporter and an engineer, each in one place

SenderOfPlace == [p \in Places |-> p]

\* The bridge while its replies go unsent: where no button is pressed, no other
\* task depends on them, and the mirror runs into every interleaving without.
Unsending == Init /\ [][Work]_vars

FairUnsending == Unsending /\ QueueFairness /\ MirrorFairness

\* The engineer reports nothing; he only tries to decide what others reported.
EngineerDecides ==
  \A m \in DOMAIN db.inbox : db.inbox[m].place = eng => db.inbox[m].ask.op \in {"confirm", "reopen"}
=============================================================================
