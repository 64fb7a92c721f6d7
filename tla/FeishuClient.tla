----------------------------- MODULE FeishuClient -----------------------------
(***************************************************************************)
(* DirectFeishuClient: the device's side of the human handoff.  It keeps   *)
(* one record per issue and one topic per family in memory, each change    *)
(* written to its JSON file under the same lock, and calls Feishu with the *)
(* lock released.  So every operation is a call that copies a record,      *)
(* talks to Feishu, and takes the lock again to store what it has; `calls` *)
(* holds the calls in progress with their program counters and copies.     *)
(* Device decides which calls are made.                                    *)
(*                                                                         *)
(* External: a message is a card posted in Feishu.  send deduplicates on   *)
(* its uuid, which _handoff passes only for a reply in a topic.            *)
(***************************************************************************)
EXTENDS Naturals

CONSTANTS
  Issues,           \* issue ids
  Root(_),          \* root_issue_id of an issue
  MaxMessages,      \* bound on the cards Feishu ever creates
  MaxOrphans,       \* bound on the cards whose creation is not answered
  Presses,          \* form submissions engineers make
  CardUpdatesFail,  \* update_card may fail
  None

Messages == 1..MaxMessages
Unpressed == 0
Heard == MaxMessages + 1

VARIABLES
  item,    \* _state["issues"]: issue -> record, Blank if absent
  topic,   \* _state["topics"]: root -> message, None if absent
  calls,   \* the operations in progress
  card,    \* external: the cards in Feishu, None if not created
  press    \* external: submission -> its message while in flight, or a mark

Sent   == {"delivering", "delivered", "solution_available", "closed"}
Faces  == {"form", "waiting_verification", "closed"}
Blank  == [handoff |-> "none", message |-> None, topic |-> None,
           card_state |-> "none", version |-> 0, evidence |-> FALSE]

Call(op, i, pc) == [op |-> op, issue |-> i, pc |-> pc, copy |-> Blank, topic |-> None,
                    status |-> "none", version |-> 0, targets |-> {}]

ClientInit(roots) ==
  /\ item = [i \in Issues |-> Blank]
  /\ topic = [r \in roots |-> None]
  /\ calls = {}
  /\ card = [m \in Messages |-> None]
  /\ press = [p \in Presses |-> Unpressed]

Becomes(c, d) == calls' = (calls \ {c}) \cup {d}
Ends(c) == calls' = calls \ {c}
In(op, pc) == {c \in calls : c.op = op /\ c.pc = pc}

-----------------------------------------------------------------------------
(* handoff. *)

\* The pcs of _handoff, all run holding _handoff_lock.
Locked == {"send", "sent", "connect", "evidence", "finish"}

\* Slip: handoff runs without _handoff_lock.
CopyUnlocked(c) ==
  LET r   == Root(c.issue)
      old == item[c.issue] IN
  /\ c \in In("handoff", "lock")
  /\ Becomes(c, [c EXCEPT !.pc = IF old.message = None THEN "send" ELSE "connect",
                          !.copy = old,
                          !.topic = IF topic[r] # None THEN topic[r] ELSE old.topic])
  /\ UNCHANGED <<item, topic, card, press>>

\* existing and the topic are copied before the connection is made.
CopyForHandoff(c) ==
  LET r   == Root(c.issue)
      old == item[c.issue] IN
  /\ c \in In("handoff", "lock")
  /\ ~\E d \in calls : d.op = "handoff" /\ d.pc \in Locked
  /\ Becomes(c, [c EXCEPT !.pc = IF old.message = None THEN "send" ELSE "connect",
                          !.copy = old,
                          !.topic = IF topic[r] # None THEN topic[r] ELSE old.topic])
  /\ UNCHANGED <<item, topic, card, press>>

\* Of a card sent before, only what is missing is done again; the family's
\* topic is completed, in memory only.
CompleteTopic(c) ==
  LET top == IF c.topic = None THEN c.copy.message ELSE c.topic IN
  /\ c \in In("handoff", "connect")
  /\ topic' = [topic EXCEPT ![Root(c.issue)] = IF @ = None THEN top ELSE @]
  /\ Becomes(c, [c EXCEPT !.pc = IF c.copy.evidence THEN "finish" ELSE "evidence",
                          !.topic = top, !.copy.topic = top])
  /\ UNCHANGED <<item, card, press>>

\* Feishu creates the card, or finds the one it created for the same uuid.
Known(i, root) == {m \in Messages : root # None /\ card[m] # None /\ card[m].uuid = i}
Fresh == {m \in Messages : card[m] = None /\ \A n \in Messages : card[n] = None => m <= n}
Posts(i, root, m) ==
  \/ m \in Known(i, root) /\ UNCHANGED card
  \/ /\ Known(i, root) = {} /\ m \in Fresh
     /\ card' = [card EXCEPT ![m] =
          [issue |-> i, uuid |-> IF root = None THEN None ELSE i,
           topic |-> IF root = None THEN m ELSE root, shows |-> "form", version |-> 0]]

SendCard(c) ==
  /\ c \in In("handoff", "send")
  /\ \E m \in Messages :
       /\ Posts(c.issue, c.topic, m)
       /\ Becomes(c, [c EXCEPT !.pc = "sent", !.topic = IF @ = None THEN m ELSE @,
                               !.copy.message = m])
  /\ UNCHANGED <<item, topic, press>>

\* The card is recorded as "delivering" until the evidence has followed it.
StoreCard(c) ==
  LET new == [c.copy EXCEPT !.handoff = "delivering", !.topic = c.topic,
                            !.card_state = "awaiting_engineer"] IN
  /\ c \in In("handoff", "sent")
  /\ item' = [item EXCEPT ![c.issue] = new]
  /\ topic' = [topic EXCEPT ![Root(c.issue)] = c.topic]
  /\ Becomes(c, [c EXCEPT !.pc = "connect", !.copy = new])
  /\ UNCHANGED <<card, press>>

SendEvidence(c) ==
  /\ c \in In("handoff", "evidence")
  /\ Becomes(c, [c EXCEPT !.pc = "finish", !.copy.evidence = TRUE])
  /\ UNCHANGED <<item, topic, card, press>>

\* Slip: the handoff takes over the issue's own status.
ConcludedByIssue(copy, status) == [copy EXCEPT !.handoff = status]

Concluded(copy, status) ==
  IF copy.handoff \in {"solution_available", "closed"} THEN copy
  ELSE [copy EXCEPT !.handoff =
          IF status = "pending_verification" /\ copy.version > 0
          THEN "solution_available" ELSE "delivered"]

\* The copy, as concluded, replaces the record; _send_handoff then syncs.
FinishHandoff(c) ==
  /\ c \in In("handoff", "finish")
  /\ item' = [item EXCEPT ![c.issue] = Concluded(c.copy, c.status)]
  /\ Becomes(c, Call("handoff", c.issue, "copy"))
  /\ UNCHANGED <<topic, card, press>>

\* Connecting, sending the card or the evidence fails, the request lost or
\* only its answer.  Such an unanswered card takes one of the first MaxOrphans
\* messages, so that the bound never keeps an answered send from its own.
HandoffFails(c) ==
  /\ c \in calls /\ c.op = "handoff" /\ c.pc \in {"send", "connect", "evidence"}
  /\ \/ UNCHANGED card
     \/ /\ c.pc = "send" /\ Known(c.issue, c.topic) = {}
        /\ \E m \in 1..MaxOrphans : Posts(c.issue, c.topic, m)
  /\ Ends(c)
  /\ UNCHANGED <<item, topic, press>>

-----------------------------------------------------------------------------
(* sync, confirm, verification_failed and the card event. *)

Shows(m, face, v) == card' = [card EXCEPT ![m].shows = face, ![m].version = v]

\* The card is updated if an earlier attempt left the form on it.
CopyForSync(c) ==
  LET old == item[c.issue] IN
  /\ c.pc = "copy" /\ c.op \in {"handoff", "timeline"} /\ c \in calls
  /\ Becomes(c, [c EXCEPT !.copy = old, !.pc =
       IF /\ old.handoff = "solution_available"
          /\ old.card_state # "waiting_verification"
          /\ old.message # None /\ old.version > 0
       THEN "update" ELSE "mark"])
  /\ UNCHANGED <<item, topic, card, press>>

CopyForConfirm(c) ==
  /\ c \in In("confirm", "copy")
  /\ Becomes(c, [c EXCEPT !.copy = item[c.issue],
                          !.pc = IF item[c.issue].message = None THEN "store" ELSE "update"])
  /\ UNCHANGED <<item, topic, card, press>>

\* A version that is not the current one, or a missing card, ends the call.
CopyForFailure(c) ==
  /\ c \in In("failed", "copy")
  /\ IF item[c.issue].version = c.version /\ item[c.issue].message # None
     THEN Becomes(c, [c EXCEPT !.copy = item[c.issue], !.pc = "update"])
     ELSE Ends(c)
  /\ UNCHANGED <<item, topic, card, press>>

\* The states in which the event handler takes a submission.
Takes(i) == item[i].handoff \in {"delivered", "handling"}

\* A form submission reaches _on_card_action; unless it is taken it is gone.
ReceivePress(p) ==
  LET hit == {i \in Issues : item[i].message = press[p] /\ Takes(i)} IN
  /\ press[p] \in Messages
  /\ press' = [press EXCEPT ![p] = Heard]
  /\ IF hit = {} THEN UNCHANGED <<item, calls>>
     ELSE \E i \in hit :
       LET new == [item[i] EXCEPT !.version = @ + 1, !.handoff = "solution_available"] IN
       /\ item' = [item EXCEPT ![i] = new]
       /\ calls' = calls \cup {[Call("card", i, "update") EXCEPT !.copy = new]}
  /\ UNCHANGED <<topic, card>>

Face(op) == CASE op \in {"handoff", "timeline", "card"} -> "waiting_verification"
              [] op = "confirm" -> "closed"
              [] op = "failed"  -> "form"

UpdateCard(c) ==
  /\ c \in calls /\ c.pc = "update"
  /\ Shows(c.copy.message, Face(c.op), c.copy.version)
  /\ Becomes(c, [c EXCEPT !.pc = "store"])
  /\ UNCHANGED <<item, topic, press>>

\* update_card reports an error or times out: the call ends there.
UpdateFails(c) ==
  /\ CardUpdatesFail
  /\ c \in calls /\ c.pc = "update"
  /\ \/ UNCHANGED card
     \/ Shows(c.copy.message, Face(c.op), c.copy.version)
  /\ Ends(c)
  /\ UNCHANGED <<item, topic, press>>

Present(i) == item[i] # Blank

\* Slip: the copy made before the card was updated is amended and stored.
StoreCopy(c) ==
  LET i == c.issue IN
  /\ c \in calls /\ c.pc = "store" /\ c.op # "forget" /\ Present(i)
  /\ item' = [item EXCEPT ![i] =
       CASE Face(c.op) = "waiting_verification" -> [c.copy EXCEPT !.card_state = "waiting_verification"]
         [] Face(c.op) = "closed" -> [c.copy EXCEPT !.handoff = "closed", !.card_state = "closed"]
         [] Face(c.op) = "form" -> [c.copy EXCEPT !.handoff = "delivered",
                                                  !.card_state = "awaiting_engineer"]]
  /\ Ends(c)
  /\ UNCHANGED <<topic, card, press>>

\* The second locked section: the record as it is now is amended.
StoreUpdate(c) ==
  LET i == c.issue IN
  /\ c \in calls /\ c.pc = "store" /\ c.op # "forget"
  /\ item' = [item EXCEPT ![i] =
       IF ~Present(i) THEN @
       ELSE CASE Face(c.op) = "waiting_verification" -> [@ EXCEPT !.card_state = "waiting_verification"]
              [] Face(c.op) = "closed" -> [@ EXCEPT !.handoff = "closed", !.card_state = "closed"]
              [] Face(c.op) = "form" -> [@ EXCEPT !.handoff = "delivered",
                                                  !.card_state = "awaiting_engineer"]]
  /\ IF c.op \in {"handoff", "timeline"} /\ Present(i)
     THEN Becomes(c, [c EXCEPT !.pc = "mark"])
     ELSE Ends(c)
  /\ UNCHANGED <<topic, card, press>>

\* forget_issues: records of the deleted issues and topics of deleted roots.
ForgetIssues(c) ==
  /\ c \in In("forget", "store")
  /\ item' = [i \in Issues |-> IF i \in c.targets THEN Blank ELSE item[i]]
  /\ topic' = [r \in DOMAIN topic |-> IF r \in c.targets THEN None ELSE topic[r]]
  /\ Ends(c)
  /\ UNCHANGED <<card, press>>

-----------------------------------------------------------------------------
(* External: engineers. *)

PressSubmit(p) ==
  /\ press[p] = Unpressed
  /\ \E m \in Messages :
       /\ card[m] # None /\ card[m].shows = "form"
       /\ press' = [press EXCEPT ![p] = m]
  /\ UNCHANGED <<item, topic, calls, card>>
=============================================================================
