------------------------------ MODULE LarkClient ------------------------------
(***************************************************************************)
(* LarkCliFeishuClient: the device's handoffs over lark-cli.  A client     *)
(* keeps its records in memory and in one file, listens for engineers'     *)
(* forms through a process it starts for a handoff.  A save of the         *)
(* settings replaces the client while jobs of the old one go on; the old   *)
(* and the new one have the file in common and nothing else.  The rows     *)
(* that _project_base writes are left out: nothing reads them.             *)
(*                                                                         *)
(* The issues are main issues, each with a topic of its own: families and  *)
(* forget_issues are as in FeishuClient, and so is the core in Device, of  *)
(* which there is here what the calls of the client depend on.             *)
(***************************************************************************)
EXTENDS Naturals, FiniteSets

CONSTANTS
  Issues,         \* main issues
  Presses,        \* form submissions engineers make
  Workers,        \* threads of the executor
  MaxMessages,    \* bound on cards
  MaxVersion,     \* bound on versions
  MaxConfigures,  \* bound on replacements of the client
  MaxFaults,      \* bound on crashes, failing calls and listeners that end
  None

VARIABLES
  core,       \* of each issue: its handoff, status and version in the core
  client,     \* the runtime's client
  built,      \* the newest client: the one to be the runtime's
  mem,        \* _state["issues"] of each client
  saved,      \* feishu-state.json
  process,    \* _process of each client, a lark-cli listening for events
  calls,      \* jobs and events in progress
  card,       \* external: the cards in Feishu, and whether the evidence is by them
  press,      \* external: submission -> its card while on its way, or a mark
  configures, faults

state    == <<mem, saved>>
external == <<card, press>>
bound    == <<configures, faults>>
vars     == <<core, client, built, mem, saved, process, calls, card, press,
              configures, faults>>

Client   == 1..(1 + MaxConfigures + MaxFaults)
Messages == 1..MaxMessages
Version  == 0..MaxVersion
Card     == [issue : Issues, shows : {"form", "waiting_verification", "closed"},
             evidence : BOOLEAN]

ASSUME LarkAssumption ==
  /\ {Workers, MaxMessages, MaxVersion, MaxConfigures, MaxFaults} \subseteq Nat
  /\ None \notin Messages \cup Card

Unpressed == 0
Heard     == MaxMessages + 1
Lost      == MaxMessages + 2

Handoff == {"none", "delivering", "delivered", "solution_available", "closed"}
Face    == {"none", "awaiting_engineer", "waiting_verification", "closed"}
Status  == {"open", "pending_verification", "closed"}

Record == [handoff : Handoff, message : Messages \cup {None}, version : Version,
           evidence : BOOLEAN, card_state : Face]
Blank  == [handoff |-> "none", message |-> None, version |-> 0, evidence |-> FALSE,
           card_state |-> "none"]

Op == {"handoff", "timeline", "confirm", "failed", "event"}
Pc == {"queued", "lock", "start", "await", "send", "sent", "evidence", "finish",
       "copy", "update", "store", "import"}
CallRecord == [op : Op, issue : Issues, client : Client \cup {0}, pc : Pc, copy : Record,
               status : Status, version : Version]
Call(op, i, g, pc) == [op |-> op, issue |-> i, client |-> g, pc |-> pc, copy |-> Blank,
                       status |-> "open", version |-> 0]

Init ==
  /\ core = [i \in Issues |-> [handoff |-> "none", status |-> "open", version |-> 0]]
  /\ client = 1 /\ built = 1
  /\ mem = [g \in Client |-> [i \in Issues |-> Blank]]
  /\ saved = [i \in Issues |-> Blank]
  /\ process = [g \in Client |-> "none"]
  /\ calls = {}
  /\ card = [m \in Messages |-> None]
  /\ press = [p \in Presses |-> Unpressed]
  /\ configures = 0 /\ faults = 0

Becomes(c, d) == calls' = (calls \ {c}) \cup {d}
Go(c, pc) == Becomes(c, [c EXCEPT !.pc = pc])
Ends(c) == calls' = calls \ {c}
In(op, pc) == {c \in calls : c.op = op /\ c.pc = pc}

\* A client changes its record of an issue and writes all of them.
Writes(g, i, new) ==
  /\ mem' = [mem EXCEPT ![g][i] = new]
  /\ saved' = mem'[g]

-----------------------------------------------------------------------------
(* The runtime. *)

HandoffJobs == {c.issue : c \in {d \in calls : d.op = "handoff"}}
Queue(is) == {Call("handoff", i, 0, "queued") : i \in is \ HandoffJobs}
Pending == {i \in Issues : core[i].handoff # "none" /\ core[i].status # "closed"}

RequestHandoff(i) ==
  /\ core[i].handoff = "none" /\ core[i].status = "open"
  /\ core' = [core EXCEPT ![i].handoff = "queued"]
  /\ calls' = calls \cup Queue({i})
  /\ UNCHANGED <<client, built, state, process, external, bound>>

\* Slip: a handoff not delivered is left to its job.
PollOnly(i) ==
  /\ core[i].handoff # "none"
  /\ {c \in calls : c.op = "timeline"} = {}
  /\ calls' = calls \cup {Call("timeline", i, client, "copy")}
  /\ UNCHANGED <<core, client, built, state, process, external, bound>>

\* timeline: a handoff not delivered is queued again, and the client synced.
\* The page has one poll outstanding.
Poll(i) ==
  /\ core[i].handoff # "none"
  /\ {c \in calls : c.op = "timeline"} = {}
  /\ calls' = calls \cup {Call("timeline", i, client, "copy")}
                    \cup (IF core[i].handoff = "queued" THEN Queue({i}) ELSE {})
  /\ UNCHANGED <<core, client, built, state, process, external, bound>>

\* Confirmations and failures are jobs of the client of that moment.
ConfirmSolution(i) ==
  /\ core[i].status = "pending_verification"
  /\ core' = [core EXCEPT ![i].status = "closed"]
  /\ calls' = calls \cup {[Call("confirm", i, client, "queued") EXCEPT !.version = core[i].version]}
  /\ UNCHANGED <<client, built, state, process, external, bound>>

ReportFailure(i) ==
  /\ core[i].status = "pending_verification"
  /\ core' = [core EXCEPT ![i].status = "open"]
  /\ calls' = calls \cup {[Call("failed", i, client, "queued") EXCEPT !.version = core[i].version]}
  /\ UNCHANGED <<client, built, state, process, external, bound>>

\* A worker takes a job; _send_handoff takes the runtime's client only then.
Running == {c \in calls : c.op \in {"handoff", "confirm", "failed"} /\ c.pc # "queued"}
StartJob(c) ==
  /\ c \in calls /\ c.pc = "queued" /\ Cardinality(Running) < Workers
  /\ IF c.op = "handoff"
     THEN Becomes(c, [c EXCEPT !.pc = "lock", !.client = client, !.status = core[c.issue].status])
     ELSE Go(c, "copy")
  /\ UNCHANGED <<core, client, built, state, process, external, bound>>

\* A new client is built from the file ...
BuildClient ==
  /\ configures < MaxConfigures /\ built = client
  /\ configures' = configures + 1
  /\ built' = client + 1
  /\ mem' = [mem EXCEPT ![built'] = saved]
  /\ UNCHANGED <<core, client, saved, process, calls, external, faults>>

\* ... and configure puts it in the place of the old one, which is closed.
Configure ==
  /\ built # client
  /\ client' = built
  /\ process' = [process EXCEPT ![client] = "none"]
  /\ calls' = calls \cup Queue(Pending)
  /\ UNCHANGED <<core, built, state, external, bound>>

\* A crash, and the start of the next process.
Crash ==
  /\ faults < MaxFaults
  /\ faults' = faults + 1
  /\ client' = built + 1 /\ built' = built + 1
  /\ mem' = [mem EXCEPT ![client'] = saved]
  /\ process' = [g \in Client |-> "none"]
  /\ calls' = {Call("handoff", i, 0, "queued") : i \in Pending}
  /\ UNCHANGED <<core, saved, external, configures>>

-----------------------------------------------------------------------------
(* handoff. *)

\* The pcs of _handoff, all run holding _handoff_lock.
Locked == {"start", "await", "send", "sent", "evidence", "finish"}

\* Slip: what was sent before is taken to have been sent with its evidence.
AfterCard(copy) == IF copy.message = None THEN "send" ELSE "finish"

After(copy) == IF copy.message = None THEN "send"
               ELSE IF copy.evidence THEN "finish" ELSE "evidence"

CopyForHandoff(c) ==
  /\ c \in In("handoff", "lock")
  /\ ~\E d \in calls : d.op = "handoff" /\ d.client = c.client
                       /\ d.pc \in Locked
  /\ Becomes(c, [c EXCEPT !.pc = "start", !.copy = mem[c.client][c.issue]])
  /\ UNCHANGED <<core, client, built, state, process, external, bound>>

\* _ensure_started: a listener that has ended is started again.
EnsureStarted(c) ==
  /\ c \in In("handoff", "start")
  /\ IF process[c.client] \in {"starting", "ready"}
     THEN /\ Go(c, After(c.copy))
          /\ UNCHANGED process
     ELSE /\ process' = [process EXCEPT ![c.client] = "starting"]
          /\ Go(c, "await")
  /\ UNCHANGED <<core, client, built, state, external, bound>>

\* External: lark-cli reports that it listens.
ListenerReady(g) ==
  /\ process[g] = "starting"
  /\ process' = [process EXCEPT ![g] = "ready"]
  /\ UNCHANGED <<core, client, built, state, calls, external, bound>>

Started(c) ==
  /\ c \in In("handoff", "await")
  /\ process[c.client] = "ready"
  /\ Go(c, After(c.copy))
  /\ UNCHANGED <<core, client, built, state, process, external, bound>>

\* Slip: a listener that is not ready in time is left to itself.
NotReadyLeft(c) ==
  /\ c \in In("handoff", "await") /\ process[c.client] # "ready"
  /\ faults < MaxFaults \/ process[c.client] # "starting"
  /\ faults' = IF process[c.client] = "starting" THEN faults + 1 ELSE faults
  /\ Ends(c)
  /\ UNCHANGED <<core, client, built, state, process, external, configures>>

\* Not ready in time, ended at once, or closed by configure: the handoff fails,
\* and what was started is closed.
NotReady(c) ==
  /\ c \in In("handoff", "await") /\ process[c.client] # "ready"
  /\ faults < MaxFaults \/ process[c.client] # "starting"
  /\ faults' = IF process[c.client] = "starting" THEN faults + 1 ELSE faults
  /\ process' = [process EXCEPT ![c.client] = "none"]
  /\ Ends(c)
  /\ UNCHANGED <<core, client, built, state, external, configures>>

\* External: a listener ends by itself.
ListenerStops(g) ==
  /\ faults < MaxFaults /\ process[g] \in {"starting", "ready"}
  /\ faults' = faults + 1
  /\ process' = [process EXCEPT ![g] = "dead"]
  /\ UNCHANGED <<core, client, built, state, calls, external, configures>>

\* External: Feishu creates the card, or finds the one of the same key.
Known(i) == {m \in Messages : card[m] # None /\ card[m].issue = i}
Fresh == {m \in Messages : card[m] = None /\ \A n \in 1..(m - 1) : card[n] # None}
Posts(i, m) ==
  \/ m \in Known(i) /\ UNCHANGED card
  \/ /\ Known(i) = {} /\ m \in Fresh
     /\ card' = [card EXCEPT ![m] = [issue |-> i, shows |-> "form", evidence |-> FALSE]]

SendCard(c) ==
  /\ c \in In("handoff", "send")
  /\ \E m \in Messages :
       /\ Posts(c.issue, m)
       /\ Becomes(c, [c EXCEPT !.pc = "sent", !.copy.message = m])
  /\ UNCHANGED <<core, client, built, state, process, press, bound>>

StoreCard(c) ==
  LET new == [c.copy EXCEPT !.handoff = "delivering", !.card_state = "awaiting_engineer"] IN
  /\ c \in In("handoff", "sent")
  /\ Writes(c.client, c.issue, new)
  /\ Becomes(c, [c EXCEPT !.pc = IF new.evidence THEN "finish" ELSE "evidence", !.copy = new])
  /\ UNCHANGED <<core, client, built, process, external, bound>>

\* The bundle is a reply to the card, with a key of its own.
Replies(m) == card' = [card EXCEPT ![m].evidence = TRUE]

SendEvidence(c) ==
  /\ c \in In("handoff", "evidence")
  /\ Replies(c.copy.message)
  /\ Becomes(c, [c EXCEPT !.pc = "finish", !.copy.evidence = TRUE])
  /\ UNCHANGED <<core, client, built, state, process, press, bound>>

\* A call fails, or only its answer is lost.
HandoffFails(c) ==
  /\ c \in In("handoff", "send") \cup In("handoff", "evidence")
  /\ faults < MaxFaults
  /\ faults' = faults + 1
  /\ \/ UNCHANGED card
     \/ c.pc = "send" /\ \E m \in Messages : Posts(c.issue, m)
     \/ c.pc = "evidence" /\ Replies(c.copy.message)
  /\ Ends(c)
  /\ UNCHANGED <<core, client, built, state, process, press, configures>>

Concluded(copy, status) ==
  IF copy.handoff \in {"solution_available", "closed"} THEN copy
  ELSE [copy EXCEPT !.handoff =
          IF status = "pending_verification" /\ copy.version > 0
          THEN "solution_available" ELSE "delivered"]

\* The copy, as concluded, replaces the record; then the client is synced.
FinishHandoff(c) ==
  /\ c \in In("handoff", "finish")
  /\ Writes(c.client, c.issue, Concluded(c.copy, c.status))
  /\ Go(c, "copy")
  /\ UNCHANGED <<core, client, built, process, external, bound>>

-----------------------------------------------------------------------------
(* sync, confirm, verification_failed, and the form's event. *)

CopyForSync(c) ==
  LET old == mem[c.client][c.issue] IN
  /\ c \in In("handoff", "copy") \cup In("timeline", "copy")
  /\ Becomes(c, [c EXCEPT !.copy = old, !.pc =
       IF /\ old.handoff = "solution_available"
          /\ old.card_state # "waiting_verification"
          /\ old.message # None /\ old.version > 0
       THEN "update" ELSE "import"])
  /\ UNCHANGED <<core, client, built, state, process, external, bound>>

CopyForConfirm(c) ==
  LET old == mem[c.client][c.issue] IN
  /\ c \in In("confirm", "copy")
  /\ Becomes(c, [c EXCEPT !.copy = old, !.pc = IF old.message = None THEN "store" ELSE "update"])
  /\ UNCHANGED <<core, client, built, state, process, external, bound>>

\* A version that is not the current one, or a missing card, ends the call.
CopyForFailure(c) ==
  LET old == mem[c.client][c.issue] IN
  /\ c \in In("failed", "copy")
  /\ IF old.version = c.version /\ old.message # None
     THEN Becomes(c, [c EXCEPT !.copy = old, !.pc = "update"])
     ELSE Ends(c)
  /\ UNCHANGED <<core, client, built, state, process, external, bound>>

Takes(r) == r.handoff \in {"delivered", "handling"}

\* A client that listens hears a submission; unless it takes it, it is gone.
ReceivePress(p, g) ==
  LET hit == {i \in Issues : mem[g][i].message = press[p] /\ Takes(mem[g][i])} IN
  /\ press[p] \in Messages /\ process[g] = "ready"
  /\ press' = [press EXCEPT ![p] = Heard]
  /\ IF hit = {} THEN UNCHANGED <<state, calls>>
     ELSE \E i \in hit :
       LET new == [mem[g][i] EXCEPT !.version = @ + 1, !.handoff = "solution_available"] IN
       /\ new.version \in Version
       /\ Writes(g, i, new)
       /\ calls' = calls \cup {[Call("event", i, g, "update") EXCEPT !.copy = new]}
  /\ UNCHANGED <<core, client, built, process, card, bound>>

\* External: nobody listens, and the engineer is told that it failed.
LosePress(p) ==
  /\ press[p] \in Messages /\ \A g \in Client : process[g] # "ready"
  /\ press' = [press EXCEPT ![p] = Lost]
  /\ UNCHANGED <<core, client, built, state, process, calls, card, bound>>

Shown(op) == CASE op \in {"handoff", "timeline", "event"} -> "waiting_verification"
               [] op = "confirm" -> "closed"
               [] op = "failed"  -> "form"

UpdateCard(c) ==
  /\ c \in calls /\ c.pc = "update"
  /\ card' = [card EXCEPT ![c.copy.message].shows = Shown(c.op)]
  /\ Go(c, "store")
  /\ UNCHANGED <<core, client, built, state, process, press, bound>>

UpdateFails(c) ==
  /\ c \in calls /\ c.pc = "update"
  /\ faults < MaxFaults
  /\ faults' = faults + 1
  /\ Ends(c)
  /\ UNCHANGED <<core, client, built, state, process, external, configures>>

\* The record as it is now is amended.
Amended(r, op) ==
  CASE Shown(op) = "waiting_verification" -> [r EXCEPT !.card_state = "waiting_verification"]
    [] Shown(op) = "closed" -> [r EXCEPT !.handoff = "closed", !.card_state = "closed"]
    [] Shown(op) = "form" -> [r EXCEPT !.handoff = "delivered", !.card_state = "awaiting_engineer"]

StoreUpdate(c) ==
  LET r == mem[c.client][c.issue] IN
  /\ c \in calls /\ c.pc = "store"
  /\ IF r = Blank THEN UNCHANGED state ELSE Writes(c.client, c.issue, Amended(r, c.op))
  /\ IF c.op \in {"handoff", "timeline"} THEN Go(c, "import") ELSE Ends(c)
  /\ UNCHANGED <<core, client, built, process, external, bound>>

\* Slip: the client's word for the handoff is taken over as it is.
ImportAsIs(c) ==
  /\ c \in calls /\ c.pc = "import"
  /\ core' = [core EXCEPT ![c.issue].handoff = IF @ = "queued" THEN c.copy.handoff ELSE @]
  /\ Ends(c)
  /\ UNCHANGED <<client, built, state, process, external, bound>>

\* _sync_gateway: the delivery is marked and a newer version imported.
ImportIntoCore(c) ==
  LET i == c.issue
      newer == c.copy.version > core[i].version /\ core[i].status # "closed" IN
  /\ c \in calls /\ c.pc = "import"
  /\ core' = [core EXCEPT
       ![i].handoff = IF @ = "queued" /\ c.copy.handoff \in {"delivered", "solution_available"}
                      THEN "delivered" ELSE @,
       ![i].version = IF newer THEN c.copy.version ELSE @,
       ![i].status  = IF newer THEN "pending_verification" ELSE @]
  /\ Ends(c)
  /\ UNCHANGED <<client, built, state, process, external, bound>>

-----------------------------------------------------------------------------
\* External: an engineer submits a form that is shown.
PressSubmit(p) ==
  /\ press[p] = Unpressed
  /\ \E m \in Messages :
       /\ card[m] # None /\ card[m].shows = "form"
       /\ press' = [press EXCEPT ![p] = m]
  /\ UNCHANGED <<core, client, built, state, process, calls, card, bound>>

Step(c) ==
  \/ StartJob(c) \/ CopyForHandoff(c) \/ EnsureStarted(c) \/ Started(c)
  \/ NotReady(c) \/ SendCard(c) \/ StoreCard(c) \/ SendEvidence(c) \/ FinishHandoff(c)
  \/ CopyForSync(c) \/ CopyForConfirm(c) \/ CopyForFailure(c) \/ UpdateCard(c)
  \/ StoreUpdate(c) \/ ImportIntoCore(c)

Fails(c) == HandoffFails(c) \/ UpdateFails(c)

Next ==
  \/ \E i \in Issues : RequestHandoff(i) \/ Poll(i) \/ ConfirmSolution(i) \/ ReportFailure(i)
  \/ \E c \in calls : Step(c) \/ Fails(c)
  \/ \E g \in Client : ListenerReady(g) \/ ListenerStops(g)
  \/ \E p \in Presses : PressSubmit(p) \/ LosePress(p) \/ \E g \in Client : ReceivePress(p, g)
  \/ BuildClient \/ Configure \/ Crash

Spec == Init /\ [][Next]_vars

\* Jobs run, lark-cli gets to listen, and the page polls.
Fairness ==
  /\ \A op \in Op : WF_vars(\E c \in calls : c.op = op /\ Step(c))
  /\ WF_vars(\E g \in Client : ListenerReady(g))
  /\ \A i \in Issues : WF_vars(Poll(i))
  /\ WF_vars(Configure)

FairSpec == Spec /\ Fairness

-----------------------------------------------------------------------------
\* Records, processes, calls and cards hold values of their types.
TypeOK ==
  /\ core \in [Issues -> [handoff : {"none", "queued", "delivered"}, status : Status,
                          version : Version]]
  /\ client \in Client /\ built \in {client, client + 1}
  /\ mem \in [Client -> [Issues -> Record]]
  /\ saved \in [Issues -> Record]
  /\ process \in [Client -> {"none", "starting", "ready", "dead"}]
  /\ calls \subseteq CallRecord
  /\ card \in [Messages -> Card \cup {None}]
  /\ press \in [Presses -> 0..Lost]

\* What the core holds for delivered has its card in Feishu and the evidence by
\* it, however often the handoff broke off between the two and whichever client
\* and process went on with it, and from whichever state of the file.
DeliveredIsComplete ==
  \A i \in Issues : core[i].handoff = "delivered" =>
    \E m \in Messages : card[m] # None /\ card[m].issue = i /\ card[m].evidence

\* No card is sent by a client in use whose listener has not been ready: the
\* form's answer would have nobody to go to.
SendsAreHeard ==
  \A c \in calls :
    c.op = "handoff" /\ c.client = client /\ c.pc \in {"send", "sent", "evidence", "finish"}
      => process[client] \in {"ready", "dead"}

\* A requested handoff is delivered in the end, whatever happens to listeners,
\* calls, clients and the process.
HandoffIsDelivered ==
  \A i \in Issues : core[i].handoff = "queued" ~> core[i].handoff = "delivered"
=============================================================================
