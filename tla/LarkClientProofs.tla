--------------------------- MODULE LarkClientProofs ---------------------------
(***************************************************************************)
(* For any number of issues, clients, workers and messages: what the core  *)
(* holds for delivered is in Feishu with its evidence, and the client in   *)
(* use sends no card before its listener has been ready.                   *)
(*                                                                         *)
(* The argument: of the handoffs of one client at most one is inside       *)
(* _handoff_lock.  A listener that is starting is waited for by it, so no  *)
(* other handoff can find it half started; and a handoff that gives up a   *)
(* listener takes it from nobody.  A client that comes into use is newer   *)
(* than every client a job has taken, so no job is in its lock.            *)
(*                                                                         *)
(* Every record, in whichever client, in the file or in the hands of a     *)
(* job, says nothing of Feishu that is not so; and what is so in Feishu    *)
(* stays so.  Nothing is needed of which record overwrites which.          *)
(***************************************************************************)
EXTENDS LarkClient, TLAPS

\* A client is built for the process, for each replacement and for each crash.
Counted ==
  /\ configures \in 0 .. MaxConfigures /\ faults \in 0 .. MaxFaults
  /\ built <= 1 + configures + faults

\* Only a handoff that no worker has taken has no client.
Taken == \A c \in calls : c.client = 0 => c.op = "handoff" /\ c.pc = "queued"

\* The message of a record is a card that was created.
Named(r) == r.message # None => card[r.message] # None
NamesCards ==
  /\ \A g \in Client, i \in Issues : Named(mem[g][i])
  /\ \A i \in Issues : Named(saved[i])
  /\ \A c \in calls : Named(c.copy) /\ (c.pc = "update" => c.copy.message # None)

\* What holds of every client, call, record and card.
Types == TypeOK /\ Counted /\ Taken /\ NamesCards

\* The handoffs of client g inside its _handoff_lock: at most one.
Inside(c, g) == c.op = "handoff" /\ c.client = g /\ c.pc \in Locked
OneInside ==
  \A g \in Client : \A c, d \in calls : Inside(c, g) /\ Inside(d, g) => c = d

\* A listener that is starting is waited for.
StarterWaits ==
  \A g \in Client : process[g] = "starting" =>
    \E c \in calls : c.op = "handoff" /\ c.client = g /\ c.pc = "await"

\* No handoff has a client newer than the one in use.
NoneAhead == \A c \in calls : c.op = "handoff" => c.client <= client

\* The card of an issue is in Feishu with the evidence.
Complete(i) == \E m \in Messages : card[m] # None /\ card[m].issue = i /\ card[m].evidence

\* What a record of an issue says of Feishu is so.
Says(rec, i) ==
  /\ rec.message # None => card[rec.message] # None /\ card[rec.message].issue = i
  /\ rec.evidence \/ rec.version > 0 \/ rec.handoff \in {"delivered", "solution_available"}
       => Complete(i)

\* And so is what a job is about to say.
JobSays(c) ==
  /\ Says(c.copy, c.issue)
  /\ c.pc \in {"sent", "evidence"} => c.copy.message # None
  /\ c.pc = "finish" => Complete(c.issue)
  /\ c.op = "failed" => Complete(c.issue)

RecordsSay ==
  /\ \A g \in Client, i \in Issues : Says(mem[g][i], i)
  /\ \A i \in Issues : Says(saved[i], i)

CoreSays ==
  \A i \in Issues : core[i].handoff = "delivered" \/ core[i].status = "pending_verification"
    => Complete(i)

Told == RecordsSay /\ CoreSays /\ \A c \in calls : JobSays(c)

IInv == Types /\ Told /\ OneInside /\ StarterWaits /\ NoneAhead /\ SendsAreHeard

-----------------------------------------------------------------------------
\* Who takes a step.
LEMMA NextCases ==
  ASSUME NEW P, [Next]_vars,
         \A i \in Issues :
           RequestHandoff(i) \/ Poll(i) \/ ConfirmSolution(i) \/ ReportFailure(i) => P,
         \A c \in calls : Step(c) \/ Fails(c) => P,
         \A g \in Client : ListenerReady(g) \/ ListenerStops(g) => P,
         \A p \in Presses : PressSubmit(p) \/ LosePress(p) => P,
         \A p \in Presses, g \in Client : ReceivePress(p, g) => P,
         BuildClient \/ Configure \/ Crash => P,
         UNCHANGED vars => P
  PROVE  P
BY DEF Next

\* The bounds are numbers.
LEMMA Bounds ==
  /\ MaxMessages \in Nat /\ MaxVersion \in Nat /\ MaxConfigures \in Nat /\ MaxFaults \in Nat
  /\ None \notin Messages /\ None \notin Card
BY LarkAssumption

\* A fault more leaves room for a client more.
LEMMA CountsOn ==
  ASSUME NEW x \in Nat, NEW y \in Nat, NEW z \in Nat, NEW w \in Nat, x <= 1 + y + z, z <= w
  PROVE  x <= 1 + y + w
OBVIOUS

\* A call that goes on is a call, with what is not changed kept.
LEMMA CallGoes ==
  ASSUME NEW c \in CallRecord, NEW pc \in Pc, NEW copy \in Record,
         NEW g \in Client \cup {0}, NEW status \in Status
  PROVE  /\ [c EXCEPT !.pc = pc] \in CallRecord
         /\ [c EXCEPT !.pc = pc, !.copy = copy] \in CallRecord
         /\ [c EXCEPT !.copy = copy, !.pc = pc] \in CallRecord
         /\ [c EXCEPT !.pc = pc, !.client = g, !.status = status] \in CallRecord
BY DEF CallRecord

\* A client that writes a record leaves typed records.
LEMMA WriteTypes ==
  ASSUME TypeOK, NEW g \in Client, NEW i \in Issues, NEW new \in Record, Writes(g, i, new)
  PROVE  /\ mem' \in [Client -> [Issues -> Record]] /\ saved' \in [Issues -> Record]
         /\ mem'[g] = [mem[g] EXCEPT ![i] = new]
         /\ saved' = [mem[g] EXCEPT ![i] = new]
         /\ \A h \in Client : h # g => mem'[h] = mem[h]
BY DEF TypeOK, Writes

LEMMA BlankTyped == Blank \in Record
<1>1. None \in Messages \cup {None} /\ 0 \in Version
  BY Bounds DEF Version
<1> QED BY <1>1 DEF Blank, Record, Handoff, Face

LEMMA CallTyped ==
  ASSUME NEW op \in Op, NEW i \in Issues, NEW g \in Client \cup {0}, NEW pc \in Pc,
         NEW v \in Version
  PROVE  /\ Call(op, i, g, pc) \in CallRecord
         /\ [Call(op, i, g, pc) EXCEPT !.version = v] \in CallRecord
         /\ \A r \in Record : [Call(op, i, g, pc) EXCEPT !.copy = r] \in CallRecord
<1>1. Blank \in Record /\ "open" \in Status /\ 0 \in Version
  BY BlankTyped, Bounds DEF Status, Version
<1> QED BY <1>1 DEF Call, CallRecord

\* Waiting handoffs are calls without a client.
LEMMA QueueTyped ==
  ASSUME NEW is, is \subseteq Issues
  PROVE  /\ Queue(is) \subseteq CallRecord
         /\ \A c \in Queue(is) : c.op = "handoff" /\ c.pc = "queued" /\ c.client = 0 /\ c.copy = Blank
<1>1. "handoff" \in Op /\ "queued" \in Pc /\ 0 \in Version
  BY Bounds DEF Op, Pc, Version
<1>2. \A i \in is : Call("handoff", i, 0, "queued") \in CallRecord
  BY <1>1, CallTyped
<1> QED BY <1>2 DEF Queue, Call

\* The runtime's operations keep the types.
LEMMA RuntimeTypes ==
  ASSUME Types, NEW i \in Issues,
         RequestHandoff(i) \/ Poll(i) \/ ConfirmSolution(i) \/ ReportFailure(i)
  PROVE  Types'
<1>1. /\ calls \subseteq CallRecord /\ client \in Client
      /\ core \in [Issues -> [handoff : {"none", "queued", "delivered"}, status : Status,
                              version : Version]]
  BY DEF Types, TypeOK
<1>2. 0 \notin Client
  BY DEF Client
<1>3. \A c \in calls' : \/ c \in calls
                        \/ /\ c \in CallRecord /\ c.copy = Blank /\ c.pc # "update"
                           /\ c.client = 0 => c.op = "handoff" /\ c.pc = "queued"
  <2>1. CASE RequestHandoff(i)
    BY <2>1, QueueTyped DEF RequestHandoff
  <2>2. CASE Poll(i)
    <3>1. Call("timeline", i, client, "copy") \in CallRecord
      <4>1. "timeline" \in Op /\ "copy" \in Pc /\ 0 \in Version
        BY Bounds DEF Op, Pc, Version
      <4> QED BY <1>1, <4>1, CallTyped
    <3> QED BY <1>1, <1>2, <2>2, <3>1, QueueTyped DEF Poll, Call
  <2>3. ASSUME NEW op \in {"confirm", "failed"},
               calls' = calls \cup {[Call(op, i, client, "queued") EXCEPT !.version = core[i].version]}
        PROVE  \A c \in calls' : \/ c \in calls
                                 \/ c \in CallRecord /\ c.copy = Blank /\ c.pc # "update" /\ c.client # 0
    <3>1. op \in Op /\ "queued" \in Pc /\ core[i].version \in Version
      BY <1>1 DEF Op, Pc
    <3>2. [Call(op, i, client, "queued") EXCEPT !.version = core[i].version] \in CallRecord
      BY <1>1, <3>1, CallTyped
    <3> QED BY <1>1, <1>2, <2>3, <3>2 DEF Call
  <2> QED BY <2>1, <2>2, <2>3 DEF ConfirmSolution, ReportFailure
<1>4. core' \in [Issues -> [handoff : {"none", "queued", "delivered"}, status : Status,
                            version : Version]]
  BY <1>1 DEF RequestHandoff, Poll, ConfirmSolution, ReportFailure, Status
<1>5. UNCHANGED <<client, built, mem, saved, process, card, press, configures, faults>>
  BY DEF RequestHandoff, Poll, ConfirmSolution, ReportFailure, state, external, bound
<1>6. TypeOK'
  BY <1>1, <1>3, <1>4, <1>5 DEF Types, TypeOK
<1>7. Counted' /\ Taken'
  BY <1>3, <1>5 DEF Types, Counted, Taken
<1>8. NamesCards'
  BY <1>3, <1>5 DEF Types, NamesCards, Named, Blank
<1> QED BY <1>6, <1>7, <1>8 DEF Types

\* What a call in progress has: a client, and a record whose message is a card.
LEMMA CallInProgress ==
  ASSUME Types, NEW c \in calls, c.pc # "queued"
  PROVE  /\ c \in CallRecord /\ c.client \in Client /\ c.issue \in Issues /\ c.op \in Op
         /\ c.copy \in Record /\ Named(c.copy)
         /\ c.pc = "update" => c.copy.message \in Messages
         /\ mem[c.client][c.issue] \in Record /\ Named(mem[c.client][c.issue])
<1>1. /\ c \in CallRecord /\ c.client \in Client \cup {0} /\ c.issue \in Issues /\ c.op \in Op
      /\ c.copy \in Record /\ c.copy.message \in Messages \cup {None}
  BY DEF Types, TypeOK, CallRecord, Record
<1>2. c.client \in Client
  BY <1>1 DEF Types, Taken
<1>3. mem[c.client][c.issue] \in Record
  BY <1>1, <1>2 DEF Types, TypeOK
<1> QED BY <1>1, <1>2, <1>3 DEF Types, NamesCards

\* The records of the clients and of the file, typed and of cards there are.
Remembers ==
  /\ mem \in [Client -> [Issues -> Record]] /\ saved \in [Issues -> Record]
  /\ \A g \in Client, i \in Issues : Named(mem[g][i])
  /\ \A i \in Issues : Named(saved[i])

\* A step that changes one call, and that adds a card or changes one, if any.
LEMMA CallKeepsTypes ==
  ASSUME Types, NEW d \in CallRecord, calls' \subseteq calls \cup {d}, d.client # 0,
         d.copy.message # None => card'[d.copy.message] # None,
         d.pc = "update" => d.copy.message # None,
         core' \in [Issues -> [handoff : {"none", "queued", "delivered"}, status : Status,
                               version : Version]],
         process' \in [Client -> {"none", "starting", "ready", "dead"}],
         card' \in [Messages -> Card \cup {None}],
         \A m \in Messages : card[m] # None => card'[m] # None,
         \/ UNCHANGED state
         \/ \E g \in Client, i \in Issues, new \in Record :
              Writes(g, i, new) /\ (new.message # None => card'[new.message] # None),
         press' \in [Presses -> 0 .. Lost],
         UNCHANGED <<client, built, configures>>, faults' \in faults .. MaxFaults
  PROVE  Types'
<1>1. mem \in [Client -> [Issues -> Record]] /\ saved \in [Issues -> Record]
  BY DEF Types, TypeOK
<1>2. \A r \in Record : r.message \in Messages \cup {None}
  BY DEF Record
<1>3. /\ \A g \in Client, i \in Issues : Named(mem[g][i])
      /\ \A i \in Issues : Named(saved[i])
  BY DEF Types, NamesCards
<1>10. \A r \in Record : Named(r) => (r.message # None => card'[r.message] # None)
  BY <1>2 DEF Named
<1>11. /\ \A h \in Client, j \in Issues : mem[h][j].message # None => card'[mem[h][j].message] # None
       /\ \A j \in Issues : saved[j].message # None => card'[saved[j].message] # None
  BY <1>1, <1>3, <1>10
<1>4. Remembers'
  <2>1. CASE UNCHANGED state
    <3>1. mem' = mem /\ saved' = saved
      BY <2>1 DEF state
    <3> QED BY <1>1, <1>11, <3>1 DEF Remembers, Named
  <2>2. ASSUME NEW g \in Client, NEW i \in Issues, NEW new \in Record, Writes(g, i, new),
               new.message # None => card'[new.message] # None
        PROVE  Remembers'
    <3>1. /\ mem' \in [Client -> [Issues -> Record]] /\ saved' \in [Issues -> Record]
          /\ mem'[g] = [mem[g] EXCEPT ![i] = new]
          /\ saved' = [mem[g] EXCEPT ![i] = new]
          /\ \A h \in Client : h # g => mem'[h] = mem[h]
      BY <2>2, WriteTypes DEF Types
    <3>2. /\ \A h \in Client, j \in Issues : mem'[h][j] = mem[h][j] \/ mem'[h][j] = new
          /\ \A j \in Issues : saved'[j] = mem[g][j] \/ saved'[j] = new
      BY <1>1, <3>1
    <3>3. /\ \A h \in Client, j \in Issues :
               mem'[h][j].message # None => card'[mem'[h][j].message] # None
          /\ \A j \in Issues : saved'[j].message # None => card'[saved'[j].message] # None
      BY <1>11, <2>2, <3>2
    <3> QED BY <3>1, <3>3 DEF Remembers, Named
  <2> QED BY <2>1, <2>2
<1>5. \A c \in calls' : c \in calls \/ c = d
  OBVIOUS
<1>6. TypeOK'
  BY <1>4, <1>5 DEF Types, TypeOK, Remembers
<1>7. Counted'
  <2>1. /\ faults \in 0 .. MaxFaults /\ faults \in Nat /\ configures \in Nat /\ built \in Nat
        /\ configures \in 0 .. MaxConfigures /\ built <= 1 + configures + faults
    BY DEF Types, TypeOK, Counted, Client
  <2>2. faults' \in 0 .. MaxFaults /\ faults' \in Nat /\ faults <= faults'
    BY <2>1, Bounds
  <2>3. configures' = configures /\ built' = built
    OBVIOUS
  <2>4. built <= 1 + configures + faults'
    BY ONLY <2>1, <2>2, CountsOn
  <2>5. configures' \in 0 .. MaxConfigures
    BY ONLY <2>1, <2>2, <2>3
  <2> QED BY ONLY <2>2, <2>3, <2>4, <2>5 DEF Counted
<1>8. Taken'
  BY <1>5 DEF Types, Taken
<1>9. NamesCards'
  <2>1. \A c \in calls : Named(c.copy) /\ (c.pc = "update" => c.copy.message # None)
                         /\ c.copy \in Record
    BY DEF Types, TypeOK, NamesCards, CallRecord
  <2> QED BY <1>2, <1>4, <1>5, <2>1 DEF NamesCards, Remembers, Named
<1> QED BY <1>6, <1>7, <1>8, <1>9 DEF Types

\* What is in Feishu stays there.
Stays ==
  \A n \in Messages : card[n] # None =>
    /\ card'[n] # None /\ card'[n].issue = card[n].issue
    /\ card[n].evidence => card'[n].evidence

\* A card that is posted, or found, is one of the issue.
LEMMA PostsStay ==
  ASSUME Types, NEW i \in Issues, NEW m \in Messages, Posts(i, m)
  PROVE  /\ card' \in [Messages -> Card \cup {None}] /\ Stays
         /\ card'[m] # None /\ card'[m].issue = i
<1>1. card \in [Messages -> Card \cup {None}]
  BY DEF Types, TypeOK
<1>2. CASE m \in Known(i) /\ UNCHANGED card
  BY <1>1, <1>2 DEF Known, Stays
<1>3. CASE m \in Fresh /\ card' = [card EXCEPT ![m] = [issue |-> i, shows |-> "form", evidence |-> FALSE]]
  <2> DEFINE new == [issue |-> i, shows |-> "form", evidence |-> FALSE]
  <2>1. new \in Card /\ new.issue = i
    BY DEF Card
  <2>2. card[m] = None /\ card' = [card EXCEPT ![m] = new]
    BY <1>3 DEF Fresh
  <2> HIDE DEF new
  <2> QED BY <1>1, <2>1, <2>2, Bounds DEF Stays
<1> QED BY <1>2, <1>3 DEF Posts

\* A reply with the evidence leaves the other cards alone.
LEMMA RepliesStay ==
  ASSUME Types, NEW m \in Messages \cup {None}, m # None => card[m] # None, Replies(m)
  PROVE  /\ card' \in [Messages -> Card \cup {None}] /\ Stays
         /\ m # None => card'[m].evidence
<1>1. card \in [Messages -> Card \cup {None}] /\ card' = [card EXCEPT ![m].evidence = TRUE]
  BY DEF Types, TypeOK, Replies
<1>2. CASE m = None
  <2>1. card' = card
    BY <1>1, <1>2, Bounds
  <2> QED BY <1>1, <1>2, <2>1 DEF Stays
<1>3. CASE m # None
  <2>1. m \in Messages /\ card[m] \in Card
    BY <1>1, <1>3
  <2>2. /\ [card[m] EXCEPT !.evidence = TRUE] \in Card
        /\ [card[m] EXCEPT !.evidence = TRUE].issue = card[m].issue
        /\ [card[m] EXCEPT !.evidence = TRUE].evidence = TRUE
    BY <2>1 DEF Card
  <2>3. /\ card' \in [Messages -> Card \cup {None}]
        /\ card'[m] = [card[m] EXCEPT !.evidence = TRUE]
        /\ \A n \in Messages : n # m => card'[n] = card[n]
    BY <1>1, <2>1, <2>2
  <2> QED BY <2>1, <2>2, <2>3, Bounds DEF Stays
<1> QED BY <1>2, <1>3

\* The steps of a call keep the types.
LEMMA StepTypes ==
  ASSUME Types, NEW c \in calls, Step(c) \/ Fails(c)
  PROVE  Types'
<1>1. /\ core \in [Issues -> [handoff : {"none", "queued", "delivered"}, status : Status,
                              version : Version]]
      /\ process \in [Client -> {"none", "starting", "ready", "dead"}]
      /\ card \in [Messages -> Card \cup {None}] /\ press \in [Presses -> 0 .. Lost]
      /\ client \in Client /\ c \in CallRecord /\ c.issue \in Issues
  BY DEF Types, TypeOK, CallRecord
<1>2. /\ faults \in faults .. MaxFaults
      /\ faults < MaxFaults => faults + 1 \in faults .. MaxFaults
  BY Bounds DEF Types, Counted
<1>3. ASSUME c.pc # "queued"
      PROVE  /\ c.client \in Client /\ c.client # 0 /\ c.issue \in Issues /\ c.op \in Op
             /\ c.copy \in Record /\ (c.copy.message # None => card[c.copy.message] # None)
             /\ c.pc = "update" => c.copy.message \in Messages
             /\ mem[c.client][c.issue] \in Record
             /\ LET m == mem[c.client][c.issue].message IN
                m \in Messages \cup {None} /\ (m # None => card[m] # None)
  BY <1>3, CallInProgress DEF Named, Client, Record
\* Most steps change the call alone.
<1>4. ASSUME NEW d \in CallRecord, Becomes(c, d) \/ Ends(c), d.client # 0,
             d.copy.message # None => card[d.copy.message] # None,
             d.pc = "update" => d.copy.message # None,
             UNCHANGED <<core, client, built, state, card, press, configures>>,
             process' \in [Client -> {"none", "starting", "ready", "dead"}],
             faults' \in faults .. MaxFaults
      PROVE  Types'
  <2>1. calls' \subseteq calls \cup {d}
    BY <1>4 DEF Becomes, Ends
  <2> QED BY <1>1, <1>4, <2>1, CallKeepsTypes
<1>5. ASSUME NEW pc \in Pc \ {"update"}, Go(c, pc) \/ Ends(c), c.pc # "queued",
             UNCHANGED <<core, client, built, state, card, press, configures>>,
             process' \in [Client -> {"none", "starting", "ready", "dead"}],
             faults' \in faults .. MaxFaults
      PROVE  Types'
  <2>1. /\ [c EXCEPT !.pc = pc] \in CallRecord /\ [c EXCEPT !.pc = pc].client = c.client
        /\ [c EXCEPT !.pc = pc].copy = c.copy /\ [c EXCEPT !.pc = pc].pc = pc
    BY <1>1 DEF CallRecord
  <2> QED BY <1>3, <1>4, <1>5, <2>1 DEF Go
<1>6. CASE StartJob(c)
  <2>1. CASE c.op = "handoff"
    <3> DEFINE d == [c EXCEPT !.pc = "lock", !.client = client, !.status = core[c.issue].status]
    <3>1. d \in CallRecord /\ d.client = client /\ d.copy = c.copy /\ d.pc = "lock"
      BY <1>1 DEF CallRecord, Pc
    <3>2. client # 0 /\ Named(c.copy)
      BY <1>1 DEF Client, Types, NamesCards
    <3>3. Becomes(c, d) /\ UNCHANGED <<core, client, built, state, process, external, bound>>
      BY <1>6, <2>1 DEF StartJob
    <3> HIDE DEF d
    <3> QED BY <1>1, <1>2, <1>4, <3>1, <3>2, <3>3 DEF Named, external, bound
  <2>2. CASE c.op # "handoff"
    <3> DEFINE d == [c EXCEPT !.pc = "copy"]
    <3>1. d \in CallRecord /\ d.client = c.client /\ d.copy = c.copy /\ d.pc = "copy"
      BY <1>1 DEF CallRecord, Pc
    <3>2. c.client # 0 /\ Named(c.copy)
      BY <2>2 DEF Types, Taken, NamesCards
    <3>3. Becomes(c, d) /\ UNCHANGED <<core, client, built, state, process, external, bound>>
      BY <1>6, <2>2 DEF StartJob, Go
    <3> HIDE DEF d
    <3> QED BY <1>1, <1>2, <1>4, <3>1, <3>2, <3>3 DEF Named, external, bound
  <2> QED BY <2>1, <2>2
\* A call takes a copy of the record.
<1>7. ASSUME NEW pc \in Pc, c.pc # "queued",
             LET r == mem[c.client][c.issue] IN
               /\ Becomes(c, [c EXCEPT !.pc = pc, !.copy = r])
               /\ pc = "update" => r.message # None,
             UNCHANGED <<core, client, built, state, process, external, bound>>
      PROVE  Types'
  <2> DEFINE r == mem[c.client][c.issue]
             d == [c EXCEPT !.pc = pc, !.copy = r]
  <2>1. r \in Record /\ (r.message # None => card[r.message] # None) /\ c.client # 0
    BY <1>3, <1>7
  <2>2. d \in CallRecord /\ d.client = c.client /\ d.copy = r /\ d.pc = pc
    BY <1>1, <2>1 DEF CallRecord
  <2>3. Becomes(c, d) /\ (pc = "update" => r.message # None)
    BY <1>7
  <2> HIDE DEF d, r
  <2> QED BY <1>1, <1>2, <1>4, <1>7, <2>1, <2>2, <2>3 DEF external, bound
<1>8. CASE CopyForHandoff(c)
  BY <1>7, <1>8 DEF CopyForHandoff, In, Pc
<1>9. CASE EnsureStarted(c) \/ Started(c)
  <2>1. \E pc \in Pc \ {"update"} : Go(c, pc)
    <3>1. {"await", "send", "finish", "evidence"} \subseteq Pc \ {"update"}
      BY DEF Pc
    <3> QED BY <1>9, <3>1 DEF EnsureStarted, Started, After
  <2>2. process' \in [Client -> {"none", "starting", "ready", "dead"}]
    BY <1>1, <1>9 DEF EnsureStarted, Started
  <2>3. /\ c.pc # "queued" /\ faults' = faults
        /\ UNCHANGED <<core, client, built, state, card, press, configures>>
    BY <1>9 DEF EnsureStarted, Started, In, external, bound
  <2> QED BY <1>2, <1>5, <2>1, <2>2, <2>3
<1>10. CASE NotReady(c)
  <2>1. /\ c.pc # "queued" /\ Ends(c) /\ "lock" \in Pc \ {"update"}
        /\ UNCHANGED <<core, client, built, state, card, press, configures>>
    BY <1>10 DEF NotReady, In, external, Pc
  <2>2. process' \in [Client -> {"none", "starting", "ready", "dead"}]
    BY <1>1, <1>10 DEF NotReady
  <2>3. faults' \in faults .. MaxFaults
    BY <1>2, <1>10 DEF NotReady
  <2> QED BY <1>5, <2>1, <2>2, <2>3
\* A card that is posted is there, with those there were.
<1>11. ASSUME NEW i \in Issues, NEW m \in Messages, Posts(i, m)
       PROVE  /\ card' \in [Messages -> Card \cup {None}] /\ card'[m] # None
              /\ \A n \in Messages : card[n] # None => card'[n] # None
  BY <1>11, PostsStay DEF Stays
<1>12. CASE SendCard(c)
  <2>1. PICK m \in Messages :
          Posts(c.issue, m) /\ Becomes(c, [c EXCEPT !.pc = "sent", !.copy.message = m])
    BY <1>12 DEF SendCard
  <2> DEFINE d == [c EXCEPT !.pc = "sent", !.copy.message = m]
  <2>2. c.client # 0 /\ c.copy \in Record
    BY <1>3, <1>12 DEF SendCard, In
  <2>3. [c.copy EXCEPT !.message = m] \in Record
    BY <2>2 DEF Record
  <2>4. d \in CallRecord /\ d.client = c.client /\ d.pc = "sent" /\ d.copy = [c.copy EXCEPT !.message = m]
    BY <1>1, <2>3 DEF CallRecord, Pc
  <2>5. d.copy.message = m
    BY <2>2, <2>4 DEF Record
  <2>6. UNCHANGED <<core, client, built, state, process, press, configures, faults>>
    BY <1>12 DEF SendCard, bound
  <2>7. calls' \subseteq calls \cup {d}
    BY <2>1 DEF Becomes
  <2> HIDE DEF d
  <2> QED BY <1>1, <1>2, <1>11, <2>1, <2>2, <2>4, <2>5, <2>6, <2>7, CallKeepsTypes
<1>13. CASE StoreCard(c)
  <2> DEFINE new == [c.copy EXCEPT !.handoff = "delivering", !.card_state = "awaiting_engineer"]
             pc == IF new.evidence THEN "finish" ELSE "evidence"
             d == [c EXCEPT !.pc = pc, !.copy = new]
  <2>1. c.client \in Client /\ c.client # 0 /\ c.copy \in Record
        /\ (c.copy.message # None => card[c.copy.message] # None)
    BY <1>3, <1>13 DEF StoreCard, In
  <2>2. new \in Record /\ new.message = c.copy.message
    BY <2>1 DEF Record, Handoff, Face
  <2>3. pc \in Pc \ {"update"}
    BY DEF Pc
  <2> HIDE DEF new
  <2>4. d \in CallRecord /\ d.client = c.client /\ d.pc = pc /\ d.copy = new
    BY <1>1, <2>2, <2>3 DEF CallRecord
  <2>5. /\ Writes(c.client, c.issue, new) /\ Becomes(c, d)
        /\ UNCHANGED <<core, client, built, process, card, press, configures, faults>>
    BY <1>13 DEF StoreCard, external, bound, new
  <2> HIDE DEF d, pc
  <2>6. calls' \subseteq calls \cup {d}
    BY <2>5 DEF Becomes
  <2> QED BY <1>1, <1>2, <2>1, <2>2, <2>3, <2>4, <2>5, <2>6, CallKeepsTypes
<1>14. CASE SendEvidence(c)
  <2> DEFINE d == [c EXCEPT !.pc = "finish", !.copy.evidence = TRUE]
  <2>1. c.client # 0 /\ c.copy \in Record /\ (c.copy.message # None => card[c.copy.message] # None)
    BY <1>3, <1>14 DEF SendEvidence, In
  <2>2. /\ [c.copy EXCEPT !.evidence = TRUE] \in Record
        /\ [c.copy EXCEPT !.evidence = TRUE].message = c.copy.message
    BY <2>1 DEF Record
  <2>3. d \in CallRecord /\ d.client = c.client /\ d.pc = "finish"
        /\ d.copy = [c.copy EXCEPT !.evidence = TRUE]
    BY <1>1, <2>2 DEF CallRecord, Pc
  <2>4. /\ Becomes(c, d) /\ Replies(c.copy.message)
        /\ UNCHANGED <<core, client, built, state, process, press, configures, faults>>
    BY <1>14 DEF SendEvidence, bound
  <2> HIDE DEF d
  <2>5. c.copy.message \in Messages \cup {None}
    BY <2>1 DEF Record
  <2>6. /\ card' \in [Messages -> Card \cup {None}]
        /\ \A n \in Messages : card[n] # None => card'[n] # None
    BY <2>1, <2>4, <2>5, RepliesStay DEF Stays
  <2>7. d.copy.message # None => card'[d.copy.message] # None
    BY <2>1, <2>2, <2>3, <2>5, <2>6
  <2>8. calls' \subseteq calls \cup {d}
    BY <2>4 DEF Becomes
  <2> QED BY <1>1, <1>2, <2>1, <2>3, <2>4, <2>6, <2>7, <2>8, CallKeepsTypes
<1>15. CASE HandoffFails(c)
  <2>1. /\ c.pc # "queued" /\ Ends(c) /\ faults' = faults + 1 /\ faults < MaxFaults
        /\ UNCHANGED <<core, client, built, state, process, press, configures>>
    BY <1>15 DEF HandoffFails, In
  <2>2. /\ card' \in [Messages -> Card \cup {None}]
        /\ \A n \in Messages : card[n] # None => card'[n] # None
    <3>1. c.copy.message \in Messages \cup {None}
          /\ (c.copy.message # None => card[c.copy.message] # None)
      BY <1>3, <2>1 DEF Record
    <3> QED BY <1>1, <1>11, <1>15, <3>1, RepliesStay DEF HandoffFails, Stays
  <2>3. c.copy.message \in Messages \cup {None} /\ c.client # 0
        /\ (c.copy.message # None => card[c.copy.message] # None)
        /\ (c.pc = "update" => c.copy.message # None)
    BY <1>3, <2>1, Bounds DEF Record
  <2>4. calls' \subseteq calls \cup {c}
    BY <2>1 DEF Ends
  <2> QED BY <1>1, <1>2, <2>1, <2>2, <2>3, <2>4, CallKeepsTypes
<1>16. CASE FinishHandoff(c)
  <2> DEFINE new == Concluded(c.copy, c.status)
             d == [c EXCEPT !.pc = "copy"]
  <2>1. c.client \in Client /\ c.client # 0 /\ c.copy \in Record
        /\ (c.copy.message # None => card[c.copy.message] # None)
    BY <1>3, <1>16 DEF FinishHandoff, In
  <2>2. new \in Record /\ new.message = c.copy.message
    BY <2>1 DEF Concluded, Record, Handoff
  <2>3. d \in CallRecord /\ d.client = c.client /\ d.pc = "copy" /\ d.copy = c.copy
    BY <1>1 DEF CallRecord, Pc
  <2>4. /\ Writes(c.client, c.issue, new) /\ Becomes(c, d)
        /\ UNCHANGED <<core, client, built, process, card, press, configures, faults>>
    BY <1>16 DEF FinishHandoff, Go, external, bound
  <2> HIDE DEF d, new
  <2>5. calls' \subseteq calls \cup {d}
    BY <2>4 DEF Becomes
  <2> QED BY <1>1, <1>2, <2>1, <2>2, <2>3, <2>4, <2>5, CallKeepsTypes
<1>17. CASE CopyForSync(c)
  <2> DEFINE r == mem[c.client][c.issue]
             pc == IF /\ r.handoff = "solution_available"
                      /\ r.card_state # "waiting_verification"
                      /\ r.message # None /\ r.version > 0
                   THEN "update" ELSE "import"
  <2>1. pc \in Pc /\ (pc = "update" => r.message # None) /\ c.pc # "queued"
    BY <1>17 DEF CopyForSync, In, Pc
  <2>2. Becomes(c, [c EXCEPT !.copy = r, !.pc = pc])
        /\ UNCHANGED <<core, client, built, state, process, external, bound>>
    BY <1>17 DEF CopyForSync
  <2> HIDE DEF pc
  <2>3. [c EXCEPT !.copy = r, !.pc = pc] = [c EXCEPT !.pc = pc, !.copy = r]
    BY <1>1 DEF CallRecord
  <2> QED BY <1>7, <2>1, <2>2, <2>3
<1>18. CASE CopyForConfirm(c)
  <2> DEFINE r == mem[c.client][c.issue]
             pc == IF r.message = None THEN "store" ELSE "update"
  <2>1. pc \in Pc /\ (pc = "update" => r.message # None) /\ c.pc # "queued"
    BY <1>18 DEF CopyForConfirm, In, Pc
  <2>2. Becomes(c, [c EXCEPT !.copy = r, !.pc = pc])
        /\ UNCHANGED <<core, client, built, state, process, external, bound>>
    BY <1>18 DEF CopyForConfirm
  <2> HIDE DEF pc
  <2>3. [c EXCEPT !.copy = r, !.pc = pc] = [c EXCEPT !.pc = pc, !.copy = r]
    BY <1>1 DEF CallRecord
  <2> QED BY <1>7, <2>1, <2>2, <2>3
<1>19. CASE CopyForFailure(c)
  <2> DEFINE r == mem[c.client][c.issue]
  <2>1. /\ c.pc # "queued" /\ {"update", "lock"} \subseteq Pc
        /\ UNCHANGED <<core, client, built, state, process, external, bound>>
    BY <1>19 DEF CopyForFailure, In, Pc
  <2>2. CASE Ends(c)
    BY <1>2, <1>1, <1>5, <2>1, <2>2 DEF external, bound
  <2>3. CASE Becomes(c, [c EXCEPT !.copy = r, !.pc = "update"]) /\ r.message # None
    <3>1. [c EXCEPT !.copy = r, !.pc = "update"] = [c EXCEPT !.pc = "update", !.copy = r]
      BY <1>1 DEF CallRecord
    <3> QED BY <1>7, <2>1, <2>3, <3>1
  <2> QED BY <1>19, <2>2, <2>3 DEF CopyForFailure
<1>20. CASE UpdateCard(c)
  <2> DEFINE m == c.copy.message
             d == [c EXCEPT !.pc = "store"]
  <2>1. m \in Messages /\ c.client # 0 /\ c.op \in Op /\ card[m] \in Card
    BY <1>1, <1>3, <1>20, Bounds DEF UpdateCard
  <2>2. Shown(c.op) \in {"form", "waiting_verification", "closed"}
    BY <2>1 DEF Shown, Op
  <2>3. card' = [card EXCEPT ![m].shows = Shown(c.op)] /\ Becomes(c, d)
        /\ UNCHANGED <<core, client, built, state, process, press, configures, faults>>
    BY <1>20 DEF UpdateCard, Go, bound
  <2>4. /\ card' \in [Messages -> Card \cup {None}] /\ card'[m] \in Card
        /\ \A n \in Messages : n # m => card'[n] = card[n]
    BY <1>1, <2>1, <2>2, <2>3 DEF Card
  <2>5. d \in CallRecord /\ d.client = c.client /\ d.pc = "store" /\ d.copy = c.copy
    BY <1>1 DEF CallRecord, Pc
  <2>6. calls' \subseteq calls \cup {d}
    BY <2>3 DEF Becomes
  <2>7. \A n \in Messages : card[n] # None => card'[n] # None
    BY <2>4, Bounds
  <2> HIDE DEF d
  <2> QED BY <1>1, <1>2, <2>1, <2>3, <2>4, <2>5, <2>6, <2>7, Bounds, CallKeepsTypes
<1>21. CASE UpdateFails(c)
  <2>1. /\ c.pc # "queued" /\ Ends(c) /\ "lock" \in Pc \ {"update"} /\ faults' = faults + 1
        /\ faults < MaxFaults
        /\ UNCHANGED <<core, client, built, state, process, card, press, configures>>
    BY <1>21 DEF UpdateFails, external, Pc
  <2> QED BY <1>1, <1>2, <1>5, <2>1
<1>22. CASE StoreUpdate(c)
  <2> DEFINE r == mem[c.client][c.issue]
             new == Amended(r, c.op)
             d == [c EXCEPT !.pc = "import"]
  <2>1. c.client \in Client /\ c.client # 0 /\ c.op \in Op /\ c.copy \in Record /\ r \in Record
        /\ (c.copy.message # None => card[c.copy.message] # None)
        /\ (r.message # None => card[r.message] # None)
    BY <1>3, <1>22 DEF StoreUpdate
  <2>2. new \in Record /\ new.message = r.message
    BY <2>1 DEF Amended, Shown, Op, Record, Handoff, Face
  <2>3. d \in CallRecord /\ d.client = c.client /\ d.pc = "import" /\ d.copy = c.copy
    BY <1>1 DEF CallRecord, Pc
  <2>4. /\ UNCHANGED state \/ Writes(c.client, c.issue, new)
        /\ Becomes(c, d) \/ Ends(c)
        /\ UNCHANGED <<core, client, built, process, card, press, configures, faults>>
    BY <1>22 DEF StoreUpdate, Go, external, bound
  <2>5. calls' \subseteq calls \cup {d}
    BY <2>4 DEF Becomes, Ends
  <2> HIDE DEF d, new, r
  <2>6. \/ UNCHANGED state
        \/ \E g \in Client, i \in Issues, n \in Record :
             Writes(g, i, n) /\ (n.message # None => card'[n.message] # None)
    BY <1>1, <2>1, <2>2, <2>4
  <2> QED BY <1>1, <1>2, <2>1, <2>3, <2>4, <2>5, <2>6, CallKeepsTypes
<1>23. CASE ImportIntoCore(c)
  <2> DEFINE i == c.issue
  <2>1. c.client # 0 /\ c.copy \in Record /\ (c.copy.message # None => card[c.copy.message] # None)
        /\ c.copy.version \in Version
    BY <1>3, <1>23 DEF ImportIntoCore, Record
  <2>2. core' \in [Issues -> [handoff : {"none", "queued", "delivered"}, status : Status,
                              version : Version]]
    <3>1. PICK handoff \in {core[i].handoff, "delivered"}, version \in {core[i].version, c.copy.version},
               status \in {core[i].status, "pending_verification"} :
            core' = [core EXCEPT ![i].handoff = handoff, ![i].version = version, ![i].status = status]
      BY <1>23 DEF ImportIntoCore
    <3>2. /\ handoff \in {"none", "queued", "delivered"} /\ version \in Version /\ status \in Status
      BY <1>1, <2>1 DEF Status
    <3> QED BY <1>1, <3>1, <3>2
  <2>3. Ends(c) /\ c.pc = "import"
        /\ UNCHANGED <<client, built, state, process, card, press, configures, faults>>
    BY <1>23 DEF ImportIntoCore, external, bound
  <2>4. calls' \subseteq calls \cup {c}
    BY <2>3 DEF Ends
  <2> QED BY <1>1, <1>2, <2>1, <2>2, <2>3, <2>4, CallKeepsTypes
<1> QED BY <1>6, <1>8, <1>9, <1>10, <1>12, <1>13, <1>14, <1>15, <1>16, <1>17, <1>18, <1>19,
           <1>20, <1>21, <1>22, <1>23 DEF Step, Fails

\* Listeners, engineers and submissions keep the types.
LEMMA OutsideTypes ==
  ASSUME Types,
         \/ \E g \in Client : ListenerReady(g) \/ ListenerStops(g)
         \/ \E p \in Presses : PressSubmit(p) \/ LosePress(p)
  PROVE  Types'
<1>1. /\ process \in [Client -> {"none", "starting", "ready", "dead"}]
      /\ press \in [Presses -> 0 .. Lost] /\ faults \in 0 .. MaxFaults
  BY DEF Types, TypeOK, Counted
<1>2. /\ Messages \subseteq 0 .. Lost /\ Lost \in 0 .. Lost
  BY Bounds DEF Messages, Lost
<1>3. /\ process' \in [Client -> {"none", "starting", "ready", "dead"}]
      /\ press' \in [Presses -> 0 .. Lost]
      /\ UNCHANGED <<core, client, built, mem, saved, calls, card, configures>>
  <2>1. ASSUME NEW g \in Client, ListenerReady(g) \/ ListenerStops(g)
        PROVE  /\ process' \in [Client -> {"none", "starting", "ready", "dead"}]
               /\ UNCHANGED <<core, client, built, mem, saved, calls, card, press, configures>>
    BY <1>1, <2>1 DEF ListenerReady, ListenerStops, state, external, bound
  <2>2. ASSUME NEW p \in Presses, PressSubmit(p) \/ LosePress(p)
        PROVE  /\ press' \in [Presses -> 0 .. Lost]
               /\ UNCHANGED <<core, client, built, mem, saved, process, calls, card, configures>>
    BY <1>1, <1>2, <2>2 DEF PressSubmit, LosePress, state, external, bound
  <2> QED BY <1>1, <2>1, <2>2
<1>4. faults' = faults \/ (faults' = faults + 1 /\ faults < MaxFaults)
  <2>1. ASSUME NEW g \in Client, ListenerReady(g) \/ ListenerStops(g)
        PROVE  faults' = faults \/ (faults' = faults + 1 /\ faults < MaxFaults)
    BY <2>1 DEF ListenerReady, ListenerStops, bound
  <2>2. ASSUME NEW p \in Presses, PressSubmit(p) \/ LosePress(p)
        PROVE  faults' = faults
    BY <2>2 DEF PressSubmit, LosePress, bound
  <2> QED BY <2>1, <2>2
<1>5. TypeOK'
  BY <1>3 DEF Types, TypeOK
<1>6. Counted'
  <2>1. /\ built \in Nat /\ configures \in Nat /\ faults \in Nat /\ built <= 1 + configures + faults
        /\ configures \in 0 .. MaxConfigures
    BY DEF Types, TypeOK, Counted, Client
  <2>2. faults' \in Nat /\ faults <= faults' /\ faults' \in 0 .. MaxFaults
    BY <1>1, <1>4, Bounds
  <2>3. built <= 1 + configures + faults'
    BY ONLY <2>1, <2>2, CountsOn
  <2> QED BY ONLY <1>3, <2>1, <2>2, <2>3 DEF Counted
<1>7. Taken' /\ NamesCards'
  BY <1>3 DEF Types, Taken, NamesCards, Named
<1> QED BY <1>5, <1>6, <1>7 DEF Types

\* A submission that is heard keeps the types.
LEMMA ReceiveTypes ==
  ASSUME Types, NEW p \in Presses, NEW g \in Client, ReceivePress(p, g)
  PROVE  Types'
<1> DEFINE hit == {i \in Issues : mem[g][i].message = press[p] /\ Takes(mem[g][i])}
<1>1. /\ core \in [Issues -> [handoff : {"none", "queued", "delivered"}, status : Status,
                              version : Version]]
      /\ process \in [Client -> {"none", "starting", "ready", "dead"}]
      /\ card \in [Messages -> Card \cup {None}] /\ press \in [Presses -> 0 .. Lost]
      /\ mem \in [Client -> [Issues -> Record]] /\ saved \in [Issues -> Record]
      /\ faults \in faults .. MaxFaults /\ 0 \in Version
  BY Bounds DEF Types, TypeOK, Counted, Version
<1>2. press' \in [Presses -> 0 .. Lost]
  <2>1. Heard \in 0 .. Lost
    BY Bounds DEF Heard, Lost
  <2> QED BY <1>1, <2>1 DEF ReceivePress
<1>3. /\ UNCHANGED <<core, client, built, process, card, configures, faults>>
      /\ press[p] \in Messages
  BY DEF ReceivePress, bound
<1>4. CASE UNCHANGED <<state, calls>>
  <2>1. TypeOK'
    BY <1>1, <1>2, <1>3, <1>4 DEF Types, TypeOK, state
  <2>2. Counted' /\ Taken' /\ NamesCards'
    BY <1>3, <1>4 DEF Types, Counted, Taken, NamesCards, Named, state
  <2> QED BY <2>1, <2>2 DEF Types
<1>5. ASSUME NEW i \in hit,
             LET new == [mem[g][i] EXCEPT !.version = @ + 1, !.handoff = "solution_available"] IN
               /\ new.version \in Version
               /\ Writes(g, i, new)
               /\ calls' = calls \cup {[Call("event", i, g, "update") EXCEPT !.copy = new]}
      PROVE  Types'
  <2> DEFINE new == [mem[g][i] EXCEPT !.version = @ + 1, !.handoff = "solution_available"]
             d == [Call("event", i, g, "update") EXCEPT !.copy = new]
  <2>1. mem[g][i] \in Record /\ i \in Issues /\ Named(mem[g][i]) /\ mem[g][i].message = press[p]
    BY <1>1, <1>5 DEF Types, NamesCards
  <2>2. new.version \in Version
    BY <1>5
  <2>3. new \in Record /\ new.message = press[p]
    BY <2>1, <2>2 DEF Record, Handoff
  <2>4. /\ Writes(g, i, new) /\ calls' \subseteq calls \cup {d}
    BY <1>5
  <2> HIDE DEF new
  <2>5. d \in CallRecord
    <3>1. "event" \in Op /\ "update" \in Pc /\ g \in Client \cup {0}
      BY DEF Op, Pc
    <3> QED BY <1>1, <2>1, <2>3, <3>1, CallTyped
  <2>6. d.client = g /\ d.copy = new /\ g # 0
    BY DEF Call, Client
  <2>7. press[p] # None /\ card[press[p]] # None
    BY <1>3, <2>1, Bounds DEF Named
  <2> HIDE DEF d
  <2> QED BY <1>1, <1>2, <1>3, <2>1, <2>3, <2>4, <2>5, <2>6, <2>7, CallKeepsTypes
<1>6. hit = {} => UNCHANGED <<state, calls>>
  BY DEF ReceivePress
<1>7. hit # {} =>
        \E i \in hit :
          LET new == [mem[g][i] EXCEPT !.version = @ + 1, !.handoff = "solution_available"] IN
            /\ new.version \in Version
            /\ Writes(g, i, new)
            /\ calls' = calls \cup {[Call("event", i, g, "update") EXCEPT !.copy = new]}
  BY DEF ReceivePress
<1> HIDE DEF hit
<1> QED BY <1>4, <1>5, <1>6, <1>7

\* A client that is built, or that takes over, is one of those there may be.
LEMMA ReplaceTypes == ASSUME Types, BuildClient \/ Configure \/ Crash PROVE Types'
<1>1. /\ client \in Nat /\ client >= 1 /\ built \in Nat /\ client <= built /\ built \in {client, client + 1}
      /\ configures \in Nat /\ faults \in Nat /\ built <= 1 + configures + faults
      /\ configures <= MaxConfigures /\ faults <= MaxFaults
      /\ mem \in [Client -> [Issues -> Record]] /\ saved \in [Issues -> Record]
      /\ process \in [Client -> {"none", "starting", "ready", "dead"}]
      /\ calls \subseteq CallRecord
  BY Bounds DEF Types, TypeOK, Counted, Client
<1>2. /\ \A g \in Client, i \in Issues : Named(mem[g][i])
      /\ \A i \in Issues : Named(saved[i])
  BY DEF Types, NamesCards
<1>3. ASSUME NEW g \in Client, mem' = [mem EXCEPT ![g] = saved], UNCHANGED <<saved, card>>
      PROVE  /\ mem' \in [Client -> [Issues -> Record]]
             /\ \A h \in Client, i \in Issues : Named(mem[h][i])'
  <2>1. \A h \in Client : mem'[h] = mem[h] \/ mem'[h] = saved
    BY <1>1, <1>3
  <2> QED BY <1>1, <1>2, <1>3, <2>1 DEF Named
<1>4. \A is : is \subseteq Issues =>
        /\ Queue(is) \subseteq CallRecord
        /\ \A c \in Queue(is) : /\ c.op = "handoff" /\ c.pc = "queued" /\ c.client = 0
                                /\ c.copy.message = None
  BY QueueTyped DEF Blank
<1>5. CASE BuildClient
  <2>1. /\ configures < MaxConfigures /\ built = client /\ configures' = configures + 1
        /\ built' = client + 1 /\ mem' = [mem EXCEPT ![built'] = saved]
        /\ UNCHANGED <<core, client, saved, process, calls, card, press, faults>>
    BY <1>5 DEF BuildClient, external
  <2>2. built' \in Client
    BY ONLY <1>1, <2>1, Bounds DEF Client
  <2>3. TypeOK'
    BY <1>3, <2>1, <2>2 DEF Types, TypeOK
  <2>4. Counted'
    BY ONLY <1>1, <2>1, Bounds DEF Counted
  <2>5. Taken' /\ NamesCards'
    BY <1>2, <1>3, <2>1, <2>2 DEF Types, Taken, NamesCards, Named
  <2> QED BY <2>3, <2>4, <2>5 DEF Types
<1>6. CASE Configure
  <2>1. /\ client' = built /\ built # client /\ process' = [process EXCEPT ![client] = "none"]
        /\ calls' = calls \cup Queue(Pending)
        /\ UNCHANGED <<core, built, mem, saved, card, press, configures, faults>>
    BY <1>6 DEF Configure, state, external, bound
  <2>2. built \in Client
    BY ONLY <1>1, Bounds DEF Client
  <2>3. /\ Queue(Pending) \subseteq CallRecord
        /\ \A c \in Queue(Pending) : /\ c.op = "handoff" /\ c.pc = "queued" /\ c.client = 0
                                     /\ c.copy.message = None
    BY <1>4 DEF Pending
  <2>4. TypeOK'
    BY <1>1, <2>1, <2>2, <2>3 DEF Types, TypeOK
  <2>5. Counted' /\ Taken' /\ NamesCards'
    BY <2>1, <2>3 DEF Types, Counted, Taken, NamesCards, Named
  <2> QED BY <2>4, <2>5 DEF Types
<1>7. CASE Crash
  <2>1. /\ faults < MaxFaults /\ faults' = faults + 1 /\ client' = built + 1 /\ built' = built + 1
        /\ mem' = [mem EXCEPT ![client'] = saved] /\ process' = [g \in Client |-> "none"]
        /\ calls' = {Call("handoff", i, 0, "queued") : i \in Pending}
        /\ UNCHANGED <<core, saved, card, press, configures>>
    BY <1>7 DEF Crash, external
  <2>2. client' \in Client
    BY ONLY <1>1, <2>1, Bounds DEF Client
  <2>3. \A i \in Pending : Call("handoff", i, 0, "queued") \in CallRecord
    <3>1. "handoff" \in Op /\ "queued" \in Pc /\ 0 \in Version
      BY Bounds DEF Op, Pc, Version
    <3> QED BY <3>1, CallTyped DEF Pending
  <2>4. TypeOK'
    BY <1>3, <2>1, <2>2, <2>3 DEF Types, TypeOK
  <2>5. Counted'
    BY ONLY <1>1, <2>1, Bounds DEF Counted
  <2>6. Taken' /\ NamesCards'
    BY <1>2, <1>3, <2>1, <2>2 DEF Taken, NamesCards, Named, Call, Blank
  <2> QED BY <2>4, <2>5, <2>6 DEF Types
<1> QED BY <1>5, <1>6, <1>7

LEMMA TypesStep == Types /\ [Next]_vars => Types'
<1> SUFFICES ASSUME Types, [Next]_vars PROVE Types'
  OBVIOUS
<1>1. UNCHANGED vars => Types'
  BY DEF vars, state, external, bound, Types, TypeOK, Counted, Taken, NamesCards, Named
<1> QED BY <1>1, NextCases, RuntimeTypes, StepTypes, OutsideTypes, ReceiveTypes, ReplaceTypes

LEMMA TypesInit == Init => Types
<1> SUFFICES ASSUME Init PROVE Types
  OBVIOUS
<1>1. Blank \in Record /\ 0 \in Version /\ "open" \in Status /\ 1 \in Client
  BY BlankTyped, Bounds DEF Version, Status, Client
<1>2. TypeOK
  <2>1. 0 \in 0 .. Lost
    BY Bounds DEF Lost
  <2> QED BY <1>1, <2>1 DEF Init, TypeOK, Unpressed
<1>3. Counted /\ Taken /\ NamesCards
  BY Bounds DEF Init, Counted, Taken, NamesCards, Named, Blank
<1> QED BY <1>2, <1>3 DEF Types

-----------------------------------------------------------------------------
\* Nothing takes a card out of Feishu, gives it to another issue, or takes its
\* evidence away.
LEMMA CardsStay == ASSUME Types, [Next]_vars PROVE Stays
<1>1. card \in [Messages -> Card \cup {None}]
  BY DEF Types, TypeOK
<1>2. UNCHANGED card => Stays
  BY DEF Stays
<1>3. ASSUME NEW c \in calls, UpdateCard(c) PROVE Stays
  <2>1. PICK m : m = c.copy.message
    OBVIOUS
  <2>2. card' = [card EXCEPT ![m].shows = Shown(c.op)] /\ m \in Messages /\ card[m] \in Card
    <3>1. /\ c.copy.message \in Messages
          /\ c.copy.message # None => card[c.copy.message] # None
      BY <1>3, CallInProgress DEF UpdateCard, Named
    <3> QED BY <1>1, <1>3, <2>1, <3>1, Bounds DEF UpdateCard
  <2>3. card'[m] = [card[m] EXCEPT !.shows = Shown(c.op)] /\ card' \in [Messages -> {card'[n] : n \in Messages}]
        /\ \A n \in Messages : n # m => card'[n] = card[n]
    BY <1>1, <2>2
  <2>4. /\ card'[m].issue = card[m].issue /\ card'[m].evidence = card[m].evidence
        /\ card'[m] # None
    <3>1. /\ card[m] = [issue |-> card[m].issue, shows |-> card[m].shows, evidence |-> card[m].evidence]
          /\ card[m].issue \in Issues /\ card[m].evidence \in BOOLEAN
      BY <2>2 DEF Card
    <3>2. Shown(c.op) \in {"form", "waiting_verification", "closed"}
      BY <1>3, CallInProgress DEF UpdateCard, Shown, Op
    <3>3. card'[m] \in Card
      BY <2>2, <2>3, <3>1, <3>2 DEF Card
    <3> QED BY <2>2, <2>3, <3>1, <3>3, Bounds
  <2> QED BY <2>2, <2>3, <2>4 DEF Stays
<1>4. ASSUME NEW c \in calls, Step(c) \/ Fails(c) PROVE Stays
  <2>1. CASE SendCard(c)
    <3>1. c.issue \in Issues /\ \E m \in Messages : Posts(c.issue, m)
      BY <2>1, CallInProgress DEF SendCard, In
    <3> QED BY <3>1, PostsStay
  <2>2. CASE SendEvidence(c) \/ HandoffFails(c)
    <3>1. /\ c.issue \in Issues /\ c.copy.message \in Messages \cup {None}
          /\ c.copy.message # None => card[c.copy.message] # None
      BY <2>2, CallInProgress DEF SendEvidence, HandoffFails, In, Named, Record
    <3>2. \/ UNCHANGED card
          \/ Replies(c.copy.message)
          \/ \E m \in Messages : Posts(c.issue, m)
      BY <2>2 DEF SendEvidence, HandoffFails
    <3> QED BY <1>2, <3>1, <3>2, PostsStay, RepliesStay
  <2>3. CASE \/ StartJob(c) \/ CopyForHandoff(c) \/ EnsureStarted(c) \/ Started(c)
             \/ NotReady(c) \/ StoreCard(c) \/ FinishHandoff(c)
             \/ CopyForSync(c) \/ CopyForConfirm(c) \/ CopyForFailure(c)
             \/ StoreUpdate(c) \/ ImportIntoCore(c) \/ UpdateFails(c)
    BY <1>2, <2>3 DEF StartJob, CopyForHandoff, EnsureStarted, Started, NotReady, StoreCard,
         FinishHandoff, CopyForSync, CopyForConfirm, CopyForFailure, StoreUpdate,
         ImportIntoCore, UpdateFails, external
  <2> QED BY <1>3, <1>4, <2>1, <2>2, <2>3 DEF Step, Fails
<1>5. ASSUME NEW i \in Issues,
             RequestHandoff(i) \/ Poll(i) \/ ConfirmSolution(i) \/ ReportFailure(i)
      PROVE  Stays
  BY <1>2, <1>5 DEF RequestHandoff, Poll, ConfirmSolution, ReportFailure, external
<1>6. ASSUME NEW g \in Client, ListenerReady(g) \/ ListenerStops(g) PROVE Stays
  BY <1>2, <1>6 DEF ListenerReady, ListenerStops, external
<1>7. ASSUME NEW p \in Presses, PressSubmit(p) \/ LosePress(p) PROVE Stays
  BY <1>2, <1>7 DEF PressSubmit, LosePress
<1>8. ASSUME NEW p \in Presses, NEW g \in Client, ReceivePress(p, g) PROVE Stays
  BY <1>2, <1>8 DEF ReceivePress
<1>9. BuildClient \/ Configure \/ Crash => Stays
  BY <1>2 DEF BuildClient, Configure, Crash, external
<1>10. UNCHANGED vars => Stays
  BY <1>2 DEF vars, external
<1> QED BY <1>4, <1>5, <1>6, <1>7, <1>8, <1>9, <1>10, NextCases

\* So what was said of Feishu is still so.
LEMMA SaysStay ==
  ASSUME Types, Stays
  PROVE  /\ \A i \in Issues : Complete(i) => Complete(i)'
         /\ \A rec \in Record, i \in Issues : Says(rec, i) => (Says(rec, i))'
<1>1. \A i \in Issues : Complete(i) => Complete(i)'
  BY DEF Complete, Stays
<1>2. \A rec \in Record : rec.message \in Messages \cup {None}
  BY DEF Record
<1>3. ASSUME NEW rec \in Record, NEW i \in Issues, Says(rec, i) PROVE (Says(rec, i))'
  <2>1. rec.message # None => card'[rec.message] # None /\ card'[rec.message].issue = i
    BY <1>2, <1>3 DEF Says, Stays
  <2> QED BY <1>1, <1>3, <2>1 DEF Says
<1> QED BY <1>1, <1>3

\* A job that is still there says what it said.
LEMMA JobsStay ==
  ASSUME Types, Stays, NEW c \in calls, JobSays(c)
  PROVE  (JobSays(c))'
<1>1. c.copy \in Record /\ c.issue \in Issues
  BY DEF Types, TypeOK, CallRecord
<1> QED BY <1>1, SaysStay DEF JobSays

\* A step that writes one record at most, and that says what is so.
LEMMA ToldKept ==
  ASSUME Types, Told, Stays,
         \A x \in calls' : x \in calls \/ (JobSays(x))',
         \/ UNCHANGED state
         \/ \E g \in Client, i \in Issues, new \in Record : Writes(g, i, new) /\ (Says(new, i))',
         CoreSays'
  PROVE  Told'
<1>1. /\ mem \in [Client -> [Issues -> Record]] /\ saved \in [Issues -> Record]
  BY DEF Types, TypeOK
<1>2. /\ \A g \in Client, i \in Issues : (Says(mem[g][i], i) => mem[g][i] \in Record)
      /\ \A rec \in Record, i \in Issues : Says(rec, i) => (Says(rec, i))'
  BY <1>1, SaysStay
<1>3. RecordsSay'
  <2>1. CASE UNCHANGED state
    <3>1. mem' = mem /\ saved' = saved
      BY <2>1 DEF state
    <3>2. \A g \in Client, i \in Issues : (Says(mem[g][i], i))' /\ (Says(saved[i], i))'
      <4> SUFFICES ASSUME NEW g \in Client, NEW i \in Issues
                   PROVE  (Says(mem[g][i], i))' /\ (Says(saved[i], i))'
        OBVIOUS
      <4>1. PICK a \in Record, b \in Record : a = mem[g][i] /\ b = saved[i]
        BY <1>1
      <4>2. (Says(a, i))' /\ (Says(b, i))'
        BY <1>2, <4>1 DEF Told, RecordsSay
      <4> QED BY <3>1, <4>1, <4>2
    <3>3. \A i \in Issues : (Says(saved[i], i))'
      <4> SUFFICES ASSUME NEW i \in Issues PROVE (Says(saved[i], i))'
        OBVIOUS
      <4>1. PICK b \in Record : b = saved[i]
        BY <1>1
      <4>2. (Says(b, i))'
        BY <1>2, <4>1 DEF Told, RecordsSay
      <4> QED BY <3>1, <4>1, <4>2
    <3> QED BY <3>2, <3>3 DEF RecordsSay
  <2>2. ASSUME NEW g \in Client, NEW i \in Issues, NEW new \in Record,
               Writes(g, i, new), (Says(new, i))'
        PROVE  RecordsSay'
    <3>1. /\ mem'[g] = [mem[g] EXCEPT ![i] = new]
          /\ saved' = [mem[g] EXCEPT ![i] = new]
          /\ \A h \in Client : h # g => mem'[h] = mem[h]
      BY <2>2, WriteTypes DEF Types
    <3>2. ASSUME NEW h \in Client, NEW j \in Issues,
                 NEW rec, rec \in {mem'[h][j], saved'[j]}
          PROVE  (Says(rec, j))'
      <4>1. \E k \in Client : rec = mem[k][j] \/ (rec = new /\ j = i)
        BY <1>1, <3>1, <3>2
      <4>2. \A k \in Client : mem[k][j] \in Record /\ Says(mem[k][j], j)
        BY <1>1 DEF Told, RecordsSay
      <4> QED BY <1>2, <2>2, <4>1, <4>2
    <3>3. ASSUME NEW h \in Client, NEW j \in Issues PROVE (Says(mem[h][j], j))'
      <4>1. PICK rec : rec = mem'[h][j]
        OBVIOUS
      <4>2. (Says(rec, j))'
        BY <3>2, <4>1
      <4> QED BY <4>1, <4>2
    <3>4. ASSUME NEW j \in Issues PROVE (Says(saved[j], j))'
      <4>1. PICK rec : rec = saved'[j]
        OBVIOUS
      <4>2. (Says(rec, j))'
        BY <2>2, <3>2, <4>1
      <4> QED BY <4>1, <4>2
    <3> QED BY <3>3, <3>4 DEF RecordsSay
  <2> QED BY <2>1, <2>2
<1>4. \A x \in calls' : (JobSays(x))'
  BY JobsStay DEF Told
<1> QED BY <1>3, <1>4 DEF Told

\* A step that changes one job and one record at most, both saying what is so.
LEMMA StepKept ==
  ASSUME Types, Told, Stays, NEW d, calls' \subseteq calls \cup {d},
         d.copy \in Record, d.issue \in Issues, JobSays(d), UNCHANGED core,
         \/ UNCHANGED state
         \/ \E g \in Client, i \in Issues, new \in Record : Writes(g, i, new) /\ Says(new, i)
  PROVE  Told'
<1>1. (JobSays(d))'
  BY SaysStay DEF JobSays
<1>2. CoreSays'
  BY SaysStay DEF Told, CoreSays
<1>3. \/ UNCHANGED state
      \/ \E g \in Client, i \in Issues, new \in Record : Writes(g, i, new) /\ (Says(new, i))'
  BY SaysStay
<1>4. \A x \in calls' : x \in calls \/ (JobSays(x))'
  BY <1>1
<1> QED BY <1>2, <1>3, <1>4, ToldKept

\* A job that has just been made says nothing, unless it reports a failure.
LEMMA NewJobSays ==
  ASSUME NEW c, c.copy = Blank, c.pc \notin {"sent", "evidence", "finish"},
         c.op = "failed" => Complete(c.issue)'
  PROVE  (JobSays(c))'
BY DEF JobSays, Says, Blank

LEMMA ToldInit == Init => Told
BY DEF Init, Told, RecordsSay, CoreSays, Says, Blank

\* The runtime's operations.
LEMMA RuntimeTells ==
  ASSUME Types, Told, Stays, NEW i \in Issues,
         RequestHandoff(i) \/ Poll(i) \/ ConfirmSolution(i) \/ ReportFailure(i)
  PROVE  Told'
<1>1. core \in [Issues -> [handoff : {"none", "queued", "delivered"}, status : Status,
                           version : Version]]
  BY DEF Types, TypeOK
<1>2. \A j \in Issues : Complete(j) => Complete(j)'
  BY SaysStay
<1>3. UNCHANGED state
  BY DEF RequestHandoff, Poll, ConfirmSolution, ReportFailure
<1>4. \A is : \A c \in Queue(is) : c.copy = Blank /\ c.pc = "queued" /\ c.op = "handoff"
  BY DEF Queue, Call
<1>5. ASSUME NEW x \in calls', x \notin calls
      PROVE  /\ x.copy = Blank /\ x.pc \notin {"sent", "evidence", "finish"}
             /\ x.op = "failed" => x.issue = i /\ core[i].status = "pending_verification"
  <2>1. CASE RequestHandoff(i) \/ Poll(i)
    BY <1>4, <1>5, <2>1 DEF RequestHandoff, Poll, Call
  <2>2. CASE ConfirmSolution(i) \/ ReportFailure(i)
    BY <1>5, <2>2 DEF ConfirmSolution, ReportFailure, Call
  <2> QED BY <2>1, <2>2
<1>6. \A x \in calls' : x \in calls \/ (JobSays(x))'
  BY <1>2, <1>5, NewJobSays DEF Told, CoreSays
<1>7. CoreSays'
  <2>1. \A j \in Issues : /\ core'[j].handoff = "delivered" => core[j].handoff = "delivered"
                          /\ core'[j].status = "pending_verification" =>
                               core[j].status = "pending_verification"
    BY <1>1 DEF RequestHandoff, Poll, ConfirmSolution, ReportFailure
  <2> QED BY <1>2, <2>1 DEF Told, CoreSays
<1> QED BY <1>3, <1>6, <1>7, ToldKept

\* The steps of a job.
LEMMA StepTells ==
  ASSUME Types, Told, Stays, NEW c \in calls, Step(c) \/ Fails(c)
  PROVE  Told'
<1>1. /\ c \in CallRecord /\ c.issue \in Issues /\ c.copy \in Record /\ JobSays(c)
      /\ Says(c.copy, c.issue)
  BY DEF Types, TypeOK, CallRecord, Told, JobSays
<1>2. ASSUME c.pc # "queued"
      PROVE  /\ c.client \in Client /\ mem[c.client][c.issue] \in Record
             /\ Says(mem[c.client][c.issue], c.issue)
  <2>1. c.client \in Client /\ mem[c.client][c.issue] \in Record
    BY <1>2, CallInProgress
  <2> QED BY <1>1, <2>1 DEF Told, RecordsSay
\* Most steps change the job alone.
<1>3. ASSUME NEW pc, NEW rec \in Record, Says(rec, c.issue),
             \/ Becomes(c, [c EXCEPT !.pc = pc, !.copy = rec])
             \/ Ends(c),
             pc \in {"sent", "evidence"} => rec.message # None,
             pc = "finish" => Complete(c.issue),
             UNCHANGED core,
             \/ UNCHANGED state
             \/ \E new \in Record : Writes(c.client, c.issue, new) /\ Says(new, c.issue)
                                    /\ c.client \in Client
      PROVE  Told'
  <2>1. CASE Ends(c)
    BY <1>1, <1>3, <2>1, StepKept DEF Ends
  <2>2. CASE Becomes(c, [c EXCEPT !.pc = pc, !.copy = rec])
    <3>1. PICK d : d = [c EXCEPT !.pc = pc, !.copy = rec]
      OBVIOUS
    <3>2. d.pc = pc /\ d.copy = rec /\ d.issue = c.issue /\ d.op = c.op
      BY <1>1, <3>1 DEF CallRecord
    <3>3. JobSays(d)
      BY <1>1, <1>3, <3>2 DEF JobSays
    <3>4. calls' \subseteq calls \cup {d}
      BY <2>2, <3>1 DEF Becomes
    <3> QED BY <1>1, <1>3, <3>2, <3>3, <3>4, StepKept
  <2> QED BY <1>3, <2>1, <2>2
<1>4. \A pc : [c EXCEPT !.pc = pc] = [c EXCEPT !.pc = pc, !.copy = c.copy]
  BY <1>1 DEF CallRecord
<1>5. CASE StartJob(c)
  <2>1. PICK d : calls' \subseteq calls \cup {d} /\ d.copy = c.copy /\ d.issue = c.issue
                 /\ d.op = c.op /\ d.pc \in {"lock", "copy"}
    <3>1. CASE c.op = "handoff"
      <4>1. PICK d : d = [c EXCEPT !.pc = "lock", !.client = client, !.status = core[c.issue].status]
        OBVIOUS
      <4>2. d.copy = c.copy /\ d.issue = c.issue /\ d.op = c.op /\ d.pc = "lock"
        BY <1>1, <4>1 DEF CallRecord
      <4>3. calls' \subseteq calls \cup {d}
        BY <1>5, <3>1, <4>1 DEF StartJob, Becomes
      <4> QED BY <4>2, <4>3
    <3>2. CASE c.op # "handoff"
      <4>1. PICK d : d = [c EXCEPT !.pc = "copy"]
        OBVIOUS
      <4>2. d.copy = c.copy /\ d.issue = c.issue /\ d.op = c.op /\ d.pc = "copy"
        BY <1>1, <4>1 DEF CallRecord
      <4>3. calls' \subseteq calls \cup {d}
        BY <1>5, <3>2, <4>1 DEF StartJob, Go, Becomes
      <4> QED BY <4>2, <4>3
    <3> QED BY <3>1, <3>2
  <2>2. JobSays(d) /\ UNCHANGED <<core, state>>
    BY <1>1, <1>5, <2>1 DEF StartJob, JobSays
  <2> QED BY <1>1, <2>1, <2>2, StepKept
<1>6. CASE CopyForHandoff(c) \/ CopyForSync(c) \/ CopyForConfirm(c) \/ CopyForFailure(c)
  <2> DEFINE rec == mem[c.client][c.issue]
  <2>1. c.pc # "queued" /\ UNCHANGED <<core, state>>
    BY <1>6 DEF CopyForHandoff, CopyForSync, CopyForConfirm, CopyForFailure, In
  <2>2. \A pc : [c EXCEPT !.copy = rec, !.pc = pc] = [c EXCEPT !.pc = pc, !.copy = rec]
    BY <1>1 DEF CallRecord
  <2>3. PICK pc \in {"start", "update", "import", "store"} :
          Becomes(c, [c EXCEPT !.pc = pc, !.copy = rec]) \/ Ends(c)
    <3>1. CASE CopyForHandoff(c)
      BY <3>1 DEF CopyForHandoff
    <3>2. CASE CopyForSync(c)
      <4>1. \E pc \in {"update", "import"} : Becomes(c, [c EXCEPT !.copy = rec, !.pc = pc])
        BY <3>2 DEF CopyForSync
      <4> QED BY <2>2, <4>1
    <3>3. CASE CopyForConfirm(c)
      <4>1. \E pc \in {"update", "store"} : Becomes(c, [c EXCEPT !.copy = rec, !.pc = pc])
        BY <3>3 DEF CopyForConfirm
      <4> QED BY <2>2, <4>1
    <3>4. CASE CopyForFailure(c)
      <4>1. Becomes(c, [c EXCEPT !.copy = rec, !.pc = "update"]) \/ Ends(c)
        BY <3>4 DEF CopyForFailure
      <4> QED BY <2>2, <4>1
    <3> QED BY <1>6, <3>1, <3>2, <3>3, <3>4
  <2>4. rec \in Record /\ Says(rec, c.issue)
    BY <1>2, <2>1
  <2> HIDE DEF rec
  <2> QED BY <1>3, <2>1, <2>3, <2>4
<1>7. CASE EnsureStarted(c) \/ Started(c)
  <2>1. UNCHANGED <<core, state>> /\ \E pc \in {"await", After(c.copy)} : Go(c, pc)
    BY <1>7 DEF EnsureStarted, Started
  <2>2. PICK pc \in {"await", After(c.copy)} : Becomes(c, [c EXCEPT !.pc = pc, !.copy = c.copy])
    BY <1>4, <2>1 DEF Go
  <2>3. /\ pc \in {"sent", "evidence"} => c.copy.message # None
        /\ pc = "finish" => Complete(c.issue)
    BY <1>1, <2>2 DEF After, Says
  <2> QED BY <1>1, <1>3, <2>1, <2>2, <2>3
<1>8. CASE NotReady(c) \/ UpdateFails(c) \/ HandoffFails(c)
  <2>1. Ends(c) /\ UNCHANGED <<core, state>>
    BY <1>8 DEF NotReady, UpdateFails, HandoffFails
  <2> QED BY <1>1, <2>1, StepKept DEF Ends
<1>9. CASE SendCard(c)
  <2>1. PICK m \in Messages :
          Posts(c.issue, m) /\ Becomes(c, [c EXCEPT !.pc = "sent", !.copy.message = m])
    BY <1>9 DEF SendCard
  <2>2. card'[m] # None /\ card'[m].issue = c.issue /\ m # None
    BY <1>1, <2>1, PostsStay, Bounds
  <2>3. PICK rec : rec = [c.copy EXCEPT !.message = m]
    OBVIOUS
  <2>4. /\ rec.message = m /\ rec.evidence = c.copy.evidence /\ rec.version = c.copy.version
        /\ rec.handoff = c.copy.handoff
    BY <1>1, <2>3 DEF Record
  <2>5. PICK d : d = [c EXCEPT !.pc = "sent", !.copy.message = m]
    OBVIOUS
  <2>6. d.pc = "sent" /\ d.copy = rec /\ d.issue = c.issue /\ d.op = c.op
    BY <1>1, <2>3, <2>5 DEF CallRecord
  <2>7. (Says(c.copy, c.issue))' /\ (c.op = "failed" => Complete(c.issue)')
    BY <1>1, SaysStay DEF JobSays
  <2>8. (Says(rec, c.issue))'
    BY <2>2, <2>4, <2>7 DEF Says
  <2>9. (JobSays(d))'
    BY <2>2, <2>4, <2>6, <2>7, <2>8 DEF JobSays
  <2>10. UNCHANGED <<core, state>> /\ calls' \subseteq calls \cup {d}
    BY <1>9, <2>1, <2>5 DEF SendCard, Becomes
  <2>11. CoreSays'
    BY <2>10, SaysStay DEF Told, CoreSays
  <2>12. \A x \in calls' : x \in calls \/ (JobSays(x))'
    BY <2>9, <2>10
  <2> QED BY <2>10, <2>11, <2>12, ToldKept
<1>10. CASE StoreCard(c)
  <2> DEFINE new == [c.copy EXCEPT !.handoff = "delivering", !.card_state = "awaiting_engineer"]
             pc == IF new.evidence THEN "finish" ELSE "evidence"
  <2>1. c.pc = "sent" /\ c.client \in Client
    BY <1>2, <1>10 DEF StoreCard, In
  <2>2. /\ new \in Record /\ new.message = c.copy.message /\ new.evidence = c.copy.evidence
        /\ new.version = c.copy.version /\ new.handoff = "delivering"
    BY <1>1 DEF Record, Handoff, Face
  <2>3. /\ Writes(c.client, c.issue, new) /\ Becomes(c, [c EXCEPT !.pc = pc, !.copy = new])
        /\ UNCHANGED core
    BY <1>10 DEF StoreCard
  <2> HIDE DEF new
  <2>4. Says(new, c.issue)
    BY <1>1, <2>2 DEF Says
  <2>5. new.message # None /\ (pc = "finish" => Complete(c.issue))
    BY <1>1, <2>1, <2>2, <2>4 DEF JobSays, Says
  <2> HIDE DEF pc
  <2> QED BY <1>3, <2>1, <2>2, <2>3, <2>4, <2>5
<1>11. CASE SendEvidence(c)
  <2>1. /\ c.pc = "evidence" /\ Replies(c.copy.message) /\ UNCHANGED <<core, state>>
        /\ Becomes(c, [c EXCEPT !.pc = "finish", !.copy.evidence = TRUE])
    BY <1>11 DEF SendEvidence, In
  <2>2. /\ c.copy.message \in Messages /\ card[c.copy.message] # None
        /\ card[c.copy.message].issue = c.issue
    BY <1>1, <2>1 DEF JobSays, Says, Record
  <2>3. /\ card'[c.copy.message] # None /\ card'[c.copy.message].issue = c.issue
        /\ card'[c.copy.message].evidence
    BY <2>1, <2>2, Bounds, RepliesStay DEF Stays
  <2>4. Complete(c.issue)'
    BY <2>2, <2>3 DEF Complete
  <2>5. PICK d : d = [c EXCEPT !.pc = "finish", !.copy.evidence = TRUE]
    OBVIOUS
  <2>6. /\ d.pc = "finish" /\ d.copy.message = c.copy.message /\ d.issue = c.issue /\ d.op = c.op
    BY <1>1, <2>5 DEF CallRecord, Record
  <2>7. (JobSays(d))'
    BY <2>3, <2>4, <2>6 DEF JobSays, Says
  <2>8. \A x \in calls' : x \in calls \/ (JobSays(x))'
    BY <2>1, <2>5, <2>7 DEF Becomes
  <2>9. CoreSays'
    BY <2>1, SaysStay DEF Told, CoreSays
  <2> QED BY <2>1, <2>8, <2>9, ToldKept
<1>12. CASE FinishHandoff(c)
  <2> DEFINE new == Concluded(c.copy, c.status)
  <2>1. c.pc = "finish" /\ c.client \in Client
    BY <1>2, <1>12 DEF FinishHandoff, In
  <2>2. new \in Record /\ new.message = c.copy.message
    BY <1>1 DEF Concluded, Record, Handoff
  <2>3. PICK pc \in {"copy"} :
          /\ Writes(c.client, c.issue, new) /\ UNCHANGED core
          /\ Becomes(c, [c EXCEPT !.pc = pc, !.copy = c.copy])
    BY <1>4, <1>12 DEF FinishHandoff, Go
  <2> HIDE DEF new
  <2>4. Says(new, c.issue)
    BY <1>1, <2>1, <2>2 DEF Says, JobSays
  <2> QED BY <1>1, <1>3, <2>1, <2>2, <2>3, <2>4
<1>13. CASE UpdateCard(c)
  <2>1. PICK pc \in {"store"} :
          UNCHANGED <<core, state>> /\ Becomes(c, [c EXCEPT !.pc = pc, !.copy = c.copy])
    BY <1>4, <1>13 DEF UpdateCard, Go
  <2> QED BY <1>1, <1>3, <2>1
<1>14. CASE StoreUpdate(c)
  <2> DEFINE rec == mem[c.client][c.issue]
             new == Amended(rec, c.op)
  <2>1. c.client \in Client /\ c.op \in Op /\ rec \in Record /\ Says(rec, c.issue)
    BY <1>1, <1>2, <1>14 DEF StoreUpdate, CallRecord
  <2>2. /\ new \in Record /\ new.message = rec.message /\ new.evidence = rec.evidence
        /\ new.version = rec.version
        /\ \/ new.handoff \in {rec.handoff, "closed"}
           \/ c.op = "failed"
    BY <2>1 DEF Amended, Shown, Op, Record, Handoff, Face
  <2>3. Says(new, c.issue)
    <3> HIDE DEF new, rec
    <3> QED BY <1>1, <2>1, <2>2 DEF Says, JobSays
  <2>4. PICK pc \in {"import"} :
          /\ UNCHANGED state \/ Writes(c.client, c.issue, new)
          /\ Becomes(c, [c EXCEPT !.pc = pc, !.copy = c.copy]) \/ Ends(c)
          /\ UNCHANGED core
    BY <1>4, <1>14 DEF StoreUpdate, Go
  <2> HIDE DEF new, rec
  <2> QED BY <1>1, <1>3, <2>1, <2>2, <2>3, <2>4
<1>15. CASE ImportIntoCore(c)
  <2>1. UNCHANGED state /\ Ends(c)
    BY <1>15 DEF ImportIntoCore
  <2>2. /\ core \in [Issues -> [handoff : {"none", "queued", "delivered"}, status : Status,
                                version : Version]]
        /\ c.copy.version \in Nat /\ \A i \in Issues : core[i].version \in Nat
    BY <1>1, Bounds DEF Types, TypeOK, Record, Version
  <2>3. \A i \in Issues : Complete(i) => Complete(i)'
    BY SaysStay
  <2>4. /\ \A j \in Issues \ {c.issue} : core'[j] = core[j]
        /\ core'[c.issue].handoff = "delivered" =>
             \/ core[c.issue].handoff = "delivered"
             \/ c.copy.handoff \in {"delivered", "solution_available"}
        /\ core'[c.issue].status = "pending_verification" =>
             \/ core[c.issue].status = "pending_verification"
             \/ c.copy.version > core[c.issue].version
    BY <1>1, <1>15, <2>2 DEF ImportIntoCore
  <2>5. c.copy.version > core[c.issue].version => c.copy.version > 0
    BY <1>1, <2>2
  <2>6. CoreSays'
    BY <1>1, <2>3, <2>4, <2>5 DEF Told, CoreSays, Says
  <2>7. \A x \in calls' : x \in calls
    BY <2>1 DEF Ends
  <2> QED BY <2>1, <2>6, <2>7, ToldKept
<1> QED BY <1>5, <1>6, <1>7, <1>8, <1>9, <1>10, <1>11, <1>12, <1>13, <1>14, <1>15 DEF Step, Fails

\* A submission that is taken is one for a record that has been delivered.
LEMMA ReceiveTells ==
  ASSUME Types, Told, Stays, NEW p \in Presses, NEW g \in Client, ReceivePress(p, g)
  PROVE  Told'
<1> DEFINE hit == {i \in Issues : mem[g][i].message = press[p] /\ Takes(mem[g][i])}
<1>1. UNCHANGED core /\ mem \in [Client -> [Issues -> Record]]
  BY DEF ReceivePress, Types, TypeOK
<1>2. CoreSays'
  BY <1>1, SaysStay DEF Told, CoreSays
<1>3. CASE UNCHANGED <<state, calls>>
  BY <1>2, <1>3, ToldKept
<1>4. ASSUME NEW i \in hit,
             LET new == [mem[g][i] EXCEPT !.version = @ + 1, !.handoff = "solution_available"] IN
               /\ new.version \in Version
               /\ Writes(g, i, new)
               /\ calls' = calls \cup {[Call("event", i, g, "update") EXCEPT !.copy = new]}
      PROVE  Told'
  <2>1. PICK new : new = [mem[g][i] EXCEPT !.version = @ + 1, !.handoff = "solution_available"]
    OBVIOUS
  <2>2. PICK d : d = [Call("event", i, g, "update") EXCEPT !.copy = new]
    OBVIOUS
  <2>3. mem[g][i] \in Record /\ i \in Issues /\ Says(mem[g][i], i) /\ mem[g][i].handoff = "delivered"
    BY <1>1, <1>4 DEF Told, RecordsSay, Takes, Record, Handoff
  <2>4. Complete(i)
    BY <2>3 DEF Says
  <2>5. new \in Record /\ new.message = mem[g][i].message
    BY <1>4, <2>1, <2>3 DEF Record, Handoff
  <2>6. Says(new, i)
    BY <2>3, <2>4, <2>5 DEF Says
  <2>7. d.copy = new /\ d.issue = i /\ d.op = "event" /\ d.pc = "update"
    BY <2>2 DEF Call
  <2>8. JobSays(d)
    BY <2>6, <2>7 DEF JobSays
  <2>9. Writes(g, i, new) /\ calls' \subseteq calls \cup {d}
    BY <1>4, <2>1, <2>2
  <2> QED BY <1>1, <2>3, <2>5, <2>6, <2>7, <2>8, <2>9, StepKept
<1>5. hit = {} => UNCHANGED <<state, calls>>
  BY DEF ReceivePress
<1>6. hit # {} =>
        \E i \in hit :
          LET new == [mem[g][i] EXCEPT !.version = @ + 1, !.handoff = "solution_available"] IN
            /\ new.version \in Version
            /\ Writes(g, i, new)
            /\ calls' = calls \cup {[Call("event", i, g, "update") EXCEPT !.copy = new]}
  BY DEF ReceivePress
<1> HIDE DEF hit
<1> QED BY <1>3, <1>4, <1>5, <1>6

\* A client begins with what the file says, and its jobs with nothing.
LEMMA ReplaceTells ==
  ASSUME Types, Told, Stays, BuildClient \/ Configure \/ Crash PROVE Told'
<1>1. /\ mem \in [Client -> [Issues -> Record]] /\ saved \in [Issues -> Record]
      /\ \A rec \in Record, i \in Issues : Says(rec, i) => (Says(rec, i))'
  BY SaysStay DEF Types, TypeOK
<1>2. UNCHANGED <<core, saved>>
  BY DEF BuildClient, Configure, Crash, state
<1>3. CoreSays'
  BY <1>2, SaysStay DEF Told, CoreSays
<1>4. \E g : mem' = mem \/ mem' = [mem EXCEPT ![g] = saved]
  BY DEF BuildClient, Configure, Crash, state
<1>5. RecordsSay'
  <2>1. ASSUME NEW i \in Issues PROVE (Says(saved[i], i))'
    <3>1. PICK rec \in Record : rec = saved[i]
      BY <1>1
    <3>2. (Says(rec, i))'
      BY <1>1, <3>1 DEF Told, RecordsSay
    <3> QED BY <1>2, <3>1, <3>2
  <2>2. ASSUME NEW g \in Client, NEW i \in Issues PROVE (Says(mem[g][i], i))'
    <3>1. PICK rec : rec = mem'[g][i]
      OBVIOUS
    <3>2. rec \in {mem[g][i], saved[i]}
      BY <1>1, <1>4, <3>1
    <3>3. rec \in Record /\ Says(rec, i)
      BY <1>1, <3>2 DEF Told, RecordsSay
    <3>4. (Says(rec, i))'
      BY <1>1, <3>3
    <3> QED BY <3>1, <3>4
  <2> QED BY <2>1, <2>2 DEF RecordsSay
<1>6. \A x \in calls' : x \in calls \/ (x.copy = Blank /\ x.pc = "queued" /\ x.op = "handoff")
  BY DEF BuildClient, Configure, Crash, Queue, Call
<1>7. \A x \in calls' : (JobSays(x))'
  BY <1>6, JobsStay, NewJobSays DEF Told
<1> QED BY <1>3, <1>5, <1>7 DEF Told

LEMMA ToldStep == ASSUME Types, Told, [Next]_vars PROVE Told'
<1>1. Stays
  BY CardsStay
<1>2. ASSUME UNCHANGED <<core, state, calls>> PROVE Told'
  <2>1. CoreSays'
    BY <1>1, <1>2, SaysStay DEF Told, CoreSays
  <2> QED BY <1>1, <1>2, <2>1, ToldKept
<1>3. ASSUME NEW g \in Client, ListenerReady(g) \/ ListenerStops(g) PROVE Told'
  BY <1>2, <1>3 DEF ListenerReady, ListenerStops
<1>4. ASSUME NEW p \in Presses, PressSubmit(p) \/ LosePress(p) PROVE Told'
  BY <1>2, <1>4 DEF PressSubmit, LosePress
<1>5. UNCHANGED vars => Told'
  BY <1>2 DEF vars, state
<1> QED BY <1>1, <1>3, <1>4, <1>5, RuntimeTells, StepTells, ReceiveTells, ReplaceTells, NextCases

-----------------------------------------------------------------------------
Locks == OneInside /\ StarterWaits /\ NoneAhead /\ SendsAreHeard

\* Nobody enters the lock, and who waits for a listener goes on waiting.
LEMMA NobodyEnters ==
  ASSUME Types, Locks, UNCHANGED <<client, process>>,
         \A x \in calls' : \/ x \in calls
                           \/ x.op # "handoff"
                           \/ x.pc \notin Locked /\ x.client <= client,
         \A x \in calls : x.op = "handoff" /\ x.pc = "await" => x \in calls'
  PROVE  Locks'
<1>1. OneInside'
  BY DEF Locks, OneInside, Inside
<1>2. StarterWaits'
  BY DEF Locks, StarterWaits
<1>3. NoneAhead'
  BY DEF Locks, NoneAhead
<1>4. SendsAreHeard'
  BY DEF Locks, SendsAreHeard, Locked
<1> QED BY <1>1, <1>2, <1>3, <1>4 DEF Locks

\* Who is in the lock goes on in it, once its listener has been ready.
LEMMA GoesOnInside ==
  ASSUME Types, Locks, UNCHANGED <<client, process>>, NEW c \in calls, NEW d, Becomes(c, d),
         c.op = "handoff", c.pc \in {"send", "sent", "evidence"}, d.op = "handoff",
         d.client = c.client, d.pc \in {"send", "sent", "evidence", "finish"}
  PROVE  Locks'
<1>1. \A x \in calls' : x = d \/ (x \in calls /\ x # c)
  BY DEF Becomes
<1>2. OneInside'
  BY <1>1 DEF Locks, OneInside, Inside, Locked
<1>3. StarterWaits'
  <2>1. \A x \in calls : x.pc = "await" => x \in calls'
    BY DEF Becomes
  <2> QED BY <2>1 DEF Locks, StarterWaits
<1>4. NoneAhead'
  BY <1>1 DEF Locks, NoneAhead
<1>5. SendsAreHeard'
  BY <1>1 DEF Locks, SendsAreHeard
<1> QED BY <1>2, <1>3, <1>4, <1>5 DEF Locks

LEMMA LocksStep ==
  ASSUME Types, Locks, [Next]_vars PROVE Locks'
<1>1. /\ client \in Nat /\ client >= 1 /\ built \in {client, client + 1}
      /\ process \in [Client -> {"none", "starting", "ready", "dead"}]
      /\ calls \subseteq CallRecord /\ client \in Client
      /\ \A c \in calls : c.client \in Nat
  BY DEF Types, TypeOK, Client, CallRecord
<1>2. \A is : \A c \in Queue(is) : c.op = "handoff" /\ c.pc = "queued" /\ c.client = 0
  BY DEF Queue, Call
<1>3. ASSUME NEW i \in Issues,
             RequestHandoff(i) \/ Poll(i) \/ ConfirmSolution(i) \/ ReportFailure(i)
      PROVE  Locks'
  <2>1. \A x \in calls' : \/ x \in calls
                          \/ x.op # "handoff"
                          \/ x.pc = "queued" /\ x.client = 0
    BY <1>2, <1>3 DEF RequestHandoff, Poll, ConfirmSolution, ReportFailure, Call
  <2>2. calls \subseteq calls' /\ UNCHANGED <<client, process>>
    BY <1>3 DEF RequestHandoff, Poll, ConfirmSolution, ReportFailure
  <2> QED BY <1>1, <2>1, <2>2, NobodyEnters DEF Locked
<1>4. ASSUME NEW c \in calls, Step(c) \/ Fails(c) PROVE Locks'
  <2>1. c \in CallRecord /\ (c.op = "handoff" => c.client <= client)
    BY <1>1 DEF Locks, NoneAhead
  <2>2. ASSUME NEW d, Becomes(c, d) \/ Ends(c), UNCHANGED <<client, process>>,
               c.op # "handoff" \/ c.pc # "await",
               d.op # "handoff" \/ (d.pc \notin Locked /\ d.client <= client)
        PROVE  Locks'
    <3>1. \A x \in calls' : x = d \/ x \in calls
      BY <2>2 DEF Becomes, Ends
    <3>2. \A x \in calls : x.op = "handoff" /\ x.pc = "await" => x \in calls'
      BY <2>2 DEF Becomes, Ends
    <3> QED BY <2>2, <3>1, <3>2, NobodyEnters
  <2>3. CASE StartJob(c)
    <3>1. CASE c.op = "handoff"
      <4> DEFINE d == [c EXCEPT !.pc = "lock", !.client = client, !.status = core[c.issue].status]
      <4>1. Becomes(c, d) /\ UNCHANGED <<client, process>> /\ c.pc # "await"
        BY <2>3, <3>1 DEF StartJob
      <4>2. d.pc \notin Locked /\ d.client <= client
        BY <1>1, <2>1 DEF CallRecord, Locked
      <4> HIDE DEF d
      <4> QED BY <2>2, <4>1, <4>2
    <3>2. CASE c.op # "handoff"
      <4> DEFINE d == [c EXCEPT !.pc = "copy"]
      <4>1. Becomes(c, d) /\ UNCHANGED <<client, process>> /\ d.op # "handoff"
        BY <2>1, <2>3, <3>2 DEF StartJob, Go, CallRecord
      <4> HIDE DEF d
      <4> QED BY <2>2, <3>2, <4>1
    <3> QED BY <3>1, <3>2
  <2>4. CASE CopyForHandoff(c)
    <3> DEFINE d == [c EXCEPT !.pc = "start", !.copy = mem[c.client][c.issue]]
    <3>1. /\ Becomes(c, d) /\ UNCHANGED <<client, process>> /\ c.op = "handoff" /\ c.pc = "lock"
          /\ ~\E x \in calls : x.op = "handoff" /\ x.client = c.client /\ x.pc \in Locked
      BY <2>4 DEF CopyForHandoff, In
    <3>2. d.op = "handoff" /\ d.client = c.client /\ d.pc = "start"
      BY <2>1, <3>1 DEF CallRecord
    <3> HIDE DEF d
    <3>3. \A x \in calls' : x = d \/ (x \in calls /\ x # c)
      BY <3>1 DEF Becomes
    <3>4. OneInside'
      BY <3>1, <3>2, <3>3 DEF Locks, OneInside, Inside
    <3>5. \A x \in calls : x.pc = "await" => x \in calls'
      BY <3>1 DEF Becomes
    <3>6. StarterWaits' /\ NoneAhead' /\ SendsAreHeard'
      BY <2>1, <3>1, <3>2, <3>3, <3>5 DEF Locks, StarterWaits, NoneAhead, SendsAreHeard
    <3> QED BY <3>4, <3>6 DEF Locks
  <2>5. CASE EnsureStarted(c) \/ Started(c)
    <3>1. /\ c.op = "handoff" /\ c.pc \in {"start", "await"} /\ c.client # 0
          /\ UNCHANGED client
      BY <2>5 DEF EnsureStarted, Started, In, Types, Taken
    <3>2. c.client \in Client /\ Inside(c, c.client)
      BY <2>1, <3>1 DEF CallRecord, Inside, Locked
    <3>3. \A x \in calls : Inside(x, c.client) => x = c
      BY <3>2 DEF Locks, OneInside
    \* The listener is the handoff's own: it starts it, or finds it ready.
    <3>4. PICK pc \in {"await", "send", "evidence", "finish"} :
            /\ Go(c, pc)
            /\ IF pc = "await" THEN process' = [process EXCEPT ![c.client] = "starting"]
               ELSE process' = process /\ process[c.client] = "ready"
      <4>1. CASE EnsureStarted(c) /\ process[c.client] \in {"starting", "ready"}
        <5>1. process[c.client] # "starting"
          <6> SUFFICES ASSUME process[c.client] = "starting" PROVE FALSE
            OBVIOUS
          <6>1. PICK x \in calls : x.op = "handoff" /\ x.client = c.client /\ x.pc = "await"
            BY <3>2 DEF Locks, StarterWaits
          <6>2. c.pc = "start"
            BY <4>1 DEF EnsureStarted, In
          <6> QED BY <3>3, <6>1, <6>2 DEF Inside, Locked
        <5> QED BY <4>1, <5>1 DEF EnsureStarted, After
      <4>2. CASE EnsureStarted(c) /\ process[c.client] \notin {"starting", "ready"}
        BY <4>2 DEF EnsureStarted
      <4>3. CASE Started(c)
        BY <4>3 DEF Started, After
      <4> QED BY <2>5, <4>1, <4>2, <4>3
    <3> DEFINE d == [c EXCEPT !.pc = pc]
    <3>5. Becomes(c, d) /\ d.op = "handoff" /\ d.client = c.client /\ d.pc = pc
      BY <2>1, <3>1, <3>4 DEF Go, CallRecord
    <3> HIDE DEF d
    <3>6. d \in calls' /\ \A x \in calls' : x = d \/ (x \in calls /\ x # c)
      BY <3>5 DEF Becomes
    <3>7. OneInside'
      BY <3>2, <3>3, <3>5, <3>6 DEF Locks, OneInside, Inside, Locked
    <3>8. StarterWaits'
      <4> SUFFICES ASSUME NEW g \in Client, process'[g] = "starting"
                   PROVE  \E x \in calls' : x.op = "handoff" /\ x.client = g /\ x.pc = "await"
        BY DEF StarterWaits
      <4>1. CASE g = c.client
        BY <1>1, <3>4, <3>5, <3>6, <4>1
      <4>2. CASE g # c.client
        <5>1. process[g] = "starting"
          BY <1>1, <3>4, <4>2
        <5>2. PICK x \in calls : x.op = "handoff" /\ x.client = g /\ x.pc = "await"
          BY <5>1 DEF Locks, StarterWaits
        <5> QED BY <3>5, <4>2, <5>2 DEF Becomes
      <4> QED BY <4>1, <4>2
    <3>9. NoneAhead'
      BY <2>1, <3>1, <3>5, <3>6 DEF Locks, NoneAhead
    <3>10. SendsAreHeard'
      <4> SUFFICES ASSUME NEW x \in calls', x.op = "handoff", x.client = client,
                          x.pc \in {"send", "sent", "evidence", "finish"}
                   PROVE  process'[client] \in {"ready", "dead"}
        BY <3>1 DEF SendsAreHeard
      <4>1. CASE x = d
        BY <3>4, <3>5, <4>1
      <4>2. CASE x \in calls /\ x # c
        <5>1. ~Inside(x, c.client) /\ Inside(x, client) /\ process[client] \in {"ready", "dead"}
          BY <3>3, <4>2 DEF Inside, Locked, Locks, SendsAreHeard
        <5> QED BY <1>1, <3>4, <5>1
      <4> QED BY <3>6, <4>1, <4>2
    <3> QED BY <3>7, <3>8, <3>9, <3>10 DEF Locks
  <2>6. CASE NotReady(c)
    <3>1. /\ c.op = "handoff" /\ c.pc = "await" /\ c.client # 0 /\ Ends(c)
          /\ process' = [process EXCEPT ![c.client] = "none"] /\ UNCHANGED client
      BY <2>6 DEF NotReady, In, Types, Taken
    <3>2. c.client \in Client /\ Inside(c, c.client)
      BY <2>1, <3>1 DEF CallRecord, Inside, Locked
    <3>3. \A x \in calls : Inside(x, c.client) => x = c
      BY <3>2 DEF Locks, OneInside
    <3>4. calls' \subseteq calls /\ c \notin calls' /\ \A x \in calls : x # c => x \in calls'
      BY <3>1 DEF Ends
    <3>5. OneInside' /\ NoneAhead'
      BY <3>1, <3>4 DEF Locks, OneInside, Inside, NoneAhead
    <3>6. StarterWaits'
      <4> SUFFICES ASSUME NEW g \in Client, process'[g] = "starting"
                   PROVE  \E x \in calls' : x.op = "handoff" /\ x.client = g /\ x.pc = "await"
        BY DEF StarterWaits
      <4>1. g # c.client /\ process[g] = "starting"
        BY <1>1, <3>1
      <4>2. PICK x \in calls : x.op = "handoff" /\ x.client = g /\ x.pc = "await"
        BY <4>1 DEF Locks, StarterWaits
      <4> QED BY <3>4, <4>1, <4>2
    <3>7. SendsAreHeard'
      <4> SUFFICES ASSUME NEW x \in calls', x.op = "handoff", x.client = client,
                          x.pc \in {"send", "sent", "evidence", "finish"}
                   PROVE  process'[client] \in {"ready", "dead"}
        BY <3>1 DEF SendsAreHeard
      <4>1. x \in calls /\ x # c /\ Inside(x, client) /\ process[client] \in {"ready", "dead"}
        BY <3>4 DEF Inside, Locked, Locks, SendsAreHeard
      <4>2. client # c.client
        BY <3>3, <4>1
      <4> QED BY <1>1, <3>1, <4>1, <4>2
    <3> QED BY <3>5, <3>6, <3>7 DEF Locks
  <2>7. CASE SendCard(c)
    <3>1. PICK m : Becomes(c, [c EXCEPT !.pc = "sent", !.copy.message = m])
      BY <2>7 DEF SendCard
    <3> DEFINE d == [c EXCEPT !.pc = "sent", !.copy.message = m]
    <3>2. /\ c.op = "handoff" /\ c.pc = "send" /\ UNCHANGED <<client, process>>
          /\ d.op = c.op /\ d.client = c.client /\ d.pc = "sent"
      BY <2>1, <2>7 DEF SendCard, In, CallRecord
    <3> HIDE DEF d
    <3> QED BY <3>1, <3>2, GoesOnInside DEF d
  <2>8. CASE StoreCard(c)
    <3> DEFINE new == [c.copy EXCEPT !.handoff = "delivering", !.card_state = "awaiting_engineer"]
               d == [c EXCEPT !.pc = IF new.evidence THEN "finish" ELSE "evidence", !.copy = new]
    <3>1. /\ c.op = "handoff" /\ c.pc = "sent" /\ Becomes(c, d) /\ UNCHANGED <<client, process>>
      BY <2>8 DEF StoreCard, In
    <3> HIDE DEF new
    <3>2. d.op = c.op /\ d.client = c.client /\ d.pc \in {"finish", "evidence"}
      BY <2>1 DEF CallRecord
    <3> HIDE DEF d
    <3> QED BY <3>1, <3>2, GoesOnInside
  <2>9. CASE SendEvidence(c)
    <3> DEFINE d == [c EXCEPT !.pc = "finish", !.copy.evidence = TRUE]
    <3>1. /\ c.op = "handoff" /\ c.pc = "evidence" /\ Becomes(c, d) /\ UNCHANGED <<client, process>>
      BY <2>9 DEF SendEvidence, In
    <3>2. d.op = c.op /\ d.client = c.client /\ d.pc = "finish"
      BY <2>1 DEF CallRecord
    <3> HIDE DEF d
    <3> QED BY <3>1, <3>2, GoesOnInside
  <2>10. CASE HandoffFails(c) \/ UpdateFails(c)
    <3>1. Ends(c) /\ UNCHANGED <<client, process>> /\ c.pc # "await"
      BY <2>10 DEF HandoffFails, UpdateFails, In
    <3>2. PICK d : d = Call("timeline", c.issue, 0, "copy")
      OBVIOUS
    <3> QED BY <2>2, <3>1, <3>2 DEF Call
  <2>11. ASSUME c.pc # "await", UNCHANGED <<client, process>>,
                NEW pc \in Pc \ Locked, Go(c, pc) \/ Ends(c)
         PROVE  Locks'
    <3> DEFINE d == [c EXCEPT !.pc = pc]
    <3>1. Becomes(c, d) \/ Ends(c)
      BY <2>11 DEF Go
    <3>2. d.op = c.op /\ d.client = c.client /\ d.pc = pc
      BY <2>1 DEF CallRecord
    <3> HIDE DEF d
    <3> QED BY <2>1, <2>2, <2>11, <3>1, <3>2
  <2>12. CASE FinishHandoff(c) \/ UpdateCard(c) \/ StoreUpdate(c) \/ ImportIntoCore(c)
    <3>1. {"copy", "store", "import"} \subseteq Pc \ Locked
      BY DEF Pc, Locked
    <3>2. c.pc # "await" /\ UNCHANGED <<client, process>>
          /\ \E pc \in {"copy", "store", "import"} : Go(c, pc) \/ Ends(c)
      BY <2>12 DEF FinishHandoff, UpdateCard, StoreUpdate, ImportIntoCore, In
    <3> QED BY <2>11, <3>1, <3>2
  <2>13. CASE CopyForSync(c) \/ CopyForConfirm(c) \/ CopyForFailure(c)
    <3>1. PICK pc \in {"update", "import", "store"} :
            Becomes(c, [c EXCEPT !.copy = mem[c.client][c.issue], !.pc = pc]) \/ Ends(c)
      BY <2>13 DEF CopyForSync, CopyForConfirm, CopyForFailure
    <3> DEFINE d == [c EXCEPT !.copy = mem[c.client][c.issue], !.pc = pc]
    <3>2. d.op = c.op /\ d.client = c.client /\ d.pc = pc
      BY <2>1 DEF CallRecord
    <3>3. Becomes(c, d) \/ Ends(c)
      BY <3>1
    <3>4. c.pc # "await" /\ UNCHANGED <<client, process>>
      BY <2>13 DEF CopyForSync, CopyForConfirm, CopyForFailure, In
    <3> HIDE DEF d
    <3> QED BY <2>1, <2>2, <3>2, <3>3, <3>4 DEF Locked
  <2> QED BY <1>4, <2>3, <2>4, <2>5, <2>6, <2>7, <2>8, <2>9, <2>10, <2>12, <2>13
          DEF Step, Fails
<1>5. ASSUME NEW g \in Client, ListenerReady(g) \/ ListenerStops(g) PROVE Locks'
  <2>1. /\ UNCHANGED <<client, calls>>
        /\ \E s \in {"ready", "dead"} : process' = [process EXCEPT ![g] = s]
    BY <1>5 DEF ListenerReady, ListenerStops
  <2> QED BY <1>1, <2>1 DEF Locks, OneInside, Inside, StarterWaits, NoneAhead, SendsAreHeard
<1>6. ASSUME NEW p \in Presses,
             \/ PressSubmit(p) \/ LosePress(p)
             \/ \E g \in Client : ReceivePress(p, g)
      PROVE  Locks'
  <2>1. /\ UNCHANGED <<client, process>> /\ calls \subseteq calls'
        /\ \A x \in calls' : x \in calls \/ x.op # "handoff"
    <3>1. \A i, g, r : [Call("event", i, g, "update") EXCEPT !.copy = r].op = "event"
      BY DEF Call
    <3>2. ASSUME NEW g \in Client, ReceivePress(p, g)
          PROVE  /\ UNCHANGED <<client, process>> /\ calls \subseteq calls'
                 /\ \A x \in calls' : x \in calls \/ x.op # "handoff"
      <4>1. \/ calls' = calls
            \/ \E i, r : calls' = calls \cup {[Call("event", i, g, "update") EXCEPT !.copy = r]}
        BY <3>2 DEF ReceivePress
      <4>2. UNCHANGED <<client, process>>
        BY <3>2 DEF ReceivePress
      <4> QED BY <3>1, <4>1, <4>2
    <3> QED BY <1>6, <3>2 DEF PressSubmit, LosePress
  <2> QED BY <2>1, NobodyEnters
<1>7. CASE BuildClient \/ UNCHANGED vars
  <2>1. UNCHANGED <<client, process, calls>>
    BY <1>7 DEF BuildClient, vars
  <2> QED BY <2>1, NobodyEnters
\* The new client is in nobody's hands.
<1>8. CASE Configure
  <2>1. /\ client' = client + 1 /\ process' = [process EXCEPT ![client] = "none"]
        /\ calls' = calls \cup Queue(Pending)
    BY <1>1, <1>8 DEF Configure
  <2>2. OneInside'
    BY <1>2, <2>1 DEF Locks, OneInside, Inside, Locked
  <2>3. StarterWaits'
    BY <1>1, <2>1 DEF Locks, StarterWaits
  <2>4. \A x \in calls' : x.op = "handoff" => x.client \in Nat /\ x.client <= client
    BY <1>1, <1>2, <2>1 DEF Locks, NoneAhead
  <2>5. \A x \in calls' : x.op = "handoff" => x.client < client' /\ x.client <= client'
    <3> SUFFICES ASSUME NEW x \in calls', x.op = "handoff"
                 PROVE  x.client < client' /\ x.client <= client'
      OBVIOUS
    <3> QED BY <1>1, <2>1, <2>4
  <2>6. NoneAhead' /\ SendsAreHeard'
    <3>1. \A n \in Nat : ~(n < n)
      OBVIOUS
    <3>2. client' \in Nat
      BY <1>1, <2>1
    <3> QED BY <2>5, <3>1, <3>2 DEF NoneAhead, SendsAreHeard
  <2> QED BY <2>2, <2>3, <2>6 DEF Locks
<1>9. CASE Crash
  <2>1. /\ client' = built + 1 /\ process' = [g \in Client |-> "none"]
        /\ calls' = {Call("handoff", i, 0, "queued") : i \in Pending}
    BY <1>9 DEF Crash
  <2>2. \A x \in calls' : x.pc = "queued" /\ x.client = 0
    BY <2>1 DEF Call
  <2>3. client' \in Nat
    BY <1>1, <2>1
  <2>4. OneInside' /\ SendsAreHeard'
    BY <2>2 DEF OneInside, Inside, Locked, SendsAreHeard
  <2>5. StarterWaits' /\ NoneAhead'
    BY <2>1, <2>2, <2>3 DEF StarterWaits, NoneAhead
  <2> QED BY <2>4, <2>5 DEF Locks
<1> QED BY <1>3, <1>4, <1>5, <1>6, <1>7, <1>8, <1>9, NextCases

LEMMA IInvInit == Init => IInv
BY TypesInit, ToldInit DEF Init, IInv, OneInside, StarterWaits, NoneAhead, SendsAreHeard

LEMMA IInvStep == IInv /\ [Next]_vars => IInv'
BY TypesStep, ToldStep, LocksStep DEF IInv, Locks

LEMMA IInvHolds == Spec => []IInv
BY IInvInit, IInvStep, PTL DEF Spec

-----------------------------------------------------------------------------
\* Of every client, call, record and card there is the type its module gives it,
\* and the clients that faults and replacements can make are enough.
THEOREM LarkTypeCorrect == Spec => []TypeOK
<1>1. IInv => TypeOK
  BY DEF IInv, Types
<1> QED BY <1>1, IInvHolds, PTL

\* What the core holds for delivered is in Feishu, card and evidence, wherever the
\* handoff broke off and whichever client or process, from whichever state of the
\* file, went on with it (_handoff, sync and _sync_gateway).
THEOREM DeliveredIsCompleteHolds == Spec => []DeliveredIsComplete
<1>1. IInv => DeliveredIsComplete
  BY DEF IInv, Told, CoreSays, Complete, DeliveredIsComplete
<1> QED BY <1>1, IInvHolds, PTL

\* The client in use sends no card before the listener it started, or found, has
\* been ready (_ensure_started under _handoff_lock).
THEOREM HeardWhenSent == Spec => []SendsAreHeard
<1>1. IInv => SendsAreHeard
  BY DEF IInv
<1> QED BY <1>1, IInvHolds, PTL
=============================================================================
