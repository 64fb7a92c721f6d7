---------------------------- MODULE CodexStreamProofs ----------------------------
(***************************************************************************)
(* For any messages, lengths, numbers of runs and edits: the reporter sees *)
(* public text only, and what a run returns is true.                       *)
(*                                                                         *)
(* The argument: what is on the wire was true of the app-server when it    *)
(* was written and still is, since it never takes anything back in a run.  *)
(* So a delta that is read is preceded by the line that told the phase of  *)
(* its message, and a message once completed gets no more of them; and     *)
(* when the end of the turn is read, no completed message is left unread.  *)
(***************************************************************************)
EXTENDS CodexStream, TLAPS

Requests == {"initialize", "open", "turn", "none"}
Kinds == {"initialized", "opened", "accepted", "unsafe", "busy", "missing", "failed",
          "ask", "started", "delta", "completed", "over", "broken"}
Line == [kind : Kinds, own : BOOLEAN, item : Items \cup {NoText}, n : 0 .. Whole]
ServerState == [up : BOOLEAN, request : Requests, turn : {"none", "going", "over"},
            phase : [Items -> Phases], parts : [Items -> 0 .. Whole],
            said : Texts]

Types ==
  /\ pc \in {"idle", "exec", "check"} \cup Waiting /\ known \in BOOLEAN
  /\ wire \in Seq(Line)
  /\ phases \in [Items -> Phases] /\ messages \in [Items -> 0 .. Whole]
  /\ response \in Texts /\ shown \in Texts
  /\ error \in {"none"} \cup Failures
  /\ server \in ServerState

\* A line about a message of this run's thread, and one that ends the turn.
Tells(e) == e.own /\ e.kind \in {"started", "delta", "completed"}
EndsTurn(e) == e.kind \in {"over", "broken"}

\* The completion of a public message.
Public(e) == e.own /\ e.kind = "completed" /\ server.phase[e.item] = "final"

\* Once a turn can go on, its thread is known.
ThreadIsKnown == server.up /\ (server.request = "turn" \/ server.turn # "none") => known

\* One request at a time, and one answer to it that makes the client go on.
Opens(e) == e.kind \in {"initialized", "opened"}
OneAtATime ==
  /\ server.up /\ server.request # "none" => server.turn = "none"
  /\ \A n \in 1 .. Len(wire) : Opens(wire[n]) =>
       /\ server.request = "none" /\ server.turn = "none"
       /\ \A m \in 1 .. Len(wire) : Opens(wire[m]) => m = n

\* The client has counted no more than was told.
CountIsBehind == \A i \in Items : messages[i] <= server.parts[i]

\* What a line says is so, and no delta has been counted before it is read.
LineIsTrue(e) ==
  /\ EndsTurn(e) => server.turn = "over"
  /\ Tells(e) =>
       /\ known
       /\ e.item \in Items
       /\ server.phase[e.item] # "unknown"
       /\ e.kind = "delta" => /\ e.n <= server.parts[e.item]
                              /\ server.phase[e.item] = "final" => messages[e.item] < e.n
       /\ e.kind = "completed" => server.parts[e.item] = Whole

LinesAreTrue == \A n \in 1 .. Len(wire) : LineIsTrue(wire[n])

\* The deltas of a message come in order, none after its completion, and nothing
\* is told after the end of the turn.
InOrder ==
  \A m, n \in 1 .. Len(wire) :
    m < n /\ Tells(wire[n]) =>
      /\ ~EndsTurn(wire[m])
      /\ Tells(wire[m]) /\ wire[m].item = wire[n].item /\ wire[n].kind = "delta" =>
           /\ wire[m].kind # "completed"
           /\ wire[m].kind = "delta" => wire[m].n < wire[n].n

\* The phase of a message, once told, has been read or is on the wire; there it
\* precedes the message's deltas.
PhaseIsTold(i, n) ==
  \/ phases[i] = server.phase[i]
  \/ \E m \in 1 .. n : Tells(wire[m]) /\ wire[m].kind = "started" /\ wire[m].item = i

PhaseComesFirst ==
  /\ server.up => \A i \in Items :
       server.phase[i] # "unknown" => PhaseIsTold(i, Len(wire))
  /\ \A n \in 1 .. Len(wire) :
       Tells(wire[n]) /\ wire[n].kind = "delta" => PhaseIsTold(wire[n].item, n - 1)

\* The last public message that was completed is the last one on the wire, or
\* the answer so far if there is none there.
LastIsSaid ==
  /\ pc \in Waiting \cup {"exec"} =>
       ((\A n \in 1 .. Len(wire) : ~Public(wire[n])) => response = server.said)
  /\ \A n \in 1 .. Len(wire) :
       Public(wire[n]) /\ (\A m \in (n + 1) .. Len(wire) : ~Public(wire[m]))
         => server.said = <<wire[n].item, Whole>>

\* A run that has nothing against it has ended its turn and has its answer.
AnswerIsFinal ==
  pc = "check" /\ error = "none" => server.turn = "over" /\ response = server.said

\* exec has no app-server.
ExecIsAlone == pc = "exec" => wire = <<>> /\ ~server.up

IInv == /\ Types /\ ThreadIsKnown /\ OneAtATime /\ CountIsBehind /\ ExecIsAlone
        /\ LinesAreTrue /\ InOrder
        /\ PhaseComesFirst /\ LastIsSaid /\ AnswerIsFinal /\ OnlyPublicTextIsShown

-----------------------------------------------------------------------------
\* The parts of a text, and what a line says of them, are counted.
LEMMA WholeIsCounted == MaxParts \in Nat /\ Whole \in Nat /\ Whole = MaxParts + 1
BY CodexStreamAssumption DEF Whole

LEMMA LineIsCounted ==
  ASSUME NEW e \in Line
  PROVE  e.n \in Nat /\ e.n \in 0 .. Whole /\ e.item \in Items \cup {NoText} /\ e.kind \in Kinds
<1>1. e.n \in 0 .. Whole /\ e.item \in Items \cup {NoText} /\ e.kind \in Kinds
  BY DEF Line
<1> QED BY <1>1, WholeIsCounted

\* What reading a line leaves of the wire.
LEMMA ReadLine ==
  ASSUME Types, wire # <<>>, wire' = Tail(wire)
  PROVE  /\ Head(wire) = wire[1] /\ Head(wire) \in Line
         /\ Len(wire) \in Nat \ {0}
         /\ wire' \in Seq(Line) /\ Len(wire') = Len(wire) - 1
         /\ \A n \in 1 .. Len(wire') : wire'[n] = wire[n + 1]
         /\ \A n \in 1 .. Len(wire) : wire[n] \in Line
BY DEF Types

\* What writing a line makes of it.
LEMMA WriteLine ==
  ASSUME Types, NEW e \in Line, wire' = Append(wire, e)
  PROVE  /\ Len(wire) \in Nat
         /\ wire' \in Seq(Line) /\ Len(wire') = Len(wire) + 1
         /\ \A n \in 1 .. Len(wire) : wire'[n] = wire[n]
         /\ wire'[Len(wire) + 1] = e
         /\ \A n \in 1 .. Len(wire) : wire[n] \in Line
BY DEF Types

\* A line read by the client leaves the other lines true, in order and told of,
\* if the client counts only what the line says.
LEMMA ReadKeeps ==
  ASSUME IInv, wire # <<>>, wire' = Tail(wire), server'.up = server.up,
         server'.phase = server.phase, server'.parts = server.parts,
         server'.turn = server.turn, server'.said = server.said, known => known',
         phases' \in [Items -> Phases], messages' \in [Items -> 0 .. Whole],
         \A i \in Items : phases'[i] \in {phases[i], server.phase[i]},
         Tells(wire[1]) /\ wire[1].kind = "started" =>
           phases'[wire[1].item] = server.phase[wire[1].item],
         \A i \in Items : messages'[i] = messages[i] \/
           /\ Tells(wire[1]) /\ wire[1].item = i
           /\ \/ wire[1].kind = "delta" /\ messages'[i] <= wire[1].n
              \/ wire[1].kind = "completed",
         pc' \in Waiting \cup {"exec"} =>
           /\ pc \in Waiting \cup {"exec"}
           /\ response' = IF Public(wire[1]) THEN <<wire[1].item, Whole>> ELSE response
  PROVE  LinesAreTrue' /\ InOrder' /\ PhaseComesFirst' /\ LastIsSaid'
<1> DEFINE L == Len(wire)
<1>1. /\ L \in Nat \ {0} /\ Len(wire') = L - 1
      /\ \A n \in 1 .. (L - 1) : wire'[n] = wire[n + 1]
      /\ \A n \in 1 .. L : wire[n] \in Line
  BY ReadLine DEF IInv
<1> HIDE DEF L
<1>2. InOrder'
  BY <1>1 DEF IInv, InOrder, Tells, EndsTurn, L
<1>3. LinesAreTrue'
  <2> SUFFICES ASSUME NEW n \in 1 .. Len(wire') PROVE LineIsTrue(wire[n])'
    BY DEF LinesAreTrue
  <2>1. n + 1 \in 1 .. L /\ wire'[n] = wire[n + 1] /\ wire[n + 1] \in Line
    BY <1>1
  <2>2. LineIsTrue(wire[n + 1]) /\ LineIsTrue(wire[1])
    BY <1>1, <2>1 DEF IInv, LinesAreTrue, L
  <2>3. /\ 1 < n + 1 /\ 1 \in 1 .. L
        /\ Tells(wire[1]) /\ Tells(wire[n + 1]) /\ wire[1].item = wire[n + 1].item
             /\ wire[n + 1].kind = "delta" =>
             /\ wire[1].kind # "completed"
             /\ wire[1].kind = "delta" => wire[1].n < wire[n + 1].n
    BY <1>1, <2>1 DEF IInv, InOrder, L
  <2>4. ASSUME Tells(wire[n + 1]), wire[n + 1].kind = "delta",
               server.phase[wire[n + 1].item] = "final"
        PROVE  messages'[wire[n + 1].item] < wire[n + 1].n
    <3>1. wire[n + 1].item \in Items /\ messages[wire[n + 1].item] < wire[n + 1].n
      BY <2>2, <2>4 DEF LineIsTrue
    <3>2. wire[n + 1].n \in Nat /\ wire[1].n \in Nat
      BY <1>1, <2>1, <2>3, LineIsCounted
    <3>3. messages'[wire[n + 1].item] \in Nat
      BY <3>1, WholeIsCounted
    <3> QED BY <2>3, <2>4, <3>1, <3>2, <3>3
  <2> QED BY <2>1, <2>2, <2>4 DEF LineIsTrue, Tells, EndsTurn
<1>4. PhaseComesFirst'
  <2>1. ASSUME NEW i \in Items, NEW k \in 1 .. L, PhaseIsTold(i, k)
        PROVE  PhaseIsTold(i, k - 1)'
    <3>1. CASE phases[i] = server.phase[i]
      BY <3>1 DEF PhaseIsTold
    <3>2. ASSUME NEW m \in 1 .. k, Tells(wire[m]), wire[m].kind = "started", wire[m].item = i
          PROVE  PhaseIsTold(i, k - 1)'
      <4>1. CASE m = 1
        BY <3>2, <4>1 DEF PhaseIsTold
      <4>2. CASE m # 1
        <5>1. m - 1 \in 1 .. (k - 1) /\ wire'[m - 1] = wire[m]
          BY <1>1, <4>2
        <5>2. /\ Tells(wire'[m - 1]) /\ wire'[m - 1].kind = "started"
              /\ wire'[m - 1].item = i
          BY <3>2, <5>1
        <5> QED BY ONLY <5>1, <5>2 DEF PhaseIsTold, Tells
      <4> QED BY <4>1, <4>2
    <3> QED BY <2>1, <3>1, <3>2 DEF PhaseIsTold
  <2>2. ASSUME server'.up, NEW i \in Items, server'.phase[i] # "unknown"
        PROVE  PhaseIsTold(i, Len(wire))'
    <3>1. PICK k : k = L
      OBVIOUS
    <3>2. k \in 1 .. L /\ PhaseIsTold(i, k)
      BY <1>1, <2>2, <3>1 DEF IInv, PhaseComesFirst, L
    <3>3. PhaseIsTold(i, k - 1)' /\ Len(wire') = k - 1
      BY <1>1, <2>1, <3>1, <3>2
    <3> QED BY <3>3 DEF PhaseIsTold
  <2>3. ASSUME NEW n \in 1 .. Len(wire'), Tells(wire[n])', wire'[n].kind = "delta"
        PROVE  PhaseIsTold(wire[n].item, n - 1)'
    <3>1. n + 1 \in 1 .. L /\ wire'[n] = wire[n + 1]
      BY <1>1
    <3>2. Tells(wire[n + 1]) /\ wire[n + 1].kind = "delta"
      BY <2>3, <3>1 DEF Tells
    <3>3. PhaseIsTold(wire[n + 1].item, n) /\ wire[n + 1].item \in Items
      BY <3>1, <3>2 DEF IInv, PhaseComesFirst, LinesAreTrue, LineIsTrue, L
    <3>4. CASE phases[wire[n + 1].item] = server.phase[wire[n + 1].item]
      BY <3>1, <3>3, <3>4 DEF PhaseIsTold
    <3>5. ASSUME NEW m \in 1 .. n, Tells(wire[m]), wire[m].kind = "started",
                 wire[m].item = wire[n + 1].item
          PROVE  PhaseIsTold(wire[n].item, n - 1)'
      <4>1. CASE m = 1
        BY <3>1, <3>5, <4>1 DEF PhaseIsTold
      <4>2. CASE m # 1
        <5>1. m - 1 \in 1 .. (n - 1) /\ wire'[m - 1] = wire[m]
          BY <1>1, <4>2
        <5>2. /\ Tells(wire'[m - 1]) /\ wire'[m - 1].kind = "started"
              /\ wire'[m - 1].item = wire'[n].item
          BY <3>1, <3>5, <5>1
        <5> QED BY ONLY <5>1, <5>2 DEF PhaseIsTold, Tells
      <4> QED BY <4>1, <4>2
    <3> QED BY <3>3, <3>4, <3>5 DEF PhaseIsTold
  <2>4. server'.up => \A i \in Items : server'.phase[i] # "unknown" => PhaseIsTold(i, Len(wire))'
    BY <2>2
  <2>5. \A n \in 1 .. Len(wire') :
          Tells(wire[n])' /\ wire'[n].kind = "delta" => PhaseIsTold(wire[n].item, n - 1)'
    BY <2>3
  <2> QED BY ONLY <2>4, <2>5 DEF PhaseComesFirst
<1>5. \A n \in 1 .. Len(wire') : n + 1 \in 1 .. L /\ (Public(wire[n])' <=> Public(wire[n + 1]))
  BY <1>1 DEF Public
<1>6. LastIsSaid'
  <2>1. ASSUME pc' \in Waiting \cup {"exec"}, \A n \in 1 .. Len(wire') : ~Public(wire[n])'
        PROVE  response' = server'.said
    <3>1. \A n \in 2 .. L : ~Public(wire[n])
      <4> SUFFICES ASSUME NEW n \in 2 .. L PROVE ~Public(wire[n])
        OBVIOUS
      <4>1. n - 1 \in 1 .. Len(wire') /\ (n - 1) + 1 = n
        BY <1>1
      <4> QED BY <1>5, <2>1, <4>1
    <3>2. CASE Public(wire[1])
      <4>1. 1 \in 1 .. L /\ \A m \in (1 + 1) .. L : ~Public(wire[m])
        BY <1>1, <3>1
      <4>2. server.said = <<wire[1].item, Whole>>
        BY <3>2, <4>1 DEF IInv, LastIsSaid, L
      <4> QED BY <2>1, <3>2, <4>2
    <3>3. CASE ~Public(wire[1])
      <4>1. \A n \in 1 .. L : ~Public(wire[n])
        <5> SUFFICES ASSUME NEW n \in 1 .. L PROVE ~Public(wire[n])
          OBVIOUS
        <5>1. n = 1 \/ n \in 2 .. L
          BY <1>1
        <5> QED BY <3>1, <3>3, <5>1
      <4> QED BY <2>1, <3>3, <4>1 DEF IInv, LastIsSaid, L
    <3> QED BY <3>2, <3>3
  <2>2. ASSUME NEW n \in 1 .. Len(wire'), Public(wire[n])',
               \A m \in (n + 1) .. Len(wire') : ~Public(wire[m])'
        PROVE  server'.said = <<wire'[n].item, Whole>>
    <3>1. n + 1 \in 1 .. L /\ wire'[n] = wire[n + 1] /\ Public(wire[n + 1])
      BY <1>1, <1>5, <2>2
    <3>2. \A m \in ((n + 1) + 1) .. L : ~Public(wire[m])
      <4> SUFFICES ASSUME NEW m \in ((n + 1) + 1) .. L PROVE ~Public(wire[m])
        OBVIOUS
      <4>1. m - 1 \in (n + 1) .. Len(wire') /\ m - 1 \in 1 .. Len(wire') /\ (m - 1) + 1 = m
        BY <1>1
      <4> QED BY <1>5, <2>2, <4>1
    <3> QED BY <3>1, <3>2 DEF IInv, LastIsSaid, L
  <2> QED BY <2>1, <2>2 DEF LastIsSaid
<1> QED BY <1>2, <1>3, <1>4, <1>6

\* A line written by the app-server, which takes nothing back, is as true as
\* those before it.
LEMMA WriteKeeps ==
  ASSUME IInv, NEW e \in Line, wire' = Append(wire, e), server.up, server'.up = server.up,
         server'.phase \in [Items -> Phases], server'.parts \in [Items -> 0 .. Whole],
         UNCHANGED <<pc, known, phases, messages, response>>,
         \A i \in Items :
           /\ server.phase[i] # "unknown" => server'.phase[i] = server.phase[i]
           /\ server.phase[i] = "unknown" /\ server'.phase[i] # "unknown" =>
                Tells(e) /\ e.kind = "started" /\ e.item = i
           /\ server.parts[i] <= server'.parts[i],
         server.turn = "over" => server'.turn = "over",
         LineIsTrue(e)',
         Tells(e) => server.turn # "over",
         Tells(e) /\ e.kind = "delta" => /\ server.phase[e.item] # "unknown"
                                         /\ server.parts[e.item] < e.n
                                         /\ server.parts[e.item] < Whole,
         server'.said = IF Public(e)' THEN <<e.item, Whole>> ELSE server.said
  PROVE  LinesAreTrue' /\ InOrder' /\ PhaseComesFirst' /\ LastIsSaid'
<1> DEFINE L == Len(wire)
<1>1. /\ L \in Nat /\ Len(wire') = L + 1
      /\ \A n \in 1 .. L : wire'[n] = wire[n] /\ wire[n] \in Line
      /\ wire'[L + 1] = e
      /\ \A n \in 1 .. Len(wire') : n = L + 1 \/ n \in 1 .. L
  BY WriteLine DEF IInv
<1>2. \A n \in 1 .. L : LineIsTrue(wire[n])
  BY DEF IInv, LinesAreTrue
<1> HIDE DEF L
<1>3. LinesAreTrue'
  <2> SUFFICES ASSUME NEW n \in 1 .. Len(wire') PROVE LineIsTrue(wire[n])'
    BY DEF LinesAreTrue
  <2>1. CASE n = L + 1
    BY <1>1, <2>1 DEF LineIsTrue, EndsTurn, Tells
  <2>2. CASE n \in 1 .. L
    <3>1. LineIsTrue(wire[n]) /\ wire'[n] = wire[n] /\ wire[n] \in Line
      BY <1>1, <1>2, <2>2
    <3>2. ASSUME Tells(wire[n])
          PROVE  /\ wire[n].item \in Items
                 /\ server'.phase[wire[n].item] = server.phase[wire[n].item]
                 /\ server.parts[wire[n].item] <= server'.parts[wire[n].item]
                 /\ server.parts[wire[n].item] \in 0 .. Whole
                 /\ server'.parts[wire[n].item] \in 0 .. Whole
                 /\ wire[n].n \in 0 .. Whole
      <4>1. wire[n].item \in Items /\ server.phase[wire[n].item] # "unknown"
        BY <3>1, <3>2 DEF LineIsTrue
      <4>2. server.parts \in [Items -> 0 .. Whole]
        BY DEF IInv, Types, ServerState
      <4>3. wire[n].n \in 0 .. Whole
        BY <3>1, LineIsCounted
      <4> QED BY <4>1, <4>2, <4>3
    <3>3. Whole \in Nat
      BY WholeIsCounted
    <3>4. ASSUME Tells(wire[n])
          PROVE  /\ wire[n].n <= server.parts[wire[n].item] =>
                      wire[n].n <= server'.parts[wire[n].item]
                 /\ server.parts[wire[n].item] = Whole => server'.parts[wire[n].item] = Whole
      <4>1. PICK i : i = wire[n].item
        OBVIOUS
      <4>2. /\ server.parts[i] <= server'.parts[i] /\ server.parts[i] \in 0 .. Whole
            /\ server'.parts[i] \in 0 .. Whole /\ wire[n].n \in 0 .. Whole
        BY <3>2, <3>4, <4>1
      <4> QED BY ONLY <3>3, <4>1, <4>2
    <3> QED BY <3>1, <3>2, <3>4 DEF LineIsTrue, EndsTurn, Tells
  <2> QED BY <1>1, <2>1, <2>2
<1>4. InOrder'
  <2> SUFFICES ASSUME NEW m \in 1 .. Len(wire'), NEW n \in 1 .. Len(wire'), m < n,
                      Tells(wire[n])'
               PROVE  /\ ~EndsTurn(wire[m])'
                      /\ Tells(wire[m])' /\ wire'[m].item = wire'[n].item
                           /\ wire'[n].kind = "delta" =>
                           /\ wire'[m].kind # "completed"
                           /\ wire'[m].kind = "delta" => wire'[m].n < wire'[n].n
    BY DEF InOrder
  <2>1. m \in 1 .. L /\ wire'[m] = wire[m] /\ LineIsTrue(wire[m]) /\ wire[m] \in Line
    BY <1>1, <1>2
  <2>2. CASE n = L + 1
    <3>1. wire'[n] = e /\ Tells(e)
      BY <1>1, <2>2 DEF Tells
    <3>2. ~EndsTurn(wire[m])
      BY <2>1, <3>1 DEF LineIsTrue
    <3>3. ASSUME Tells(wire[m]), wire[m].item = e.item, e.kind = "delta"
          PROVE  wire[m].kind # "completed" /\ (wire[m].kind = "delta" => wire[m].n < e.n)
      <4>0. e.item \in Items
        BY <3>1 DEF LineIsTrue, Tells
      <4>1. server.parts[e.item] \in Nat /\ e.n \in Nat /\ wire[m].n \in Nat /\ Whole \in Nat
        <5>1. server.parts \in [Items -> 0 .. Whole]
          BY DEF IInv, Types, ServerState
        <5> QED BY <2>1, <4>0, <5>1, LineIsCounted, WholeIsCounted
      <4>2. server.parts[e.item] < e.n /\ server.parts[e.item] < Whole
        BY <3>1, <3>3
      <4>3. /\ wire[m].kind = "delta" => wire[m].n <= server.parts[e.item]
            /\ wire[m].kind = "completed" => server.parts[e.item] = Whole
        BY <2>1, <3>3 DEF LineIsTrue
      <4> QED BY <4>1, <4>2, <4>3
    <3> QED BY <2>1, <3>1, <3>2, <3>3 DEF Tells, EndsTurn
  <2>3. CASE n \in 1 .. L
    BY <1>1, <2>1, <2>3 DEF IInv, InOrder, Tells, EndsTurn, L
  <2> QED BY <1>1, <2>2, <2>3
<1>5. ASSUME NEW i \in Items, NEW k \in 0 .. L, server.phase[i] # "unknown", PhaseIsTold(i, k)
      PROVE  PhaseIsTold(i, k)'
  BY <1>1, <1>5 DEF PhaseIsTold, Tells
<1>6. PhaseComesFirst'
  <2>0. PICK k : k = L
    OBVIOUS
  <2>1. ASSUME NEW i \in Items, server'.phase[i] # "unknown"
        PROVE  PhaseIsTold(i, Len(wire))'
    <3>1. CASE server.phase[i] = "unknown"
      BY <1>1, <2>1, <3>1 DEF PhaseIsTold, Tells
    <3>2. CASE server.phase[i] # "unknown"
      <4>1. k \in 0 .. L /\ PhaseIsTold(i, k)
        BY <1>1, <2>0, <3>2 DEF IInv, PhaseComesFirst, L
      <4>2. PhaseIsTold(i, k)'
        BY <1>5, <3>2, <4>1
      <4>3. Len(wire') = k + 1 /\ k \in Nat
        BY <1>1, <2>0
      <4> QED BY <4>2, <4>3 DEF PhaseIsTold
    <3> QED BY <3>1, <3>2
  <2>2. ASSUME NEW n \in 1 .. Len(wire'), Tells(wire[n])', wire'[n].kind = "delta"
        PROVE  PhaseIsTold(wire[n].item, n - 1)'
    <3>1. PICK i : i = wire'[n].item
      OBVIOUS
    <3>2. i \in Items /\ server.phase[i] # "unknown" /\ n - 1 \in 0 .. L
          /\ PhaseIsTold(i, n - 1)
      <4>1. CASE n = L + 1
        <5>1. Tells(e) /\ e.kind = "delta" /\ i = e.item
          BY <1>1, <2>2, <3>1, <4>1 DEF Tells
        <5>2. i \in Items
          BY <5>1 DEF LineIsTrue, EndsTurn, Tells
        <5>3. server.phase[i] # "unknown"
          BY <5>1
        <5>4. PhaseIsTold(i, L)
          BY <5>2, <5>3 DEF IInv, PhaseComesFirst, L
        <5> QED BY <1>1, <4>1, <5>2, <5>3, <5>4
      <4>2. CASE n \in 1 .. L
        <5>1. wire'[n] = wire[n] /\ Tells(wire[n]) /\ wire[n].kind = "delta"
          BY <1>1, <2>2, <4>2 DEF Tells
        <5>2. PhaseIsTold(i, n - 1)
          BY <3>1, <4>2, <5>1 DEF IInv, PhaseComesFirst, L
        <5> QED BY <1>1, <1>2, <3>1, <4>2, <5>1, <5>2 DEF LineIsTrue
      <4> QED BY <1>1, <4>1, <4>2
    <3>3. PhaseIsTold(i, n - 1)'
      BY <1>5, <3>2
    <3> QED BY <3>1, <3>3 DEF PhaseIsTold
  <2> QED BY <2>1, <2>2 DEF PhaseComesFirst
<1>7. \A n \in 1 .. L : Public(wire[n])' <=> Public(wire[n])
  <2> SUFFICES ASSUME NEW n \in 1 .. L, wire[n].own, wire[n].kind = "completed"
               PROVE  server'.phase[wire[n].item] = server.phase[wire[n].item]
    BY <1>1 DEF Public
  <2> QED BY <1>2 DEF LineIsTrue, Tells
<1>8. LastIsSaid'
  <2>1. ASSUME pc' \in Waiting \cup {"exec"}, \A n \in 1 .. Len(wire') : ~Public(wire[n])'
        PROVE  response' = server'.said
    <3>1. ~Public(e)'
      <4>1. PICK k : k = L + 1
        OBVIOUS
      <4>2. k \in 1 .. Len(wire') /\ wire'[k] = e
        BY <1>1, <4>1
      <4>3. ~Public(wire[k])'
        BY <2>1, <4>2
      <4> QED BY <4>2, <4>3 DEF Public
    <3>2. \A n \in 1 .. L : ~Public(wire[n])
      BY <1>1, <1>7, <2>1
    <3> QED BY <2>1, <3>1, <3>2 DEF IInv, LastIsSaid, L
  <2>2. ASSUME NEW n \in 1 .. Len(wire'), Public(wire[n])',
               \A m \in (n + 1) .. Len(wire') : ~Public(wire[m])'
        PROVE  server'.said = <<wire'[n].item, Whole>>
    <3>1. CASE n = L + 1
      BY <1>1, <2>2, <3>1 DEF Public
    <3>2. CASE n \in 1 .. L
      <4>1. PICK k : k = L + 1
        OBVIOUS
      <4>2. k \in (n + 1) .. Len(wire') /\ wire'[k] = e
        BY <1>1, <3>2, <4>1
      <4>3. ~Public(e)'
        BY <2>2, <4>2 DEF Public
      <4>4. Public(wire[n]) /\ wire'[n] = wire[n] /\ \A m \in (n + 1) .. L : ~Public(wire[m])
        BY <1>1, <1>7, <2>2, <3>2
      <4> QED BY <3>2, <4>3, <4>4 DEF IInv, LastIsSaid, L
    <3> QED BY <1>1, <3>1, <3>2
  <2> QED BY <2>1, <2>2 DEF LastIsSaid
<1> QED BY <1>3, <1>4, <1>6, <1>8

\* Where no line is read or written, all that is said of the lines stays.
LEMMA WireKept ==
  ASSUME IInv, UNCHANGED <<wire, known, phases, messages>>, server'.up => server.up,
         server'.phase = server.phase, server'.parts = server.parts,
         server'.turn = server.turn, server'.said = server.said,
         pc' \in Waiting \cup {"exec"} => pc \in Waiting \cup {"exec"} /\ UNCHANGED response
  PROVE  LinesAreTrue' /\ InOrder' /\ PhaseComesFirst' /\ LastIsSaid'
<1>1. LinesAreTrue'
  BY DEF IInv, LinesAreTrue, LineIsTrue, Tells, EndsTurn
<1>2. InOrder'
  BY DEF IInv, InOrder, Tells, EndsTurn
<1>3. PhaseComesFirst'
  BY DEF IInv, PhaseComesFirst, PhaseIsTold, Tells
<1>4. LastIsSaid'
  <2>1. \A n \in 1 .. Len(wire) : Public(wire[n])' <=> Public(wire[n])
    BY DEF Public
  <2> QED BY <2>1 DEF IInv, LastIsSaid
<1> QED BY <1>1, <1>2, <1>3, <1>4

\* Of an empty wire there is little to say.
LEMMA WireEmpty ==
  ASSUME wire' = <<>>, server'.up => \A i \in Items : server'.phase[i] = "unknown",
         pc' \in Waiting \cup {"exec"} => response' = server'.said
  PROVE  LinesAreTrue' /\ InOrder' /\ PhaseComesFirst' /\ LastIsSaid'
<1>1. Len(wire') = 0 /\ 1 .. 0 = {}
  BY SMT
<1> QED BY <1>1 DEF LinesAreTrue, InOrder, PhaseComesFirst, LastIsSaid

\* A line read leaves room for the next request, if it was the answer to the last.
LEMMA ReadOne ==
  ASSUME IInv, wire # <<>>, wire' = Tail(wire), server'.up = server.up,
         server'.turn = server.turn, server'.request = server.request \/ Opens(wire[1])
  PROVE  OneAtATime'
<1> DEFINE L == Len(wire)
<1>1. /\ L \in Nat \ {0} /\ Len(wire') = L - 1
      /\ \A n \in 1 .. (L - 1) : wire'[n] = wire[n + 1]
  BY ReadLine DEF IInv
<1>2. /\ server.up /\ server.request # "none" => server.turn = "none"
      /\ \A n \in 1 .. L : Opens(wire[n]) =>
           /\ server.request = "none" /\ server.turn = "none"
           /\ \A m \in 1 .. L : Opens(wire[m]) => m = n
  BY DEF IInv, OneAtATime
<1> HIDE DEF L
<1>3. ASSUME NEW n \in 1 .. Len(wire'), Opens(wire[n])'
      PROVE  /\ server'.request = "none" /\ server'.turn = "none"
             /\ \A m \in 1 .. Len(wire') : Opens(wire[m])' => m = n
  <2>1. n + 1 \in 1 .. L /\ Opens(wire[n + 1]) /\ 1 \in 1 .. L
    BY <1>1, <1>3 DEF Opens
  <2>2. ~Opens(wire[1])
    BY <1>2, <2>1
  <2>3. ASSUME NEW m \in 1 .. Len(wire'), Opens(wire[m])' PROVE m = n
    <3>1. m + 1 \in 1 .. L /\ Opens(wire[m + 1])
      BY <1>1, <2>3 DEF Opens
    <3>2. m + 1 = n + 1
      BY <1>2, <2>1, <3>1
    <3> QED BY <3>2
  <2> QED BY <1>2, <2>1, <2>2, <2>3
<1>4. server'.up /\ server'.request # "none" => server'.turn = "none"
  BY <1>1, <1>2
<1> QED BY <1>3, <1>4 DEF OneAtATime

\* The app-server answers what it was asked, or does something else.
LEMMA WriteOne ==
  ASSUME IInv, NEW e \in Line, wire' = Append(wire, e), server.up,
         \/ /\ ~Opens(e) /\ server'.request = server.request
            /\ server'.turn = server.turn \/ {server.turn, server'.turn} \subseteq {"going", "over"}
         \/ /\ server.request # "none" /\ server'.request = "none"
            /\ Opens(e) => server'.turn = server.turn
  PROVE  OneAtATime'
<1> DEFINE L == Len(wire)
<1>1. /\ L \in Nat /\ Len(wire') = L + 1
      /\ \A n \in 1 .. L : wire'[n] = wire[n]
      /\ wire'[L + 1] = e
      /\ \A n \in 1 .. Len(wire') : n = L + 1 \/ n \in 1 .. L
  BY WriteLine DEF IInv
<1>2. /\ server.request # "none" => server.turn = "none"
      /\ \A n \in 1 .. L : Opens(wire[n]) =>
           /\ server.request = "none" /\ server.turn = "none"
           /\ \A m \in 1 .. L : Opens(wire[m]) => m = n
  BY DEF IInv, OneAtATime
<1> HIDE DEF L
<1>3. \A n \in 1 .. Len(wire') : Opens(wire[n])' <=> (IF n = L + 1 THEN Opens(e) ELSE Opens(wire[n]))
  BY <1>1 DEF Opens
<1>4. \A n \in 1 .. Len(wire') : Opens(wire[n])' =>
        /\ server'.request = "none" /\ server'.turn = "none"
        /\ \A m \in 1 .. Len(wire') : Opens(wire[m])' => m = n
  <2>1. CASE server.request # "none" /\ server'.request = "none" /\ (Opens(e) => server'.turn = server.turn)
    <3>1. \A n \in 1 .. L : ~Opens(wire[n])
      BY <1>2, <2>1
    <3>2. \A n \in 1 .. Len(wire') : Opens(wire[n])' => n = L + 1 /\ Opens(e)
      BY <1>1, <1>3, <3>1
    <3> QED BY <1>2, <2>1, <3>2
  <2>2. CASE /\ ~Opens(e) /\ server'.request = server.request
             /\ server'.turn = server.turn \/ {server.turn, server'.turn} \subseteq {"going", "over"}
    <3>1. \A n \in 1 .. Len(wire') : Opens(wire[n])' => n \in 1 .. L /\ Opens(wire[n])
      BY <1>1, <1>3, <2>2
    <3>2. (\E n \in 1 .. L : Opens(wire[n])) => server'.turn = server.turn
      BY <1>2, <2>2
    <3> QED BY <1>2, <2>2, <3>1, <3>2
  <2> QED BY <2>1, <2>2
<1>5. server'.up /\ server'.request # "none" => server'.turn = "none"
  BY <1>2
<1> QED BY <1>4, <1>5 DEF OneAtATime

\* With nothing on the wire, only the request counts.
LEMMA OneWhenEmpty ==
  ASSUME wire' = <<>>, server'.up /\ server'.request # "none" => server'.turn = "none"
  PROVE  OneAtATime'
<1>1. Len(wire') = 0 /\ 1 .. 0 = {}
  BY SMT
<1> QED BY <1>1 DEF OneAtATime

-----------------------------------------------------------------------------
\* A process that was just started has told nothing.
LEMMA FreshIsNew ==
  /\ Fresh \in ServerState /\ Gone \in ServerState /\ ~Gone.up
  /\ \A s \in {Fresh, Gone} :
       /\ s.said = NoText /\ s.phase = [i \in Items |-> "unknown"]
       /\ s.parts = [i \in Items |-> 0]
       /\ s.turn = "none" /\ s.request \in {"initialize", "none"}
<1>1. 0 \in 0 .. Whole /\ "unknown" \in Phases /\ NoText \in Texts
  BY CodexStreamAssumption DEF Whole, Phases, Texts
<1>2. Fresh \in ServerState
  BY <1>1 DEF Fresh, ServerState, Requests
<1>3. /\ Gone.up = FALSE /\ Gone.request = "none" /\ Gone.turn = "none" /\ Gone.said = NoText
      /\ Gone.phase = Fresh.phase /\ Gone.parts = Fresh.parts
  BY DEF Fresh, Gone
<1>4. Gone \in ServerState
  BY <1>2 DEF Gone, ServerState, Requests
<1>5. /\ Fresh.request = "initialize" /\ Fresh.turn = "none" /\ Fresh.said = NoText
      /\ Fresh.phase = [i \in Items |-> "unknown"] /\ Fresh.parts = [i \in Items |-> 0]
  BY DEF Fresh
<1> QED BY <1>2, <1>3, <1>4, <1>5

\* The start of a run.
LEMMA BeginStep ==
  ASSUME IInv, NEW resume \in BOOLEAN, NEW rules \in BOOLEAN, Begin(resume, rules)
  PROVE  IInv'
<1>1. /\ server'.said = NoText /\ server'.phase = [i \in Items |-> "unknown"]
      /\ server'.parts = [i \in Items |-> 0]
      /\ server'.turn = "none" /\ server'.request \in {"initialize", "none"}
      /\ server' \in ServerState /\ (pc' = "exec" => ~server'.up)
  <2>1. server' \in {Fresh, Gone} /\ (pc' = "exec" => server' = Gone)
    BY DEF Begin
  <2> QED BY <2>1, FreshIsNew
<1>2. wire' = <<>> /\ response' = NoText /\ shown' = NoText /\ error' = "none" /\ known' = resume
      /\ pc' \in {"exec", "initialize"}
  BY DEF Begin
<1>3. Types'
  BY <1>1, <1>2, CodexStreamAssumption DEF Begin, Types, Waiting, Phases, Texts, Whole
<1>4. LinesAreTrue' /\ InOrder' /\ PhaseComesFirst' /\ LastIsSaid'
  BY <1>1, <1>2, WireEmpty
<1>5. ThreadIsKnown' /\ ExecIsAlone' /\ AnswerIsFinal' /\ OnlyPublicTextIsShown'
  BY <1>1, <1>2 DEF ThreadIsKnown, ExecIsAlone, AnswerIsFinal, OnlyPublicTextIsShown
<1>6. CountIsBehind'
  BY <1>1 DEF Begin, CountIsBehind
<1>7. OneAtATime'
  BY <1>1, <1>2, OneWhenEmpty
<1> QED BY <1>3, <1>4, <1>5, <1>6, <1>7 DEF IInv

\* Its end.
LEMMA CheckStep == ASSUME IInv, Check PROVE IInv'
<1>1. /\ pc' = "idle" /\ wire' = <<>> /\ shown' = NoText
      /\ UNCHANGED <<known, phases, messages, response, error>>
      /\ server' = [server EXCEPT !.up = FALSE]
  BY DEF Check
<1>2. server' \in ServerState /\ ~server'.up
  BY <1>1 DEF IInv, Types, ServerState
<1>3. Types'
  BY <1>1, <1>2 DEF IInv, Types, Texts
<1>4. LinesAreTrue' /\ InOrder' /\ PhaseComesFirst' /\ LastIsSaid'
  BY <1>1, <1>2, WireEmpty DEF Waiting
<1>5. ThreadIsKnown' /\ ExecIsAlone' /\ AnswerIsFinal' /\ OnlyPublicTextIsShown'
  BY <1>1, <1>2 DEF ThreadIsKnown, ExecIsAlone, AnswerIsFinal, OnlyPublicTextIsShown
<1>6. CountIsBehind' /\ OneAtATime'
  BY <1>1, <1>2, OneWhenEmpty DEF IInv, Types, ServerState, CountIsBehind
<1> QED BY <1>3, <1>4, <1>5, <1>6 DEF IInv

\* The steps that send, give up, and those of the clock, of the repository's other
\* users and of a process that reads or dies.
LEMMA QuietStep ==
  ASSUME IInv,
         \/ Send \/ SendFails \/ ServerReads
         \/ TimeOut \/ Disconnected \/ ExecTimesOut \/ DeadlinePasses \/ ServerDies
         \/ \E content \in 0 .. MaxEdits : Edit(content)
         \/ UNCHANGED vars
  PROVE  IInv'
<1>1. /\ UNCHANGED <<known, wire, phases, messages, response, shown>>
      /\ server' = server \/ server' = [server EXCEPT !.up = FALSE]
      /\ \/ UNCHANGED <<pc, error>>
         \/ pc' = "check" /\ error' \in Failures
         \/ pc' = "idle" /\ UNCHANGED error
  BY DEF Send, SendFails, ServerReads, TimeOut, Disconnected, Fail, ExecTimesOut,
         DeadlinePasses, ServerDies, Edit, vars, client, repository, records, Failures
<1>2. /\ server' \in ServerState /\ (server'.up => server.up)
      /\ server'.phase = server.phase /\ server'.parts = server.parts
      /\ server'.turn = server.turn /\ server'.said = server.said
      /\ server'.request = server.request
  BY <1>1 DEF IInv, Types, ServerState
<1>3. Types'
  BY <1>1, <1>2 DEF IInv, Types
<1>4. LinesAreTrue' /\ InOrder' /\ PhaseComesFirst' /\ LastIsSaid'
  BY <1>1, <1>2, WireKept DEF Waiting
<1>5. ThreadIsKnown' /\ ExecIsAlone' /\ OnlyPublicTextIsShown'
  BY <1>1, <1>2 DEF IInv, ThreadIsKnown, ExecIsAlone, OnlyPublicTextIsShown
<1>6. AnswerIsFinal'
  BY <1>1, <1>2 DEF IInv, AnswerIsFinal, Failures
<1>7. CountIsBehind' /\ OneAtATime'
  BY <1>1, <1>2 DEF IInv, CountIsBehind, OneAtATime, Opens
<1> QED BY <1>3, <1>4, <1>5, <1>6, <1>7 DEF IInv

\* exec ends with what it says is its last message.
LEMMA ExecStep ==
  ASSUME IInv, NEW why \in {"none", "busy", "missing", "failed"},
         NEW text \in {NoText} \cup (Items \X {Whole}), ExecEnds(why, text)
  PROVE  IInv'
<1>1. /\ pc = "exec" /\ pc' = "check" /\ error' = why /\ response' = text
      /\ server' = [server EXCEPT !.turn = "over", !.said = text]
      /\ UNCHANGED <<known, wire, phases, messages, shown>>
  BY DEF ExecEnds
<1>2. text \in Texts
  BY CodexStreamAssumption DEF Texts, Whole
<1>3. /\ server' \in ServerState /\ ~server'.up /\ wire' = <<>>
      /\ server'.turn = "over" /\ server'.said = text
      /\ server'.phase = server.phase /\ server'.parts = server.parts
  BY <1>1, <1>2 DEF IInv, Types, ServerState, ExecIsAlone
<1>4. Types'
  BY <1>1, <1>2, <1>3 DEF IInv, Types, Failures
<1>5. LinesAreTrue' /\ InOrder' /\ PhaseComesFirst' /\ LastIsSaid'
  BY <1>1, <1>3, WireEmpty DEF Waiting
<1>6. ThreadIsKnown' /\ ExecIsAlone' /\ AnswerIsFinal' /\ OnlyPublicTextIsShown'
  BY <1>1, <1>3 DEF IInv, ThreadIsKnown, ExecIsAlone, AnswerIsFinal, OnlyPublicTextIsShown
<1>7. CountIsBehind' /\ OneAtATime'
  BY <1>1, <1>3, OneWhenEmpty DEF IInv, CountIsBehind
<1> QED BY <1>4, <1>5, <1>6, <1>7 DEF IInv

-----------------------------------------------------------------------------
\* The line that is read: where it is, and that it is true.
LEMMA HeadIsTrue ==
  ASSUME IInv, CanRead
  PROVE  /\ Head(wire) = wire[1] /\ wire[1] \in Line /\ LineIsTrue(wire[1])
         /\ wire # <<>> /\ pc \in Waiting /\ Tail(wire) \in Seq(Line)
         /\ Len(wire) \in Nat \ {0}
BY ReadLine DEF IInv, CanRead, Receiving, LinesAreTrue, Types

\* Lines that say nothing of a message leave it all as it was.
LEMMA PlainRead ==
  ASSUME IInv, CanRead, wire' = Tail(wire), ~Tells(wire[1]), server' \in ServerState,
         server'.up = server.up, server'.turn = server.turn, server'.phase = server.phase,
         server'.parts = server.parts, server'.said = server.said,
         \/ server'.request = server.request
         \/ Opens(wire[1]) /\ (server'.request = "turn" => known'),
         UNCHANGED <<phases, messages, response, shown>>,
         known' = known \/ known' = TRUE,
         \/ pc' \in Waiting /\ error' = error
         \/ pc' = "check" /\ error' \in Failures
         \/ pc' = "check" /\ error' = error /\ EndsTurn(wire[1])
  PROVE  IInv'
<1>1. /\ wire[1] \in Line /\ LineIsTrue(wire[1]) /\ wire # <<>> /\ pc \in Waiting
      /\ wire' \in Seq(Line) /\ Len(wire) \in Nat \ {0}
  BY HeadIsTrue
<1>2. Types'
  <2>1. error' \in {"none"} \cup Failures /\ pc' \in {"check"} \cup Waiting
    BY DEF IInv, Types
  <2>2. known' \in BOOLEAN /\ (known => known')
    BY DEF IInv, Types
  <2> QED BY <1>1, <2>1, <2>2 DEF IInv, Types
<1>3. ~Public(wire[1])
  BY DEF Public, Tells
<1>4. LinesAreTrue' /\ InOrder' /\ PhaseComesFirst' /\ LastIsSaid'
  <2>1. phases' \in [Items -> Phases] /\ messages' \in [Items -> 0 .. Whole]
    BY <1>2 DEF Types
  <2>2. known => known'
    BY DEF IInv, Types
  <2> QED BY <1>1, <1>3, <2>1, <2>2, ReadKeeps
<1>5. OneAtATime'
  BY <1>1, ReadOne
<1>6. AnswerIsFinal'
  <2>1. ASSUME EndsTurn(wire[1]) PROVE server.turn = "over" /\ response = server.said
    <3>1. \A n \in 1 .. Len(wire) : ~Public(wire[n])
      <4> SUFFICES ASSUME NEW n \in 1 .. Len(wire), Public(wire[n]) PROVE FALSE
        OBVIOUS
      <4>1. Tells(wire[n]) /\ n # 1
        BY <1>3 DEF Public, Tells
      <4>2. 1 < n /\ 1 \in 1 .. Len(wire)
        BY <1>1, <4>1
      <4> QED BY <2>1, <4>1, <4>2 DEF IInv, InOrder
    <3> QED BY <1>1, <2>1, <3>1 DEF IInv, LastIsSaid, LineIsTrue
  <2>2. pc' = "check" /\ error' = "none" => EndsTurn(wire[1])
    BY DEF Failures, Waiting
  <2> QED BY <2>1, <2>2 DEF AnswerIsFinal
<1>7. ExecIsAlone' /\ CountIsBehind' /\ OnlyPublicTextIsShown'
  BY DEF ExecIsAlone, CountIsBehind, OnlyPublicTextIsShown, IInv, Waiting
<1>8. ThreadIsKnown'
  <2>1. server'.up /\ (server'.request = "turn" \/ server'.turn # "none") => known'
    BY DEF IInv, ThreadIsKnown, Types
  <2> QED BY <2>1 DEF ThreadIsKnown
<1> QED BY <1>2, <1>4, <1>5, <1>6, <1>7, <1>8 DEF IInv

\* Lines that say nothing of a message: answers, requests, the end of the turn,
\* and what is of other threads.
LEMMA PlainStep ==
  ASSUME IInv, Answer \/ Refused \/ RefuseRequest \/ Skip \/ TurnOver
  PROVE  IInv'
<1>1. CanRead /\ wire' = Tail(wire)
  BY DEF Answer, Refused, RefuseRequest, Skip, TurnOver, Consume
<1>2. Head(wire) = wire[1] /\ LineIsTrue(wire[1]) /\ pc \in Waiting
  BY <1>1, HeadIsTrue
<1>3. server \in ServerState
  BY DEF IInv, Types
<1>4. CASE Answer
  <2>1. Opens(wire[1]) \/ wire[1].kind = "accepted"
    BY <1>2, <1>4 DEF Answer, Opens
  <2>2. ~Tells(wire[1])
    BY <2>1 DEF Opens, Tells
  <2>3. /\ UNCHANGED <<phases, messages, response, shown, error>>
        /\ pc' \in Waiting /\ (known' = known \/ known' = TRUE)
    BY <1>4 DEF Answer, Waiting
  <2>4. \/ server' = server
        \/ Opens(wire[1]) /\ server' = [server EXCEPT !.request = "open"]
        \/ Opens(wire[1]) /\ server' = [server EXCEPT !.request = "turn"] /\ known' = TRUE
    BY <1>2, <1>4 DEF Answer, Opens
  <2>5. /\ server' \in ServerState
        /\ server'.up = server.up /\ server'.turn = server.turn /\ server'.phase = server.phase
        /\ server'.parts = server.parts /\ server'.said = server.said
        /\ \/ server'.request = server.request
           \/ Opens(wire[1]) /\ (server'.request = "turn" => known' = TRUE)
    BY <1>3, <2>4 DEF ServerState, Requests
  <2> QED BY <1>1, <2>2, <2>3, <2>5, PlainRead
<1>5. CASE Refused
  <2>1. ~Tells(wire[1]) /\ pc' = "check" /\ error' \in Failures
        /\ UNCHANGED <<known, phases, messages, response, shown, server>>
    BY <1>2, <1>5 DEF Refused, Fail, Failures, Tells
  <2> QED BY <1>1, <1>3, <2>1, PlainRead
<1>6. CASE RefuseRequest
  <2>1. ~Tells(wire[1]) /\ pc' = pc /\ error' = error
        /\ UNCHANGED <<known, phases, messages, response, shown, server>>
    BY <1>2, <1>6 DEF RefuseRequest, client, Tells
  <2> QED BY <1>1, <1>2, <1>3, <2>1, PlainRead
<1>7. CASE Skip
  <2>1. /\ pc' = pc /\ error' = error
        /\ UNCHANGED <<known, phases, messages, response, shown, server>>
    BY <1>7 DEF Skip, client
  <2>2. ~Tells(wire[1])
    BY <1>2, <1>7 DEF Skip, Mine, Tells, LineIsTrue
  <2> QED BY <1>1, <1>2, <1>3, <2>1, <2>2, PlainRead
<1>8. CASE TurnOver
  <2>1. EndsTurn(wire[1]) /\ UNCHANGED <<known, phases, messages, response, shown, server>>
    BY <1>2, <1>8 DEF TurnOver, EndsTurn
  <2>2. ~Tells(wire[1])
    BY <2>1 DEF EndsTurn, Tells
  <2>3. \/ pc' \in Waiting /\ error' = error
        \/ pc' = "check" /\ error' \in Failures
        \/ pc' = "check" /\ error' = error
    BY <1>2, <1>8 DEF TurnOver, Fail, Failures
  <2> QED BY <1>1, <1>3, <2>1, <2>2, <2>3, PlainRead
<1> QED BY <1>4, <1>5, <1>6, <1>7, <1>8

\* The line is about a message of this run.
LEMMA MineIsTold ==
  ASSUME IInv, CanRead, Mine, Head(wire).kind \in {"started", "delta", "completed"}
  PROVE  /\ Tells(wire[1]) /\ wire[1].item \in Items
         /\ server.phase[wire[1].item] \in {"commentary", "final"}
         /\ wire[1].n \in 0 .. Whole
<1>1. Head(wire) = wire[1] /\ LineIsTrue(wire[1]) /\ wire[1] \in Line
  BY HeadIsTrue
<1>2. Tells(wire[1])
  BY <1>1 DEF Mine, Tells
<1>3. server.phase[wire[1].item] \in Phases
  BY <1>1, <1>2 DEF LineIsTrue, IInv, Types, ServerState
<1> QED BY <1>1, <1>2, <1>3 DEF LineIsTrue, Line, Phases

\* Lines about a message count what they tell and no more.
LEMMA ToldRead ==
  ASSUME IInv, CanRead, wire' = Tail(wire), Tells(wire[1]), UNCHANGED <<pc, known, error, server>>,
         phases' = phases \/ phases' = [phases EXCEPT ![wire[1].item] = server.phase[wire[1].item]],
         wire[1].kind = "started" => phases' # phases \/ phases[wire[1].item] = server.phase[wire[1].item],
         messages' \in [Items -> 0 .. Whole],
         \A i \in Items : messages'[i] = messages[i] \/
           /\ wire[1].item = i
           /\ \/ wire[1].kind = "delta" /\ messages'[i] <= wire[1].n
              \/ wire[1].kind = "completed",
         response' = IF Public(wire[1]) THEN <<wire[1].item, Whole>> ELSE response,
         \/ shown' = shown
         \/ shown' \in Texts /\ server.phase[shown'[1]] = "final" /\ shown'[2] <= server.parts[shown'[1]]
  PROVE  IInv'
<1>1. /\ wire[1] \in Line /\ LineIsTrue(wire[1]) /\ wire # <<>> /\ pc \in Waiting
      /\ wire' \in Seq(Line) /\ wire[1].item \in Items
  BY HeadIsTrue DEF LineIsTrue
<1>2. /\ phases' \in [Items -> Phases]
      /\ \A i \in Items : phases'[i] \in {phases[i], server.phase[i]}
      /\ wire[1].kind = "started" => phases'[wire[1].item] = server.phase[wire[1].item]
  <2>1. phases \in [Items -> Phases] /\ server.phase \in [Items -> Phases]
    BY DEF IInv, Types, ServerState
  <2> QED BY <1>1, <2>1
<1>3. response' \in Texts
  BY <1>1, CodexStreamAssumption DEF Texts, Whole, IInv, Types
<1>4. Types'
  BY <1>1, <1>2, <1>3 DEF IInv, Types
<1>5. LinesAreTrue' /\ InOrder' /\ PhaseComesFirst' /\ LastIsSaid'
  <2>1. /\ server'.up = server.up /\ server'.phase = server.phase /\ server'.parts = server.parts
        /\ server'.turn = server.turn /\ server'.said = server.said /\ (known => known')
    OBVIOUS
  <2> QED BY <1>1, <1>2, <2>1, ReadKeeps
<1>6. OneAtATime'
  BY <1>1, ReadOne
<1>7. CountIsBehind'
  <2> SUFFICES ASSUME NEW i \in Items PROVE messages'[i] <= server.parts[i]
    BY DEF CountIsBehind
  <2>1. messages[i] <= server.parts[i] /\ messages'[i] \in Nat /\ server.parts[i] \in Nat
        /\ messages'[i] <= Whole
    BY CodexStreamAssumption DEF IInv, CountIsBehind, Types, ServerState, Whole
  <2>2. wire[1].n \in Nat
    BY <1>1, CodexStreamAssumption DEF Line, Whole
  <2> QED BY <1>1, <2>1, <2>2 DEF LineIsTrue, Whole
<1>8. ThreadIsKnown' /\ ExecIsAlone' /\ AnswerIsFinal'
  BY <1>1 DEF IInv, ThreadIsKnown, ExecIsAlone, AnswerIsFinal, Waiting
<1>9. OnlyPublicTextIsShown'
  BY DEF IInv, OnlyPublicTextIsShown
<1> QED BY <1>4, <1>5, <1>6, <1>7, <1>8, <1>9 DEF IInv

\* A message is started: its phase is learnt.
LEMMA StartedStep == ASSUME IInv, ItemStarted PROVE IInv'
<1>1. /\ CanRead /\ Mine /\ Head(wire).kind = "started" /\ wire' = Tail(wire)
      /\ phases' = [phases EXCEPT ![Head(wire).item] = server.phase[Head(wire).item]]
      /\ UNCHANGED <<pc, known, messages, response, shown, error, server>>
  BY DEF ItemStarted, Consume
<1>2. Head(wire) = wire[1]
  BY <1>1, HeadIsTrue
<1>3. Tells(wire[1]) /\ wire[1].item \in Items /\ ~Public(wire[1])
  BY <1>1, <1>2, MineIsTold DEF Public
<1>4. messages' \in [Items -> 0 .. Whole] /\ phases \in [Items -> Phases]
  BY <1>1 DEF IInv, Types
<1>5. phases' # phases \/ phases[wire[1].item] = server.phase[wire[1].item]
  BY <1>1, <1>2, <1>3, <1>4
<1> QED BY <1>1, <1>2, <1>3, <1>4, <1>5, ToldRead

\* A message is completed: a public one is the answer so far.
LEMMA CompletedStep == ASSUME IInv, ItemCompleted PROVE IInv'
<1>1. /\ CanRead /\ Mine /\ Head(wire).kind = "completed" /\ wire' = Tail(wire)
      /\ phases' = [phases EXCEPT ![Head(wire).item] = server.phase[Head(wire).item]]
      /\ UNCHANGED <<pc, known, error, server>>
  BY DEF ItemCompleted, Consume
<1>2. Head(wire) = wire[1] /\ LineIsTrue(wire[1])
  BY <1>1, HeadIsTrue
<1>3. Tells(wire[1]) /\ wire[1].item \in Items /\ server.parts[wire[1].item] = Whole
  BY <1>1, <1>2, MineIsTold DEF LineIsTrue
<1>4. messages \in [Items -> 0 .. Whole] /\ Whole \in 1 .. Whole /\ Whole \in 0 .. Whole
  BY CodexStreamAssumption DEF IInv, Types, Whole
<1>5. CASE server.phase[wire[1].item] = "commentary" /\ UNCHANGED <<messages, response, shown>>
  <2>1. ~Public(wire[1])
    BY <1>5 DEF Public
  <2>2. messages' \in [Items -> 0 .. Whole] /\ wire[1].kind # "started"
    BY <1>1, <1>2, <1>4, <1>5
  <2> QED BY <1>1, <1>2, <1>3, <1>5, <2>1, <2>2, ToldRead
<1>6. CASE /\ server.phase[wire[1].item] = "final"
           /\ messages' = [messages EXCEPT ![wire[1].item] = Whole]
           /\ response' = <<wire[1].item, Whole>> /\ shown' = <<wire[1].item, Whole>>
  <2>1. Public(wire[1]) /\ wire[1].kind = "completed"
    BY <1>1, <1>2, <1>3, <1>6 DEF Public, Tells
  <2>2. messages' \in [Items -> 0 .. Whole]
        /\ \A i \in Items : messages'[i] = messages[i] \/ wire[1].item = i
    BY <1>3, <1>4, <1>6
  <2>3. shown' \in Texts /\ server.phase[shown'[1]] = "final" /\ shown'[2] <= server.parts[shown'[1]]
    BY <1>3, <1>4, <1>6 DEF Texts
  <2> QED BY <1>1, <1>2, <1>3, <1>6, <2>1, <2>2, <2>3, ToldRead
<1> QED BY <1>2, <1>5, <1>6 DEF ItemCompleted

\* A delta: it is counted unless it is of commentary, which is known by then.
LEMMA DeltaStep == ASSUME IInv, Delta PROVE IInv'
<1>1. /\ CanRead /\ Mine /\ Head(wire).kind = "delta" /\ wire' = Tail(wire)
      /\ UNCHANGED <<pc, known, phases, response, error, server>>
  BY DEF Delta, Consume
<1>2. Head(wire) = wire[1] /\ LineIsTrue(wire[1]) /\ 1 \in 1 .. Len(wire)
  BY <1>1, HeadIsTrue
<1>3. /\ Tells(wire[1]) /\ wire[1].item \in Items /\ wire[1].n \in 0 .. Whole
      /\ server.phase[wire[1].item] \in {"commentary", "final"}
      /\ ~Public(wire[1]) /\ wire[1].kind = "delta"
  BY <1>1, <1>2, MineIsTold DEF Public
<1>4. phases[wire[1].item] = server.phase[wire[1].item]
  <2>1. PhaseIsTold(wire[1].item, 1 - 1)
    BY <1>2, <1>3 DEF IInv, PhaseComesFirst
  <2>2. 1 .. (1 - 1) = {}
    BY SMT
  <2> QED BY <2>1, <2>2 DEF PhaseIsTold
<1>5. messages \in [Items -> 0 .. Whole] /\ Whole \in Nat /\ server.parts[wire[1].item] \in Nat
  BY <1>3, CodexStreamAssumption DEF IInv, Types, ServerState, Whole
<1>6. CASE phases[wire[1].item] = "commentary" /\ UNCHANGED <<messages, shown>>
  <2>1. messages' \in [Items -> 0 .. Whole]
    BY <1>5, <1>6
  <2> QED BY <1>1, <1>2, <1>3, <1>6, <2>1, ToldRead
<1>7. CASE /\ phases[wire[1].item] # "commentary"
           /\ messages' = [messages EXCEPT ![wire[1].item] = @ + 1]
           /\ shown' = <<wire[1].item, messages[wire[1].item] + 1>>
  <2>1. /\ server.phase[wire[1].item] = "final" /\ messages[wire[1].item] < wire[1].n
        /\ wire[1].n <= server.parts[wire[1].item]
    BY <1>2, <1>3, <1>4, <1>7 DEF LineIsTrue
  <2>2. /\ messages[wire[1].item] + 1 <= wire[1].n
        /\ messages[wire[1].item] + 1 <= server.parts[wire[1].item]
        /\ messages[wire[1].item] + 1 \in 0 .. Whole /\ messages[wire[1].item] + 1 \in 1 .. Whole
    BY <1>3, <1>5, <2>1
  <2>3. /\ messages' \in [Items -> 0 .. Whole]
        /\ \A i \in Items : messages'[i] = messages[i] \/
              (wire[1].item = i /\ messages'[i] <= wire[1].n)
    BY <1>3, <1>5, <1>7, <2>2
  <2>4. shown' \in Texts /\ server.phase[shown'[1]] = "final" /\ shown'[2] <= server.parts[shown'[1]]
    BY <1>3, <1>7, <2>1, <2>2 DEF Texts
  <2> QED BY <1>1, <1>2, <1>3, <2>3, <2>4, ToldRead
<1>8. \/ phases[Head(wire).item] = "commentary" /\ UNCHANGED <<messages, shown>>
      \/ /\ phases[Head(wire).item] # "commentary"
         /\ messages' = [messages EXCEPT ![Head(wire).item] = @ + 1]
         /\ shown' = <<Head(wire).item, messages[Head(wire).item] + 1>>
  BY DEF Delta
<1> QED BY <1>2, <1>6, <1>7, <1>8

-----------------------------------------------------------------------------
\* What the app-server writes next is told of a turn that goes on, or of none.
LEMMA ServerKeeps ==
  ASSUME IInv, NEW e \in Line, Emit(e), server' \in ServerState,
         server'.up = server.up,
         \A i \in Items :
           /\ server.phase[i] # "unknown" => server'.phase[i] = server.phase[i]
           /\ server.phase[i] = "unknown" /\ server'.phase[i] # "unknown" =>
                Tells(e) /\ e.kind = "started" /\ e.item = i
           /\ server.parts[i] <= server'.parts[i],
         server'.said = IF Public(e)' THEN <<e.item, Whole>> ELSE server.said,
         \/ server.turn = "going" /\ server'.turn \in {"going", "over"}
         \/ server.turn # "going" /\ ~Tells(e) /\ server'.said = server.said
              /\ (server.turn = "over" => server'.turn = "over"),
         LineIsTrue(e)',
         Tells(e) /\ e.kind = "delta" => /\ server.phase[e.item] # "unknown"
                                         /\ server.parts[e.item] < e.n
                                         /\ server.parts[e.item] < Whole,
         \/ /\ ~Opens(e) /\ server'.request = server.request
            /\ server'.turn = server.turn \/ {server.turn, server'.turn} \subseteq {"going", "over"}
         \/ /\ server.request # "none" /\ server'.request = "none"
            /\ Opens(e) => server'.turn = server.turn,
         server'.up /\ (server'.request = "turn" \/ server'.turn # "none") => known
  PROVE  IInv'
<1>1. /\ wire' = Append(wire, e) /\ server.up
      /\ UNCHANGED <<pc, known, phases, messages, response, shown, error>>
  BY DEF Emit, client
<1>2. server \in ServerState /\ Types'
  BY <1>1, WriteLine DEF IInv, Types
<1>3. server'.phase \in [Items -> Phases] /\ server'.parts \in [Items -> 0 .. Whole]
  BY DEF ServerState
<1>4. /\ server.turn = "over" => server'.turn = "over"
      /\ Tells(e) => server.turn # "over"
  OBVIOUS
<1>5. LinesAreTrue' /\ InOrder' /\ PhaseComesFirst' /\ LastIsSaid'
  BY <1>1, <1>3, <1>4, WriteKeeps
<1>6. OneAtATime'
  BY <1>1, WriteOne
<1>7. CountIsBehind'
  <2> SUFFICES ASSUME NEW i \in Items PROVE messages[i] <= server'.parts[i]
    BY <1>1 DEF CountIsBehind
  <2>1. messages[i] \in Nat /\ server.parts[i] \in Nat /\ server'.parts[i] \in Nat
    BY <1>2, CodexStreamAssumption DEF IInv, Types, ServerState, Whole
  <2> QED BY <2>1 DEF IInv, CountIsBehind
<1>8. ThreadIsKnown'
  BY <1>1 DEF ThreadIsKnown
<1>9. ExecIsAlone' /\ AnswerIsFinal'
  BY <1>1 DEF IInv, ExecIsAlone, AnswerIsFinal
<1>10. OnlyPublicTextIsShown'
  <2> SUFFICES ASSUME shown # NoText
               PROVE  server'.phase[shown[1]] = "final" /\ shown[2] <= server'.parts[shown[1]]
    BY <1>1 DEF OnlyPublicTextIsShown
  <2>1. shown[1] \in Items /\ shown[2] \in 1 .. Whole
    BY DEF IInv, Types, Texts
  <2>2. server.phase[shown[1]] = "final" /\ shown[2] <= server.parts[shown[1]]
    BY DEF IInv, OnlyPublicTextIsShown
  <2>3. server.parts[shown[1]] \in Nat /\ server'.parts[shown[1]] \in Nat /\ shown[2] \in Nat
    BY <1>2, <2>1, CodexStreamAssumption DEF ServerState, Whole
  <2>4. server.parts[shown[1]] <= server'.parts[shown[1]]
        /\ server'.phase[shown[1]] = server.phase[shown[1]]
    BY <2>1, <2>2
  <2> QED BY <2>2, <2>3, <2>4
<1> QED BY <1>2, <1>5, <1>6, <1>7, <1>8, <1>9, <1>10 DEF IInv

\* It answers.
LEMMA AnswersStep == ASSUME IInv, ServerAnswers PROVE IInv'
<1>1. PICK kind \in Kinds :
        /\ Emit(Plain(kind)) /\ server.request # "none"
        /\ server' = [server EXCEPT !.request = "none",
                                    !.turn = IF kind = "accepted" THEN "going" ELSE @]
        /\ kind \in {"initialized", "opened", "accepted", "unsafe", "busy", "missing", "failed"}
        /\ kind = "accepted" => server.request \notin {"initialize", "open"}
  BY DEF ServerAnswers, Kinds
<1>2. server \in ServerState /\ server.up
  BY <1>1 DEF IInv, Types, Emit
<1>3. server.turn = "none" /\ (kind = "accepted" => known)
  BY <1>1, <1>2 DEF IInv, OneAtATime, ThreadIsKnown, ServerState, Requests
<1> DEFINE e == Plain(kind)
<1>4. e \in Line /\ e.kind = kind
  BY CodexStreamAssumption DEF Plain, Event, Line, Whole
<1>5. ~Tells(e) /\ ~EndsTurn(e) /\ (Opens(e) => kind # "accepted") /\ Emit(e)
  BY <1>1, <1>4 DEF Tells, EndsTurn, Opens
<1> HIDE DEF e
<1>6. /\ server' \in ServerState /\ server'.up = server.up /\ server'.request = "none"
      /\ server'.turn = IF kind = "accepted" THEN "going" ELSE server.turn
      /\ server'.phase = server.phase /\ server'.parts = server.parts
      /\ server'.said = server.said
  BY <1>1, <1>2 DEF ServerState, Requests
<1>7. LineIsTrue(e)' /\ ~Public(e)'
  BY <1>4, <1>5 DEF LineIsTrue, EndsTurn, Tells, Public
<1>8. \A i \in Items : server.parts[i] <= server'.parts[i]
  BY <1>2, <1>6, CodexStreamAssumption DEF ServerState, Whole
<1>9. server'.up /\ (server'.request = "turn" \/ server'.turn # "none") => known
  BY <1>3, <1>6
<1> QED BY <1>1, <1>3, <1>4, <1>5, <1>6, <1>7, <1>8, <1>9, ServerKeeps

\* It asks, or ends the turn, or tells of other things.
LEMMA OthersStep ==
  ASSUME IInv, ServerTells \/ \E kind \in {"over", "broken"} : ServerEndsTurn(kind)
  PROVE  IInv'
<1>1. PICK e \in Line :
        /\ Emit(e) /\ ~Tells(e) /\ ~Opens(e)
        /\ \/ server' = server /\ ~EndsTurn(e)
           \/ server.turn = "going" /\ server' = [server EXCEPT !.turn = "over"]
  <2>1. CASE ServerTells
    <3>1. Plain("ask") \in Line /\ Plain("ask").kind = "ask"
      BY CodexStreamAssumption DEF Plain, Event, Line, Kinds, Whole
    <3>2. \A i \in Items : /\ Event("completed", FALSE, i, Whole) \in Line
                          /\ Event("completed", FALSE, i, Whole).own = FALSE
                          /\ Event("completed", FALSE, i, Whole).kind = "completed"
      BY CodexStreamAssumption DEF Event, Line, Kinds, Whole
    <3> QED BY <2>1, <3>1, <3>2 DEF ServerTells, Tells, Opens, EndsTurn
  <2>2. CASE \E kind \in {"over", "broken"} : ServerEndsTurn(kind)
    <3>1. \A kind \in {"over", "broken"} : Plain(kind) \in Line /\ Plain(kind).kind = kind
      BY CodexStreamAssumption DEF Plain, Event, Line, Kinds, Whole
    <3> QED BY <2>2, <3>1 DEF ServerEndsTurn, Going, Tells, Opens
  <2> QED BY <2>1, <2>2
<1>2. server \in ServerState /\ server.up
  BY <1>1 DEF IInv, Types, Emit
<1>3. /\ server' \in ServerState /\ server'.up = server.up /\ server'.request = server.request
      /\ \/ server'.turn = server.turn /\ ~EndsTurn(e)
         \/ server.turn = "going" /\ server'.turn = "over"
      /\ server'.phase = server.phase /\ server'.parts = server.parts
      /\ server'.said = server.said
  BY <1>1, <1>2 DEF ServerState
<1>4. server.turn \in {"none", "going", "over"}
  BY <1>2 DEF ServerState
<1>5. LineIsTrue(e)' /\ ~Public(e)'
  <2>1. EndsTurn(e) => server'.turn = "over"
    BY <1>3
  <2> QED BY <1>1, <2>1 DEF LineIsTrue, EndsTurn, Tells, Public
<1>6. \A i \in Items : server.parts[i] <= server'.parts[i]
  BY <1>2, <1>3, CodexStreamAssumption DEF ServerState, Whole
<1>7. server'.up /\ (server'.request = "turn" \/ server'.turn # "none") => known
  BY <1>2, <1>3 DEF IInv, ThreadIsKnown
<1>8. /\ \/ server.turn = "going" /\ server'.turn \in {"going", "over"}
         \/ /\ server.turn # "going" /\ ~Tells(e) /\ server'.said = server.said
            /\ server.turn = "over" => server'.turn = "over"
      /\ server'.turn = server.turn \/ {server.turn, server'.turn} \subseteq {"going", "over"}
  BY <1>1, <1>3, <1>4
<1> QED BY <1>1, <1>3, <1>5, <1>6, <1>7, <1>8, ServerKeeps

\* It tells of a message of a turn that goes on.
LEMMA MessagesStep ==
  ASSUME IInv, NEW i \in Items,
         \/ ServerWrites(i) \/ ServerCompletes(i)
         \/ \E p \in {"commentary", "final"} : ServerStarts(i, p)
  PROVE  IInv'
<1>1. /\ server \in ServerState /\ Whole \in Nat /\ MaxParts \in Nat /\ Whole = MaxParts + 1
      /\ server.parts \in [Items -> 0 .. Whole] /\ server.phase \in [Items -> Phases]
  BY CodexStreamAssumption DEF IInv, Types, ServerState, Whole
<1>2. server.turn = "going" /\ server.up /\ known
  BY <1>1 DEF ServerWrites, ServerCompletes, ServerStarts, Going, Emit, IInv, ThreadIsKnown
<1>3. \A kind \in {"started", "delta", "completed"}, n \in 0 .. Whole :
        LET e == Event(kind, TRUE, i, n) IN
        /\ e \in Line /\ Tells(e) /\ ~EndsTurn(e) /\ ~Opens(e)
        /\ e.kind = kind /\ e.item = i /\ e.n = n /\ e.own = TRUE
  BY DEF Event, Line, Kinds, Tells, EndsTurn, Opens
<1>4. CASE \E p \in {"commentary", "final"} : ServerStarts(i, p)
  <2>1. PICK p \in {"commentary", "final"} : ServerStarts(i, p)
    BY <1>4
  <2>2. PICK e : e = Event("started", TRUE, i, 0)
    OBVIOUS
  <2>3. /\ e \in Line /\ Tells(e) /\ ~EndsTurn(e) /\ ~Opens(e)
        /\ e.kind = "started" /\ e.item = i
    <3>1. 0 \in 0 .. Whole
      BY <1>1
    <3> QED BY <1>3, <2>2, <3>1
  <2>4. Emit(e) /\ server' = [server EXCEPT !.phase[i] = p] /\ server.phase[i] = "unknown"
    BY <2>1, <2>2 DEF ServerStarts
  <2>5. /\ server' \in ServerState /\ server'.up = server.up /\ server'.request = server.request
        /\ server'.turn = server.turn /\ server'.parts = server.parts /\ server'.said = server.said
        /\ server'.phase = [server.phase EXCEPT ![i] = p]
    BY <1>1, <2>4 DEF ServerState, Phases
  <2>6. LineIsTrue(e)' /\ ~Public(e)'
    BY <1>1, <1>2, <2>3, <2>4, <2>5 DEF LineIsTrue, Emit, client, EndsTurn, Tells, Public
  <2>7. \A j \in Items :
          /\ server.phase[j] # "unknown" => server'.phase[j] = server.phase[j]
          /\ server.phase[j] = "unknown" /\ server'.phase[j] # "unknown" => e.item = j
          /\ server.parts[j] <= server'.parts[j]
    <3> SUFFICES ASSUME NEW j \in Items
                 PROVE  /\ server.phase[j] # "unknown" => server'.phase[j] = server.phase[j]
                        /\ server.phase[j] = "unknown" /\ server'.phase[j] # "unknown" =>
                             e.item = j
                        /\ server.parts[j] <= server'.parts[j]
      OBVIOUS
    <3>1. server'.phase[j] = IF j = i THEN p ELSE server.phase[j]
      BY <1>1, <2>5
    <3>2. server.phase[i] = "unknown" /\ e.item = i
      BY <2>3, <2>4
    <3>3. server.parts[j] <= server'.parts[j]
      <4>1. server.parts[j] \in 0 .. Whole /\ server'.parts[j] = server.parts[j]
        BY <1>1, <2>5
      <4> QED BY ONLY <4>1, WholeIsCounted
    <3> QED BY ONLY <3>1, <3>2, <3>3
  <2>8. /\ server.turn = "going" /\ server'.turn \in {"going", "over"}
        /\ ~Opens(e) /\ server'.request = server.request /\ server'.turn = server.turn
        /\ server'.said = IF Public(e)' THEN <<e.item, Whole>> ELSE server.said
    BY <1>2, <2>3, <2>5, <2>6
  <2> QED BY <1>2, <2>3, <2>4, <2>5, <2>6, <2>7, <2>8, ServerKeeps
<1>5. CASE ServerWrites(i)
  <2>1. PICK e : e = Event("delta", TRUE, i, server.parts[i] + 1)
    OBVIOUS
  <2>2. /\ server.parts[i] < MaxParts /\ server.phase[i] # "unknown"
        /\ Emit(e) /\ server' = [server EXCEPT !.parts[i] = @ + 1]
    BY <1>5, <2>1 DEF ServerWrites
  <2>3. server.parts[i] + 1 \in 0 .. Whole /\ server.parts[i] < server.parts[i] + 1
        /\ server.parts[i] < Whole
    BY <1>1, <2>2
  <2>4. /\ e \in Line /\ Tells(e) /\ ~EndsTurn(e) /\ ~Opens(e)
        /\ e.kind = "delta" /\ e.item = i /\ e.n = server.parts[i] + 1
    BY <1>3, <2>1, <2>3
  <2>5. /\ server' \in ServerState /\ server'.up = server.up /\ server'.request = server.request
        /\ server'.turn = server.turn /\ server'.phase = server.phase /\ server'.said = server.said
        /\ server'.parts = [server.parts EXCEPT ![i] = server.parts[i] + 1]
    BY <1>1, <2>2, <2>3 DEF ServerState
  <2>6. messages[i] <= server.parts[i] /\ messages[i] \in Nat /\ server.parts[i] \in Nat
    BY <1>1 DEF IInv, Types, CountIsBehind
  <2>7. messages' = messages /\ known' = known
    BY <2>2 DEF Emit, client
  <2>8. messages'[i] < e.n /\ server'.parts[i] = e.n
    BY <1>1, <2>4, <2>5, <2>6, <2>7
  <2>9. e.n <= server'.parts[i]
    BY <2>4, <2>6, <2>8
  <2>10. LineIsTrue(e)' /\ ~Public(e)'
    BY <1>2, <2>2, <2>4, <2>5, <2>7, <2>8, <2>9 DEF LineIsTrue, EndsTurn, Tells, Public
  <2>11. \A j \in Items : server.parts[j] <= server'.parts[j]
    BY <1>1, <2>5
  <2> QED BY <1>2, <2>2, <2>3, <2>4, <2>5, <2>10, <2>11, ServerKeeps
<1>6. CASE ServerCompletes(i)
  <2>1. PICK e : e = Event("completed", TRUE, i, Whole)
    OBVIOUS
  <2>2. /\ server.phase[i] # "unknown" /\ Emit(e)
        /\ server' = [server EXCEPT !.parts[i] = Whole,
             !.said = IF server.phase[i] = "final" THEN <<i, Whole>> ELSE @]
    BY <1>6, <2>1 DEF ServerCompletes
  <2>3. /\ e \in Line /\ Tells(e) /\ ~EndsTurn(e) /\ ~Opens(e)
        /\ e.kind = "completed" /\ e.item = i /\ e.own = TRUE
    <3>1. Whole \in 0 .. Whole
      BY <1>1
    <3> QED BY <1>3, <2>1, <3>1
  <2>4. <<i, Whole>> \in Texts /\ Whole \in 0 .. Whole
    BY <1>1 DEF Texts
  <2>5. /\ server' \in ServerState /\ server'.up = server.up /\ server'.request = server.request
        /\ server'.turn = server.turn /\ server'.phase = server.phase
        /\ server'.said = IF server.phase[i] = "final" THEN <<i, Whole>> ELSE server.said
        /\ server'.parts = [server.parts EXCEPT ![i] = Whole]
    BY <1>1, <2>2, <2>4 DEF ServerState
  <2>6. messages' = messages /\ known' = known
    BY <2>2 DEF Emit, client
  <2>7. LineIsTrue(e)' /\ (Public(e)' <=> server.phase[i] = "final")
    BY <1>1, <1>2, <2>2, <2>3, <2>5, <2>6 DEF LineIsTrue, EndsTurn, Tells, Public
  <2>8. \A j \in Items : server.parts[j] <= server'.parts[j]
    BY <1>1, <2>5
  <2>9. server'.said = IF Public(e)' THEN <<e.item, Whole>> ELSE server.said
    BY <2>3, <2>5, <2>7
  <2> QED BY <1>2, <2>2, <2>3, <2>5, <2>7, <2>8, <2>9, ServerKeeps
<1> QED BY <1>4, <1>5, <1>6

-----------------------------------------------------------------------------
\* The empty beginning.
LEMMA InitHolds == Init => IInv
<1> SUFFICES ASSUME Init PROVE IInv
  OBVIOUS
<1>1. /\ server \in ServerState /\ ~server.up /\ server.turn = "none"
      /\ server.parts = [i \in Items |-> 0]
  BY FreshIsNew DEF Init
<1>2. wire = <<>> /\ Len(wire) = 0 /\ 1 .. 0 = {} /\ wire \in Seq(Line)
  BY SMT DEF Init
<1>3. Types
  <2>1. /\ "unknown" \in Phases /\ 0 \in 0 .. Whole /\ NoText \in Texts
    BY CodexStreamAssumption DEF Phases, Texts, Whole
  <2>2. phases \in [Items -> Phases] /\ messages \in [Items -> 0 .. Whole]
    BY <2>1 DEF Init
  <2> QED BY <1>1, <1>2, <2>1, <2>2 DEF Init, Types
<1>4. ThreadIsKnown /\ ExecIsAlone /\ AnswerIsFinal /\ OnlyPublicTextIsShown
  BY <1>1 DEF Init, ThreadIsKnown, ExecIsAlone, AnswerIsFinal, OnlyPublicTextIsShown
<1>5. CountIsBehind
  <2>1. \A i \in Items : messages[i] = 0 /\ server.parts[i] = 0
    BY <1>1 DEF Init
  <2>2. 0 <= 0
    OBVIOUS
  <2> QED BY ONLY <2>1, <2>2, Zenon DEF CountIsBehind
<1>6. OneAtATime /\ LinesAreTrue /\ InOrder /\ PhaseComesFirst /\ LastIsSaid
  BY <1>1, <1>2 DEF Init, OneAtATime, LinesAreTrue, InOrder, PhaseComesFirst, LastIsSaid, Waiting
<1> QED BY <1>3, <1>4, <1>5, <1>6 DEF IInv

\* Every step keeps the invariant.
LEMMA NextHolds == IInv /\ [Next]_vars => IInv'
<1> SUFFICES ASSUME IInv, [Next]_vars PROVE IInv'
  OBVIOUS
<1>1. CASE Read
  BY <1>1, PlainStep, StartedStep, CompletedStep, DeltaStep DEF Read
<1>2. CASE Check
  BY <1>2, CheckStep
<1>3. CASE \E why \in {"none", "busy", "missing", "failed"},
             text \in {NoText} \cup (Items \X {Whole}) : ExecEnds(why, text)
  BY <1>3, ExecStep
<1>4. CASE \/ Send \/ SendFails \/ ServerReads
           \/ TimeOut \/ Disconnected \/ ExecTimesOut \/ DeadlinePasses \/ ServerDies
           \/ (\E content \in 0 .. MaxEdits : Edit(content)) \/ UNCHANGED vars
  BY <1>4, QuietStep
<1>5. CASE ServerAnswers
  BY <1>5, AnswersStep
<1>6. CASE ServerTells \/ \E kind \in {"over", "broken"} : ServerEndsTurn(kind)
  BY <1>6, OthersStep
<1>7. CASE \E i \in Items : \/ ServerWrites(i) \/ ServerCompletes(i)
                           \/ \E p \in {"commentary", "final"} : ServerStarts(i, p)
  BY <1>7, MessagesStep
<1>8. CASE \E resume, rules \in BOOLEAN : Begin(resume, rules)
  BY <1>8, BeginStep
<1> QED BY <1>1, <1>2, <1>3, <1>4, <1>5, <1>6, <1>7, <1>8 DEF Next, Runner, Server

LEMMA InvariantHolds == Spec => []IInv
BY InitHolds, NextHolds, PTL DEF Spec

\* Whatever the app-server writes and in whatever order it is read, the reporter
\* sees only what it says in public in this conversation: no commentary, no other
\* thread, and never more of a message than was told (streaming.py, handle()).
THEOREM OnlyPublicTextIsShownHolds == Spec => []OnlyPublicTextIsShown
<1>1. IInv => OnlyPublicTextIsShown
  BY DEF IInv
<1> QED BY <1>1, InvariantHolds, PTL

\* However a run ends, it tells a changed repository from one that is as it was
\* found, and what it returns as the answer is the last public message its turn
\* completed (codex_runner.py, _run(); streaming.py, run()).
THEOREM EndingsAreTrueHolds == Spec => EndingsAreTrue
<1>1. ASSUME IInv, [Next]_vars, outcome' # outcome, outcome' # "none"
      PROVE  /\ (outcome' = "violation") <=> (tree # before)
             /\ outcome' = "answered" => server.turn = "over" /\ response = server.said
  <2>1. Check \/ ExecTimesOut
    <3>1. \A resume, rules \in BOOLEAN : ~Begin(resume, rules)
      BY <1>1 DEF Begin
    <3> QED BY <1>1, <3>1
         DEF Next, Runner, Server, Read, vars, client, records, repository, Consume, Emit,
             Answer, Refused, RefuseRequest, Skip, ItemStarted, ItemCompleted, Delta, TurnOver,
             Send, SendFails, TimeOut, Disconnected, ExecEnds, ServerReads, ServerAnswers,
             ServerTells, ServerDies,
             ServerWrites, ServerCompletes, ServerStarts, ServerEndsTurn, DeadlinePasses, Edit
  <2>2. CASE ExecTimesOut
    BY <2>2 DEF ExecTimesOut
  <2>3. CASE Check
    <3>1. Result # "violation" /\ (Result = "answered" => error = "none")
      BY <1>1 DEF Result, IInv, Types, Failures
    <3>2. \/ tree # before /\ outcome' = "violation"
          \/ tree = before /\ outcome' = Result
      BY <2>3 DEF Check
    <3>3. pc = "check"
      BY <2>3 DEF Check
    <3> QED BY <1>1, <3>1, <3>2, <3>3 DEF IInv, AnswerIsFinal
  <2> QED BY <2>1, <2>2, <2>3
<1>2. IInv /\ [Next]_vars =>
        [outcome' # outcome /\ outcome' # "none" =>
           /\ (outcome' = "violation") <=> (tree # before)
           /\ outcome' = "answered" => server.turn = "over" /\ response = server.said]_vars
  BY <1>1
<1> QED BY <1>2, InvariantHolds, PTL DEF Spec, EndingsAreTrue

\* The rest of the types: what the bounds keep small, and the records of runs.
Sent == {"request", "word"}
Bounded ==
  /\ late \in BOOLEAN /\ Len(wire) <= MaxWire
  /\ out \in Seq(Sent) /\ stdin \in Seq(Sent) /\ Len(stdin) <= MaxPipe
  /\ tree \in 0 .. MaxEdits /\ before \in 0 .. MaxEdits /\ runs \in 0 .. MaxRuns
  /\ outcome \in Outcomes /\ latest \in 0 .. runs

\* What is to be sent is made of requests and words.
LEMMA LinesSent ==
  {<<>>, <<"request">>, <<"word">>, <<"word", "request">>} \subseteq Seq(Sent)
<1>1. "request" \in Sent /\ "word" \in Sent
  BY DEF Sent
<1>2. \A x, y \in Sent : <<x>> \in Seq(Sent) /\ <<x, y>> \in Seq(Sent)
  OBVIOUS
<1>3. <<>> \in Seq(Sent)
  OBVIOUS
<1> QED BY <1>1, <1>2, <1>3

LEMMA BoundedKept == IInv /\ Bounded /\ [Next]_vars => Bounded'
<1> SUFFICES ASSUME IInv, Bounded, [Next]_vars PROVE Bounded'
  OBVIOUS
<1>1. wire \in Seq(Line) /\ error \in {"none"} \cup Failures
  BY DEF IInv, Types
<1>2. /\ Len(<<>>) <= MaxWire /\ Len(wire) \in Nat
      /\ Len(<<>>) <= MaxPipe /\ <<>> \in Seq(Sent)
  BY <1>1, CodexStreamAssumption
<1>3. CASE Read
  <2>1. wire' = Tail(wire) /\ wire # <<>> /\ UNCHANGED <<late, stdin, repository, records>>
    BY <1>3 DEF Read, CanRead, Consume, Answer, Refused, RefuseRequest, Skip, ItemStarted,
               ItemCompleted, Delta, TurnOver
  <2>2. Len(wire') = Len(wire) - 1
    BY <1>1, <2>1
  <2>3. Len(wire') <= MaxWire
    BY <1>2, <2>2, CodexStreamAssumption DEF Bounded
  <2>4. out' \in {out, <<"word", "request">>, <<"request">>, <<"word">>}
    BY <1>3 DEF Read, Answer, Refused, RefuseRequest, Skip, ItemStarted, ItemCompleted,
               Delta, TurnOver
  <2>5. out' \in Seq(Sent)
    BY <2>4, LinesSent DEF Bounded
  <2> QED BY <2>1, <2>3, <2>5 DEF Bounded, repository, records
<1>4. CASE Check \/ ExecTimesOut
  <2>1. Result \in Outcomes /\ "violation" \in Outcomes /\ "timed out" \in Outcomes
    BY <1>1 DEF Result, Outcomes, Failures
  <2>2. /\ wire' = <<>> \/ wire' = wire
        /\ outcome' \in {Result, "violation", "timed out"}
        /\ latest' \in {latest, runs}
        /\ out' = <<>> \/ out' = out
        /\ stdin' = <<>> \/ stdin' = stdin
        /\ UNCHANGED <<late, tree, before, runs>>
    BY <1>4 DEF Check, ExecTimesOut, repository, pipe
  <2>3. runs \in 0 .. runs
    BY CodexStreamAssumption DEF Bounded
  <2>4. /\ Len(wire') <= MaxWire /\ Len(stdin') <= MaxPipe
        /\ out' \in Seq(Sent) /\ stdin' \in Seq(Sent)
    BY <1>2, <2>2 DEF Bounded
  <2>5. outcome' \in Outcomes /\ latest' \in 0 .. runs'
    BY <2>1, <2>2, <2>3 DEF Bounded
  <2> QED BY <2>2, <2>4, <2>5 DEF Bounded
<1>5. CASE \E e : Emit(e)
  <2>1. PICK e : /\ Len(wire) < MaxWire /\ wire' = Append(wire, e)
                 /\ UNCHANGED <<late, out, stdin, repository, records>>
    BY <1>5 DEF Emit, pipe
  <2>2. Len(wire') = Len(wire) + 1
    BY <1>1, <2>1
  <2>3. Len(wire') <= MaxWire
    BY <1>2, <2>1, <2>2, CodexStreamAssumption
  <2> QED BY <2>1, <2>3 DEF Bounded, repository, records
<1>6. CASE \E resume, rules \in BOOLEAN : Begin(resume, rules)
  <2>1. /\ wire' = <<>> /\ runs < MaxRuns /\ runs' = runs + 1 /\ outcome' = "none"
        /\ before' = tree /\ late' = FALSE /\ UNCHANGED <<tree, latest>>
        /\ out' \in {<<>>, <<"request">>} /\ stdin' = <<>>
    BY <1>6 DEF Begin
  <2>2. runs' \in 0 .. MaxRuns /\ latest' \in 0 .. runs'
    BY <2>1, CodexStreamAssumption DEF Bounded
  <2>3. "none" \in Outcomes /\ out' \in Seq(Sent)
    BY <2>1, LinesSent DEF Outcomes
  <2> QED BY <1>2, <2>1, <2>2, <2>3 DEF Bounded
<1>7. CASE \/ TimeOut \/ Disconnected \/ DeadlinePasses \/ ServerDies \/ UNCHANGED vars
           \/ (\E content \in 0 .. MaxEdits : Edit(content))
           \/ \E why \in {"none", "busy", "missing", "failed"},
                 text \in {NoText} \cup (Items \X {Whole}) : ExecEnds(why, text)
  <2>1. /\ UNCHANGED <<wire, out, stdin, before, runs, outcome, latest>>
        /\ late' = late \/ late' = TRUE
        /\ tree' = tree \/ tree' \in 0 .. MaxEdits
    BY <1>7 DEF TimeOut, Disconnected, DeadlinePasses, ServerDies, Edit, ExecEnds, vars,
               pipe, repository, records
  <2> QED BY <2>1 DEF Bounded
<1>8. CASE Send
  <2>1. /\ out # <<>> /\ Len(stdin) < MaxPipe
        /\ stdin' = Append(stdin, Head(out)) /\ out' = Tail(out)
        /\ UNCHANGED <<late, wire, repository, records>>
    BY <1>8 DEF Send
  <2>2. out \in Seq(Sent) /\ stdin \in Seq(Sent)
    BY DEF Bounded
  <2>3. /\ Head(out) \in Sent /\ out' \in Seq(Sent)
        /\ stdin' \in Seq(Sent) /\ Len(stdin') = Len(stdin) + 1
    BY <2>1, <2>2
  <2>4. Len(stdin') <= MaxPipe
    BY <2>1, <2>2, <2>3, CodexStreamAssumption
  <2> QED BY <2>1, <2>3, <2>4 DEF Bounded, repository, records
<1>9. CASE SendFails
  BY <1>2, <1>9 DEF SendFails, Bounded, repository, records
<1>10. CASE ServerReads
  <2>1. /\ stdin # <<>> /\ stdin' = Tail(stdin)
        /\ UNCHANGED <<late, wire, out, repository, records>>
    BY <1>10 DEF ServerReads
  <2>2. stdin' \in Seq(Sent) /\ Len(stdin') = Len(stdin) - 1 /\ Len(stdin) \in Nat
    BY <2>1 DEF Bounded
  <2>3. Len(stdin') <= MaxPipe
    BY <2>2, CodexStreamAssumption DEF Bounded
  <2> QED BY <2>1, <2>2, <2>3 DEF Bounded, repository, records
<1>11. Server => ServerReads \/ ServerDies \/ \E e : Emit(e)
  BY DEF Server, ServerAnswers, ServerTells, ServerWrites, ServerCompletes,
         ServerStarts, ServerEndsTurn
<1> QED BY <1>3, <1>4, <1>5, <1>6, <1>7, <1>8, <1>9, <1>10, <1>11 DEF Next, Runner

\* Every variable stays in its type, and the wire within its bound.
THEOREM TypeCorrect == Spec => []TypeOK
<1>1. Init => Bounded
  <2>1. /\ Len(<<>>) <= MaxWire /\ Len(<<>>) <= MaxPipe
        /\ 0 \in 0 .. MaxEdits /\ 0 \in 0 .. MaxRuns /\ 0 \in 0 .. 0
    BY CodexStreamAssumption
  <2>2. "none" \in Outcomes /\ <<>> \in Seq(Sent)
    BY LinesSent DEF Outcomes
  <2> QED BY <2>1, <2>2 DEF Init, Bounded
<1>2. IInv /\ Bounded => TypeOK
  BY DEF IInv, Types, Bounded, TypeOK, ServerState
<1> QED BY <1>1, <1>2, BoundedKept, InvariantHolds, PTL DEF Spec
=============================================================================
