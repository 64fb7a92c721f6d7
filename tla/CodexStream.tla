------------------------------- MODULE CodexStream -------------------------------
(***************************************************************************)
(* One analysis of one issue after the other, as codex_runner.py and       *)
(* streaming.py run it: the fingerprint of the repositories before, the    *)
(* conversation with the app-server line by line against one deadline (or  *)
(* the exec command where exec-policy rules are installed), the killing of *)
(* the process, the fingerprint after, and the record latest.json.         *)
(*                                                                         *)
(* The app-server is external. It answers requests in order, and between   *)
(* and after its answers it tells of the thread and of other threads, asks *)
(* for approvals, falls silent, floods, or dies. Its stdin is a pipe: the  *)
(* runner's write waits for room in it, and no deadline is looked at then. *)
(*                                                                         *)
(* A text is <<item, n>>: what n deltas of the item add up to, or, with    *)
(* n = Whole, the text that came with its completion.                      *)
(***************************************************************************)
EXTENDS Naturals, Sequences

CONSTANTS
  Items,        \* the messages a turn may contain
  MaxParts,     \* bound: deltas of one item
  MaxRuns,      \* bound: analyses
  MaxEdits,     \* bound: changes somebody makes to the repository
  MaxWire,      \* bound: lines written by the app-server and not read yet
  MaxPipe       \* lines its stdin holds; the next one waits for room

ASSUME CodexStreamAssumption ==
  /\ {MaxParts, MaxRuns, MaxEdits} \subseteq Nat
  /\ {MaxWire, MaxPipe} \subseteq Nat \ {0}

NoText == <<>>
Whole == MaxParts + 1
Texts == {NoText} \cup (Items \X (1 .. Whole))
Phases == {"unknown", "commentary", "final"}
\* What a run returns: an answer, one of the failures, or SecurityViolation.
Failures == {"timed out", "disconnected", "unsafe", "busy", "missing", "failed"}
Outcomes == {"none", "answered", "violation"} \cup Failures
\* A line of the app-server; own says that it is about the thread of this run.
Event(kind, own, item, n) == [kind |-> kind, own |-> own, item |-> item, n |-> n]
Plain(kind) == Event(kind, TRUE, NoText, 0)
\* The steps of AppServerStream.run that wait for a line.
Waiting == {"initialize", "open", "turn", "loop"}

VARIABLES
  pc,        \* idle, one of Waiting, exec, or check (the finally clauses)
  known,     \* whether thread_id is set
  late,      \* whether the deadline has passed
  wire,      \* lines on stdout, the oldest first
  out,       \* lines the runner has to send before it waits for one
  stdin,     \* lines sent and not read by the app-server
  phases,    \* phases[item_id]
  messages,  \* messages[item_id], as a number of deltas or Whole
  response,
  shown,     \* the text the reporter sees while the run is going on
  error,
  tree,      \* the content of the repositories
  before,    \* its fingerprint when the run began
  runs,
  outcome,   \* the result of the last run
  latest,    \* the run that latest.json tells of, 0 for none
  server     \* the process: see Fresh

client == <<pc, known, phases, messages, response, shown, error>>
pipe == <<out, stdin>>
repository == <<tree, before>>
records == <<runs, outcome, latest>>
vars == <<pc, known, late, wire, out, stdin, phases, messages, response, shown, error,
          tree, before, runs, outcome, latest, server>>

\* The app-server after Popen. request is the one that is made of it and not
\* answered, phase and parts are what it has told of each item, said its last
\* public message.
Fresh == [up |-> TRUE, request |-> "initialize", turn |-> "none",
          phase |-> [i \in Items |-> "unknown"], parts |-> [i \in Items |-> 0],
          said |-> NoText]
Gone == [Fresh EXCEPT !.up = FALSE, !.request = "none"]

Init ==
  /\ pc = "idle" /\ known = FALSE /\ late = FALSE
  /\ wire = <<>> /\ out = <<>> /\ stdin = <<>>
  /\ phases = [i \in Items |-> "unknown"] /\ messages = [i \in Items |-> 0]
  /\ response = NoText /\ shown = NoText /\ error = "none"
  /\ tree = 0 /\ before = 0 /\ runs = 0 /\ outcome = "none" /\ latest = 0
  /\ server = Gone

-----------------------------------------------------------------------------
(* The start of a run, and its end.                                         *)

\* _run: the fingerprints, then the app-server, or exec where rules are installed.
Begin(resume, rules) ==
  /\ pc = "idle" /\ runs < MaxRuns
  /\ runs' = runs + 1 /\ outcome' = "none"
  /\ before' = tree
  /\ pc' = (IF rules THEN "exec" ELSE "initialize")
  /\ server' = (IF rules THEN Gone ELSE Fresh)
  /\ known' = resume /\ late' = FALSE /\ wire' = <<>>
  /\ out' = (IF rules THEN <<>> ELSE <<"request">>) /\ stdin' = <<>>
  /\ phases' = [i \in Items |-> "unknown"] /\ messages' = [i \in Items |-> 0]
  /\ response' = NoText /\ shown' = NoText /\ error' = "none"
  /\ UNCHANGED <<tree, latest>>

\* An exception inside AppServerStream.run.
Fail(why) == pc' = "check" /\ error' = why

\* The result of a run that left the repositories as they were.
Result == IF error = "none" THEN "answered" ELSE error

\* Slip: the fingerprint after is taken for answers only.
CheckAnswersOnly ==
  /\ pc = "check"
  /\ pc' = "idle" /\ server' = [server EXCEPT !.up = FALSE]
  /\ wire' = <<>> /\ out' = <<>> /\ stdin' = <<>> /\ shown' = NoText
  /\ \/ tree # before /\ error = "none" /\ outcome' = "violation" /\ UNCHANGED latest
     \/ (tree = before \/ error # "none") /\ outcome' = Result /\ latest' = runs
  /\ UNCHANGED <<known, late, phases, messages, response, error, repository, runs>>

\* The finally clauses: the process is killed and reaped, the repositories are
\* fingerprinted again, and only then is there a result, with its record.
Check ==
  /\ pc = "check"
  /\ pc' = "idle" /\ server' = [server EXCEPT !.up = FALSE]
  /\ wire' = <<>> /\ out' = <<>> /\ stdin' = <<>> /\ shown' = NoText
  /\ \/ tree # before /\ outcome' = "violation" /\ UNCHANGED latest
     \/ tree = before /\ outcome' = Result /\ latest' = runs
  /\ UNCHANGED <<known, late, phases, messages, response, error, repository, runs>>

\* The exec command ran into its timeout: the result is returned at once.
ExecTimesOut ==
  /\ pc = "exec" /\ pc' = "idle"
  /\ outcome' = (IF tree = before THEN "timed out" ELSE "violation")
  /\ UNCHANGED <<known, late, wire, pipe, phases, messages, response, shown, error,
                 repository, runs, latest, server>>

\* The exec command ended: the answer is its last agent message.
ExecEnds(why, text) ==
  /\ pc = "exec" /\ pc' = "check"
  /\ error' = why /\ response' = text
  /\ server' = [server EXCEPT !.turn = "over", !.said = text]
  /\ UNCHANGED <<known, late, wire, pipe, phases, messages, shown, repository, records>>

-----------------------------------------------------------------------------
(* Writing the lines. A line is a request, or it is a word: the notice that  *)
(* the client is initialized, or the refusal of a request of the server's.   *)

\* send(): the line fits into the pipe. Until it does the runner waits.
Send ==
  /\ out # <<>> /\ server.up /\ Len(stdin) < MaxPipe
  /\ stdin' = Append(stdin, Head(out)) /\ out' = Tail(out)
  /\ UNCHANGED <<client, late, wire, repository, records, server>>

\* send(): BrokenPipeError, also for a write that was waiting.
SendFails ==
  /\ out # <<>> /\ ~server.up /\ Fail("disconnected") /\ out' = <<>>
  /\ UNCHANGED <<known, late, wire, stdin, phases, messages, response, shown,
                 repository, records, server>>

-----------------------------------------------------------------------------
(* Reading the lines. receive() looks at the deadline before every line.    *)

Receiving == pc \in Waiting /\ out = <<>>

\* Slip: the deadline is looked at only when there is nothing to read.
CanReadLate == Receiving /\ wire # <<>>

CanRead == Receiving /\ ~late /\ wire # <<>>

Consume == wire' = Tail(wire) /\ UNCHANGED <<late, stdin, repository, records>>

\* The answers to initialize, thread/start or thread/resume, and turn/start;
\* each is followed by the next request. A policy that is not read-only and
\* never ends the run before a turn starts.
Answer ==
  /\ CanRead /\ Head(wire).kind \in {"initialized", "opened", "accepted"}
  /\ Consume
  /\ CASE Head(wire).kind = "initialized" ->
            /\ pc' = "open" /\ server' = [server EXCEPT !.request = "open"]
            /\ out' = <<"word", "request">> /\ UNCHANGED known
       [] Head(wire).kind = "opened" ->
            /\ pc' = "turn" /\ server' = [server EXCEPT !.request = "turn"]
            /\ out' = <<"request">> /\ known' = TRUE
       [] OTHER -> pc' = "loop" /\ UNCHANGED <<out, known, server>>
  /\ UNCHANGED <<phases, messages, response, shown, error>>

\* An answer that ends the run: an error, or an unconfirmed policy.
Refused ==
  /\ CanRead /\ Head(wire).kind \in {"unsafe", "busy", "missing", "failed"}
  /\ Consume /\ Fail(Head(wire).kind)
  /\ UNCHANGED <<out, known, phases, messages, response, shown, server>>

\* handle(): whatever the server asks for is refused.
RefuseRequest ==
  /\ CanRead /\ Head(wire).kind = "ask"
  /\ Consume /\ out' = <<"word">>
  /\ UNCHANGED <<client, server>>

\* The line is of the thread of this run.
Mine == known /\ Head(wire).own

\* handle(): lines of other threads; lines that only move the activity do as little.
Skip ==
  /\ CanRead
  /\ Head(wire).kind \in {"started", "delta", "completed"} /\ ~Mine
  /\ Consume
  /\ UNCHANGED <<client, out, server>>

\* Slip: item/started is only an activity, the phase is learnt on completion.
ItemStartedForgotten ==
  /\ CanRead /\ Head(wire).kind = "started" /\ Mine
  /\ Consume
  /\ UNCHANGED <<client, out, server>>

\* handle(): item/started of a message.
ItemStarted ==
  /\ CanRead /\ Head(wire).kind = "started" /\ Mine
  /\ Consume
  /\ phases' = [phases EXCEPT ![Head(wire).item] = server.phase[Head(wire).item]]
  /\ UNCHANGED <<pc, known, out, messages, response, shown, error, server>>

\* Slip: the completed text is added to what the deltas add up to.
ItemCompletedAppending ==
  LET i == Head(wire).item IN
  /\ CanRead /\ Head(wire).kind = "completed" /\ Mine
  /\ Consume
  /\ phases' = [phases EXCEPT ![i] = server.phase[i]]
  /\ \/ server.phase[i] = "commentary" /\ UNCHANGED <<messages, response, shown>>
     \/ /\ server.phase[i] = "final"
        /\ messages' = [messages EXCEPT ![i] = @ + Whole]
        /\ response' = <<i, messages'[i]>> /\ shown' = response'
  /\ UNCHANGED <<pc, known, out, error, server>>

\* handle(): item/completed of a message. Commentary is neither kept nor shown.
ItemCompleted ==
  LET i == Head(wire).item IN
  /\ CanRead /\ Head(wire).kind = "completed" /\ Mine
  /\ Consume
  /\ phases' = [phases EXCEPT ![i] = server.phase[i]]
  /\ \/ server.phase[i] = "commentary" /\ UNCHANGED <<messages, response, shown>>
     \/ /\ server.phase[i] = "final"
        /\ messages' = [messages EXCEPT ![i] = Whole]
        /\ response' = <<i, Whole>> /\ shown' = <<i, Whole>>
  /\ UNCHANGED <<pc, known, out, error, server>>

\* handle(): item/agentMessage/delta.
Delta ==
  LET i == Head(wire).item IN
  /\ CanRead /\ Head(wire).kind = "delta" /\ Mine
  /\ Consume
  /\ \/ phases[i] = "commentary" /\ UNCHANGED <<messages, shown>>
     \/ /\ phases[i] # "commentary"
        /\ messages' = [messages EXCEPT ![i] = @ + 1]
        /\ shown' = <<i, messages[i] + 1>>
  /\ UNCHANGED <<pc, known, out, phases, response, error, server>>

\* turn/completed: read in the loop it ends the run; read while the answer to
\* turn/start is awaited it is passed to handle(), which does nothing with it.
TurnOver ==
  /\ CanRead /\ Head(wire).kind \in {"over", "broken"}
  /\ Consume
  /\ IF pc # "loop" THEN UNCHANGED <<pc, error>>
     ELSE IF Head(wire).kind = "broken" THEN Fail("failed")
     ELSE pc' = "check" /\ UNCHANGED error
  /\ UNCHANGED <<out, known, phases, messages, response, shown, server>>

\* receive(): TimeoutError once the deadline has passed.
TimeOut ==
  /\ Receiving /\ late /\ Fail("timed out")
  /\ UNCHANGED <<known, late, wire, pipe, phases, messages, response, shown,
                 repository, records, server>>

\* receive(): the end of the stream.
Disconnected ==
  /\ Receiving /\ wire = <<>> /\ ~server.up /\ Fail("disconnected")
  /\ UNCHANGED <<known, late, wire, pipe, phases, messages, response, shown,
                 repository, records, server>>

DeadlinePasses ==
  /\ pc \in Waiting /\ ~late /\ late' = TRUE
  /\ UNCHANGED <<client, wire, pipe, repository, records, server>>

-----------------------------------------------------------------------------
(* The app-server, and whoever else works on the repositories.              *)

Emit(e) ==
  /\ server.up /\ Len(wire) < MaxWire /\ wire' = Append(wire, e)
  /\ UNCHANGED <<client, late, pipe, repository, records>>

\* It reads a line.
ServerReads ==
  /\ server.up /\ stdin # <<>> /\ stdin' = Tail(stdin)
  /\ UNCHANGED <<client, late, wire, out, repository, records, server>>

\* It answers the request it has read. A resumed thread may have a writer, or be gone.
ToRead(lines) == \E n \in DOMAIN lines : lines[n] = "request"
ServerAnswers ==
  /\ server.request # "none" /\ ~ToRead(out) /\ ~ToRead(stdin)
  /\ \E kind \in CASE server.request = "initialize" -> {"initialized", "failed"}
                   [] server.request = "open" ->
                        {"opened", "unsafe", "failed"}
                          \cup (IF known THEN {"busy", "missing"} ELSE {})
                   [] OTHER -> {"accepted", "failed"} :
       /\ Emit(Plain(kind))
       /\ server' = [server EXCEPT !.request = "none",
                                   !.turn = IF kind = "accepted" THEN "going" ELSE @]

Going == server.turn = "going"

ServerStarts(i, phase) ==
  /\ Going /\ server.phase[i] = "unknown"
  /\ Emit(Event("started", TRUE, i, 0))
  /\ server' = [server EXCEPT !.phase[i] = phase]

\* A message that is streamed has been told of, with its phase, before.
ServerWrites(i) ==
  /\ Going /\ server.phase[i] # "unknown" /\ server.parts[i] < MaxParts
  /\ Emit(Event("delta", TRUE, i, server.parts[i] + 1))
  /\ server' = [server EXCEPT !.parts[i] = @ + 1]

ServerCompletes(i) ==
  /\ Going /\ server.phase[i] # "unknown" /\ server.parts[i] # Whole
  /\ Emit(Event("completed", TRUE, i, Whole))
  /\ server' = [server EXCEPT !.parts[i] = Whole,
                              !.said = IF server.phase[i] = "final" THEN <<i, Whole>> ELSE @]

ServerEndsTurn(kind) ==
  /\ Going /\ Emit(Plain(kind))
  /\ server' = [server EXCEPT !.turn = "over"]

\* Requests of its own, as many as it likes, and messages of other threads, which
\* stand also for reasoning, commands and retries: all that is skipped.
ServerTells ==
  /\ \/ Emit(Plain("ask"))
     \/ \E i \in Items : Emit(Event("completed", FALSE, i, Whole))
  /\ UNCHANGED server

ServerDies ==
  /\ server.up /\ server' = [server EXCEPT !.up = FALSE]
  /\ UNCHANGED <<client, late, wire, pipe, repository, records>>

\* Somebody changes the repository, or changes it back.
Edit(content) ==
  /\ tree' = content /\ tree' # tree
  /\ UNCHANGED <<client, late, wire, pipe, before, records, server>>

-----------------------------------------------------------------------------
Read ==
  \/ Answer \/ Refused \/ RefuseRequest \/ Skip \/ ItemStarted \/ ItemCompleted
  \/ Delta \/ TurnOver
Runner ==
  \/ Send \/ SendFails \/ Read \/ TimeOut \/ Disconnected \/ Check \/ ExecTimesOut
  \/ \E why \in {"none", "busy", "missing", "failed"}, text \in {NoText} \cup (Items \X {Whole}) :
       ExecEnds(why, text)
Server ==
  \/ ServerReads \/ ServerAnswers \/ ServerTells \/ ServerDies
  \/ \E i \in Items :
       ServerWrites(i) \/ ServerCompletes(i) \/ \E p \in {"commentary", "final"} : ServerStarts(i, p)
  \/ \E kind \in {"over", "broken"} : ServerEndsTurn(kind)
Next ==
  \/ Runner \/ Server \/ DeadlinePasses
  \/ \E resume, rules \in BOOLEAN : Begin(resume, rules)
  \/ \E content \in 0 .. MaxEdits : Edit(content)

Spec == Init /\ [][Next]_vars
\* Time passes, the runner's thread runs, and the app-server reads its stdin for
\* as long as it lives; nothing else is expected of it, no answer and no silence.
\* exec ends by subprocess.run's own timeout.
FairSpec == Spec /\ WF_vars(Runner) /\ WF_vars(DeadlinePasses) /\ WF_vars(ServerReads)

-----------------------------------------------------------------------------
TypeOK ==
  /\ pc \in {"idle", "exec", "check"} \cup Waiting /\ known \in BOOLEAN /\ late \in BOOLEAN
  /\ Len(wire) <= MaxWire /\ Len(stdin) <= MaxPipe
  /\ phases \in [Items -> Phases] /\ messages \in [Items -> 0 .. Whole]
  /\ response \in Texts /\ shown \in Texts
  /\ error \in {"none"} \cup Failures
  /\ tree \in 0 .. MaxEdits /\ before \in 0 .. MaxEdits /\ runs \in 0 .. MaxRuns
  /\ outcome \in Outcomes /\ latest \in 0 .. runs
  /\ server.up \in BOOLEAN /\ server.phase \in [Items -> Phases]

\* What the reporter sees while the model works is part of a public message of
\* this conversation: never commentary, never another thread (streaming.py:1).
OnlyPublicTextIsShown ==
  shown # NoText =>
    /\ server.phase[shown[1]] = "final"
    /\ shown[2] <= server.parts[shown[1]]

\* However a run ends (an answer, an error, a timeout, a lost process), a
\* repository that is not as it was found makes it a violation and no result;
\* and an answer is the last public message that its turn completed, whatever
\* the deltas added up to and whatever came in between.
EndingsAreTrue ==
  [][outcome' # outcome /\ outcome' # "none" =>
       /\ (outcome' = "violation") <=> (tree # before)
       /\ outcome' = "answered" => server.turn = "over" /\ response = server.said]_vars

\* A run ends, however much or little the app-server says or asks for, if it goes
\* on reading its stdin until it dies: the deadline is one for the whole run and
\* is looked at before every line that is read. It is not looked at by send(),
\* which an app-server that lives and reads nothing holds for ever.
EveryRunEnds == (pc # "idle") ~> (pc = "idle")
=============================================================================
