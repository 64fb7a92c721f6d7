# A verification of the field support system

The repository runs a field support desk in four programs. A reporter at a robot opens issues in
the **device app** (`src/field_support_app`), which keeps them in SQLite, has Codex analyse them
and hands the hard ones to engineers in Feishu. Engineers answer on cards. The app talks to Feishu
itself (`DirectFeishuClient`); a **Gateway** (`src/field_support_gateway`) does the same as a
service for many devices. The **Feishu-Codex bridge** (`src/tools/feishu_codex_bridge`) offers the
same work as a chat bot with a Feishu Base as its ledger. `src/app.py` is a demonstration server.

This directory holds TLA+ modules of the parts where order, failure and concurrency decide whether
the desk works, the instances TLC checks, and TLAPS proofs. `PROJECT.json` maps each definition to
the lines it models, and lists the runs, the mutations of the model that each property catches,
and the hazards.

Run from this directory:

    tlc -workers 2 -config MCIssueCore.cfg MCIssueCore
    tlapm IssueCoreProofs.tla

## Inventory

Each part with its state, its operations, who calls it, what is hard about it, and what makes it
correct.

| Part | State | Operations and callers | Hard | Correct when |
|---|---|---|---|---|
| Core issue store: `service/core.py`, `storage/database.py`, `domain/` | tables of issues, messages, solutions, events, Codex sessions, outbox | create, recur, chat, hand off, solve, import, confirm, report failure, delete; called by the runtime | long sequences of legal calls; late, repeated and skipped versions; partial deletion of a family | rollups follow members, a closed issue was confirmed at its latest version, families and sessions have no orphans |
| Device runtime: `service/runtime.py` | executor queue, retry times, ids deleted | the UI's calls; jobs on an executor; polls that pull from Feishu | jobs of one issue race; a crash loses the queue; retries | a requested handoff is delivered, a solution reaches the core, closed cards mean closed issues |
| Direct Feishu client: `integrations/feishu_direct.py` | a record per issue, a topic per family, in memory and in a JSON file | handoff, sync, confirm, failure, forget; card events on the long connection | records are copied, Feishu is called unlocked, the copy is stored | a recorded solution is not lost, a family has one topic |
| Feishu CLI client: `integrations/feishu_cli.py` | as above; one listening `lark-cli` process per client, an event directory | as above through subprocesses; `configure()` replaces the client while its jobs go on | two clients share one file; the listener starts with a handoff and may end | delivered means the card and its evidence are in Feishu, no form is sent before its answer can be heard, a handoff is delivered |
| Gateway client: `integrations/gateway.py` | none | HTTP calls to the Gateway | the answer may be lost | it repeats with the same key |
| Gateway store: `store.py` | tables of issues, events, handoff keys, receipts, two outboxes | one transaction per request or event | replays of keys and callbacks; row and log must agree | each request counts once, the row follows the log |
| Gateway service: `service.py`, `server.py`, `card_events.py` | threads between transactions | HTTP requests, card events; calls adapters, notifies the worker | card updates overtake each other; a failure after the commit | cards show committed facts, what was answered is done |
| Gateway worker: `worker.py` | a wake flag, back-off | drains both outboxes | a wake-up missed while working; a crash between call and mark | the Base follows the log in order, deliveries happen, one topic per family |
| Gateway adapters: `adapters.py` | none | posts, patches, Base rows | every call may fail, or succeed unheard | external |
| Bridge: `bridge.py`, `issues.py` | SQLite: inbox, outbox, issues, sessions, card buttons | messages and presses; analyse, send and mirror tasks | tasks interleave at awaits; nested transactions commit in parts; crash in a turn; back-off | messages are analysed in order and all answered, conversations are separate, only the reporter decides |
| Bridge process: `bridge.py` from `acquire_lock` on | `bridge.lock`, `health.json` | `run`, `status`, `stop`, `start` typed by a user, each a process | processes interleave between system calls; probing the lock takes it | one instance runs; what a command says is so |
| Bridge mirrors: `base_sync.py`, `doc_sync.py` | revisions mirrored, last row written, document tokens, flags per entry | mirror rows, history, documents; take plans from rows | the issue changes while a call is in flight; a response is lost; a process dies between two calls | what counts as mirrored is, nothing is written twice or out of order, all of it is written in the end |
| Analysis jobs: `runtime.py` from `_capture` to `delete_issues` | jobs, a lock per family, deleted ids, reports in memory and on disk, the Codex conversation of each family | the reporter's messages and hand-overs; a deletion; jobs on the executor | jobs, deletions and crashes meet; Codex keeps what the process forgets | every message is answered, a deletion leaves nothing but what is named below, no conversation is let go that Codex still has |
| One analysis: `analysis/codex_runner.py`, `analysis/streaming.py` | the app-server process, the messages of a turn, fingerprints of the repositories, `latest.json` | an analysis job | lines of several messages and threads interleave; silence and floods; writes that wait; the repository is edited | only public text is shown, the answer is the last completed message, no change is passed over, every run ends while its stdin is read |
| HTTP API and management: `api/`, `management.py`, `settings.py` | management sessions, settings | routes calls to the runtime | settings replaced while jobs run | settings change as a whole |
| Evidence collectors: `collectors/` | none | read files and commands into a snapshot | I/O | no protocol of its own |
| User interface: `ui/` | none | polls the API | - | a view |
| Simulator, packaging: `src/app.py`, `scripts/` | - | - | - | outside the desk |

The parts meet at few points. The UI's calls and polls reach the runtime, which changes the core
in single transactions and gives the client jobs; the client and Feishu exchange cards and form
submissions; polls carry solutions back into the core. The Gateway's threads share its database
and the worker's wake flag. The bridge's tasks share one database connection, Feishu's messages
and the Base's rows.

## Modules

| Module | Models | Used by |
|---|---|---|
| `IssueContract` | what `contracts/domain.md` and the design document (4.3) promise of reports: statuses, versions, when a family is solved | refined by `IssueCore` |
| `IssueCore` | `CoreService` over `CoreDatabase` | `Device`, `Analysis`, `MCIssueCore` |
| `IssueCoreProofs` | proofs about `IssueCore` | |
| `FeishuClient` | `DirectFeishuClient` | `Device` |
| `Device` | `RuntimeService`'s handoffs: core, client, executor, UI and engineers composed | `MCDevice` |
| `DeviceProofs` | proofs about `Device` and `FeishuClient` | |
| `Analysis` | `RuntimeService`'s captures, analyses and deletions over the core and Codex | `MCAnalysis` |
| `AnalysisProofs` | proofs about `Analysis` | |
| `CodexStream` | `CodexRunner` and `AppServerStream`: one run of Codex after the other | `MCCodexStream` |
| `CodexStreamProofs` | proofs about `CodexStream` | |
| `LarkClient` | `LarkCliFeishuClient`, and `configure()` replacing it | `MCLarkClient` |
| `LarkClientProofs` | proofs about `LarkClient` | |
| `GatewayStore` | the transactions of `GatewayStore` | `Gateway` |
| `Gateway` | handler, consumer and worker threads over the store, with Feishu and the Base | `MCGateway` |
| `GatewayProofs` | proofs about `Gateway` | |
| `BridgeStore` | the transactions of `MessageStore` and `IssueMixin` | `Bridge` |
| `Bridge` | the bridge's tasks, with Feishu, Codex and the Base | `MCBridge` |
| `BridgeProofs` | proofs about `Bridge`, `BridgeStore` and `BridgeControl` | |
| `BridgeRecords` | `DocSync` and the history records of `BaseSync` | `MCBridgeRecords` |
| `BridgeRecordsProofs` | proofs about `BridgeRecords` | |
| `BridgeControl` | `run`, `status`, `stop` and `start` of `bridge.py` | `MCBridgeControl` |

`Device` and `Analysis` both stand on `IssueCore`, and each leaves the other's jobs out: handoffs
and analyses meet only in the core's tables (`local_input_enabled`, deletions) and in the report a
handoff captures or finds. Those actions are in both: `Analysis` follows a handoff's job up to its
evidence bundle, `Device` from there to Feishu. That each uses the core as `IssueCore` has it is a
theorem of each (`DeviceRunsTheCore`, `AnalysisRunsTheCore`). `Analysis` takes one run of Codex as
a step whose outcomes are those `CodexStream` gives it.

### State and code

**IssueCore.** `issue` is the `issues` table with what the child tables hold for each row;
`session` is `codex_sessions`. Every service method is one `BEGIN IMMEDIATE` transaction under one
lock and so one action. An id `ISS-...-Snnn` is `<<root, nnn>>`. Row field `concluded` says that
an assistant's answer by Codex exists, which `confirm_ai_resolution` asks for; `input` is
`local_input_enabled`.

**FeishuClient and Device.** `item` and `topic` are the client's `_state`; memory and file change
under one lock and are one variable, so a crash keeps them. `calls` holds the operations in
progress with their program counters and the copies they made; an operation steps where the code
takes or releases `_lock`, or calls Feishu. `queue` is the executor's queue, `backoff` the issues
whose `_handoff_retry_at` lies ahead, `deleted` is `_deleted_issue_ids`. `card` and `press` are
external: cards in Feishu, and submissions in flight. A crash forgets `calls`, `queue`, `backoff`
and `deleted` and queues every open handoff, as `_queue_pending_handoffs` does. `confirmed` and
`retired` are histories and no state of the program: the ids the reporter has confirmed, and those
of deleted issues.

**GatewayStore and Gateway.** `log` is the events table, `base` and `deliveries` its two outboxes,
`handoffs` and `receipts` the replay tables by key and callback id. A thread stops after each
commit, and before and after each external call. Only one delivery in Feishu exists per
idempotency key, which `send_handoff` passes, so the key is the message id. A repeated callback id
or key is answered from its receipt without a look at the issue or act it now names (`Replay`),
and the service then patches the card of the issue named; `strayed` keeps which issues were named
that way and is no state of the program.

**BridgeStore and Bridge.** `db` is the committed database. A transaction is an operator from
database to database. With Python's `sqlite3`, `with self.db` commits where its block ends even
inside another such block: an incoming command commits once or twice, and `Commits` gives what is
committed in turn. `turn`, `sending` and `sync` are the calls of the three tasks in flight, since
asyncio tasks interleave only at awaits. `sheet` and `shown` are external: rows of the Base, with
who wrote each last, and replies in Feishu. A process that dies loses the calls; each may or may
not have reached Feishu. Death and restart are one step, because the database does not change in
between and what Feishu or the engineers do in between they can do right after. A row that an
engineer removes stays away: `sync_issue` raises and does not make it again (`RowMissing`).

**Analysis.** `job` are the jobs submitted so far with their program counters, `queue` the
executor's, `lock` `_analysis_locks` by family, with `Deleter` for the lock a deletion holds.
`text` is external: which messages each Codex conversation has been told. The job of a handoff
captures if there is no report yet, reads the issue's messages and writes the bundle
(`ReadForBundle`, `Bundle`), under no lock and with no look at `_deleted_issue_ids` after the
capture. A job stops where the code commits, takes the lock, calls Codex or looks at
`_deleted_issue_ids`; `local_input_enabled` is read and the answer appended in two transactions
(`CheckInput`, `AppendOutcome`). A deletion takes all its locks or is refused, deletes
conversations one by one, marks the ids, deletes the rows, whose targets the core works out again,
and removes files. A crash forgets everything but tables, files and Codex. Deletions of different
families touch nothing in common, so one at a time is modelled. `overlooked` and `abandoned` are
no state of the program: they keep which messages a deletion removed with an issue it had not
marked, and of which deleted issues files may have been left behind, in the five ways told below.

**CodexStream.** `wire` holds the lines on the app-server's stdout that are not read yet, and each
action reads one, as `receive()` does after looking at the deadline; `server` is external: what
the app-server has told of each message, whatever it tells next. `out` is what the runner has to
send before it looks for a line again, `stdin` the pipe: `send()` waits for room in it, and no
deadline is looked at then. The app-server may ask for anything, any number of times. A message is
told of, with its phase, before its deltas: that is assumed of the app-server, for `handle()`
shows the deltas of a message it has not been told of (`streaming.py:145`). A text is a message
with a count of deltas, or `Whole`. `latest` is the number of the run that `latest.json` tells of.
`before` is the fingerprint taken before the run, `tree` the repositories as they are. An
installation with exec-policy rules runs the exec command instead (`ExecEnds`, `ExecTimesOut`).

**LarkClient.** `mem[g]` is `_state` of the g-th client, `saved` the file all of them write,
`process[g]` its listening `lark-cli`. `BuildClient` reads the file, `Configure` puts the new
client in the place of the old and closes that one's listener; jobs keep the client they started
with. Cards, and the replies with the evidence, are found again by their idempotency keys.

**BridgeRecords.** `item` holds the columns of `issues` that the two mirrors keep, `entry` is
`issue_entries`, `sync` the one call to Feishu under way, `docs` and `history` what Feishu has. A
document is its lines: the header and entries, by their markers. A call may be taken and its
answer lost, or the process dies in it; the next pass looks the work up by name or marker.

**BridgeControl.** A process steps from one system call to the next: `flock`, truncation, the pid,
the signal, `health.json`. `running_pid` is three steps, since probing a free lock holds it for a
moment; `stop` goes through them before the signal, while it waits, and once more at the end.
`TaskRaises` is any of the six tasks of `run()`, whose first exception ends the program. A pid is
never used again in the model.

Across the modules texts, times, layout and wording are abstracted away; a plan is a solution with
its verification steps; a time that has come is a Boolean (`due`). Validation, authentication and
allowlists that refuse a request without a change are left out where no property depends on them;
the checks on owner, reporter and engineer stay. Operators marked "Slip" are plausible mistakes,
used only to see that a property notices.

## Runs

Properties are stated with the code they are about beside their definitions.

| Run | Question | Instance, and why it is enough |
|---|---|---|
| `core` | Do families stay whole, closed issues confirmed, history kept, and does the store implement the contract of the documents, but for `confirm_ai_resolution`? | One root with one sub-issue and three versions: partial deletion, a rollup of two members, stale, repeated and skipping imports all occur. Several families and deeper ones are covered by the proofs. |
| `gateway_solutions` | Are requests answered once, cards truthful and topics shared under races and a crash? | Two issues of one family, a handler, the card consumer and the worker: every pair of threads races, and an id may be repeated for the other issue. One Solution per run; races of several versions are covered by the proofs. `HasBase` is off, since the second outbox touches none of these. `VIEW ButAnswers` drops `answered`, which no action reads; the two keys are interchangeable. |
| `gateway_delivery` | Is what was answered delivered, in order? | One issue, both adapters, every call failing at will, one crash. |
| `device_solutions` | Do handoffs and solutions arrive, and is a solution lost to nothing but a handoff's write-back? | One issue and one submission, one worker beside the UI's polls and the card events, failing card updates, a crash, a deletion: a job, a poll and a form interleave, the least that can lose a solution. `MaxOrphans` 1: one card posted without an answer. `MaxSub` 0: races of two issues are `device_family`'s. |
| `device_family` | Does a family keep one topic, and does closed mean confirmed? | A root and a sub-issue, two workers, one submission, a posted card without an answer, a crash, a deletion and the number given out again. The constraint `OneHandedOff` bounds what the submission meets: from then on at most one of the two is handed off, and two jobs and calls are under way; before it the two race freely. More of each is covered by the proofs. |
| `analysis` | Does every message get its answer, and a deletion leave nothing behind? | A root and a sub-issue, three jobs on two workers, a deletion, a crash, two Codex threads: a snapshot or a handoff's bundle can be under way during the deletion, a sub-issue's messages be in the family's conversation, a conversation vanish, an issue be made while its parent is deleted. Several families and reused numbers are covered by the proofs. |
| `codex` | Is only public text shown, is each ending true, does each run end? | Two runs, two messages of a delta each, two unread lines, a pipe with room for one, one edit (and its reversal): messages interleave, lines of the first run must not count in the second, a write can wait while the deadline passes. More of each is covered by the proofs. |
| `lark` | Is what counts as delivered there with its evidence, is every form heard, is every handoff delivered, whatever happens to clients? | One issue, one replacement of the client and one fault (a crash, a failing or unanswered call, or a listener that ends) anywhere in the handoff, a submission or a verdict, so also between the building of the new client and its use. One worker: the executor's own races are `device_solutions`'. |
| `bridge_queue` | Is everything answered, in order, in separate conversations? | A reporter and an engineer with two messages or presses, a failing reply, turns that fail up to two attempts, a crash between any two commits: one message backs off behind another, a sub-issue follows its parent. A conversation filed under the issue that is active when the turn ends would take three messages; any number is covered by `ConversationsStayApart`. |
| `bridge_mirror` | Does the sheet agree with the issue, and does only the reporter decide, and what he names? | One issue, two plans (from Codex and from the sheet), a verdict of the reporter or the engineer or a second report, an edit or the removal of the row, a failing or unheard call, a crash: each can fall between any two calls of the mirror, a verdict can name a version the sheet has replaced, and a plan can come after the resolution. The constraint `EngineerDecides` lets the engineer send verdicts only; he may send the rest in `bridge_queue`. |
| `bridge_records` | Is history copied, all of it, once and in order? | One issue, two entries of two parts, two failing or unheard calls and a crash: an entry may come during any call, and a part, a header or a document be written twice if the code let it. |
| `control` | Are stop and start right in what they say? | Two instances and two commands, interchangeable: a stop waits while the other command probes and a second instance starts. Any number of both is covered by the proofs. |

Deadlock is checked where the system could always go on (`core`, the Gateway's runs, `codex`). It
is off where a bound ends the work: `device_solutions` and `device_family`, whose one root may be
deleted, `analysis`, `lark`, `bridge_records`, `bridge_mirror`, `bridge_queue`, which end when
jobs, messages, entries or submissions are spent, and `control`, whose commands and instances end.

Bounds: `MaxSub`, `MaxVersion` (core); `MaxMessages`, `MaxOrphans`, `MaxCrashes`, `MaxDeletes`,
`Workers` (device; root ids are random and not given out again); `MaxJobs`, `MaxDeletes`,
`MaxCrashes`, `Workers` (analysis); `MaxRuns`, `MaxParts`, `MaxWire`, `MaxPipe`, `MaxEdits`
(codex); `MaxConfigures`, `MaxFaults` (crashes, failures and listeners that end together),
`MaxMessages`, `MaxVersion`, `Workers` (lark); `MaxCrashes` and the sets of keys, calls and
callbacks (Gateway); `MaxMessages`, `MaxEdits`, `MaxFailures`, `MaxCrashes`, `Threads`, and
`Attempts`, 3 in the source (bridge); `MaxEntries`, `MaxParts`, `MaxFailures`, `MaxCrashes`, and
`Batch`, 30 in the source (records). The bridge's mirror run uses `Unsending`, the specification
without the reply task: replies matter to the rest only by showing buttons, and no button is
pressed there. Two runs have a state constraint, `OneHandedOff` and `EngineerDecides`; the one run
has no liveness property, and the other's constraint only leaves out messages nobody has to send.

## Fairness

Safety runs assume none. The others assume:

- threads and tasks are scheduled: weak fairness of each thread's step (`Proceed`, `WorkerStep`),
  of the executor (`StartJob`), of every call in progress (`Moves`), of the bridge's loops
  (`StartTurn`, `StartSend`);
- sleeps and back-offs end: weak fairness of `RetryTime`, `MessageDue`, `ReplyDue`, `IssueDue`;
- what is retried for ever succeeds in the end: strong fairness of the sends, updates and applies.
  The code has no give-up on these paths; an outage that never ends is not a claim about the
  program. A call to Codex may fail always, and is given up by the code;
- the UI goes on polling an issue that is shown: strong fairness of `Poll`, a timer in `app.js`;
- in the bridge no call stays in flight: `[]<>(turn = None)` and its like, because `run_cli` and
  `Codex.ask` have time-outs. One await lies outside them, `stdin.drain()` (`bridge.py:470`): that
  Codex reads its prompt, or ends, is assumed of it; and the mirror's pass comes to every issue
  (`SF` of `StartSync`, stated for the main issues, the only ones the instance reports). An
  instance has at most `MaxFailures` failing calls of lark-cli; within that bound a call may fail
  at any point, and nothing is assumed of when.
- jobs of `Analysis` go on or end, because the collector, Codex and the cleanup have time limits:
  weak fairness of each job's `Work` and of a deletion under way (`Delete`). Nothing is assumed of
  who gets a family's lock first; `MessagesAreAnswered` holds since requests are finitely many in
  an instance, and the lock's holder always ends;
- in `CodexStream` the runner's thread runs and time passes (`WF` of `Runner` and
  `DeadlinePasses`), and the app-server, while it lives, goes on reading its stdin (`WF` of
  `ServerReads`). Nothing else is assumed of it, no answer, no silence, no end. Without that one
  assumption `EveryRunEnds` is false, of the model as of the code: a write into a full pipe waits
  for ever, and no deadline is looked at (`streaming.py:60-62`);
- in `LarkClient` calls in progress go on, `lark-cli` gets to listen, the page polls and a
  replacement that was begun is completed: weak fairness of each;
- in `BridgeRecords` the loop comes to each issue and each entry of its round again and again
  (`SF` of `StartDocument`, `NotifyLate`, `MirrorIssue`, `StartRecord`, which other work disables
  for a while), its calls end and retry times come (`WF`).

No fairness is assumed of requests, crashes, presses or engineers.

## Proofs

What is proved holds for every value of the constants that meets the `ASSUME`s: `CoreAssumption`
(bounds are naturals, `NoIssue` is no id), `StoreAssumption` and `GatewayAssumption` (`None` is
none of the values, handler and consumer threads are disjoint), `BridgeControlAssumption` (pids,
commands and the two marks are different things), `DeviceAssumption` (bounds are naturals, there
is a worker, there are versions enough for all submissions, `None` and `NoIssue` are none of the
values they stand beside), `AnalysisAssumption` (bounds are naturals, there is a worker, `NoIssue`
is no id, `NoThread` no conversation), `CodexStreamAssumption` (bounds are naturals, the wire
holds at least one line), `LarkAssumption` (bounds are naturals, `None` is no message and no
card), `BridgeStoreAssumption` (`None` is none of the values it stands beside, as NULL is, and the
model is called at least once), `BridgeAssumption` (the instance's commands are commands, bounds
are naturals, `None` is no call in flight) and `BridgeRecordsAssumption` (bounds are naturals, an
entry has a part, `None` is no work).

**IssueCoreProofs.** `Base`, the conjunction of `TypeOK` and `FamilyIntact`, is inductive: `Ids`
and parents must be known for the family of a row to be well-defined. Each operation's effect on
the table is a lemma of its own (`ResolveEffect`, `ChatEffect`, `ReportEffect`, `DeleteEffect`);
`RecalculatedEffect` says what `_recalculate_rollup` leaves; `TargetsEffect` that a deletion takes
whole subtrees. On `Base`, `RollupStep` shows that each step leaves the members' statuses or
recomputes; `SoundStep` proves versions and confirmations row by row, whence `LatestIsStored` and
`ClosedMeansLatestConfirmed`; `SessionStep` the conversations; `HistoryStep` the action property.
`CoreImplementsContract` maps `phase`, `latest` and `solved` to the table and each step to a step
of the contract or a stutter, with `RollupIsCurrent` for `solved`; the one exception,
`ClosesByAdvice`, is in the statement and not in the contract, which is the documents'.

**GatewayProofs.** `Base` adds to `TypeOK` what program counters imply: a thread past its
transaction holds an id that was recorded (`HandsOK`), the worker's item is the oldest pending row
(`WorkerOK`), rows point at their events (`RowsOK`). Without them `ProjectedInOrder` is not
inductive: the worker could mark a row other than the one applied. `ProjectedInv` names the number
`d` of rows done. `RowFollowsLog` and `AnsweredOnce` follow from what each transaction appends
(`RowChanges`, `StoreAppends`).

Of the cards, `FamilyInv` for one topic: keys and cards have one owner, the bound topics of a
family agree, and the topic the worker carries is the one bound if any is, which holds because
there is one worker. `VersionsInv`, `HandsTell`, `CardsTell` for cards: what a thread is about to
show was committed, so it may be shown late but not wrongly, unless the thread was answered from a
receipt of another issue or act. Then its issue is among `strayed`, for good, and only the version
it shows is vouched for, which is read from that issue's own row.

**AnalysisProofs.** The argument is about locks. Between two steps an analysis holds its family's
lock, so the issue, its message and the family's conversation are still what it found (`Works`); a
deletion holds the lock of every family it touches and knows their conversations (`Deletes`). So a
step of the one changes nothing the other relies on: `AnalysisKeeps` and `OthersWork` say that
once, for all steps of an analysis and of a deletion. A conversation that is not empty tells by
its messages whose it is (`Known`), and no two families share an id (`Apart`), without which
forgetting one could forget another's. `Disks`: an issue that is not there has files only while a
snapshot of it is under way or the deletion has yet to remove them, or it is one of the
`abandoned`; and jobs that could still write files of it are of a marked issue, whom the second
look in `_capture` stops. `Queued` keeps a job from being started twice. `TargetsWithin` and
`TargetsGrow` are about the core: a deletion takes rows of the families it has locked only, and
new sub-issues only add to them. The conjunction, `IInv`, was run through TLC on the instance of
`MCAnalysis` before it was proved. A stricter `DeletedLeaveNothing`, without messages that were
overlooked, is false with two sub-issue numbers and seven jobs; what the code does then is told
below.

**AnalysisProofs, the core below.** `AnalysisRunsTheCore` says that the analysing runtime's issues
and conversations are those of `IssueCore`: a step is one of the core's or leaves its tables
alone. It needs `IInv` for one thing, that a conversation which is saved was opened (`Works`).

**DeviceProofs.** The argument is about `_handoff_lock` and about the copies calls carry.
`OneInside`: one handoff at a time is between taking that lock and giving it back, so what it has
read of its record and of its family's topic is still so when it writes (`HoldsOK`), whatever
forms, updates and deletions come in between; only a deletion of the whole family takes the topic
away, and then nothing is left of the family that could disagree (`Gone`). `RecordOK`, `CallOK`
and `CardOK`: records and copies name cards of their issue, and no version is higher than the
number of forms the client has heard of. `WorldGrows` says what every step leaves to all of them:
cards stay those of their issues, a form heard stays heard, a root that is gone stays gone
(`Grows`). `Rows` and `Named` are the core's part, proved again for the core as `Device`
instantiates it, because the prover cannot cite the theorems of an instantiated module.
`FamilySharesTopic` follows from `FamilyTopic`, which is inductive only with `HoldsOK`: a handoff
that still carried another topic could store it. `LostOnlyToHandoff` looks at the steps that write
records: the first write of a handoff finds no record (`HoldsOK`), and updates write the faces
only.

*Closed cards.* A card is closed by the job of a confirmation, by which time the issue may have
been deleted, and its number given out again (`MAX(sub_sequence) + 1`): the new issue has the id
of the old one, whose closed card is still in Feishu. So what stays true of a confirmed number is
`Settled`: it was confirmed, and until an issue of that number is deleted it is there and closed.
A closed issue is never reopened (`StayClosed`), and one that goes is among `retired`
(`GoneAreRetired`), hence `SettledKept`; `ClosedInv` says it of cards, records, calls and queued
jobs. There is no condition on the constants. `IInv` and `ClosedInv` were run through TLC on the
instances of `MCDevice`. `DeviceRunsTheCore` is the refinement of `IssueCore`; it needs that an
imported version is one of the core's (`ImportInRange`), by the bound on versions in `RecordOK`
and `CallOK`.

**CodexStreamProofs.** What a line on the wire says of the app-server was true when it was written
and stays so (`LinesAreTrue`), since within a run nothing is taken back; lines keep the order they
were written in (`InOrder`), and a message's phase is told before its deltas (`PhaseComesFirst`).
So a delta that is read is of a message whose phase the client knows, and it counts no more than
the line says (`CountIsBehind`), whence `OnlyPublicTextIsShown`; when the end of the turn is read
no completed message is left unread (`LastIsSaid`), whence `AnswerIsFinal` and `EndingsAreTrue`.
`OneAtATime` keeps a late answer from starting a turn that is over, which needs that the server
answers a request only when it has read it, from the pipe the runner wrote it to. `ReadKeeps` and
`WriteKeeps` say once what reading and writing a line leave of all this; each action has a lemma
that shows it meets their hypotheses.

**LarkClientProofs.** `Types` is `TypeOK` with what it needs to be inductive: a client is built
for the process, each replacement and each crash (`Counted`), only a waiting handoff has no client
(`Taken`), records name cards that exist (`NamesCards`). `OneInside`, that one handoff of a client
at a time is inside `_handoff_lock`, carries `SendsAreHeard`: a handoff past `_ensure_started` has
seen its listener ready, and one that gives a listener up takes it from nobody (`StarterWaits`). A
client that comes into use is newer than any a job has (`NoneAhead`), so no job of its is inside a
lock. `DeliveredIsComplete` rests on `Told`: what a record in memory or in the file
(`RecordsSay`), a job's copy (`JobSays`) or the core (`CoreSays`) says of Feishu is so. Since
cards and evidence stay where they are (`Stays`), no stale copy, overwritten file or replaced
client can make it untrue; a record that is lost only makes the client send again.

**BridgeProofs.** The argument has two levels. A transaction of the store takes a database to the
next, and `Goes(d, e, m)` says what all have in common: the tables stay consistent; the messages
but `m`, and the conversations, stay as they are; an issue whose status or plan changes has a new
revision. It is transitive, so it holds of a command once it holds of the parts the command is
made of. Two parts go further and have lemmas of their own: the end of a turn, which stores a
conversation (`ConversedStays`, `TurnEnds`), and a verdict, the one part that may decide an issue
(`DecideStays`). New issues need `Named`: an issue is named after a message or counted by its
parent, without which an id could come twice and its conversation be lost. A process may die
between the commits of one command, so `Restarts` proves recovery from every database a command
leaves. The tasks then need only what they know between two steps: `Asks` (the session taken for a
turn is still its message's; without it `finish` could store a conversation elsewhere), `InOrder`,
`Shows` (what the rows show) and `Mirrors` (the revision the mirror read is not ahead of the
issue, and while it is the issue's, so are the status and plan about to be written). Only `Shows`
is wanted, only with `Mirrors` is it inductive, as the row is read and written in different calls.
The conjunction, `IInv`, was run through TLC on the instances of `MCBridge` before it was proved.

**BridgeProofs, the process.** `ControlInv` is `ControlTypeOK` and four parts. `LockIsHeld`:
whoever is between taking the lock and giving it back, instance or probe, is the one on record as
its holder; `SingleInstance` follows at once. `StopKnows`: what a waiting stop knows of the
instance it signalled; a probe that finds the lock free then shows, by `LockIsHeld`, that the
instance has ended, whence `StoppedIsGone`. `HealthIsOfARun`: a pid in `health.json` is that of an
instance that got into `run()`, whence `ReadyIsReal`; that pids are not used again is the model's
assumption. `CleanEndIsRecorded` is inductive beside them. Without `LockIsHeld` none is: a
command's probe could be taken for a running instance.

**BridgeRecordsProofs.** What the task has learnt from its calls holds until its next one, since
nobody else writes to Feishu: `DocumentIsKnown` (the name it looked for is not there; the entries
it is to append are not in the document and later than all that are), `RowIsKnown` (earlier parts
have their row, the part it is to write has none), `ReadyHasBegun`. `TakenGrows` says once what a
call that is taken does to Feishu, answered or not; so an answer that is lost leaves exact copies.
`NothingSkipped`, a theorem of its own, is why appending is enough: a document is in the order of
its entries up to some entry. `TicksOffWhatIsThere` says what the tables may tick off.

**Proved and not repeated in a run**: `TypeOK` of `IssueCore` and `Gateway`, `ControlTypeOK` of
`BridgeControl`; `NothingSkipped` of `BridgeRecords`; `RollupIsCurrent`, `LatestIsStored`,
`SessionsAreOwned` of `IssueCore`; `RowFollowsLog` of `Gateway`; `SingleInstance` and
`CleanEndIsRecorded` of `BridgeControl`; `DeviceRunsTheCore` and `AnalysisRunsTheCore`.

**Only model-checked.** Liveness: `AcceptedIsDelivered`, `AnsweredIsProjected`, `SolutionArrives`,
`HandoffIsDelivered`, `MessagesAreAnswered`, `EveryRunEnds`, `EverythingIsAnswered`,
`SheetCatchesUp`, `HistoryIsCopied`. It needs fairness and `ENABLED`, which are out of the
prover's reach. Every invariant and action property that a run checks is stated by a theorem.

## Where the code and its documents part

Seen while modelling. Every module follows the code, but for `IssueContract`, which follows the
documents; none of these has a run of its own.

Core and Gateway:

- *Closed without a solution* (`core.py:307-371`): `confirm_ai_resolution` makes the assistant's
  answer a solution and closes the issue in one transaction. `contracts/domain.md:10` says "Direct
  `open` to `closed` is forbidden", and nothing else of an assistant. The contract has no such
  step; `ImplementsContract` names it as its exception (`ClosesByAdvice`).
- *A repeated id is not compared* (`store.py:353-360`, `:442-448`, `:500-507`, `:594-601`): a
  callback id or key that comes again for another issue, or another act, gets the stored response,
  and the service patches the card of the issue it names (`service.py:64`, `:92`, `:126`), which
  may so show a confirmation or failure nobody made. `contracts.md:15-17` promises a 409 for
  handoffs, where the code compares. `CardShowsCommitted` says what still holds of such a card.
- *Rollup* (`core.py:656`): the design document (4.3) counts a waiting sub-issue as an open main
  issue; `_recalculate_rollup` shows the main issue as pending verification.
- *Card events are not announced* (`card_events.py:87`): a Solution over the long connection is
  committed without `notify`, and waits for an unrelated request or a restart to reach the Base.
  `AnsweredIsProjected` speaks of answered requests only.
- `complete_delivery` overwrites a newer `handoff_status`; one delivery that cannot succeed blocks
  those behind it; the Base projection has no status for `VerificationFailed`.

Device:

- *A lost solution* (`feishu_direct.py:173`, against FR-08): a repeated handoff stores a copy it
  made before its sends over a solution recorded meanwhile. `LostOnlyToHandoff` shows that nothing
  else loses one; `SolutionArrives` speaks of solutions the record goes on holding and promises
  nothing of a lost one.
- The first card of a family is sent without a uuid (`feishu_direct.py:117`, against FR-06): when
  the answer is lost the retry starts a second topic. The model has these cards (`MaxOrphans`).
- `verification_failed` is submitted once (`runtime.py:142`): after a failing update engineers see
  no form.
- A reused sub-issue number (`core.py:69`): the new issue meets the card and the record of the old
  one, so a closed card may belong to an open issue, and it is never captured or handed off until
  a restart (`_deleted_issue_ids`). `ClosedCardMeansClosed` is checked and proved with deletions:
  it asks of such a number only that an issue of that number was confirmed.

Analysis:

- An answer may follow a handoff that came between the look at `local_input_enabled` and the
  append (`runtime.py:418`); the design document (line 120) keeps such answers from the chat.
- A conversation whose first turn fails or times out is known to nobody, and no deletion finds it
  (`codex_runner.py:181`). `DeletedLeaveNothing` and `ForgottenIsGone` speak of stored ones.
- *Files left behind* by a deletion, in five ways, all of them exceptions of `DeletedLeaveNothing`
  (`abandoned`): the evidence bundle of a handoff is written after it, with the directory made
  again (`runtime.py:472-493`, `bundle.py:80-88`; no lock, no look at `_deleted_issue_ids`); a
  snapshot raises and does not come to its second look (`runtime.py:306-308`); a crash falls
  between the rows and the files, or into a snapshot of an issue deleted meanwhile; or the issue
  was not marked, as follows.
- A sub-issue created between the listing of a deletion's targets and the rows' removal loses its
  rows and keeps its directory (`runtime.py:165`, `:201`). It was never marked deleted, and its
  number is given out again (`core.py:70`): an analysis queued with the removed message's text
  then enters the family's conversation. These messages are the `overlooked` ones.
- A root and its sub-issues share one conversation (`runtime.py:405`), where FR-04 gives each its
  own.
- A run that was queued when the process died is not started again; a persistent retry is on the
  list of things to do (`DEPLOY_UBUNTU.md:238`).
- An exec run that times out leaves `latest.json` as the run before left it
  (`codex_runner.py:119`).
- A write to the app-server has no deadline (`streaming.py:60-62`): an app-server that lives and
  reads nothing holds the run, and the family's lock, for ever. `EveryRunEnds` assumes that it
  reads.
- Deltas of a message that was not told of before are shown, whatever it turns out to be
  (`streaming.py:145`), where `streaming.py:1` speaks of public text. The app-server is taken to
  tell first.
- A `turn/completed` that comes before the answer to `turn/start` is swallowed, so that run ends
  by its deadline only (`streaming.py:174`).

CLI client:

- When the listener ends, forms go unheard until the next handoff (`feishu_cli.py:330`).
- A form pressed before the evidence has followed is dropped (`feishu_cli.py:401`).
- What an old client records after the new one has read the file is overwritten by the new one's
  next write (`app.py:90`, `runtime.py:61`).
- Rows of the Base are looked up and written in two unserialised calls (`feishu_cli.py:213`).

Bridge:

- *The bridge hears itself* (`base_sync.py:140`): when the response to a row's write is lost and
  the reporter sends the issue back, the bridge takes its own row for a submission and proposes
  the rejected plan again.
- A row an engineer removes is not made again (`base_sync.py:131`, on purpose): the issue is no
  longer mirrored and every pass reports the error. `SheetCatchesUp` speaks of rows that are
  there.
- Thirty entries of issues without a row hold back the history of all others (`base_sync.py:173`,
  `:208`).
- A crash between `finish` and `propose` loses the proposal (`bridge.py:524`); one between the two
  commits of `/verify` sends the command to Codex; an engineer's edit between the mirror's read
  and write is overwritten.
- `running_pid` believes a stale pid while another command probes, or while a new instance has the
  lock and has not written yet (`bridge.py:725`), and an instance that meets a probe is refused
  (`bridge.py:705`).

Settings and outbox (not modelled): saves are not serialised, so the file, the settings in memory
and the running client may come from different saves (`settings.py:50`, `:260`), and a password
left blank may bring back an old one (`settings.py:217`); `claim_outbox` compares times as text,
whatever their offset (`core.py:522`).

## Plan

Modelled: the core with its contract, the Gateway, the device's handoffs with both clients, its
analyses and deletions, one run of Codex, the bridge's queues, mirrors and process.

Left: an abstract client, whose records only grow but by `forget`, refined by both clients.
`WorldGrows` of `DeviceProofs` and `Told` of `LarkClientProofs` are what its proof would rest on.

## Not modelled

- *Settings and the HTTP API*: routing is a thin layer over the runtime; management sessions are a
  dictionary under one lock; a save of the settings is a sequence of writes without a protocol,
  described above.
- *The core's outbox*: claim, acknowledge and retry are never called by the shipped runtime.
- *The Gateway client*: a stateless HTTP wrapper, modelled from the Gateway's side.
- *Rows `_project_base` writes* in the CLI client: nothing reads them back. Families and
  `forget_issues` in that client are as in the direct one and left to `Device`.
- *Progress and activity stages* of an analysis, prompts, sandbox arguments.
- Layout of cards, documents and Base fields; `lark-cli` and Codex as programs (their calls may
  fail, succeed unheard or answer anything well-typed); evidence collection, the UI's rendering,
  packaging and the demonstration server.
