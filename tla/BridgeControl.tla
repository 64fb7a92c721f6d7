------------------------------ MODULE BridgeControl ------------------------------
(***************************************************************************)
(* How bridge.py is started, watched and stopped: instances of `run` that  *)
(* take bridge.lock, and the commands status, stop and start, each a       *)
(* process of its own that looks at the lock by taking it for a moment.    *)
(* Between any two system calls any other process may run.                 *)
(*                                                                         *)
(* A pid is never used again here: on a real machine a pid that is no      *)
(* longer current may be somebody else's.                                  *)
(***************************************************************************)
EXTENDS Naturals

CONSTANTS
  Instances,   \* the pids of `bridge.py run`
  Invocations, \* the processes of status, stop and start
  Absent,      \* no process, no file
  Empty        \* a lock file without a pid

ASSUME BridgeControlAssumption ==
  /\ Instances \cap Invocations = {}
  /\ {Absent, Empty} \cap (Instances \cup Invocations) = {}
  /\ Absent # Empty

VARIABLES
  lock,      \* who holds the flock on bridge.lock
  text,      \* what bridge.lock says: a pid, nothing (Empty), or Absent: there is no file
  instance,  \* how far each instance is
  connection,\* Bridge.connection: connected counts as subscribed, every state
             \* without a subscription as disconnected
  card_connection, \* Bridge.card_connection, likewise
  asked,     \* instances whose stop_event is set
  health,    \* health.json: whose it is, and its connection
  command,   \* how far each command is
  found,     \* the pid a command's running_pid returned
  child,     \* the instance a start launched
  said       \* what a command told its user in the end

controlVars == <<lock, text, instance, connection, card_connection, asked, health, command, found,
          child, said>>
file == <<lock, text>>
inside == <<connection, card_connection, asked, health>>
outside == <<command, found, child, said>>

\* off, launched, refused (mistaken: no instance held the lock); inside acquire_lock
\* (locked, truncated), then with the lock before run() has its signal handlers, then
\* in run(); ended, or killed.
Holding == {"locked", "truncated", "acquired", "running", "stopping"}
Stages == {"off", "launched", "refused", "mistaken", "gone", "killed"} \cup Holding
Lines == {"starting", "subscribed", "disconnected", "stopped"}
CardLines == {"starting", "subscribed", "disconnected", "configuration_error"}
Kinds == {"status", "stop", "start"}
Words == {"nothing", "status", "not running", "error", "stopped", "cleaning up",
          "already running", "ready", "failed", "unconfirmed"}
\* A command: its next system call. running_pid is probe, then holding (the
\* lock was free) or reading; a stop goes through the same while it waits, and
\* a last time when it has waited.
Calls == {"idle", "probe", "holding", "reading", "next", "wait", "wait holding",
          "wait reading", "last", "last holding", "last reading", "stopped", "polling", "done"}

Call(kind, at) == [kind |-> kind, at |-> at]

ControlInit ==
  /\ lock = Absent /\ text = Absent /\ health = [pid |-> Absent, connection |-> "none"]
  /\ instance = [p \in Instances |-> "off"]
  /\ connection = [p \in Instances |-> "starting"]
  /\ card_connection = [p \in Instances |-> "starting"]
  /\ asked = {}
  /\ command = [c \in Invocations |-> Call("none", "idle")]
  /\ found = [c \in Invocations |-> Absent]
  /\ child = [c \in Invocations |-> Absent] /\ said = [c \in Invocations |-> "nothing"]

Goto(p, stage) == instance' = [instance EXCEPT ![p] = stage]
Alive(p) == instance[p] \in Holding \cup {"launched"}

-----------------------------------------------------------------------------
(* An instance.                                                             *)

\* `run` typed by a user: configuration, state directory, MCP names.
Launch(p) ==
  /\ instance[p] = "off" /\ Goto(p, "launched")
  /\ UNCHANGED <<file, inside, outside>>

\* acquire_lock: the file is opened, and created, then flock without waiting; a
\* lock that is held ends the program.
AcquireLock(p) ==
  /\ instance[p] = "launched"
  /\ \/ lock = Absent /\ lock' = p /\ Goto(p, "locked")
     \/ lock \in Instances /\ Goto(p, "refused") /\ UNCHANGED lock
     \/ lock \in Invocations /\ Goto(p, "mistaken") /\ UNCHANGED lock
  /\ text' = (IF text = Absent THEN Empty ELSE text)
  /\ UNCHANGED <<inside, outside>>

\* acquire_lock: truncate(), then the pid written and flushed.
Truncate(p) ==
  /\ instance[p] = "locked" /\ Goto(p, "truncated") /\ text' = Empty
  /\ UNCHANGED <<lock, inside, outside>>

WritePid(p) ==
  /\ instance[p] = "truncated" /\ Goto(p, "acquired") /\ text' = p
  /\ UNCHANGED <<lock, inside, outside>>

\* run(): recovery, signal handlers, tasks.
Run(p) ==
  /\ instance[p] = "acquired" /\ Goto(p, "running")
  /\ UNCHANGED <<file, inside, outside>>

\* listen_once for messages: what lark-cli reports. Its reader goes on while the
\* tasks are being cancelled.
HearMessages(p, line) ==
  /\ instance[p] \in {"running", "stopping"}
  /\ line \in {"subscribed", "disconnected"} /\ line # connection[p]
  /\ connection' = [connection EXCEPT ![p] = line]
  /\ UNCHANGED <<file, instance, card_connection, asked, health, outside>>

\* run(): the first of the six tasks to raise ends the whole program: listen after
\* an exit that no new attempt would mend, or any of them for a program that
\* cannot be started, a full disk or a database that is locked.
TaskRaises(p) ==
  /\ instance[p] = "running" /\ Goto(p, "stopping")
  /\ connection' \in {connection, [connection EXCEPT ![p] = "disconnected"]}
  /\ UNCHANGED <<file, card_connection, asked, health, outside>>

\* listen_cards: the same for card actions, except that an exit for want of
\* configuration is final for the cards and ends nothing else.
HearCards(p, line) ==
  /\ instance[p] = "running" /\ card_connection[p] # "configuration_error"
  /\ line \in {"subscribed", "disconnected", "configuration_error"} /\ line # card_connection[p]
  /\ card_connection' = [card_connection EXCEPT ![p] = line]
  /\ UNCHANGED <<file, instance, connection, asked, health, outside>>

\* heartbeat: health.json every two seconds.
Heartbeat(p) ==
  /\ instance[p] = "running"
  /\ health' = [pid |-> p, connection |-> connection[p]]
  /\ UNCHANGED <<file, instance, connection, card_connection, asked, outside>>

\* run(): the stopper wakes, every task is cancelled.
Obey(p) ==
  /\ instance[p] = "running" /\ p \in asked /\ Goto(p, "stopping")
  /\ UNCHANGED <<file, inside, outside>>

\* run(), once every task has ended: the last health, the database closed, the
\* lock released by the with statement. The pid stays in the file.
End(p) ==
  /\ instance[p] = "stopping" /\ Goto(p, "gone") /\ lock' = Absent
  /\ connection' = [connection EXCEPT ![p] = "stopped"]
  /\ health' = [pid |-> p, connection |-> "stopped"]
  /\ card_connection' = [card_connection EXCEPT ![p] = "starting"] /\ asked' = asked \ {p}
  /\ UNCHANGED <<text, outside>>

\* Killed, or an error while it writes the last health: its memory is gone, the
\* system releases the lock, health.json stays.
Die(p) ==
  /\ Alive(p) /\ Goto(p, "killed")
  /\ lock' = (IF lock = p THEN Absent ELSE lock)
  /\ connection' = [connection EXCEPT ![p] = "stopped"]
  /\ card_connection' = [card_connection EXCEPT ![p] = "starting"]
  /\ asked' = asked \ {p}
  /\ UNCHANGED <<text, health, outside>>

-----------------------------------------------------------------------------
(* A command, in its system calls.                                          *)

At(c, kind, at) == command[c] = Call(kind, at)
StepTo(c, at) == command' = [command EXCEPT ![c].at = at]
Say(c, what) == StepTo(c, "done") /\ said' = [said EXCEPT ![c] = what]

Type(c, kind) ==
  /\ command[c].at = "idle" /\ command' = [command EXCEPT ![c] = Call(kind, "probe")]
  /\ UNCHANGED <<file, instance, inside, found, child, said>>

\* running_pid: there is no lock file yet.
NoFile(c) ==
  /\ command[c].at = "probe" /\ text = Absent
  /\ found' = [found EXCEPT ![c] = Absent] /\ StepTo(c, "next")
  /\ UNCHANGED <<file, instance, inside, child, said>>

\* running_pid: the lock is tried; when it is free the probe itself has it now.
Holds(at) == CASE at = "probe" -> "holding" [] at = "wait" -> "wait holding"
               [] at = "last" -> "last holding"
Reads(at) == CASE at = "probe" -> "reading" [] at = "wait" -> "wait reading"
               [] at = "last" -> "last reading"

Probe(c) ==
  /\ command[c].at \in {"probe", "wait", "last"} /\ text # Absent
  /\ \/ lock = Absent /\ lock' = c /\ StepTo(c, Holds(command[c].at))
     \/ lock # Absent /\ StepTo(c, Reads(command[c].at)) /\ UNCHANGED lock
  /\ UNCHANGED <<text, instance, inside, found, child, said>>

\* running_pid returns None, and closing the file gives the lock back. A stop
\* that waited looks once more, and then has its answer.
ProbeFree(c) ==
  /\ \/ command[c].at = "holding" /\ StepTo(c, "next")
     \/ command[c].at = "wait holding" /\ StepTo(c, "last")
     \/ command[c].at = "last holding" /\ StepTo(c, "stopped")
  /\ lock' = Absent
  /\ UNCHANGED <<text, instance, inside, found, child, said>>

\* running_pid: whoever holds the lock, the file is believed; an empty file is
\* a ValueError that ends the command. A stop waits for 15 seconds at most.
ReadPid(c) ==
  /\ command[c].at \in {"reading", "wait reading", "last reading"}
  /\ \/ text = Empty /\ Say(c, "error") /\ UNCHANGED found
     \/ /\ command[c].at = "reading" /\ text \in Instances
        /\ found' = [found EXCEPT ![c] = text] /\ StepTo(c, "next") /\ UNCHANGED said
     \/ /\ command[c].at = "wait reading" /\ text \in Instances
        /\ \E at \in {"wait", "last"} : StepTo(c, at)
        /\ UNCHANGED <<found, said>>
     \/ /\ command[c].at = "last reading" /\ text \in Instances
        /\ Say(c, "cleaning up") /\ UNCHANGED found
  /\ UNCHANGED <<file, instance, inside, child>>

StatusEnds(c) ==
  /\ At(c, "status", "next") /\ Say(c, "status")
  /\ UNCHANGED <<file, instance, inside, found, child>>

\* stop: nothing is running.
NotRunning(c) ==
  /\ At(c, "stop", "next") /\ found[c] = Absent /\ Say(c, "not running")
  /\ UNCHANGED <<file, instance, inside, found, child>>

\* Slip: the signal is taken for the stop.
SignalIsEnough(c) ==
  /\ At(c, "stop", "next") /\ found[c] # Absent
  /\ asked' = asked \cup {found[c]} /\ Say(c, "stopped")
  /\ UNCHANGED <<file, instance, connection, card_connection, health, found, child>>

\* stop: SIGTERM to the pid. Before run() has its handlers it ends the process;
\* for a process that is gone it is an OSError.
Signal(c) ==
  LET p == found[c] IN
  /\ At(c, "stop", "next") /\ p # Absent
  /\ \/ /\ instance[p] \in {"running", "stopping"}
        /\ asked' = asked \cup {p} /\ StepTo(c, "wait")
        /\ UNCHANGED <<lock, instance, said>>
     \/ /\ instance[p] = "acquired"
        /\ Goto(p, "killed") /\ lock' = Absent /\ StepTo(c, "wait")
        /\ UNCHANGED <<asked, said>>
     \/ ~Alive(p) /\ Say(c, "error") /\ UNCHANGED <<lock, instance, asked>>
  /\ UNCHANGED <<text, connection, card_connection, health, found, child>>

\* stop: the last look after the signal found the lock free.
Stopped(c) ==
  /\ At(c, "stop", "stopped") /\ Say(c, "stopped")
  /\ UNCHANGED <<file, instance, inside, found, child>>

\* start: a running program is an error, else a new instance in the background.
LaunchChild(c, p) ==
  /\ At(c, "start", "next")
  /\ \/ found[c] # Absent /\ Say(c, "already running") /\ UNCHANGED <<instance, child>>
     \/ /\ found[c] = Absent /\ instance[p] = "off" /\ Goto(p, "launched")
        /\ child' = [child EXCEPT ![c] = p]
        /\ StepTo(c, "polling") /\ UNCHANGED said
  /\ UNCHANGED <<file, inside, found>>

\* Slip: any subscribed health is taken for the child's.
ReadyByAnyone(c) ==
  /\ At(c, "start", "polling") /\ Alive(child[c])
  /\ health.connection = "subscribed"
  /\ Say(c, "ready")
  /\ UNCHANGED <<file, instance, inside, found, child>>

\* start: the child's own health says that it is subscribed.
Ready(c) ==
  /\ At(c, "start", "polling") /\ Alive(child[c])
  /\ health.pid = child[c] /\ health.connection = "subscribed"
  /\ Say(c, "ready")
  /\ UNCHANGED <<file, instance, inside, found, child>>

\* start: the child has ended, or is not subscribed after 20 seconds.
NotReady(c) ==
  /\ At(c, "start", "polling")
  /\ \/ ~Alive(child[c]) /\ Say(c, "failed")
     \/ Say(c, "unconfirmed")
  /\ UNCHANGED <<file, instance, inside, found, child>>

-----------------------------------------------------------------------------
InstanceStep(p) ==
  \/ Launch(p) \/ AcquireLock(p) \/ Truncate(p) \/ WritePid(p) \/ Run(p)
  \/ \E line \in CardLines : HearMessages(p, line) \/ HearCards(p, line)
  \/ TaskRaises(p) \/ Heartbeat(p) \/ Obey(p) \/ End(p) \/ Die(p)
CommandStep(c) ==
  \/ \E kind \in Kinds : Type(c, kind)
  \/ NoFile(c) \/ Probe(c) \/ ProbeFree(c) \/ ReadPid(c)
  \/ StatusEnds(c) \/ NotRunning(c) \/ Signal(c) \/ Stopped(c)
  \/ \E p \in Instances : LaunchChild(c, p)
  \/ Ready(c) \/ NotReady(c)
ControlNext == (\E p \in Instances : InstanceStep(p)) \/ (\E c \in Invocations : CommandStep(c))
ControlSpec == ControlInit /\ [][ControlNext]_controlVars

-----------------------------------------------------------------------------
ControlTypeOK ==
  /\ lock \in Instances \cup Invocations \cup {Absent} /\ text \in Instances \cup {Absent, Empty}
  /\ instance \in [Instances -> Stages]
  /\ connection \in [Instances -> Lines] /\ card_connection \in [Instances -> CardLines]
  /\ asked \subseteq Instances
  /\ health \in [pid : Instances \cup {Absent}, connection : Lines \cup {"none"}]
  /\ command \in [Invocations -> [kind : Kinds \cup {"none"}, at : Calls]]
  /\ found \in [Invocations -> Instances \cup {Absent}]
  /\ child \in [Invocations -> Instances \cup {Absent}]
  /\ said \in [Invocations -> Words]

\* However instances are launched, killed and probed, at most one at a time is
\* between taking the lock and its end, so one program works on the database.
SingleInstance ==
  \A p, q \in Instances : instance[p] \in Holding /\ instance[q] \in Holding => p = q

\* A stop that says "stopped" has seen the end of the instance it signalled,
\* whatever other probes, instances and stops did meanwhile.
StoppedIsGone ==
  \A c \in Invocations : said[c] = "stopped" => instance[found[c]] \in {"gone", "killed"}

\* A start that says "ready" launched an instance that got as far as run(), not
\* one that a health.json left behind by an earlier one vouches for.
ReadyIsReal ==
  \A c \in Invocations :
    said[c] = "ready" => instance[child[c]] \in {"running", "stopping", "gone", "killed"}

\* The health left by an instance that ended in order says stopped, also when
\* the listener reported something while the tasks were being cancelled.
CleanEndIsRecorded ==
  \A p \in Instances : instance[p] = "gone" /\ health.pid = p => health.connection = "stopped"
=============================================================================
