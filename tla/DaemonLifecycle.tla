--------------------------- MODULE DaemonLifecycle ---------------------------
(***************************************************************************)
(* The muximod process of one instance directory and the CLI commands that *)
(* start, stop and look at it: packages/application/src/usecases/daemon,   *)
(* and muximod's launch.ts, entrypoint.ts, process-files.ts, the start and *)
(* stop of server.ts and the control socket file of control.ts.            *)
(*                                                                         *)
(* Commands are processes of their own, and so are the daemons: nothing is *)
(* shared but files, one TCP port and signals.  A command starts at most   *)
(* one daemon, which therefore bears its name; Old is the daemon of an     *)
(* earlier day, which may still run or may have been killed with its files *)
(* left behind.  An action of a command is what it does between two awaits *)
(* of another process, and a removal of a record is two: the record is     *)
(* read, and what is there a moment later is unlinked.  A process id is    *)
(* not given out twice.                                                    *)
(***************************************************************************)
EXTENDS Naturals, FiniteSets

CONSTANTS
  Commands,     \* invocations of muximo daemon ..., and the daemons they start
  Old,          \* the daemon that was there before them
  None,
  MaxKills      \* how many daemons are killed outright

Daemons == Commands \cup {Old}

ASSUME OldAssumption == Old \notin Commands
ASSUME NoneAssumption == None \notin Daemons
ASSUME KillsAssumption == MaxKills \in Nat

VARIABLES
  kind,         \* what a command is asked to do
  pc,           \* where it waits
  seen,         \* the pid record it read
  healthy,      \* what its health probe was told
  phase,        \* how far each daemon process is
  signalled,    \* daemons that were sent SIGTERM
  killed,       \* daemons that ended without a chance to clean up
  port,         \* the daemon that listens on the HTTP port
  listening,    \* daemons whose control server listens
  path,         \* whose listener the control socket file belongs to
  rec,          \* the daemon named by the pid record
  launch,       \* the daemon named by the launch record
  marker,       \* the command that wrote the restart marker
  interrupted,  \* restarts that were killed half way
  overlapped,   \* daemons that listened while another was still closing
  crossed       \* daemons that were recorded while a record was unlinked

commands == <<kind, pc, seen, healthy, interrupted>>
files == <<path, rec, launch, marker>>
history == <<overlapped, crossed>>
vars == <<commands, phase, signalled, killed, port, listening, files, history>>

Kinds == {"ensure", "stop", "restart", "status"}
Phases == {"none", "booting", "bound", "probed", "listening", "ready", "serving",
           "failing", "unlinking", "draining", "erasing", "tidying", "sweeping",
           "exiting", "dead"}

\* Where a removal of the records of a process stands: about to read the pid
\* record, to unlink it, to read the launch record, to unlink that.
Removals == {"clearing", "erasing", "tidying", "sweeping"}

TypeOK ==
  /\ kind \in [Commands -> Kinds \cup {"none"}]
  /\ pc \in [Commands -> {"idle", "probing", "told", "stopping", "starting",
                          "done", "failed"} \cup Removals]
  /\ seen \in [Commands -> Daemons \cup {None}]
  /\ healthy \in SUBSET Commands
  /\ phase \in [Daemons -> Phases]
  /\ signalled \in SUBSET Daemons
  /\ killed \in SUBSET Daemons
  /\ port \in Daemons \cup {None}
  /\ listening \in SUBSET Daemons
  /\ path \in Daemons \cup {None}
  /\ rec \in Daemons \cup {None}
  /\ launch \in Daemons \cup {None}
  /\ marker \in Commands \cup {None}
  /\ interrupted \in SUBSET Commands
  /\ overlapped \in SUBSET Daemons
  /\ crossed \in SUBSET Daemons

\* No daemon was ever there, or one still serves, or one was killed and its
\* pid record, launch record and socket file were left.
Init ==
  /\ kind = [c \in Commands |-> "none"]
  /\ pc = [c \in Commands |-> "idle"]
  /\ seen = [c \in Commands |-> None]
  /\ healthy = {}
  /\ interrupted = {}
  /\ marker = None
  /\ signalled = {}
  /\ overlapped = {}
  /\ crossed = {}
  /\ \E p \in {"none", "serving", "dead"} :
       LET left == IF p = "none" THEN None ELSE Old
           up == IF p = "serving" THEN {Old} ELSE {}
       IN /\ phase = [d \in Daemons |-> IF d = Old THEN p ELSE "none"]
          /\ killed = IF p = "dead" THEN {Old} ELSE {}
          /\ listening = up
          /\ port = IF p = "serving" THEN Old ELSE None
          /\ path = left
          /\ rec = left
          /\ launch = left
-----------------------------------------------------------------------------
(* The ports a command has to the daemon: MuximodRuntime *)

Alive(d) == phase[d] \notin {"none", "dead"}

\* GET /health is answered with 503 until restoreActiveLaunches returned.
Answers(d) == d # None /\ phase[d] \in {"ready", "serving"}

\* Mutant: whatever record is there is removed.
NamesAny(d) == rec # None

\* removeMuximodPidRecord goes on if the record it reads names d.
Names(d) == rec = d

\* spawn: the child first, then its launch record.
Spawn(c) ==
  /\ phase' = [phase EXCEPT ![c] = "booting"]
  /\ launch' = c
  /\ pc' = [pc EXCEPT ![c] = "starting"]

Goes(c, where) == pc' = [pc EXCEPT ![c] = where]

\* Mutant: a restart that fails leaves its marker.
FailsQuietly(c) == Goes(c, "failed") /\ UNCHANGED marker

\* A command ends with an error; RestartDaemon takes its marker back when
\* it is StopDaemon that failed.
StopFails(c) ==
  /\ Goes(c, "failed")
  /\ marker' = IF kind[c] = "restart" THEN None ELSE marker

\* StopDaemon returned: the end of stop, and where restart goes on.
Stopped(c) ==
  IF kind[c] = "restart" THEN Spawn(c)
  ELSE Goes(c, "done") /\ UNCHANGED <<phase, launch>>
-----------------------------------------------------------------------------
(* Commands *)

\* The first reads of each command.  Stop and restart look at once whether
\* the process they read of is alive, and clean up after a dead one.
Begin(c, k) ==
  /\ pc[c] = "idle"
  /\ kind' = [kind EXCEPT ![c] = k]
  /\ seen' = [seen EXCEPT ![c] = rec]
  /\ marker' = IF k = "restart" THEN c ELSE marker
  /\ Goes(c, IF k \in {"stop", "restart"} /\ rec # None /\ ~Alive(rec)
             THEN "clearing" ELSE "probing")
  /\ UNCHANGED <<healthy, interrupted, phase, signalled, killed, port, listening,
                 path, rec, launch, history>>

\* isHealthy reads the record again and wants the one it was given, if any;
\* stop falls back on the endpoint it read before (isProcessHealthy).  An
\* answer that takes more than 500 ms is none.
Probe(c) ==
  /\ pc[c] = "probing"
  /\ Goes(c, "told")
  /\ \/ /\ \/ Answers(rec) /\ seen[c] \in {None, rec}
           \/ kind[c] \in {"stop", "restart"} /\ Answers(seen[c])
        /\ healthy' = healthy \cup {c}
     \/ UNCHANGED healthy
  /\ UNCHANGED <<kind, seen, interrupted, phase, signalled, killed, port,
                 listening, files, history>>

\* EnsureDaemon, and StartDaemon, which is the same.
EnsureDecides(c) ==
  /\ pc[c] = "told" /\ kind[c] = "ensure"
  /\ CASE c \in healthy -> Goes(c, "done") /\ UNCHANGED <<phase, launch>>
       [] c \notin healthy /\ seen[c] # None /\ Alive(seen[c]) ->
            Goes(c, "failed") /\ UNCHANGED <<phase, launch>>
       [] OTHER -> Spawn(c)
  /\ UNCHANGED <<kind, seen, healthy, interrupted, signalled, killed, port,
                 listening, path, rec, marker, history>>

\* StopDaemon, alone or at the start of RestartDaemon; process.kill throws
\* when the process has died meanwhile.
StopDecides(c) ==
  /\ pc[c] = "told" /\ kind[c] \in {"stop", "restart"}
  /\ \/ /\ c \notin healthy /\ seen[c] = None
        /\ Stopped(c)
        /\ UNCHANGED <<signalled, marker>>
     \/ /\ c \in healthy /\ seen[c] # None /\ Alive(seen[c])
        /\ signalled' = signalled \cup {seen[c]}
        /\ Goes(c, "stopping")
        /\ UNCHANGED <<phase, launch, marker>>
     \/ /\ \/ c \in healthy /\ (seen[c] # None => ~Alive(seen[c]))
           \/ c \notin healthy /\ seen[c] # None
        /\ StopFails(c)
        /\ UNCHANGED <<phase, launch, signalled>>
  /\ UNCHANGED <<kind, seen, healthy, interrupted, killed, port, listening, path,
                 rec, history>>

\* The end of waitFor: the process is gone, removePidRecord is called.
StopReturns(c) ==
  /\ pc[c] = "stopping" /\ ~Alive(seen[c])
  /\ Goes(c, "clearing")
  /\ UNCHANGED <<kind, seen, healthy, interrupted, phase, signalled, killed, port,
                 listening, files, history>>

StopTimesOut(c) ==
  /\ pc[c] = "stopping" /\ Alive(seen[c])
  /\ StopFails(c)
  /\ UNCHANGED <<kind, seen, healthy, interrupted, phase, signalled, killed, port,
                 listening, path, rec, launch, history>>

\* waitForHealthyOrExit: the child answers and its record is written.
StartReturns(c) ==
  /\ pc[c] = "starting" /\ rec = c /\ Answers(c)
  /\ Goes(c, "done")
  /\ UNCHANGED <<kind, seen, healthy, interrupted, phase, signalled, killed, port,
                 listening, files, history>>

\* The child exited; its handle goes on to remove the launch record.
StartExits(c) ==
  /\ pc[c] = "starting" /\ phase[c] = "dead"
  /\ Goes(c, "tidying")
  /\ UNCHANGED <<kind, seen, healthy, interrupted, phase, signalled, killed, port,
                 listening, files, history>>

\* Mutant: the child is left to itself.
StartTimesOutOnly(c) ==
  /\ pc[c] = "starting" /\ Alive(c)
  /\ Goes(c, "failed")
  /\ UNCHANGED <<kind, seen, healthy, interrupted, phase, signalled, killed, port,
                 listening, files, history>>

\* The deadline passes: terminateQuietly.
StartTimesOut(c) ==
  /\ pc[c] = "starting" /\ Alive(c)
  /\ Goes(c, "failed")
  /\ signalled' = signalled \cup {c}
  /\ UNCHANGED <<kind, seen, healthy, interrupted, phase, killed, port, listening,
                 files, history>>

\* StatusDaemon removes the record of a process that is gone.
StatusDecides(c) ==
  /\ pc[c] = "told" /\ kind[c] = "status"
  /\ Goes(c, IF c \notin healthy /\ seen[c] # None /\ ~Alive(seen[c])
             THEN "clearing" ELSE "done")
  /\ UNCHANGED <<kind, seen, healthy, interrupted, phase, signalled, killed, port,
                 listening, files, history>>

\* The process whose records a command removes: the child its start lost,
\* or the one it read of.
Removed(c) == IF phase[c] = "none" THEN seen[c] ELSE c

\* What follows a removal: the failure of a start, the end of status, or
\* what follows StopDaemon.
RemovalEnds(c) ==
  IF phase[c] # "none" THEN Goes(c, "failed") /\ UNCHANGED <<phase, launch>>
  ELSE IF kind[c] = "status" THEN Goes(c, "done") /\ UNCHANGED <<phase, launch>>
  ELSE Stopped(c)

\* removeMuximodPidRecord reads the record.
Clear(c) ==
  /\ pc[c] = "clearing"
  /\ Goes(c, IF Names(seen[c]) THEN "erasing" ELSE "tidying")
  /\ UNCHANGED <<kind, seen, healthy, interrupted, phase, signalled, killed, port,
                 listening, files, history>>

\* ... and unlinks the one that is there by now, if any.
Erase(c) ==
  /\ pc[c] = "erasing"
  /\ rec' = None
  /\ Goes(c, "tidying")
  /\ UNCHANGED <<kind, seen, healthy, interrupted, phase, signalled, killed, port,
                 listening, path, launch, marker, history>>

\* removeMuximodLaunchRecord reads the launch record.
Tidy(c) ==
  /\ pc[c] = "tidying"
  /\ IF launch = Removed(c)
     THEN Goes(c, "sweeping") /\ UNCHANGED <<phase, launch>>
     ELSE RemovalEnds(c)
  /\ UNCHANGED <<kind, seen, healthy, interrupted, signalled, killed, port,
                 listening, path, rec, marker, history>>

\* ... and unlinks it likewise; a restart spawns its child next.
Sweep(c) ==
  /\ pc[c] = "sweeping"
  /\ IF phase[c] = "none" /\ kind[c] = "restart"
     THEN Spawn(c)
     ELSE /\ launch' = None
          /\ Goes(c, IF phase[c] = "none" THEN "done" ELSE "failed")
          /\ UNCHANGED phase
  /\ UNCHANGED <<kind, seen, healthy, interrupted, signalled, killed, port,
                 listening, path, rec, marker, history>>

\* The user interrupts a command; the daemon it started is detached.
Interrupt(c) ==
  /\ pc[c] \in {"probing", "told", "stopping", "starting"} \cup Removals
  /\ Goes(c, "failed")
  /\ interrupted' = interrupted \cup {c}
  /\ UNCHANGED <<kind, seen, healthy, phase, signalled, killed, port, listening,
                 files, history>>
-----------------------------------------------------------------------------
(* The daemon: runMuximod and the server it starts *)

Reaches(d, p) == phase' = [phase EXCEPT ![d] = p]

\* SIGTERM before runMuximod installed its handler.
DiesBooting(d) ==
  /\ phase[d] = "booting" /\ d \in signalled
  /\ Reaches(d, "dead")
  /\ killed' = killed \cup {d}
  /\ UNCHANGED <<commands, signalled, port, listening, files, history>>

\* Bun.serve: the port is free or start fails.  A configuration or a
\* database that cannot be read fails before.
Bind(d) ==
  /\ phase[d] = "booting"
  /\ \/ port = None /\ port' = d /\ Reaches(d, "bound")
     \/ Reaches(d, "draining") /\ UNCHANGED port
  /\ UNCHANGED <<commands, signalled, killed, listening, files, history>>

\* removeStaleSocket asks whether somebody listens at the path.
ControlProbe(d) ==
  /\ phase[d] = "bound"
  /\ Reaches(d, IF path \in listening THEN "failing" ELSE "probed")
  /\ UNCHANGED <<commands, signalled, killed, port, listening, files, history>>

\* The stale file is unlinked and the server listens in its place.
ControlListen(d) ==
  /\ phase[d] = "probed"
  /\ Reaches(d, "listening")
  /\ listening' = listening \cup {d}
  /\ path' = d
  /\ overlapped' = IF \E e \in Daemons : phase[e] = "unlinking"
                   THEN overlapped \cup {d} ELSE overlapped
  /\ UNCHANGED <<commands, signalled, killed, port, rec, launch, marker, crossed>>

\* backend.restoreActiveLaunches
Restore(d) ==
  /\ phase[d] = "listening"
  /\ \/ Reaches(d, "ready") \/ Reaches(d, "failing")
  /\ UNCHANGED <<commands, signalled, killed, port, listening, files, history>>

\* Somebody read a record and is about to unlink what it finds in its place.
Erasing ==
  \/ \E c \in Commands : pc[c] = "erasing"
  \/ \E d \in Daemons : phase[d] = "erasing"

\* The pid record is written and the restart marker consumed.
Publish(d) ==
  /\ phase[d] = "ready"
  /\ Reaches(d, "serving")
  /\ rec' = d
  /\ marker' = None
  /\ crossed' = IF Erasing THEN crossed \cup {d} ELSE crossed
  /\ UNCHANGED <<commands, signalled, killed, port, listening, path, launch,
                 overlapped>>

\* The signal, early or late, begins the shutdown: server.stop closes the
\* HTTP port and the control server's listener before its first await.
Shutdown(d) ==
  /\ phase[d] = "serving" /\ d \in signalled
  /\ Reaches(d, "unlinking")
  /\ port' = None
  /\ listening' = listening \ {d}
  /\ UNCHANGED <<commands, signalled, killed, files, history>>

\* The catch of server.start: the control server, if it listened, then the
\* rest; the HTTP port is given up last.
StartFails(d) ==
  /\ phase[d] = "failing"
  /\ Reaches(d, IF d \in listening THEN "unlinking" ELSE "draining")
  /\ listening' = listening \ {d}
  /\ UNCHANGED <<commands, signalled, killed, port, files, history>>

\* removeSocketFile, after the close of the listener was awaited.
Unlink(d) ==
  /\ phase[d] = "unlinking"
  /\ path' = None
  /\ Reaches(d, "draining")
  /\ UNCHANGED <<commands, signalled, killed, port, listening, rec, launch, marker,
                 history>>

\* Mutant: the records are removed when a start failed, and else left.
DrainedOnly(d) ==
  /\ phase[d] = "draining"
  /\ Reaches(d, IF port # d THEN "exiting"
                ELSE IF Names(d) THEN "erasing" ELSE "tidying")
  /\ port' = IF port = d THEN None ELSE port
  /\ UNCHANGED <<commands, signalled, killed, listening, files, history>>

\* Backends, terminal sessions and the database are closed, then both
\* records are to go if they name this process: the pid record is read.
Drained(d) ==
  /\ phase[d] = "draining"
  /\ Reaches(d, IF Names(d) THEN "erasing" ELSE "tidying")
  /\ port' = IF port = d THEN None ELSE port
  /\ UNCHANGED <<commands, signalled, killed, listening, files, history>>

\* The pid record that is there by now is unlinked.
Erased(d) ==
  /\ phase[d] = "erasing"
  /\ rec' = None
  /\ Reaches(d, "tidying")
  /\ UNCHANGED <<commands, signalled, killed, port, listening, path, launch, marker,
                 history>>

\* The launch record is read ...
Tidied(d) ==
  /\ phase[d] = "tidying"
  /\ Reaches(d, IF launch = d THEN "sweeping" ELSE "exiting")
  /\ UNCHANGED <<commands, signalled, killed, port, listening, files, history>>

\* ... and the one that is there by now unlinked.
Swept(d) ==
  /\ phase[d] = "sweeping"
  /\ launch' = None
  /\ Reaches(d, "exiting")
  /\ UNCHANGED <<commands, signalled, killed, port, listening, path, rec, marker,
                 history>>

Exit(d) ==
  /\ phase[d] = "exiting"
  /\ Reaches(d, "dead")
  /\ UNCHANGED <<commands, signalled, killed, port, listening, files, history>>

\* SIGKILL, a crash or a reboot: the kernel frees the port and the listener,
\* the files stay.
Kill(d) ==
  /\ Alive(d) /\ Cardinality(killed) < MaxKills
  /\ Reaches(d, "dead")
  /\ killed' = killed \cup {d}
  /\ port' = IF port = d THEN None ELSE port
  /\ listening' = listening \ {d}
  /\ UNCHANGED <<commands, signalled, files, history>>
-----------------------------------------------------------------------------
CommandStep(c) ==
  \/ Probe(c) \/ EnsureDecides(c) \/ StopDecides(c) \/ StatusDecides(c)
  \/ StopReturns(c) \/ StopTimesOut(c)
  \/ Clear(c) \/ Erase(c) \/ Tidy(c) \/ Sweep(c)
  \/ StartReturns(c) \/ StartExits(c) \/ StartTimesOut(c)

DaemonStep(d) ==
  \/ Bind(d) \/ ControlProbe(d) \/ ControlListen(d) \/ Restore(d) \/ Publish(d)
  \/ Shutdown(d) \/ StartFails(d) \/ Unlink(d) \/ Drained(d)
  \/ Erased(d) \/ Tidied(d) \/ Swept(d) \/ Exit(d)

Next ==
  \/ \E c \in Commands : CommandStep(c) \/ Interrupt(c)
                         \/ \E k \in Kinds : Begin(c, k)
  \/ \E d \in Daemons : DaemonStep(d) \/ DiesBooting(d) \/ Kill(d)

Spec == Init /\ [][Next]_vars

\* The processes run; a deadline passes if nothing else ends the wait.
Fairness ==
  /\ \A c \in Commands : WF_vars(CommandStep(c))
  /\ \A d \in Daemons : WF_vars(DaemonStep(d))

FairSpec == Spec /\ Fairness
-----------------------------------------------------------------------------
(* Properties *)

\* A daemon that serves is the one the pid record names, whatever other
\* commands and daemons that lose the port (server.ts:564), clean up after
\* themselves (process-files.ts:14) or find stale (stop-daemon.ts:18) do;
\* unless, when it published the record, one of them had read another there
\* and was about to unlink it (process-files.ts:15 and 18).
ServingIsRecorded ==
  \A d \in Daemons : phase[d] = "serving" /\ d \notin crossed => rec = d

\* ... and the one the control socket file leads to, unless another daemon
\* was still to remove that file when this one listened (control.ts:172).
ServingIsReachable ==
  \A d \in Daemons : phase[d] = "serving" /\ d \notin overlapped => path = d

\* A daemon that serves can be found: both lead to it.
ServingIsFound == ServingIsRecorded /\ ServingIsReachable

\* A restart marker no restart still accounts for is there only while no
\* daemon serves that could be found: the next one to start consumes it
\* (restart-daemon.ts:13, entrypoint.ts:202).
MarkerIsPending ==
  (marker # None /\ marker \notin interrupted
     /\ pc[marker] \in {"done", "failed"})
   => \A d \in Daemons : phase[d] # "serving" \/ d \in crossed

\* A daemon that ended in its own time left no record behind, however its
\* start or its shutdown went (entrypoint.ts:146 and 208).
ExitLeavesNoRecord ==
  \A d \in Daemons :
     phase[d] = "dead" /\ d \notin killed => rec # d /\ launch # d

\* A start that was reported as failed leaves no daemon for long
\* (ensure-daemon.ts:37, entrypoint.ts:128 and 229).
FailedStartEnds ==
  \A c \in Commands : pc[c] = "failed" /\ c \notin interrupted ~> ~Alive(c)
=============================================================================
