--------------------------- MODULE AgentSession ---------------------------
(***************************************************************************)
(* One agent session name of one workspace: the row the daemon keeps for   *)
(* it in SQLite, and the command-line calls that create, resume, complete, *)
(* recover and remove it (run-session.ts, resume-session.ts,               *)
(* cleanup-session.ts, attach-agent-session.ts over sqlite/agent-session.ts*)
(* and the calls of muximo-cli/src/cli/compose.ts).                        *)
(*                                                                         *)
(* A call is a command-line process.  A run or a resume asks the daemon to *)
(* prepare an execution, starts the provider itself, reports the provider's*)
(* pid (attach, best effort) and finally the provider's result (complete). *)
(* The call is also the name of everything that is made once per call: the *)
(* execution id, the pid of the command (executionOwnerPid), the pid of its*)
(* provider, and, for a run, the id of the row it inserts.                 *)
(*                                                                         *)
(* SQLite, git and the observation of a process are synchronous calls of   *)
(* the daemon, so the code between two waits for a hook, a provider's      *)
(* backend or tmux is one action.  Every such wait is a phase of the       *)
(* handler, at which the other calls interleave and the daemon may die.    *)
(***************************************************************************)
EXTENDS Naturals, FiniteSets

CONSTANTS Calls,        \* the command-line calls, each used at most once
          None,         \* an absent row, execution or pid
          MaxCrashes    \* how often the daemon may die

ASSUME CallsAssumption == IsFiniteSet(Calls) /\ None \notin Calls
ASSUME MaxCrashesAssumption == MaxCrashes \in Nat

VARIABLES
  row,        \* the row of the name, or None
  receipts,   \* the executions whose result is in agent_execution_receipts
  op,         \* what each call asks for
  cli,        \* how far the command is
  provider,   \* the provider process the command started
  attach,     \* the command's attach request
  handler,    \* the phase of the daemon's handler of the call
  loc,        \* the record that handler holds, as it last read or wrote it
  crashes     \* how often the daemon has died

vars == <<row, receipts, op, cli, provider, attach, handler, loc, crashes>>

\* starting stands for starting, setup and ready, which every guard treats alike.
\* exec stands for executionId, executionOwnerPid and their start times, which
\* every statement writes together.
Statuses == {"starting", "running", "resuming", "recovering", "exited"}
Rows == [id : Calls, status : Statuses, exec : Calls \cup {None}, pid : Calls \cup {None}]

\* An absent row is told apart from every row.
ASSUME NoneAssumption == None \notin Rows

Phases == {"off", "create", "setup", "launch", "dispose", "unwind", "recover", "recoverRemove",
           "complete", "publish", "completeRemove", "cleanup"}

TypeOK ==
  /\ row \in Rows \cup {None}
  /\ receipts \subseteq Calls
  /\ op \in [Calls -> {"run", "resume", "cleanup", None}]
  /\ cli \in [Calls -> {"idle", "prepare", "ready", "provider", "report", "done", "dead"}]
  /\ provider \in [Calls -> {"none", "alive", "exited"}]
  /\ attach \in [Calls -> {"unsent", "sent", "settled", "lost"}]
  /\ handler \in [Calls -> Phases]
  /\ loc \in [Calls -> Rows \cup {None}]
  /\ crashes \in 0..MaxCrashes

Init ==
  /\ row = None
  /\ receipts = {}
  /\ op = [i \in Calls |-> None]
  /\ cli = [i \in Calls |-> "idle"]
  /\ provider = [i \in Calls |-> "none"]
  /\ attach = [i \in Calls |-> "unsent"]
  /\ handler = [i \in Calls |-> "off"]
  /\ loc = [i \in Calls |-> None]
  /\ crashes = 0

-----------------------------------------------------------------------------
(* The statements of the repository. *)

\* update: the whole record, addressed by id alone.
Updated(record) == IF row # None /\ row.id = record.id THEN record ELSE row

\* delete: by id alone.
Deleted(record) == IF row # None /\ row.id = record.id THEN None ELSE row

\* The record an ended execution leaves.
Ended(record) == [record EXCEPT !.status = "exited", !.exec = None, !.pid = None]

\* What the daemon observes of the processes a record names.
ProviderDead(record) == record.pid # None => provider[record.pid] # "alive"
OwnerDead(record) == record.exec # None => cli[record.exec] \in {"done", "dead"}

\* A command whose connection is closed has aborted its preparation.
Aborted(i) == cli[i] = "dead"

Enter(i, phase, record) ==
  /\ handler' = [handler EXCEPT ![i] = phase]
  /\ loc' = [loc EXCEPT ![i] = record]

Leave(i) ==
  /\ Enter(i, "off", None)
  /\ cli' = [cli EXCEPT ![i] = IF @ = "dead" THEN @ ELSE "done"]

Called(i, kind) ==
  /\ cli[i] = "idle"
  /\ op' = [op EXCEPT ![i] = kind]
  /\ cli' = [cli EXCEPT ![i] = "prepare"]

\* A call that is refused, for any of the reasons the handlers have: the name
\* is taken, unknown, alive, or a process could not be observed.
Refused(i) ==
  /\ cli[i] = "idle"
  /\ cli' = [cli EXCEPT ![i] = "done"]
  /\ UNCHANGED <<row, receipts, op, provider, attach, handler, loc, crashes>>

-----------------------------------------------------------------------------
(* Run: prepare, with the recovery of an abandoned execution of the name. *)

\* The name is free when it is looked up.
RunFindsNothing(i) ==
  /\ Called(i, "run")
  /\ row = None
  /\ Enter(i, "create", None)
  /\ UNCHANGED <<row, receipts, provider, attach, crashes>>

\* The executions RunAgentSession.completions knows: those of runs alone.
Completing(e) == op[e] = "run" /\ handler[e] \in {"complete", "publish", "completeRemove"}

\* run-session.ts without 192-194 and 206-208.
AbandonedAnyway(record) ==
  /\ record.status \in {"running", "resuming"}
  /\ record.exec # None /\ record.pid # None
  /\ ProviderDead(record) /\ OwnerDead(record)

Abandoned(record) ==
  /\ record.status \in {"running", "resuming"}
  /\ record.exec # None /\ record.pid # None
  /\ ProviderDead(record) /\ OwnerDead(record)
  /\ ~ Completing(record.exec)

RunClaimsAbandoned(i) ==
  /\ row # None /\ Abandoned(row)
  /\ Called(i, "run")
  /\ row' = [row EXCEPT !.status = "recovering"]
  /\ Enter(i, "recover", row')
  /\ UNCHANGED <<receipts, provider, attach, crashes>>

\* run-session.ts without 266.
LeavesRecovering(i) ==
  /\ handler[i] = "recover"
  /\ \/ /\ row' = Updated(Ended(loc[i]))
        /\ Enter(i, "recoverRemove", Ended(loc[i])) /\ UNCHANGED cli
     \/ Leave(i) /\ UNCHANGED row
  /\ UNCHANGED <<receipts, op, provider, attach, crashes>>

\* disposeLaunch ends; its failure ends the call after markExecutionFailed.
RecoveryDisposes(i) ==
  /\ handler[i] = "recover"
  /\ row' = Updated(Ended(loc[i]))
  /\ \/ Enter(i, "recoverRemove", Ended(loc[i])) /\ UNCHANGED cli
     \/ Leave(i)
  /\ UNCHANGED <<receipts, op, provider, attach, crashes>>

\* removeResources of a recovery.  Cancellation is looked at only afterwards.
RecoveryRemoves(i) ==
  /\ handler[i] = "recoverRemove"
  /\ row' = Deleted(loc[i])
  /\ IF Aborted(i) THEN Leave(i) ELSE Enter(i, "create", None) /\ UNCHANGED cli
  /\ UNCHANGED <<receipts, op, provider, attach, crashes>>

RecoveryRemovalFails(i) ==
  /\ handler[i] = "recoverRemove"
  /\ row' = Updated(loc[i])
  /\ Leave(i)
  /\ UNCHANGED <<receipts, op, provider, attach, crashes>>

\* The hooks are resolved and the worktree exists: insert, which the unique
\* index on the name refuses when another call was faster.
Create(i) ==
  /\ handler[i] = "create"
  /\ IF row = None /\ ~ Aborted(i)
     THEN /\ row' = [id |-> i, status |-> "starting", exec |-> i, pid |-> None]
          /\ Enter(i, "setup", row')
          /\ UNCHANGED cli
     ELSE Leave(i) /\ UNCHANGED row
  /\ UNCHANGED <<receipts, op, provider, attach, crashes>>

\* The files are copied, the setup hook has run and the baseline is captured.
SetupDone(i) ==
  /\ handler[i] = "setup" /\ ~ Aborted(i)
  /\ LET record == [loc[i] EXCEPT !.status = "running"]
     IN /\ row' = Updated(record)
        /\ Enter(i, "launch", record)
  /\ UNCHANGED <<receipts, op, cli, provider, attach, crashes>>

\* prepareLaunch ends, for a run or a resume, and the execution is handed to
\* the command.  Persisting the provider's session id rewrites the record.
LaunchPrepared(i) ==
  /\ handler[i] = "launch" /\ ~ Aborted(i)
  /\ row' \in {row, Updated(loc[i])}
  /\ Enter(i, "off", None)
  /\ cli' = [cli EXCEPT ![i] = "ready"]
  /\ UNCHANGED <<receipts, op, provider, attach, crashes>>

\* The command is gone when prepareLaunch ends: the launch is disposed of.
LaunchAborted(i) ==
  /\ handler[i] = "launch" /\ Aborted(i)
  /\ Enter(i, "dispose", loc[i])
  /\ UNCHANGED <<row, receipts, op, cli, provider, attach, crashes>>

\* A preparation fails, is cancelled, or has disposed of its launch:
\* cleanupFailedStartup of a run, markExecutionFailed of a resume.
PreparationFails(i) ==
  /\ handler[i] \in {"setup", "launch", "dispose"}
  /\ row' = Updated(Ended(loc[i]))
  /\ IF op[i] = "run" THEN Enter(i, "unwind", Ended(loc[i])) /\ UNCHANGED cli ELSE Leave(i)
  /\ UNCHANGED <<receipts, op, provider, attach, crashes>>

-----------------------------------------------------------------------------
(* Resume. *)

\* resume-session.ts without 58-68.
AdmitsOwned(record) ==
  \/ record.status = "exited"
  \/ /\ record.status \in {"running", "resuming"}
     /\ record.pid # None
     /\ ProviderDead(record)

\* The guards of prepare before the claim, on the record it located.
ResumeAdmits(record) ==
  \/ record.status = "exited"
  \/ /\ record.status \in {"running", "resuming"}
     /\ record.pid # None
     /\ ProviderDead(record) /\ OwnerDead(record)

\* claimExecution matches the pid the guards read, and the record that is
\* persisted right after it writes the same.
ResumeClaims(i) ==
  /\ row # None /\ ResumeAdmits(row)
  /\ Called(i, "resume")
  /\ row' = [row EXCEPT !.status = "resuming", !.exec = i, !.pid = None]
  /\ Enter(i, "launch", row')
  /\ UNCHANGED <<receipts, provider, attach, crashes>>

-----------------------------------------------------------------------------
(* The command and its provider. *)

\* The provider starts, and the command sends attach without waiting for it.
ProviderStarts(i) ==
  /\ cli[i] = "ready"
  /\ cli' = [cli EXCEPT ![i] = "provider"]
  /\ provider' = [provider EXCEPT ![i] = "alive"]
  /\ attach' = [attach EXCEPT ![i] = "sent"]
  /\ UNCHANGED <<row, receipts, op, handler, loc, crashes>>

\* It cannot be started: that is the result the command reports.
ProviderFailsToStart(i) ==
  /\ cli[i] = "ready"
  /\ cli' = [cli EXCEPT ![i] = "report"]
  /\ UNCHANGED <<row, receipts, op, provider, attach, handler, loc, crashes>>

ProviderExits(i) ==
  /\ provider[i] = "alive"
  /\ provider' = [provider EXCEPT ![i] = "exited"]
  /\ UNCHANGED <<row, receipts, op, cli, attach, handler, loc, crashes>>

\* The command waits for its provider, and at most a while for attach.
CommandReports(i) ==
  /\ cli[i] = "provider" /\ provider[i] = "exited"
  /\ cli' = [cli EXCEPT ![i] = "report"]
  /\ UNCHANGED <<row, receipts, op, provider, attach, handler, loc, crashes>>

\* The command is killed; its provider may live on.
CommandDies(i) ==
  /\ cli[i] \in {"prepare", "ready", "provider", "report"}
  /\ cli' = [cli EXCEPT ![i] = "dead"]
  /\ UNCHANGED <<row, receipts, op, provider, attach, handler, loc, crashes>>

-----------------------------------------------------------------------------
(* Attach. *)

\* attachExecution and its caller without the execution id.
AttachesAnyExecution(i) ==
  /\ row # None /\ row.status \in {"running", "resuming"}
  /\ row.pid = None

\* The id of the row the command was told: its own for a run, the located one
\* for a resume.  A resume's is the row it claimed, which is found by execution.
AttachAdmits(i) ==
  /\ row # None /\ row.exec = i
  /\ row.status \in {"running", "resuming"}
  /\ row.pid = None

\* The request is handled.  A living command reads the answer, or sends the
\* request again when the answer was lost.
AttachHandled(i) ==
  /\ attach[i] = "sent"
  /\ row' = IF AttachAdmits(i) THEN [row EXCEPT !.pid = i] ELSE row
  /\ attach' \in {[attach EXCEPT ![i] = a] :
                     a \in IF cli[i] = "dead" THEN {"lost"} ELSE {"sent", "settled"}}
  /\ UNCHANGED <<receipts, op, cli, provider, handler, loc, crashes>>

\* The daemon never sees it: the command is dead, or has tried five times.
AttachLost(i) ==
  /\ attach[i] = "sent"
  /\ attach' = [attach EXCEPT ![i] = "lost"]
  /\ UNCHANGED <<row, receipts, op, cli, provider, handler, loc, crashes>>

-----------------------------------------------------------------------------
(* Complete. *)

ExpectedStatus(i) == IF op[i] = "run" THEN "running" ELSE "resuming"

Current(i) == row # None /\ row.exec = i /\ row.status = ExpectedStatus(i)

\* completeOnce begins.  While it is in flight, or when the row is being
\* recovered, no second one does: a repeated request joins the first.
CompletionStarts(i) ==
  /\ cli[i] = "report" /\ handler[i] = "off"
  /\ i \notin receipts /\ Current(i)
  /\ Enter(i, "complete", row)
  /\ UNCHANGED <<row, receipts, op, cli, provider, attach, crashes>>

\* A repeated request is answered from the receipt, or refused because the
\* execution is no longer current.
CompletionAnswered(i) ==
  /\ cli[i] = "report" /\ handler[i] = "off"
  /\ i \in receipts \/ ~ Current(i)
  /\ cli' = [cli EXCEPT ![i] = "done"]
  /\ UNCHANGED <<row, receipts, op, provider, attach, handler, loc, crashes>>

\* completeLaunch ends; a provider session id found late is persisted with the
\* record that was read at the start.
LaunchCompleted(i) ==
  /\ handler[i] = "complete"
  /\ row' \in {row, Updated(loc[i])}
  /\ Enter(i, "publish", loc[i])
  /\ UNCHANGED <<receipts, op, cli, provider, attach, crashes>>

\* completeLaunch or publish fails: markExecutionFailed, and no receipt.
CompletionFails(i) ==
  /\ handler[i] \in {"complete", "publish"}
  /\ row' = Updated(Ended(loc[i]))
  /\ Leave(i)
  /\ UNCHANGED <<receipts, op, provider, attach, crashes>>

\* The pane is published and released: the result is persisted.  A run whose
\* provider never started loses its resources before the receipt is saved.
Finalized(i) ==
  /\ handler[i] = "publish"
  /\ row' = Updated(Ended(loc[i]))
  /\ IF op[i] = "run" /\ provider[i] = "none"
     THEN Enter(i, "completeRemove", Ended(loc[i])) /\ UNCHANGED <<receipts, cli>>
     ELSE Leave(i) /\ receipts' = receipts \cup {i}
  /\ UNCHANGED <<op, provider, attach, crashes>>

\* removeResources of that run ends, with or without success.
CompletionRemoves(i) ==
  /\ handler[i] = "completeRemove"
  /\ row' \in {row, Updated(loc[i]), Deleted(loc[i])}
  /\ receipts' = receipts \cup {i}
  /\ Leave(i)
  /\ UNCHANGED <<op, provider, attach, crashes>>

-----------------------------------------------------------------------------
(* Cleanup. *)

\* cleanup-session.ts:57,62 with isActiveState for isLiveExecutionState.
CleansStarting(record) ==
  /\ record.status # "recovering"
  /\ ProviderDead(record)
  /\ record.status \in {"running", "resuming"} => OwnerDead(record)

CleanupAdmits(record) ==
  /\ record.status # "recovering"
  /\ ProviderDead(record)
  /\ record.status # "exited" => OwnerDead(record)

CleanupStarts(i) ==
  /\ row # None /\ CleanupAdmits(row)
  /\ Called(i, "cleanup")
  /\ Enter(i, "cleanup", row)
  /\ UNCHANGED <<row, receipts, provider, attach, crashes>>

\* removeResources of a cleanup or of a failed startup ends.  Running the
\* cleanup hook rewrites the record; a success deletes the row.
Removed(i) ==
  /\ handler[i] \in {"cleanup", "unwind"}
  /\ row' \in {row, Updated(loc[i]), Deleted(loc[i])}
  /\ Leave(i)
  /\ UNCHANGED <<receipts, op, provider, attach, crashes>>

-----------------------------------------------------------------------------
(* The daemon dies and is started again.  A prepare or a cleanup ends with *)
(* an error; attach and complete are sent again by the command.            *)
DaemonCrashes ==
  /\ crashes < MaxCrashes
  /\ crashes' = crashes + 1
  /\ handler' = [i \in Calls |-> "off"]
  /\ loc' = [i \in Calls |-> None]
  /\ cli' = [i \in Calls |-> IF cli[i] = "prepare" THEN "done" ELSE cli[i]]
  /\ UNCHANGED <<row, receipts, op, provider, attach>>

Handles(i) ==
  \/ RecoveryDisposes(i) \/ RecoveryRemoves(i) \/ RecoveryRemovalFails(i)
  \/ Create(i) \/ SetupDone(i) \/ LaunchPrepared(i) \/ LaunchAborted(i) \/ PreparationFails(i)
  \/ LaunchCompleted(i) \/ CompletionFails(i) \/ Finalized(i) \/ CompletionRemoves(i)
  \/ Removed(i)

Next ==
  \/ \E i \in Calls :
       \/ Refused(i) \/ RunFindsNothing(i) \/ RunClaimsAbandoned(i) \/ ResumeClaims(i) \/ CleanupStarts(i)
       \/ ProviderStarts(i) \/ ProviderFailsToStart(i) \/ ProviderExits(i)
       \/ CommandReports(i) \/ CommandDies(i)
       \/ AttachHandled(i) \/ AttachLost(i)
       \/ CompletionStarts(i) \/ CompletionAnswered(i)
       \/ Handles(i)
  \/ DaemonCrashes

Spec == Init /\ [][Next]_vars

-----------------------------------------------------------------------------
(* Properties. *)

\* Holding an execution: the command has it and has not reported yet, or its
\* provider, which the command has seen attached, lives on.
Holds(i) ==
  \/ cli[i] \in {"ready", "provider"}
  \/ provider[i] = "alive" /\ attach[i] = "settled"

\* A run in progress owns its name: whatever resumes, recoveries, cleanups and
\* late completions of other calls are under way, and however often the daemon
\* died, the row of a run whose command or attached provider is alive stays,
\* running and with that execution (run-session.ts:174-213, resume-session.ts:41-68,
\* cleanup-session.ts:40-73).
RunKeepsItsRow ==
  \A i \in Calls :
    op[i] = "run" /\ Holds(i) =>
      row # None /\ row.id = i /\ row.exec = i /\ row.status = "running"

\* A result is never turned away: while the daemon lives, the first report of
\* a run finds its execution current (run-session.ts:293-296).
RunCanComplete ==
  \A i \in Calls :
    op[i] = "run" /\ cli[i] = "report" /\ handler[i] = "off" /\ crashes = 0 => Current(i)

\* From its insertion to its first report a run is left in peace: both of them.
RunIsUndisturbed == RunKeepsItsRow /\ RunCanComplete

\* The pid in the row is the pid of the row's own execution, also when an
\* attach arrives after the execution ended and the session was resumed
\* (attach-agent-session.ts:28-68, sqlite/agent-session.ts:138-150).
PidIsOfExecution == row # None /\ row.pid # None => row.pid = row.exec

\* No recovery and completion of one run at a time: a recovery never has the
\* row while the completion of that run is in flight (run-session.ts:192,204-208,287).
RunFinalizedAlone ==
  \A i \in Calls :
    Completing(i) => ~ (row # None /\ row.exec = i /\ row.status = "recovering")

\* Nobody works on the name: every command is gone and no handler is active.
Quiet ==
  \A i \in Calls :
    cli[i] \in {"idle", "done", "dead"} /\ provider[i] # "alive" /\ handler[i] = "off"

\* A name is never blocked for good: when nobody works on it, its row can at
\* least be cleaned up.  run-session.ts:229-231 names the state that would
\* break this.
NameIsNotBlocked == Quiet /\ row # None => CleanupAdmits(row)

\* The same as long as the daemon does not die: however recoveries, setups and
\* completions fail, they leave a row that can be cleaned up
\* (run-session.ts:265-267, resume-session.ts:104-113).
NameIsNotBlockedByFailures == crashes = 0 => NameIsNotBlocked

\* A run that is being set up keeps its name while its command lives: neither a
\* cleanup nor a resume nor a recovery touches the row before the command has
\* started anything (cleanup-session.ts:57-66, resume-session.ts:44-48,
\* run-session.ts:176-185).
PreparationKeepsItsRow ==
  \A i \in Calls :
    handler[i] \in {"setup", "launch"} /\ op[i] = "run" /\ cli[i] # "dead" =>
      row # None /\ row.id = i /\ row.exec = i /\ row.pid = None
=============================================================================
