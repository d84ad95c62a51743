------------------------ MODULE AgentSessionProofs ------------------------
(***************************************************************************)
(* AgentSession for any number of calls and crashes: a run keeps its row,  *)
(* its result is accepted, a pid stays with its execution, a run is never  *)
(* recovered while it is completed, and no failure blocks the name.        *)
(***************************************************************************)
EXTENDS AgentSession, TLAPS

-----------------------------------------------------------------------------
(* The inductive invariant. *)

\* The record a handler holds is there when the handler is going to write it.
HoldsRecord ==
  \A i \in Calls : handler[i] \notin {"off", "create"} => loc[i] \in Rows

\* A command, its provider and its handler are at stages that go together.
Stages ==
  \A i \in Calls :
    /\ cli[i] = "idle" => handler[i] = "off"
    /\ cli[i] \in {"idle", "prepare", "ready"} => attach[i] = "unsent" /\ provider[i] = "none"
    /\ provider[i] = "alive" => cli[i] \in {"provider", "dead"} /\ handler[i] = "off"
    /\ cli[i] \in {"ready", "provider", "done"} => handler[i] = "off"
    /\ handler[i] \in {"create", "setup", "launch", "dispose", "unwind", "recover",
                       "recoverRemove", "cleanup"} => cli[i] \in {"prepare", "dead"}
    /\ handler[i] \in {"create", "setup", "recover", "recoverRemove"} => op[i] = "run"

\* The calls whose row has been inserted.
Inserted(k) ==
  /\ op[k] = "run" /\ cli[k] # "idle"
  /\ handler[k] \notin {"create", "recover", "recoverRemove"}

IdsAreInserted ==
  /\ row # None => Inserted(row.id)
  /\ \A j \in Calls : loc[j] # None => Inserted(loc[j].id)

\* A run that is being prepared holds its own record.
OwnRecord ==
  \A i \in Calls :
    handler[i] \in {"setup", "launch"} /\ op[i] = "run" =>
      /\ loc[i].id = i /\ loc[i].exec = i /\ loc[i].pid = None
      /\ loc[i].status = IF handler[i] = "setup" THEN "starting" ELSE "running"

\* A run that is prepared, held or about to be reported for the first time.
Preparing(i) == handler[i] \in {"setup", "launch"} /\ cli[i] # "dead"
Reporting(i) == cli[i] = "report" /\ handler[i] = "off" /\ crashes = 0
Held(i) == op[i] = "run" /\ (Preparing(i) \/ Holds(i) \/ Reporting(i))

\* Its row is its own, and says so in a way no guard of another call accepts.
RowIsKept(i) ==
  /\ row # None /\ row.id = i /\ row.exec = i
  /\ row.pid \in {None, i}
  /\ row.status = IF handler[i] = "setup" THEN "starting" ELSE "running"
  /\ Preparing(i) => row.pid = None
  /\ attach[i] = "settled" => row.pid = i

\* And no other handler holds a record of it to put back.
NoRivalRecord(i) ==
  \A j \in Calls \ {i} : loc[j] # None => loc[j].id # i

HeldIsKept == \A i \in Calls : Held(i) => RowIsKept(i) /\ NoRivalRecord(i)

\* Records in handlers pair pid and execution, and only a recovery that has
\* just claimed holds one that says recovering.
RecordsPair ==
  \A j \in Calls : loc[j] # None /\ loc[j].pid # None
    => loc[j].pid = loc[j].exec

RecoveringIsRecovery ==
  \A j \in Calls : loc[j] # None /\ loc[j].status = "recovering"
    => handler[j] = "recover"

\* An execution of the row, or of a record in a handler, is of a call that has
\* begun: its command can be looked for.
ExecutionsBegan ==
  /\ row # None /\ row.exec # None => cli[row.exec] # "idle"
  /\ \A j \in Calls : loc[j] # None /\ loc[j].exec # None
       => cli[loc[j].exec] # "idle"

\* While the daemon has not died, whoever marked the row as recovering is there.
RecoveryGoesOn ==
  crashes = 0 /\ row # None /\ row.status = "recovering" =>
    \E j \in Calls : handler[j] = "recover" /\ loc[j].id = row.id

IInv ==
  /\ TypeOK /\ HoldsRecord /\ Stages
  /\ IdsAreInserted /\ OwnRecord /\ HeldIsKept
  /\ PidIsOfExecution /\ RecordsPair
  /\ RecoveringIsRecovery /\ RunFinalizedAlone
  /\ ExecutionsBegan /\ RecoveryGoesOn

-----------------------------------------------------------------------------
(* Every step preserves every part. *)

\* What an ended record is.
LEMMA EndedRecord ==
  \A r \in Rows :
    /\ Ended(r) \in Rows
    /\ Ended(r).id = r.id /\ Ended(r).status = "exited"
    /\ Ended(r).exec = None /\ Ended(r).pid = None
BY DEF Ended, Rows, Statuses

\* The types.
LEMMA TypeStep ==
  ASSUME TypeOK, HoldsRecord, [Next]_vars
  PROVE  TypeOK'
<1> USE DEF TypeOK, HoldsRecord, Rows, Statuses, Phases
<1>1. ASSUME NEW i \in Calls, Refused(i)
      PROVE  TypeOK'
  BY <1>1, CallsAssumption, NoneAssumption DEF Refused
<1>2. ASSUME NEW i \in Calls, RunFindsNothing(i)
      PROVE  TypeOK'
  BY <1>2, CallsAssumption, NoneAssumption DEF RunFindsNothing, Called, Enter
<1>3. ASSUME NEW i \in Calls, RunClaimsAbandoned(i)
      PROVE  TypeOK'
  BY <1>3, CallsAssumption, NoneAssumption DEF RunClaimsAbandoned, Called,
     Enter
<1>4. ASSUME NEW i \in Calls, ResumeClaims(i)
      PROVE  TypeOK'
  BY <1>4, CallsAssumption, NoneAssumption DEF ResumeClaims, Called, Enter
<1>5. ASSUME NEW i \in Calls, CleanupStarts(i)
      PROVE  TypeOK'
  BY <1>5, CallsAssumption, NoneAssumption DEF CleanupStarts, Called, Enter
<1>6. ASSUME NEW i \in Calls, ProviderStarts(i)
      PROVE  TypeOK'
  BY <1>6, CallsAssumption, NoneAssumption DEF ProviderStarts
<1>7. ASSUME NEW i \in Calls, ProviderFailsToStart(i)
      PROVE  TypeOK'
  BY <1>7, CallsAssumption, NoneAssumption DEF ProviderFailsToStart
<1>8. ASSUME NEW i \in Calls, ProviderExits(i)
      PROVE  TypeOK'
  BY <1>8, CallsAssumption, NoneAssumption DEF ProviderExits
<1>9. ASSUME NEW i \in Calls, CommandReports(i)
      PROVE  TypeOK'
  BY <1>9, CallsAssumption, NoneAssumption DEF CommandReports
<1>10. ASSUME NEW i \in Calls, CommandDies(i)
      PROVE  TypeOK'
  BY <1>10, CallsAssumption, NoneAssumption DEF CommandDies
<1>11. ASSUME NEW i \in Calls, AttachHandled(i)
      PROVE  TypeOK'
  BY <1>11, CallsAssumption, NoneAssumption DEF AttachHandled, AttachAdmits
<1>12. ASSUME NEW i \in Calls, AttachLost(i)
      PROVE  TypeOK'
  BY <1>12, CallsAssumption, NoneAssumption DEF AttachLost
<1>13. ASSUME NEW i \in Calls, CompletionStarts(i)
      PROVE  TypeOK'
  BY <1>13, CallsAssumption, NoneAssumption DEF CompletionStarts, Enter,
     Current
<1>14. ASSUME NEW i \in Calls, CompletionAnswered(i)
      PROVE  TypeOK'
  BY <1>14, CallsAssumption, NoneAssumption DEF CompletionAnswered
<1>15. ASSUME NEW i \in Calls, RecoveryDisposes(i)
      PROVE  TypeOK'
  BY <1>15, CallsAssumption, NoneAssumption, EndedRecord DEF RecoveryDisposes,
     Enter, Leave, Updated
<1>16. ASSUME NEW i \in Calls, RecoveryRemoves(i)
      PROVE  TypeOK'
  BY <1>16, CallsAssumption, NoneAssumption DEF RecoveryRemoves, Enter, Leave,
     Aborted, Deleted
<1>17. ASSUME NEW i \in Calls, RecoveryRemovalFails(i)
      PROVE  TypeOK'
  BY <1>17, CallsAssumption, NoneAssumption, EndedRecord
     DEF RecoveryRemovalFails, Enter, Leave, Updated
<1>18. ASSUME NEW i \in Calls, Create(i)
      PROVE  TypeOK'
  BY <1>18, CallsAssumption, NoneAssumption DEF Create, Enter, Leave, Aborted
<1>19. ASSUME NEW i \in Calls, SetupDone(i)
      PROVE  TypeOK'
  BY <1>19, CallsAssumption, NoneAssumption, EndedRecord DEF SetupDone, Enter,
     Aborted, Updated
<1>20. ASSUME NEW i \in Calls, LaunchPrepared(i)
      PROVE  TypeOK'
  BY <1>20, CallsAssumption, NoneAssumption, EndedRecord DEF LaunchPrepared,
     Enter, Aborted, Updated
<1>21. ASSUME NEW i \in Calls, LaunchAborted(i)
      PROVE  TypeOK'
  BY <1>21, CallsAssumption, NoneAssumption DEF LaunchAborted, Enter, Aborted
<1>22. ASSUME NEW i \in Calls, PreparationFails(i)
      PROVE  TypeOK'
  BY <1>22, CallsAssumption, NoneAssumption, EndedRecord DEF PreparationFails,
     Enter, Leave, Updated
<1>23. ASSUME NEW i \in Calls, LaunchCompleted(i)
      PROVE  TypeOK'
  BY <1>23, CallsAssumption, NoneAssumption, EndedRecord DEF LaunchCompleted,
     Enter, Updated
<1>24. ASSUME NEW i \in Calls, CompletionFails(i)
      PROVE  TypeOK'
  BY <1>24, CallsAssumption, NoneAssumption, EndedRecord DEF CompletionFails,
     Enter, Leave, Updated
<1>25. ASSUME NEW i \in Calls, Finalized(i)
      PROVE  TypeOK'
  BY <1>25, CallsAssumption, NoneAssumption, EndedRecord DEF Finalized, Enter,
     Leave, Updated
<1>26. ASSUME NEW i \in Calls, CompletionRemoves(i)
      PROVE  TypeOK'
  BY <1>26, CallsAssumption, NoneAssumption, EndedRecord DEF CompletionRemoves,
     Enter, Leave, Updated, Deleted
<1>27. ASSUME NEW i \in Calls, Removed(i)
      PROVE  TypeOK'
  BY <1>27, CallsAssumption, NoneAssumption, EndedRecord DEF Removed, Enter,
     Leave, Updated, Deleted
<1>28. CASE DaemonCrashes
  BY <1>28, CallsAssumption, NoneAssumption, MaxCrashesAssumption
     DEF DaemonCrashes
<1>29. CASE UNCHANGED vars
  BY <1>29 DEF vars
<1>30. QED
  BY <1>1, <1>2, <1>3, <1>4, <1>5, <1>6, <1>7, <1>8, <1>9, <1>10, <1>11, <1>12,
     <1>13, <1>14, <1>15, <1>16, <1>17, <1>18, <1>19, <1>20, <1>21, <1>22,
     <1>23, <1>24, <1>25, <1>26, <1>27, <1>28, <1>29 DEF Next, Handles

\* Handlers keep the record they will write.
LEMMA RecordStep ==
  ASSUME TypeOK, HoldsRecord, [Next]_vars
  PROVE  HoldsRecord'
<1> USE DEF TypeOK, HoldsRecord, Rows, Statuses
<1>1. ASSUME NEW i \in Calls, Refused(i)
      PROVE  HoldsRecord'
  BY <1>1, CallsAssumption, NoneAssumption DEF Refused
<1>2. ASSUME NEW i \in Calls, RunFindsNothing(i)
      PROVE  HoldsRecord'
  BY <1>2, CallsAssumption, NoneAssumption DEF RunFindsNothing, Called, Enter
<1>3. ASSUME NEW i \in Calls, RunClaimsAbandoned(i)
      PROVE  HoldsRecord'
  BY <1>3, CallsAssumption, NoneAssumption DEF RunClaimsAbandoned, Called,
     Enter
<1>4. ASSUME NEW i \in Calls, ResumeClaims(i)
      PROVE  HoldsRecord'
  BY <1>4, CallsAssumption, NoneAssumption DEF ResumeClaims, Called, Enter
<1>5. ASSUME NEW i \in Calls, CleanupStarts(i)
      PROVE  HoldsRecord'
  BY <1>5, CallsAssumption, NoneAssumption DEF CleanupStarts, Called, Enter
<1>6. ASSUME NEW i \in Calls, ProviderStarts(i)
      PROVE  HoldsRecord'
  BY <1>6, CallsAssumption, NoneAssumption DEF ProviderStarts
<1>7. ASSUME NEW i \in Calls, ProviderFailsToStart(i)
      PROVE  HoldsRecord'
  BY <1>7, CallsAssumption, NoneAssumption DEF ProviderFailsToStart
<1>8. ASSUME NEW i \in Calls, ProviderExits(i)
      PROVE  HoldsRecord'
  BY <1>8, CallsAssumption, NoneAssumption DEF ProviderExits
<1>9. ASSUME NEW i \in Calls, CommandReports(i)
      PROVE  HoldsRecord'
  BY <1>9, CallsAssumption, NoneAssumption DEF CommandReports
<1>10. ASSUME NEW i \in Calls, CommandDies(i)
      PROVE  HoldsRecord'
  BY <1>10, CallsAssumption, NoneAssumption DEF CommandDies
<1>11. ASSUME NEW i \in Calls, AttachHandled(i)
      PROVE  HoldsRecord'
  BY <1>11, CallsAssumption, NoneAssumption DEF AttachHandled, AttachAdmits
<1>12. ASSUME NEW i \in Calls, AttachLost(i)
      PROVE  HoldsRecord'
  BY <1>12, CallsAssumption, NoneAssumption DEF AttachLost
<1>13. ASSUME NEW i \in Calls, CompletionStarts(i)
      PROVE  HoldsRecord'
  BY <1>13, CallsAssumption, NoneAssumption DEF CompletionStarts, Enter,
     Current
<1>14. ASSUME NEW i \in Calls, CompletionAnswered(i)
      PROVE  HoldsRecord'
  BY <1>14, CallsAssumption, NoneAssumption DEF CompletionAnswered
<1>15. ASSUME NEW i \in Calls, RecoveryDisposes(i)
      PROVE  HoldsRecord'
  BY <1>15, CallsAssumption, NoneAssumption, EndedRecord DEF RecoveryDisposes,
     Enter, Leave, Updated
<1>16. ASSUME NEW i \in Calls, RecoveryRemoves(i)
      PROVE  HoldsRecord'
  BY <1>16, CallsAssumption, NoneAssumption DEF RecoveryRemoves, Enter, Leave,
     Aborted, Deleted
<1>17. ASSUME NEW i \in Calls, RecoveryRemovalFails(i)
      PROVE  HoldsRecord'
  BY <1>17, CallsAssumption, NoneAssumption, EndedRecord
     DEF RecoveryRemovalFails, Enter, Leave, Updated
<1>18. ASSUME NEW i \in Calls, Create(i)
      PROVE  HoldsRecord'
  BY <1>18, CallsAssumption, NoneAssumption DEF Create, Enter, Leave, Aborted
<1>19. ASSUME NEW i \in Calls, SetupDone(i)
      PROVE  HoldsRecord'
  BY <1>19, CallsAssumption, NoneAssumption, EndedRecord DEF SetupDone, Enter,
     Aborted, Updated
<1>20. ASSUME NEW i \in Calls, LaunchPrepared(i)
      PROVE  HoldsRecord'
  BY <1>20, CallsAssumption, NoneAssumption, EndedRecord DEF LaunchPrepared,
     Enter, Aborted, Updated
<1>21. ASSUME NEW i \in Calls, LaunchAborted(i)
      PROVE  HoldsRecord'
  BY <1>21, CallsAssumption, NoneAssumption DEF LaunchAborted, Enter, Aborted
<1>22. ASSUME NEW i \in Calls, PreparationFails(i)
      PROVE  HoldsRecord'
  BY <1>22, CallsAssumption, NoneAssumption, EndedRecord DEF PreparationFails,
     Enter, Leave, Updated
<1>23. ASSUME NEW i \in Calls, LaunchCompleted(i)
      PROVE  HoldsRecord'
  BY <1>23, CallsAssumption, NoneAssumption, EndedRecord DEF LaunchCompleted,
     Enter, Updated
<1>24. ASSUME NEW i \in Calls, CompletionFails(i)
      PROVE  HoldsRecord'
  BY <1>24, CallsAssumption, NoneAssumption, EndedRecord DEF CompletionFails,
     Enter, Leave, Updated
<1>25. ASSUME NEW i \in Calls, Finalized(i)
      PROVE  HoldsRecord'
  BY <1>25, CallsAssumption, NoneAssumption, EndedRecord DEF Finalized, Enter,
     Leave, Updated
<1>26. ASSUME NEW i \in Calls, CompletionRemoves(i)
      PROVE  HoldsRecord'
  BY <1>26, CallsAssumption, NoneAssumption, EndedRecord DEF CompletionRemoves,
     Enter, Leave, Updated, Deleted
<1>27. ASSUME NEW i \in Calls, Removed(i)
      PROVE  HoldsRecord'
  BY <1>27, CallsAssumption, NoneAssumption, EndedRecord DEF Removed, Enter,
     Leave, Updated, Deleted
<1>28. CASE DaemonCrashes
  BY <1>28, CallsAssumption, NoneAssumption DEF DaemonCrashes
<1>29. CASE UNCHANGED vars
  BY <1>29 DEF vars
<1>30. QED
  BY <1>1, <1>2, <1>3, <1>4, <1>5, <1>6, <1>7, <1>8, <1>9, <1>10, <1>11, <1>12,
     <1>13, <1>14, <1>15, <1>16, <1>17, <1>18, <1>19, <1>20, <1>21, <1>22,
     <1>23, <1>24, <1>25, <1>26, <1>27, <1>28, <1>29 DEF Next, Handles

\* Commands, providers and handlers stay in step.
LEMMA StagesStep ==
  ASSUME TypeOK, Stages, [Next]_vars
  PROVE  Stages'
<1> USE DEF TypeOK, Stages
<1>1. ASSUME NEW i \in Calls, Refused(i)
      PROVE  Stages'
  BY <1>1 DEF Refused
<1>2. ASSUME NEW i \in Calls, RunFindsNothing(i)
      PROVE  Stages'
  BY <1>2 DEF RunFindsNothing, Called, Enter
<1>3. ASSUME NEW i \in Calls, RunClaimsAbandoned(i)
      PROVE  Stages'
  BY <1>3 DEF RunClaimsAbandoned, Called, Enter
<1>4. ASSUME NEW i \in Calls, ResumeClaims(i)
      PROVE  Stages'
  BY <1>4 DEF ResumeClaims, Called, Enter
<1>5. ASSUME NEW i \in Calls, CleanupStarts(i)
      PROVE  Stages'
  BY <1>5 DEF CleanupStarts, Called, Enter
<1>6. ASSUME NEW i \in Calls, ProviderStarts(i)
      PROVE  Stages'
  BY <1>6 DEF ProviderStarts
<1>7. ASSUME NEW i \in Calls, ProviderFailsToStart(i)
      PROVE  Stages'
  BY <1>7 DEF ProviderFailsToStart
<1>8. ASSUME NEW i \in Calls, ProviderExits(i)
      PROVE  Stages'
  BY <1>8 DEF ProviderExits
<1>9. ASSUME NEW i \in Calls, CommandReports(i)
      PROVE  Stages'
  BY <1>9 DEF CommandReports
<1>10. ASSUME NEW i \in Calls, CommandDies(i)
      PROVE  Stages'
  BY <1>10 DEF CommandDies
<1>11. ASSUME NEW i \in Calls, AttachHandled(i)
      PROVE  Stages'
  BY <1>11 DEF AttachHandled, AttachAdmits
<1>12. ASSUME NEW i \in Calls, AttachLost(i)
      PROVE  Stages'
  BY <1>12 DEF AttachLost
<1>13. ASSUME NEW i \in Calls, CompletionStarts(i)
      PROVE  Stages'
  BY <1>13 DEF CompletionStarts, Enter, Current
<1>14. ASSUME NEW i \in Calls, CompletionAnswered(i)
      PROVE  Stages'
  BY <1>14 DEF CompletionAnswered
<1>15. ASSUME NEW i \in Calls, RecoveryDisposes(i)
      PROVE  Stages'
  BY <1>15 DEF RecoveryDisposes, Enter, Leave, Updated
<1>16. ASSUME NEW i \in Calls, RecoveryRemoves(i)
      PROVE  Stages'
  BY <1>16 DEF RecoveryRemoves, Enter, Leave, Aborted, Deleted
<1>17. ASSUME NEW i \in Calls, RecoveryRemovalFails(i)
      PROVE  Stages'
  BY <1>17 DEF RecoveryRemovalFails, Enter, Leave, Updated
<1>18. ASSUME NEW i \in Calls, Create(i)
      PROVE  Stages'
  BY <1>18 DEF Create, Enter, Leave, Aborted
<1>19. ASSUME NEW i \in Calls, SetupDone(i)
      PROVE  Stages'
  BY <1>19 DEF SetupDone, Enter, Aborted, Updated
<1>20. ASSUME NEW i \in Calls, LaunchPrepared(i)
      PROVE  Stages'
  BY <1>20 DEF LaunchPrepared, Enter, Aborted, Updated
<1>21. ASSUME NEW i \in Calls, LaunchAborted(i)
      PROVE  Stages'
  BY <1>21 DEF LaunchAborted, Enter, Aborted
<1>22. ASSUME NEW i \in Calls, PreparationFails(i)
      PROVE  Stages'
  BY <1>22 DEF PreparationFails, Enter, Leave, Updated
<1>23. ASSUME NEW i \in Calls, LaunchCompleted(i)
      PROVE  Stages'
  BY <1>23 DEF LaunchCompleted, Enter, Updated
<1>24. ASSUME NEW i \in Calls, CompletionFails(i)
      PROVE  Stages'
  BY <1>24 DEF CompletionFails, Enter, Leave, Updated
<1>25. ASSUME NEW i \in Calls, Finalized(i)
      PROVE  Stages'
  BY <1>25 DEF Finalized, Enter, Leave, Updated
<1>26. ASSUME NEW i \in Calls, CompletionRemoves(i)
      PROVE  Stages'
  BY <1>26 DEF CompletionRemoves, Enter, Leave, Updated, Deleted
<1>27. ASSUME NEW i \in Calls, Removed(i)
      PROVE  Stages'
  BY <1>27 DEF Removed, Enter, Leave, Updated, Deleted
<1>28. CASE DaemonCrashes
  BY <1>28 DEF DaemonCrashes
<1>29. CASE UNCHANGED vars
  BY <1>29 DEF vars
<1>30. QED
  BY <1>1, <1>2, <1>3, <1>4, <1>5, <1>6, <1>7, <1>8, <1>9, <1>10, <1>11, <1>12,
     <1>13, <1>14, <1>15, <1>16, <1>17, <1>18, <1>19, <1>20, <1>21, <1>22,
     <1>23, <1>24, <1>25, <1>26, <1>27, <1>28, <1>29 DEF Next, Handles

\* What has been inserted stays so.
LEMMA InsertedStays ==
  ASSUME TypeOK, Stages, NEW k \in Calls, Inserted(k), [Next]_vars
  PROVE  Inserted(k)'
<1> USE DEF TypeOK, Stages, Inserted
<1>1. ASSUME NEW i \in Calls, Refused(i)
      PROVE  Inserted(k)'
  BY <1>1 DEF Refused
<1>2. ASSUME NEW i \in Calls, RunFindsNothing(i)
      PROVE  Inserted(k)'
  BY <1>2 DEF RunFindsNothing, Called, Enter
<1>3. ASSUME NEW i \in Calls, RunClaimsAbandoned(i)
      PROVE  Inserted(k)'
  BY <1>3 DEF RunClaimsAbandoned, Called, Enter
<1>4. ASSUME NEW i \in Calls, ResumeClaims(i)
      PROVE  Inserted(k)'
  BY <1>4 DEF ResumeClaims, Called, Enter
<1>5. ASSUME NEW i \in Calls, CleanupStarts(i)
      PROVE  Inserted(k)'
  BY <1>5 DEF CleanupStarts, Called, Enter
<1>6. ASSUME NEW i \in Calls, ProviderStarts(i)
      PROVE  Inserted(k)'
  BY <1>6 DEF ProviderStarts
<1>7. ASSUME NEW i \in Calls, ProviderFailsToStart(i)
      PROVE  Inserted(k)'
  BY <1>7 DEF ProviderFailsToStart
<1>8. ASSUME NEW i \in Calls, ProviderExits(i)
      PROVE  Inserted(k)'
  BY <1>8 DEF ProviderExits
<1>9. ASSUME NEW i \in Calls, CommandReports(i)
      PROVE  Inserted(k)'
  BY <1>9 DEF CommandReports
<1>10. ASSUME NEW i \in Calls, CommandDies(i)
      PROVE  Inserted(k)'
  BY <1>10 DEF CommandDies
<1>11. ASSUME NEW i \in Calls, AttachHandled(i)
      PROVE  Inserted(k)'
  BY <1>11 DEF AttachHandled, AttachAdmits
<1>12. ASSUME NEW i \in Calls, AttachLost(i)
      PROVE  Inserted(k)'
  BY <1>12 DEF AttachLost
<1>13. ASSUME NEW i \in Calls, CompletionStarts(i)
      PROVE  Inserted(k)'
  BY <1>13 DEF CompletionStarts, Enter, Current
<1>14. ASSUME NEW i \in Calls, CompletionAnswered(i)
      PROVE  Inserted(k)'
  BY <1>14 DEF CompletionAnswered
<1>15. ASSUME NEW i \in Calls, RecoveryDisposes(i)
      PROVE  Inserted(k)'
  BY <1>15 DEF RecoveryDisposes, Enter, Leave, Updated
<1>16. ASSUME NEW i \in Calls, RecoveryRemoves(i)
      PROVE  Inserted(k)'
  BY <1>16 DEF RecoveryRemoves, Enter, Leave, Aborted, Deleted
<1>17. ASSUME NEW i \in Calls, RecoveryRemovalFails(i)
      PROVE  Inserted(k)'
  BY <1>17 DEF RecoveryRemovalFails, Enter, Leave, Updated
<1>18. ASSUME NEW i \in Calls, Create(i)
      PROVE  Inserted(k)'
  BY <1>18 DEF Create, Enter, Leave, Aborted
<1>19. ASSUME NEW i \in Calls, SetupDone(i)
      PROVE  Inserted(k)'
  BY <1>19 DEF SetupDone, Enter, Aborted, Updated
<1>20. ASSUME NEW i \in Calls, LaunchPrepared(i)
      PROVE  Inserted(k)'
  BY <1>20 DEF LaunchPrepared, Enter, Aborted, Updated
<1>21. ASSUME NEW i \in Calls, LaunchAborted(i)
      PROVE  Inserted(k)'
  BY <1>21 DEF LaunchAborted, Enter, Aborted
<1>22. ASSUME NEW i \in Calls, PreparationFails(i)
      PROVE  Inserted(k)'
  BY <1>22 DEF PreparationFails, Enter, Leave, Updated
<1>23. ASSUME NEW i \in Calls, LaunchCompleted(i)
      PROVE  Inserted(k)'
  BY <1>23 DEF LaunchCompleted, Enter, Updated
<1>24. ASSUME NEW i \in Calls, CompletionFails(i)
      PROVE  Inserted(k)'
  BY <1>24 DEF CompletionFails, Enter, Leave, Updated
<1>25. ASSUME NEW i \in Calls, Finalized(i)
      PROVE  Inserted(k)'
  BY <1>25 DEF Finalized, Enter, Leave, Updated
<1>26. ASSUME NEW i \in Calls, CompletionRemoves(i)
      PROVE  Inserted(k)'
  BY <1>26 DEF CompletionRemoves, Enter, Leave, Updated, Deleted
<1>27. ASSUME NEW i \in Calls, Removed(i)
      PROVE  Inserted(k)'
  BY <1>27 DEF Removed, Enter, Leave, Updated, Deleted
<1>28. CASE DaemonCrashes
  BY <1>28 DEF DaemonCrashes
<1>29. CASE UNCHANGED vars
  BY <1>29 DEF vars
<1>30. QED
  BY <1>1, <1>2, <1>3, <1>4, <1>5, <1>6, <1>7, <1>8, <1>9, <1>10, <1>11, <1>12,
     <1>13, <1>14, <1>15, <1>16, <1>17, <1>18, <1>19, <1>20, <1>21, <1>22,
     <1>23, <1>24, <1>25, <1>26, <1>27, <1>28, <1>29 DEF Next, Handles

\* Ids are those of rows that were inserted.
LEMMA InsertedStep ==
  ASSUME TypeOK, HoldsRecord, Stages, IdsAreInserted, [Next]_vars
  PROVE  IdsAreInserted'
<1> USE DEF TypeOK, HoldsRecord, Stages, IdsAreInserted, Rows
<1>1. ASSUME NEW i \in Calls, Refused(i)
      PROVE  IdsAreInserted'
  BY <1>1, InsertedStays, CallsAssumption, NoneAssumption DEF Refused
<1>2. ASSUME NEW i \in Calls, RunFindsNothing(i)
      PROVE  IdsAreInserted'
  BY <1>2, InsertedStays, CallsAssumption, NoneAssumption DEF RunFindsNothing,
     Called, Enter
<1>3. ASSUME NEW i \in Calls, RunClaimsAbandoned(i)
      PROVE  IdsAreInserted'
  BY <1>3, InsertedStays, CallsAssumption, NoneAssumption
     DEF RunClaimsAbandoned, Called, Enter
<1>4. ASSUME NEW i \in Calls, ResumeClaims(i)
      PROVE  IdsAreInserted'
  BY <1>4, InsertedStays, CallsAssumption, NoneAssumption DEF ResumeClaims,
     Called, Enter
<1>5. ASSUME NEW i \in Calls, CleanupStarts(i)
      PROVE  IdsAreInserted'
  BY <1>5, InsertedStays, CallsAssumption, NoneAssumption DEF CleanupStarts,
     Called, Enter
<1>6. ASSUME NEW i \in Calls, ProviderStarts(i)
      PROVE  IdsAreInserted'
  BY <1>6, InsertedStays, CallsAssumption, NoneAssumption DEF ProviderStarts
<1>7. ASSUME NEW i \in Calls, ProviderFailsToStart(i)
      PROVE  IdsAreInserted'
  BY <1>7, InsertedStays, CallsAssumption, NoneAssumption
     DEF ProviderFailsToStart
<1>8. ASSUME NEW i \in Calls, ProviderExits(i)
      PROVE  IdsAreInserted'
  BY <1>8, InsertedStays, CallsAssumption, NoneAssumption DEF ProviderExits
<1>9. ASSUME NEW i \in Calls, CommandReports(i)
      PROVE  IdsAreInserted'
  BY <1>9, InsertedStays, CallsAssumption, NoneAssumption DEF CommandReports
<1>10. ASSUME NEW i \in Calls, CommandDies(i)
      PROVE  IdsAreInserted'
  BY <1>10, InsertedStays, CallsAssumption, NoneAssumption DEF CommandDies
<1>11. ASSUME NEW i \in Calls, AttachHandled(i)
      PROVE  IdsAreInserted'
  BY <1>11, InsertedStays, CallsAssumption, NoneAssumption DEF AttachHandled,
     AttachAdmits
<1>12. ASSUME NEW i \in Calls, AttachLost(i)
      PROVE  IdsAreInserted'
  BY <1>12, InsertedStays, CallsAssumption, NoneAssumption DEF AttachLost
<1>13. ASSUME NEW i \in Calls, CompletionStarts(i)
      PROVE  IdsAreInserted'
  BY <1>13, InsertedStays, CallsAssumption, NoneAssumption
     DEF CompletionStarts, Enter, Current
<1>14. ASSUME NEW i \in Calls, CompletionAnswered(i)
      PROVE  IdsAreInserted'
  BY <1>14, InsertedStays, CallsAssumption, NoneAssumption
     DEF CompletionAnswered
<1>15. ASSUME NEW i \in Calls, RecoveryDisposes(i)
      PROVE  IdsAreInserted'
  BY <1>15, InsertedStays, CallsAssumption, NoneAssumption, EndedRecord
     DEF RecoveryDisposes, Enter, Leave, Updated
<1>16. ASSUME NEW i \in Calls, RecoveryRemoves(i)
      PROVE  IdsAreInserted'
  BY <1>16, InsertedStays, CallsAssumption, NoneAssumption DEF RecoveryRemoves,
     Enter, Leave, Aborted, Deleted
<1>17. ASSUME NEW i \in Calls, RecoveryRemovalFails(i)
      PROVE  IdsAreInserted'
  BY <1>17, InsertedStays, CallsAssumption, NoneAssumption, EndedRecord
     DEF RecoveryRemovalFails, Enter, Leave, Updated
<1>18. ASSUME NEW i \in Calls, Create(i)
      PROVE  IdsAreInserted'
  BY <1>18, InsertedStays, CallsAssumption, NoneAssumption DEF Create, Enter,
     Leave, Aborted, Inserted
<1>19. ASSUME NEW i \in Calls, SetupDone(i)
      PROVE  IdsAreInserted'
  BY <1>19, InsertedStays, CallsAssumption, NoneAssumption, EndedRecord
     DEF SetupDone, Enter, Aborted, Updated
<1>20. ASSUME NEW i \in Calls, LaunchPrepared(i)
      PROVE  IdsAreInserted'
  BY <1>20, InsertedStays, CallsAssumption, NoneAssumption, EndedRecord
     DEF LaunchPrepared, Enter, Aborted, Updated
<1>21. ASSUME NEW i \in Calls, LaunchAborted(i)
      PROVE  IdsAreInserted'
  BY <1>21, InsertedStays, CallsAssumption, NoneAssumption DEF LaunchAborted,
     Enter, Aborted
<1>22. ASSUME NEW i \in Calls, PreparationFails(i)
      PROVE  IdsAreInserted'
  BY <1>22, InsertedStays, CallsAssumption, NoneAssumption, EndedRecord
     DEF PreparationFails, Enter, Leave, Updated
<1>23. ASSUME NEW i \in Calls, LaunchCompleted(i)
      PROVE  IdsAreInserted'
  BY <1>23, InsertedStays, CallsAssumption, NoneAssumption, EndedRecord
     DEF LaunchCompleted, Enter, Updated
<1>24. ASSUME NEW i \in Calls, CompletionFails(i)
      PROVE  IdsAreInserted'
  BY <1>24, InsertedStays, CallsAssumption, NoneAssumption, EndedRecord
     DEF CompletionFails, Enter, Leave, Updated
<1>25. ASSUME NEW i \in Calls, Finalized(i)
      PROVE  IdsAreInserted'
  BY <1>25, InsertedStays, CallsAssumption, NoneAssumption, EndedRecord
     DEF Finalized, Enter, Leave, Updated
<1>26. ASSUME NEW i \in Calls, CompletionRemoves(i)
      PROVE  IdsAreInserted'
  BY <1>26, InsertedStays, CallsAssumption, NoneAssumption, EndedRecord
     DEF CompletionRemoves, Enter, Leave, Updated, Deleted
<1>27. ASSUME NEW i \in Calls, Removed(i)
      PROVE  IdsAreInserted'
  BY <1>27, InsertedStays, CallsAssumption, NoneAssumption, EndedRecord
     DEF Removed, Enter, Leave, Updated, Deleted
<1>28. CASE DaemonCrashes
  BY <1>28, InsertedStays, CallsAssumption, NoneAssumption DEF DaemonCrashes
<1>29. CASE UNCHANGED vars
  BY <1>29 DEF vars, Inserted
<1>30. QED
  BY <1>1, <1>2, <1>3, <1>4, <1>5, <1>6, <1>7, <1>8, <1>9, <1>10, <1>11, <1>12,
     <1>13, <1>14, <1>15, <1>16, <1>17, <1>18, <1>19, <1>20, <1>21, <1>22,
     <1>23, <1>24, <1>25, <1>26, <1>27, <1>28, <1>29 DEF Next, Handles

\* A run that is prepared holds its own record.
LEMMA OwnRecordStep ==
  ASSUME TypeOK, HoldsRecord, Stages, OwnRecord, [Next]_vars
  PROVE  OwnRecord'
<1> USE DEF TypeOK, HoldsRecord, Stages, OwnRecord, Rows
<1>1. ASSUME NEW i \in Calls, Refused(i)
      PROVE  OwnRecord'
  BY <1>1, CallsAssumption, NoneAssumption DEF Refused
<1>2. ASSUME NEW i \in Calls, RunFindsNothing(i)
      PROVE  OwnRecord'
  BY <1>2, CallsAssumption, NoneAssumption DEF RunFindsNothing, Called, Enter
<1>3. ASSUME NEW i \in Calls, RunClaimsAbandoned(i)
      PROVE  OwnRecord'
  BY <1>3, CallsAssumption, NoneAssumption DEF RunClaimsAbandoned, Called,
     Enter
<1>4. ASSUME NEW i \in Calls, ResumeClaims(i)
      PROVE  OwnRecord'
  BY <1>4, CallsAssumption, NoneAssumption DEF ResumeClaims, Called, Enter
<1>5. ASSUME NEW i \in Calls, CleanupStarts(i)
      PROVE  OwnRecord'
  BY <1>5, CallsAssumption, NoneAssumption DEF CleanupStarts, Called, Enter
<1>6. ASSUME NEW i \in Calls, ProviderStarts(i)
      PROVE  OwnRecord'
  BY <1>6, CallsAssumption, NoneAssumption DEF ProviderStarts
<1>7. ASSUME NEW i \in Calls, ProviderFailsToStart(i)
      PROVE  OwnRecord'
  BY <1>7, CallsAssumption, NoneAssumption DEF ProviderFailsToStart
<1>8. ASSUME NEW i \in Calls, ProviderExits(i)
      PROVE  OwnRecord'
  BY <1>8, CallsAssumption, NoneAssumption DEF ProviderExits
<1>9. ASSUME NEW i \in Calls, CommandReports(i)
      PROVE  OwnRecord'
  BY <1>9, CallsAssumption, NoneAssumption DEF CommandReports
<1>10. ASSUME NEW i \in Calls, CommandDies(i)
      PROVE  OwnRecord'
  BY <1>10, CallsAssumption, NoneAssumption DEF CommandDies
<1>11. ASSUME NEW i \in Calls, AttachHandled(i)
      PROVE  OwnRecord'
  BY <1>11, CallsAssumption, NoneAssumption DEF AttachHandled, AttachAdmits
<1>12. ASSUME NEW i \in Calls, AttachLost(i)
      PROVE  OwnRecord'
  BY <1>12, CallsAssumption, NoneAssumption DEF AttachLost
<1>13. ASSUME NEW i \in Calls, CompletionStarts(i)
      PROVE  OwnRecord'
  BY <1>13, CallsAssumption, NoneAssumption DEF CompletionStarts, Enter,
     Current
<1>14. ASSUME NEW i \in Calls, CompletionAnswered(i)
      PROVE  OwnRecord'
  BY <1>14, CallsAssumption, NoneAssumption DEF CompletionAnswered
<1>15. ASSUME NEW i \in Calls, RecoveryDisposes(i)
      PROVE  OwnRecord'
  BY <1>15, CallsAssumption, NoneAssumption DEF RecoveryDisposes, Enter, Leave,
     Updated
<1>16. ASSUME NEW i \in Calls, RecoveryRemoves(i)
      PROVE  OwnRecord'
  BY <1>16, CallsAssumption, NoneAssumption DEF RecoveryRemoves, Enter, Leave,
     Aborted, Deleted
<1>17. ASSUME NEW i \in Calls, RecoveryRemovalFails(i)
      PROVE  OwnRecord'
  BY <1>17, CallsAssumption, NoneAssumption DEF RecoveryRemovalFails, Enter,
     Leave, Updated
<1>18. ASSUME NEW i \in Calls, Create(i)
      PROVE  OwnRecord'
  BY <1>18, CallsAssumption, NoneAssumption DEF Create, Enter, Leave, Aborted
<1>19. ASSUME NEW i \in Calls, SetupDone(i)
      PROVE  OwnRecord'
  BY <1>19, CallsAssumption, NoneAssumption DEF SetupDone, Enter, Aborted,
     Updated
<1>20. ASSUME NEW i \in Calls, LaunchPrepared(i)
      PROVE  OwnRecord'
  BY <1>20, CallsAssumption, NoneAssumption DEF LaunchPrepared, Enter, Aborted,
     Updated
<1>21. ASSUME NEW i \in Calls, LaunchAborted(i)
      PROVE  OwnRecord'
  BY <1>21, CallsAssumption, NoneAssumption DEF LaunchAborted, Enter, Aborted
<1>22. ASSUME NEW i \in Calls, PreparationFails(i)
      PROVE  OwnRecord'
  BY <1>22, CallsAssumption, NoneAssumption DEF PreparationFails, Enter, Leave,
     Updated
<1>23. ASSUME NEW i \in Calls, LaunchCompleted(i)
      PROVE  OwnRecord'
  BY <1>23, CallsAssumption, NoneAssumption DEF LaunchCompleted, Enter, Updated
<1>24. ASSUME NEW i \in Calls, CompletionFails(i)
      PROVE  OwnRecord'
  BY <1>24, CallsAssumption, NoneAssumption DEF CompletionFails, Enter, Leave,
     Updated
<1>25. ASSUME NEW i \in Calls, Finalized(i)
      PROVE  OwnRecord'
  BY <1>25, CallsAssumption, NoneAssumption DEF Finalized, Enter, Leave,
     Updated
<1>26. ASSUME NEW i \in Calls, CompletionRemoves(i)
      PROVE  OwnRecord'
  BY <1>26, CallsAssumption, NoneAssumption DEF CompletionRemoves, Enter,
     Leave, Updated, Deleted
<1>27. ASSUME NEW i \in Calls, Removed(i)
      PROVE  OwnRecord'
  BY <1>27, CallsAssumption, NoneAssumption DEF Removed, Enter, Leave, Updated,
     Deleted
<1>28. CASE DaemonCrashes
  BY <1>28, CallsAssumption, NoneAssumption DEF DaemonCrashes
<1>29. CASE UNCHANGED vars
  BY <1>29 DEF vars
<1>30. QED
  BY <1>1, <1>2, <1>3, <1>4, <1>5, <1>6, <1>7, <1>8, <1>9, <1>10, <1>11, <1>12,
     <1>13, <1>14, <1>15, <1>16, <1>17, <1>18, <1>19, <1>20, <1>21, <1>22,
     <1>23, <1>24, <1>25, <1>26, <1>27, <1>28, <1>29 DEF Next, Handles

\* Records pair pid and execution.
LEMMA PairStep ==
  ASSUME TypeOK, HoldsRecord, PidIsOfExecution, RecordsPair, [Next]_vars
  PROVE  (PidIsOfExecution /\ RecordsPair)'
<1> USE DEF TypeOK, HoldsRecord, PidIsOfExecution, RecordsPair, Rows
<1>1. ASSUME NEW i \in Calls, Refused(i)
      PROVE  (PidIsOfExecution /\ RecordsPair)'
  BY <1>1, CallsAssumption, NoneAssumption DEF Refused
<1>2. ASSUME NEW i \in Calls, RunFindsNothing(i)
      PROVE  (PidIsOfExecution /\ RecordsPair)'
  BY <1>2, CallsAssumption, NoneAssumption DEF RunFindsNothing, Called, Enter
<1>3. ASSUME NEW i \in Calls, RunClaimsAbandoned(i)
      PROVE  (PidIsOfExecution /\ RecordsPair)'
  BY <1>3, CallsAssumption, NoneAssumption DEF RunClaimsAbandoned, Called,
     Enter
<1>4. ASSUME NEW i \in Calls, ResumeClaims(i)
      PROVE  (PidIsOfExecution /\ RecordsPair)'
  BY <1>4, CallsAssumption, NoneAssumption DEF ResumeClaims, Called, Enter
<1>5. ASSUME NEW i \in Calls, CleanupStarts(i)
      PROVE  (PidIsOfExecution /\ RecordsPair)'
  BY <1>5, CallsAssumption, NoneAssumption DEF CleanupStarts, Called, Enter
<1>6. ASSUME NEW i \in Calls, ProviderStarts(i)
      PROVE  (PidIsOfExecution /\ RecordsPair)'
  BY <1>6, CallsAssumption, NoneAssumption DEF ProviderStarts
<1>7. ASSUME NEW i \in Calls, ProviderFailsToStart(i)
      PROVE  (PidIsOfExecution /\ RecordsPair)'
  BY <1>7, CallsAssumption, NoneAssumption DEF ProviderFailsToStart
<1>8. ASSUME NEW i \in Calls, ProviderExits(i)
      PROVE  (PidIsOfExecution /\ RecordsPair)'
  BY <1>8, CallsAssumption, NoneAssumption DEF ProviderExits
<1>9. ASSUME NEW i \in Calls, CommandReports(i)
      PROVE  (PidIsOfExecution /\ RecordsPair)'
  BY <1>9, CallsAssumption, NoneAssumption DEF CommandReports
<1>10. ASSUME NEW i \in Calls, CommandDies(i)
      PROVE  (PidIsOfExecution /\ RecordsPair)'
  BY <1>10, CallsAssumption, NoneAssumption DEF CommandDies
<1>11. ASSUME NEW i \in Calls, AttachHandled(i)
      PROVE  (PidIsOfExecution /\ RecordsPair)'
  BY <1>11, CallsAssumption, NoneAssumption DEF AttachHandled, AttachAdmits
<1>12. ASSUME NEW i \in Calls, AttachLost(i)
      PROVE  (PidIsOfExecution /\ RecordsPair)'
  BY <1>12, CallsAssumption, NoneAssumption DEF AttachLost
<1>13. ASSUME NEW i \in Calls, CompletionStarts(i)
      PROVE  (PidIsOfExecution /\ RecordsPair)'
  BY <1>13, CallsAssumption, NoneAssumption DEF CompletionStarts, Enter,
     Current
<1>14. ASSUME NEW i \in Calls, CompletionAnswered(i)
      PROVE  (PidIsOfExecution /\ RecordsPair)'
  BY <1>14, CallsAssumption, NoneAssumption DEF CompletionAnswered
<1>15. ASSUME NEW i \in Calls, RecoveryDisposes(i)
      PROVE  (PidIsOfExecution /\ RecordsPair)'
  BY <1>15, CallsAssumption, NoneAssumption, EndedRecord DEF RecoveryDisposes,
     Enter, Leave, Updated
<1>16. ASSUME NEW i \in Calls, RecoveryRemoves(i)
      PROVE  (PidIsOfExecution /\ RecordsPair)'
  BY <1>16, CallsAssumption, NoneAssumption DEF RecoveryRemoves, Enter, Leave,
     Aborted, Deleted
<1>17. ASSUME NEW i \in Calls, RecoveryRemovalFails(i)
      PROVE  (PidIsOfExecution /\ RecordsPair)'
  BY <1>17, CallsAssumption, NoneAssumption, EndedRecord
     DEF RecoveryRemovalFails, Enter, Leave, Updated
<1>18. ASSUME NEW i \in Calls, Create(i)
      PROVE  (PidIsOfExecution /\ RecordsPair)'
  BY <1>18, CallsAssumption, NoneAssumption DEF Create, Enter, Leave, Aborted
<1>19. ASSUME NEW i \in Calls, SetupDone(i)
      PROVE  (PidIsOfExecution /\ RecordsPair)'
  BY <1>19, CallsAssumption, NoneAssumption, EndedRecord DEF SetupDone, Enter,
     Aborted, Updated
<1>20. ASSUME NEW i \in Calls, LaunchPrepared(i)
      PROVE  (PidIsOfExecution /\ RecordsPair)'
  BY <1>20, CallsAssumption, NoneAssumption, EndedRecord DEF LaunchPrepared,
     Enter, Aborted, Updated
<1>21. ASSUME NEW i \in Calls, LaunchAborted(i)
      PROVE  (PidIsOfExecution /\ RecordsPair)'
  BY <1>21, CallsAssumption, NoneAssumption DEF LaunchAborted, Enter, Aborted
<1>22. ASSUME NEW i \in Calls, PreparationFails(i)
      PROVE  (PidIsOfExecution /\ RecordsPair)'
  BY <1>22, CallsAssumption, NoneAssumption, EndedRecord DEF PreparationFails,
     Enter, Leave, Updated
<1>23. ASSUME NEW i \in Calls, LaunchCompleted(i)
      PROVE  (PidIsOfExecution /\ RecordsPair)'
  BY <1>23, CallsAssumption, NoneAssumption, EndedRecord DEF LaunchCompleted,
     Enter, Updated
<1>24. ASSUME NEW i \in Calls, CompletionFails(i)
      PROVE  (PidIsOfExecution /\ RecordsPair)'
  BY <1>24, CallsAssumption, NoneAssumption, EndedRecord DEF CompletionFails,
     Enter, Leave, Updated
<1>25. ASSUME NEW i \in Calls, Finalized(i)
      PROVE  (PidIsOfExecution /\ RecordsPair)'
  BY <1>25, CallsAssumption, NoneAssumption, EndedRecord DEF Finalized, Enter,
     Leave, Updated
<1>26. ASSUME NEW i \in Calls, CompletionRemoves(i)
      PROVE  (PidIsOfExecution /\ RecordsPair)'
  BY <1>26, CallsAssumption, NoneAssumption, EndedRecord DEF CompletionRemoves,
     Enter, Leave, Updated, Deleted
<1>27. ASSUME NEW i \in Calls, Removed(i)
      PROVE  (PidIsOfExecution /\ RecordsPair)'
  BY <1>27, CallsAssumption, NoneAssumption, EndedRecord DEF Removed, Enter,
     Leave, Updated, Deleted
<1>28. CASE DaemonCrashes
  BY <1>28, CallsAssumption, NoneAssumption DEF DaemonCrashes
<1>29. CASE UNCHANGED vars
  BY <1>29 DEF vars
<1>30. QED
  BY <1>1, <1>2, <1>3, <1>4, <1>5, <1>6, <1>7, <1>8, <1>9, <1>10, <1>11, <1>12,
     <1>13, <1>14, <1>15, <1>16, <1>17, <1>18, <1>19, <1>20, <1>21, <1>22,
     <1>23, <1>24, <1>25, <1>26, <1>27, <1>28, <1>29 DEF Next, Handles

\* Recoveries do not meet completions.
LEMMA RecoveringStep ==
  ASSUME TypeOK, HoldsRecord, Stages, RecoveringIsRecovery, RunFinalizedAlone,
         [Next]_vars
  PROVE  (RecoveringIsRecovery /\ RunFinalizedAlone)'
<1> USE DEF TypeOK, HoldsRecord, Stages, RecoveringIsRecovery,
            RunFinalizedAlone, Completing
<1>1. ASSUME NEW i \in Calls, Refused(i)
      PROVE  (RecoveringIsRecovery /\ RunFinalizedAlone)'
  BY <1>1, CallsAssumption, NoneAssumption DEF Refused
<1>2. ASSUME NEW i \in Calls, RunFindsNothing(i)
      PROVE  (RecoveringIsRecovery /\ RunFinalizedAlone)'
  BY <1>2, CallsAssumption, NoneAssumption DEF RunFindsNothing, Called, Enter
<1>3. ASSUME NEW i \in Calls, RunClaimsAbandoned(i)
      PROVE  (RecoveringIsRecovery /\ RunFinalizedAlone)'
  BY <1>3, CallsAssumption, NoneAssumption DEF RunClaimsAbandoned, Called,
     Enter, Abandoned
<1>4. ASSUME NEW i \in Calls, ResumeClaims(i)
      PROVE  (RecoveringIsRecovery /\ RunFinalizedAlone)'
  BY <1>4, CallsAssumption, NoneAssumption DEF ResumeClaims, Called, Enter
<1>5. ASSUME NEW i \in Calls, CleanupStarts(i)
      PROVE  (RecoveringIsRecovery /\ RunFinalizedAlone)'
  BY <1>5, CallsAssumption, NoneAssumption DEF CleanupStarts, Called, Enter,
     CleanupAdmits
<1>6. ASSUME NEW i \in Calls, ProviderStarts(i)
      PROVE  (RecoveringIsRecovery /\ RunFinalizedAlone)'
  BY <1>6, CallsAssumption, NoneAssumption DEF ProviderStarts
<1>7. ASSUME NEW i \in Calls, ProviderFailsToStart(i)
      PROVE  (RecoveringIsRecovery /\ RunFinalizedAlone)'
  BY <1>7, CallsAssumption, NoneAssumption DEF ProviderFailsToStart
<1>8. ASSUME NEW i \in Calls, ProviderExits(i)
      PROVE  (RecoveringIsRecovery /\ RunFinalizedAlone)'
  BY <1>8, CallsAssumption, NoneAssumption DEF ProviderExits
<1>9. ASSUME NEW i \in Calls, CommandReports(i)
      PROVE  (RecoveringIsRecovery /\ RunFinalizedAlone)'
  BY <1>9, CallsAssumption, NoneAssumption DEF CommandReports
<1>10. ASSUME NEW i \in Calls, CommandDies(i)
      PROVE  (RecoveringIsRecovery /\ RunFinalizedAlone)'
  BY <1>10, CallsAssumption, NoneAssumption DEF CommandDies
<1>11. ASSUME NEW i \in Calls, AttachHandled(i)
      PROVE  (RecoveringIsRecovery /\ RunFinalizedAlone)'
  BY <1>11, CallsAssumption, NoneAssumption DEF AttachHandled, AttachAdmits
<1>12. ASSUME NEW i \in Calls, AttachLost(i)
      PROVE  (RecoveringIsRecovery /\ RunFinalizedAlone)'
  BY <1>12, CallsAssumption, NoneAssumption DEF AttachLost
<1>13. ASSUME NEW i \in Calls, CompletionStarts(i)
      PROVE  (RecoveringIsRecovery /\ RunFinalizedAlone)'
  BY <1>13, CallsAssumption, NoneAssumption DEF CompletionStarts, Enter,
     Current, ExpectedStatus
<1>14. ASSUME NEW i \in Calls, CompletionAnswered(i)
      PROVE  (RecoveringIsRecovery /\ RunFinalizedAlone)'
  BY <1>14, CallsAssumption, NoneAssumption DEF CompletionAnswered
<1>15. ASSUME NEW i \in Calls, RecoveryDisposes(i)
      PROVE  (RecoveringIsRecovery /\ RunFinalizedAlone)'
  BY <1>15, CallsAssumption, NoneAssumption, EndedRecord DEF RecoveryDisposes,
     Enter, Leave, Updated
<1>16. ASSUME NEW i \in Calls, RecoveryRemoves(i)
      PROVE  (RecoveringIsRecovery /\ RunFinalizedAlone)'
  BY <1>16, CallsAssumption, NoneAssumption DEF RecoveryRemoves, Enter, Leave,
     Aborted, Deleted
<1>17. ASSUME NEW i \in Calls, RecoveryRemovalFails(i)
      PROVE  (RecoveringIsRecovery /\ RunFinalizedAlone)'
  BY <1>17, CallsAssumption, NoneAssumption, EndedRecord
     DEF RecoveryRemovalFails, Enter, Leave, Updated
<1>18. ASSUME NEW i \in Calls, Create(i)
      PROVE  (RecoveringIsRecovery /\ RunFinalizedAlone)'
  BY <1>18, CallsAssumption, NoneAssumption DEF Create, Enter, Leave, Aborted
<1>19. ASSUME NEW i \in Calls, SetupDone(i)
      PROVE  (RecoveringIsRecovery /\ RunFinalizedAlone)'
  BY <1>19, CallsAssumption, NoneAssumption, EndedRecord DEF SetupDone, Enter,
     Aborted, Updated
<1>20. ASSUME NEW i \in Calls, LaunchPrepared(i)
      PROVE  (RecoveringIsRecovery /\ RunFinalizedAlone)'
  BY <1>20, CallsAssumption, NoneAssumption, EndedRecord DEF LaunchPrepared,
     Enter, Aborted, Updated
<1>21. ASSUME NEW i \in Calls, LaunchAborted(i)
      PROVE  (RecoveringIsRecovery /\ RunFinalizedAlone)'
  BY <1>21, CallsAssumption, NoneAssumption DEF LaunchAborted, Enter, Aborted
<1>22. ASSUME NEW i \in Calls, PreparationFails(i)
      PROVE  (RecoveringIsRecovery /\ RunFinalizedAlone)'
  BY <1>22, CallsAssumption, NoneAssumption, EndedRecord DEF PreparationFails,
     Enter, Leave, Updated
<1>23. ASSUME NEW i \in Calls, LaunchCompleted(i)
      PROVE  (RecoveringIsRecovery /\ RunFinalizedAlone)'
  BY <1>23, CallsAssumption, NoneAssumption, EndedRecord DEF LaunchCompleted,
     Enter, Updated
<1>24. ASSUME NEW i \in Calls, CompletionFails(i)
      PROVE  (RecoveringIsRecovery /\ RunFinalizedAlone)'
  BY <1>24, CallsAssumption, NoneAssumption, EndedRecord DEF CompletionFails,
     Enter, Leave, Updated
<1>25. ASSUME NEW i \in Calls, Finalized(i)
      PROVE  (RecoveringIsRecovery /\ RunFinalizedAlone)'
  BY <1>25, CallsAssumption, NoneAssumption, EndedRecord DEF Finalized, Enter,
     Leave, Updated
<1>26. ASSUME NEW i \in Calls, CompletionRemoves(i)
      PROVE  (RecoveringIsRecovery /\ RunFinalizedAlone)'
  BY <1>26, CallsAssumption, NoneAssumption, EndedRecord DEF CompletionRemoves,
     Enter, Leave, Updated, Deleted
<1>27. ASSUME NEW i \in Calls, Removed(i)
      PROVE  (RecoveringIsRecovery /\ RunFinalizedAlone)'
  BY <1>27, CallsAssumption, NoneAssumption, EndedRecord DEF Removed, Enter,
     Leave, Updated, Deleted
<1>28. CASE DaemonCrashes
  BY <1>28, CallsAssumption, NoneAssumption DEF DaemonCrashes
<1>29. CASE UNCHANGED vars
  BY <1>29 DEF vars
<1>30. QED
  BY <1>1, <1>2, <1>3, <1>4, <1>5, <1>6, <1>7, <1>8, <1>9, <1>10, <1>11, <1>12,
     <1>13, <1>14, <1>15, <1>16, <1>17, <1>18, <1>19, <1>20, <1>21, <1>22,
     <1>23, <1>24, <1>25, <1>26, <1>27, <1>28, <1>29 DEF Next, Handles

\* An execution is always of a call that has begun.
LEMMA BegunStep ==
  ASSUME TypeOK, HoldsRecord, Stages, ExecutionsBegan, [Next]_vars
  PROVE  ExecutionsBegan'
<1> USE DEF TypeOK, HoldsRecord, Stages, ExecutionsBegan, Rows
<1>1. ASSUME NEW i \in Calls, Refused(i)
      PROVE  ExecutionsBegan'
  BY <1>1, CallsAssumption, NoneAssumption DEF Refused
<1>2. ASSUME NEW i \in Calls, RunFindsNothing(i)
      PROVE  ExecutionsBegan'
  BY <1>2, CallsAssumption, NoneAssumption DEF RunFindsNothing, Called, Enter
<1>3. ASSUME NEW i \in Calls, RunClaimsAbandoned(i)
      PROVE  ExecutionsBegan'
  BY <1>3, CallsAssumption, NoneAssumption DEF RunClaimsAbandoned, Called,
     Enter, Abandoned
<1>4. ASSUME NEW i \in Calls, ResumeClaims(i)
      PROVE  ExecutionsBegan'
  BY <1>4, CallsAssumption, NoneAssumption DEF ResumeClaims, Called, Enter
<1>5. ASSUME NEW i \in Calls, CleanupStarts(i)
      PROVE  ExecutionsBegan'
  BY <1>5, CallsAssumption, NoneAssumption DEF CleanupStarts, Called, Enter,
     CleanupAdmits
<1>6. ASSUME NEW i \in Calls, ProviderStarts(i)
      PROVE  ExecutionsBegan'
  BY <1>6, CallsAssumption, NoneAssumption DEF ProviderStarts
<1>7. ASSUME NEW i \in Calls, ProviderFailsToStart(i)
      PROVE  ExecutionsBegan'
  BY <1>7, CallsAssumption, NoneAssumption DEF ProviderFailsToStart
<1>8. ASSUME NEW i \in Calls, ProviderExits(i)
      PROVE  ExecutionsBegan'
  BY <1>8, CallsAssumption, NoneAssumption DEF ProviderExits
<1>9. ASSUME NEW i \in Calls, CommandReports(i)
      PROVE  ExecutionsBegan'
  BY <1>9, CallsAssumption, NoneAssumption DEF CommandReports
<1>10. ASSUME NEW i \in Calls, CommandDies(i)
      PROVE  ExecutionsBegan'
  BY <1>10, CallsAssumption, NoneAssumption DEF CommandDies
<1>11. ASSUME NEW i \in Calls, AttachHandled(i)
      PROVE  ExecutionsBegan'
  BY <1>11, CallsAssumption, NoneAssumption DEF AttachHandled, AttachAdmits
<1>12. ASSUME NEW i \in Calls, AttachLost(i)
      PROVE  ExecutionsBegan'
  BY <1>12, CallsAssumption, NoneAssumption DEF AttachLost
<1>13. ASSUME NEW i \in Calls, CompletionStarts(i)
      PROVE  ExecutionsBegan'
  BY <1>13, CallsAssumption, NoneAssumption DEF CompletionStarts, Enter,
     Current, ExpectedStatus
<1>14. ASSUME NEW i \in Calls, CompletionAnswered(i)
      PROVE  ExecutionsBegan'
  BY <1>14, CallsAssumption, NoneAssumption DEF CompletionAnswered
<1>15. ASSUME NEW i \in Calls, RecoveryDisposes(i)
      PROVE  ExecutionsBegan'
  BY <1>15, CallsAssumption, NoneAssumption, EndedRecord DEF RecoveryDisposes,
     Enter, Leave, Updated
<1>16. ASSUME NEW i \in Calls, RecoveryRemoves(i)
      PROVE  ExecutionsBegan'
  BY <1>16, CallsAssumption, NoneAssumption DEF RecoveryRemoves, Enter, Leave,
     Aborted, Deleted
<1>17. ASSUME NEW i \in Calls, RecoveryRemovalFails(i)
      PROVE  ExecutionsBegan'
  BY <1>17, CallsAssumption, NoneAssumption, EndedRecord
     DEF RecoveryRemovalFails, Enter, Leave, Updated
<1>18. ASSUME NEW i \in Calls, Create(i)
      PROVE  ExecutionsBegan'
  BY <1>18, CallsAssumption, NoneAssumption DEF Create, Enter, Leave, Aborted
<1>19. ASSUME NEW i \in Calls, SetupDone(i)
      PROVE  ExecutionsBegan'
  BY <1>19, CallsAssumption, NoneAssumption, EndedRecord DEF SetupDone, Enter,
     Aborted, Updated
<1>20. ASSUME NEW i \in Calls, LaunchPrepared(i)
      PROVE  ExecutionsBegan'
  BY <1>20, CallsAssumption, NoneAssumption, EndedRecord DEF LaunchPrepared,
     Enter, Aborted, Updated
<1>21. ASSUME NEW i \in Calls, LaunchAborted(i)
      PROVE  ExecutionsBegan'
  BY <1>21, CallsAssumption, NoneAssumption DEF LaunchAborted, Enter, Aborted
<1>22. ASSUME NEW i \in Calls, PreparationFails(i)
      PROVE  ExecutionsBegan'
  BY <1>22, CallsAssumption, NoneAssumption, EndedRecord DEF PreparationFails,
     Enter, Leave, Updated
<1>23. ASSUME NEW i \in Calls, LaunchCompleted(i)
      PROVE  ExecutionsBegan'
  BY <1>23, CallsAssumption, NoneAssumption, EndedRecord DEF LaunchCompleted,
     Enter, Updated
<1>24. ASSUME NEW i \in Calls, CompletionFails(i)
      PROVE  ExecutionsBegan'
  BY <1>24, CallsAssumption, NoneAssumption, EndedRecord DEF CompletionFails,
     Enter, Leave, Updated
<1>25. ASSUME NEW i \in Calls, Finalized(i)
      PROVE  ExecutionsBegan'
  BY <1>25, CallsAssumption, NoneAssumption, EndedRecord DEF Finalized, Enter,
     Leave, Updated
<1>26. ASSUME NEW i \in Calls, CompletionRemoves(i)
      PROVE  ExecutionsBegan'
  BY <1>26, CallsAssumption, NoneAssumption, EndedRecord DEF CompletionRemoves,
     Enter, Leave, Updated, Deleted
<1>27. ASSUME NEW i \in Calls, Removed(i)
      PROVE  ExecutionsBegan'
  BY <1>27, CallsAssumption, NoneAssumption, EndedRecord DEF Removed, Enter,
     Leave, Updated, Deleted
<1>28. CASE DaemonCrashes
  BY <1>28, CallsAssumption, NoneAssumption DEF DaemonCrashes
<1>29. CASE UNCHANGED vars
  BY <1>29 DEF vars
<1>30. QED
  BY <1>1, <1>2, <1>3, <1>4, <1>5, <1>6, <1>7, <1>8, <1>9, <1>10, <1>11, <1>12,
     <1>13, <1>14, <1>15, <1>16, <1>17, <1>18, <1>19, <1>20, <1>21, <1>22,
     <1>23, <1>24, <1>25, <1>26, <1>27, <1>28, <1>29 DEF Next, Handles

\* A recovery that fails, or goes on, takes the mark of its claim back.
LEMMA RecoveryStep ==
  ASSUME TypeOK, HoldsRecord, RecoveringIsRecovery, RecoveryGoesOn, [Next]_vars
  PROVE  RecoveryGoesOn'
<1> USE DEF TypeOK, HoldsRecord, RecoveringIsRecovery, RecoveryGoesOn, Rows
<1>1. ASSUME NEW i \in Calls, Refused(i)
      PROVE  RecoveryGoesOn'
  BY <1>1, CallsAssumption, NoneAssumption DEF Refused
<1>2. ASSUME NEW i \in Calls, RunFindsNothing(i)
      PROVE  RecoveryGoesOn'
  BY <1>2, CallsAssumption, NoneAssumption DEF RunFindsNothing, Called, Enter
<1>3. ASSUME NEW i \in Calls, RunClaimsAbandoned(i)
      PROVE  RecoveryGoesOn'
  BY <1>3, CallsAssumption, NoneAssumption DEF RunClaimsAbandoned, Called,
     Enter, Abandoned
<1>4. ASSUME NEW i \in Calls, ResumeClaims(i)
      PROVE  RecoveryGoesOn'
  BY <1>4, CallsAssumption, NoneAssumption DEF ResumeClaims, Called, Enter
<1>5. ASSUME NEW i \in Calls, CleanupStarts(i)
      PROVE  RecoveryGoesOn'
  BY <1>5, CallsAssumption, NoneAssumption DEF CleanupStarts, Called, Enter,
     CleanupAdmits
<1>6. ASSUME NEW i \in Calls, ProviderStarts(i)
      PROVE  RecoveryGoesOn'
  BY <1>6, CallsAssumption, NoneAssumption DEF ProviderStarts
<1>7. ASSUME NEW i \in Calls, ProviderFailsToStart(i)
      PROVE  RecoveryGoesOn'
  BY <1>7, CallsAssumption, NoneAssumption DEF ProviderFailsToStart
<1>8. ASSUME NEW i \in Calls, ProviderExits(i)
      PROVE  RecoveryGoesOn'
  BY <1>8, CallsAssumption, NoneAssumption DEF ProviderExits
<1>9. ASSUME NEW i \in Calls, CommandReports(i)
      PROVE  RecoveryGoesOn'
  BY <1>9, CallsAssumption, NoneAssumption DEF CommandReports
<1>10. ASSUME NEW i \in Calls, CommandDies(i)
      PROVE  RecoveryGoesOn'
  BY <1>10, CallsAssumption, NoneAssumption DEF CommandDies
<1>11. ASSUME NEW i \in Calls, AttachHandled(i)
      PROVE  RecoveryGoesOn'
  BY <1>11, CallsAssumption, NoneAssumption DEF AttachHandled, AttachAdmits
<1>12. ASSUME NEW i \in Calls, AttachLost(i)
      PROVE  RecoveryGoesOn'
  BY <1>12, CallsAssumption, NoneAssumption DEF AttachLost
<1>13. ASSUME NEW i \in Calls, CompletionStarts(i)
      PROVE  RecoveryGoesOn'
  BY <1>13, CallsAssumption, NoneAssumption DEF CompletionStarts, Enter,
     Current, ExpectedStatus
<1>14. ASSUME NEW i \in Calls, CompletionAnswered(i)
      PROVE  RecoveryGoesOn'
  BY <1>14, CallsAssumption, NoneAssumption DEF CompletionAnswered
<1>15. ASSUME NEW i \in Calls, RecoveryDisposes(i)
      PROVE  RecoveryGoesOn'
  BY <1>15, CallsAssumption, NoneAssumption, EndedRecord DEF RecoveryDisposes,
     Enter, Leave, Updated
<1>16. ASSUME NEW i \in Calls, RecoveryRemoves(i)
      PROVE  RecoveryGoesOn'
  BY <1>16, CallsAssumption, NoneAssumption DEF RecoveryRemoves, Enter, Leave,
     Aborted, Deleted
<1>17. ASSUME NEW i \in Calls, RecoveryRemovalFails(i)
      PROVE  RecoveryGoesOn'
  BY <1>17, CallsAssumption, NoneAssumption, EndedRecord
     DEF RecoveryRemovalFails, Enter, Leave, Updated
<1>18. ASSUME NEW i \in Calls, Create(i)
      PROVE  RecoveryGoesOn'
  BY <1>18, CallsAssumption, NoneAssumption DEF Create, Enter, Leave, Aborted
<1>19. ASSUME NEW i \in Calls, SetupDone(i)
      PROVE  RecoveryGoesOn'
  BY <1>19, CallsAssumption, NoneAssumption, EndedRecord DEF SetupDone, Enter,
     Aborted, Updated
<1>20. ASSUME NEW i \in Calls, LaunchPrepared(i)
      PROVE  RecoveryGoesOn'
  BY <1>20, CallsAssumption, NoneAssumption, EndedRecord DEF LaunchPrepared,
     Enter, Aborted, Updated
<1>21. ASSUME NEW i \in Calls, LaunchAborted(i)
      PROVE  RecoveryGoesOn'
  BY <1>21, CallsAssumption, NoneAssumption DEF LaunchAborted, Enter, Aborted
<1>22. ASSUME NEW i \in Calls, PreparationFails(i)
      PROVE  RecoveryGoesOn'
  BY <1>22, CallsAssumption, NoneAssumption, EndedRecord DEF PreparationFails,
     Enter, Leave, Updated
<1>23. ASSUME NEW i \in Calls, LaunchCompleted(i)
      PROVE  RecoveryGoesOn'
  BY <1>23, CallsAssumption, NoneAssumption, EndedRecord DEF LaunchCompleted,
     Enter, Updated
<1>24. ASSUME NEW i \in Calls, CompletionFails(i)
      PROVE  RecoveryGoesOn'
  BY <1>24, CallsAssumption, NoneAssumption, EndedRecord DEF CompletionFails,
     Enter, Leave, Updated
<1>25. ASSUME NEW i \in Calls, Finalized(i)
      PROVE  RecoveryGoesOn'
  BY <1>25, CallsAssumption, NoneAssumption, EndedRecord DEF Finalized, Enter,
     Leave, Updated
<1>26. ASSUME NEW i \in Calls, CompletionRemoves(i)
      PROVE  RecoveryGoesOn'
  BY <1>26, CallsAssumption, NoneAssumption, EndedRecord DEF CompletionRemoves,
     Enter, Leave, Updated, Deleted
<1>27. ASSUME NEW i \in Calls, Removed(i)
      PROVE  RecoveryGoesOn'
  BY <1>27, CallsAssumption, NoneAssumption, EndedRecord DEF Removed, Enter,
     Leave, Updated, Deleted
<1>28. CASE DaemonCrashes
  BY <1>28, CallsAssumption, NoneAssumption DEF DaemonCrashes
<1>29. CASE UNCHANGED vars
  BY <1>29 DEF vars
<1>30. QED
  BY <1>1, <1>2, <1>3, <1>4, <1>5, <1>6, <1>7, <1>8, <1>9, <1>10, <1>11, <1>12,
     <1>13, <1>14, <1>15, <1>16, <1>17, <1>18, <1>19, <1>20, <1>21, <1>22,
     <1>23, <1>24, <1>25, <1>26, <1>27, <1>28, <1>29 DEF Next, Handles

\* The row of a run that is held is left to it.
LEMMA HeldStep ==
  ASSUME TypeOK, HoldsRecord, Stages, IdsAreInserted, OwnRecord, HeldIsKept,
         NEW k \in Calls, Held(k)', [Next]_vars
  PROVE  (RowIsKept(k) /\ NoRivalRecord(k))'
<1> USE DEF TypeOK, HoldsRecord, Stages, OwnRecord, HeldIsKept, Held,
            Preparing, Reporting, Holds, RowIsKept, NoRivalRecord, Rows
<1>1. ASSUME NEW i \in Calls, Refused(i)
      PROVE  (RowIsKept(k) /\ NoRivalRecord(k))'
  BY <1>1, CallsAssumption, NoneAssumption DEF Refused
<1>2. ASSUME NEW i \in Calls, RunFindsNothing(i)
      PROVE  (RowIsKept(k) /\ NoRivalRecord(k))'
  BY <1>2, CallsAssumption, NoneAssumption DEF RunFindsNothing, Called, Enter
<1>3. ASSUME NEW i \in Calls, RunClaimsAbandoned(i)
      PROVE  (RowIsKept(k) /\ NoRivalRecord(k))'
  BY <1>3, CallsAssumption, NoneAssumption DEF RunClaimsAbandoned, Called,
     Enter, Abandoned, ProviderDead, OwnerDead
<1>4. ASSUME NEW i \in Calls, ResumeClaims(i)
      PROVE  (RowIsKept(k) /\ NoRivalRecord(k))'
  BY <1>4, CallsAssumption, NoneAssumption DEF ResumeClaims, Called, Enter,
     ResumeAdmits, ProviderDead, OwnerDead
<1>5. ASSUME NEW i \in Calls, CleanupStarts(i)
      PROVE  (RowIsKept(k) /\ NoRivalRecord(k))'
  BY <1>5, CallsAssumption, NoneAssumption DEF CleanupStarts, Called, Enter,
     CleanupAdmits, ProviderDead, OwnerDead
<1>6. ASSUME NEW i \in Calls, ProviderStarts(i)
      PROVE  (RowIsKept(k) /\ NoRivalRecord(k))'
  BY <1>6, CallsAssumption, NoneAssumption DEF ProviderStarts
<1>7. ASSUME NEW i \in Calls, ProviderFailsToStart(i)
      PROVE  (RowIsKept(k) /\ NoRivalRecord(k))'
  BY <1>7, CallsAssumption, NoneAssumption DEF ProviderFailsToStart
<1>8. ASSUME NEW i \in Calls, ProviderExits(i)
      PROVE  (RowIsKept(k) /\ NoRivalRecord(k))'
  BY <1>8, CallsAssumption, NoneAssumption DEF ProviderExits
<1>9. ASSUME NEW i \in Calls, CommandReports(i)
      PROVE  (RowIsKept(k) /\ NoRivalRecord(k))'
  BY <1>9, CallsAssumption, NoneAssumption DEF CommandReports
<1>10. ASSUME NEW i \in Calls, CommandDies(i)
      PROVE  (RowIsKept(k) /\ NoRivalRecord(k))'
  BY <1>10, CallsAssumption, NoneAssumption DEF CommandDies
<1>11. ASSUME NEW i \in Calls, AttachHandled(i)
      PROVE  (RowIsKept(k) /\ NoRivalRecord(k))'
  BY <1>11, CallsAssumption, NoneAssumption DEF AttachHandled, AttachAdmits
<1>12. ASSUME NEW i \in Calls, AttachLost(i)
      PROVE  (RowIsKept(k) /\ NoRivalRecord(k))'
  BY <1>12, CallsAssumption, NoneAssumption DEF AttachLost
<1>13. ASSUME NEW i \in Calls, CompletionStarts(i)
      PROVE  (RowIsKept(k) /\ NoRivalRecord(k))'
  BY <1>13, CallsAssumption, NoneAssumption DEF CompletionStarts, Enter,
     Current, ExpectedStatus
<1>14. ASSUME NEW i \in Calls, CompletionAnswered(i)
      PROVE  (RowIsKept(k) /\ NoRivalRecord(k))'
  BY <1>14, CallsAssumption, NoneAssumption DEF CompletionAnswered
<1>15. ASSUME NEW i \in Calls, RecoveryDisposes(i)
      PROVE  (RowIsKept(k) /\ NoRivalRecord(k))'
  BY <1>15, CallsAssumption, NoneAssumption, EndedRecord DEF RecoveryDisposes,
     Enter, Leave, Updated
<1>16. ASSUME NEW i \in Calls, RecoveryRemoves(i)
      PROVE  (RowIsKept(k) /\ NoRivalRecord(k))'
  BY <1>16, CallsAssumption, NoneAssumption DEF RecoveryRemoves, Enter, Leave,
     Aborted, Deleted
<1>17. ASSUME NEW i \in Calls, RecoveryRemovalFails(i)
      PROVE  (RowIsKept(k) /\ NoRivalRecord(k))'
  BY <1>17, CallsAssumption, NoneAssumption, EndedRecord
     DEF RecoveryRemovalFails, Enter, Leave, Updated
<1>18. ASSUME NEW i \in Calls, Create(i)
      PROVE  (RowIsKept(k) /\ NoRivalRecord(k))'
  <2> USE <1>18 DEF Create
  <2>1. CASE row = None /\ ~ Aborted(i)
    <3>1. k = i
      BY <2>1, NoneAssumption DEF Enter
    <3>2. row' = [id |-> i, status |-> "starting", exec |-> i, pid |-> None]
          /\ row' # None /\ row' \in Rows
      BY <2>1, NoneAssumption DEF Statuses
    <3>3. handler'[i] = "setup" /\ attach'[i] = "unsent"
      BY <2>1 DEF Enter, Aborted
    <3>4. ~ Inserted(i)
      BY DEF Inserted
    <3>5. NoRivalRecord(i)'
      BY <2>1, <3>4 DEF Enter, IdsAreInserted
    <3>6. QED
      BY <3>1, <3>2, <3>3, <3>5, NoneAssumption
  <2>2. CASE ~ (row = None /\ ~ Aborted(i))
    <3>1. k # i /\ Held(k)
      BY <2>2 DEF Leave, Enter
    <3>2. QED
      BY <2>2, <3>1 DEF Leave, Enter
  <2>3. QED
    BY <2>1, <2>2
<1>19. ASSUME NEW i \in Calls, SetupDone(i)
      PROVE  (RowIsKept(k) /\ NoRivalRecord(k))'
  <2> DEFINE record == [loc[i] EXCEPT !.status = "running"]
  <2> USE <1>19 DEF SetupDone
  <2>1. CASE k = i
    <3>1. Held(i) /\ handler'[i] = "launch" /\ attach[i] = "unsent" /\ op[i] = "run"
      BY DEF Aborted, Enter
    <3>2. row # None /\ row.id = i /\ loc[i] \in Rows /\ loc[i].id = i
          /\ loc[i].exec = i /\ loc[i].pid = None
      BY <3>1
    <3>3. row' = record /\ record \in Rows
      BY <3>2 DEF Updated, Statuses
    <3>4. row'.id = i /\ row'.exec = i /\ row'.pid = None /\ row'.status = "running"
      BY <3>2, <3>3
    <3>5. NoRivalRecord(i)'
      BY <3>1 DEF Enter
    <3>6. QED
      BY <2>1, <3>1, <3>3, <3>4, <3>5, NoneAssumption
  <2>2. CASE k # i
    <3>1. Held(k) /\ row # None /\ row.id = k /\ loc[i] \in Rows
          /\ loc[i] # None /\ loc[i].id # k
      BY <2>2, NoneAssumption DEF Enter
    <3>2. row' = row /\ record.id # k
      BY <3>1 DEF Updated
    <3>3. QED
      BY <2>2, <3>1, <3>2 DEF Enter
  <2>3. QED
    BY <2>1, <2>2
<1>20. ASSUME NEW i \in Calls, LaunchPrepared(i)
      PROVE  (RowIsKept(k) /\ NoRivalRecord(k))'
  BY <1>20, CallsAssumption, NoneAssumption, EndedRecord DEF LaunchPrepared,
     Enter, Aborted, Updated
<1>21. ASSUME NEW i \in Calls, LaunchAborted(i)
      PROVE  (RowIsKept(k) /\ NoRivalRecord(k))'
  BY <1>21, CallsAssumption, NoneAssumption DEF LaunchAborted, Enter, Aborted
<1>22. ASSUME NEW i \in Calls, PreparationFails(i)
      PROVE  (RowIsKept(k) /\ NoRivalRecord(k))'
  BY <1>22, CallsAssumption, NoneAssumption, EndedRecord DEF PreparationFails,
     Enter, Leave, Updated
<1>23. ASSUME NEW i \in Calls, LaunchCompleted(i)
      PROVE  (RowIsKept(k) /\ NoRivalRecord(k))'
  BY <1>23, CallsAssumption, NoneAssumption, EndedRecord DEF LaunchCompleted,
     Enter, Updated
<1>24. ASSUME NEW i \in Calls, CompletionFails(i)
      PROVE  (RowIsKept(k) /\ NoRivalRecord(k))'
  BY <1>24, CallsAssumption, NoneAssumption, EndedRecord DEF CompletionFails,
     Enter, Leave, Updated
<1>25. ASSUME NEW i \in Calls, Finalized(i)
      PROVE  (RowIsKept(k) /\ NoRivalRecord(k))'
  BY <1>25, CallsAssumption, NoneAssumption, EndedRecord DEF Finalized, Enter,
     Leave, Updated
<1>26. ASSUME NEW i \in Calls, CompletionRemoves(i)
      PROVE  (RowIsKept(k) /\ NoRivalRecord(k))'
  BY <1>26, CallsAssumption, NoneAssumption, EndedRecord DEF CompletionRemoves,
     Enter, Leave, Updated, Deleted
<1>27. ASSUME NEW i \in Calls, Removed(i)
      PROVE  (RowIsKept(k) /\ NoRivalRecord(k))'
  BY <1>27, CallsAssumption, NoneAssumption, EndedRecord DEF Removed, Enter,
     Leave, Updated, Deleted
<1>28. CASE DaemonCrashes
  BY <1>28, CallsAssumption, NoneAssumption DEF DaemonCrashes
<1>29. CASE UNCHANGED vars
  BY <1>29 DEF vars
<1>30. QED
  BY <1>1, <1>2, <1>3, <1>4, <1>5, <1>6, <1>7, <1>8, <1>9, <1>10, <1>11, <1>12,
     <1>13, <1>14, <1>15, <1>16, <1>17, <1>18, <1>19, <1>20, <1>21, <1>22,
     <1>23, <1>24, <1>25, <1>26, <1>27, <1>28, <1>29 DEF Next, Handles

-----------------------------------------------------------------------------
(* The theorems. *)

LEMMA InitialInvariant == Init => IInv
<1> SUFFICES ASSUME Init PROVE IInv
  OBVIOUS
<1> USE NoneAssumption, MaxCrashesAssumption DEF Init
<1>1. TypeOK
  BY DEF TypeOK, Phases
<1>2. HoldsRecord /\ Stages
  BY DEF HoldsRecord, Stages
<1>3. IdsAreInserted /\ OwnRecord /\ HeldIsKept
  BY DEF IdsAreInserted, OwnRecord, HeldIsKept, Held, Preparing, Reporting,
     Holds
<1>4. PidIsOfExecution /\ RecordsPair
  BY DEF PidIsOfExecution, RecordsPair
<1>5. RecoveringIsRecovery /\ RunFinalizedAlone
  BY DEF RecoveringIsRecovery, RunFinalizedAlone
<1>6. ExecutionsBegan /\ RecoveryGoesOn
  BY DEF ExecutionsBegan, RecoveryGoesOn
<1>7. QED
  BY <1>1, <1>2, <1>3, <1>4, <1>5, <1>6 DEF IInv

LEMMA InvariantStep == IInv /\ [Next]_vars => IInv'
<1> SUFFICES ASSUME IInv, [Next]_vars PROVE IInv'
  OBVIOUS
<1> USE DEF IInv
<1>1. (TypeOK /\ HoldsRecord /\ Stages)'
  BY TypeStep, RecordStep, StagesStep
<1>2. (IdsAreInserted /\ OwnRecord)'
  BY InsertedStep, OwnRecordStep
<1>3. HeldIsKept'
  <2> SUFFICES ASSUME NEW k \in Calls, Held(k)'
               PROVE  (RowIsKept(k) /\ NoRivalRecord(k))'
    BY DEF HeldIsKept
  <2> QED
    BY HeldStep
<1>4. (PidIsOfExecution /\ RecordsPair)'
  BY PairStep
<1>5. (RecoveringIsRecovery /\ RunFinalizedAlone)'
  BY RecoveringStep
<1>6. (ExecutionsBegan /\ RecoveryGoesOn)'
  BY BegunStep, RecoveryStep
<1>7. QED
  BY <1>1, <1>2, <1>3, <1>4, <1>5, <1>6

LEMMA Invariant == Spec => []IInv
BY InitialInvariant, InvariantStep, PTL DEF Spec

\* Every variable keeps its type, whatever dies, fails or is repeated.
THEOREM TypeCorrectness == Spec => []TypeOK
<1>1. IInv => TypeOK
  BY DEF IInv
<1>2. QED
  BY Invariant, <1>1, PTL

\* A run in progress owns its name: no resume, recovery, cleanup or late
\* completion of any other call, and no number of daemon crashes, takes the row
\* from a run whose command or attached provider is alive
\* (run-session.ts:174-213, resume-session.ts:41-68, cleanup-session.ts:40-73).
THEOREM RunsOwnTheirNames == Spec => []RunKeepsItsRow
<1>1. IInv => RunKeepsItsRow
  <2> SUFFICES ASSUME IInv, NEW i \in Calls, op[i] = "run", Holds(i)
               PROVE  row # None /\ row.id = i /\ row.exec = i /\ row.status = "running"
    BY DEF RunKeepsItsRow
  <2>1. RowIsKept(i)
    BY DEF IInv, HeldIsKept, Held
  <2>2. handler[i] = "off"
    BY DEF IInv, Stages, Holds
  <2>3. QED
    BY <2>1, <2>2 DEF RowIsKept
<1>2. QED
  BY Invariant, <1>1, PTL

\* The first report of a run is never turned away while the daemon has not died
\* (run-session.ts:293-296).
THEOREM ReportsAreAccepted == Spec => []RunCanComplete
<1>1. IInv => RunCanComplete
  BY DEF IInv, RunCanComplete, HeldIsKept, Held, Reporting, RowIsKept, Current,
     ExpectedStatus
<1>2. QED
  BY Invariant, <1>1, PTL

\* So a run is left in peace from its insertion to its first report.
THEOREM RunsAreUndisturbed == Spec => []RunIsUndisturbed
BY RunsOwnTheirNames, ReportsAreAccepted, PTL DEF RunIsUndisturbed

\* A run that is being prepared keeps its row while its command lives
\* (cleanup-session.ts:57-66, resume-session.ts:44-48).
THEOREM PreparationsAreLeftAlone == Spec => []PreparationKeepsItsRow
<1>1. IInv => PreparationKeepsItsRow
  BY DEF IInv, PreparationKeepsItsRow, HeldIsKept, Held, Preparing, RowIsKept
<1>2. QED
  BY Invariant, <1>1, PTL

\* The pid in the row is that of the row's own execution, however late an attach
\* arrives (sqlite/agent-session.ts:138-150).
THEOREM PidsStayWithExecutions == Spec => []PidIsOfExecution
<1>1. IInv => PidIsOfExecution
  BY DEF IInv
<1>2. QED
  BY Invariant, <1>1, PTL

\* A run is never recovered while its completion is in flight
\* (run-session.ts:192, 204-208, 287).
THEOREM RunsAreFinalizedAlone == Spec => []RunFinalizedAlone
<1>1. IInv => RunFinalizedAlone
  BY DEF IInv
<1>2. QED
  BY Invariant, <1>1, PTL

\* As long as the daemon does not die, no failure of a setup, a recovery or a
\* completion leaves a row that nobody could clean up once all is quiet
\* (run-session.ts:265-267, resume-session.ts:104-113).
THEOREM FailuresBlockNoName == Spec => []NameIsNotBlockedByFailures
<1>1. IInv => NameIsNotBlockedByFailures
  <2> SUFFICES ASSUME IInv, crashes = 0, Quiet, row # None
               PROVE  CleanupAdmits(row)
    BY DEF NameIsNotBlockedByFailures, NameIsNotBlocked
  <2>1. row \in Rows /\ row.pid \in Calls \cup {None} /\ row.exec \in Calls \cup {None}
    BY DEF IInv, TypeOK, Rows
  <2>2. row.status # "recovering"
    BY DEF IInv, RecoveryGoesOn, Quiet
  <2>3. ProviderDead(row)
    BY <2>1 DEF ProviderDead, Quiet
  <2>4. OwnerDead(row)
    BY <2>1 DEF IInv, ExecutionsBegan, OwnerDead, Quiet
  <2>5. QED
    BY <2>2, <2>3, <2>4 DEF CleanupAdmits
<1>2. QED
  BY Invariant, <1>1, PTL
=============================================================================
