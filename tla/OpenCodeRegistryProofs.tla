----------------------- MODULE OpenCodeRegistryProofs ------------------------
(***************************************************************************)
(* Theorems about OpenCodeRegistry, for any number of calls, project roots *)
(* and ports, and any number of processes that die.                        *)
(***************************************************************************)
EXTENDS OpenCodeRegistry, TLAPS

\* A file of a call that is past writing its record has that record.
SignedInv == \A c \in Calls :
  /\ file["lock"] = c /\ pc[c] \in Locking \ {"sign"} => signed["lock"]
  /\ file["barrier"] = c /\ pc[c] \in Reclaiming \ {"mark"} =>
       signed["barrier"]

\* Where a call is, the files are its own; what it is about to remove was left
\* by a process that is dead.
LockInv == ~usurped => \A c \in Calls :
  /\ pc[c] \in Locking => file["lock"] = c
  /\ pc[c] \in Reclaiming => file["barrier"] = c
  /\ pc[c] = "unlink" => file["lock"] \in Calls /\ pc[file["lock"]] = "dead"

\* What a call knows by itself of the server it starts.
CallInv == \A c \in Calls :
  /\ pc[c] = "probe" => Mine(c) # None
  /\ pc[c] \in {"spawn", "record", "await"} => port[c] \in Ports
  /\ server[c] # "none" =>
       pc[c] \in {"record", "await", "release", "done", "dead"}

\* The entry of a root stands for no server that lives.
Replaceable(r) ==
  \/ registry[r] = None \/ registry[r].by = None
  \/ registry[r].by \in Calls /\ server[registry[r].by] = "dead"

\* The copy of the call under the lock is the registry, but for the entry it
\* is about to write.
CopyInv == ~usurped => \A c \in Calls :
  /\ pc[c] \in Operation \ {"read"} =>
       \A r \in Roots \ {root[c]} : copy[c][r] = registry[r]
  /\ pc[c] = "probe" => Mine(c).by # Nobody
  /\ pc[c] \in {"probe", "await"} => copy[c] = registry
  /\ pc[c] \in {"allocate", "spawn", "record"} => Replaceable(root[c])

Inv == /\ TypeOK /\ SignedInv /\ LockInv /\ FilesAreReleased
       /\ CallInv /\ CopyInv /\ LiveServersAreReferenced
------------------------------------------------------------------------------
\* Where the steps of the locks lead.
LEMMA LocksLead ==
  ASSUME TypeOK, NEW c \in Calls, Locks(c) \/ LocksFail(c)
  PROVE  /\ pc[c] \in Trying \cup {"release"}
         /\ \E w \in Trying \cup {"read", "done"} :
              pc' = [pc EXCEPT ![c] = w] /\ (pc[c] = "release" => w = "done")
         /\ usurped => usurped'
         /\ UNCHANGED <<root, crashes, registry, copy, servers>>
<1>1. CASE Locks(c)
  <2>1. usurped => usurped'
    BY <1>1 DEF Locks, Try, OpenLock, LockTaken, Sign, Check, Back,
      OpenBarrier, BarrierTaken, Mark, Look, UnlinkLock, Leave, Stale,
      UnlinkBarrier, Sleep, Release, locks
  <2>2. /\ pc[c] \in Trying \cup {"release"}
        /\ \E w \in Trying \cup {"read", "done"} :
             pc' = [pc EXCEPT ![c] = w] /\ (pc[c] = "release" => w = "done")
    BY <1>1 DEF Locks, Goes, Trying, Try, OpenLock, LockTaken, Sign, Check,
      Back, OpenBarrier, BarrierTaken, Mark, Look, UnlinkLock, Leave, Stale,
      UnlinkBarrier, Sleep, Release
  <2>q. QED BY <1>1, <2>1, <2>2 DEF Locks
<1>2. CASE LocksFail(c)
  BY <1>2 DEF LocksFail, Goes, Trying, SignFails, MarkFails, GiveUp, locks
<1>q. QED BY <1>1, <1>2

\* Where the steps under the lock lead.
LEMMA EnsureLeads ==
  ASSUME TypeOK, NEW c \in Calls, Ensures(c) \/ EnsureFails(c)
  PROVE  /\ pc[c] \in Operation
         /\ \E w \in Operation \cup {"release", "dead"} :
              pc' = [pc EXCEPT ![c] = w]
         /\ UNCHANGED <<root, crashes, locks>>
<1>1. CASE Ensures(c)
  BY <1>1 DEF Ensures, Goes, Operation, ReadRegistry, Reuse, Forget, Allocate,
    Spawn, Record, Ready, Throws, ErrorUnheard
<1>2. CASE EnsureFails(c)
  BY <1>2 DEF EnsureFails, Goes, Operation, SpawnFails, RecordFails
<1>q. QED BY <1>1, <1>2
------------------------------------------------------------------------------
(* Types *)

LockTypes ==
  /\ file \in [Files -> Calls \cup {None}]
  /\ signed \in [Files -> BOOLEAN]
  /\ unmarked \in SUBSET Calls
  /\ usurped \in BOOLEAN

RegistryTypes ==
  /\ registry \in Registries
  /\ copy \in [Calls -> Registries]
  /\ port \in [Calls -> Ports \cup {None}]
  /\ server \in [Calls -> {"none", "starting", "up", "dead"}]
  /\ unrecorded \in SUBSET Calls

LEMMA RemovesTypes ==
  ASSUME LockTypes, NEW f \in Files, Removes(f)
  PROVE  /\ file' \in [Files -> Calls \cup {None}]
         /\ signed' \in [Files -> BOOLEAN]
BY DEF LockTypes, Removes

LEMMA CreatesTypes ==
  ASSUME LockTypes, NEW c \in Calls, NEW f \in Files, Creates(c, f)
  PROVE  /\ file' \in [Files -> Calls \cup {None}]
         /\ signed' \in [Files -> BOOLEAN]
BY DEF LockTypes, Creates

LEMMA SignsTypes ==
  ASSUME LockTypes, NEW c \in Calls, NEW f \in Files, Signs(c, f)
  PROVE  /\ file' \in [Files -> Calls \cup {None}]
         /\ signed' \in [Files -> BOOLEAN]
BY DEF LockTypes, Signs

LEMMA LocksKeepTypes ==
  ASSUME TypeOK, NEW c \in Calls, Locks(c) \/ LocksFail(c)
  PROVE  LockTypes'
<1>1. LockTypes BY DEF TypeOK, LockTypes
<1>2. "lock" \in Files /\ "barrier" \in Files BY DEF Files
<1>3. CASE UNCHANGED locks BY <1>1, <1>3 DEF LockTypes, locks
<1>4. CASE ~UNCHANGED locks
  <2>1. CASE Locks(c)
    <3>1. /\ file' \in [Files -> Calls \cup {None}]
          /\ signed' \in [Files -> BOOLEAN]
      <4>1. \/ UNCHANGED <<file, signed>>
            \/ \E f \in Files : Creates(c, f) \/ Signs(c, f) \/ Removes(f)
        BY <1>2, <1>4, <2>1 DEF Locks, Try, OpenLock, LockTaken, Sign, Check,
          Back, OpenBarrier, BarrierTaken, Mark, Look, UnlinkLock, Leave,
          Stale, UnlinkBarrier, Sleep, Release, Releases, locks
      <4>2. CASE UNCHANGED <<file, signed>> BY <1>1, <4>2 DEF LockTypes
      <4>q. QED BY <1>1, <4>1, <4>2, CreatesTypes, SignsTypes, RemovesTypes
    <3>2. unmarked' = unmarked /\ usurped' \in BOOLEAN
      BY <1>1, <1>4, <2>1 DEF Locks, Try, OpenLock, LockTaken, Sign, Check,
        Back, OpenBarrier, BarrierTaken, Mark, Look, UnlinkLock, Leave, Stale,
        UnlinkBarrier, Sleep, Release, locks, LockTypes
    <3>q. QED BY <1>1, <3>1, <3>2 DEF LockTypes
  <2>2. CASE SignFails(c)
    BY <1>1, <1>2, <2>2, RemovesTypes DEF SignFails, LockTypes
  <2>3. CASE MarkFails(c)
    BY <1>1, <2>3 DEF MarkFails, LockTypes
  <2>4. CASE GiveUp(c)
    BY <1>4, <2>4 DEF GiveUp
  <2>q. QED BY <2>1, <2>2, <2>3, <2>4 DEF LocksFail
<1>q. QED BY <1>3, <1>4

\* An entry that is changed is still an entry.
LEMMA EntryTypes ==
  ASSUME NEW e \in Entries, NEW by \in Calls \cup {None, Nobody}
  PROVE  [e EXCEPT !.by = by] \in Entries
BY DEF Entries

LEMMA RegistryChange ==
  ASSUME NEW g \in Registries, NEW r \in Roots, NEW e \in Entries \cup {None}
  PROVE  [g EXCEPT ![r] = e] \in Registries
BY DEF Registries

LEMMA CopyChange ==
  ASSUME RegistryTypes, NEW c \in Calls, NEW r \in Roots,
         NEW e \in Entries \cup {None}
  PROVE  [copy EXCEPT ![c][r] = e] \in [Calls -> Registries]
<1>1. copy[c] \in Registries BY DEF RegistryTypes
<1>2. [copy[c] EXCEPT ![r] = e] \in Registries BY <1>1, RegistryChange
<1>q. QED BY <1>2 DEF RegistryTypes

LEMMA EnsureKeepsTypes ==
  ASSUME TypeOK, CallInv, NEW c \in Calls, Ensures(c) \/ EnsureFails(c)
  PROVE  RegistryTypes'
<1>1. RegistryTypes BY DEF TypeOK, RegistryTypes
<1>2. /\ copy[c] \in Registries /\ root[c] \in Roots
      /\ Mine(c) \in Entries \cup {None}
  BY <1>1 DEF TypeOK, RegistryTypes, Mine, Registries
<1>3. CASE ReadRegistry(c)
  BY <1>1, <1>3 DEF ReadRegistry, RegistryTypes, servers
<1>4. CASE Reuse(c)
  <2>1. Mine(c) \in Entries BY <1>2, <1>4 DEF Reuse, CallInv
  <2>2. [copy[c] EXCEPT ![root[c]] = [Mine(c) EXCEPT !.by = None]]
          \in Registries
    BY <1>2, <2>1, EntryTypes, RegistryChange
  <2>3. registry' \in Registries
    BY <1>1, <1>2, <1>4, <2>2 DEF Reuse, RegistryTypes
  <2>q. QED BY <1>1, <1>4, <2>3 DEF Reuse, RegistryTypes, servers
<1>5. CASE Forget(c)
  <2>1. Mine(c) \in Entries BY <1>2, <1>5 DEF Forget, CallInv
  <2>2. port' \in [Calls -> Ports \cup {None}]
    BY <1>1, <1>5, <2>1 DEF Forget, RegistryTypes, Entries
  <2>3. copy' \in [Calls -> Registries]
    BY <1>1, <1>2, <1>5, CopyChange DEF Forget
  <2>q. QED BY <1>1, <1>5, <2>2, <2>3 DEF Forget, RegistryTypes
<1>6. CASE Allocate(c)
  BY <1>1, <1>6 DEF Allocate, RegistryTypes
<1>7. CASE Spawn(c)
  BY <1>1, <1>7 DEF Spawn, RegistryTypes
<1>8. CASE Record(c)
  <2>1. Started(c) \in Entries
    BY <1>8 DEF Record, CallInv, Started, Entries
  <2>2. copy' \in [Calls -> Registries]
    BY <1>1, <1>2, <1>8, <2>1, CopyChange DEF Record
  <2>3. registry' \in Registries
    BY <1>8, <2>2 DEF Record
  <2>q. QED BY <1>1, <1>8, <2>2, <2>3 DEF Record, RegistryTypes, servers
<1>9. CASE Ready(c)
  BY <1>1, <1>9 DEF Ready, RegistryTypes, servers
<1>10. CASE Throws(c) \/ ErrorUnheard(c) \/ SpawnFails(c)
  BY <1>1, <1>10 DEF Throws, ErrorUnheard, SpawnFails, RegistryTypes, servers
<1>11. CASE RecordFails(c)
  BY <1>1, <1>11 DEF RecordFails, RegistryTypes
<1>q. QED BY <1>3, <1>4, <1>5, <1>6, <1>7, <1>8, <1>9, <1>10, <1>11
  DEF Ensures, EnsureFails

LEMMA TypesStep == ASSUME TypeOK, CallInv, Next PROVE TypeOK'
<1> USE DEF Phases, Trying, Operation
<1> SUFFICES ASSUME NEW c \in Calls,
               \/ Begin(c) \/ Locks(c) \/ LocksFail(c) \/ Ensures(c)
               \/ EnsureFails(c) \/ Crash(c) \/ Binds(c) \/ ServerExits(c)
             PROVE TypeOK'
  BY DEF Next
<1>1. CASE Begin(c)
  BY <1>1 DEF Begin, Goes, TypeOK, locks, servers
<1>2. CASE Locks(c) \/ LocksFail(c)
  <2>1. pc' \in [Calls -> Phases]
    BY <1>2, LocksLead DEF TypeOK
  <2>2. LockTypes' BY <1>2, LocksKeepTypes
  <2>3. UNCHANGED <<root, crashes, registry, copy, servers>>
    BY <1>2, LocksLead
  <2> HIDE DEF Phases, Trying, Operation
  <2>q. QED BY <2>1, <2>2, <2>3 DEF TypeOK, LockTypes, servers
<1>3. CASE Ensures(c) \/ EnsureFails(c)
  <2>1. pc' \in [Calls -> Phases]
    BY <1>3, EnsureLeads DEF TypeOK
  <2>2. RegistryTypes' BY <1>3, EnsureKeepsTypes
  <2>3. UNCHANGED <<root, crashes, locks>>
    BY <1>3, EnsureLeads
  <2> HIDE DEF Phases, Trying, Operation
  <2>q. QED BY <2>1, <2>2, <2>3 DEF TypeOK, RegistryTypes, locks
<1>4. CASE Crash(c)
  BY <1>4 DEF Crash, Goes, TypeOK, locks
<1>5. CASE Binds(c) \/ ServerExits(c)
  BY <1>5 DEF Binds, ServerExits, TypeOK, locks
<1>q. QED BY <1>1, <1>2, <1>3, <1>4, <1>5
------------------------------------------------------------------------------
(* The files *)

\* A file loses its record only with its owner.
LEMMA LocksSign ==
  ASSUME TypeOK, SignedInv, NEW c \in Calls,
         Locks(c) \/ LocksFail(c)
  PROVE  SignedInv'
<1> USE DEF Files, Trying, Operation, Locking, Reclaiming
<1>1. /\ pc \in [Calls -> Phases] /\ file \in [Files -> Calls \cup {None}]
      /\ signed \in [Files -> BOOLEAN] /\ None \notin Calls
  BY NoneAssumption DEF TypeOK
<1>2. CASE Try(c)
  BY <1>1, <1>2 DEF Try, Goes, locks, SignedInv
<1>3. CASE OpenLock(c)
  BY <1>1, <1>3 DEF OpenLock, Goes, Creates, Exists, SignedInv
<1>4. CASE LockTaken(c)
  BY <1>1, <1>4 DEF LockTaken, Goes, locks, SignedInv
<1>5. CASE Sign(c)
  BY <1>1, <1>5 DEF Sign, Goes, Signs, SignedInv
<1>6. CASE SignFails(c)
  BY <1>1, <1>6 DEF SignFails, Goes, Removes, Exists, SignedInv
<1>7. CASE Check(c)
  BY <1>1, <1>7 DEF Check, Goes, locks, SignedInv
<1>8. CASE Back(c)
  BY <1>1, <1>8 DEF Back, Goes, Releases, Removes, SignedInv
<1>9. CASE OpenBarrier(c)
  BY <1>1, <1>9 DEF OpenBarrier, Goes, Creates, Exists, SignedInv
<1>10. CASE BarrierTaken(c)
  BY <1>1, <1>10 DEF BarrierTaken, Goes, locks, SignedInv
<1>11. CASE Mark(c)
  BY <1>1, <1>11 DEF Mark, Goes, Signs, SignedInv
<1>12. CASE MarkFails(c)
  BY <1>1, <1>12 DEF MarkFails, Goes, SignedInv
<1>13. CASE Look(c)
  BY <1>1, <1>13 DEF Look, Goes, locks, LeftByDead, Exists, SignedInv
<1>14. CASE UnlinkLock(c)
  BY <1>1, <1>14 DEF UnlinkLock, Goes, Removes, Exists, SignedInv
<1>15. CASE Leave(c)
  BY <1>1, <1>15 DEF Leave, Goes, Releases, Removes, SignedInv
<1>16. CASE Stale(c)
  BY <1>1, <1>16 DEF Stale, Goes, locks, SignedInv
<1>17. CASE UnlinkBarrier(c)
  BY <1>1, <1>17 DEF UnlinkBarrier, Goes, Removes, Exists, SignedInv
<1>18. CASE Sleep(c)
  BY <1>1, <1>18 DEF Sleep, Goes, locks, SignedInv
<1>19. CASE GiveUp(c)
  BY <1>1, <1>19 DEF GiveUp, Goes, locks, SignedInv
<1>20. CASE Release(c)
  BY <1>1, <1>20 DEF Release, Goes, Releases, Removes, SignedInv
<1>q. QED BY <1>2, <1>3, <1>4, <1>5, <1>6, <1>7, <1>8, <1>9, <1>10, <1>11,
  <1>12, <1>13, <1>14, <1>15, <1>16, <1>17, <1>18, <1>19, <1>20
  DEF Locks, LocksFail

\* Whoever leaves a file behind has removed it.
LEMMA LocksRelease ==
  ASSUME TypeOK, SignedInv, LockInv, FilesAreReleased, NEW c \in Calls,
         Locks(c) \/ LocksFail(c)
  PROVE  FilesAreReleased'
<1> USE DEF Files, Trying, Operation, Locking, Reclaiming
<1>1. /\ pc \in [Calls -> Phases] /\ file \in [Files -> Calls \cup {None}]
      /\ signed \in [Files -> BOOLEAN] /\ None \notin Calls
  BY NoneAssumption DEF TypeOK
<1>2. CASE Try(c)
  BY <1>1, <1>2 DEF Try, Goes, locks, SignedInv, FilesAreReleased, Owning
<1>3. CASE OpenLock(c)
  BY <1>1, <1>3 DEF OpenLock, Goes, Creates, Exists, SignedInv,
    FilesAreReleased, Owning
<1>4. CASE LockTaken(c)
  BY <1>1, <1>4 DEF LockTaken, Goes, locks, SignedInv, FilesAreReleased,
    Owning
<1>5. CASE Sign(c)
  BY <1>1, <1>5 DEF Sign, Goes, Signs, SignedInv, FilesAreReleased, Owning
<1>6. CASE SignFails(c)
  BY <1>1, <1>6 DEF SignFails, Goes, Removes, Exists, SignedInv,
    FilesAreReleased, Owning
<1>7. CASE Check(c)
  BY <1>1, <1>7 DEF Check, Goes, locks, SignedInv, FilesAreReleased, Owning
<1>8. CASE Back(c)
  BY <1>1, <1>8 DEF Back, Goes, Releases, Removes, SignedInv,
    FilesAreReleased, Owning
<1>9. CASE OpenBarrier(c)
  BY <1>1, <1>9 DEF OpenBarrier, Goes, Creates, Exists, SignedInv,
    FilesAreReleased, Owning
<1>10. CASE BarrierTaken(c)
  BY <1>1, <1>10 DEF BarrierTaken, Goes, locks, SignedInv, FilesAreReleased,
    Owning
<1>11. CASE Mark(c)
  BY <1>1, <1>11 DEF Mark, Goes, Signs, SignedInv, FilesAreReleased, Owning
<1>12. CASE MarkFails(c)
  BY <1>1, <1>12 DEF MarkFails, Goes, SignedInv, FilesAreReleased, Owning
<1>13. CASE Look(c)
  BY <1>1, <1>13 DEF Look, Goes, locks, LeftByDead, Exists, SignedInv,
    FilesAreReleased, Owning
<1>14. CASE UnlinkLock(c)
  BY <1>1, <1>14 DEF UnlinkLock, Goes, Removes, Exists, SignedInv,
    FilesAreReleased, Owning
<1>15. CASE Leave(c)
  BY <1>1, <1>15 DEF Leave, Goes, Releases, Removes, SignedInv,
    FilesAreReleased, Owning
<1>16. CASE Stale(c)
  BY <1>1, <1>16 DEF Stale, Goes, locks, SignedInv, FilesAreReleased, Owning
<1>17. CASE UnlinkBarrier(c)
  BY <1>1, <1>17 DEF UnlinkBarrier, Goes, Removes, Exists, SignedInv,
    FilesAreReleased, Owning
<1>18. CASE Sleep(c)
  BY <1>1, <1>18 DEF Sleep, Goes, locks, SignedInv, FilesAreReleased, Owning
<1>19. CASE GiveUp(c)
  BY <1>1, <1>19 DEF GiveUp, Goes, locks, SignedInv, FilesAreReleased, Owning
<1>20. CASE Release(c)
  BY <1>1, <1>20 DEF Release, Goes, Releases, Removes, SignedInv,
    FilesAreReleased, Owning
<1>q. QED BY <1>2, <1>3, <1>4, <1>5, <1>6, <1>7, <1>8, <1>9, <1>10, <1>11,
  <1>12, <1>13, <1>14, <1>15, <1>16, <1>17, <1>18, <1>19, <1>20
  DEF Locks, LocksFail

\* Nobody else removes the file of a call that lives.
LEMMA LocksHold ==
  ASSUME TypeOK, SignedInv, LockInv, FilesAreReleased, NEW c \in Calls,
         Locks(c) \/ LocksFail(c)
  PROVE  LockInv'
<1> USE DEF Files, Trying, Operation, Locking, Reclaiming
<1>1. /\ pc \in [Calls -> Phases] /\ file \in [Files -> Calls \cup {None}]
      /\ signed \in [Files -> BOOLEAN] /\ None \notin Calls
  BY NoneAssumption DEF TypeOK
<1>2. CASE Try(c)
  BY <1>1, <1>2 DEF Try, Goes, locks, LockInv
<1>3. CASE OpenLock(c)
  BY <1>1, <1>3 DEF OpenLock, Goes, Creates, Exists, LockInv
<1>4. CASE LockTaken(c)
  BY <1>1, <1>4 DEF LockTaken, Goes, locks, LockInv
<1>5. CASE Sign(c)
  BY <1>1, <1>5 DEF Sign, Goes, Signs, LockInv
<1>6. CASE SignFails(c)
  BY <1>1, <1>6 DEF SignFails, Goes, Removes, Exists, LockInv
<1>7. CASE Check(c)
  BY <1>1, <1>7 DEF Check, Goes, locks, LockInv
<1>8. CASE Back(c)
  BY <1>1, <1>8 DEF Back, Goes, Releases, Removes, LockInv
<1>9. CASE OpenBarrier(c)
  BY <1>1, <1>9 DEF OpenBarrier, Goes, Creates, Exists, LockInv
<1>10. CASE BarrierTaken(c)
  BY <1>1, <1>10 DEF BarrierTaken, Goes, locks, LockInv
<1>11. CASE Mark(c)
  BY <1>1, <1>11 DEF Mark, Goes, Signs, LockInv
<1>12. CASE MarkFails(c)
  BY <1>1, <1>12 DEF MarkFails, Goes, LockInv
<1>13. CASE Look(c)
  BY <1>1, <1>13 DEF Look, Goes, locks, LeftByDead, Exists, LockInv
<1>14. CASE UnlinkLock(c)
  BY <1>1, <1>14 DEF UnlinkLock, Goes, Removes, Exists, LockInv
<1>15. CASE Leave(c)
  BY <1>1, <1>15 DEF Leave, Goes, Releases, Removes, LockInv
<1>16. CASE Stale(c)
  BY <1>1, <1>16 DEF Stale, Goes, locks, LockInv
<1>17. CASE UnlinkBarrier(c)
  BY <1>1, <1>17 DEF UnlinkBarrier, Goes, Removes, Exists, LockInv, InUse,
    Owning
<1>18. CASE Sleep(c)
  BY <1>1, <1>18 DEF Sleep, Goes, locks, LockInv
<1>19. CASE GiveUp(c)
  BY <1>1, <1>19 DEF GiveUp, Goes, locks, LockInv
<1>20. CASE Release(c)
  BY <1>1, <1>20 DEF Release, Goes, Releases, Removes, LockInv
<1>q. QED BY <1>2, <1>3, <1>4, <1>5, <1>6, <1>7, <1>8, <1>9, <1>10, <1>11,
  <1>12, <1>13, <1>14, <1>15, <1>16, <1>17, <1>18, <1>19, <1>20
  DEF Locks, LocksFail

\* The steps of the operation, and the end of a process, touch no file: what a
\* call holds it keeps, and a dead process stays dead.
Moves(c, w) ==
  /\ pc' = [pc EXCEPT ![c] = w]
  /\ \/ pc[c] = "idle" /\ w = "try"
     \/ pc[c] \in Operation /\ w \in Operation \cup {"release"}
     \/ w = "dead"

LEMMA MovesKeepFiles ==
  ASSUME TypeOK, SignedInv, LockInv, FilesAreReleased, UNCHANGED locks,
         NEW c \in Calls, NEW w, Moves(c, w)
  PROVE  SignedInv' /\ LockInv' /\ FilesAreReleased'
<1> USE DEF Files, Trying, Operation, Locking, Reclaiming, Moves, locks
<1>1. /\ pc \in [Calls -> Phases] /\ file \in [Files -> Calls \cup {None}]
      /\ None \notin Calls
  BY NoneAssumption DEF TypeOK
<1>2. SignedInv' BY <1>1 DEF SignedInv
<1>3. LockInv' BY <1>1 DEF LockInv
<1>4. FilesAreReleased' BY <1>1 DEF FilesAreReleased, Owning
<1>q. QED BY <1>2, <1>3, <1>4

LEMMA FilesStep ==
  ASSUME TypeOK, SignedInv, LockInv, FilesAreReleased, Next
  PROVE  SignedInv' /\ LockInv' /\ FilesAreReleased'
<1> SUFFICES ASSUME NEW c \in Calls,
               \/ Begin(c) \/ Locks(c) \/ LocksFail(c) \/ Ensures(c)
               \/ EnsureFails(c) \/ Crash(c) \/ Binds(c) \/ ServerExits(c)
             PROVE SignedInv' /\ LockInv' /\ FilesAreReleased'
  BY DEF Next
<1>1. CASE Begin(c)
  <2>1. Moves(c, "try") /\ UNCHANGED locks BY <1>1 DEF Begin, Goes, Moves
  <2>q. QED BY <2>1, MovesKeepFiles
<1>2. CASE Locks(c) \/ LocksFail(c)
  BY <1>2, LocksSign, LocksHold, LocksRelease
<1>3. CASE Ensures(c) \/ EnsureFails(c)
  <2>1. PICK w \in Operation \cup {"release", "dead"} :
          pc' = [pc EXCEPT ![c] = w]
    BY <1>3, EnsureLeads
  <2>2. pc[c] \in Operation /\ UNCHANGED locks BY <1>3, EnsureLeads
  <2>3. Moves(c, w) BY <2>1, <2>2 DEF Moves
  <2>q. QED BY <2>2, <2>3, MovesKeepFiles
<1>4. CASE Crash(c)
  <2>1. Moves(c, "dead") /\ UNCHANGED locks BY <1>4 DEF Crash, Goes, Moves
  <2>q. QED BY <2>1, MovesKeepFiles
<1>5. CASE Binds(c) \/ ServerExits(c)
  BY <1>5 DEF Binds, ServerExits, locks, SignedInv, LockInv, FilesAreReleased
<1>q. QED BY <1>1, <1>2, <1>3, <1>4, <1>5
------------------------------------------------------------------------------
(* The registry *)

\* What a call knows of its own server it keeps.
LEMMA CallStep == ASSUME TypeOK, CallInv, Next PROVE CallInv'
<1> USE DEF Mine
<1> SUFFICES ASSUME NEW c \in Calls,
               \/ Begin(c) \/ Locks(c) \/ LocksFail(c) \/ Ensures(c)
               \/ EnsureFails(c) \/ Crash(c) \/ Binds(c) \/ ServerExits(c)
             PROVE CallInv'
  BY DEF Next
<1>1. /\ pc \in [Calls -> Phases] /\ root \in [Calls -> Roots]
      /\ copy \in [Calls -> Registries]
      /\ port \in [Calls -> Ports \cup {None}]
      /\ server \in [Calls -> {"none", "starting", "up", "dead"}]
  BY DEF TypeOK
<1>2. CASE Begin(c)
  BY <1>1, <1>2 DEF Begin, Goes, CallInv, servers
<1>3. CASE Locks(c) \/ LocksFail(c)
  <2>1. /\ pc[c] \in Trying \cup {"release"}
        /\ UNCHANGED <<root, copy, server, port>>
    BY <1>3, LocksLead DEF servers
  <2>2. PICK w \in Trying \cup {"read", "done"} :
          pc' = [pc EXCEPT ![c] = w] /\ (pc[c] = "release" => w = "done")
    BY <1>3, LocksLead
  <2>q. QED BY <1>1, <2>1, <2>2 DEF CallInv, Trying
<1>4. CASE Ensures(c) \/ EnsureFails(c)
  <2>1. root' = root BY <1>4, EnsureLeads
  <2> USE DEF Goes, CallInv
  <2>2. CASE ReadRegistry(c)
    BY <1>1, <2>1, <2>2 DEF ReadRegistry, servers, Registries
  <2>3. CASE Reuse(c) BY <1>1, <2>1, <2>3 DEF Reuse, servers
  <2>4. CASE Forget(c) BY <1>1, <2>1, <2>4 DEF Forget
  <2>5. CASE Allocate(c) BY <1>1, <2>1, <2>5 DEF Allocate
  <2>6. CASE Spawn(c) BY <1>1, <2>1, <2>6 DEF Spawn
  <2>7. CASE Record(c) BY <1>1, <2>1, <2>7 DEF Record, servers
  <2>8. CASE Ready(c) BY <1>1, <2>1, <2>8 DEF Ready, servers
  <2>9. CASE Throws(c) BY <1>1, <2>1, <2>9 DEF Throws, servers
  <2>10. CASE ErrorUnheard(c) BY <1>1, <2>1, <2>10 DEF ErrorUnheard, servers
  <2>11. CASE SpawnFails(c) BY <1>1, <2>1, <2>11 DEF SpawnFails, servers
  <2>12. CASE RecordFails(c) BY <1>1, <2>1, <2>12 DEF RecordFails
  <2>q. QED BY <1>4, <2>2, <2>3, <2>4, <2>5, <2>6, <2>7, <2>8, <2>9, <2>10,
    <2>11, <2>12 DEF Ensures, EnsureFails
<1>5. CASE Crash(c)
  BY <1>1, <1>5 DEF Crash, Goes, CallInv
<1>6. CASE Binds(c)
  BY <1>1, <1>6 DEF Binds, CallInv
<1>7. CASE ServerExits(c)
  BY <1>1, <1>7 DEF ServerExits, CallInv
<1>q. QED BY <1>2, <1>3, <1>4, <1>5, <1>6, <1>7

\* What a step under the lock leaves of the copies, and of the servers that
\* live, when no other call is under the lock.
LEMMA EnsureKeepsRegistry ==
  ASSUME TypeOK, LockInv, CallInv, CopyInv, LiveServersAreReferenced,
         ~usurped, NEW c \in Calls, Ensures(c) \/ EnsureFails(c)
  PROVE  CopyInv' /\ LiveServersAreReferenced'
<1> USE DEF Mine
<1>1. /\ pc \in [Calls -> Phases] /\ root \in [Calls -> Roots]
      /\ registry \in Registries /\ copy \in [Calls -> Registries]
      /\ port \in [Calls -> Ports \cup {None}]
      /\ server \in [Calls -> {"none", "starting", "up", "dead"}]
      /\ None \notin Calls /\ None # Nobody /\ Nobody \notin Calls
  BY NoneAssumption, NobodyAssumption DEF TypeOK
<1>2. root' = root /\ usurped' = usurped BY EnsureLeads DEF locks
\* No other call is past the lock.
<1>3. \A d \in Calls \ {c} : pc[d] \notin Operation /\ pc'[d] = pc[d]
  BY <1>1, EnsureLeads DEF LockInv, Locking
<1>4. copy[c] \in Registries /\ root[c] \in Roots BY <1>1
\* The copy of the call is all that is left to say of copies.
<1>5. ASSUME /\ pc'[c] \in Operation \ {"read"} =>
                  \A r \in Roots \ {root[c]} : copy'[c][r] = registry'[r]
             /\ pc'[c] = "probe" => copy'[c][root[c]].by # Nobody
             /\ pc'[c] \in {"probe", "await"} => copy'[c] = registry'
             /\ pc'[c] \in {"allocate", "spawn", "record"} =>
                  Replaceable(root[c])'
      PROVE  CopyInv'
  BY <1>2, <1>3, <1>5 DEF CopyInv, Operation, Replaceable
\* Nor does a server that lives notice anything if none starts.
<1>6. ASSUME UNCHANGED <<registry, server, unrecorded>>, pc[c] # "record"
      PROVE  LiveServersAreReferenced'
  BY <1>2, <1>3, <1>6, <1>1, EnsureLeads DEF LiveServersAreReferenced
<1>7. CASE ReadRegistry(c)
  <2>1. pc'[c] \in {"probe", "allocate"} /\ UNCHANGED <<registry, servers>>
    BY <1>1, <1>7 DEF ReadRegistry, Goes
  <2>2. copy'[c] = registry' BY <1>1, <1>7 DEF ReadRegistry
  <2>3. pc'[c] = "probe" => copy'[c][root[c]].by # Nobody
    BY <1>1, <1>4, <1>7 DEF ReadRegistry, Goes
  <2>4. pc'[c] = "allocate" => Replaceable(root[c])'
    BY <1>1, <1>2, <1>7 DEF ReadRegistry, Goes, Replaceable
  <2>5. CopyInv' BY <1>5, <2>1, <2>2, <2>3, <2>4
  <2>q. QED BY <1>6, <1>7, <2>1, <2>5 DEF ReadRegistry, servers
<1>8. CASE Reuse(c)
  <2>1. pc'[c] = "release" /\ UNCHANGED servers BY <1>1, <1>8 DEF Reuse, Goes
  <2>2. CopyInv' BY <1>5, <2>1 DEF Operation
  <2>3. copy[c] = registry BY <1>8 DEF Reuse, CopyInv
  <2>4. \/ registry' = registry
        \/ /\ server[Mine(c).by] = "dead" /\ Mine(c).by # None
           /\ registry' =
                [registry EXCEPT ![root[c]] = [Mine(c) EXCEPT !.by = None]]
    BY <1>8, <2>3 DEF Reuse
  <2>5. CASE registry' = registry
    BY <1>6, <1>8, <2>1, <2>2, <2>5 DEF Reuse, servers
  <2>6. CASE /\ server[Mine(c).by] = "dead"
             /\ registry' =
                [registry EXCEPT ![root[c]] = [Mine(c) EXCEPT !.by = None]]
    <3>1. \A d \in Calls :
            root[d] # root[c] => registry'[root[d]] = registry[root[d]]
      BY <1>1, <2>6 DEF Registries
    <3>2. \A d \in Calls \ unrecorded :
            server[d] \in {"starting", "up"} /\ pc[d] # "record" =>
              root[d] # root[c]
      BY <2>3, <2>6 DEF LiveServersAreReferenced
    <3>3. LiveServersAreReferenced'
      BY <1>2, <1>3, <1>8, <2>1, <3>1, <3>2
      DEF LiveServersAreReferenced, servers, Reuse
    <3>q. QED BY <2>2, <3>3
  <2>q. QED BY <2>4, <2>5, <2>6
<1>9. CASE Forget(c)
  <2>1. pc'[c] = "allocate" /\ UNCHANGED <<registry, server, unrecorded>>
    BY <1>1, <1>9 DEF Forget, Goes
  <2>2. /\ copy[c] = registry /\ Mine(c).by # Nobody
        /\ Mine(c) \in Entries
    BY <1>1, <1>9 DEF Forget, CopyInv, CallInv, Registries
  <2>3. Replaceable(root[c])'
    BY <1>2, <1>9, <2>1, <2>2 DEF Forget, Replaceable, Entries
  <2>4. \A r \in Roots \ {root[c]} : copy'[c][r] = registry'[r]
    BY <1>1, <1>9, <2>1, <2>2 DEF Forget, Registries
  <2>5. CopyInv' BY <1>5, <2>1, <2>3, <2>4
  <2>q. QED BY <1>6, <1>9, <2>1, <2>5 DEF Forget
<1>10. CASE Allocate(c)
  <2>1. pc'[c] = "spawn" /\ UNCHANGED <<registry, copy, server, unrecorded>>
    BY <1>1, <1>10 DEF Allocate, Goes
  <2>2. Replaceable(root[c])'
    BY <1>2, <1>10, <2>1 DEF Allocate, CopyInv, Replaceable
  <2>3. CopyInv' BY <1>5, <1>10, <2>1, <2>2 DEF Allocate, CopyInv, Operation
  <2>q. QED BY <1>6, <1>10, <2>1, <2>3 DEF Allocate
<1>11. CASE Spawn(c)
  <2>1. /\ pc'[c] = "record" /\ UNCHANGED <<registry, copy, unrecorded>>
        /\ server' = [server EXCEPT ![c] = "starting"] /\ server[c] = "none"
    BY <1>1, <1>11 DEF Spawn, Goes, CallInv
  <2>2. Replaceable(root[c])'
    BY <1>1, <1>2, <1>11, <2>1 DEF Spawn, CopyInv, Replaceable
  <2>3. CopyInv' BY <1>5, <1>11, <2>1, <2>2 DEF Spawn, CopyInv, Operation
  <2>4. LiveServersAreReferenced'
    BY <1>1, <1>2, <1>3, <2>1 DEF LiveServersAreReferenced
  <2>q. QED BY <2>3, <2>4
<1>12. CASE Record(c)
  <2>1. pc'[c] = "await" /\ copy'[c] = registry' /\ UNCHANGED servers
    BY <1>1, <1>12 DEF Record, Goes
  <2>2. CopyInv' BY <1>5, <2>1
  <2>3. registry' = [copy[c] EXCEPT ![root[c]] = Started(c)]
    BY <1>1, <1>12 DEF Record
  <2>4. \A r \in Roots \ {root[c]} : registry'[r] = registry[r]
    BY <1>4, <1>12, <2>3 DEF Record, CopyInv, Operation, Registries
  <2>5. registry'[root[c]] = Started(c) BY <1>4, <2>3 DEF Registries
  <2>6. server[c] # "none" => Started(c).by = c BY DEF Started
  <2>7. Started(c) # None
    BY <1>12, EntryAssumption DEF Record, CallInv, Started
  <2>8. Replaceable(root[c]) BY <1>12 DEF Record, CopyInv
  <2>9. \A d \in Calls \ (unrecorded \cup {c}) :
          server[d] \in {"starting", "up"} /\ pc[d] # "record" =>
            root[d] # root[c]
    BY <1>1, <2>8 DEF LiveServersAreReferenced, Replaceable
  <2>10. ASSUME NEW d \in Calls \ unrecorded, pc'[d] # "record",
                server[d] \in {"starting", "up"}
         PROVE  registry'[root[d]] # None /\ registry'[root[d]].by = d
    <3>1. CASE d = c BY <2>5, <2>6, <2>7, <2>10, <3>1
    <3>2. CASE d # c
      <4>1. pc[d] # "record" BY <1>3, <2>10, <3>2
      <4>2. registry'[root[d]] = registry[root[d]]
        BY <1>1, <2>4, <2>9, <2>10, <3>2, <4>1
      <4>q. QED BY <2>10, <4>1, <4>2 DEF LiveServersAreReferenced
    <3>q. QED BY <3>1, <3>2
  <2>11. LiveServersAreReferenced'
    BY <1>2, <2>1, <2>10 DEF LiveServersAreReferenced, servers
  <2>q. QED BY <2>2, <2>11
<1>13. CASE Ready(c)
  <2>1. pc'[c] = "release" /\ registry' = registry /\ UNCHANGED servers
    BY <1>1, <1>13 DEF Ready, Goes, CopyInv
  <2>2. CopyInv' BY <1>5, <2>1 DEF Operation
  <2>q. QED BY <1>6, <1>13, <2>1, <2>2 DEF Ready, servers
<1>14. CASE Throws(c) \/ ErrorUnheard(c)
  <2>1. /\ pc'[c] \in {"release", "dead"} /\ UNCHANGED <<registry, servers>>
        /\ pc[c] # "record"
    BY <1>1, <1>14 DEF Throws, ErrorUnheard, Goes
  <2>2. CopyInv' BY <1>5, <2>1 DEF Operation
  <2>q. QED BY <1>6, <2>1, <2>2 DEF servers
<1>15. CASE SpawnFails(c)
  <2>1. pc'[c] = "record" /\ UNCHANGED <<registry, copy, servers>>
    BY <1>1, <1>15 DEF SpawnFails, Goes
  <2>2. Replaceable(root[c])'
    BY <1>2, <1>15, <2>1 DEF SpawnFails, CopyInv, Replaceable, servers
  <2>3. CopyInv' BY <1>5, <1>15, <2>1, <2>2 DEF SpawnFails, CopyInv, Operation
  <2>q. QED BY <1>6, <1>15, <2>1, <2>3 DEF SpawnFails, servers
<1>16. CASE RecordFails(c)
  <2>1. /\ pc'[c] \in {"release", "dead"} /\ UNCHANGED <<registry, server>>
        /\ unrecorded' = unrecorded \cup {c}
    BY <1>1, <1>16 DEF RecordFails, Goes
  <2>2. CopyInv' BY <1>5, <2>1 DEF Operation
  <2>3. LiveServersAreReferenced'
    BY <1>2, <1>3, <2>1 DEF LiveServersAreReferenced
  <2>q. QED BY <2>2, <2>3
<1>q. QED BY <1>7, <1>8, <1>9, <1>10, <1>11, <1>12, <1>13, <1>14, <1>15, <1>16
  DEF Ensures, EnsureFails

LEMMA RegistryStep ==
  ASSUME TypeOK, LockInv, CallInv, CopyInv, LiveServersAreReferenced, Next
  PROVE  CopyInv' /\ LiveServersAreReferenced'
<1> USE DEF Mine
<1> SUFFICES ASSUME NEW c \in Calls,
               \/ Begin(c) \/ Locks(c) \/ LocksFail(c) \/ Ensures(c)
               \/ EnsureFails(c) \/ Crash(c) \/ Binds(c) \/ ServerExits(c)
             PROVE CopyInv' /\ LiveServersAreReferenced'
  BY DEF Next
<1>1. /\ pc \in [Calls -> Phases]
      /\ server \in [Calls -> {"none", "starting", "up", "dead"}]
  BY DEF TypeOK
<1>2. CASE Begin(c)
  BY <1>1, <1>2 DEF Begin, Goes, CopyInv, LiveServersAreReferenced, servers,
    locks, Operation, Replaceable
<1>3. CASE Locks(c) \/ LocksFail(c)
  <2>1. /\ pc[c] \in Trying \cup {"release"}
        /\ UNCHANGED <<root, copy, registry, servers>>
        /\ usurped => usurped'
    BY <1>3, LocksLead
  <2>2. PICK w \in Trying \cup {"read", "done"} : pc' = [pc EXCEPT ![c] = w]
    BY <1>3, LocksLead
  <2>3. /\ pc[c] # "record" /\ pc'[c] \notin Operation \ {"read"}
        /\ \A d \in Calls \ {c} : pc'[d] = pc[d]
    BY <1>1, <2>1, <2>2 DEF Trying, Operation
  <2>4. CopyInv'
    BY <2>1, <2>3 DEF CopyInv, Replaceable, servers, Operation
  <2>5. LiveServersAreReferenced'
    BY <2>1, <2>3 DEF LiveServersAreReferenced, servers
  <2>q. QED BY <2>4, <2>5
<1>4. CASE Ensures(c) \/ EnsureFails(c)
  <2>1. usurped' = usurped BY <1>4, EnsureLeads DEF locks
  <2>2. CASE usurped BY <2>1, <2>2 DEF CopyInv, LiveServersAreReferenced
  <2>q. QED BY <1>4, <2>2, EnsureKeepsRegistry
<1>5. CASE Crash(c)
  BY <1>1, <1>5 DEF Crash, Goes, CopyInv, LiveServersAreReferenced, locks,
    Operation, Replaceable
<1>6. CASE Binds(c) \/ ServerExits(c)
  BY <1>1, <1>6 DEF Binds, ServerExits, CopyInv, LiveServersAreReferenced,
    locks, Replaceable
<1>q. QED BY <1>2, <1>3, <1>4, <1>5, <1>6
------------------------------------------------------------------------------
(* The theorems *)

LEMMA InitInv == Init => Inv
<1> SUFFICES ASSUME Init PROVE Inv
  OBVIOUS
<1>1. /\ Old \subseteq Calls /\ None \notin Calls
      /\ pc = [c \in Calls |-> IF c \in Old THEN "dead" ELSE "idle"]
      /\ file \in [Files -> Old \cup {None}]
      /\ registry \in [Roots -> [by : Old, port : Ports] \cup {None}]
  BY OldAssumption, NoneAssumption DEF Init
<1>2. /\ pc \in [Calls -> Phases]
      /\ \A c \in Calls : pc[c] \in {"idle", "dead"}
  BY <1>1 DEF Phases
<1>3. TypeOK
  <2>1. registry \in Registries BY <1>1 DEF Registries, Entries
  <2>2. copy \in [Calls -> Registries]
    <3>1. Empty \in Registries BY DEF Empty, Registries
    <3>q. QED BY <3>1 DEF Init
  <2>3. file \in [Files -> Calls \cup {None}] BY <1>1
  <2>q. QED BY <1>2, <2>1, <2>2, <2>3 DEF Init, TypeOK
<1>4. SignedInv /\ LockInv
  BY <1>2 DEF SignedInv, LockInv, Locking, Reclaiming, Operation
<1>5. FilesAreReleased
  BY <1>1 DEF FilesAreReleased
<1>6. CallInv
  <2>1. \A c \in Calls : server[c] # "none" => c \in Old BY DEF Init
  <2>q. QED BY <1>1, <1>2, <2>1 DEF CallInv
<1>7. CopyInv
  BY <1>2 DEF CopyInv, Operation
<1>8. LiveServersAreReferenced
  <2>1. SUFFICES ASSUME NEW c \in Calls, server[c] \in {"starting", "up"}
                 PROVE  registry[root[c]] # None /\ registry[root[c]].by = c
    BY DEF LiveServersAreReferenced
  <2>2. /\ registry[root[c]] = [by |-> c, port |-> port[c]]
        /\ port[c] \in Ports
    BY <2>1 DEF Init
  <2>q. QED BY <2>2, EntryAssumption
<1>q. QED BY <1>3, <1>4, <1>5, <1>6, <1>7, <1>8 DEF Inv

LEMMA StepInv == Inv /\ [Next]_vars => Inv'
<1>1. ASSUME Inv, Next PROVE Inv'
  BY <1>1, TypesStep, FilesStep, CallStep, RegistryStep DEF Inv
<1>2. ASSUME Inv, UNCHANGED vars PROVE Inv'
  <2> USE <1>2 DEF vars, locks, servers
  <2>1. TypeOK' BY DEF Inv, TypeOK
  <2>2. SignedInv' /\ LockInv' /\ FilesAreReleased'
    BY DEF Inv, SignedInv, LockInv, FilesAreReleased
  <2>3. CallInv' BY DEF Inv, CallInv, Mine
  <2>4. CopyInv' /\ LiveServersAreReferenced'
    BY DEF Inv, CopyInv, Mine, Replaceable, LiveServersAreReferenced
  <2>q. QED BY <2>1, <2>2, <2>3, <2>4 DEF Inv
<1>q. QED BY <1>1, <1>2

LEMMA Invariant == Spec => []Inv
BY InitInv, StepInv, PTL DEF Spec

\* Every value is of the kind its variable is for: no entry is written that
\* readRegistry would refuse for its shape (server.ts:268).
THEOREM TypeCorrectness == Spec => []TypeOK
<1>1. Inv => TypeOK BY DEF Inv
<1>q. QED BY <1>1, Invariant, PTL

\* One call at a time reads and writes the registry (server.ts:404), however
\* many processes died and left their files, unless two of them reclaimed the
\* barrier of a third.
THEOREM OneCallAtATime == Spec => []OneHolder
<1>1. Inv => OneHolder BY DEF Inv, LockInv, OneHolder, Locking
<1>q. QED BY <1>1, Invariant, PTL

\* A server that lives is the one its root is recorded with (server.ts:239),
\* whichever roots other calls write at the same time.
THEOREM ServersAreFound == Spec => []LiveServersAreReferenced
<1>1. Inv => LiveServersAreReferenced BY DEF Inv
<1>q. QED BY <1>1, Invariant, PTL

\* A process that lives leaves no file behind but the barrier it could not
\* write (server.ts:428 and 506).
THEOREM FilesGo == Spec => []FilesAreReleased
<1>1. Inv => FilesAreReleased BY DEF Inv
<1>q. QED BY <1>1, Invariant, PTL
==============================================================================
