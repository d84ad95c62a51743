--------------------------- MODULE OpenCodeRegistry --------------------------
(***************************************************************************)
(* The registry of OpenCode servers that the daemons of one state root     *)
(* share: packages/infrastructure/src/agents/opencode/server.ts.  ensure() *)
(* finds, reuses or starts the server of a project root; what it reads and *)
(* writes is guarded by a lock file, and taking over the lock file of a    *)
(* dead process by a second one, the barrier.                              *)
(*                                                                         *)
(* A call of ensure() stands for its process: every access to a file is a  *)
(* step of its own, except that reading one's own file and removing it, or *)
(* reading and comparing one another process left, is one.  Old are calls  *)
(* of processes that died before; what they left is in the initial states. *)
(* The server a call starts bears its name, as the pid it is recorded with *)
(* does.  A process id is not given out twice.                             *)
(***************************************************************************)
EXTENDS Naturals, FiniteSets

CONSTANTS
  Calls,        \* calls of ensure(), their processes, the servers they start
  Old,          \* those of processes that died before
  Roots,        \* project roots
  Ports,
  None,
  Nobody,       \* pid 0: the process of a child that could not be started
  MaxCrashes    \* how many processes are killed

ASSUME OldAssumption == Old \subseteq Calls
ASSUME NoneAssumption == None \notin Calls \cup Ports \cup {Nobody}
ASSUME NobodyAssumption == Nobody \notin Calls
ASSUME EntryAssumption ==
  None \notin [by : Calls \cup {None, Nobody}, port : Ports]
ASSUME CrashesAssumption == MaxCrashes \in Nat

VARIABLES
  pc,           \* what a call does next
  root,         \* the project root it was called for
  crashes,
  file,         \* the call that created the lock, or the barrier
  signed,       \* whether its record is written: an empty file says nothing
  unmarked,     \* calls that failed to write their barrier
  usurped,      \* the barrier of a process in its midst was removed
  registry,     \* the server each root is recorded with
  copy,         \* the registry as a call read it
  port,         \* the port of the server a call starts
  server,       \* the life of that server
  unrecorded    \* calls that started one and could not record it

locks == <<file, signed, unmarked, usurped>>
servers == <<server, port, unrecorded>>
vars == <<pc, root, crashes, locks, registry, copy, servers>>

Files == {"lock", "barrier"}
Entries == [by : Calls \cup {None, Nobody}, port : Ports]
Registries == [Roots -> Entries \cup {None}]
Empty == [r \in Roots |-> None]

Trying == {"try", "open", "sign", "check", "back", "reclaim", "mark", "look",
           "unlink", "leave", "stale", "usurp", "wait"}
Operation == {"read", "probe", "allocate", "spawn", "record", "await"}
Phases == Trying \cup Operation \cup {"idle", "release", "done", "dead"}

\* Where a call is when it has created the file and not yet removed it.
Reclaiming == {"mark", "look", "unlink", "leave"}
Locking == {"sign", "check", "back", "release"} \cup Operation
Owning == [f \in Files |-> IF f = "lock" THEN Locking ELSE Reclaiming]

TypeOK ==
  /\ pc \in [Calls -> Phases]
  /\ root \in [Calls -> Roots]
  /\ crashes \in Nat
  /\ file \in [Files -> Calls \cup {None}]
  /\ signed \in [Files -> BOOLEAN]
  /\ unmarked \in SUBSET Calls
  /\ usurped \in BOOLEAN
  /\ registry \in Registries
  /\ copy \in [Calls -> Registries]
  /\ port \in [Calls -> Ports \cup {None}]
  /\ server \in [Calls -> {"none", "starting", "up", "dead"}]
  /\ unrecorded \in SUBSET Calls

\* A dead process left the lock, the barrier, both or neither, with or without
\* its record, and a server that may still run, recorded or not started.
Init ==
  /\ pc = [c \in Calls |-> IF c \in Old THEN "dead" ELSE "idle"]
  /\ root \in [Calls -> Roots]
  /\ crashes = 0
  /\ file \in [Files -> Old \cup {None}]
  /\ signed \in [Files -> BOOLEAN]
  /\ \A f \in Files : file[f] = None => ~signed[f]
  /\ unmarked = {} /\ unrecorded = {} /\ usurped = FALSE
  /\ copy = [c \in Calls |-> Empty]
  /\ server \in [Calls -> {"none", "up", "dead"}]
  /\ port \in [Calls -> Ports \cup {None}]
  /\ registry \in [Roots -> [by : Old, port : Ports] \cup {None}]
  /\ \A c \in Calls :
       IF server[c] = "none" THEN port[c] = None
       ELSE /\ c \in Old /\ port[c] \in Ports
            /\ registry[root[c]] = [by |-> c, port |-> port[c]]
  /\ \A r \in Roots : registry[r] # None =>
       root[registry[r].by] = r /\ server[registry[r].by] # "none"
  /\ \A c, d \in Calls :
       server[c] = "up" /\ server[d] = "up" /\ port[c] = port[d] => c = d

Goes(c, where) == pc' = [pc EXCEPT ![c] = where]

Begin(c) ==
  /\ pc[c] = "idle"
  /\ Goes(c, "try")
  /\ UNCHANGED <<root, crashes, locks, registry, copy, servers>>
------------------------------------------------------------------------------
(* The lock and the barrier *)

Exists(f) == file[f] # None

\* Creating a file that must not exist; it has no record yet.
Creates(c, f) ==
  /\ ~Exists(f)
  /\ file' = [file EXCEPT ![f] = c]
  /\ signed' = [signed EXCEPT ![f] = FALSE]

Removes(f) ==
  /\ file' = [file EXCEPT ![f] = None]
  /\ signed' = [signed EXCEPT ![f] = FALSE]

\* The record goes to the file that was opened, wherever that is now.
Signs(c, f) ==
  /\ signed' = [signed EXCEPT ![f] = @ \/ file[f] = c]
  /\ UNCHANGED file

\* releaseLock: the file goes if it still holds one's own token.
Releases(c, f) ==
  IF file[f] = c /\ signed[f] THEN Removes(f) ELSE UNCHANGED <<file, signed>>

\* Mutant: whoever left the file, it is taken for stale.
LeftByAnybody(f) == Exists(f) /\ signed[f]

\* readLockRecord and lockOwnerIsDead: an empty file names nobody.
LeftByDead(f) == Exists(f) /\ signed[f] /\ pc[file[f]] = "dead"

Try(c) ==
  /\ pc[c] = "try"
  /\ Goes(c, IF Exists("barrier") THEN "reclaim" ELSE "open")
  /\ UNCHANGED locks

OpenLock(c) ==
  /\ pc[c] = "open"
  /\ Creates(c, "lock")
  /\ Goes(c, "sign")
  /\ UNCHANGED <<unmarked, usurped>>

LockTaken(c) ==
  /\ pc[c] = "open"
  /\ Exists("lock")
  /\ Goes(c, "reclaim")
  /\ UNCHANGED locks

Sign(c) ==
  /\ pc[c] = "sign"
  /\ Signs(c, "lock")
  /\ Goes(c, "check")
  /\ UNCHANGED <<unmarked, usurped>>

\* The record cannot be written: the file is removed, the error thrown.
SignFails(c) ==
  /\ pc[c] = "sign"
  /\ Removes("lock")
  /\ Goes(c, "done")
  /\ UNCHANGED <<unmarked, usurped>>

\* Somebody may have started to reclaim meanwhile.
Check(c) ==
  /\ pc[c] = "check"
  /\ Goes(c, IF Exists("barrier") THEN "back" ELSE "read")
  /\ UNCHANGED locks

Back(c) ==
  /\ pc[c] = "back"
  /\ Releases(c, "lock")
  /\ Goes(c, "reclaim")
  /\ UNCHANGED <<unmarked, usurped>>

OpenBarrier(c) ==
  /\ pc[c] = "reclaim"
  /\ Creates(c, "barrier")
  /\ Goes(c, "mark")
  /\ UNCHANGED <<unmarked, usurped>>

BarrierTaken(c) ==
  /\ pc[c] = "reclaim"
  /\ Exists("barrier")
  /\ Goes(c, "stale")
  /\ UNCHANGED locks

Mark(c) ==
  /\ pc[c] = "mark"
  /\ Signs(c, "barrier")
  /\ Goes(c, "look")
  /\ UNCHANGED <<unmarked, usurped>>

\* The record cannot be written: the error is thrown and the file stays.
MarkFails(c) ==
  /\ pc[c] = "mark"
  /\ unmarked' = unmarked \cup {c}
  /\ Goes(c, "done")
  /\ UNCHANGED <<file, signed, usurped>>

Look(c) ==
  /\ pc[c] = "look"
  /\ Goes(c, IF LeftByDead("lock") THEN "unlink" ELSE "leave")
  /\ UNCHANGED locks

\* removeLockIfUnchanged, after its comparison: whatever is there goes.
UnlinkLock(c) ==
  /\ pc[c] = "unlink"
  /\ Removes("lock")
  /\ Goes(c, "leave")
  /\ UNCHANGED <<unmarked, usurped>>

Leave(c) ==
  /\ pc[c] = "leave"
  /\ Releases(c, "barrier")
  /\ Goes(c, "wait")
  /\ UNCHANGED <<unmarked, usurped>>

\* Mutant: nobody looks whether the owner of the barrier still lives.
StaleKept(c) ==
  /\ pc[c] = "stale"
  /\ Goes(c, "wait")
  /\ UNCHANGED locks

Stale(c) ==
  /\ pc[c] = "stale"
  /\ Goes(c, IF LeftByDead("barrier") THEN "usurp" ELSE "wait")
  /\ UNCHANGED locks

\* A process that lives is behind the file.
InUse(f) == Exists(f) /\ pc[file[f]] \in Owning[f]

\* removeLockIfUnchanged again, with nothing to keep others from doing the
\* same: what is there now may be the barrier of a third process.
UnlinkBarrier(c) ==
  /\ pc[c] = "usurp"
  /\ Removes("barrier")
  /\ usurped' = (usurped \/ InUse("barrier"))
  /\ Goes(c, "wait")
  /\ UNCHANGED unmarked

Sleep(c) ==
  /\ pc[c] = "wait"
  /\ Goes(c, "try")
  /\ UNCHANGED locks

\* The deadline has passed, the caller aborts, or no file can be created.
GiveUp(c) ==
  /\ pc[c] \in {"try", "open", "reclaim", "wait"}
  /\ Goes(c, "done")
  /\ UNCHANGED locks

Release(c) ==
  /\ pc[c] = "release"
  /\ Releases(c, "lock")
  /\ Goes(c, "done")
  /\ UNCHANGED <<unmarked, usurped>>

Locks(c) ==
  /\ \/ Try(c) \/ OpenLock(c) \/ LockTaken(c) \/ Sign(c) \/ Check(c)
     \/ Back(c) \/ OpenBarrier(c) \/ BarrierTaken(c) \/ Mark(c) \/ Look(c)
     \/ UnlinkLock(c) \/ Leave(c) \/ Stale(c) \/ UnlinkBarrier(c)
     \/ Sleep(c) \/ Release(c)
  /\ UNCHANGED <<root, crashes, registry, copy, servers>>

LocksFail(c) ==
  /\ SignFails(c) \/ MarkFails(c) \/ GiveUp(c)
  /\ UNCHANGED <<root, crashes, registry, copy, servers>>
------------------------------------------------------------------------------
(* ensure(), under the lock *)

Mine(c) == copy[c][root[c]]

\* Something answers the health request: any server does, for any root.
Answers(p) == \E d \in Calls : server[d] = "up" /\ port[d] = p

\* readRegistry: one entry that is not valid and the file is refused.
ReadRegistry(c) ==
  /\ pc[c] = "read"
  /\ \A r \in Roots : registry[r] # None => registry[r].by # Nobody
  /\ copy' = [copy EXCEPT ![c] = registry]
  /\ Goes(c, IF registry[root[c]] = None THEN "allocate" ELSE "probe")
  /\ UNCHANGED <<registry, servers>>

\* The process it was recorded with is dead and another server has the port:
\* the entry goes on without a pid.
Reuse(c) ==
  /\ pc[c] = "probe"
  /\ Answers(Mine(c).port)
  /\ IF Mine(c).by # None /\ server[Mine(c).by] = "dead"
     THEN registry' =
            [copy[c] EXCEPT ![root[c]] = [Mine(c) EXCEPT !.by = None]]
     ELSE registry' \in {registry, copy[c]}
  /\ Goes(c, "release")
  /\ UNCHANGED <<copy, servers>>

Forget(c) ==
  /\ pc[c] = "probe"
  /\ IF Mine(c).by = None THEN ~Answers(Mine(c).port)
     ELSE server[Mine(c).by] = "dead"
  /\ port' = [port EXCEPT ![c] = Mine(c).port]
  /\ copy' = [copy EXCEPT ![c][root[c]] = None]
  /\ Goes(c, "allocate")
  /\ UNCHANGED <<registry, server, unrecorded>>

\* The port the last server had, if it is free.
Allocate(c) ==
  /\ pc[c] = "allocate"
  /\ \E p \in Ports :
       /\ ~Answers(p)
       /\ port[c] # None /\ ~Answers(port[c]) => p = port[c]
       /\ port' = [port EXCEPT ![c] = p]
  /\ Goes(c, "spawn")
  /\ UNCHANGED <<registry, copy, server, unrecorded>>

Spawn(c) ==
  /\ pc[c] = "spawn"
  /\ server' = [server EXCEPT ![c] = "starting"]
  /\ Goes(c, "record")
  /\ UNCHANGED <<registry, copy, port, unrecorded>>

\* The executable or the directory is missing: the child has no pid, and says
\* so later.
SpawnFails(c) ==
  /\ pc[c] = "spawn"
  /\ Goes(c, "record")
  /\ UNCHANGED <<registry, copy, servers>>

Started(c) ==
  [by |-> IF server[c] = "none" THEN Nobody ELSE c, port |-> port[c]]

\* Mutant: the registry is written when the server answers.
RecordLater(c) ==
  /\ pc[c] = "record"
  /\ copy' = [copy EXCEPT ![c][root[c]] = Started(c)]
  /\ Goes(c, "await")
  /\ UNCHANGED <<registry, servers>>

\* The reference is on disk before anything is awaited.
Record(c) ==
  /\ pc[c] = "record"
  /\ copy' = [copy EXCEPT ![c][root[c]] = Started(c)]
  /\ registry' = copy'[c]
  /\ Goes(c, "await")
  /\ UNCHANGED servers

RecordFails(c) ==
  /\ pc[c] = "record"
  /\ unrecorded' = unrecorded \cup {c}
  /\ Goes(c, "release") \/ (server[c] = "none" /\ Goes(c, "dead"))
  /\ UNCHANGED <<registry, copy, port, server>>

Ready(c) ==
  /\ pc[c] = "await"
  /\ server[c] # "none" /\ Answers(port[c])
  /\ registry' = copy[c]
  /\ Goes(c, "release")
  /\ UNCHANGED <<copy, servers>>

\* Mutant: the lock is released only when the operation returns.
ThrowsUnreleased(c) ==
  /\ pc[c] \in {"read", "probe", "allocate", "spawn", "await"}
  /\ pc[c] = "await" => server[c] # "none"
  /\ Goes(c, "done")
  /\ UNCHANGED <<registry, copy, servers>>

\* The registry is not valid, the server is there and does not answer, its
\* port is taken, the time is up, or the caller aborts: the call throws.
Throws(c) ==
  /\ pc[c] \in {"read", "probe", "allocate", "spawn", "await"}
  /\ pc[c] = "await" => server[c] # "none"
  /\ Goes(c, "release")
  /\ UNCHANGED <<registry, copy, servers>>

\* Nobody listens to the error of a child without a pid: the process ends.
ErrorUnheard(c) ==
  /\ pc[c] = "await"
  /\ server[c] = "none"
  /\ Goes(c, "dead")
  /\ UNCHANGED <<registry, copy, servers>>

Ensures(c) ==
  /\ \/ ReadRegistry(c) \/ Reuse(c) \/ Forget(c) \/ Allocate(c) \/ Spawn(c)
     \/ Record(c) \/ Ready(c) \/ Throws(c) \/ ErrorUnheard(c)
  /\ UNCHANGED <<root, crashes, locks>>

EnsureFails(c) ==
  /\ SpawnFails(c) \/ RecordFails(c)
  /\ UNCHANGED <<root, crashes, locks>>
------------------------------------------------------------------------------
(* Processes and servers *)

Crash(c) ==
  /\ pc[c] \notin {"idle", "done", "dead"}
  /\ crashes < MaxCrashes
  /\ crashes' = crashes + 1
  /\ Goes(c, "dead")
  /\ unrecorded' =
       IF pc[c] = "record" THEN unrecorded \cup {c} ELSE unrecorded
  /\ UNCHANGED <<root, locks, registry, copy, server, port>>

\* A server that finds its port taken exits.
Binds(c) ==
  /\ server[c] = "starting"
  /\ server' =
       [server EXCEPT ![c] = IF Answers(port[c]) THEN "dead" ELSE "up"]
  /\ UNCHANGED <<pc, root, crashes, locks, registry, copy, port, unrecorded>>

ServerExits(c) ==
  /\ server[c] \in {"starting", "up"}
  /\ server' = [server EXCEPT ![c] = "dead"]
  /\ UNCHANGED <<pc, root, crashes, locks, registry, copy, port, unrecorded>>

Next ==
  \E c \in Calls :
    \/ Begin(c) \/ Locks(c) \/ LocksFail(c) \/ Ensures(c) \/ EnsureFails(c)
    \/ Crash(c) \/ Binds(c) \/ ServerExits(c)

\* A process that lives gets on with its call: files answer, sleeps and the
\* time limits of health requests end.
Fairness == \A c \in Calls : WF_vars(Locks(c)) /\ WF_vars(Ensures(c))

Spec == Init /\ [][Next]_vars /\ Fairness
------------------------------------------------------------------------------
(* Properties *)

\* One call at a time is past the lock, whatever processes died and left
\* (server.ts:380), unless two of them reclaimed the barrier of a third.
OneHolder ==
  ~usurped => \A c, d \in Calls :
    pc[c] \in Operation /\ pc[d] \in Operation => c = d

\* A server that lives is the one its root is recorded with, so that no call
\* starts a second one (server.ts:239), from the moment its call recorded it,
\* which it does before it awaits anything.
LiveServersAreReferenced ==
  ~usurped => \A c \in Calls \ unrecorded :
    server[c] \in {"starting", "up"} /\ pc[c] # "record" =>
      registry[root[c]] # None /\ registry[root[c]].by = c

\* A process that lives leaves neither file behind, however its call ends
\* (server.ts:433 and 484), except the barrier it could not write.
FilesAreReleased ==
  \A f \in Files : \A c \in Calls :
    file[f] = c /\ pc[c] # "dead" =>
      pc[c] \in Owning[f] \/ (f = "barrier" /\ c \in unmarked)

\* The lock of a dead process goes if anybody keeps trying (server.ts:482),
\* unless an empty barrier stays in the way.
Stuck == Exists("barrier") /\ ~InUse("barrier") /\ ~signed["barrier"]

DeadLocksGo ==
  LeftByDead("lock") ~>
    ~LeftByDead("lock") \/ Stuck \/ \A c \in Calls : pc[c] \notin Trying
==============================================================================
