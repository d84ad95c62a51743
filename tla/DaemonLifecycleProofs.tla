------------------------ MODULE DaemonLifecycleProofs ------------------------
(***************************************************************************)
(* What DaemonLifecycle promises for any number of commands.               *)
(*                                                                         *)
(* The port is the one thing the kernel gives to a single process.  Inv    *)
(* says what follows from holding it: who may write the pid record and     *)
(* that nobody then comes to unlink it, whose the control socket file is,  *)
(* and that a restart reads of the daemon that serves when it writes its   *)
(* marker.                                                                 *)
(***************************************************************************)
EXTENDS DaemonLifecycle, TLAPS

\* From Bun.serve until the shutdown, or the end of a failed start, begins.
Holding == {"bound", "probed", "listening", "ready", "serving", "failing"}

PortInv == \A d \in Daemons : phase[d] \in Holding => port = d

\* A command has no daemon before it spawns one.
SpawnInv ==
  \A c \in Commands :
     pc[c] \in {"idle", "probing", "told", "stopping", "clearing", "erasing"} =>
        phase[c] = "none"

\* A command reads of daemons that were started, and cleans up after the dead.
SeenInv ==
  \A c \in Commands :
     /\ seen[c] # None => phase[seen[c]] # "none"
     /\ pc[c] = "stopping" => seen[c] # None
     /\ pc[c] = "clearing" => seen[c] # None /\ phase[seen[c]] = "dead"

\* Only a daemon that came to serve is recorded, and not once it cleaned up;
\* while the one that serves can rely on its record, nobody is about to
\* unlink what is there.
RecordInv ==
  \A d \in Daemons :
     /\ phase[d] = "serving" /\ d \notin crossed => rec = d /\ ~Erasing
     /\ rec = d =>
          phase[d] \in {"serving", "unlinking", "draining", "erasing"} \/ d \in killed
     /\ d \in killed => phase[d] = "dead"
     /\ phase[d] \in {"exiting", "dead"} /\ d \notin killed =>
          rec # d /\ launch # d

PathInv ==
  \A d \in Daemons :
     phase[d] \in {"listening", "ready", "serving"} /\ d \notin overlapped =>
        path = d /\ \A e \in Daemons : phase[e] # "unlinking"

MarkerInv ==
  marker # None =>
     /\ kind[marker] = "restart"
     /\ pc[marker] # "idle"
     /\ \A d \in Daemons : phase[d] = "serving" /\ d \notin crossed =>
          /\ pc[marker] \in {"probing", "told", "stopping"} => seen[marker] = d
          /\ pc[marker] \notin {"starting"} \cup Removals
          /\ pc[marker] \in {"done", "failed"} => marker \in interrupted

Inv ==
  /\ TypeOK /\ PortInv /\ SpawnInv /\ SeenInv /\ RecordInv /\ PathInv
  /\ MarkerInv
-----------------------------------------------------------------------------
\* Every step leaves every variable in its type.
LEMMA TypeStep ==
  ASSUME TypeOK, [Next]_vars
  PROVE  TypeOK'
<1> USE OldAssumption, NoneAssumption, KillsAssumption
       DEF Daemons, history, commands, files, Kinds, Phases, Removals
<1>1. ASSUME NEW c \in Commands, CommandStep(c)
      PROVE  TypeOK'
  <2>1. CASE Probe(c)
    BY <2>1 DEF Probe, Goes, Answers, TypeOK
  <2>2. CASE EnsureDecides(c)
    BY <2>2 DEF EnsureDecides, Goes, Spawn, Alive, TypeOK
  <2>3. CASE StopDecides(c)
    BY <2>3 DEF StopDecides, Goes, Stopped, Spawn, Alive, StopFails, TypeOK
  <2>4. CASE StatusDecides(c)
    BY <2>4 DEF StatusDecides, Goes, Alive, TypeOK
  <2>5. CASE StopReturns(c)
    BY <2>5 DEF StopReturns, Goes, Alive, TypeOK
  <2>6. CASE StopTimesOut(c)
    BY <2>6 DEF StopTimesOut, StopFails, Goes, Alive, TypeOK
  <2>7. CASE StartReturns(c)
    BY <2>7 DEF StartReturns, Answers, Goes, TypeOK
  <2>8. CASE StartExits(c)
    BY <2>8 DEF StartExits, Goes, TypeOK
  <2>9. CASE StartTimesOut(c)
    BY <2>9 DEF StartTimesOut, Goes, Alive, TypeOK
  <2>10. CASE Clear(c)
    BY <2>10 DEF Clear, Names, Goes, TypeOK
  <2>11. CASE Erase(c)
    BY <2>11 DEF Erase, Goes, TypeOK
  <2>12. CASE Tidy(c)
    BY <2>12 DEF Tidy, Removed, RemovalEnds, Stopped, Spawn, Goes, TypeOK
  <2>13. CASE Sweep(c)
    BY <2>13 DEF Sweep, Spawn, Goes, TypeOK
  <2>q. QED
    BY <1>1, <2>1, <2>2, <2>3, <2>4, <2>5, <2>6, <2>7, <2>8, <2>9, <2>10,
      <2>11, <2>12, <2>13 DEF CommandStep
<1>2. ASSUME NEW c \in Commands, Interrupt(c)
      PROVE  TypeOK'
  BY <1>2 DEF Interrupt, Goes, TypeOK
<1>3. ASSUME NEW c \in Commands, NEW k \in Kinds, Begin(c, k)
      PROVE  TypeOK'
  BY <1>3 DEF Begin, Goes, Alive, TypeOK
<1>4. ASSUME NEW d \in Daemons, DaemonStep(d)
      PROVE  TypeOK'
  <2>1. CASE Bind(d)
    BY <2>1 DEF Bind, Reaches, TypeOK
  <2>2. CASE ControlProbe(d)
    BY <2>2 DEF ControlProbe, Reaches, TypeOK
  <2>3. CASE ControlListen(d)
    BY <2>3 DEF ControlListen, Reaches, TypeOK
  <2>4. CASE Restore(d)
    BY <2>4 DEF Restore, Reaches, TypeOK
  <2>5. CASE Publish(d)
    BY <2>5 DEF Publish, Reaches, TypeOK
  <2>6. CASE Shutdown(d)
    BY <2>6 DEF Shutdown, Reaches, TypeOK
  <2>7. CASE StartFails(d)
    BY <2>7 DEF StartFails, Reaches, TypeOK
  <2>8. CASE Unlink(d)
    BY <2>8 DEF Unlink, Reaches, TypeOK
  <2>9. CASE Drained(d)
    BY <2>9 DEF Drained, Names, Reaches, TypeOK
  <2>10. CASE Exit(d)
    BY <2>10 DEF Exit, Reaches, TypeOK
  <2>11. CASE Erased(d)
    BY <2>11 DEF Erased, Reaches, TypeOK
  <2>12. CASE Tidied(d)
    BY <2>12 DEF Tidied, Reaches, TypeOK
  <2>13. CASE Swept(d)
    BY <2>13 DEF Swept, Reaches, TypeOK
  <2>q. QED
    BY <1>4, <2>1, <2>2, <2>3, <2>4, <2>5, <2>6, <2>7, <2>8, <2>9, <2>10,
      <2>11, <2>12, <2>13 DEF DaemonStep
<1>5. ASSUME NEW d \in Daemons, DiesBooting(d)
      PROVE  TypeOK'
  BY <1>5 DEF DiesBooting, Reaches, TypeOK
<1>6. ASSUME NEW d \in Daemons, Kill(d)
      PROVE  TypeOK'
  BY <1>6 DEF Kill, Reaches, Alive, TypeOK
<1>7. CASE UNCHANGED vars
  BY <1>7 DEF vars, TypeOK
<1>q. QED BY <1>1, <1>2, <1>3, <1>4, <1>5, <1>6, <1>7 DEF Next

\* The port is given up only by the daemon that held it.
LEMMA PortStep ==
  ASSUME TypeOK, PortInv, [Next]_vars
  PROVE  PortInv'
<1> USE OldAssumption, NoneAssumption, KillsAssumption
       DEF Daemons, history, commands, files, Holding
<1>1. ASSUME NEW c \in Commands, CommandStep(c)
      PROVE  PortInv'
  <2>1. CASE Probe(c)
    BY <2>1 DEF Probe, Goes, Answers, TypeOK, PortInv
  <2>2. CASE EnsureDecides(c)
    BY <2>2 DEF EnsureDecides, Goes, Spawn, Alive, TypeOK, PortInv
  <2>3. CASE StopDecides(c)
    BY <2>3 DEF StopDecides, Goes, Stopped, Spawn, Alive, StopFails, TypeOK,
      PortInv
  <2>4. CASE StatusDecides(c)
    BY <2>4 DEF StatusDecides, Goes, Alive, TypeOK, PortInv
  <2>5. CASE StopReturns(c)
    BY <2>5 DEF StopReturns, Goes, Alive, TypeOK, PortInv
  <2>6. CASE StopTimesOut(c)
    BY <2>6 DEF StopTimesOut, StopFails, Goes, Alive, TypeOK, PortInv
  <2>7. CASE StartReturns(c)
    BY <2>7 DEF StartReturns, Answers, Goes, TypeOK, PortInv
  <2>8. CASE StartExits(c)
    BY <2>8 DEF StartExits, Goes, TypeOK, PortInv
  <2>9. CASE StartTimesOut(c)
    BY <2>9 DEF StartTimesOut, Goes, Alive, TypeOK, PortInv
  <2>10. CASE Clear(c)
    BY <2>10 DEF Clear, Names, Goes, TypeOK, PortInv
  <2>11. CASE Erase(c)
    BY <2>11 DEF Erase, Goes, TypeOK, PortInv
  <2>12. CASE Tidy(c)
    BY <2>12 DEF Tidy, Removed, RemovalEnds, Stopped, Spawn, Goes, TypeOK,
      PortInv
  <2>13. CASE Sweep(c)
    BY <2>13 DEF Sweep, Spawn, Goes, TypeOK, PortInv
  <2>q. QED
    BY <1>1, <2>1, <2>2, <2>3, <2>4, <2>5, <2>6, <2>7, <2>8, <2>9, <2>10,
      <2>11, <2>12, <2>13 DEF CommandStep
<1>2. ASSUME NEW c \in Commands, Interrupt(c)
      PROVE  PortInv'
  BY <1>2 DEF Interrupt, Goes, TypeOK, PortInv
<1>3. ASSUME NEW c \in Commands, NEW k \in Kinds, Begin(c, k)
      PROVE  PortInv'
  BY <1>3 DEF Begin, Goes, Alive, TypeOK, PortInv
<1>4. ASSUME NEW d \in Daemons, DaemonStep(d)
      PROVE  PortInv'
  <2>1. CASE Bind(d)
    BY <2>1 DEF Bind, Reaches, TypeOK, PortInv
  <2>2. CASE ControlProbe(d)
    BY <2>2 DEF ControlProbe, Reaches, TypeOK, PortInv
  <2>3. CASE ControlListen(d)
    BY <2>3 DEF ControlListen, Reaches, TypeOK, PortInv
  <2>4. CASE Restore(d)
    BY <2>4 DEF Restore, Reaches, TypeOK, PortInv
  <2>5. CASE Publish(d)
    BY <2>5 DEF Publish, Reaches, TypeOK, PortInv
  <2>6. CASE Shutdown(d)
    BY <2>6 DEF Shutdown, Reaches, TypeOK, PortInv
  <2>7. CASE StartFails(d)
    BY <2>7 DEF StartFails, Reaches, TypeOK, PortInv
  <2>8. CASE Unlink(d)
    BY <2>8 DEF Unlink, Reaches, TypeOK, PortInv
  <2>9. CASE Drained(d)
    BY <2>9 DEF Drained, Names, Reaches, TypeOK, PortInv
  <2>10. CASE Exit(d)
    BY <2>10 DEF Exit, Reaches, TypeOK, PortInv
  <2>11. CASE Erased(d)
    BY <2>11 DEF Erased, Reaches, TypeOK, PortInv
  <2>12. CASE Tidied(d)
    BY <2>12 DEF Tidied, Reaches, TypeOK, PortInv
  <2>13. CASE Swept(d)
    BY <2>13 DEF Swept, Reaches, TypeOK, PortInv
  <2>q. QED
    BY <1>4, <2>1, <2>2, <2>3, <2>4, <2>5, <2>6, <2>7, <2>8, <2>9, <2>10,
      <2>11, <2>12, <2>13 DEF DaemonStep
<1>5. ASSUME NEW d \in Daemons, DiesBooting(d)
      PROVE  PortInv'
  BY <1>5 DEF DiesBooting, Reaches, TypeOK, PortInv
<1>6. ASSUME NEW d \in Daemons, Kill(d)
      PROVE  PortInv'
  BY <1>6 DEF Kill, Reaches, Alive, TypeOK, PortInv
<1>7. CASE UNCHANGED vars
  BY <1>7 DEF vars, TypeOK, PortInv
<1>q. QED BY <1>1, <1>2, <1>3, <1>4, <1>5, <1>6, <1>7 DEF Next

\* A command spawns once, on its way to starting.
LEMMA SpawnStep ==
  ASSUME TypeOK, SpawnInv, [Next]_vars
  PROVE  SpawnInv'
<1> USE OldAssumption, NoneAssumption, KillsAssumption
       DEF Daemons, history, commands, files
<1>1. ASSUME NEW c \in Commands, CommandStep(c)
      PROVE  SpawnInv'
  <2>1. CASE Probe(c)
    BY <2>1 DEF Probe, Goes, Answers, TypeOK, SpawnInv
  <2>2. CASE EnsureDecides(c)
    BY <2>2 DEF EnsureDecides, Goes, Spawn, Alive, TypeOK, SpawnInv
  <2>3. CASE StopDecides(c)
    BY <2>3 DEF StopDecides, Goes, Stopped, Spawn, Alive, StopFails, TypeOK,
      SpawnInv
  <2>4. CASE StatusDecides(c)
    BY <2>4 DEF StatusDecides, Goes, Alive, TypeOK, SpawnInv
  <2>5. CASE StopReturns(c)
    BY <2>5 DEF StopReturns, Goes, Alive, TypeOK, SpawnInv
  <2>6. CASE StopTimesOut(c)
    BY <2>6 DEF StopTimesOut, StopFails, Goes, Alive, TypeOK, SpawnInv
  <2>7. CASE StartReturns(c)
    BY <2>7 DEF StartReturns, Answers, Goes, TypeOK, SpawnInv
  <2>8. CASE StartExits(c)
    BY <2>8 DEF StartExits, Goes, TypeOK, SpawnInv
  <2>9. CASE StartTimesOut(c)
    BY <2>9 DEF StartTimesOut, Goes, Alive, TypeOK, SpawnInv
  <2>10. CASE Clear(c)
    BY <2>10 DEF Clear, Names, Goes, TypeOK, SpawnInv
  <2>11. CASE Erase(c)
    BY <2>11 DEF Erase, Goes, TypeOK, SpawnInv
  <2>12. CASE Tidy(c)
    BY <2>12 DEF Tidy, Removed, RemovalEnds, Stopped, Spawn, Goes, TypeOK,
      SpawnInv
  <2>13. CASE Sweep(c)
    BY <2>13 DEF Sweep, Spawn, Goes, TypeOK, SpawnInv
  <2>q. QED
    BY <1>1, <2>1, <2>2, <2>3, <2>4, <2>5, <2>6, <2>7, <2>8, <2>9, <2>10,
      <2>11, <2>12, <2>13 DEF CommandStep
<1>2. ASSUME NEW c \in Commands, Interrupt(c)
      PROVE  SpawnInv'
  BY <1>2 DEF Interrupt, Goes, TypeOK, SpawnInv
<1>3. ASSUME NEW c \in Commands, NEW k \in Kinds, Begin(c, k)
      PROVE  SpawnInv'
  BY <1>3 DEF Begin, Goes, Alive, TypeOK, SpawnInv
<1>4. ASSUME NEW d \in Daemons, DaemonStep(d)
      PROVE  SpawnInv'
  <2>1. CASE Bind(d)
    BY <2>1 DEF Bind, Reaches, TypeOK, SpawnInv
  <2>2. CASE ControlProbe(d)
    BY <2>2 DEF ControlProbe, Reaches, TypeOK, SpawnInv
  <2>3. CASE ControlListen(d)
    BY <2>3 DEF ControlListen, Reaches, TypeOK, SpawnInv
  <2>4. CASE Restore(d)
    BY <2>4 DEF Restore, Reaches, TypeOK, SpawnInv
  <2>5. CASE Publish(d)
    BY <2>5 DEF Publish, Reaches, TypeOK, SpawnInv
  <2>6. CASE Shutdown(d)
    BY <2>6 DEF Shutdown, Reaches, TypeOK, SpawnInv
  <2>7. CASE StartFails(d)
    BY <2>7 DEF StartFails, Reaches, TypeOK, SpawnInv
  <2>8. CASE Unlink(d)
    BY <2>8 DEF Unlink, Reaches, TypeOK, SpawnInv
  <2>9. CASE Drained(d)
    BY <2>9 DEF Drained, Names, Reaches, TypeOK, SpawnInv
  <2>10. CASE Exit(d)
    BY <2>10 DEF Exit, Reaches, TypeOK, SpawnInv
  <2>11. CASE Erased(d)
    BY <2>11 DEF Erased, Reaches, TypeOK, SpawnInv
  <2>12. CASE Tidied(d)
    BY <2>12 DEF Tidied, Reaches, TypeOK, SpawnInv
  <2>13. CASE Swept(d)
    BY <2>13 DEF Swept, Reaches, TypeOK, SpawnInv
  <2>q. QED
    BY <1>4, <2>1, <2>2, <2>3, <2>4, <2>5, <2>6, <2>7, <2>8, <2>9, <2>10,
      <2>11, <2>12, <2>13 DEF DaemonStep
<1>5. ASSUME NEW d \in Daemons, DiesBooting(d)
      PROVE  SpawnInv'
  BY <1>5 DEF DiesBooting, Reaches, TypeOK, SpawnInv
<1>6. ASSUME NEW d \in Daemons, Kill(d)
      PROVE  SpawnInv'
  BY <1>6 DEF Kill, Reaches, Alive, TypeOK, SpawnInv
<1>7. CASE UNCHANGED vars
  BY <1>7 DEF vars, TypeOK, SpawnInv
<1>q. QED BY <1>1, <1>2, <1>3, <1>4, <1>5, <1>6, <1>7 DEF Next

\* What a command read of was recorded, and so had been started.
LEMMA SeenStep ==
  ASSUME TypeOK, PortInv, SpawnInv, SeenInv, RecordInv, [Next]_vars
  PROVE  SeenInv'
<1> USE OldAssumption, NoneAssumption, KillsAssumption
       DEF Daemons, history, commands, files, Holding
<1>1. ASSUME NEW c \in Commands, CommandStep(c)
      PROVE  SeenInv'
  <2>1. CASE Probe(c)
    BY <2>1 DEF Probe, Goes, Answers, TypeOK, PortInv, SpawnInv, SeenInv,
      RecordInv
  <2>2. CASE EnsureDecides(c)
    BY <2>2 DEF EnsureDecides, Goes, Spawn, Alive, TypeOK, PortInv, SpawnInv,
      SeenInv, RecordInv
  <2>3. CASE StopDecides(c)
    BY <2>3 DEF StopDecides, Goes, Stopped, Spawn, Alive, StopFails, TypeOK,
      PortInv, SpawnInv, SeenInv, RecordInv
  <2>4. CASE StatusDecides(c)
    BY <2>4 DEF StatusDecides, Goes, Alive, TypeOK, PortInv, SpawnInv,
      SeenInv, RecordInv
  <2>5. CASE StopReturns(c)
    BY <2>5 DEF StopReturns, Goes, Alive, TypeOK, PortInv, SpawnInv, SeenInv,
      RecordInv
  <2>6. CASE StopTimesOut(c)
    BY <2>6 DEF StopTimesOut, StopFails, Goes, Alive, TypeOK, PortInv,
      SpawnInv, SeenInv, RecordInv
  <2>7. CASE StartReturns(c)
    BY <2>7 DEF StartReturns, Answers, Goes, TypeOK, PortInv, SpawnInv,
      SeenInv, RecordInv
  <2>8. CASE StartExits(c)
    BY <2>8 DEF StartExits, Goes, TypeOK, PortInv, SpawnInv, SeenInv,
      RecordInv
  <2>9. CASE StartTimesOut(c)
    BY <2>9 DEF StartTimesOut, Goes, Alive, TypeOK, PortInv, SpawnInv,
      SeenInv, RecordInv
  <2>10. CASE Clear(c)
    BY <2>10 DEF Clear, Names, Goes, TypeOK, PortInv, SpawnInv, SeenInv,
      RecordInv
  <2>11. CASE Erase(c)
    BY <2>11 DEF Erase, Goes, TypeOK, PortInv, SpawnInv, SeenInv, RecordInv
  <2>12. CASE Tidy(c)
    BY <2>12 DEF Tidy, Removed, RemovalEnds, Stopped, Spawn, Goes, TypeOK,
      PortInv, SpawnInv, SeenInv, RecordInv
  <2>13. CASE Sweep(c)
    BY <2>13 DEF Sweep, Spawn, Goes, TypeOK, PortInv, SpawnInv, SeenInv,
      RecordInv
  <2>q. QED
    BY <1>1, <2>1, <2>2, <2>3, <2>4, <2>5, <2>6, <2>7, <2>8, <2>9, <2>10,
      <2>11, <2>12, <2>13 DEF CommandStep
<1>2. ASSUME NEW c \in Commands, Interrupt(c)
      PROVE  SeenInv'
  BY <1>2 DEF Interrupt, Goes, TypeOK, PortInv, SpawnInv, SeenInv, RecordInv
<1>3. ASSUME NEW c \in Commands, NEW k \in Kinds, Begin(c, k)
      PROVE  SeenInv'
  BY <1>3 DEF Begin, Goes, Alive, TypeOK, PortInv, SpawnInv, SeenInv,
    RecordInv
<1>4. ASSUME NEW d \in Daemons, DaemonStep(d)
      PROVE  SeenInv'
  <2>1. CASE Bind(d)
    BY <2>1 DEF Bind, Reaches, TypeOK, PortInv, SpawnInv, SeenInv, RecordInv
  <2>2. CASE ControlProbe(d)
    BY <2>2 DEF ControlProbe, Reaches, TypeOK, PortInv, SpawnInv, SeenInv,
      RecordInv
  <2>3. CASE ControlListen(d)
    BY <2>3 DEF ControlListen, Reaches, TypeOK, PortInv, SpawnInv, SeenInv,
      RecordInv
  <2>4. CASE Restore(d)
    BY <2>4 DEF Restore, Reaches, TypeOK, PortInv, SpawnInv, SeenInv,
      RecordInv
  <2>5. CASE Publish(d)
    BY <2>5 DEF Publish, Reaches, TypeOK, PortInv, SpawnInv, SeenInv,
      RecordInv
  <2>6. CASE Shutdown(d)
    BY <2>6 DEF Shutdown, Reaches, TypeOK, PortInv, SpawnInv, SeenInv,
      RecordInv
  <2>7. CASE StartFails(d)
    BY <2>7 DEF StartFails, Reaches, TypeOK, PortInv, SpawnInv, SeenInv,
      RecordInv
  <2>8. CASE Unlink(d)
    BY <2>8 DEF Unlink, Reaches, TypeOK, PortInv, SpawnInv, SeenInv, RecordInv
  <2>9. CASE Drained(d)
    BY <2>9 DEF Drained, Names, Reaches, TypeOK, PortInv, SpawnInv, SeenInv,
      RecordInv
  <2>10. CASE Exit(d)
    BY <2>10 DEF Exit, Reaches, TypeOK, PortInv, SpawnInv, SeenInv, RecordInv
  <2>11. CASE Erased(d)
    BY <2>11 DEF Erased, Reaches, TypeOK, PortInv, SpawnInv, SeenInv,
      RecordInv
  <2>12. CASE Tidied(d)
    BY <2>12 DEF Tidied, Reaches, TypeOK, PortInv, SpawnInv, SeenInv,
      RecordInv
  <2>13. CASE Swept(d)
    BY <2>13 DEF Swept, Reaches, TypeOK, PortInv, SpawnInv, SeenInv, RecordInv
  <2>q. QED
    BY <1>4, <2>1, <2>2, <2>3, <2>4, <2>5, <2>6, <2>7, <2>8, <2>9, <2>10,
      <2>11, <2>12, <2>13 DEF DaemonStep
<1>5. ASSUME NEW d \in Daemons, DiesBooting(d)
      PROVE  SeenInv'
  BY <1>5 DEF DiesBooting, Reaches, TypeOK, PortInv, SpawnInv, SeenInv,
    RecordInv
<1>6. ASSUME NEW d \in Daemons, Kill(d)
      PROVE  SeenInv'
  BY <1>6 DEF Kill, Reaches, Alive, TypeOK, PortInv, SpawnInv, SeenInv,
    RecordInv
<1>7. CASE UNCHANGED vars
  BY <1>7 DEF vars, TypeOK, PortInv, SpawnInv, SeenInv, RecordInv
<1>q. QED BY <1>1, <1>2, <1>3, <1>4, <1>5, <1>6, <1>7 DEF Next

\* A record is written by the holder of the port and removed by its owner
\* or after its owner's death.
LEMMA RecordStep ==
  ASSUME TypeOK, PortInv, SpawnInv, SeenInv, RecordInv, [Next]_vars
  PROVE  RecordInv'
<1> USE OldAssumption, NoneAssumption, KillsAssumption
       DEF Daemons, history, commands, files, Holding, Erasing
<1>1. ASSUME NEW c \in Commands, CommandStep(c)
      PROVE  RecordInv'
  <2>1. CASE Probe(c)
    BY <2>1 DEF Probe, Goes, Answers, TypeOK, PortInv, SpawnInv, SeenInv,
      RecordInv
  <2>2. CASE EnsureDecides(c)
    BY <2>2 DEF EnsureDecides, Goes, Spawn, Alive, TypeOK, PortInv, SpawnInv,
      SeenInv, RecordInv
  <2>3. CASE StopDecides(c)
    BY <2>3 DEF StopDecides, Goes, Stopped, Spawn, Alive, StopFails, TypeOK,
      PortInv, SpawnInv, SeenInv, RecordInv
  <2>4. CASE StatusDecides(c)
    BY <2>4 DEF StatusDecides, Goes, Alive, TypeOK, PortInv, SpawnInv,
      SeenInv, RecordInv
  <2>5. CASE StopReturns(c)
    BY <2>5 DEF StopReturns, Goes, Alive, TypeOK, PortInv, SpawnInv, SeenInv,
      RecordInv
  <2>6. CASE StopTimesOut(c)
    BY <2>6 DEF StopTimesOut, StopFails, Goes, Alive, TypeOK, PortInv,
      SpawnInv, SeenInv, RecordInv
  <2>7. CASE StartReturns(c)
    BY <2>7 DEF StartReturns, Answers, Goes, TypeOK, PortInv, SpawnInv,
      SeenInv, RecordInv
  <2>8. CASE StartExits(c)
    BY <2>8 DEF StartExits, Goes, TypeOK, PortInv, SpawnInv, SeenInv,
      RecordInv
  <2>9. CASE StartTimesOut(c)
    BY <2>9 DEF StartTimesOut, Goes, Alive, TypeOK, PortInv, SpawnInv,
      SeenInv, RecordInv
  <2>10. CASE Clear(c)
    BY <2>10 DEF Clear, Names, Goes, TypeOK, PortInv, SpawnInv, SeenInv,
      RecordInv
  <2>11. CASE Erase(c)
    BY <2>11 DEF Erase, Goes, TypeOK, PortInv, SpawnInv, SeenInv, RecordInv
  <2>12. CASE Tidy(c)
    BY <2>12 DEF Tidy, Removed, RemovalEnds, Stopped, Spawn, Goes, TypeOK,
      PortInv, SpawnInv, SeenInv, RecordInv
  <2>13. CASE Sweep(c)
    BY <2>13 DEF Sweep, Spawn, Goes, TypeOK, PortInv, SpawnInv, SeenInv,
      RecordInv
  <2>q. QED
    BY <1>1, <2>1, <2>2, <2>3, <2>4, <2>5, <2>6, <2>7, <2>8, <2>9, <2>10,
      <2>11, <2>12, <2>13 DEF CommandStep
<1>2. ASSUME NEW c \in Commands, Interrupt(c)
      PROVE  RecordInv'
  BY <1>2 DEF Interrupt, Goes, TypeOK, PortInv, SpawnInv, SeenInv, RecordInv
<1>3. ASSUME NEW c \in Commands, NEW k \in Kinds, Begin(c, k)
      PROVE  RecordInv'
  BY <1>3 DEF Begin, Goes, Alive, TypeOK, PortInv, SpawnInv, SeenInv,
    RecordInv
<1>4. ASSUME NEW d \in Daemons, DaemonStep(d)
      PROVE  RecordInv'
  <2>1. CASE Bind(d)
    BY <2>1 DEF Bind, Reaches, TypeOK, PortInv, SpawnInv, SeenInv, RecordInv
  <2>2. CASE ControlProbe(d)
    BY <2>2 DEF ControlProbe, Reaches, TypeOK, PortInv, SpawnInv, SeenInv,
      RecordInv
  <2>3. CASE ControlListen(d)
    BY <2>3 DEF ControlListen, Reaches, TypeOK, PortInv, SpawnInv, SeenInv,
      RecordInv
  <2>4. CASE Restore(d)
    BY <2>4 DEF Restore, Reaches, TypeOK, PortInv, SpawnInv, SeenInv,
      RecordInv
  <2>5. CASE Publish(d)
    BY <2>5 DEF Publish, Reaches, TypeOK, PortInv, SpawnInv, SeenInv,
      RecordInv
  <2>6. CASE Shutdown(d)
    BY <2>6 DEF Shutdown, Reaches, TypeOK, PortInv, SpawnInv, SeenInv,
      RecordInv
  <2>7. CASE StartFails(d)
    BY <2>7 DEF StartFails, Reaches, TypeOK, PortInv, SpawnInv, SeenInv,
      RecordInv
  <2>8. CASE Unlink(d)
    BY <2>8 DEF Unlink, Reaches, TypeOK, PortInv, SpawnInv, SeenInv, RecordInv
  <2>9. CASE Drained(d)
    BY <2>9 DEF Drained, Names, Reaches, TypeOK, PortInv, SpawnInv, SeenInv,
      RecordInv
  <2>10. CASE Exit(d)
    BY <2>10 DEF Exit, Reaches, TypeOK, PortInv, SpawnInv, SeenInv, RecordInv
  <2>11. CASE Erased(d)
    BY <2>11 DEF Erased, Reaches, TypeOK, PortInv, SpawnInv, SeenInv,
      RecordInv
  <2>12. CASE Tidied(d)
    BY <2>12 DEF Tidied, Reaches, TypeOK, PortInv, SpawnInv, SeenInv,
      RecordInv
  <2>13. CASE Swept(d)
    BY <2>13 DEF Swept, Reaches, TypeOK, PortInv, SpawnInv, SeenInv, RecordInv
  <2>q. QED
    BY <1>4, <2>1, <2>2, <2>3, <2>4, <2>5, <2>6, <2>7, <2>8, <2>9, <2>10,
      <2>11, <2>12, <2>13 DEF DaemonStep
<1>5. ASSUME NEW d \in Daemons, DiesBooting(d)
      PROVE  RecordInv'
  BY <1>5 DEF DiesBooting, Reaches, TypeOK, PortInv, SpawnInv, SeenInv,
    RecordInv
<1>6. ASSUME NEW d \in Daemons, Kill(d)
      PROVE  RecordInv'
  BY <1>6 DEF Kill, Reaches, Alive, TypeOK, PortInv, SpawnInv, SeenInv,
    RecordInv
<1>7. CASE UNCHANGED vars
  BY <1>7 DEF vars, TypeOK, PortInv, SpawnInv, SeenInv, RecordInv
<1>q. QED BY <1>1, <1>2, <1>3, <1>4, <1>5, <1>6, <1>7 DEF Next

\* The socket file is made by the holder of the port and removed by a daemon
\* that holds it no more.
LEMMA PathStep ==
  ASSUME TypeOK, PortInv, SpawnInv, PathInv, [Next]_vars
  PROVE  PathInv'
<1> USE OldAssumption, NoneAssumption, KillsAssumption
       DEF Daemons, history, commands, files, Holding
<1>1. ASSUME NEW c \in Commands, CommandStep(c)
      PROVE  PathInv'
  <2>1. CASE Probe(c)
    BY <2>1 DEF Probe, Goes, Answers, TypeOK, PortInv, PathInv, SpawnInv
  <2>2. CASE EnsureDecides(c)
    BY <2>2 DEF EnsureDecides, Goes, Spawn, Alive, TypeOK, PortInv, PathInv,
      SpawnInv
  <2>3. CASE StopDecides(c)
    BY <2>3 DEF StopDecides, Goes, Stopped, Spawn, Alive, StopFails, TypeOK,
      PortInv, PathInv, SpawnInv
  <2>4. CASE StatusDecides(c)
    BY <2>4 DEF StatusDecides, Goes, Alive, TypeOK, PortInv, PathInv, SpawnInv
  <2>5. CASE StopReturns(c)
    BY <2>5 DEF StopReturns, Goes, Alive, TypeOK, PortInv, PathInv, SpawnInv
  <2>6. CASE StopTimesOut(c)
    BY <2>6 DEF StopTimesOut, StopFails, Goes, Alive, TypeOK, PortInv,
      PathInv, SpawnInv
  <2>7. CASE StartReturns(c)
    BY <2>7 DEF StartReturns, Answers, Goes, TypeOK, PortInv, PathInv,
      SpawnInv
  <2>8. CASE StartExits(c)
    BY <2>8 DEF StartExits, Goes, TypeOK, PortInv, PathInv, SpawnInv
  <2>9. CASE StartTimesOut(c)
    BY <2>9 DEF StartTimesOut, Goes, Alive, TypeOK, PortInv, PathInv, SpawnInv
  <2>10. CASE Clear(c)
    BY <2>10 DEF Clear, Names, Goes, TypeOK, PortInv, PathInv, SpawnInv
  <2>11. CASE Erase(c)
    BY <2>11 DEF Erase, Goes, TypeOK, PortInv, PathInv, SpawnInv
  <2>12. CASE Tidy(c)
    BY <2>12 DEF Tidy, Removed, RemovalEnds, Stopped, Spawn, Goes, TypeOK,
      PortInv, PathInv, SpawnInv
  <2>13. CASE Sweep(c)
    BY <2>13 DEF Sweep, Spawn, Goes, TypeOK, PortInv, PathInv, SpawnInv
  <2>q. QED
    BY <1>1, <2>1, <2>2, <2>3, <2>4, <2>5, <2>6, <2>7, <2>8, <2>9, <2>10,
      <2>11, <2>12, <2>13 DEF CommandStep
<1>2. ASSUME NEW c \in Commands, Interrupt(c)
      PROVE  PathInv'
  BY <1>2 DEF Interrupt, Goes, TypeOK, PortInv, PathInv, SpawnInv
<1>3. ASSUME NEW c \in Commands, NEW k \in Kinds, Begin(c, k)
      PROVE  PathInv'
  BY <1>3 DEF Begin, Goes, Alive, TypeOK, PortInv, PathInv, SpawnInv
<1>4. ASSUME NEW d \in Daemons, DaemonStep(d)
      PROVE  PathInv'
  <2>1. CASE Bind(d)
    BY <2>1 DEF Bind, Reaches, TypeOK, PortInv, PathInv, SpawnInv
  <2>2. CASE ControlProbe(d)
    BY <2>2 DEF ControlProbe, Reaches, TypeOK, PortInv, PathInv, SpawnInv
  <2>3. CASE ControlListen(d)
    BY <2>3 DEF ControlListen, Reaches, TypeOK, PortInv, PathInv, SpawnInv
  <2>4. CASE Restore(d)
    BY <2>4 DEF Restore, Reaches, TypeOK, PortInv, PathInv, SpawnInv
  <2>5. CASE Publish(d)
    BY <2>5 DEF Publish, Reaches, TypeOK, PortInv, PathInv, SpawnInv
  <2>6. CASE Shutdown(d)
    BY <2>6 DEF Shutdown, Reaches, TypeOK, PortInv, PathInv, SpawnInv
  <2>7. CASE StartFails(d)
    BY <2>7 DEF StartFails, Reaches, TypeOK, PortInv, PathInv, SpawnInv
  <2>8. CASE Unlink(d)
    BY <2>8 DEF Unlink, Reaches, TypeOK, PortInv, PathInv, SpawnInv
  <2>9. CASE Drained(d)
    BY <2>9 DEF Drained, Names, Reaches, TypeOK, PortInv, PathInv, SpawnInv
  <2>10. CASE Exit(d)
    BY <2>10 DEF Exit, Reaches, TypeOK, PortInv, PathInv, SpawnInv
  <2>11. CASE Erased(d)
    BY <2>11 DEF Erased, Reaches, TypeOK, PortInv, PathInv, SpawnInv
  <2>12. CASE Tidied(d)
    BY <2>12 DEF Tidied, Reaches, TypeOK, PortInv, PathInv, SpawnInv
  <2>13. CASE Swept(d)
    BY <2>13 DEF Swept, Reaches, TypeOK, PortInv, PathInv, SpawnInv
  <2>q. QED
    BY <1>4, <2>1, <2>2, <2>3, <2>4, <2>5, <2>6, <2>7, <2>8, <2>9, <2>10,
      <2>11, <2>12, <2>13 DEF DaemonStep
<1>5. ASSUME NEW d \in Daemons, DiesBooting(d)
      PROVE  PathInv'
  BY <1>5 DEF DiesBooting, Reaches, TypeOK, PortInv, PathInv, SpawnInv
<1>6. ASSUME NEW d \in Daemons, Kill(d)
      PROVE  PathInv'
  BY <1>6 DEF Kill, Reaches, Alive, TypeOK, PortInv, PathInv, SpawnInv
<1>7. CASE UNCHANGED vars
  BY <1>7 DEF vars, TypeOK, PortInv, PathInv, SpawnInv
<1>q. QED BY <1>1, <1>2, <1>3, <1>4, <1>5, <1>6, <1>7 DEF Next

\* A restart spawns only when the daemon it read of is gone, and a daemon
\* that comes to serve meanwhile consumes the marker.
LEMMA MarkerStep ==
  ASSUME TypeOK, PortInv, SpawnInv, SeenInv, RecordInv, MarkerInv, [Next]_vars
  PROVE  MarkerInv'
<1> USE OldAssumption, NoneAssumption, KillsAssumption
       DEF Daemons, history, commands, files, Holding, Erasing, Removals
<1>1. ASSUME NEW c \in Commands, CommandStep(c)
      PROVE  MarkerInv'
  <2>1. CASE Probe(c)
    BY <2>1 DEF Probe, Goes, Answers, TypeOK, PortInv, SpawnInv, SeenInv,
      RecordInv, MarkerInv
  <2>2. CASE EnsureDecides(c)
    BY <2>2 DEF EnsureDecides, Goes, Spawn, Alive, TypeOK, PortInv, SpawnInv,
      SeenInv, RecordInv, MarkerInv
  <2>3. CASE StopDecides(c)
    BY <2>3 DEF StopDecides, Goes, Stopped, Spawn, Alive, StopFails, TypeOK,
      PortInv, SpawnInv, SeenInv, RecordInv, MarkerInv
  <2>4. CASE StatusDecides(c)
    BY <2>4 DEF StatusDecides, Goes, Alive, TypeOK, PortInv, SpawnInv,
      SeenInv, RecordInv, MarkerInv
  <2>5. CASE StopReturns(c)
    BY <2>5 DEF StopReturns, Goes, Alive, TypeOK, PortInv, SpawnInv, SeenInv,
      RecordInv, MarkerInv
  <2>6. CASE StopTimesOut(c)
    BY <2>6 DEF StopTimesOut, StopFails, Goes, Alive, TypeOK, PortInv,
      SpawnInv, SeenInv, RecordInv, MarkerInv
  <2>7. CASE StartReturns(c)
    BY <2>7 DEF StartReturns, Answers, Goes, TypeOK, PortInv, SpawnInv,
      SeenInv, RecordInv, MarkerInv
  <2>8. CASE StartExits(c)
    BY <2>8 DEF StartExits, Goes, TypeOK, PortInv, SpawnInv, SeenInv,
      RecordInv, MarkerInv
  <2>9. CASE StartTimesOut(c)
    BY <2>9 DEF StartTimesOut, Goes, Alive, TypeOK, PortInv, SpawnInv,
      SeenInv, RecordInv, MarkerInv
  <2>10. CASE Clear(c)
    BY <2>10 DEF Clear, Names, Goes, TypeOK, PortInv, SpawnInv, SeenInv,
      RecordInv, MarkerInv
  <2>11. CASE Erase(c)
    BY <2>11 DEF Erase, Goes, TypeOK, PortInv, SpawnInv, SeenInv, RecordInv,
      MarkerInv
  <2>12. CASE Tidy(c)
    BY <2>12 DEF Tidy, Removed, RemovalEnds, Stopped, Spawn, Goes, TypeOK,
      PortInv, SpawnInv, SeenInv, RecordInv, MarkerInv
  <2>13. CASE Sweep(c)
    BY <2>13 DEF Sweep, Spawn, Goes, TypeOK, PortInv, SpawnInv, SeenInv,
      RecordInv, MarkerInv
  <2>q. QED
    BY <1>1, <2>1, <2>2, <2>3, <2>4, <2>5, <2>6, <2>7, <2>8, <2>9, <2>10,
      <2>11, <2>12, <2>13 DEF CommandStep
<1>2. ASSUME NEW c \in Commands, Interrupt(c)
      PROVE  MarkerInv'
  BY <1>2 DEF Interrupt, Goes, TypeOK, PortInv, SpawnInv, SeenInv, RecordInv,
    MarkerInv
<1>3. ASSUME NEW c \in Commands, NEW k \in Kinds, Begin(c, k)
      PROVE  MarkerInv'
  BY <1>3 DEF Begin, Goes, Alive, TypeOK, PortInv, SpawnInv, SeenInv,
    RecordInv, MarkerInv
<1>4. ASSUME NEW d \in Daemons, DaemonStep(d)
      PROVE  MarkerInv'
  <2>1. CASE Bind(d)
    BY <2>1 DEF Bind, Reaches, TypeOK, PortInv, SpawnInv, SeenInv, RecordInv,
      MarkerInv
  <2>2. CASE ControlProbe(d)
    BY <2>2 DEF ControlProbe, Reaches, TypeOK, PortInv, SpawnInv, SeenInv,
      RecordInv, MarkerInv
  <2>3. CASE ControlListen(d)
    BY <2>3 DEF ControlListen, Reaches, TypeOK, PortInv, SpawnInv, SeenInv,
      RecordInv, MarkerInv
  <2>4. CASE Restore(d)
    BY <2>4 DEF Restore, Reaches, TypeOK, PortInv, SpawnInv, SeenInv,
      RecordInv, MarkerInv
  <2>5. CASE Publish(d)
    BY <2>5 DEF Publish, Reaches, TypeOK, PortInv, SpawnInv, SeenInv,
      RecordInv, MarkerInv
  <2>6. CASE Shutdown(d)
    BY <2>6 DEF Shutdown, Reaches, TypeOK, PortInv, SpawnInv, SeenInv,
      RecordInv, MarkerInv
  <2>7. CASE StartFails(d)
    BY <2>7 DEF StartFails, Reaches, TypeOK, PortInv, SpawnInv, SeenInv,
      RecordInv, MarkerInv
  <2>8. CASE Unlink(d)
    BY <2>8 DEF Unlink, Reaches, TypeOK, PortInv, SpawnInv, SeenInv,
      RecordInv, MarkerInv
  <2>9. CASE Drained(d)
    BY <2>9 DEF Drained, Names, Reaches, TypeOK, PortInv, SpawnInv, SeenInv,
      RecordInv, MarkerInv
  <2>10. CASE Exit(d)
    BY <2>10 DEF Exit, Reaches, TypeOK, PortInv, SpawnInv, SeenInv, RecordInv,
      MarkerInv
  <2>11. CASE Erased(d)
    BY <2>11 DEF Erased, Reaches, TypeOK, PortInv, SpawnInv, SeenInv,
      RecordInv, MarkerInv
  <2>12. CASE Tidied(d)
    BY <2>12 DEF Tidied, Reaches, TypeOK, PortInv, SpawnInv, SeenInv,
      RecordInv, MarkerInv
  <2>13. CASE Swept(d)
    BY <2>13 DEF Swept, Reaches, TypeOK, PortInv, SpawnInv, SeenInv,
      RecordInv, MarkerInv
  <2>q. QED
    BY <1>4, <2>1, <2>2, <2>3, <2>4, <2>5, <2>6, <2>7, <2>8, <2>9, <2>10,
      <2>11, <2>12, <2>13 DEF DaemonStep
<1>5. ASSUME NEW d \in Daemons, DiesBooting(d)
      PROVE  MarkerInv'
  BY <1>5 DEF DiesBooting, Reaches, TypeOK, PortInv, SpawnInv, SeenInv,
    RecordInv, MarkerInv
<1>6. ASSUME NEW d \in Daemons, Kill(d)
      PROVE  MarkerInv'
  BY <1>6 DEF Kill, Reaches, Alive, TypeOK, PortInv, SpawnInv, SeenInv,
    RecordInv, MarkerInv
<1>7. CASE UNCHANGED vars
  BY <1>7 DEF vars, TypeOK, PortInv, SpawnInv, SeenInv, RecordInv, MarkerInv
<1>q. QED BY <1>1, <1>2, <1>3, <1>4, <1>5, <1>6, <1>7 DEF Next

LEMMA InitInv == Init => Inv
BY OldAssumption, NoneAssumption
   DEF Init, Inv, TypeOK, PortInv, SpawnInv, SeenInv, RecordInv, PathInv,
       MarkerInv, Kinds, Phases, Removals, Erasing, Daemons, Holding

LEMMA StepInv == Inv /\ [Next]_vars => Inv'
BY TypeStep, PortStep, SpawnStep, SeenStep, RecordStep, PathStep, MarkerStep
   DEF Inv

LEMMA Invariance == Spec => []Inv
BY InitInv, StepInv, PTL DEF Spec
-----------------------------------------------------------------------------
\* Every variable keeps its type, for any number of commands.
THEOREM TypeCorrectness == Spec => []TypeOK
<1>1. Inv => TypeOK BY DEF Inv
<1>q. QED BY <1>1, Invariance, PTL

\* Whatever starts lose the port, whatever commands clean up, the daemon
\* that serves is the one in the pid record, unless it wrote the record while
\* a removal had read an earlier one (process-files.ts:15 and 18).
THEOREM RecordedWhileServing == Spec => []ServingIsRecorded
<1>1. Inv => ServingIsRecorded BY DEF Inv, RecordInv, ServingIsRecorded
<1>q. QED BY <1>1, Invariance, PTL

\* Unless it listened while another had still to remove the file, a daemon
\* that serves is the one the control socket file leads to (control.ts:172).
THEOREM ReachableWhileServing == Spec => []ServingIsReachable
<1>1. Inv => ServingIsReachable BY DEF Inv, PathInv, ServingIsReachable
<1>q. QED BY <1>1, Invariance, PTL

\* So the commands find the daemon that serves by both, but for the two
\* windows named above.
THEOREM FoundWhileServing == Spec => []ServingIsFound
BY RecordedWhileServing, ReachableWhileServing, PTL DEF ServingIsFound

\* A marker that no restart accounts for waits for the next daemon: none
\* whose record could be relied on serves beside it (restart-daemon.ts:13,
\* entrypoint.ts:202).
THEOREM MarkerWaits == Spec => []MarkerIsPending
<1>1. Inv => MarkerIsPending BY DEF Inv, MarkerInv, MarkerIsPending
<1>q. QED BY <1>1, Invariance, PTL

\* A daemon that ends by itself leaves neither record (entrypoint.ts:146).
THEOREM ExitIsClean == Spec => []ExitLeavesNoRecord
<1>1. Inv => ExitLeavesNoRecord BY DEF Inv, RecordInv, ExitLeavesNoRecord
<1>q. QED BY <1>1, Invariance, PTL
=============================================================================
