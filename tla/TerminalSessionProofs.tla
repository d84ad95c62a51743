------------------------- MODULE TerminalSessionProofs -------------------------
(***************************************************************************)
(* Theorems about TerminalSession, for any number of sockets, panes,       *)
(* windows and devices.                                                    *)
(***************************************************************************)
EXTENDS TerminalSession, TLAPS

-----------------------------------------------------------------------------
(* Types *)

\* The types of what finalizeTransport assigns, and those of the rest.
EndTypes ==
  /\ st \in [Sockets -> States]
  /\ finalizing \in [Sockets -> {"no", "killing", "releasing", "done"}]
  /\ timer \in SUBSET Sockets
  /\ gap \in [Sockets -> 0..GapMax]
  /\ gapFull \in SUBSET Sockets
  /\ overflowed \in SUBSET Sockets
  /\ known \in SUBSET Sockets
  /\ redraw \in SUBSET Sockets
  /\ stale \in SUBSET Sockets

Attaches == {"idle", "evicting", "evicted", "spawning", "connecting", "returning",
             "failing", "tick", "resizing"}

OtherTypes ==
  /\ sock \in [Sockets -> {"new", "open", "closing", "closed"}]
  /\ target \in [Sockets -> Targets \cup {None}]
  /\ bound \in [Sockets -> Sockets \cup {None}]
  /\ last \in [Sockets -> Sockets]
  /\ attach \in [Sockets -> Attaches]
  /\ resuming \in [Sockets -> Sockets]
  /\ queue \in [Sockets -> SUBSET Sockets]
  /\ awaited \in [Sockets -> Sockets \cup {None}]
  /\ registry \in SUBSET Sockets
  /\ lease \in SUBSET Sockets
  /\ record \in [Sockets -> {"none", "prepared", "attached"}]
  /\ owner \in [Sockets -> {"mobile", "desktop"}]
  /\ kept \in SUBSET Sockets
  /\ intent \in [Sockets -> {"none", "mobile", "desktop"}]
  /\ marker \in [Sockets -> Sockets \cup {None}]
  /\ pty \in SUBSET Sockets
  /\ claim \in [Sockets -> {"idle", "calling", "effected", "failed"}]
  /\ claimOf \in [Sockets -> Sockets]
  /\ parking \in [Sockets -> Sockets \cup {None}]
  /\ ready \in [Sockets -> Sockets \cup {None}]

LEMMA TypeParts == TypeOK <=> EndTypes /\ OtherTypes
<1>1. TypeOK => EndTypes BY DEF TypeOK, EndTypes
<1>2. TypeOK => OtherTypes BY DEF TypeOK, OtherTypes, Attaches
<1>3. EndTypes /\ OtherTypes => TypeOK
  BY DEF TypeOK, EndTypes, OtherTypes, Attaches
<1> QED BY <1>1, <1>2, <1>3

LEMMA TypePartsNext == TypeOK' <=> EndTypes' /\ OtherTypes'
  BY TypeParts, PTL

\* The part of finalizeTransport that runs before its first await keeps the
\* types of what it assigns.
LEMMA FinalizeTypes ==
  ASSUME TypeOK, NEW S \in SUBSET Sockets, Finalize(S)
  PROVE  EndTypes'
<1>1. EndTypes BY TypeParts
<1>2. /\ st' \in [Sockets -> States]
      /\ finalizing' \in [Sockets -> {"no", "killing", "releasing", "done"}]
  BY <1>1 DEF EndTypes, Finalize, States
<1>3. gap' \in [Sockets -> 0..GapMax]
  BY <1>1, GapAssumption DEF EndTypes, Finalize
<1>4. /\ timer' \in SUBSET Sockets /\ gapFull' \in SUBSET Sockets
      /\ overflowed' \in SUBSET Sockets /\ known' \in SUBSET Sockets
      /\ redraw' \in SUBSET Sockets /\ stale' \in SUBSET Sockets
  BY <1>1 DEF EndTypes, Finalize
<1> QED BY <1>2, <1>3, <1>4 DEF EndTypes

\* markLeaseOwnerIntent keeps the types of the intent and its generation.
LEMMA MarkTypes ==
  ASSUME TypeOK, NEW S \in SUBSET Sockets, NEW who \in {"none", "mobile", "desktop"},
         NEW by \in Sockets \cup {None}, Mark(S, who, by)
  PROVE  /\ intent' \in [Sockets -> {"none", "mobile", "desktop"}]
         /\ marker' \in [Sockets -> Sockets \cup {None}]
  BY DEF TypeOK, Mark

LEMMA ClosingTypes ==
  ASSUME TypeOK, NEW S
  PROVE  Closing(S) \in [Sockets -> {"new", "open", "closing", "closed"}]
  BY DEF TypeOK, Closing

LEMMA HandsBackTypes ==
  ASSUME TypeOK, NEW S \in SUBSET Sockets, HandsBack(S)
  PROVE  owner' \in [Sockets -> {"mobile", "desktop"}] /\ kept' \in SUBSET Sockets
  BY DEF TypeOK, HandsBack

USE DEF sockets, handlers, leases, screen

\* Sending ready and the buffered output keeps the types of what it assigns.
LEMMA ReplayTypes ==
  ASSUME TypeOK, NEW c \in Sockets, NEW s \in Sockets,
         NEW T \in SUBSET Sockets, Replay(c, s, T)
  PROVE  /\ gap' \in [Sockets -> 0..GapMax]
         /\ gapFull' \in SUBSET Sockets
         /\ overflowed' \in SUBSET Sockets
         /\ ready' \in [Sockets -> Sockets \cup {None}]
         /\ known' \in SUBSET Sockets
         /\ redraw' \in SUBSET Sockets
         /\ stale' \in SUBSET Sockets
         /\ registry' \in SUBSET Sockets
         /\ st' \in [Sockets -> States]
         /\ bound' \in [Sockets -> Sockets \cup {None}]
         /\ finalizing' \in [Sockets -> {"no", "killing", "releasing", "done"}]
         /\ sock' \in [Sockets -> {"new", "open", "closing", "closed"}]
         /\ owner' \in [Sockets -> {"mobile", "desktop"}]
         /\ kept' \in SUBSET Sockets
         /\ intent' \in [Sockets -> {"none", "mobile", "desktop"}]
         /\ marker' \in [Sockets -> Sockets \cup {None}]
         /\ timer' \in SUBSET Sockets
<1>1. gap' \in [Sockets -> 0..GapMax] /\ gapFull' \in SUBSET Sockets
      /\ redraw' \in SUBSET Sockets /\ registry' \in SUBSET Sockets
  BY GapAssumption DEF Replay, TypeOK
<1>2. CASE ReplaySent(c, s, T)
  BY <1>1, <1>2 DEF ReplaySent, TypeOK, States
<1>3. CASE ReplayCut(c, s)
  <2>1. sock' \in [Sockets -> {"new", "open", "closing", "closed"}]
    BY <1>3, ClosingTypes DEF ReplayCut
  <2>2. intent' \in [Sockets -> {"none", "mobile", "desktop"}]
        /\ marker' \in [Sockets -> Sockets \cup {None}]
    BY <1>3, MarkTypes DEF ReplayCut
  <2>3. owner' \in [Sockets -> {"mobile", "desktop"}] /\ kept' \in SUBSET Sockets
    <3>1. HandsBack({x \in {s} : record'[x] = "attached"})
      BY <1>3 DEF ReplayCut
    <3> QED BY <3>1, HandsBackTypes
  <2>4. ready' \in [Sockets -> Sockets \cup {None}] /\ known' \in SUBSET Sockets
    BY <1>3 DEF ReplayCut, TypeOK
  <2>5. st' \in [Sockets -> States]
    BY <1>3 DEF ReplayCut, TypeOK, States
  <2>6. /\ overflowed' \in SUBSET Sockets /\ stale' \in SUBSET Sockets
        /\ timer' \in SUBSET Sockets
        /\ UNCHANGED <<bound, finalizing>>
    BY <1>3 DEF ReplayCut, TypeOK
  <2> QED BY <1>1, <2>1, <2>2, <2>3, <2>4, <2>5, <2>6 DEF TypeOK
<1>4. CASE ReplayUnheard(c, s)
  BY <1>1, <1>4 DEF ReplayUnheard, TypeOK, States
<1> QED BY <1>2, <1>3, <1>4 DEF Replay

LEMMA TransportGoneTypes == ASSUME TypeOK, NEW c \in Sockets, TransportGone(c)
                            PROVE  TypeOK'
<1> DEFINE heard == {s \in Sockets : bound[s] = c /\ st[s] # "closed"}
           fresh == {s \in heard : st[s] = "awaiting_attach"}
           parked == heard \ fresh
           first == CHOOSE s \in parked : TRUE
<1>1. Mark(parked, "desktop", None) /\ HandsBack(parked \cap lease \cap Live)
  BY DEF TransportGone
<1>2. parked # {} => first \in Sockets
  OBVIOUS
<1>3. parking' \in [Sockets -> Sockets \cup {None}]
  <2>1. parking' = [parking EXCEPT ![c] = IF parked = {} THEN None ELSE first]
    BY DEF TransportGone
  <2> HIDE DEF first, parked
  <2> QED BY <1>2, <2>1 DEF TypeOK
<1>4. intent' \in [Sockets -> {"none", "mobile", "desktop"}]
      /\ marker' \in [Sockets -> Sockets \cup {None}]
  BY <1>1, MarkTypes
<1>5. owner' \in [Sockets -> {"mobile", "desktop"}] /\ kept' \in SUBSET Sockets
  BY <1>1, HandsBackTypes
<1> QED BY <1>3, <1>4, <1>5 DEF TransportGone, TypeOK, States

LEMMA PtyExitsTypes == ASSUME TypeOK, NEW s \in Sockets,
PtyExits(s) PROVE TypeOK'
<1>1. CASE st[s] = "closed" \/ attach[s] = "failing"
  BY <1>1 DEF PtyExits, TypeOK
<1>2. CASE ~(st[s] = "closed" \/ attach[s] = "failing")
  <2>1. EndTypes' BY <1>2, FinalizeTypes DEF PtyExits
  <2>2. OtherTypes' BY TypeParts DEF PtyExits, OtherTypes
  <2> QED BY <2>1, <2>2, TypePartsNext
<1> QED BY <1>1, <1>2

LEMMA HandlersKeepTypes == ASSUME TypeOK, Handlers PROVE TypeOK'
<1> SUFFICES ASSUME NEW c \in Sockets,
               \/ CloseEvent(c) \/ ParkingReturns(c) \/ TimerFires(c)
               \/ \E s \in Sockets : EvictNext(c, s)
               \/ RetryPrepare(c) \/ SpawnPty(c) \/ AttachReturns(c) \/ ReturnDone(c)
               \/ AttachFailed(c) \/ ResumeSwap(c) \/ ResumeAbandoned(c)
               \/ ResumeResized(c) \/ ResumeFails(c)
               \/ ClaimTakesEffect(c) \/ ClaimFails(c) \/ ClaimReturns(c)
               \/ FinalizeKilled(c) \/ FinalizeDone(c) \/ KilledPtyExits(c)
             PROVE TypeOK'
  BY DEF Handlers
<1>1. CASE ParkingReturns(c) BY <1>1 DEF TypeOK, ParkingReturns
<1>2. CASE TimerFires(c)
  <2>1. EndTypes'
    <3>1. CASE Finalize({c}) BY <3>1, FinalizeTypes
    <3>2. CASE ~Finalize({c})
      BY <1>2, <3>2, TypeParts DEF TimerFires, EndTypes
    <3> QED BY <3>1, <3>2
  <2>2. OtherTypes' BY <1>2, TypeParts DEF TimerFires, OtherTypes
  <2> QED BY <2>1, <2>2, TypePartsNext
<1>3. ASSUME NEW s \in Sockets, EvictNext(c, s) PROVE TypeOK'
  <2>1. EndTypes'
    <3>1. CASE Evictable(s, c)
      BY <1>3, <3>1, FinalizeTypes DEF EvictNext
    <3>2. CASE ~Evictable(s, c)
      BY <1>3, <3>2, TypeParts DEF EvictNext, EndTypes
    <3> QED BY <3>1, <3>2
  <2>2. queue' \in [Sockets -> SUBSET Sockets]
    BY <1>3 DEF TypeOK, EvictNext
  <2>3. /\ awaited' \in [Sockets -> Sockets \cup {None}]
        /\ attach' \in [Sockets -> Attaches]
    <3>1. /\ awaited \in [Sockets -> Sockets \cup {None}]
          /\ attach \in [Sockets -> Attaches]
      BY TypeParts DEF OtherTypes
    <3>2. /\ \E x \in Sockets \cup {None} : awaited' = [awaited EXCEPT ![c] = x]
          /\ attach' = attach \/ attach' = [attach EXCEPT ![c] = "evicted"]
      BY <1>3 DEF EvictNext
    <3> QED BY <3>1, <3>2 DEF Attaches
  <2>4. OtherTypes'
    BY <1>3, <2>2, <2>3, TypeParts DEF EvictNext, OtherTypes
  <2> QED BY <2>1, <2>4, TypePartsNext
<1>4. CASE RetryPrepare(c)
  <2>1. EndTypes' BY <1>4, TypeParts DEF RetryPrepare, EndTypes
  <2>2. /\ attach' \in [Sockets -> Attaches]
        /\ awaited' \in [Sockets -> Sockets \cup {None}]
    BY <1>4, TypeParts DEF RetryPrepare, Prepare, OtherTypes, Attaches
  <2>3. /\ record' \in [Sockets -> {"none", "prepared", "attached"}]
        /\ owner' \in [Sockets -> {"mobile", "desktop"}]
        /\ kept' \in SUBSET Sockets
    <3>1. /\ record \in [Sockets -> {"none", "prepared", "attached"}]
          /\ owner \in [Sockets -> {"mobile", "desktop"}]
          /\ kept \in SUBSET Sockets
      BY TypeParts DEF OtherTypes
    <3>2. /\ record' = record \/ record' = [record EXCEPT ![c] = "prepared"]
          /\ owner' = owner \/ owner' = [owner EXCEPT ![c] = "mobile"]
          /\ kept' = kept
      BY <1>4 DEF RetryPrepare, Prepare
    <3> QED BY <3>1, <3>2
  <2>4. OtherTypes'
    BY <1>4, <2>2, <2>3, TypeParts DEF RetryPrepare, OtherTypes
  <2> QED BY <2>1, <2>4, TypePartsNext
<1>5. CASE SpawnPty(c)
  <2>1. pty' \in SUBSET Sockets BY <1>5 DEF TypeOK, SpawnPty
  <2>2. attach' = [attach EXCEPT ![c] = "connecting"]
          \/ attach' = [attach EXCEPT ![c] = "failing"]
    BY <1>5 DEF SpawnPty
  <2>3. UNCHANGED <<sockets, resuming, queue, awaited, claim, claimOf, parking,
                    leases, screen, st, target, registry, timer, finalizing>>
    BY <1>5 DEF SpawnPty
  <2> QED BY <2>1, <2>2, <2>3 DEF TypeOK
<1>6. CASE AttachReturns(c)
  <2>1. CASE AttachStale(c)
    BY <1>6, <2>1 DEF TypeOK, AttachReturns, AttachStale
  <2>2. CASE AttachServed(c)
    <3>1. Replay(c, c, {}) BY <2>2 DEF AttachServed
    <3> QED BY <1>6, <2>2, <3>1, ReplayTypes DEF TypeOK, AttachReturns,
    AttachServed
  <2>3. CASE AttachUnserved(c)
    <3>1. intent' \in [Sockets -> {"none", "mobile", "desktop"}]
          /\ marker' \in [Sockets -> Sockets \cup {None}]
      BY <2>3, MarkTypes DEF AttachUnserved
    <3>2. /\ st' \in [Sockets -> States] /\ registry' \in SUBSET Sockets
          /\ lease' \in SUBSET Sockets
          /\ record' \in [Sockets -> {"none", "prepared", "attached"}]
          /\ owner' \in [Sockets -> {"mobile", "desktop"}]
          /\ kept' \in SUBSET Sockets
      BY <2>3, HandsBackTypes DEF TypeOK, AttachUnserved, States
    <3>3. attach' = [attach EXCEPT ![c] = "returning"]
      BY <2>3 DEF AttachUnserved
    <3>4. attach' \in [Sockets -> {"idle", "evicting", "evicted", "spawning",
                                    "connecting", "returning", "failing",
                                    "tick", "resizing"}]
      BY <3>3 DEF TypeOK
    <3>5. UNCHANGED <<sockets, resuming, queue, awaited, claim, claimOf,
    parking,
                      screen, target, pty, timer, finalizing>>
      BY <1>6, <2>3 DEF AttachReturns, AttachUnserved
    <3> QED BY <3>1, <3>2, <3>4, <3>5 DEF TypeOK
  <2>4. CASE AttachRefused(c)
    BY <1>6, <2>4 DEF TypeOK, AttachReturns, AttachRefused
  <2> QED BY <1>6, <2>1, <2>2, <2>3, <2>4 DEF AttachReturns
<1>7. CASE ReturnDone(c) BY <1>7 DEF TypeOK, ReturnDone
<1>8. CASE AttachFailed(c) BY <1>8 DEF TypeOK, AttachFailed, States
<1>9. CASE ResumeSwap(c)
  <2> DEFINE who == IF intent[resuming[c]] = "desktop" THEN "desktop"
                    ELSE owner[resuming[c]]
  <2>1. resuming[c] \in Sockets /\ who \in {"none", "mobile", "desktop"}
    BY DEF TypeOK
  <2>2. Mark({resuming[c]}, who, None)
    BY <1>9 DEF ResumeSwap
  <2>3. intent' \in [Sockets -> {"none", "mobile", "desktop"}]
        /\ marker' \in [Sockets -> Sockets \cup {None}]
    BY <2>1, <2>2, MarkTypes
  <2>4. sock' \in [Sockets -> {"new", "open", "closing", "closed"}]
    BY <1>9, ClosingTypes DEF ResumeSwap
  <2> QED BY <1>9, <2>1, <2>3, <2>4 DEF TypeOK, ResumeSwap, States
<1>10. CASE ResumeAbandoned(c) BY <1>10 DEF TypeOK, ResumeAbandoned
<1>11. CASE ResumeResized(c)
  <2>1. resuming[c] \in Sockets BY DEF TypeOK
  <2> QED BY <1>11, <2>1, ReplayTypes DEF TypeOK, ResumeResized
<1>12. CASE ResumeFails(c) BY <1>12, ClosingTypes DEF TypeOK, ResumeFails,
States
<1>13. CASE ClaimTakesEffect(c) BY <1>13 DEF TypeOK, ClaimTakesEffect
<1>14. CASE ClaimFails(c) BY <1>14 DEF TypeOK, ClaimFails
<1>15. CASE ClaimReturns(c)
  <2>1. CASE Current(c, claimOf[c])
    BY <1>15, <2>1 DEF TypeOK, ClaimReturns
  <2>2. CASE RestoreDesktop(c, claimOf[c])
    <3>1. claimOf[c] \in Sockets BY DEF TypeOK
    <3>2. owner' \in [Sockets -> {"mobile", "desktop"}] /\ kept' \in SUBSET Sockets
      <4>1. HandsBack({claimOf[c]} \cap Live) \/ UNCHANGED <<owner, kept>>
        BY <2>2 DEF RestoreDesktop
      <4> QED BY <3>1, <4>1, HandsBackTypes DEF TypeOK
    <3>3. intent' \in [Sockets -> {"none", "mobile", "desktop"}]
          /\ marker' \in [Sockets -> Sockets \cup {None}]
      BY <2>2, <3>1, MarkTypes DEF RestoreDesktop
    <3> QED BY <1>15, <3>2, <3>3 DEF TypeOK, ClaimReturns
  <2> QED BY <1>15, <2>1, <2>2 DEF ClaimReturns
<1>16. CASE FinalizeKilled(c) BY <1>16 DEF TypeOK, FinalizeKilled
<1>17. CASE FinalizeDone(c) BY <1>17, ClosingTypes DEF TypeOK, FinalizeDone
<1>18. CASE CloseEvent(c) BY <1>18, TransportGoneTypes DEF CloseEvent
<1>19. CASE KilledPtyExits(c) BY <1>19, PtyExitsTypes DEF KilledPtyExits
<1> QED BY <1>1, <1>2, <1>3, <1>4, <1>5, <1>6, <1>7, <1>8, <1>9, <1>10, <1>11,
           <1>12, <1>13, <1>14, <1>15, <1>16, <1>17, <1>18, <1>19

\* handleTransportBackpressure keeps the types of what it assigns.
LEMMA BackpressureTypes ==
  ASSUME TypeOK, NEW s \in Sockets, Backpressure(s)
  PROVE  /\ overflowed' \in SUBSET Sockets
         /\ sock' \in [Sockets -> {"new", "open", "closing", "closed"}]
         /\ st' \in [Sockets -> States]
         /\ owner' \in [Sockets -> {"mobile", "desktop"}]
         /\ kept' \in SUBSET Sockets
         /\ intent' \in [Sockets -> {"none", "mobile", "desktop"}]
         /\ marker' \in [Sockets -> Sockets \cup {None}]
         /\ timer' \in SUBSET Sockets
<1>1. \E P \in SUBSET Sockets : Mark(P, "desktop", None)
  BY DEF Backpressure, TypeOK
<1>2. intent' \in [Sockets -> {"none", "mobile", "desktop"}]
      /\ marker' \in [Sockets -> Sockets \cup {None}]
  BY <1>1, MarkTypes
<1>3. owner' \in [Sockets -> {"mobile", "desktop"}] /\ kept' \in SUBSET Sockets
  <2>1. \E P \in SUBSET Sockets : HandsBack(P)
    BY DEF Backpressure, TypeOK
  <2> QED BY <2>1, HandsBackTypes
<1>4. sock' \in [Sockets -> {"new", "open", "closing", "closed"}]
  BY ClosingTypes DEF Backpressure
<1>5. st' \in [Sockets -> States]
  BY DEF Backpressure, TypeOK, States
<1>6. overflowed' \in SUBSET Sockets /\ timer' \in SUBSET Sockets
  BY DEF Backpressure, TypeOK
<1> QED BY <1>2, <1>3, <1>4, <1>5, <1>6

LEMMA OutputKeepsTypes ==
  ASSUME TypeOK, NEW s \in Sockets, NEW full \in BOOLEAN, PtyOutput(s, full)
  PROVE  TypeOK'
<1>1. CASE BufferOutput(s, full)
  BY <1>1, GapAssumption DEF TypeOK, BufferOutput, RoomInGap
<1>2. CASE SendOutput(s, full)
  <2>1. bound[s] \in Sockets
    BY <1>2 DEF SendOutput, TypeOK
  <2>2. CASE Backpressure(s)
    BY <1>2, <2>1, <2>2, BackpressureTypes DEF TypeOK, SendOutput
  <2>3. CASE ~Backpressure(s)
    BY <1>2, <2>1, <2>3 DEF TypeOK, SendOutput
  <2> QED BY <2>2, <2>3
<1>3. CASE SilentOutput(s, full)
  BY <1>3 DEF TypeOK, SilentOutput
<1> QED BY <1>1, <1>2, <1>3 DEF PtyOutput

LEMMA EnvironmentKeepsTypes == ASSUME TypeOK, Environment PROVE TypeOK'
<1> SUFFICES ASSUME NEW c \in Sockets,
               \/ Connect(c) \/ NetworkClose(c)
               \/ \E t \in Targets : AttachFresh(c, t)
               \/ \E s \in Sockets : AttachResume(c, s)
               \/ \E s \in Sockets : Claim(c, s)
               \/ Detach(c) \/ FrameDropped(c) \/ PtyExits(c)
               \/ \E full \in BOOLEAN : PtyOutput(c, full)
               \/ DesktopTakesOver(c) \/ MobileClientDetached(c)
             PROVE TypeOK'
  BY DEF Environment
<1>1. CASE Connect(c) BY <1>1 DEF TypeOK, Connect, States
<1>2. CASE NetworkClose(c) BY <1>2, TransportGoneTypes DEF NetworkClose
<1>3. ASSUME NEW t \in Targets, AttachFresh(c, t) PROVE TypeOK'
  <2>1. /\ st' \in [Sockets -> States]
        /\ target' \in [Sockets -> Targets \cup {None}]
    BY <1>3 DEF TypeOK, AttachFresh, States
  <2>2. CASE Prepare(c, t) /\ UNCHANGED queue
    BY <1>3, <2>1, <2>2 DEF TypeOK, AttachFresh, Prepare
  <2>3. CASE ~(Prepare(c, t) /\ UNCHANGED queue)
    <3>1. /\ queue' = queue \/ queue' = [queue EXCEPT ![c] = registry]
          /\ \/ attach' = [attach EXCEPT ![c] = "evicting"]
             \/ attach' = [attach EXCEPT ![c] = "failing"]
          /\ UNCHANGED <<record, owner, kept>>
      BY <1>3, <2>3 DEF AttachFresh
    <3>2. queue' \in [Sockets -> SUBSET Sockets]
      <4>1. /\ queue \in [Sockets -> SUBSET Sockets]
            /\ registry \in SUBSET Sockets
        BY DEF TypeOK
      <4> QED BY <3>1, <4>1
    <3>3. UNCHANGED <<sockets, resuming, awaited, claim, claimOf, parking,
    lease,
                      intent, marker, screen, registry, pty, timer,
                      finalizing>>
      BY <1>3 DEF AttachFresh
    <3>4. attach' \in [Sockets -> {"idle", "evicting", "evicted", "spawning",
                                    "connecting", "returning", "failing",
                                    "tick", "resizing"}]
      BY <3>1 DEF TypeOK
    <3>5. UNCHANGED <<record, owner, kept>>
      BY <3>1
    <3> QED BY <2>1, <3>2, <3>3, <3>4, <3>5 DEF TypeOK
  <2> QED BY <2>2, <2>3
<1>4. ASSUME NEW s \in Sockets, AttachResume(c, s) PROVE TypeOK'
  BY <1>4 DEF TypeOK, AttachResume
<1>5. ASSUME NEW s \in Sockets, Claim(c, s) PROVE TypeOK'
  <2>1. /\ intent' \in [Sockets -> {"none", "mobile", "desktop"}]
        /\ marker' \in [Sockets -> Sockets \cup {None}]
    BY <1>5, MarkTypes DEF Claim
  <2>2. /\ claim' \in [Sockets -> {"idle", "calling", "effected", "failed"}]
        /\ claimOf' \in [Sockets -> Sockets]
    BY <1>5, TypeParts DEF Claim, OtherTypes
  <2>3. EndTypes' BY <1>5, TypeParts DEF Claim, EndTypes
  <2>4. OtherTypes' BY <1>5, <2>1, <2>2, TypeParts DEF Claim, OtherTypes
  <2> QED BY <2>3, <2>4, TypePartsNext
<1>6. CASE Detach(c)
  <2>1. \E S \in SUBSET Sockets : Finalize(S) BY <1>6 DEF Detach
  <2>2. EndTypes' BY <2>1, FinalizeTypes
  <2>3. OtherTypes' BY <1>6, TypeParts DEF Detach, OtherTypes
  <2> QED BY <2>2, <2>3, TypePartsNext
<1>7. CASE FrameDropped(c)
  BY <1>7, BackpressureTypes DEF TypeOK, FrameDropped
<1>8. CASE PtyExits(c) BY <1>8, PtyExitsTypes
<1>9. CASE \E full \in BOOLEAN : PtyOutput(c, full) BY <1>9, OutputKeepsTypes
<1>10. CASE DesktopTakesOver(c) BY <1>10 DEF TypeOK, DesktopTakesOver
<1>11. CASE MobileClientDetached(c) BY <1>11 DEF TypeOK, MobileClientDetached
<1> QED BY <1>1, <1>2, <1>3, <1>4, <1>5, <1>6, <1>7, <1>8, <1>9, <1>10, <1>11

LEMMA InitTypes == Init => TypeOK
  BY GapAssumption DEF Init, TypeOK, States

\* Every variable keeps its type: the gap buffer never holds more chunks than
\* TERMINAL_OUTPUT_GAP_MAX_BYTES allows (handlePtyOutput), every socket and
\* session is in one of its states.
THEOREM TypeCorrectness == Spec => []TypeOK
<1>1. TypeOK /\ [Next]_vars => TypeOK'
  <2> SUFFICES ASSUME TypeOK, [Next]_vars PROVE TypeOK'
    OBVIOUS
  <2>1. CASE Next BY <2>1, HandlersKeepTypes, EnvironmentKeepsTypes DEF Next
  <2>2. CASE UNCHANGED vars BY <2>2 DEF vars, TypeOK
  <2> QED BY <2>1, <2>2
<1> QED BY <1>1, InitTypes, PTL DEF Spec

-----------------------------------------------------------------------------
(* Whose window it is                                                      *)
(*                                                                         *)
(* IntentHonoured alone is not inductive.  A claim that returns to a       *)
(* current socket leaves the owner as it is, so the intent must then be    *)
(* the claim's own (ClaimIsLast): nothing else marks a session while its   *)
(* socket stays current.  That in turn needs what a socket may be bound to *)
(* (BoundToResumed, OwnUntilGrown, TickIsQuiet), and that sessions whose   *)
(* attach is not through have no intent to be honoured (NoIntentYet).      *)

\* The attach of s is through, one way or the other.
Grown(s) == /\ st[s] \notin {"none", "awaiting_attach", "attaching"}
            /\ attach[s] \in {"idle", "returning"}

LeaseIsGrown == \A s \in lease : Grown(s)
ClaimIsGrown == \A c \in Sockets : claim[c] # "idle" => Grown(claimOf[c])
ResumeIsGrown == \A c \in Sockets : attach[c] = "resizing" => Grown(resuming[c])
NewIsUntouched ==
  \A c \in Sockets : sock[c] = "new" =>
     st[c] = "none" /\ claim[c] = "idle" /\ attach[c] = "idle" /\ bound[c] = None
       /\ c \notin pty
FinalizingIsClosed ==
  \A s \in Sockets : finalizing[s] # "no" => st[s] = "closed"
BoundToResumed ==
  \A c, s \in Sockets : bound[s] = c /\ s # c => resuming[c] = s
OwnUntilGrown == \A s \in Sockets : ~Grown(s) => bound[s] \in {s, None}
ClaimOfResumed ==
  \A c \in Sockets : claim[c] # "idle" /\ claimOf[c] # c => resuming[c] # c
TickIsQuiet ==
  \A c \in Sockets : attach[c] = "tick" =>
     claim[c] = "idle" /\ \A s \in Sockets : s # c => bound[s] # c
ClaimIsLast ==
  \A c \in Sockets :
     (claim[c] # "idle" /\ Current(c, claimOf[c]))
       => marker[claimOf[c]] = c /\ intent[claimOf[c]] = "mobile"
NoIntentYet ==
  \A s \in Sockets :
     (~Grown(s) /\ (bound[s] # None \/ st[s] = "none")) => intent[s] # "desktop"
ParkedMeansDesktop ==
  \A s \in Sockets :
     (st[s] = "parked" /\ bound[s] = None) => intent[s] = "desktop"

\* Which handlers and sockets a session may have at which point of its life.
Structure ==
  /\ LeaseIsGrown /\ ClaimIsGrown /\ ResumeIsGrown /\ NewIsUntouched
  /\ FinalizingIsClosed /\ BoundToResumed /\ OwnUntilGrown /\ ClaimOfResumed
  /\ TickIsQuiet

IInv == /\ TypeOK /\ Structure
        /\ ClaimIsLast /\ NoIntentYet /\ ParkedMeansDesktop /\ IntentHonoured
-----------------------------------------------------------------------------
(* Every action keeps it.  Most move only one session between two points   *)
(* whose structure the definitions spell out, and need no more than that.  *)
USE NoneAssumption DEF Structure, Grown, Current, Settled, LeaseIsGrown,
  ClaimIsGrown, ResumeIsGrown, NewIsUntouched, FinalizingIsClosed,
  BoundToResumed, OwnUntilGrown, ClaimOfResumed, TickIsQuiet, ClaimIsLast,
  NoIntentYet, ParkedMeansDesktop, IntentHonoured

\* releaseParkedForAttach ends a session that is grown; it marks nothing.
LEMMA EvictNextKeeps ==
  ASSUME IInv, TypeOK', NEW c \in Sockets, NEW s \in Sockets, EvictNext(c, s)
  PROVE  IInv'
<1>1. CASE Evictable(s, c)
  <2>1. Finalize({s}) /\ attach' = [attach EXCEPT ![c] = "evicted"]
    BY <1>1 DEF EvictNext
  <2>2. st[s] = "parked" /\ attach[c] \in {"evicting", "evicted"}
    BY <1>1 DEF Evictable, EvictNext, Evicting
  <2>3. UNCHANGED <<sockets, resuming, claim, claimOf, leases, pty>>
    BY DEF EvictNext
  <2>4. /\ st' = [x \in Sockets |-> IF x = s THEN "closed" ELSE st[x]]
        /\ finalizing' = [x \in Sockets |-> IF x = s THEN "killing"
                                                     ELSE finalizing[x]]
    BY <2>1 DEF Finalize
  <2>5. \A x \in Sockets : Grown(x) => Grown(x)'
    BY <2>1, <2>2, <2>4 DEF IInv, TypeOK
  <2>6. Structure'
    BY <2>1, <2>2, <2>3, <2>4, <2>5 DEF IInv, TypeOK
  <2>7. ClaimIsLast' /\ NoIntentYet' /\ ParkedMeansDesktop' /\ IntentHonoured'
    BY <2>1, <2>2, <2>3, <2>4 DEF IInv, TypeOK
  <2> QED BY <2>6, <2>7 DEF IInv
<1>2. CASE ~Evictable(s, c)
  BY <1>2 DEF EvictNext, IInv, TypeOK
<1> QED BY <1>1, <1>2

LEMMA RetryPrepareKeeps ==
  ASSUME IInv, TypeOK', NEW c \in Sockets, RetryPrepare(c) PROVE IInv'
<1>1. attach[c] \in {"evicting", "evicted"} /\ c \notin lease
  BY DEF RetryPrepare, Evicting, IInv
<1>2. CASE Prepare(c, target[c])
  BY <1>1, <1>2 DEF RetryPrepare, Prepare, IInv, TypeOK
<1>3. CASE attach' = [attach EXCEPT ![c] = "failing"] /\ UNCHANGED <<record, owner, kept>>
  BY <1>1, <1>3 DEF RetryPrepare, IInv, TypeOK
<1> QED BY <1>2, <1>3 DEF RetryPrepare

LEMMA SpawnPtyKeeps ==
  ASSUME IInv, TypeOK', NEW c \in Sockets, SpawnPty(c) PROVE IInv'
<1>1. sock[c] # "new" /\ c \notin lease
  BY DEF SpawnPty, IInv
<1>2. \A x \in Sockets : Grown(x) => Grown(x)'
  BY DEF SpawnPty, IInv, TypeOK
<1>3. Structure'
  BY <1>1, <1>2 DEF SpawnPty, IInv, TypeOK
<1>4. ClaimIsLast' /\ NoIntentYet' /\ ParkedMeansDesktop' /\ IntentHonoured'
  BY <1>2 DEF SpawnPty, IInv, TypeOK
<1> QED BY <1>3, <1>4 DEF IInv

\* The end of a fresh attach: the one step that gives a session its lease.
LEMMA AttachReturnsKeeps ==
  ASSUME IInv, TypeOK', NEW c \in Sockets, AttachReturns(c) PROVE IInv'
<1>1. CASE AttachStale(c)
  BY <1>1 DEF AttachReturns, AttachStale, IInv, TypeOK
<1>2. CASE AttachServed(c)
  <2>1. bound[c] = c /\ intent[c] # "desktop" /\ st[c] # "closed"
        /\ attach[c] = "connecting"
    BY <1>2 DEF AttachReturns, AttachServed, IInv, TypeOK
  <2>2. CASE ReplaySent(c, c, {}) \/ ReplayUnheard(c, c)
    BY <1>2, <2>1, <2>2
       DEF AttachReturns, AttachServed, ReplaySent, ReplayUnheard, IInv, TypeOK
  <2>3. CASE ReplayCut(c, c)
    BY <1>2, <2>1, <2>3
       DEF AttachReturns, AttachServed, ReplayCut, HandsBack, Mark, Closing,
           IInv,
           TypeOK
  <2> QED BY <1>2, <2>2, <2>3 DEF AttachServed, Replay
<1>3. CASE AttachUnserved(c)
  BY <1>3 DEF AttachReturns, AttachUnserved, HandsBack, Mark, IInv, TypeOK
<1>4. CASE AttachRefused(c)
  BY <1>4 DEF AttachReturns, AttachRefused, IInv, TypeOK
<1> QED BY <1>1, <1>2, <1>3, <1>4 DEF AttachReturns

\* A resume binds a grown session to a socket nobody claims on, and keeps the
\* meaning of its owner.
LEMMA ResumeSwapKeeps ==
  ASSUME IInv, TypeOK', NEW c \in Sockets, ResumeSwap(c) PROVE IInv'
<1> DEFINE s == resuming[c]
<1>1. s \in lease /\ Grown(s) /\ s # c /\ claim[c] = "idle"
  BY DEF ResumeSwap, IsAttachedOrParked, IInv, TypeOK
<1>2. \A x \in Sockets : Grown(x) => Grown(x)'
  BY <1>1 DEF ResumeSwap, IInv, TypeOK
<1>3. Structure'
  <2>1. LeaseIsGrown' /\ ClaimIsGrown' /\ FinalizingIsClosed'
    BY <1>1, <1>2 DEF ResumeSwap, IsAttachedOrParked, IInv, TypeOK
  <2>2. ResumeIsGrown' /\ ClaimOfResumed'
    BY <1>1, <1>2 DEF ResumeSwap, IInv, TypeOK
  <2>3. NewIsUntouched'
    BY <1>1 DEF ResumeSwap, Closing, IInv, TypeOK
  <2>4. BoundToResumed' /\ TickIsQuiet'
    BY <1>1 DEF ResumeSwap, IInv, TypeOK
  <2>5. OwnUntilGrown'
    BY <1>1, <1>2 DEF ResumeSwap, IInv, TypeOK
  <2> QED BY <2>1, <2>2, <2>3, <2>4, <2>5
<1>4. ClaimIsLast'
  BY <1>1 DEF ResumeSwap, Mark, Closing, IInv, TypeOK
<1>5. NoIntentYet' /\ ParkedMeansDesktop'
  BY <1>1, <1>2 DEF ResumeSwap, Mark, IInv, TypeOK
<1>6. IntentHonoured'
  BY <1>1 DEF ResumeSwap, Mark, IInv, TypeOK
<1> QED BY <1>3, <1>4, <1>5, <1>6 DEF IInv

LEMMA ResumeResizedKeeps ==
  ASSUME IInv, TypeOK', NEW c \in Sockets, ResumeResized(c) PROVE IInv'
<1> DEFINE s == resuming[c]
<1>1. /\ attach[c] = "resizing" /\ Grown(s) /\ s # c /\ s \in Sockets
      /\ bound[s] = c /\ sock[c] = "open" /\ st[s] # "closed"
      /\ \A x \in Sockets : bound[x] = c => x \in {s, c}
  BY DEF ResumeResized, IInv, TypeOK
<1>2. CASE ReplaySent(c, s, {c})
  <2>1. Structure'
    BY <1>1, <1>2 DEF ResumeResized, ReplaySent, IInv, TypeOK
  <2>2. ClaimIsLast' /\ NoIntentYet' /\ ParkedMeansDesktop' /\ IntentHonoured'
    BY <1>1, <1>2 DEF ResumeResized, ReplaySent, IInv, TypeOK
  <2> QED BY <2>1, <2>2 DEF IInv
<1>3. CASE ReplayCut(c, s)
  <2>1. Structure'
    BY <1>1, <1>3 DEF ResumeResized, ReplayCut, Closing, IInv, TypeOK
  <2>2. ClaimIsLast' /\ NoIntentYet' /\ ParkedMeansDesktop' /\ IntentHonoured'
    BY <1>1, <1>3 DEF ResumeResized, ReplayCut, HandsBack, Mark, Closing, IInv, TypeOK
  <2> QED BY <2>1, <2>2 DEF IInv
<1> QED BY <1>1, <1>2, <1>3 DEF ResumeResized, Replay, ReplayUnheard

LEMMA FinalizeDoneKeeps ==
  ASSUME IInv, TypeOK', NEW c \in Sockets, FinalizeDone(c) PROVE IInv'
<1>1. st[c] = "closed"
  BY DEF FinalizeDone, IInv
<1>2. Structure'
  BY <1>1 DEF FinalizeDone, Closing, IInv, TypeOK
<1>3. ClaimIsLast' /\ NoIntentYet' /\ ParkedMeansDesktop' /\ IntentHonoured'
  BY <1>1 DEF FinalizeDone, Closing, IInv, TypeOK
<1> QED BY <1>2, <1>3 DEF IInv

\* handleTransportClosed: the desktop gets what the intent now says.
LEMMA TransportGoneKeeps ==
  ASSUME IInv, TypeOK', NEW c \in Sockets, TransportGone(c) PROVE IInv'
<1>1. \A x \in Sockets : Grown(x) => Grown(x)'
  BY DEF TransportGone, IInv, TypeOK
<1>2. Structure'
  <2>1. LeaseIsGrown' /\ ClaimIsGrown' /\ ResumeIsGrown'
    <3>1. UNCHANGED <<lease, claim, claimOf, attach, resuming>>
      BY DEF TransportGone
    <3>2. /\ lease \subseteq Sockets /\ claimOf \in [Sockets -> Sockets]
          /\ resuming \in [Sockets -> Sockets]
          /\ LeaseIsGrown /\ ClaimIsGrown /\ ResumeIsGrown
      BY DEF IInv, TypeOK
    <3> HIDE DEF Grown
    <3> QED BY <1>1, <3>1, <3>2
  <2>2. NewIsUntouched' /\ FinalizingIsClosed'
    BY DEF TransportGone, IInv, TypeOK
  <2>3. BoundToResumed' /\ OwnUntilGrown' /\ ClaimOfResumed' /\ TickIsQuiet'
    BY <1>1, NoneAssumption DEF TransportGone, IInv, TypeOK
  <2> QED BY <2>1, <2>2, <2>3
<1>3. ClaimIsLast'
  BY DEF TransportGone, Mark, IInv, TypeOK
<1>4. NoIntentYet' /\ ParkedMeansDesktop'
  BY DEF TransportGone, Mark, IInv, TypeOK
<1>5. IntentHonoured'
  BY DEF TransportGone, Mark, HandsBack, Live, IInv, TypeOK
<1> QED BY <1>2, <1>3, <1>4, <1>5 DEF IInv

LEMMA PtyExitsKeeps ==
  ASSUME IInv, TypeOK', NEW c \in Sockets, PtyExits(c) PROVE IInv'
  BY DEF PtyExits, Finalize, IInv, TypeOK

LEMMA HandlersKeep == ASSUME IInv, TypeOK', Handlers PROVE IInv'
<1> SUFFICES ASSUME NEW c \in Sockets,
               \/ CloseEvent(c) \/ ParkingReturns(c) \/ TimerFires(c)
               \/ \E s \in Sockets : EvictNext(c, s)
               \/ RetryPrepare(c) \/ SpawnPty(c) \/ AttachReturns(c) \/ ReturnDone(c)
               \/ AttachFailed(c) \/ ResumeSwap(c) \/ ResumeAbandoned(c)
               \/ ResumeResized(c) \/ ResumeFails(c)
               \/ ClaimTakesEffect(c) \/ ClaimFails(c) \/ ClaimReturns(c)
               \/ FinalizeKilled(c) \/ FinalizeDone(c) \/ KilledPtyExits(c)
             PROVE IInv'
  BY DEF Handlers
<1>1. CASE ParkingReturns(c) BY <1>1 DEF ParkingReturns, IInv, TypeOK
<1>2. CASE TimerFires(c) BY <1>2 DEF TimerFires, Finalize, IInv, TypeOK
<1>3. CASE ReturnDone(c) BY <1>3 DEF ReturnDone, IInv, TypeOK
<1>4. CASE AttachFailed(c) BY <1>4 DEF AttachFailed, IInv, TypeOK
<1>5. CASE ResumeAbandoned(c) BY <1>5 DEF ResumeAbandoned, IInv, TypeOK
<1>6. CASE ResumeFails(c) BY <1>6 DEF ResumeFails, Closing, IInv, TypeOK
<1>7. CASE ClaimTakesEffect(c) BY <1>7 DEF ClaimTakesEffect, IInv, TypeOK
<1>8. CASE ClaimFails(c) BY <1>8 DEF ClaimFails, IInv, TypeOK
<1>9. CASE ClaimReturns(c)
  BY <1>9 DEF ClaimReturns, RestoreDesktop, Mark, HandsBack, Live, IInv, TypeOK
<1>10. CASE FinalizeKilled(c) BY <1>10 DEF FinalizeKilled, IInv, TypeOK
<1>11. CASE CloseEvent(c) BY <1>11, TransportGoneKeeps DEF CloseEvent
<1>12. CASE KilledPtyExits(c) BY <1>12, PtyExitsKeeps DEF KilledPtyExits
<1> QED BY <1>1, <1>2, <1>3, <1>4, <1>5, <1>6, <1>7, <1>8, <1>9, <1>10, <1>11,
           <1>12, EvictNextKeeps, RetryPrepareKeeps, SpawnPtyKeeps,
           AttachReturnsKeeps, ResumeSwapKeeps, ResumeResizedKeeps,
           FinalizeDoneKeeps

LEMMA EnvironmentKeeps == ASSUME IInv, TypeOK', Environment PROVE IInv'
<1> SUFFICES ASSUME NEW c \in Sockets,
               \/ Connect(c) \/ NetworkClose(c)
               \/ \E t \in Targets : AttachFresh(c, t)
               \/ \E s \in Sockets : AttachResume(c, s)
               \/ \E s \in Sockets : Claim(c, s)
               \/ Detach(c) \/ FrameDropped(c) \/ PtyExits(c)
               \/ \E full \in BOOLEAN : PtyOutput(c, full)
               \/ DesktopTakesOver(c) \/ MobileClientDetached(c)
             PROVE IInv'
  BY DEF Environment
<1>1. CASE Connect(c) BY <1>1 DEF Connect, IInv, TypeOK
<1>2. CASE NetworkClose(c) BY <1>2, TransportGoneKeeps DEF NetworkClose
<1>3. ASSUME NEW t \in Targets, AttachFresh(c, t) PROVE IInv'
  <2>1. /\ st[c] = "awaiting_attach" /\ sock[c] = "open" /\ c \notin lease
        /\ bound[c] = c /\ ~Grown(c) /\ attach[c] = "idle"
    BY <1>3 DEF AttachFresh, AttachFrame, IInv
  <2>2. /\ st' = [st EXCEPT ![c] = "attaching"]
        /\ attach'[c] \in {"spawning", "evicting", "failing"}
        /\ \A x \in Sockets \ {c} : attach'[x] = attach[x] /\ record'[x] = record[x]
                                                 /\ owner'[x] = owner[x]
        /\ UNCHANGED <<sockets, resuming, claim, claimOf, lease, kept, intent,
                       marker, pty, finalizing>>
    BY <1>3 DEF AttachFresh, Prepare, IInv, TypeOK
  <2>3. Structure'
    BY <2>1, <2>2 DEF IInv, TypeOK
  <2>4. ClaimIsLast'
    BY <2>1, <2>2 DEF IInv, TypeOK
  <2>5. NoIntentYet' /\ ParkedMeansDesktop'
    BY <2>1, <2>2 DEF IInv, TypeOK
  <2>6. IntentHonoured'
    BY <2>1, <2>2 DEF IInv, TypeOK
  <2> QED BY <2>3, <2>4, <2>5, <2>6 DEF IInv
<1>4. ASSUME NEW s \in Sockets, AttachResume(c, s) PROVE IInv'
  BY <1>4 DEF AttachResume, AttachFrame, IsAttachedOrParked, IInv, TypeOK
<1>5. ASSUME NEW s \in Sockets, Claim(c, s) PROVE IInv'
  BY <1>5 DEF Claim, IsAttached, Mark, IInv, TypeOK
<1>6. CASE Detach(c) BY <1>6 DEF Detach, Finalize, IInv, TypeOK
<1>7. CASE FrameDropped(c)
  BY <1>7 DEF FrameDropped, Backpressure, Mark, HandsBack, Live, Closing, IInv,
     TypeOK
<1>8. ASSUME NEW full \in BOOLEAN, PtyOutput(c, full) PROVE IInv'
  <2>1. CASE BufferOutput(c, full) \/ SilentOutput(c, full)
    BY <2>1 DEF BufferOutput, SilentOutput, IInv, TypeOK
  <2>2. CASE SendOutput(c, full)
    <3>1. CASE Backpressure(c)
      BY <2>2, <3>1 DEF SendOutput, Backpressure, Mark, HandsBack, Live,
         Closing, IInv,
                        TypeOK
    <3>2. CASE ~Backpressure(c)
      BY <2>2, <3>2 DEF SendOutput, IInv
    <3> QED BY <3>1, <3>2
  <2> QED BY <1>8, <2>1, <2>2 DEF PtyOutput
<1>9. CASE DesktopTakesOver(c) BY <1>9 DEF DesktopTakesOver, IInv, TypeOK
<1>10. CASE MobileClientDetached(c)
  BY <1>10 DEF MobileClientDetached, IInv, TypeOK
<1> QED BY <1>1, <1>2, <1>3, <1>4, <1>5, <1>6, <1>7, <1>8, <1>9, <1>10,
           PtyExitsKeeps

LEMMA Invariance == Spec => []IInv
<1>1. Init => IInv
  BY InitTypes DEF Init, IInv
<1>2. IInv /\ [Next]_vars => IInv'
  <2> SUFFICES ASSUME IInv, [Next]_vars PROVE IInv'
    OBVIOUS
  <2>1. TypeOK'
    BY HandlersKeepTypes, EnvironmentKeepsTypes DEF IInv, Next, vars, TypeOK
  <2>2. CASE Next BY <2>1, <2>2, HandlersKeep, EnvironmentKeeps DEF Next
  <2>3. CASE UNCHANGED vars BY <2>3 DEF vars, IInv, TypeOK
  <2> QED BY <2>2, <2>3
<1> QED BY <1>1, <1>2, PTL DEF Spec

\* Once the claims in flight are through, a window whose session last meant
\* the desktop to have it is the desktop's, or tmux refused the last attempt
\* to restore it (viewport-manager.ts 599): no claim of a closed or replaced
\* socket keeps it (claimMobileForInput 678), and no resume takes it (395).
THEOREM IntentIsHonoured == Spec => []IntentHonoured
<1>1. IInv => IntentHonoured BY DEF IInv
<1> QED BY <1>1, Invariance, PTL

\* A parked session without a socket has given the window back, or was
\* refused by tmux when it last tried (handleTransportClosed 780, attachFresh
\* 562, viewport-manager.ts 599).
THEOREM ParkedHandsBackAlways == Spec => []ParkedHandsBack
<1>1. IInv => ParkedHandsBack BY DEF IInv, ParkedHandsBack
<1> QED BY <1>1, Invariance, PTL

-----------------------------------------------------------------------------
(* What a session holds, hears and owes                                    *)
(*                                                                         *)
(* ReleasedWhenClosed, ParkedHasExit, ServedIsBound and NoSilentGap speak  *)
(* of sessions at rest; a step reaches them from the waits in between.     *)
(* Holding says where an attach may stand and who answers for a lease      *)
(* record meanwhile, Hearing which socket a session listens to and which   *)
(* one was told so, Owing who will draw a screen that misses output.       *)
HIDE DEF Structure, Grown, Current, Settled, LeaseIsGrown, ClaimIsGrown,
  ResumeIsGrown, NewIsUntouched, FinalizingIsClosed, BoundToResumed,
  OwnUntilGrown, ClaimOfResumed, TickIsQuiet, ClaimIsLast, NoIntentYet,
  ParkedMeansDesktop, IntentHonoured
USE TargetAssumption

\* The waits of an attach that has not come to its end.
OwnSteps == {"evicting", "evicted", "spawning", "connecting", "failing"}

AttachInStep ==
  \A c \in Sockets :
     /\ st[c] = "attaching" => attach[c] \in OwnSteps
     /\ st[c] \in {"none", "awaiting_attach"} =>
          attach[c] \in {"idle", "tick", "resizing"}
     /\ attach[c] \in {"tick", "resizing"} =>
          st[c] \in {"awaiting_attach", "closed"}
     /\ (attach[c] \in OwnSteps /\ bound[c] # None) =>
          st[c] \in {"attaching", "closed"}
ResumerIsFresh ==
  \A c \in Sockets : resuming[c] # c =>
     /\ st[c] \in {"awaiting_attach", "closed"} /\ target[c] = None
     /\ attach[c] \in {"idle", "tick", "resizing"}
UnbornIsNew == \A s \in Sockets : st[s] = "none" => sock[s] = "new"
UsedHasTarget ==
  \A s \in Sockets :
     s \in pty \/ s \in lease \/ s \in stale => target[s] \in Targets
TickIsGrown ==
  \A c \in Sockets : attach[c] = "tick" => Grown(resuming[c])
GrownHasLease ==
  \A s \in Sockets : Grown(s) /\ st[s] # "closed" => s \in lease
ReleasedHasNone ==
  \A s \in Sockets : finalizing[s] \in {"releasing", "done"} => s \notin lease
RegistryIsGrown ==
  \A s \in registry : Grown(s) /\ finalizing[s] # "done"
RecordIsHeld ==
  \A s \in Sockets :
     /\ record[s] # "none" =>
          s \in lease \/ attach[s] \in {"spawning", "connecting", "failing"}
     /\ attach[s] \in {"spawning", "connecting"} => record[s] = "prepared"
     /\ record[s] # "none" \/ attach[s] \in {"evicting", "evicted"} =>
          target[s] \in Targets
     /\ record[s] = "attached" => s \in lease
     /\ s \in lease => record[s] # "prepared"

\* Where an attach may stand, and who answers for a lease record.
Holding ==
  /\ AttachInStep /\ ResumerIsFresh /\ UnbornIsNew /\ UsedHasTarget
  /\ TickIsGrown /\ GrownHasLease /\ ReleasedHasNone
  /\ RegistryIsGrown /\ RecordIsHeld

BoundIsLast ==
  \A s \in Sockets :
     /\ bound[s] # None => last[s] = bound[s] /\ sock[bound[s]] # "new"
     /\ sock[s] = "new" => last[s] = s
ParkingIsGone == \A c \in Sockets : parking[c] # None => sock[c] = "closed"
ReadyIsGrown ==
  \A c \in Sockets : ready[c] # None => Grown(ready[c]) /\ sock[c] # "new"

\* Which socket a session hears, and which was told so.
Hearing == BoundIsLast /\ ParkingIsGone /\ ReadyIsGrown /\ ServedIsBound
             /\ ParkedHasExit

\* No client holds a ready frame of s and waits for another one.
Unheard(s) ==
  /\ s \notin known
  /\ \A c \in Sockets : attach[c] \in {"tick", "resizing"} => resuming[c] # s

\* The screen of s is going to be drawn again.
Owed(s) == s \in overflowed \/ s \in redraw \/ s \in gapFull

AttachedAlone ==
  \A s, x \in Sockets :
     (st[s] = "attached" /\ bound[s] # None /\ x # s) => bound[x] # bound[s]
AttachedIsHeard ==
  \A s \in Sockets : st[s] = "attached" =>
     Unheard(s) \/ (bound[s] # None /\ sock[bound[s]] = "open")
StaleIsOwed ==
  \A s \in stale :
     /\ st[s] = "attaching" => Owed(s)
     /\ st[s] \in {"attached", "parked", "synchronizing"}
          => Owed(s) \/ Unheard(s)

\* What is owed to the screen of a client.
Owing == AttachedAlone /\ AttachedIsHeard /\ StaleIsOwed

\* A window has one session with a lease record at most.
WindowExclusive ==
  \A s, x \in Sockets :
     (record[s] # "none" /\ record[x] # "none"
        /\ WindowOf[target[s]] = WindowOf[target[x]]) => s = x

-----------------------------------------------------------------------------
(* Every kind of step keeps each of them *)

\* What a claim of the window does, and a desktop that takes it over.
Claiming(c) ==
  \/ ClaimTakesEffect(c) \/ ClaimFails(c) \/ ClaimReturns(c)
  \/ (\E s \in Sockets : Claim(c, s)) \/ DesktopTakesOver(c)

\* A socket closes, at whichever end.
Closes(c) == sock[c] \in {"open", "closing"} /\ TransportGone(c)

\* Every step of the program is one of these.
Step(c) ==
  \/ Claiming(c) \/ ParkingReturns(c) \/ Closes(c)
  \/ TimerFires(c) \/ (\E s \in Sockets : EvictNext(c, s)) \/ Detach(c)
  \/ PtyExits(c) \/ RetryPrepare(c) \/ SpawnPty(c) \/ AttachReturns(c)
  \/ ReturnDone(c) \/ AttachFailed(c)
  \/ ResumeSwap(c) \/ ResumeAbandoned(c) \/ ResumeResized(c) \/ ResumeFails(c)
  \/ FinalizeKilled(c) \/ FinalizeDone(c) \/ Connect(c)
  \/ (\E t \in Targets : AttachFresh(c, t))
  \/ (\E s \in Sockets : AttachResume(c, s))
  \/ FrameDropped(c)
  \/ (\E full \in BOOLEAN : BufferOutput(c, full))
  \/ (\E full \in BOOLEAN : SilentOutput(c, full))
  \/ (\E full \in BOOLEAN : SendOutput(c, full))
  \/ MobileClientDetached(c)

LEMMA NextIsStep == ASSUME Next PROVE \E c \in Sockets : Step(c)
<1>1. CASE Handlers
  BY <1>1 DEF Handlers, Step, Claiming, CloseEvent, Closes,
              KilledPtyExits
<1>2. CASE Environment
  BY <1>2 DEF Environment, Step, Claiming, NetworkClose, Closes,
              PtyOutput
<1> QED BY <1>1, <1>2 DEF Next

\* A claim changes nothing but itself, the intent and the owner.
LEMMA ClaimingLeaves ==
  ASSUME NEW c \in Sockets, Claiming(c)
  PROVE  UNCHANGED <<sockets, screen, attach, resuming, queue, awaited,
                     parking, lease, record, st, target, registry, pty, timer,
                     finalizing>>
  BY DEF Claiming, ClaimTakesEffect, ClaimFails, ClaimReturns, Claim,
         DesktopTakesOver

LEMMA AttachInStepKept ==
  ASSUME TypeOK, AttachInStep, ResumerIsFresh, OwnUntilGrown, LeaseIsGrown,
         NewIsUntouched, ResumeIsGrown,
         NEW c \in Sockets, Step(c)
  PROVE  AttachInStep'
<1> USE DEF TypeOK, Grown, OwnSteps, AttachInStep, ResumerIsFresh,
          OwnUntilGrown, LeaseIsGrown, NewIsUntouched, ResumeIsGrown, Current
<1>1. CASE Claiming(c) BY <1>1, ClaimingLeaves
<1>2. CASE ParkingReturns(c) BY <1>2 DEF ParkingReturns
<1>3. CASE Closes(c) BY <1>3 DEF Closes, TransportGone
<1>4. CASE TimerFires(c) BY <1>4 DEF TimerFires, Finalize
<1>5. CASE \E s \in Sockets : EvictNext(c, s)
  BY <1>5 DEF EvictNext, Evicting, Evictable, Finalize
<1>6. CASE Detach(c) BY <1>6 DEF Detach, Finalize
<1>7. CASE PtyExits(c) BY <1>7 DEF PtyExits, Finalize
<1>8. CASE RetryPrepare(c) BY <1>8 DEF RetryPrepare, Prepare, Evicting
<1>9. CASE SpawnPty(c) BY <1>9 DEF SpawnPty
<1>10. CASE AttachReturns(c)
  BY <1>10 DEF AttachReturns, AttachStale, AttachServed, Replay, ReplaySent,
     ReplayCut, Closing, ReplayUnheard, AttachUnserved, AttachRefused
<1>11. CASE ReturnDone(c) BY <1>11 DEF ReturnDone
<1>12. CASE AttachFailed(c) BY <1>12 DEF AttachFailed
<1>13. CASE ResumeSwap(c) BY <1>13 DEF ResumeSwap, IsAttachedOrParked, Closing
<1>14. CASE ResumeAbandoned(c) BY <1>14 DEF ResumeAbandoned
<1>15. CASE ResumeResized(c)
  <2>1. CASE ReplaySent(c, resuming[c], {c})
    BY <1>15, <2>1 DEF ResumeResized, Replay, ReplaySent
  <2>2. CASE ReplayCut(c, resuming[c])
    BY <1>15, <2>2 DEF ResumeResized, Replay, ReplayCut
  <2>3. CASE ReplayUnheard(c, resuming[c])
    BY <1>15, <2>3 DEF ResumeResized, Replay, ReplayUnheard
  <2> QED BY <1>15, <2>1, <2>2, <2>3 DEF ResumeResized, Replay
<1>16. CASE ResumeFails(c) BY <1>16 DEF ResumeFails, Closing
<1>17. CASE FinalizeKilled(c) BY <1>17 DEF FinalizeKilled
<1>18. CASE FinalizeDone(c) BY <1>18 DEF FinalizeDone, Closing
<1>19. CASE Connect(c) BY <1>19 DEF Connect
<1>20. CASE \E t \in Targets : AttachFresh(c, t)
  BY <1>20 DEF AttachFresh, AttachFrame, Prepare
<1>21. CASE \E s \in Sockets : AttachResume(c, s)
  BY <1>21 DEF AttachResume, AttachFrame, IsAttachedOrParked
<1>22. CASE FrameDropped(c) BY <1>22 DEF FrameDropped, Backpressure, Closing
<1>23. CASE \E full \in BOOLEAN : BufferOutput(c, full)
  BY <1>23 DEF BufferOutput
<1>24. CASE \E full \in BOOLEAN : SilentOutput(c, full)
  BY <1>24 DEF SilentOutput
<1>25. CASE \E full \in BOOLEAN : SendOutput(c, full)
  BY <1>25 DEF SendOutput, Backpressure, Closing
<1>26. CASE MobileClientDetached(c) BY <1>26 DEF MobileClientDetached
<1> QED BY <1>1, <1>2, <1>3, <1>4, <1>5, <1>6, <1>7, <1>8, <1>9, <1>10, <1>11,
           <1>12, <1>13, <1>14, <1>15, <1>16, <1>17, <1>18, <1>19, <1>20,
           <1>21, <1>22, <1>23, <1>24, <1>25, <1>26 DEF Step

LEMMA ResumerIsFreshKept ==
  ASSUME TypeOK, ResumerIsFresh, AttachInStep, LeaseIsGrown, ResumeIsGrown,
         NEW c \in Sockets, Step(c)
  PROVE  ResumerIsFresh'
<1> USE DEF TypeOK, Grown, OwnSteps, ResumerIsFresh, AttachInStep,
          LeaseIsGrown, ResumeIsGrown, Current
<1>1. CASE Claiming(c) BY <1>1, ClaimingLeaves
<1>2. CASE ParkingReturns(c) BY <1>2 DEF ParkingReturns
<1>3. CASE Closes(c) BY <1>3 DEF Closes, TransportGone
<1>4. CASE TimerFires(c) BY <1>4 DEF TimerFires, Finalize
<1>5. CASE \E s \in Sockets : EvictNext(c, s)
  BY <1>5 DEF EvictNext, Evicting, Evictable, Finalize
<1>6. CASE Detach(c) BY <1>6 DEF Detach, Finalize
<1>7. CASE PtyExits(c) BY <1>7 DEF PtyExits, Finalize
<1>8. CASE RetryPrepare(c) BY <1>8 DEF RetryPrepare, Prepare, Evicting
<1>9. CASE SpawnPty(c) BY <1>9 DEF SpawnPty
<1>10. CASE AttachReturns(c)
  <2>1. CASE AttachStale(c) BY <1>10, <2>1 DEF AttachReturns, AttachStale
  <2>2. CASE AttachServed(c) /\ ReplaySent(c, c, {})
    BY <1>10, <2>2 DEF AttachReturns, AttachServed, Replay, ReplaySent
  <2>3. CASE AttachServed(c) /\ ReplayCut(c, c)
    BY <1>10, <2>3 DEF AttachReturns, AttachServed, Replay, ReplayCut, Closing
  <2>4. CASE AttachServed(c) /\ ReplayUnheard(c, c)
    BY <1>10, <2>4 DEF AttachReturns, AttachServed, Replay, ReplayUnheard
  <2>5. CASE AttachUnserved(c)
    BY <1>10, <2>5 DEF AttachReturns, AttachUnserved
  <2>6. CASE AttachRefused(c) BY <1>10, <2>6 DEF AttachReturns, AttachRefused
  <2> QED
    BY <1>10, <2>1, <2>2, <2>3, <2>4, <2>5, <2>6 DEF AttachReturns,
       AttachServed, Replay
<1>11. CASE ReturnDone(c) BY <1>11 DEF ReturnDone
<1>12. CASE AttachFailed(c) BY <1>12 DEF AttachFailed
<1>13. CASE ResumeSwap(c) BY <1>13 DEF ResumeSwap, IsAttachedOrParked, Closing
<1>14. CASE ResumeAbandoned(c) BY <1>14 DEF ResumeAbandoned
<1>15. CASE ResumeResized(c)
  BY <1>15 DEF ResumeResized, Replay, ReplaySent, ReplayCut, Closing,
     ReplayUnheard
<1>16. CASE ResumeFails(c) BY <1>16 DEF ResumeFails, Closing
<1>17. CASE FinalizeKilled(c) BY <1>17 DEF FinalizeKilled
<1>18. CASE FinalizeDone(c) BY <1>18 DEF FinalizeDone, Closing
<1>19. CASE Connect(c) BY <1>19 DEF Connect
<1>20. CASE \E t \in Targets : AttachFresh(c, t)
  BY <1>20 DEF AttachFresh, AttachFrame, Prepare
<1>21. CASE \E s \in Sockets : AttachResume(c, s)
  BY <1>21 DEF AttachResume, AttachFrame, IsAttachedOrParked
<1>22. CASE FrameDropped(c) BY <1>22 DEF FrameDropped, Backpressure, Closing
<1>23. CASE \E full \in BOOLEAN : BufferOutput(c, full)
  BY <1>23 DEF BufferOutput
<1>24. CASE \E full \in BOOLEAN : SilentOutput(c, full)
  BY <1>24 DEF SilentOutput
<1>25. CASE \E full \in BOOLEAN : SendOutput(c, full)
  BY <1>25 DEF SendOutput, Backpressure, Closing
<1>26. CASE MobileClientDetached(c) BY <1>26 DEF MobileClientDetached
<1> QED BY <1>1, <1>2, <1>3, <1>4, <1>5, <1>6, <1>7, <1>8, <1>9, <1>10, <1>11,
           <1>12, <1>13, <1>14, <1>15, <1>16, <1>17, <1>18, <1>19, <1>20,
           <1>21, <1>22, <1>23, <1>24, <1>25, <1>26 DEF Step

LEMMA UnbornIsNewKept ==
  ASSUME TypeOK, UnbornIsNew, NewIsUntouched,
         NEW c \in Sockets, Step(c)
  PROVE  UnbornIsNew'
<1> USE DEF TypeOK, UnbornIsNew, NewIsUntouched
<1>1. CASE Claiming(c) BY <1>1, ClaimingLeaves
<1>2. CASE ParkingReturns(c) BY <1>2 DEF ParkingReturns
<1>3. CASE Closes(c) BY <1>3 DEF Closes, TransportGone
<1>4. CASE TimerFires(c) BY <1>4 DEF TimerFires, Finalize
<1>5. CASE \E s \in Sockets : EvictNext(c, s)
  BY <1>5 DEF EvictNext, Evicting, Evictable, Finalize
<1>6. CASE Detach(c) BY <1>6 DEF Detach, Finalize
<1>7. CASE PtyExits(c) BY <1>7 DEF PtyExits, Finalize
<1>8. CASE RetryPrepare(c) BY <1>8 DEF RetryPrepare, Prepare, Evicting
<1>9. CASE SpawnPty(c) BY <1>9 DEF SpawnPty
<1>10. CASE AttachReturns(c)
  BY <1>10 DEF AttachReturns, AttachStale, AttachServed, Replay, ReplaySent,
     ReplayCut, Closing, ReplayUnheard, AttachUnserved, AttachRefused
<1>11. CASE ReturnDone(c) BY <1>11 DEF ReturnDone
<1>12. CASE AttachFailed(c) BY <1>12 DEF AttachFailed
<1>13. CASE ResumeSwap(c) BY <1>13 DEF ResumeSwap, IsAttachedOrParked, Closing
<1>14. CASE ResumeAbandoned(c) BY <1>14 DEF ResumeAbandoned
<1>15. CASE ResumeResized(c)
  <2>1. CASE ReplaySent(c, resuming[c], {c})
    BY <1>15, <2>1 DEF ResumeResized, Replay, ReplaySent
  <2>2. CASE ReplayCut(c, resuming[c])
    BY <1>15, <2>2 DEF ResumeResized, Replay, ReplayCut, Closing
  <2> QED
    BY <1>15, <2>1, <2>2 DEF ResumeResized, Replay, ReplayUnheard, Current
<1>16. CASE ResumeFails(c) BY <1>16 DEF ResumeFails, Closing
<1>17. CASE FinalizeKilled(c) BY <1>17 DEF FinalizeKilled
<1>18. CASE FinalizeDone(c) BY <1>18 DEF FinalizeDone, Closing
<1>19. CASE Connect(c) BY <1>19 DEF Connect
<1>20. CASE \E t \in Targets : AttachFresh(c, t)
  BY <1>20 DEF AttachFresh, AttachFrame, Prepare
<1>21. CASE \E s \in Sockets : AttachResume(c, s)
  BY <1>21 DEF AttachResume, AttachFrame, IsAttachedOrParked
<1>22. CASE FrameDropped(c) BY <1>22 DEF FrameDropped, Backpressure, Closing
<1>23. CASE \E full \in BOOLEAN : BufferOutput(c, full)
  BY <1>23 DEF BufferOutput
<1>24. CASE \E full \in BOOLEAN : SilentOutput(c, full)
  BY <1>24 DEF SilentOutput
<1>25. CASE \E full \in BOOLEAN : SendOutput(c, full)
  BY <1>25 DEF SendOutput, Backpressure, Closing
<1>26. CASE MobileClientDetached(c) BY <1>26 DEF MobileClientDetached
<1> QED BY <1>1, <1>2, <1>3, <1>4, <1>5, <1>6, <1>7, <1>8, <1>9, <1>10, <1>11,
           <1>12, <1>13, <1>14, <1>15, <1>16, <1>17, <1>18, <1>19, <1>20,
           <1>21, <1>22, <1>23, <1>24, <1>25, <1>26 DEF Step

LEMMA UsedHasTargetKept ==
  ASSUME TypeOK, UsedHasTarget, RecordIsHeld, NewIsUntouched, ResumeIsGrown,
         GrownHasLease, AttachInStep,
         NEW c \in Sockets, Step(c)
  PROVE  UsedHasTarget'
<1> USE DEF TypeOK, Grown, OwnSteps, UsedHasTarget, RecordIsHeld,
          NewIsUntouched, ResumeIsGrown, GrownHasLease, AttachInStep, Current
<1>1. CASE Claiming(c) BY <1>1, ClaimingLeaves
<1>2. CASE ParkingReturns(c) BY <1>2 DEF ParkingReturns
<1>3. CASE Closes(c) BY <1>3 DEF Closes, TransportGone
<1>4. CASE TimerFires(c) BY <1>4 DEF TimerFires, Finalize
<1>5. CASE \E s \in Sockets : EvictNext(c, s)
  BY <1>5 DEF EvictNext, Evicting, Evictable, Finalize
<1>6. CASE Detach(c) BY <1>6 DEF Detach, Finalize
<1>7. CASE PtyExits(c) BY <1>7 DEF PtyExits, Finalize
<1>8. CASE RetryPrepare(c) BY <1>8 DEF RetryPrepare, Prepare, Evicting
<1>9. CASE SpawnPty(c) BY <1>9 DEF SpawnPty
<1>10. CASE AttachReturns(c)
  BY <1>10 DEF AttachReturns, AttachStale, AttachServed, Replay, ReplaySent,
     ReplayCut, Closing, ReplayUnheard, AttachUnserved, AttachRefused
<1>11. CASE ReturnDone(c) BY <1>11 DEF ReturnDone
<1>12. CASE AttachFailed(c) BY <1>12 DEF AttachFailed
<1>13. CASE ResumeSwap(c) BY <1>13 DEF ResumeSwap, IsAttachedOrParked, Closing
<1>14. CASE ResumeAbandoned(c) BY <1>14 DEF ResumeAbandoned
<1>15. CASE ResumeResized(c)
  BY <1>15 DEF ResumeResized, Replay, ReplaySent, ReplayCut, Closing,
     ReplayUnheard
<1>16. CASE ResumeFails(c) BY <1>16 DEF ResumeFails, Closing
<1>17. CASE FinalizeKilled(c) BY <1>17 DEF FinalizeKilled
<1>18. CASE FinalizeDone(c) BY <1>18 DEF FinalizeDone, Closing
<1>19. CASE Connect(c) BY <1>19 DEF Connect
<1>20. CASE \E t \in Targets : AttachFresh(c, t)
  BY <1>20 DEF AttachFresh, AttachFrame, Prepare
<1>21. CASE \E s \in Sockets : AttachResume(c, s)
  BY <1>21 DEF AttachResume, AttachFrame, IsAttachedOrParked
<1>22. CASE FrameDropped(c) BY <1>22 DEF FrameDropped, Backpressure, Closing
<1>23. CASE \E full \in BOOLEAN : BufferOutput(c, full)
  BY <1>23 DEF BufferOutput
<1>24. CASE \E full \in BOOLEAN : SilentOutput(c, full)
  BY <1>24 DEF SilentOutput
<1>25. CASE \E full \in BOOLEAN : SendOutput(c, full)
  BY <1>25 DEF SendOutput, Backpressure, Closing
<1>26. CASE MobileClientDetached(c) BY <1>26 DEF MobileClientDetached
<1> QED BY <1>1, <1>2, <1>3, <1>4, <1>5, <1>6, <1>7, <1>8, <1>9, <1>10, <1>11,
           <1>12, <1>13, <1>14, <1>15, <1>16, <1>17, <1>18, <1>19, <1>20,
           <1>21, <1>22, <1>23, <1>24, <1>25, <1>26 DEF Step

LEMMA TickIsGrownKept ==
  ASSUME TypeOK, TickIsGrown, LeaseIsGrown, AttachInStep, NewIsUntouched,
         NEW c \in Sockets, Step(c)
  PROVE  TickIsGrown'
<1> USE DEF TypeOK, Grown, OwnSteps, TickIsGrown, LeaseIsGrown, AttachInStep,
          NewIsUntouched, Current
<1> SUFFICES ASSUME NEW x \in Sockets, attach'[x] = "tick"
             PROVE  Grown(resuming[x])'
  OBVIOUS
<1>1. CASE Claiming(c) BY <1>1, ClaimingLeaves
<1>2. CASE ParkingReturns(c) BY <1>2 DEF ParkingReturns
<1>3. CASE Closes(c) BY <1>3 DEF Closes, TransportGone
<1>4. CASE TimerFires(c) BY <1>4 DEF TimerFires, Finalize
<1>5. CASE \E s \in Sockets : EvictNext(c, s)
  BY <1>5 DEF EvictNext, Evicting, Evictable, Finalize
<1>6. CASE Detach(c) BY <1>6 DEF Detach, Finalize
<1>7. CASE PtyExits(c) BY <1>7 DEF PtyExits, Finalize
<1>8. CASE RetryPrepare(c)
  <2>1. /\ attach[c] \in {"evicting", "evicted"}
        /\ attach' = [attach EXCEPT ![c] = attach'[c]]
        /\ attach'[c] \in {"spawning", "failing"}
        /\ UNCHANGED <<st, resuming>>
    BY <1>8 DEF RetryPrepare, Prepare, Evicting
  <2>2. x # c /\ attach[x] = "tick" BY <2>1
  <2>3. resuming[x] \in Sockets /\ Grown(resuming[x]) BY <2>2
  <2>4. resuming[x] # c BY <2>1, <2>3
  <2> QED BY <2>1, <2>3, <2>4
<1>9. CASE SpawnPty(c)
  <2>1. /\ attach[c] = "spawning" /\ attach' = [attach EXCEPT ![c] = attach'[c]]
        /\ attach'[c] \in {"connecting", "failing"}
        /\ UNCHANGED <<st, resuming>>
    BY <1>9 DEF SpawnPty
  <2>2. x # c /\ attach[x] = "tick" BY <2>1
  <2>3. resuming[x] \in Sockets /\ Grown(resuming[x]) BY <2>2
  <2>4. resuming[x] # c BY <2>1, <2>3
  <2> QED BY <2>1, <2>3, <2>4
<1>10. CASE AttachReturns(c)
  <2>1. CASE AttachStale(c) BY <1>10, <2>1 DEF AttachReturns, AttachStale
  <2>2. CASE AttachServed(c) /\ ReplaySent(c, c, {})
    BY <1>10, <2>2 DEF AttachReturns, AttachServed, Replay, ReplaySent
  <2>3. CASE AttachServed(c) /\ ReplayCut(c, c)
    BY <1>10, <2>3 DEF AttachReturns, AttachServed, Replay, ReplayCut
  <2>4. CASE AttachServed(c) /\ ReplayUnheard(c, c)
    BY <1>10, <2>4 DEF AttachReturns, AttachServed, Replay, ReplayUnheard
  <2>5. CASE AttachUnserved(c)
    BY <1>10, <2>5 DEF AttachReturns, AttachUnserved
  <2>6. CASE AttachRefused(c) BY <1>10, <2>6 DEF AttachReturns, AttachRefused
  <2> QED
    BY <1>10, <2>1, <2>2, <2>3, <2>4, <2>5, <2>6 DEF AttachReturns,
       AttachServed, Replay
<1>11. CASE ReturnDone(c) BY <1>11 DEF ReturnDone
<1>12. CASE AttachFailed(c) BY <1>12 DEF AttachFailed
<1>13. CASE ResumeSwap(c) BY <1>13 DEF ResumeSwap, IsAttachedOrParked, Closing
<1>14. CASE ResumeAbandoned(c) BY <1>14 DEF ResumeAbandoned
<1>15. CASE ResumeResized(c)
  BY <1>15 DEF ResumeResized, Replay, ReplaySent, ReplayCut, Closing,
     ReplayUnheard
<1>16. CASE ResumeFails(c) BY <1>16 DEF ResumeFails, Closing
<1>17. CASE FinalizeKilled(c) BY <1>17 DEF FinalizeKilled
<1>18. CASE FinalizeDone(c) BY <1>18 DEF FinalizeDone, Closing
<1>19. CASE Connect(c) BY <1>19 DEF Connect
<1>20. CASE \E t \in Targets : AttachFresh(c, t)
  BY <1>20 DEF AttachFresh, AttachFrame, Prepare
<1>21. CASE \E s \in Sockets : AttachResume(c, s)
  BY <1>21 DEF AttachResume, AttachFrame, IsAttachedOrParked
<1>22. CASE FrameDropped(c) BY <1>22 DEF FrameDropped, Backpressure, Closing
<1>23. CASE \E full \in BOOLEAN : BufferOutput(c, full)
  BY <1>23 DEF BufferOutput
<1>24. CASE \E full \in BOOLEAN : SilentOutput(c, full)
  BY <1>24 DEF SilentOutput
<1>25. CASE \E full \in BOOLEAN : SendOutput(c, full)
  BY <1>25 DEF SendOutput, Backpressure, Closing
<1>26. CASE MobileClientDetached(c) BY <1>26 DEF MobileClientDetached
<1> QED BY <1>1, <1>2, <1>3, <1>4, <1>5, <1>6, <1>7, <1>8, <1>9, <1>10, <1>11,
           <1>12, <1>13, <1>14, <1>15, <1>16, <1>17, <1>18, <1>19, <1>20,
           <1>21, <1>22, <1>23, <1>24, <1>25, <1>26 DEF Step

LEMMA GrownHasLeaseKept ==
  ASSUME TypeOK, UnbornIsNew, NewIsUntouched, GrownHasLease, ResumeIsGrown,
         AttachInStep, FinalizingIsClosed,
         NEW c \in Sockets, Step(c)
  PROVE  GrownHasLease'
<1> USE DEF TypeOK, UnbornIsNew, NewIsUntouched, Grown, OwnSteps,
          GrownHasLease, ResumeIsGrown, AttachInStep, FinalizingIsClosed,
          Current
<1> SUFFICES ASSUME NEW x \in Sockets, Grown(x)', st'[x] # "closed"
             PROVE  x \in lease'
  OBVIOUS
<1>1. CASE Claiming(c) BY <1>1, ClaimingLeaves
<1>2. CASE ParkingReturns(c) BY <1>2 DEF ParkingReturns
<1>3. CASE Closes(c)
  <2>1. /\ Grown(x)' => Grown(x)
        /\ st'[x] # "closed" => st[x] # "closed"
        /\ UNCHANGED lease
    BY <1>3 DEF Closes, TransportGone
  <2> QED BY <2>1
<1>4. CASE TimerFires(c) BY <1>4 DEF TimerFires, Finalize
<1>5. CASE \E s \in Sockets : EvictNext(c, s)
  BY <1>5 DEF EvictNext, Evicting, Evictable, Finalize
<1>6. CASE Detach(c) BY <1>6 DEF Detach, Finalize
<1>7. CASE PtyExits(c) BY <1>7 DEF PtyExits, Finalize
<1>8. CASE RetryPrepare(c) BY <1>8 DEF RetryPrepare, Prepare, Evicting
<1>9. CASE SpawnPty(c) BY <1>9 DEF SpawnPty
<1>10. CASE AttachReturns(c)
  BY <1>10 DEF AttachReturns, AttachStale, AttachServed, Replay, ReplaySent,
     ReplayCut, Closing, ReplayUnheard, AttachUnserved, AttachRefused
<1>11. CASE ReturnDone(c) BY <1>11 DEF ReturnDone
<1>12. CASE AttachFailed(c) BY <1>12 DEF AttachFailed
<1>13. CASE ResumeSwap(c) BY <1>13 DEF ResumeSwap, IsAttachedOrParked, Closing
<1>14. CASE ResumeAbandoned(c) BY <1>14 DEF ResumeAbandoned
<1>15. CASE ResumeResized(c)
  BY <1>15 DEF ResumeResized, Replay, ReplaySent, ReplayCut, Closing,
     ReplayUnheard
<1>16. CASE ResumeFails(c) BY <1>16 DEF ResumeFails, Closing
<1>17. CASE FinalizeKilled(c) BY <1>17 DEF FinalizeKilled
<1>18. CASE FinalizeDone(c) BY <1>18 DEF FinalizeDone, Closing
<1>19. CASE Connect(c) BY <1>19 DEF Connect
<1>20. CASE \E t \in Targets : AttachFresh(c, t)
  BY <1>20 DEF AttachFresh, AttachFrame, Prepare
<1>21. CASE \E s \in Sockets : AttachResume(c, s)
  BY <1>21 DEF AttachResume, AttachFrame, IsAttachedOrParked
<1>22. CASE FrameDropped(c) BY <1>22 DEF FrameDropped, Backpressure, Closing
<1>23. CASE \E full \in BOOLEAN : BufferOutput(c, full)
  BY <1>23 DEF BufferOutput
<1>24. CASE \E full \in BOOLEAN : SilentOutput(c, full)
  BY <1>24 DEF SilentOutput
<1>25. CASE \E full \in BOOLEAN : SendOutput(c, full)
  BY <1>25 DEF SendOutput, Backpressure, Closing
<1>26. CASE MobileClientDetached(c) BY <1>26 DEF MobileClientDetached
<1> QED BY <1>1, <1>2, <1>3, <1>4, <1>5, <1>6, <1>7, <1>8, <1>9, <1>10, <1>11,
           <1>12, <1>13, <1>14, <1>15, <1>16, <1>17, <1>18, <1>19, <1>20,
           <1>21, <1>22, <1>23, <1>24, <1>25, <1>26 DEF Step

LEMMA ReleasedHasNoneKept ==
  ASSUME TypeOK, ReleasedHasNone, LeaseIsGrown, FinalizingIsClosed,
         AttachInStep,
         NEW c \in Sockets, Step(c)
  PROVE  ReleasedHasNone'
<1> USE DEF TypeOK, Grown, OwnSteps, ReleasedHasNone, LeaseIsGrown,
          FinalizingIsClosed, AttachInStep, Current
<1>1. CASE Claiming(c) BY <1>1, ClaimingLeaves
<1>2. CASE ParkingReturns(c) BY <1>2 DEF ParkingReturns
<1>3. CASE Closes(c) BY <1>3 DEF Closes, TransportGone
<1>4. CASE TimerFires(c) BY <1>4 DEF TimerFires, Finalize
<1>5. CASE \E s \in Sockets : EvictNext(c, s)
  BY <1>5 DEF EvictNext, Evicting, Evictable, Finalize
<1>6. CASE Detach(c) BY <1>6 DEF Detach, Finalize
<1>7. CASE PtyExits(c) BY <1>7 DEF PtyExits, Finalize
<1>8. CASE RetryPrepare(c) BY <1>8 DEF RetryPrepare, Prepare, Evicting
<1>9. CASE SpawnPty(c) BY <1>9 DEF SpawnPty
<1>10. CASE AttachReturns(c)
  BY <1>10 DEF AttachReturns, AttachStale, AttachServed, Replay, ReplaySent,
     ReplayCut, Closing, ReplayUnheard, AttachUnserved, AttachRefused
<1>11. CASE ReturnDone(c) BY <1>11 DEF ReturnDone
<1>12. CASE AttachFailed(c) BY <1>12 DEF AttachFailed
<1>13. CASE ResumeSwap(c) BY <1>13 DEF ResumeSwap, IsAttachedOrParked, Closing
<1>14. CASE ResumeAbandoned(c) BY <1>14 DEF ResumeAbandoned
<1>15. CASE ResumeResized(c)
  BY <1>15 DEF ResumeResized, Replay, ReplaySent, ReplayCut, Closing,
     ReplayUnheard
<1>16. CASE ResumeFails(c) BY <1>16 DEF ResumeFails, Closing
<1>17. CASE FinalizeKilled(c) BY <1>17 DEF FinalizeKilled
<1>18. CASE FinalizeDone(c) BY <1>18 DEF FinalizeDone, Closing
<1>19. CASE Connect(c) BY <1>19 DEF Connect
<1>20. CASE \E t \in Targets : AttachFresh(c, t)
  BY <1>20 DEF AttachFresh, AttachFrame, Prepare
<1>21. CASE \E s \in Sockets : AttachResume(c, s)
  BY <1>21 DEF AttachResume, AttachFrame, IsAttachedOrParked
<1>22. CASE FrameDropped(c) BY <1>22 DEF FrameDropped, Backpressure, Closing
<1>23. CASE \E full \in BOOLEAN : BufferOutput(c, full)
  BY <1>23 DEF BufferOutput
<1>24. CASE \E full \in BOOLEAN : SilentOutput(c, full)
  BY <1>24 DEF SilentOutput
<1>25. CASE \E full \in BOOLEAN : SendOutput(c, full)
  BY <1>25 DEF SendOutput, Backpressure, Closing
<1>26. CASE MobileClientDetached(c) BY <1>26 DEF MobileClientDetached
<1> QED BY <1>1, <1>2, <1>3, <1>4, <1>5, <1>6, <1>7, <1>8, <1>9, <1>10, <1>11,
           <1>12, <1>13, <1>14, <1>15, <1>16, <1>17, <1>18, <1>19, <1>20,
           <1>21, <1>22, <1>23, <1>24, <1>25, <1>26 DEF Step

LEMMA RegistryIsGrownKept ==
  ASSUME TypeOK, NewIsUntouched, RegistryIsGrown, AttachInStep, ResumeIsGrown,
         FinalizingIsClosed,
         NEW c \in Sockets, Step(c)
  PROVE  RegistryIsGrown'
<1> USE DEF TypeOK, Grown, OwnSteps, NewIsUntouched, RegistryIsGrown,
          AttachInStep, ResumeIsGrown, FinalizingIsClosed, Current
<1>1. CASE Claiming(c) BY <1>1, ClaimingLeaves
<1>2. CASE ParkingReturns(c) BY <1>2 DEF ParkingReturns
<1>3. CASE Closes(c) BY <1>3 DEF Closes, TransportGone
<1>4. CASE TimerFires(c) BY <1>4 DEF TimerFires, Finalize
<1>5. CASE \E s \in Sockets : EvictNext(c, s)
  BY <1>5 DEF EvictNext, Evicting, Evictable, Finalize
<1>6. CASE Detach(c) BY <1>6 DEF Detach, Finalize
<1>7. CASE PtyExits(c) BY <1>7 DEF PtyExits, Finalize
<1>8. CASE RetryPrepare(c) BY <1>8 DEF RetryPrepare, Prepare, Evicting
<1>9. CASE SpawnPty(c) BY <1>9 DEF SpawnPty
<1>10. CASE AttachReturns(c)
  BY <1>10 DEF AttachReturns, AttachStale, AttachServed, Replay, ReplaySent,
     ReplayCut, Closing, ReplayUnheard, AttachUnserved, AttachRefused
<1>11. CASE ReturnDone(c) BY <1>11 DEF ReturnDone
<1>12. CASE AttachFailed(c) BY <1>12 DEF AttachFailed
<1>13. CASE ResumeSwap(c) BY <1>13 DEF ResumeSwap, IsAttachedOrParked, Closing
<1>14. CASE ResumeAbandoned(c) BY <1>14 DEF ResumeAbandoned
<1>15. CASE ResumeResized(c)
  BY <1>15 DEF ResumeResized, Replay, ReplaySent, ReplayCut, Closing,
     ReplayUnheard
<1>16. CASE ResumeFails(c) BY <1>16 DEF ResumeFails, Closing
<1>17. CASE FinalizeKilled(c) BY <1>17 DEF FinalizeKilled
<1>18. CASE FinalizeDone(c) BY <1>18 DEF FinalizeDone, Closing
<1>19. CASE Connect(c) BY <1>19 DEF Connect
<1>20. CASE \E t \in Targets : AttachFresh(c, t)
  BY <1>20 DEF AttachFresh, AttachFrame, Prepare
<1>21. CASE \E s \in Sockets : AttachResume(c, s)
  BY <1>21 DEF AttachResume, AttachFrame, IsAttachedOrParked
<1>22. CASE FrameDropped(c) BY <1>22 DEF FrameDropped, Backpressure, Closing
<1>23. CASE \E full \in BOOLEAN : BufferOutput(c, full)
  BY <1>23 DEF BufferOutput
<1>24. CASE \E full \in BOOLEAN : SilentOutput(c, full)
  BY <1>24 DEF SilentOutput
<1>25. CASE \E full \in BOOLEAN : SendOutput(c, full)
  BY <1>25 DEF SendOutput, Backpressure, Closing
<1>26. CASE MobileClientDetached(c) BY <1>26 DEF MobileClientDetached
<1> QED BY <1>1, <1>2, <1>3, <1>4, <1>5, <1>6, <1>7, <1>8, <1>9, <1>10, <1>11,
           <1>12, <1>13, <1>14, <1>15, <1>16, <1>17, <1>18, <1>19, <1>20,
           <1>21, <1>22, <1>23, <1>24, <1>25, <1>26 DEF Step

LEMMA RecordIsHeldKept ==
  ASSUME TypeOK, RecordIsHeld, LeaseIsGrown, AttachInStep, GrownHasLease,
         ResumerIsFresh,
         NEW c \in Sockets, Step(c)
  PROVE  RecordIsHeld'
<1> USE DEF TypeOK, Grown, OwnSteps, RecordIsHeld, LeaseIsGrown, AttachInStep,
          GrownHasLease, ResumerIsFresh, Current
<1>1. CASE Claiming(c) BY <1>1, ClaimingLeaves
<1>2. CASE ParkingReturns(c) BY <1>2 DEF ParkingReturns
<1>3. CASE Closes(c) BY <1>3 DEF Closes, TransportGone
<1>4. CASE TimerFires(c) BY <1>4 DEF TimerFires, Finalize
<1>5. CASE \E s \in Sockets : EvictNext(c, s)
  BY <1>5 DEF EvictNext, Evicting, Evictable, Finalize
<1>6. CASE Detach(c) BY <1>6 DEF Detach, Finalize
<1>7. CASE PtyExits(c) BY <1>7 DEF PtyExits, Finalize
<1>8. CASE RetryPrepare(c) BY <1>8 DEF RetryPrepare, Prepare, Evicting
<1>9. CASE SpawnPty(c) BY <1>9 DEF SpawnPty
<1>10. CASE AttachReturns(c)
  BY <1>10 DEF AttachReturns, AttachStale, AttachServed, Replay, ReplaySent,
     ReplayCut, Closing, ReplayUnheard, AttachUnserved, AttachRefused
<1>11. CASE ReturnDone(c) BY <1>11 DEF ReturnDone
<1>12. CASE AttachFailed(c) BY <1>12 DEF AttachFailed
<1>13. CASE ResumeSwap(c) BY <1>13 DEF ResumeSwap, IsAttachedOrParked, Closing
<1>14. CASE ResumeAbandoned(c) BY <1>14 DEF ResumeAbandoned
<1>15. CASE ResumeResized(c)
  BY <1>15 DEF ResumeResized, Replay, ReplaySent, ReplayCut, Closing,
     ReplayUnheard
<1>16. CASE ResumeFails(c) BY <1>16 DEF ResumeFails, Closing
<1>17. CASE FinalizeKilled(c) BY <1>17 DEF FinalizeKilled
<1>18. CASE FinalizeDone(c) BY <1>18 DEF FinalizeDone, Closing
<1>19. CASE Connect(c) BY <1>19 DEF Connect
<1>20. CASE \E t \in Targets : AttachFresh(c, t)
  BY <1>20 DEF AttachFresh, AttachFrame, Prepare
<1>21. CASE \E s \in Sockets : AttachResume(c, s)
  BY <1>21 DEF AttachResume, AttachFrame, IsAttachedOrParked
<1>22. CASE FrameDropped(c) BY <1>22 DEF FrameDropped, Backpressure, Closing
<1>23. CASE \E full \in BOOLEAN : BufferOutput(c, full)
  BY <1>23 DEF BufferOutput
<1>24. CASE \E full \in BOOLEAN : SilentOutput(c, full)
  BY <1>24 DEF SilentOutput
<1>25. CASE \E full \in BOOLEAN : SendOutput(c, full)
  BY <1>25 DEF SendOutput, Backpressure, Closing
<1>26. CASE MobileClientDetached(c) BY <1>26 DEF MobileClientDetached
<1> QED BY <1>1, <1>2, <1>3, <1>4, <1>5, <1>6, <1>7, <1>8, <1>9, <1>10, <1>11,
           <1>12, <1>13, <1>14, <1>15, <1>16, <1>17, <1>18, <1>19, <1>20,
           <1>21, <1>22, <1>23, <1>24, <1>25, <1>26 DEF Step

LEMMA BoundIsLastKept ==
  ASSUME TypeOK, BoundIsLast, NewIsUntouched, TickIsGrown,
         NEW c \in Sockets, Step(c)
  PROVE  BoundIsLast'
<1> USE DEF TypeOK, Grown, Current, BoundIsLast, NewIsUntouched, TickIsGrown
<1>1. CASE Claiming(c) BY <1>1, ClaimingLeaves
<1>2. CASE ParkingReturns(c) BY <1>2 DEF ParkingReturns
<1>3. CASE Closes(c) BY <1>3 DEF Closes, TransportGone
<1>4. CASE TimerFires(c) BY <1>4 DEF TimerFires, Finalize
<1>5. CASE \E s \in Sockets : EvictNext(c, s)
  BY <1>5 DEF EvictNext, Evicting, Evictable, Finalize
<1>6. CASE Detach(c) BY <1>6 DEF Detach, Finalize
<1>7. CASE PtyExits(c) BY <1>7 DEF PtyExits, Finalize
<1>8. CASE RetryPrepare(c) BY <1>8 DEF RetryPrepare, Prepare, Evicting
<1>9. CASE SpawnPty(c) BY <1>9 DEF SpawnPty
<1>10. CASE AttachReturns(c)
  BY <1>10 DEF AttachReturns, AttachStale, AttachServed, Replay, ReplaySent,
     ReplayCut, Closing, ReplayUnheard, AttachUnserved, AttachRefused
<1>11. CASE ReturnDone(c) BY <1>11 DEF ReturnDone
<1>12. CASE AttachFailed(c) BY <1>12 DEF AttachFailed
<1>13. CASE ResumeSwap(c) BY <1>13 DEF ResumeSwap, IsAttachedOrParked, Closing
<1>14. CASE ResumeAbandoned(c) BY <1>14 DEF ResumeAbandoned
<1>15. CASE ResumeResized(c)
  BY <1>15 DEF ResumeResized, Replay, ReplaySent, ReplayCut, Closing,
     ReplayUnheard
<1>16. CASE ResumeFails(c) BY <1>16 DEF ResumeFails, Closing
<1>17. CASE FinalizeKilled(c) BY <1>17 DEF FinalizeKilled
<1>18. CASE FinalizeDone(c) BY <1>18 DEF FinalizeDone, Closing
<1>19. CASE Connect(c) BY <1>19 DEF Connect
<1>20. CASE \E t \in Targets : AttachFresh(c, t)
  BY <1>20 DEF AttachFresh, AttachFrame, Prepare
<1>21. CASE \E s \in Sockets : AttachResume(c, s)
  BY <1>21 DEF AttachResume, AttachFrame, IsAttachedOrParked
<1>22. CASE FrameDropped(c) BY <1>22 DEF FrameDropped, Backpressure, Closing
<1>23. CASE \E full \in BOOLEAN : BufferOutput(c, full)
  BY <1>23 DEF BufferOutput
<1>24. CASE \E full \in BOOLEAN : SilentOutput(c, full)
  BY <1>24 DEF SilentOutput
<1>25. CASE \E full \in BOOLEAN : SendOutput(c, full)
  BY <1>25 DEF SendOutput, Backpressure, Closing
<1>26. CASE MobileClientDetached(c) BY <1>26 DEF MobileClientDetached
<1> QED BY <1>1, <1>2, <1>3, <1>4, <1>5, <1>6, <1>7, <1>8, <1>9, <1>10, <1>11,
           <1>12, <1>13, <1>14, <1>15, <1>16, <1>17, <1>18, <1>19, <1>20,
           <1>21, <1>22, <1>23, <1>24, <1>25, <1>26 DEF Step

LEMMA ParkingIsGoneKept ==
  ASSUME TypeOK, ParkingIsGone,
         NEW c \in Sockets, Step(c)
  PROVE  ParkingIsGone'
<1> USE DEF TypeOK, Current, ParkingIsGone
<1>1. CASE Claiming(c) BY <1>1, ClaimingLeaves
<1>2. CASE ParkingReturns(c) BY <1>2 DEF ParkingReturns
<1>3. CASE Closes(c) BY <1>3 DEF Closes, TransportGone
<1>4. CASE TimerFires(c) BY <1>4 DEF TimerFires, Finalize
<1>5. CASE \E s \in Sockets : EvictNext(c, s)
  BY <1>5 DEF EvictNext, Evicting, Evictable, Finalize
<1>6. CASE Detach(c) BY <1>6 DEF Detach, Finalize
<1>7. CASE PtyExits(c) BY <1>7 DEF PtyExits, Finalize
<1>8. CASE RetryPrepare(c) BY <1>8 DEF RetryPrepare, Prepare, Evicting
<1>9. CASE SpawnPty(c) BY <1>9 DEF SpawnPty
<1>10. CASE AttachReturns(c)
  BY <1>10 DEF AttachReturns, AttachStale, AttachServed, Replay, ReplaySent,
     ReplayCut, Closing, ReplayUnheard, AttachUnserved, AttachRefused
<1>11. CASE ReturnDone(c) BY <1>11 DEF ReturnDone
<1>12. CASE AttachFailed(c) BY <1>12 DEF AttachFailed
<1>13. CASE ResumeSwap(c) BY <1>13 DEF ResumeSwap, IsAttachedOrParked, Closing
<1>14. CASE ResumeAbandoned(c) BY <1>14 DEF ResumeAbandoned
<1>15. CASE ResumeResized(c)
  BY <1>15 DEF ResumeResized, Replay, ReplaySent, ReplayCut, Closing,
     ReplayUnheard
<1>16. CASE ResumeFails(c) BY <1>16 DEF ResumeFails, Closing
<1>17. CASE FinalizeKilled(c) BY <1>17 DEF FinalizeKilled
<1>18. CASE FinalizeDone(c) BY <1>18 DEF FinalizeDone, Closing
<1>19. CASE Connect(c) BY <1>19 DEF Connect
<1>20. CASE \E t \in Targets : AttachFresh(c, t)
  BY <1>20 DEF AttachFresh, AttachFrame, Prepare
<1>21. CASE \E s \in Sockets : AttachResume(c, s)
  BY <1>21 DEF AttachResume, AttachFrame, IsAttachedOrParked
<1>22. CASE FrameDropped(c) BY <1>22 DEF FrameDropped, Backpressure, Closing
<1>23. CASE \E full \in BOOLEAN : BufferOutput(c, full)
  BY <1>23 DEF BufferOutput
<1>24. CASE \E full \in BOOLEAN : SilentOutput(c, full)
  BY <1>24 DEF SilentOutput
<1>25. CASE \E full \in BOOLEAN : SendOutput(c, full)
  BY <1>25 DEF SendOutput, Backpressure, Closing
<1>26. CASE MobileClientDetached(c) BY <1>26 DEF MobileClientDetached
<1> QED BY <1>1, <1>2, <1>3, <1>4, <1>5, <1>6, <1>7, <1>8, <1>9, <1>10, <1>11,
           <1>12, <1>13, <1>14, <1>15, <1>16, <1>17, <1>18, <1>19, <1>20,
           <1>21, <1>22, <1>23, <1>24, <1>25, <1>26 DEF Step

LEMMA ReadyIsGrownKept ==
  ASSUME TypeOK, NewIsUntouched, ReadyIsGrown, ResumeIsGrown, AttachInStep,
         NEW c \in Sockets, Step(c)
  PROVE  ReadyIsGrown'
<1> USE DEF TypeOK, Grown, Current, OwnSteps, NewIsUntouched, ReadyIsGrown,
          ResumeIsGrown, AttachInStep
<1> SUFFICES ASSUME NEW x \in Sockets, ready'[x] # None
             PROVE  Grown(ready[x])' /\ sock'[x] # "new"
  OBVIOUS
<1>1. CASE Claiming(c) BY <1>1, ClaimingLeaves
<1>2. CASE ParkingReturns(c) BY <1>2 DEF ParkingReturns
<1>3. CASE Closes(c) BY <1>3 DEF Closes, TransportGone
<1>4. CASE TimerFires(c) BY <1>4 DEF TimerFires, Finalize
<1>5. CASE \E s \in Sockets : EvictNext(c, s)
  BY <1>5 DEF EvictNext, Evicting, Evictable, Finalize
<1>6. CASE Detach(c) BY <1>6 DEF Detach, Finalize
<1>7. CASE PtyExits(c) BY <1>7 DEF PtyExits, Finalize
<1>8. CASE RetryPrepare(c) BY <1>8 DEF RetryPrepare, Prepare, Evicting
<1>9. CASE SpawnPty(c)
  <2>1. attach[c] = "spawning" /\ attach' = [attach EXCEPT ![c] = attach'[c]]
          /\ UNCHANGED <<st, ready, sock>>
    BY <1>9 DEF SpawnPty
  <2>2. ready[x] \in Sockets /\ Grown(ready[x]) /\ sock[x] # "new" BY <2>1
  <2>3. ready[x] # c BY <2>1, <2>2
  <2> QED BY <2>1, <2>2, <2>3
<1>10. CASE AttachReturns(c)
  <2>1. CASE AttachStale(c) BY <1>10, <2>1 DEF AttachReturns, AttachStale
  <2>2. CASE AttachServed(c) /\ ReplaySent(c, c, {})
    BY <1>10, <2>2 DEF AttachReturns, AttachServed, Replay, ReplaySent
  <2>3. CASE AttachServed(c) /\ ReplayCut(c, c)
    BY <1>10, <2>3 DEF AttachReturns, AttachServed, Replay, ReplayCut, Closing
  <2>4. CASE AttachServed(c) /\ ReplayUnheard(c, c)
    BY <1>10, <2>4 DEF AttachReturns, AttachServed, Replay, ReplayUnheard
  <2>5. CASE AttachUnserved(c)
    BY <1>10, <2>5 DEF AttachReturns, AttachUnserved
  <2>6. CASE AttachRefused(c) BY <1>10, <2>6 DEF AttachReturns, AttachRefused
  <2> QED
    BY <1>10, <2>1, <2>2, <2>3, <2>4, <2>5, <2>6 DEF AttachReturns,
       AttachServed, Replay
<1>11. CASE ReturnDone(c) BY <1>11 DEF ReturnDone
<1>12. CASE AttachFailed(c) BY <1>12 DEF AttachFailed
<1>13. CASE ResumeSwap(c) BY <1>13 DEF ResumeSwap, IsAttachedOrParked, Closing
<1>14. CASE ResumeAbandoned(c) BY <1>14 DEF ResumeAbandoned
<1>15. CASE ResumeResized(c)
  BY <1>15 DEF ResumeResized, Replay, ReplaySent, ReplayCut, Closing,
     ReplayUnheard
<1>16. CASE ResumeFails(c) BY <1>16 DEF ResumeFails, Closing
<1>17. CASE FinalizeKilled(c) BY <1>17 DEF FinalizeKilled
<1>18. CASE FinalizeDone(c) BY <1>18 DEF FinalizeDone, Closing
<1>19. CASE Connect(c) BY <1>19 DEF Connect
<1>20. CASE \E t \in Targets : AttachFresh(c, t)
  BY <1>20 DEF AttachFresh, AttachFrame, Prepare
<1>21. CASE \E s \in Sockets : AttachResume(c, s)
  BY <1>21 DEF AttachResume, AttachFrame, IsAttachedOrParked
<1>22. CASE FrameDropped(c) BY <1>22 DEF FrameDropped, Backpressure, Closing
<1>23. CASE \E full \in BOOLEAN : BufferOutput(c, full)
  BY <1>23 DEF BufferOutput
<1>24. CASE \E full \in BOOLEAN : SilentOutput(c, full)
  BY <1>24 DEF SilentOutput
<1>25. CASE \E full \in BOOLEAN : SendOutput(c, full)
  BY <1>25 DEF SendOutput, Backpressure, Closing
<1>26. CASE MobileClientDetached(c) BY <1>26 DEF MobileClientDetached
<1> QED BY <1>1, <1>2, <1>3, <1>4, <1>5, <1>6, <1>7, <1>8, <1>9, <1>10, <1>11,
           <1>12, <1>13, <1>14, <1>15, <1>16, <1>17, <1>18, <1>19, <1>20,
           <1>21, <1>22, <1>23, <1>24, <1>25, <1>26 DEF Step

LEMMA ServedIsBoundKept ==
  ASSUME TypeOK, ServedIsBound, ReadyIsGrown, NewIsUntouched, TickIsQuiet,
         OwnUntilGrown, FinalizingIsClosed,
         NEW c \in Sockets, Step(c)
  PROVE  ServedIsBound'
<1> USE DEF TypeOK, Grown, Current, OwnSteps, ServedIsBound, ReadyIsGrown,
          NewIsUntouched, TickIsQuiet, OwnUntilGrown, FinalizingIsClosed
<1> SUFFICES ASSUME NEW x \in Sockets, ready'[x] # None, sock'[x] = "open",
                    (st[ready[x]] # "closed")'
             PROVE  (bound[ready[x]])' = x
  OBVIOUS
<1>1. CASE Claiming(c) BY <1>1, ClaimingLeaves
<1>2. CASE ParkingReturns(c) BY <1>2 DEF ParkingReturns
<1>3. CASE Closes(c) BY <1>3 DEF Closes, TransportGone
<1>4. CASE TimerFires(c) BY <1>4 DEF TimerFires, Finalize
<1>5. CASE \E s \in Sockets : EvictNext(c, s)
  BY <1>5 DEF EvictNext, Evicting, Evictable, Finalize
<1>6. CASE Detach(c) BY <1>6 DEF Detach, Finalize
<1>7. CASE PtyExits(c) BY <1>7 DEF PtyExits, Finalize
<1>8. CASE RetryPrepare(c) BY <1>8 DEF RetryPrepare, Prepare, Evicting
<1>9. CASE SpawnPty(c) BY <1>9 DEF SpawnPty
<1>10. CASE AttachReturns(c)
  BY <1>10 DEF AttachReturns, AttachStale, AttachServed, Replay, ReplaySent,
     ReplayCut, Closing, ReplayUnheard, AttachUnserved, AttachRefused
<1>11. CASE ReturnDone(c) BY <1>11 DEF ReturnDone
<1>12. CASE AttachFailed(c) BY <1>12 DEF AttachFailed
<1>13. CASE ResumeSwap(c) BY <1>13 DEF ResumeSwap, IsAttachedOrParked, Closing
<1>14. CASE ResumeAbandoned(c) BY <1>14 DEF ResumeAbandoned
<1>15. CASE ResumeResized(c)
  BY <1>15 DEF ResumeResized, Replay, ReplaySent, ReplayCut, Closing,
     ReplayUnheard
<1>16. CASE ResumeFails(c) BY <1>16 DEF ResumeFails, Closing
<1>17. CASE FinalizeKilled(c) BY <1>17 DEF FinalizeKilled
<1>18. CASE FinalizeDone(c) BY <1>18 DEF FinalizeDone, Closing
<1>19. CASE Connect(c) BY <1>19 DEF Connect
<1>20. CASE \E t \in Targets : AttachFresh(c, t)
  BY <1>20 DEF AttachFresh, AttachFrame, Prepare
<1>21. CASE \E s \in Sockets : AttachResume(c, s)
  BY <1>21 DEF AttachResume, AttachFrame, IsAttachedOrParked
<1>22. CASE FrameDropped(c) BY <1>22 DEF FrameDropped, Backpressure, Closing
<1>23. CASE \E full \in BOOLEAN : BufferOutput(c, full)
  BY <1>23 DEF BufferOutput
<1>24. CASE \E full \in BOOLEAN : SilentOutput(c, full)
  BY <1>24 DEF SilentOutput
<1>25. CASE \E full \in BOOLEAN : SendOutput(c, full)
  BY <1>25 DEF SendOutput, Backpressure, Closing
<1>26. CASE MobileClientDetached(c) BY <1>26 DEF MobileClientDetached
<1> QED BY <1>1, <1>2, <1>3, <1>4, <1>5, <1>6, <1>7, <1>8, <1>9, <1>10, <1>11,
           <1>12, <1>13, <1>14, <1>15, <1>16, <1>17, <1>18, <1>19, <1>20,
           <1>21, <1>22, <1>23, <1>24, <1>25, <1>26 DEF Step

LEMMA ParkedHasExitKept ==
  ASSUME TypeOK, ParkedHasExit, BoundIsLast, AttachInStep, FinalizingIsClosed,
         ResumerIsFresh, BoundToResumed, ParkingIsGone,
         NEW c \in Sockets, Step(c)
  PROVE  ParkedHasExit'
<1> USE DEF TypeOK, Grown, Current, OwnSteps, ParkedHasExit, BoundIsLast,
          AttachInStep, FinalizingIsClosed, ResumerIsFresh, BoundToResumed,
          ParkingIsGone
<1> SUFFICES ASSUME NEW x \in Sockets, st'[x] = "parked",
                    x \notin timer', bound'[x] = None, attach'[x] = "idle"
             PROVE  \E z \in Sockets : parking'[z] = x /\ last'[x] = z
  OBVIOUS
<1>1. CASE Claiming(c) BY <1>1, ClaimingLeaves
<1>2. CASE ParkingReturns(c) BY <1>2 DEF ParkingReturns
<1>3. CASE Closes(c) BY <1>3 DEF Closes, TransportGone
<1>4. CASE TimerFires(c) BY <1>4 DEF TimerFires, Finalize
<1>5. CASE \E s \in Sockets : EvictNext(c, s)
  BY <1>5 DEF EvictNext, Evicting, Evictable, Finalize
<1>6. CASE Detach(c) BY <1>6 DEF Detach, Finalize
<1>7. CASE PtyExits(c) BY <1>7 DEF PtyExits, Finalize
<1>8. CASE RetryPrepare(c) BY <1>8 DEF RetryPrepare, Prepare, Evicting
<1>9. CASE SpawnPty(c) BY <1>9 DEF SpawnPty
<1>10. CASE AttachReturns(c)
  BY <1>10 DEF AttachReturns, AttachStale, AttachServed, Replay, ReplaySent,
     ReplayCut, Closing, ReplayUnheard, AttachUnserved, AttachRefused
<1>11. CASE ReturnDone(c) BY <1>11 DEF ReturnDone
<1>12. CASE AttachFailed(c) BY <1>12 DEF AttachFailed
<1>13. CASE ResumeSwap(c) BY <1>13 DEF ResumeSwap, IsAttachedOrParked, Closing
<1>14. CASE ResumeAbandoned(c) BY <1>14 DEF ResumeAbandoned
<1>15. CASE ResumeResized(c)
  BY <1>15 DEF ResumeResized, Replay, ReplaySent, ReplayCut, Closing,
     ReplayUnheard
<1>16. CASE ResumeFails(c) BY <1>16 DEF ResumeFails, Closing
<1>17. CASE FinalizeKilled(c) BY <1>17 DEF FinalizeKilled
<1>18. CASE FinalizeDone(c)
  <2>1. /\ st[c] = "closed" /\ bound' = [bound EXCEPT ![c] = None]
        /\ UNCHANGED <<st, timer, attach, parking, last>>
    BY <1>18 DEF FinalizeDone
  <2>2. x # c /\ bound'[x] = bound[x] BY <2>1
  <2> QED BY <2>1, <2>2
<1>19. CASE Connect(c) BY <1>19 DEF Connect
<1>20. CASE \E t \in Targets : AttachFresh(c, t)
  BY <1>20 DEF AttachFresh, AttachFrame, Prepare
<1>21. CASE \E s \in Sockets : AttachResume(c, s)
  BY <1>21 DEF AttachResume, AttachFrame, IsAttachedOrParked
<1>22. CASE FrameDropped(c) BY <1>22 DEF FrameDropped, Backpressure, Closing
<1>23. CASE \E full \in BOOLEAN : BufferOutput(c, full)
  BY <1>23 DEF BufferOutput
<1>24. CASE \E full \in BOOLEAN : SilentOutput(c, full)
  BY <1>24 DEF SilentOutput
<1>25. CASE \E full \in BOOLEAN : SendOutput(c, full)
  BY <1>25 DEF SendOutput, Backpressure, Closing
<1>26. CASE MobileClientDetached(c) BY <1>26 DEF MobileClientDetached
<1> QED BY <1>1, <1>2, <1>3, <1>4, <1>5, <1>6, <1>7, <1>8, <1>9, <1>10, <1>11,
           <1>12, <1>13, <1>14, <1>15, <1>16, <1>17, <1>18, <1>19, <1>20,
           <1>21, <1>22, <1>23, <1>24, <1>25, <1>26 DEF Step

LEMMA AttachedAloneKept ==
  ASSUME TypeOK, AttachedAlone, BoundToResumed, ResumerIsFresh, OwnUntilGrown,
         TickIsQuiet, BoundIsLast,
         NEW c \in Sockets, Step(c)
  PROVE  AttachedAlone'
<1> USE DEF TypeOK, Grown, Current, OwnSteps, AttachedAlone, BoundToResumed,
          ResumerIsFresh, OwnUntilGrown, TickIsQuiet, BoundIsLast
<1> SUFFICES ASSUME NEW x \in Sockets, NEW y \in Sockets, x # y,
                    st'[x] = "attached", bound'[x] # None
             PROVE  bound'[y] # bound'[x]
  OBVIOUS
<1>1. CASE Claiming(c) BY <1>1, ClaimingLeaves
<1>2. CASE ParkingReturns(c) BY <1>2 DEF ParkingReturns
<1>3. CASE Closes(c) BY <1>3 DEF Closes, TransportGone
<1>4. CASE TimerFires(c) BY <1>4 DEF TimerFires, Finalize
<1>5. CASE \E s \in Sockets : EvictNext(c, s)
  BY <1>5 DEF EvictNext, Evicting, Evictable, Finalize
<1>6. CASE Detach(c) BY <1>6 DEF Detach, Finalize
<1>7. CASE PtyExits(c) BY <1>7 DEF PtyExits, Finalize
<1>8. CASE RetryPrepare(c) BY <1>8 DEF RetryPrepare, Prepare, Evicting
<1>9. CASE SpawnPty(c) BY <1>9 DEF SpawnPty
<1>10. CASE AttachReturns(c)
  <2>1. CASE AttachStale(c) BY <1>10, <2>1 DEF AttachReturns, AttachStale
  <2>2. CASE AttachServed(c) /\ ReplaySent(c, c, {})
    <3>1. /\ attach[c] = "connecting" /\ bound[c] # None /\ bound' = bound
          /\ \A z \in Sockets \ {c} : st'[z] = st[z]
      BY <1>10, <2>2 DEF AttachReturns, AttachServed, Replay, ReplaySent
    <3>2. bound[c] = c BY <3>1
    <3>3. \A z \in Sockets \ {c} : bound[z] # c
      <4>1. resuming[c] = c BY <3>1
      <4> QED BY <4>1
    <3>4. CASE x = c BY <3>1, <3>2, <3>3, <3>4
    <3>5. CASE x # c BY <3>1, <3>5
    <3> QED BY <3>4, <3>5
  <2>3. CASE AttachServed(c) /\ ReplayCut(c, c)
    BY <1>10, <2>3 DEF AttachReturns, AttachServed, Replay, ReplayCut, Closing
  <2>4. CASE AttachServed(c) /\ ReplayUnheard(c, c)
    <3>1. /\ attach[c] = "connecting" /\ bound[c] # None /\ bound' = bound
          /\ \A z \in Sockets \ {c} : st'[z] = st[z]
      BY <1>10, <2>4 DEF AttachReturns, AttachServed, Replay, ReplayUnheard
    <3>2. bound[c] = c BY <3>1
    <3>3. \A z \in Sockets \ {c} : bound[z] # c
      <4>1. resuming[c] = c BY <3>1
      <4> QED BY <4>1
    <3>4. CASE x = c BY <3>1, <3>2, <3>3, <3>4
    <3>5. CASE x # c BY <3>1, <3>5
    <3> QED BY <3>4, <3>5
  <2>5. CASE AttachUnserved(c)
    BY <1>10, <2>5 DEF AttachReturns, AttachUnserved
  <2>6. CASE AttachRefused(c) BY <1>10, <2>6 DEF AttachReturns, AttachRefused
  <2> QED
    BY <1>10, <2>1, <2>2, <2>3, <2>4, <2>5, <2>6 DEF AttachReturns,
       AttachServed, Replay
<1>11. CASE ReturnDone(c) BY <1>11 DEF ReturnDone
<1>12. CASE AttachFailed(c) BY <1>12 DEF AttachFailed
<1>13. CASE ResumeSwap(c) BY <1>13 DEF ResumeSwap, IsAttachedOrParked, Closing
<1>14. CASE ResumeAbandoned(c) BY <1>14 DEF ResumeAbandoned
<1>15. CASE ResumeResized(c)
  BY <1>15 DEF ResumeResized, Replay, ReplaySent, ReplayCut, Closing,
     ReplayUnheard
<1>16. CASE ResumeFails(c) BY <1>16 DEF ResumeFails, Closing
<1>17. CASE FinalizeKilled(c) BY <1>17 DEF FinalizeKilled
<1>18. CASE FinalizeDone(c) BY <1>18 DEF FinalizeDone, Closing
<1>19. CASE Connect(c) BY <1>19 DEF Connect
<1>20. CASE \E t \in Targets : AttachFresh(c, t)
  BY <1>20 DEF AttachFresh, AttachFrame, Prepare
<1>21. CASE \E s \in Sockets : AttachResume(c, s)
  BY <1>21 DEF AttachResume, AttachFrame, IsAttachedOrParked
<1>22. CASE FrameDropped(c) BY <1>22 DEF FrameDropped, Backpressure, Closing
<1>23. CASE \E full \in BOOLEAN : BufferOutput(c, full)
  BY <1>23 DEF BufferOutput
<1>24. CASE \E full \in BOOLEAN : SilentOutput(c, full)
  BY <1>24 DEF SilentOutput
<1>25. CASE \E full \in BOOLEAN : SendOutput(c, full)
  BY <1>25 DEF SendOutput, Backpressure, Closing
<1>26. CASE MobileClientDetached(c) BY <1>26 DEF MobileClientDetached
<1> QED BY <1>1, <1>2, <1>3, <1>4, <1>5, <1>6, <1>7, <1>8, <1>9, <1>10, <1>11,
           <1>12, <1>13, <1>14, <1>15, <1>16, <1>17, <1>18, <1>19, <1>20,
           <1>21, <1>22, <1>23, <1>24, <1>25, <1>26 DEF Step

LEMMA AttachedIsHeardKept ==
  ASSUME TypeOK, FinalizingIsClosed, AttachedAlone, AttachedIsHeard,
         BoundIsLast, OwnUntilGrown, ResumeIsGrown, TickIsGrown, AttachInStep,
         BoundToResumed, ResumerIsFresh,
         NEW c \in Sockets, Step(c)
  PROVE  AttachedIsHeard'
<1> USE DEF TypeOK, FinalizingIsClosed, Grown, Current, OwnSteps,
          AttachedAlone, AttachedIsHeard, Unheard, BoundIsLast, OwnUntilGrown,
          ResumeIsGrown, TickIsGrown, AttachInStep, BoundToResumed,
          ResumerIsFresh
<1> SUFFICES ASSUME NEW x \in Sockets, st'[x] = "attached"
             PROVE  \/ Unheard(x)'
                    \/ bound'[x] # None /\ (sock[bound[x]] = "open")'
  OBVIOUS
<1>1. CASE Claiming(c) BY <1>1, ClaimingLeaves
<1>2. CASE ParkingReturns(c) BY <1>2 DEF ParkingReturns
<1>3. CASE Closes(c) BY <1>3 DEF Closes, TransportGone
<1>4. CASE TimerFires(c) BY <1>4 DEF TimerFires, Finalize
<1>5. CASE \E s \in Sockets : EvictNext(c, s)
  BY <1>5 DEF EvictNext, Evicting, Evictable, Finalize
<1>6. CASE Detach(c) BY <1>6 DEF Detach, Finalize
<1>7. CASE PtyExits(c) BY <1>7 DEF PtyExits, Finalize
<1>8. CASE RetryPrepare(c) BY <1>8 DEF RetryPrepare, Prepare, Evicting
<1>9. CASE SpawnPty(c) BY <1>9 DEF SpawnPty
<1>10. CASE AttachReturns(c)
  BY <1>10 DEF AttachReturns, AttachStale, AttachServed, Replay, ReplaySent,
     ReplayCut, Closing, ReplayUnheard, AttachUnserved, AttachRefused
<1>11. CASE ReturnDone(c) BY <1>11 DEF ReturnDone
<1>12. CASE AttachFailed(c) BY <1>12 DEF AttachFailed
<1>13. CASE ResumeSwap(c) BY <1>13 DEF ResumeSwap, IsAttachedOrParked, Closing
<1>14. CASE ResumeAbandoned(c) BY <1>14 DEF ResumeAbandoned
<1>15. CASE ResumeResized(c)
  <2>1. CASE ReplaySent(c, resuming[c], {c})
    BY <1>15, <2>1 DEF ResumeResized, Replay, ReplaySent
  <2>2. CASE ReplayCut(c, resuming[c])
    BY <1>15, <2>2 DEF ResumeResized, Replay, ReplayCut, Closing
  <2> QED
    BY <1>15, <2>1, <2>2 DEF ResumeResized, Replay, ReplayUnheard, Current
<1>16. CASE ResumeFails(c) BY <1>16 DEF ResumeFails, Closing
<1>17. CASE FinalizeKilled(c) BY <1>17 DEF FinalizeKilled
<1>18. CASE FinalizeDone(c)
  <2>1. /\ finalizing[c] = "releasing" /\ st[c] = "closed"
        /\ bound' = [bound EXCEPT ![c] = None] /\ sock' = Closing({bound[c]})
        /\ UNCHANGED <<st, attach, resuming, known>>
    BY <1>18 DEF FinalizeDone
  <2>2. x # c /\ st[x] = "attached" /\ bound'[x] = bound[x] BY <2>1
  <2>3. CASE Unheard(x) BY <2>1, <2>3
  <2>4. CASE bound[x] # None /\ sock[bound[x]] = "open"
    <3>1. bound[x] \in Sockets /\ bound[x] # bound[c] BY <2>2, <2>4
    <3>2. sock'[bound[x]] = "open" BY <2>1, <2>4, <3>1 DEF Closing
    <3> QED BY <2>2, <2>4, <3>2
  <2> QED BY <2>2, <2>3, <2>4
<1>19. CASE Connect(c) BY <1>19 DEF Connect
<1>20. CASE \E t \in Targets : AttachFresh(c, t)
  BY <1>20 DEF AttachFresh, AttachFrame, Prepare
<1>21. CASE \E s \in Sockets : AttachResume(c, s)
  BY <1>21 DEF AttachResume, AttachFrame, IsAttachedOrParked
<1>22. CASE FrameDropped(c) BY <1>22 DEF FrameDropped, Backpressure, Closing
<1>23. CASE \E full \in BOOLEAN : BufferOutput(c, full)
  BY <1>23 DEF BufferOutput
<1>24. CASE \E full \in BOOLEAN : SilentOutput(c, full)
  BY <1>24 DEF SilentOutput
<1>25. CASE \E full \in BOOLEAN : SendOutput(c, full)
  BY <1>25 DEF SendOutput, Backpressure, Closing
<1>26. CASE MobileClientDetached(c) BY <1>26 DEF MobileClientDetached
<1> QED BY <1>1, <1>2, <1>3, <1>4, <1>5, <1>6, <1>7, <1>8, <1>9, <1>10, <1>11,
           <1>12, <1>13, <1>14, <1>15, <1>16, <1>17, <1>18, <1>19, <1>20,
           <1>21, <1>22, <1>23, <1>24, <1>25, <1>26 DEF Step

LEMMA StaleIsOwedKept ==
  ASSUME TypeOK, UnbornIsNew, NewIsUntouched, UsedHasTarget, ResumeIsGrown,
         TickIsGrown, StaleIsOwed, AttachedIsHeard, AttachInStep,
         NEW c \in Sockets, Step(c)
  PROVE  StaleIsOwed'
<1> USE DEF TypeOK, UnbornIsNew, NewIsUntouched, UsedHasTarget, ResumeIsGrown,
          TickIsGrown, Grown, Current, OwnSteps, StaleIsOwed, AttachedIsHeard,
          Unheard, Owed, AttachInStep
<1> SUFFICES ASSUME NEW x \in stale'
             PROVE  /\ st'[x] = "attaching" => Owed(x)'
                    /\ st'[x] \in {"attached", "parked", "synchronizing"}
                         => Owed(x)' \/ Unheard(x)'
  OBVIOUS
<1>1. CASE Claiming(c) BY <1>1, ClaimingLeaves
<1>2. CASE ParkingReturns(c) BY <1>2 DEF ParkingReturns
<1>3. CASE Closes(c)
  <2>1. UNCHANGED <<screen, attach, resuming>>
    BY <1>3 DEF Closes, TransportGone
  <2>2. Owed(x)' = Owed(x) /\ Unheard(x)' = Unheard(x) /\ x \in Sockets
    BY <2>1
  <2>3. \/ st'[x] = st[x] \/ st'[x] = "closed"
        \/ st'[x] = "parked" /\ bound[x] # None
    BY <1>3, <2>2 DEF Closes, TransportGone
  <2>4. st'[x] = "parked" /\ bound[x] # None =>
          st[x] \in {"attached", "parked", "synchronizing", "attaching"}
                 \cup {"awaiting_attach"}
    BY <1>3, <2>2 DEF Closes, TransportGone, States
  <2>5. st'[x] = "parked" => st[x] # "awaiting_attach"
    BY <1>3, <2>2 DEF Closes, TransportGone
  <2> QED BY <2>1, <2>2, <2>3, <2>4, <2>5
<1>4. CASE TimerFires(c) BY <1>4 DEF TimerFires, Finalize
<1>5. CASE \E s \in Sockets : EvictNext(c, s)
  BY <1>5 DEF EvictNext, Evicting, Evictable, Finalize
<1>6. CASE Detach(c) BY <1>6 DEF Detach, Finalize
<1>7. CASE PtyExits(c) BY <1>7 DEF PtyExits, Finalize
<1>8. CASE RetryPrepare(c) BY <1>8 DEF RetryPrepare, Prepare, Evicting
<1>9. CASE SpawnPty(c) BY <1>9 DEF SpawnPty
<1>10. CASE AttachReturns(c)
  <2>1. CASE AttachStale(c) BY <1>10, <2>1 DEF AttachReturns, AttachStale
  <2>2. CASE AttachServed(c) /\ ReplaySent(c, c, {})
    BY <1>10, <2>2 DEF AttachReturns, AttachServed, Replay, ReplaySent
  <2>3. CASE AttachServed(c) /\ ReplayCut(c, c)
    BY <1>10, <2>3 DEF AttachReturns, AttachServed, Replay, ReplayCut, Closing
  <2>4. CASE AttachServed(c) /\ ReplayUnheard(c, c)
    <3>1. /\ attach[c] = "connecting" /\ known' = known \ {c}
          /\ attach' = [attach EXCEPT ![c] = "idle"] /\ UNCHANGED resuming
          /\ st' = [st EXCEPT ![c] = "attached"]
          /\ stale' \subseteq stale \cup {c}
          /\ \A z \in Sockets \ {c} : Owed(z)' = Owed(z)
      BY <1>10, <2>4 DEF AttachReturns, AttachServed, Replay, ReplayUnheard
    <3>2. \A z \in Sockets :
            attach[z] \in {"tick", "resizing"} => resuming[z] # c
      BY <3>1
    <3>3. CASE x = c BY <3>1, <3>2, <3>3
    <3>4. CASE x # c BY <3>1, <3>4
    <3> QED BY <3>3, <3>4
  <2>5. CASE AttachUnserved(c)
    <3>1. /\ attach[c] = "connecting" /\ st' = [st EXCEPT ![c] = "parked"]
          /\ attach' = [attach EXCEPT ![c] = "returning"]
          /\ UNCHANGED <<resuming, screen>> /\ st[c] # "closed"
      BY <1>10, <2>5 DEF AttachReturns, AttachUnserved
    <3>2. st[c] \in {"attaching", "attached", "parked", "synchronizing"}
      BY <3>1 DEF States
    <3>3. \A z \in Sockets : Owed(z)' = Owed(z) /\ (Unheard(z) => Unheard(z)')
      BY <3>1
    <3>4. CASE x = c BY <3>1, <3>2, <3>3, <3>4
    <3>5. CASE x # c BY <3>1, <3>3, <3>5
    <3> QED BY <3>4, <3>5
  <2>6. CASE AttachRefused(c) BY <1>10, <2>6 DEF AttachReturns, AttachRefused
  <2> QED
    BY <1>10, <2>1, <2>2, <2>3, <2>4, <2>5, <2>6 DEF AttachReturns,
       AttachServed, Replay
<1>11. CASE ReturnDone(c) BY <1>11 DEF ReturnDone
<1>12. CASE AttachFailed(c) BY <1>12 DEF AttachFailed
<1>13. CASE ResumeSwap(c) BY <1>13 DEF ResumeSwap, IsAttachedOrParked, Closing
<1>14. CASE ResumeAbandoned(c) BY <1>14 DEF ResumeAbandoned
<1>15. CASE ResumeResized(c)
  <2>1. CASE ReplaySent(c, resuming[c], {c})
    <3> DEFINE s == resuming[c]
    <3>1. /\ s \in Sockets /\ st'[s] = "attached" /\ attach[c] = "resizing"
          /\ attach' = [attach EXCEPT ![c] = "idle"] /\ UNCHANGED resuming
          /\ \A z \in Sockets \ {s} : st'[z] = st[z] \/ st'[z] = "closed"
          /\ known' = known \cup {s} /\ overflowed' = overflowed \ {s}
          /\ stale' = IF s \in gapFull THEN stale \ {s} ELSE stale
          /\ gapFull' = gapFull \ {s}
          /\ redraw' = IF s \in overflowed THEN redraw \cup {s} ELSE redraw
      BY <1>15, <2>1 DEF ResumeResized, Replay, ReplaySent
    <3>2. CASE x = s
      <4>1. st[s] \in {"attached", "parked", "synchronizing"} /\ ~Unheard(s)
        BY <1>15, <3>1 DEF ResumeResized, States
      <4>2. Owed(s) /\ s \notin gapFull BY <3>1, <3>2, <4>1
      <4> QED BY <3>1, <3>2, <4>2
    <3>3. CASE x # s BY <3>1, <3>3
    <3> QED BY <3>2, <3>3
  <2>2. CASE ReplayCut(c, resuming[c])
    BY <1>15, <2>2 DEF ResumeResized, Replay, ReplayCut, Closing
  <2> QED
    BY <1>15, <2>1, <2>2 DEF ResumeResized, Replay, ReplayUnheard, Current
<1>16. CASE ResumeFails(c)
  <2> DEFINE s == resuming[c]
  <2>1. /\ UNCHANGED <<screen, resuming>> /\ attach[c] = "resizing"
        /\ attach' = [attach EXCEPT ![c] = "idle"] /\ s \in Sockets
        /\ st' = [st EXCEPT ![s] = "parked"]
        /\ st[s] # "closed"
    BY <1>16 DEF ResumeFails
  <2>2. st[s] \in {"attached", "parked", "synchronizing"} BY <2>1 DEF States
  <2>3. /\ \A z \in Sockets : Owed(z)' = Owed(z) /\ (Unheard(z) => Unheard(z)')
        /\ stale' = stale
    BY <2>1
  <2>4. CASE x = s BY <2>1, <2>2, <2>3, <2>4
  <2>5. CASE x # s BY <2>1, <2>3, <2>5
  <2> QED BY <2>4, <2>5
<1>17. CASE FinalizeKilled(c) BY <1>17 DEF FinalizeKilled
<1>18. CASE FinalizeDone(c) BY <1>18 DEF FinalizeDone, Closing
<1>19. CASE Connect(c) BY <1>19 DEF Connect
<1>20. CASE \E t \in Targets : AttachFresh(c, t)
  BY <1>20 DEF AttachFresh, AttachFrame, Prepare
<1>21. CASE \E s \in Sockets : AttachResume(c, s)
  BY <1>21 DEF AttachResume, AttachFrame, IsAttachedOrParked
<1>22. CASE FrameDropped(c) BY <1>22 DEF FrameDropped, Backpressure, Closing
<1>23. CASE \E full \in BOOLEAN : BufferOutput(c, full)
  BY <1>23 DEF BufferOutput
<1>24. CASE \E full \in BOOLEAN : SilentOutput(c, full)
  BY <1>24 DEF SilentOutput
<1>25. CASE \E full \in BOOLEAN : SendOutput(c, full)
  BY <1>25 DEF SendOutput, Backpressure, Closing
<1>26. CASE MobileClientDetached(c) BY <1>26 DEF MobileClientDetached
<1> QED BY <1>1, <1>2, <1>3, <1>4, <1>5, <1>6, <1>7, <1>8, <1>9, <1>10, <1>11,
           <1>12, <1>13, <1>14, <1>15, <1>16, <1>17, <1>18, <1>19, <1>20,
           <1>21, <1>22, <1>23, <1>24, <1>25, <1>26 DEF Step

LEMMA WindowExclusiveKept ==
  ASSUME TypeOK, WindowExclusive, RecordIsHeld, AttachInStep, LeaseIsGrown,
         NEW c \in Sockets, Step(c)
  PROVE  WindowExclusive'
<1> USE DEF TypeOK, WindowExclusive, RecordIsHeld, Free, Current,
          AttachInStep, LeaseIsGrown, Grown
<1>1. CASE Claiming(c) BY <1>1, ClaimingLeaves
<1>2. CASE ParkingReturns(c) BY <1>2 DEF ParkingReturns
<1>3. CASE Closes(c) BY <1>3 DEF Closes, TransportGone
<1>4. CASE TimerFires(c) BY <1>4 DEF TimerFires, Finalize
<1>5. CASE \E s \in Sockets : EvictNext(c, s)
  BY <1>5 DEF EvictNext, Evicting, Evictable, Finalize
<1>6. CASE Detach(c) BY <1>6 DEF Detach, Finalize
<1>7. CASE PtyExits(c) BY <1>7 DEF PtyExits, Finalize
<1>8. CASE RetryPrepare(c) BY <1>8 DEF RetryPrepare, Prepare, Evicting
<1>9. CASE SpawnPty(c) BY <1>9 DEF SpawnPty
<1>10. CASE AttachReturns(c)
  BY <1>10 DEF AttachReturns, AttachStale, AttachServed, Replay, ReplaySent,
     ReplayCut, Closing, ReplayUnheard, AttachUnserved, AttachRefused
<1>11. CASE ReturnDone(c) BY <1>11 DEF ReturnDone
<1>12. CASE AttachFailed(c) BY <1>12 DEF AttachFailed
<1>13. CASE ResumeSwap(c) BY <1>13 DEF ResumeSwap, IsAttachedOrParked, Closing
<1>14. CASE ResumeAbandoned(c) BY <1>14 DEF ResumeAbandoned
<1>15. CASE ResumeResized(c)
  BY <1>15 DEF ResumeResized, Replay, ReplaySent, ReplayCut, Closing,
     ReplayUnheard
<1>16. CASE ResumeFails(c) BY <1>16 DEF ResumeFails, Closing
<1>17. CASE FinalizeKilled(c) BY <1>17 DEF FinalizeKilled
<1>18. CASE FinalizeDone(c) BY <1>18 DEF FinalizeDone, Closing
<1>19. CASE Connect(c) BY <1>19 DEF Connect
<1>20. CASE \E t \in Targets : AttachFresh(c, t)
  BY <1>20 DEF AttachFresh, AttachFrame, Prepare
<1>21. CASE \E s \in Sockets : AttachResume(c, s)
  BY <1>21 DEF AttachResume, AttachFrame, IsAttachedOrParked
<1>22. CASE FrameDropped(c) BY <1>22 DEF FrameDropped, Backpressure, Closing
<1>23. CASE \E full \in BOOLEAN : BufferOutput(c, full)
  BY <1>23 DEF BufferOutput
<1>24. CASE \E full \in BOOLEAN : SilentOutput(c, full)
  BY <1>24 DEF SilentOutput
<1>25. CASE \E full \in BOOLEAN : SendOutput(c, full)
  BY <1>25 DEF SendOutput, Backpressure, Closing
<1>26. CASE MobileClientDetached(c) BY <1>26 DEF MobileClientDetached
<1> QED BY <1>1, <1>2, <1>3, <1>4, <1>5, <1>6, <1>7, <1>8, <1>9, <1>10, <1>11,
           <1>12, <1>13, <1>14, <1>15, <1>16, <1>17, <1>18, <1>19, <1>20,
           <1>21, <1>22, <1>23, <1>24, <1>25, <1>26 DEF Step

-----------------------------------------------------------------------------
(* Together they are invariant *)

\* Everything these theorems need of a state.
SInv ==
  IInv /\ Holding /\ Hearing /\ Owing /\ WindowExclusive

LEMMA HoldingKept ==
  ASSUME IInv, Holding, NEW c \in Sockets, Step(c) PROVE Holding'
<1>1. /\ TypeOK /\ OwnUntilGrown /\ LeaseIsGrown /\ NewIsUntouched
      /\ ResumeIsGrown /\ FinalizingIsClosed
  BY DEF IInv, Structure
<1>2. AttachInStep' /\ ResumerIsFresh'
  BY <1>1, AttachInStepKept, ResumerIsFreshKept DEF Holding
<1>3. UnbornIsNew' /\ UsedHasTarget'
  BY <1>1, UnbornIsNewKept, UsedHasTargetKept DEF Holding
<1>4. TickIsGrown' /\ GrownHasLease'
  BY <1>1, TickIsGrownKept, GrownHasLeaseKept DEF Holding
<1>5. ReleasedHasNone' /\ RegistryIsGrown' /\ RecordIsHeld'
  BY <1>1, ReleasedHasNoneKept, RegistryIsGrownKept, RecordIsHeldKept
     DEF Holding
<1> QED BY <1>2, <1>3, <1>4, <1>5 DEF Holding

LEMMA HearingKept ==
  ASSUME IInv, Holding, Hearing, NEW c \in Sockets, Step(c) PROVE Hearing'
<1>1. /\ TypeOK /\ OwnUntilGrown /\ BoundToResumed /\ NewIsUntouched
      /\ ResumeIsGrown /\ FinalizingIsClosed /\ TickIsQuiet
      /\ AttachInStep /\ ResumerIsFresh /\ TickIsGrown
  BY DEF IInv, Structure, Holding
<1>2. BoundIsLast' /\ ParkingIsGone'
  BY <1>1, BoundIsLastKept, ParkingIsGoneKept DEF Hearing
<1>3. ReadyIsGrown' /\ ServedIsBound'
  BY <1>1, ReadyIsGrownKept, ServedIsBoundKept DEF Hearing
<1>4. ParkedHasExit'
  BY <1>1, ParkedHasExitKept DEF Hearing
<1> QED BY <1>2, <1>3, <1>4 DEF Hearing

LEMMA OwingKept ==
  ASSUME IInv, Holding, Hearing, Owing, NEW c \in Sockets, Step(c) PROVE Owing'
<1>1. /\ TypeOK /\ OwnUntilGrown /\ BoundToResumed /\ NewIsUntouched
      /\ ResumeIsGrown /\ FinalizingIsClosed /\ TickIsQuiet
      /\ AttachInStep /\ ResumerIsFresh /\ TickIsGrown /\ UnbornIsNew
      /\ UsedHasTarget /\ BoundIsLast
  BY DEF IInv, Structure, Holding, Hearing
<1>2. AttachedAlone' BY <1>1, AttachedAloneKept DEF Owing
<1>3. AttachedIsHeard' BY <1>1, AttachedIsHeardKept DEF Owing
<1>4. StaleIsOwed' BY <1>1, StaleIsOwedKept DEF Owing
<1> QED BY <1>2, <1>3, <1>4 DEF Owing

LEMMA SessionInvariance == Spec => []SInv
<1>1. Init => Holding /\ Hearing /\ Owing /\ WindowExclusive
  <2> SUFFICES ASSUME Init PROVE Holding /\ Hearing /\ Owing /\ WindowExclusive
    OBVIOUS
  <2>1. Holding
    BY DEF Init, Holding, AttachInStep, OwnSteps, ResumerIsFresh, UnbornIsNew,
           UsedHasTarget, TickIsGrown, GrownHasLease, Grown, ReleasedHasNone,
           RegistryIsGrown, RecordIsHeld
  <2>2. Hearing
    BY DEF Init, Hearing, BoundIsLast, ParkingIsGone, ReadyIsGrown,
           ServedIsBound, ParkedHasExit
  <2>3. Owing /\ WindowExclusive
    BY DEF Init, Owing, AttachedAlone, AttachedIsHeard, StaleIsOwed,
           WindowExclusive
  <2> QED BY <2>1, <2>2, <2>3
<1>2. SInv /\ IInv' /\ [Next]_vars => SInv'
  <2> SUFFICES ASSUME SInv, IInv', [Next]_vars PROVE SInv'
    OBVIOUS
  <2>1. CASE Next
    <3>1. PICK c \in Sockets : Step(c) BY <2>1, NextIsStep
    <3>2. WindowExclusive'
      BY <3>1, WindowExclusiveKept DEF SInv, IInv, Structure, Holding
    <3> QED BY <3>1, <3>2, HoldingKept, HearingKept, OwingKept DEF SInv
  <2>2. CASE UNCHANGED vars
    <3>1. Holding'
      BY <2>2 DEF SInv, vars, Holding, AttachInStep, OwnSteps, ResumerIsFresh,
                  UnbornIsNew, UsedHasTarget, TickIsGrown, GrownHasLease,
                  Grown, ReleasedHasNone, RegistryIsGrown, RecordIsHeld
    <3>2. Hearing'
      BY <2>2 DEF SInv, vars, Hearing, BoundIsLast, ParkingIsGone,
                  ReadyIsGrown, Grown, ServedIsBound, ParkedHasExit
    <3>3. Owing' /\ WindowExclusive'
      BY <2>2 DEF SInv, vars, Owing, AttachedAlone, AttachedIsHeard, Unheard,
                  Owed, StaleIsOwed, WindowExclusive
    <3> QED BY <3>1, <3>2, <3>3 DEF SInv
  <2> QED BY <2>1, <2>2
<1>3. SInv => IInv BY DEF SInv
<1>4. Init /\ IInv => SInv BY <1>1 DEF SInv
<1> QED BY <1>2, <1>3, <1>4, Invariance, PTL DEF Spec

\* However a session ends or is left, nothing stays behind: a closed session
\* whose handlers are through has no lease record, no lease and no registry
\* entry, and a parked one is on its way out (attachFresh 481 and 491,
\* finalizeTransport 872, handleTransportClosed 780).
THEOREM NothingStaysBehind == Spec => []NothingIsLeftBehind
<1>1. SInv => ReleasedWhenClosed
  <2> SUFFICES ASSUME SInv, NEW s \in Sockets, finalizing[s] = "done",
                      attach[s] = "idle"
               PROVE  record[s] = "none" /\ s \notin lease /\ s \notin registry
    BY DEF ReleasedWhenClosed
  <2>1. s \notin lease BY DEF SInv, Holding, ReleasedHasNone
  <2>2. s \notin registry BY DEF SInv, Holding, RegistryIsGrown
  <2>3. record[s] = "none" BY <2>1 DEF SInv, Holding, RecordIsHeld
  <2> QED BY <2>1, <2>2, <2>3
<1>2. SInv => ParkedHasExit BY DEF SInv, Hearing
<1>3. SInv => NothingIsLeftBehind BY <1>1, <1>2 DEF NothingIsLeftBehind
<1> QED BY <1>3, SessionInvariance, PTL

\* A client that was told it is attached, on a socket still open, is the one
\* its session listens to: resumeSocket closes the socket it replaces (411),
\* before the new one hears a frame.
THEOREM ServedIsAlwaysBound == Spec => []ServedIsBound
<1>1. SInv => ServedIsBound BY DEF SInv, Hearing
<1> QED BY <1>1, SessionInvariance, PTL

\* Output that the screen of a client misses is owed to it: the overflow
\* flag, a repaint still to come or one that waits in the gap buffer draws
\* the screen again (handlePtyOutput 718, sendSocketData 652).
THEOREM NoGapIsSilent == Spec => []NoSilentGap
<1>1. SInv => NoSilentGap
  BY DEF SInv, Owing, StaleIsOwed, NoSilentGap, Owed, Unheard
<1> QED BY <1>1, SessionInvariance, PTL

-----------------------------------------------------------------------------
(* The sessions use the windows as the viewport port promises              *)

RecordsHaveTargets ==
  \A s \in Sockets : record[s] # "none" => target[s] \in Targets

\* The viewport manager's view of session s stays as it is.
Same(s) ==
  record'[s] = record[s]
    /\ (record[s] # "none" => target'[s] = target[s] /\ owner'[s] = owner[s])

\* What a step may do to the lease record of session s.
RecordMoves(s) ==
  \/ Same(s)
  \/ record[s] = "none" /\ record'[s] = "prepared" /\ owner'[s] = "mobile"
  \/ /\ record[s] \in {"prepared", "attached"} /\ record'[s] = "attached"
     /\ target'[s] = target[s]
  \/ record[s] # "none" /\ record'[s] = "none"

\* A step moves the record of one session, and leaves all others alone.
Moves(x) == RecordMoves(x) /\ \A s \in Sockets \ {x} : Same(s)

\* A socket that closes was heard by one attached session at most.
LEMMA OneHeard ==
  ASSUME TypeOK, BoundToResumed, ResumerIsFresh, NEW c \in Sockets
  PROVE  \E x \in Sockets : \A s \in Sockets :
            bound[s] = c /\ st[s] \notin {"closed", "awaiting_attach"} => s = x
  BY DEF BoundToResumed, ResumerIsFresh, TypeOK

LEMMA StepMovesOne ==
  ASSUME TypeOK, AttachInStep, RecordIsHeld, LeaseIsGrown, GrownHasLease,
         BoundToResumed, ResumerIsFresh, ResumeIsGrown,
         NEW c \in Sockets, Step(c)
  PROVE  \E x \in Sockets : Moves(x)
<1> USE DEF TypeOK, AttachInStep, RecordIsHeld, LeaseIsGrown, GrownHasLease,
          ResumeIsGrown, OwnSteps, Grown, Current, Moves, RecordMoves, Same
<1>1. CASE Claiming(c)
  <2>1. CASE ClaimTakesEffect(c)
    <3>1. Moves(claimOf[c]) BY <2>1 DEF ClaimTakesEffect
    <3> QED BY <3>1
  <2>2. CASE ClaimFails(c) BY <2>2 DEF ClaimFails
  <2>3. CASE ClaimReturns(c)
    <3>1. Moves(claimOf[c]) BY <2>3 DEF ClaimReturns, RestoreDesktop,
    HandsBack, Live
    <3> QED BY <3>1
  <2>4. CASE \E s \in Sockets : Claim(c, s) BY <2>4 DEF Claim
  <2>5. CASE DesktopTakesOver(c) BY <2>5 DEF DesktopTakesOver
  <2> QED BY <1>1, <2>1, <2>2, <2>3, <2>4, <2>5 DEF Claiming
<1>2. CASE ParkingReturns(c) BY <1>2 DEF ParkingReturns
<1>3. CASE Closes(c)
  BY <1>3, OneHeard DEF Closes, TransportGone, HandsBack, Live
<1>4. CASE TimerFires(c) BY <1>4 DEF TimerFires, Finalize
<1>5. CASE \E s \in Sockets : EvictNext(c, s)
  BY <1>5 DEF EvictNext, Evicting, Evictable, Finalize
<1>6. CASE Detach(c) BY <1>6 DEF Detach, Finalize
<1>7. CASE PtyExits(c) BY <1>7 DEF PtyExits, Finalize
<1>8. CASE RetryPrepare(c)
  <2>1. record[c] = "none" BY <1>8 DEF RetryPrepare, Evicting
  <2>2. UNCHANGED target BY <1>8 DEF RetryPrepare
  <2>3. CASE Prepare(c, target[c])
    BY <2>1, <2>2, <2>3 DEF Prepare
  <2>4. CASE UNCHANGED <<record, owner, kept>> BY <2>2, <2>4
  <2> QED BY <1>8, <2>3, <2>4 DEF RetryPrepare
<1>9. CASE SpawnPty(c) BY <1>9 DEF SpawnPty
<1>10. CASE AttachReturns(c)
  <2>1. CASE AttachStale(c) BY <1>10, <2>1 DEF AttachReturns, AttachStale
  <2>2. CASE AttachServed(c) /\ ReplaySent(c, c, {})
    BY <1>10, <2>2 DEF AttachReturns, AttachServed, Replay, ReplaySent
  <2>3. CASE AttachServed(c) /\ ReplayCut(c, c)
    BY <1>10, <2>3 DEF AttachReturns, AttachServed, Replay, ReplayCut,
           HandsBack
  <2>4. CASE AttachServed(c) /\ ReplayUnheard(c, c)
    BY <1>10, <2>4 DEF AttachReturns, AttachServed, Replay, ReplayUnheard
  <2>5. CASE AttachUnserved(c)
    BY <1>10, <2>5 DEF AttachReturns, AttachUnserved, HandsBack
  <2>6. CASE AttachRefused(c) BY <1>10, <2>6 DEF AttachReturns, AttachRefused
  <2> QED
    BY <1>10, <2>1, <2>2, <2>3, <2>4, <2>5, <2>6 DEF AttachReturns,
       AttachServed, Replay
<1>11. CASE ReturnDone(c) BY <1>11 DEF ReturnDone
<1>12. CASE AttachFailed(c) BY <1>12 DEF AttachFailed
<1>13. CASE ResumeSwap(c) BY <1>13 DEF ResumeSwap, IsAttachedOrParked, Closing
<1>14. CASE ResumeAbandoned(c) BY <1>14 DEF ResumeAbandoned
<1>15. CASE ResumeResized(c)
  <2>1. /\ resuming[c] \in Sockets /\ Grown(resuming[c])
        /\ st[resuming[c]] # "closed"
    BY <1>15 DEF ResumeResized
  <2>2. Moves(resuming[c])
    <3>1. CASE ReplaySent(c, resuming[c], {c})
      BY <1>15, <2>1, <3>1 DEF ResumeResized, Replay, ReplaySent
    <3>2. CASE ReplayCut(c, resuming[c])
      BY <1>15, <2>1, <3>2 DEF ResumeResized, Replay, ReplayCut, HandsBack
    <3> QED BY <1>15, <3>1, <3>2 DEF ResumeResized, Replay, ReplayUnheard
  <2> QED BY <2>1, <2>2
<1>16. CASE ResumeFails(c) BY <1>16 DEF ResumeFails, Closing
<1>17. CASE FinalizeKilled(c) BY <1>17 DEF FinalizeKilled
<1>18. CASE FinalizeDone(c) BY <1>18 DEF FinalizeDone, Closing
<1>19. CASE Connect(c) BY <1>19 DEF Connect
<1>20. CASE \E t \in Targets : AttachFresh(c, t)
  BY <1>20 DEF AttachFresh, AttachFrame, Prepare
<1>21. CASE \E s \in Sockets : AttachResume(c, s)
  BY <1>21 DEF AttachResume, AttachFrame, IsAttachedOrParked
<1>22. CASE FrameDropped(c)
  BY <1>22 DEF FrameDropped, Backpressure, HandsBack, Live
<1>23. CASE \E full \in BOOLEAN : BufferOutput(c, full)
  BY <1>23 DEF BufferOutput
<1>24. CASE \E full \in BOOLEAN : SilentOutput(c, full)
  BY <1>24 DEF SilentOutput
<1>25. CASE \E full \in BOOLEAN : SendOutput(c, full)
  BY <1>25 DEF SendOutput, Backpressure, HandsBack, Live
<1>26. CASE MobileClientDetached(c) BY <1>26 DEF MobileClientDetached
<1> QED BY <1>1, <1>2, <1>3, <1>4, <1>5, <1>6, <1>7, <1>8, <1>9, <1>10, <1>11,
           <1>12, <1>13, <1>14, <1>15, <1>16, <1>17, <1>18, <1>19, <1>20,
           <1>21, <1>22, <1>23, <1>24, <1>25, <1>26 DEF Step

LEMMA WindowsStay == Windows' = Windows
  BY DEF Windows

LEMMA SetsOfHolders ==
  ASSUME WindowExclusive, RecordsHaveTargets, NEW s \in Sockets,
         record[s] # "none"
  PROVE  WindowOf[target[s]] \in Windows /\ Holders(WindowOf[target[s]]) = {s}
<1>1. WindowOf[target[s]] \in Windows BY DEF RecordsHaveTargets, Windows
<1>2. Holders(WindowOf[target[s]]) = {s}
  <2>1. s \in Holders(WindowOf[target[s]]) BY DEF Holders
  <2>2. \A x \in Holders(WindowOf[target[s]]) : x = s
    BY DEF WindowExclusive, Holders
  <2> QED BY <2>1, <2>2
<1> QED BY <1>1, <1>2

LEMMA SetsOfHoldersNext ==
  ASSUME WindowExclusive', RecordsHaveTargets', NEW s \in Sockets,
         record'[s] # "none", NEW w, w = WindowOf[target'[s]]
  PROVE  w \in Windows /\ Holders(w)' = {s}
<1>1. w \in Windows BY DEF RecordsHaveTargets, Windows
<1>2. Holders(w)' = {s}
  <2>1. s \in Holders(w)' BY DEF Holders
  <2>2. \A x \in Holders(w)' : x = s BY DEF WindowExclusive, Holders
  <2> QED BY <2>1, <2>2
<1> QED BY <1>1, <1>2

\* The lease of a window is read off its only holder.
LEMMA ReadOff ==
  ASSUME NEW w \in Windows
  PROVE  /\ Holders(w) = {} =>
              /\ HolderOf[w] = None /\ OwnerOf[w] = "mobile"
              /\ w \notin LiveWindows
         /\ \A s \in Sockets : Holders(w) = {s} =>
              /\ HolderOf[w] = s
              /\ OwnerOf[w] = IF owner[s] = "desktop" THEN "desktop"
                                                        ELSE "mobile"
              /\ w \in LiveWindows <=> record[s] = "attached"
<1>1. HolderOf[w] = IF Holders(w) = {} THEN None
                     ELSE CHOOSE s \in Holders(w) : TRUE
  BY DEF HolderOf
<1>2. OwnerOf[w] = IF \E s \in Holders(w) : owner[s] = "desktop"
                    THEN "desktop" ELSE "mobile"
  BY DEF OwnerOf
<1>3. w \in LiveWindows <=> \E s \in Holders(w) : record[s] = "attached"
  BY DEF LiveWindows
<1>4. (CHOOSE s \in Holders(w) : TRUE) \in Holders(w) \/ Holders(w) = {}
  OBVIOUS
<1> QED BY <1>1, <1>2, <1>3, <1>4

LEMMA ReadOffNext ==
  ASSUME NEW w \in Windows
  PROVE  /\ Holders(w)' = {} =>
              /\ HolderOf'[w] = None /\ OwnerOf'[w] = "mobile"
              /\ w \notin LiveWindows'
         /\ \A s \in Sockets : Holders(w)' = {s} =>
              /\ HolderOf'[w] = s
              /\ OwnerOf'[w] = IF owner'[s] = "desktop" THEN "desktop"
                                                        ELSE "mobile"
              /\ w \in LiveWindows' <=> record'[s] = "attached"
<1>1. HolderOf'[w] = IF Holders(w)' = {} THEN None
                     ELSE CHOOSE s \in Holders(w)' : TRUE
  BY WindowsStay DEF HolderOf
<1>2. OwnerOf'[w] = IF \E s \in Holders(w)' : owner'[s] = "desktop"
                    THEN "desktop" ELSE "mobile"
  BY WindowsStay DEF OwnerOf
<1>3. w \in LiveWindows' <=> \E s \in Holders(w)' : record'[s] = "attached"
  BY WindowsStay DEF LiveWindows
<1>4. (CHOOSE s \in Holders(w)' : TRUE) \in Holders(w)' \/ Holders(w)' = {}
  OBVIOUS
<1> QED BY <1>1, <1>2, <1>3, <1>4

\* A window none of whose holders changed.
LEMMA OthersStay ==
  ASSUME NEW w \in Windows, Holders(w)' = Holders(w),
         \A s \in Holders(w) : owner'[s] = owner[s] /\ record'[s] = record[s]
  PROVE  /\ HolderOf'[w] = HolderOf[w] /\ OwnerOf'[w] = OwnerOf[w]
         /\ w \in LiveWindows' <=> w \in LiveWindows
<1>1. HolderOf'[w] = HolderOf[w] BY WindowsStay DEF HolderOf
<1>2. OwnerOf'[w] = OwnerOf[w] BY WindowsStay DEF OwnerOf
<1>3. w \in LiveWindows' <=> w \in LiveWindows BY WindowsStay DEF LiveWindows
<1> QED BY <1>1, <1>2, <1>3

LEMMA MappedTypes ==
  /\ HolderOf = [w \in Windows |-> HolderOf[w]]
  /\ HolderOf' = [w \in Windows |-> HolderOf'[w]]
  /\ OwnerOf = [w \in Windows |-> OwnerOf[w]]
  /\ OwnerOf' = [w \in Windows |-> OwnerOf'[w]]
  /\ LiveWindows \subseteq Windows /\ LiveWindows' \subseteq Windows
<1>1. /\ HolderOf = [w \in Windows |-> HolderOf[w]]
      /\ OwnerOf = [w \in Windows |-> OwnerOf[w]]
  BY DEF HolderOf, OwnerOf
<1>2. /\ HolderOf' = [w \in Windows |-> HolderOf'[w]]
      /\ OwnerOf' = [w \in Windows |-> OwnerOf'[w]]
  BY WindowsStay DEF HolderOf, OwnerOf
<1>3. LiveWindows \subseteq Windows /\ LiveWindows' \subseteq Windows
  BY WindowsStay DEF LiveWindows
<1> QED BY <1>1, <1>2, <1>3

LEMMA StepOfOne ==
  ASSUME TypeOK, TypeOK', WindowExclusive, WindowExclusive',
         RecordsHaveTargets, RecordsHaveTargets',
         NEW c \in Sockets, \A s \in Sockets \ {c} : Same(s), RecordMoves(c)
  PROVE  [Lease!Next]_Lease!vars
<1>0. owner[c] \in {"mobile", "desktop"} /\ owner'[c] \in {"mobile", "desktop"}
  BY DEF TypeOK
<1>1. CASE Same(c)
  <2>1. \A w \in Windows : Holders(w)' = Holders(w)
    BY <1>1 DEF Holders, Same
  <2>2. \A w \in Windows : \A s \in Holders(w) :
          owner'[s] = owner[s] /\ record'[s] = record[s]
    BY <1>1 DEF Holders, Same
  <2> QED BY <2>1, <2>2, OthersStay, MappedTypes DEF Lease!vars
<1>2. CASE /\ record[c] = "none" /\ record'[c] = "prepared"
           /\ owner'[c] = "mobile"
  <2>0. PICK v : v = WindowOf[target'[c]] OBVIOUS
  <2>1. v \in Windows /\ Holders(v)' = {c}
    BY <1>2, <2>0, SetsOfHoldersNext
  <2>2. Holders(v) = {}
    BY <1>2, <2>0, <2>1 DEF Holders, Same
  <2>3. \A x \in Windows \ {v} : Holders(x)' = Holders(x)
    BY <1>2, <2>0 DEF Holders, Same
  <2>4. \A x \in Windows \ {v} : \A s \in Holders(x) :
          owner'[s] = owner[s] /\ record'[s] = record[s]
    BY <1>2, <2>0 DEF Holders, Same
  <2>5. HolderOf[v] = None /\ OwnerOf[v] = "mobile" /\ v \notin LiveWindows
    BY <2>1, <2>2, ReadOff
  <2>6. HolderOf'[v] = c /\ OwnerOf'[v] = "mobile" /\ v \notin LiveWindows'
    BY <1>2, <2>1, ReadOffNext
  <2>7. \A x \in Windows \ {v} :
          /\ HolderOf'[x] = HolderOf[x] /\ OwnerOf'[x] = OwnerOf[x]
          /\ x \in LiveWindows' <=> x \in LiveWindows
    BY <2>3, <2>4, OthersStay
  <2>8. Lease!Prepare(v, c)
    <3>1. HolderOf' = [HolderOf EXCEPT ![v] = c]
      BY <2>1, <2>6, <2>7, MappedTypes
    <3>2. OwnerOf' = [OwnerOf EXCEPT ![v] = "mobile"]
      BY <2>1, <2>6, <2>7, MappedTypes
    <3>3. LiveWindows' = LiveWindows BY <2>5, <2>6, <2>7, MappedTypes
    <3> QED BY <2>5, <3>1, <3>2, <3>3 DEF Lease!Prepare
  <2> QED BY <2>1, <2>8 DEF Lease!Next
<1>3. CASE record[c] # "none" /\ record'[c] # "none" /\ target'[c] = target[c]
  <2>0. PICK w : w = WindowOf[target[c]] OBVIOUS
  <2>1. w \in Windows /\ Holders(w) = {c} /\ Holders(w)' = {c}
    BY <1>3, <2>0, SetsOfHolders, SetsOfHoldersNext
  <2>3. \A x \in Windows \ {w} : Holders(x)' = Holders(x)
    BY <1>3, <2>0 DEF Holders, Same
  <2>4. \A x \in Windows \ {w} : \A s \in Holders(x) :
          owner'[s] = owner[s] /\ record'[s] = record[s]
    BY <1>3, <2>0 DEF Holders, Same
  <2>5. /\ HolderOf[w] = c /\ (w \in LiveWindows <=> record[c] = "attached")
        /\ HolderOf'[w] = c /\ (w \in LiveWindows' <=> record'[c] = "attached")
        /\ OwnerOf'[w] = owner'[c]
    BY <1>0, <2>1, ReadOff, ReadOffNext
  <2>7. \A x \in Windows \ {w} :
          /\ HolderOf'[x] = HolderOf[x] /\ OwnerOf'[x] = OwnerOf[x]
          /\ x \in LiveWindows' <=> x \in LiveWindows
    BY <2>3, <2>4, OthersStay
  <2>8. HolderOf' = HolderOf BY <2>1, <2>5, <2>7, MappedTypes
  <2>9. OwnerOf' = [OwnerOf EXCEPT ![w] = owner'[c]]
    BY <2>1, <2>5, <2>7, MappedTypes
  <2>10. CASE record[c] = "prepared" /\ record'[c] = "attached"
    <3>1. LiveWindows' = LiveWindows \cup {w}
      BY <2>1, <2>5, <2>7, <2>10, MappedTypes
    <3>2. Lease!Attach(w, owner'[c])
      BY <2>5, <2>8, <2>9, <2>10, <3>1 DEF Lease!Attach
    <3> QED BY <1>0, <2>1, <3>2 DEF Lease!Next
  <2>11. CASE record[c] = "attached" /\ record'[c] = "attached"
    <3>1. LiveWindows' = LiveWindows BY <2>1, <2>5, <2>7, <2>11, MappedTypes
    <3>2. Lease!HandOver(w, owner'[c])
      BY <2>5, <2>8, <2>9, <2>11, <3>1 DEF Lease!HandOver
    <3> QED BY <1>0, <2>1, <3>2 DEF Lease!Next
  <2> QED BY <1>1, <1>3, <2>10, <2>11 DEF RecordMoves
<1>4. CASE record[c] # "none" /\ record'[c] = "none"
  <2>0. PICK w : w = WindowOf[target[c]] OBVIOUS
  <2>1. w \in Windows /\ Holders(w) = {c}
    BY <1>4, <2>0, SetsOfHolders
  <2>2. Holders(w)' = {}
    BY <1>4, <2>0, <2>1 DEF Holders, Same
  <2>3. \A x \in Windows \ {w} : Holders(x)' = Holders(x)
    BY <1>4, <2>0 DEF Holders, Same
  <2>4. \A x \in Windows \ {w} : \A s \in Holders(x) :
          owner'[s] = owner[s] /\ record'[s] = record[s]
    BY <1>4, <2>0 DEF Holders, Same
  <2>5. HolderOf[w] = c
    BY <2>1, ReadOff
  <2>6. HolderOf'[w] = None /\ OwnerOf'[w] = "mobile" /\ w \notin LiveWindows'
    BY <2>1, <2>2, ReadOffNext
  <2>7. \A x \in Windows \ {w} :
          /\ HolderOf'[x] = HolderOf[x] /\ OwnerOf'[x] = OwnerOf[x]
          /\ x \in LiveWindows' <=> x \in LiveWindows
    BY <2>3, <2>4, OthersStay
  <2>8. Lease!Release(w)
    <3>1. HolderOf' = [HolderOf EXCEPT ![w] = None]
      BY <2>1, <2>6, <2>7, MappedTypes
    <3>2. OwnerOf' = [OwnerOf EXCEPT ![w] = "mobile"]
      BY <2>1, <2>6, <2>7, MappedTypes
    <3>3. LiveWindows' = LiveWindows \ {w} BY <2>1, <2>6, <2>7, MappedTypes
    <3> QED BY <2>5, <3>1, <3>2, <3>3 DEF Lease!Release
  <2> QED BY <2>1, <2>8 DEF Lease!Next
<1> QED BY <1>1, <1>2, <1>3, <1>4 DEF RecordMoves

\* The sessions use the windows as the viewport port promises: whatever
\* sockets, claims and resumes do, a window has one session at a time, is
\* prepared before it is attached and freed before it changes hands (prepare
\* 499 and 506, release 481, 491 and 872).
THEOREM SessionsImplementLease == Spec => LeaseSpec
<1>1. Init => Lease!Init
  <2> SUFFICES ASSUME Init PROVE Lease!Init
    OBVIOUS
  <2>1. \A w \in Windows : Holders(w) = {} BY DEF Init, Holders
  <2> QED BY <2>1 DEF Lease!Init, HolderOf, LiveWindows, OwnerOf
<1>2. SInv /\ SInv' /\ [Next]_vars => [Lease!Next]_Lease!vars
  <2> SUFFICES ASSUME SInv, SInv', [Next]_vars PROVE [Lease!Next]_Lease!vars
    OBVIOUS
  <2>1. CASE Next
    <3>1. PICK c \in Sockets : Step(c) BY <2>1, NextIsStep
    <3>2. PICK x \in Sockets : Moves(x)
      BY <3>1, StepMovesOne DEF SInv, IInv, Structure, Holding
    <3>3. RecordMoves(x) /\ \A s \in Sockets \ {x} : Same(s)
      BY <3>2 DEF Moves
    <3>4. TypeOK /\ WindowExclusive /\ RecordsHaveTargets
      BY DEF SInv, IInv, Holding, RecordIsHeld, RecordsHaveTargets
    <3>5. TypeOK' /\ WindowExclusive' /\ RecordsHaveTargets'
      BY DEF SInv, IInv, Holding, RecordIsHeld, RecordsHaveTargets
    <3> QED BY <3>3, <3>4, <3>5, StepOfOne
  <2>2. CASE UNCHANGED vars
    <3>1. \A w \in Windows : Holders(w)' = Holders(w)
      BY <2>2 DEF vars, Holders
    <3>2. \A w \in Windows : \A s \in Holders(w) :
            owner'[s] = owner[s] /\ record'[s] = record[s]
      BY <2>2 DEF vars
    <3> QED BY <3>1, <3>2, OthersStay, MappedTypes DEF Lease!vars
  <2> QED BY <2>1, <2>2
<1> QED BY <1>1, <1>2, SessionInvariance, PTL DEF Spec, LeaseSpec, Lease!Spec
-----------------------------------------------------------------------------
(* What the two exceptions for a refused hand-back amount to: a session in *)
(* `kept' is one whose window tmux did not give back, and where tmux never *)
(* fails the two invariants hold without them.                             *)

KeptIsRefused == \A s \in kept : owner[s] = "mobile" /\ MayFail

\* Only a refused hand-back adds a session to `kept', and whoever takes the
\* window to the desktop removes it.
LEMMA KeptIsRefusedKept ==
  ASSUME TypeOK, KeptIsRefused, NEW c \in Sockets, Step(c)
  PROVE  KeptIsRefused'
<1> USE DEF KeptIsRefused, MayFail
<1>1. ASSUME NEW S \in SUBSET Sockets, HandsBack(S) PROVE KeptIsRefused'
  BY <1>1 DEF HandsBack, TypeOK
<1>2. CASE UNCHANGED <<owner, kept>>
  BY <1>2
<1>3. CASE Claiming(c)
  <2>1. CASE ClaimTakesEffect(c)
    <3>1. claimOf[c] \in Sockets BY DEF TypeOK
    <3> QED BY <2>1, <3>1 DEF ClaimTakesEffect, TypeOK
  <2>2. CASE ClaimReturns(c)
    BY <1>1, <1>2, <2>2 DEF ClaimReturns, RestoreDesktop, Live
  <2>3. CASE DesktopTakesOver(c) BY <2>3 DEF DesktopTakesOver, TypeOK
  <2> QED BY <1>2, <1>3, <2>1, <2>2, <2>3 DEF Claiming, ClaimFails, Claim
<1>4. CASE Closes(c)
  BY <1>1, <1>4 DEF Closes, TransportGone, Live
<1>5. CASE RetryPrepare(c) \/ \E t \in Targets : AttachFresh(c, t)
  BY <1>5 DEF RetryPrepare, AttachFresh, Prepare, TypeOK
<1>6. ASSUME NEW s \in Sockets, NEW T \in SUBSET Sockets, Replay(c, s, T)
      PROVE  KeptIsRefused'
  BY <1>1, <1>2, <1>6 DEF Replay, ReplaySent, ReplayCut, ReplayUnheard
<1>7. CASE AttachReturns(c)
  <2>1. CASE AttachServed(c) BY <1>6, <2>1 DEF AttachServed
  <2>2. CASE AttachUnserved(c) BY <1>1, <2>2 DEF AttachUnserved
  <2> QED BY <1>2, <1>7, <2>1, <2>2 DEF AttachReturns, AttachStale,
  AttachRefused
<1>8. CASE ResumeResized(c)
  <2>1. resuming[c] \in Sockets BY DEF TypeOK
  <2> QED BY <1>6, <1>8, <2>1 DEF ResumeResized
<1>9. CASE FrameDropped(c) \/ \E full \in BOOLEAN : SendOutput(c, full)
  BY <1>1, <1>2, <1>9 DEF FrameDropped, SendOutput, Backpressure, Live
<1>10. CASE FinalizeKilled(c) \/ MobileClientDetached(c)
  BY <1>10 DEF FinalizeKilled, MobileClientDetached
<1>11. CASE \/ ParkingReturns(c) \/ TimerFires(c) \/ Detach(c) \/ PtyExits(c)
            \/ \E s \in Sockets : EvictNext(c, s)
  BY <1>2, <1>11 DEF ParkingReturns, TimerFires, EvictNext, Detach, PtyExits
<1>12. CASE \/ SpawnPty(c) \/ ReturnDone(c) \/ AttachFailed(c) \/ ResumeSwap(c)
            \/ ResumeAbandoned(c) \/ ResumeFails(c) \/ FinalizeDone(c)
            \/ Connect(c) \/ \E s \in Sockets : AttachResume(c, s)
  BY <1>2, <1>12 DEF SpawnPty, ReturnDone, AttachFailed, ResumeSwap,
     ResumeAbandoned, ResumeFails, FinalizeDone, Connect, AttachResume
<1>13. CASE \E full \in BOOLEAN : BufferOutput(c, full) \/ SilentOutput(c,
full)
  BY <1>2, <1>13 DEF BufferOutput, SilentOutput
<1> QED BY <1>3, <1>4, <1>5, <1>7, <1>8, <1>9, <1>10, <1>11, <1>12, <1>13
        DEF Step

\* A window whose desktop meant to have it back is the phone's only after a
\* restore that failed (returnToDesktop, viewport-manager.ts 592-602): where
\* no command of tmux fails, it is the desktop's.
HonouredUnlessRefused ==
  \A s \in Sockets :
     (s \in lease /\ record[s] = "attached" /\ Settled(s) /\ intent[s] = "desktop")
       => \/ owner[s] = "desktop"
          \/ MayFail /\ owner[s] = "mobile" /\ s \in kept

\* What IntentHonoured leaves open is a hand-back that tmux refused, in an
\* instance where its commands may fail, and nothing else.
THEOREM OnlyARefusalKeepsTheWindow == Spec => []HonouredUnlessRefused
<1>1. Init => KeptIsRefused BY DEF Init, KeptIsRefused
<1>2. IInv /\ KeptIsRefused /\ [Next]_vars => KeptIsRefused'
  <2> SUFFICES ASSUME IInv, KeptIsRefused, [Next]_vars PROVE KeptIsRefused'
    OBVIOUS
  <2>1. CASE Next
    <3>1. PICK c \in Sockets : Step(c) BY <2>1, NextIsStep
    <3> QED BY <3>1, KeptIsRefusedKept DEF IInv
  <2>2. CASE UNCHANGED vars BY <2>2 DEF vars, KeptIsRefused
  <2> QED BY <2>1, <2>2
<1>3. IInv /\ KeptIsRefused => HonouredUnlessRefused
  BY DEF IInv, IntentHonoured, KeptIsRefused, HonouredUnlessRefused
<1> QED BY <1>1, <1>2, <1>3, Invariance, PTL DEF Spec
=============================================================================
