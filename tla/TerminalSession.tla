--------------------------- MODULE TerminalSession ---------------------------
(***************************************************************************)
(* packages/muximod/src/http/terminal-session.ts: the resumable terminal   *)
(* sessions of muximod, the registry they are found in, and the sockets    *)
(* that come and go under them.                                            *)
(*                                                                         *)
(* server.ts:526 builds one TerminalSession per accepted WebSocket, so a   *)
(* session is named by the socket it was built for.  A socket whose attach *)
(* frame carries resume credentials is handed over to the older session    *)
(* they name, and the session built for it is thrown away.                 *)
(*                                                                         *)
(* The program is one JavaScript thread: an action is what one handler     *)
(* does between two awaits, and a handler that waits is a program counter  *)
(* (attach, claim, finalizing, parking).  Calls on the viewport lease take *)
(* effect when they are made, as viewport-manager.ts runs them to the end  *)
(* before their promise exists; claimMobile, which the tests of the        *)
(* session also hold pending, takes effect at any time before it returns.  *)
(*                                                                         *)
(* `disposed' is st = "closed": the code assigns the two together.         *)
(***************************************************************************)
EXTENDS Naturals, FiniteSets

CONSTANTS
  Sockets,      \* the WebSocket connections, and the sessions built for them
  Targets,      \* the panes an attach frame may name
  WindowOf,     \* the tmux window a pane belongs to
  DeviceOf,     \* the authenticated device of a connection, or NoDevice
  NoDevice,
  None,         \* no socket
  GapMax,       \* chunks that TERMINAL_OUTPUT_GAP_MAX_BYTES holds
  Events        \* what an instance lets happen to running sessions

ASSUME GapAssumption == GapMax \in Nat
ASSUME NoneAssumption == None \notin Sockets
ASSUME TargetAssumption == None \notin Targets
ASSUME EventsAssumption ==
  Events \subseteq {"claim", "detach", "drop", "exit", "fail", "output",
                    "takeover", "unhook"}

VARIABLES
  sock,         \* readyState of each WebSocket ("new" before it is accepted)
  st,           \* TerminalSession.state, "none" before the constructor ran
  target,       \* the pane of the session
  bound,        \* the socket the session listens to
  last,         \* the socket of the current transportGeneration
  attach,       \* where the handler of a socket's attach frame waits
  resuming,     \* the older session a resuming socket is being handed to
  queue,        \* parked sessions an attach has still to look at
  awaited,      \* the session whose release that attach awaits
  registry,     \* sessions in TerminalSessionRegistry
  lease,        \* sessions whose `lease' field is set
  record,       \* the viewport manager's lease record of the session
  owner,        \* LeaseRecord.owner
  kept,         \* sessions whose last returnToDesktop failed (history)
  intent,       \* leaseOwnerIntent
  marker,       \* the claim that made the current leaseMutationGeneration
  pty,          \* sessions whose PTY process runs
  timer,        \* sessions whose resume timer is armed
  finalizing,   \* where finalizeTransport waits
  claim,        \* where the claim of a socket's input waits
  claimOf,      \* the session that claim is for
  parking,      \* the session whose handleTransportClosed awaits, per socket
  gap,          \* number of chunks in parkedOutput
  gapFull,      \* does parkedOutput hold a full repaint of the screen?
  overflowed,   \* parkedOutputOverflowed
  ready,        \* the session each socket was last told it is attached to
  known,        \* has a client received the current resume token?
  redraw,       \* has tmux a requested repaint still to emit?
  stale         \* does the client's screen miss output?

sockets  == <<sock, bound, last>>
handlers == <<attach, resuming, queue, awaited, claim, claimOf, parking>>
leases   == <<lease, record, owner, kept, intent, marker>>
screen   == <<gap, gapFull, overflowed, ready, known, redraw, stale>>
vars == <<sockets, handlers, leases, screen, st, target, registry, pty, timer,
          finalizing>>

States == {"none", "awaiting_attach", "attaching", "attached",
           "synchronizing", "parked", "closed"}

TypeOK ==
  /\ sock \in [Sockets -> {"new", "open", "closing", "closed"}]
  /\ st \in [Sockets -> States]
  /\ target \in [Sockets -> Targets \cup {None}]
  /\ bound \in [Sockets -> Sockets \cup {None}]
  /\ last \in [Sockets -> Sockets]
  /\ attach \in [Sockets -> {"idle", "evicting", "evicted", "spawning",
                             "connecting", "returning", "failing",
                             "tick", "resizing"}]
  /\ resuming \in [Sockets -> Sockets]
  /\ queue \in [Sockets -> SUBSET Sockets]
  /\ awaited \in [Sockets -> Sockets \cup {None}]
  /\ registry \in SUBSET Sockets
  /\ lease \in SUBSET Sockets
  /\ record \in [Sockets -> {"none", "prepared", "attached"}]
  /\ owner \in [Sockets -> {"mobile", "desktop"}]
  /\ kept \in SUBSET Sockets
  /\ intent \in [Sockets -> {"none", "mobile", "desktop"}]
  /\ marker \in [Sockets -> Sockets \cup {None}]
  /\ pty \in SUBSET Sockets
  /\ timer \in SUBSET Sockets
  /\ finalizing \in [Sockets -> {"no", "killing", "releasing", "done"}]
  /\ claim \in [Sockets -> {"idle", "calling", "effected", "failed"}]
  /\ claimOf \in [Sockets -> Sockets]
  /\ parking \in [Sockets -> Sockets \cup {None}]
  /\ gap \in [Sockets -> 0..GapMax]
  /\ gapFull \in SUBSET Sockets
  /\ overflowed \in SUBSET Sockets
  /\ ready \in [Sockets -> Sockets \cup {None}]
  /\ known \in SUBSET Sockets
  /\ redraw \in SUBSET Sockets
  /\ stale \in SUBSET Sockets

Init ==
  /\ sock = [c \in Sockets |-> "new"]
  /\ st = [c \in Sockets |-> "none"]
  /\ target = [c \in Sockets |-> None]
  /\ bound = [c \in Sockets |-> None]
  /\ last = [c \in Sockets |-> c]
  /\ attach = [c \in Sockets |-> "idle"]
  /\ resuming = [c \in Sockets |-> c]
  /\ queue = [c \in Sockets |-> {}]
  /\ awaited = [c \in Sockets |-> None]
  /\ registry = {}
  /\ lease = {}
  /\ record = [c \in Sockets |-> "none"]
  /\ owner = [c \in Sockets |-> "mobile"]
  /\ kept = {}
  /\ intent = [c \in Sockets |-> "none"]
  /\ marker = [c \in Sockets |-> None]
  /\ pty = {}
  /\ timer = {}
  /\ finalizing = [c \in Sockets |-> "no"]
  /\ claim = [c \in Sockets |-> "idle"]
  /\ claimOf = [c \in Sockets |-> c]
  /\ parking = [c \in Sockets |-> None]
  /\ gap = [c \in Sockets |-> 0]
  /\ gapFull = {}
  /\ overflowed = {}
  /\ ready = [c \in Sockets |-> None]
  /\ known = {}
  /\ redraw = {}
  /\ stale = {}

-----------------------------------------------------------------------------
(* Helpers of the class *)

\* isCurrentSocket, isCurrentTransport: c is open and s listens to it.
Current(c, s) == sock[c] = "open" /\ bound[s] = c /\ st[s] # "closed"

IsAttached(s) == st[s] = "attached" /\ s \in pty /\ s \in lease

IsAttachedOrParked(s) ==
  st[s] \in {"attached", "parked"} /\ s \in pty /\ s \in lease

\* A host command (tmux, the PTY) may fail in this instance.
MayFail == "fail" \in Events

\* The socket may report a dropped frame or backpressure.
MayDrop == "drop" \in Events

\* Mutant: only an attached client would hold its window.
FreeUnlessAttached(t) ==
  \A s \in Sockets :
     record[s] = "attached" => WindowOf[target[s]] # WindowOf[t]

\* TmuxViewportManager.prepare refuses a window that has a lease record.
Free(t) ==
  \A s \in Sockets : record[s] # "none" => WindowOf[target[s]] # WindowOf[t]

\* Mutant: sockets are dropped without being closed.
ClosingNothing(S) == [c \in Sockets |-> sock[c]]

\* closeSocket on a set of sockets: their close events come later.
Closing(S) ==
  [c \in Sockets |-> IF c \in S /\ sock[c] = "open" THEN "closing" ELSE sock[c]]

\* lease.returnToDesktop on sessions with a live record.  When restoreSnapshot
\* fails it returns as if nothing had happened, and the owner is still the
\* phone (viewport-manager.ts 592-602): `kept' remembers these sessions.
HandsBack(S) ==
  \E lost \in SUBSET {s \in S : owner[s] = "mobile"} :
     /\ lost # {} => MayFail
     /\ owner' = [s \in Sockets |-> IF s \in S \ lost THEN "desktop"
                                                    ELSE owner[s]]
     /\ kept' = (kept \ S) \cup lost

\* Sessions with a record that is neither released nor only prepared.
Live == {s \in Sockets : record[s] = "attached"}

\* markLeaseOwnerIntent; only a claim compares the generation it got.
Mark(S, who, by) ==
  /\ intent' = [s \in Sockets |-> IF s \in S THEN who ELSE intent[s]]
  /\ marker' = [s \in Sockets |-> IF s \in S THEN by ELSE marker[s]]

\* The part of finalizeTransport before its first await.
Finalize(S) ==
  /\ st' = [s \in Sockets |-> IF s \in S THEN "closed" ELSE st[s]]
  /\ finalizing' = [s \in Sockets |-> IF s \in S THEN "killing"
                                                 ELSE finalizing[s]]
  /\ timer' = timer \ S
  /\ gap' = [s \in Sockets |-> IF s \in S THEN 0 ELSE gap[s]]
  /\ gapFull' = gapFull \ S
  /\ overflowed' = overflowed \ S
  /\ known' = known \ S
  /\ redraw' = redraw \ S
  /\ stale' = stale \ S

-----------------------------------------------------------------------------
(* Sockets *)

\* server.ts:526 accepts a terminal WebSocket and builds its session.
Connect(c) ==
  /\ sock[c] = "new"
  /\ sock' = [sock EXCEPT ![c] = "open"]
  /\ st' = [st EXCEPT ![c] = "awaiting_attach"]
  /\ bound' = [bound EXCEPT ![c] = c]
  /\ UNCHANGED <<last, handlers, leases, screen, target, registry, pty, timer,
                 finalizing>>

\* handleTransportClosed, for every session that listens to c.
TransportGone(c) ==
  LET heard == {s \in Sockets : bound[s] = c /\ st[s] # "closed"}
      fresh == {s \in heard : st[s] = "awaiting_attach"}
      parked == heard \ fresh
  IN /\ sock' = [sock EXCEPT ![c] = "closed"]
     /\ bound' = [s \in Sockets |-> IF s \in heard THEN None ELSE bound[s]]
     /\ st' = [s \in Sockets |-> CASE s \in fresh -> "closed"
                                   [] s \in parked -> "parked"
                                   [] OTHER -> st[s]]
     /\ finalizing' = [s \in Sockets |-> IF s \in fresh THEN "done"
                                                        ELSE finalizing[s]]
     /\ Mark(parked, "desktop", None)
     /\ HandsBack(parked \cap lease \cap Live)
     /\ parking' = [parking EXCEPT ![c] = IF parked = {} THEN None
                                          ELSE CHOOSE s \in parked : TRUE]
     /\ UNCHANGED <<last, attach, resuming, queue, awaited, claim, claimOf,
                    lease, record, gap, gapFull, overflowed, ready, known,
                    redraw, stale, target, registry, pty, timer>>

\* The peer, the network or the auth registry ends the connection: the
\* transport changes its readyState as it reports the close.
NetworkClose(c) == sock[c] = "open" /\ TransportGone(c)

\* The close event of a socket the session itself closed.
CloseEvent(c) == sock[c] = "closing" /\ TransportGone(c)

\* Mutant: the handler asks for the transport it has itself unbound.
ParkingReturnsIfBound(c) ==
  /\ parking[c] # None
  /\ timer' = IF bound[parking[c]] = c THEN timer \cup {parking[c]} ELSE timer
  /\ parking' = [parking EXCEPT ![c] = None]
  /\ UNCHANGED <<sockets, attach, resuming, queue, awaited, claim, claimOf,
                 leases, screen, st, target, registry, pty, finalizing>>

\* handleTransportClosed after its await.
ParkingReturns(c) ==
  /\ parking[c] # None
  /\ LET s == parking[c] IN
       timer' = IF last[s] = c /\ st[s] = "parked" THEN timer \cup {s} ELSE timer
  /\ parking' = [parking EXCEPT ![c] = None]
  /\ UNCHANGED <<sockets, attach, resuming, queue, awaited, claim, claimOf,
                 leases, screen, st, target, registry, pty, finalizing>>

\* The callback of scheduleResumeExpiry.
TimerFires(s) ==
  /\ s \in timer
  /\ \/ /\ st[s] \in {"parked", "attaching"}
        /\ Finalize({s})
     \/ /\ st[s] \notin {"parked", "attaching"}
        /\ timer' = timer \ {s}
        /\ UNCHANGED <<st, finalizing, gap, gapFull, overflowed, known, redraw,
                       stale>>
  /\ UNCHANGED <<sockets, handlers, leases, ready, target, registry,
                 pty>>
-----------------------------------------------------------------------------
(* A fresh attach *)

\* viewportManager.prepare: the window is the mobile's from now on.
Prepare(c, t) ==
  /\ Free(t)
  /\ record' = [record EXCEPT ![c] = "prepared"]
  /\ owner' = [owner EXCEPT ![c] = "mobile"]
  /\ UNCHANGED kept
  /\ attach' = [attach EXCEPT ![c] = "spawning"]

\* The client closes the socket of an attach that failed or got no answer
\* (onError and failHandshake of -terminal/viewmodel.ts): it sends a second
\* attach frame only when registry.find refused the first.
AttachFrame(c) ==
  /\ st[c] = "awaiting_attach" /\ Current(c, c) /\ attach[c] = "idle"
  /\ target[c] = None /\ resuming[c] = c

AttachFresh(c, t) ==
  /\ AttachFrame(c)
  /\ st' = [st EXCEPT ![c] = "attaching"]
  /\ target' = [target EXCEPT ![c] = t]
  /\ \/ Prepare(c, t) /\ UNCHANGED queue
     \/ /\ ~Free(t)                       \* isViewportLeaseConflict
        /\ attach' = [attach EXCEPT ![c] = "evicting"]
        /\ queue' = [queue EXCEPT ![c] = registry]
        /\ UNCHANGED <<record, owner, kept>>
     \/ /\ MayFail                         \* the pane is gone
        /\ attach' = [attach EXCEPT ![c] = "failing"]
        /\ UNCHANGED <<queue, record, owner, kept>>
  /\ UNCHANGED <<sockets, resuming, awaited, claim, claimOf, parking, lease,
                 intent, marker, screen, registry, pty, timer, finalizing>>

\* releaseIfParkedForAttach
Evictable(s, c) ==
  /\ DeviceOf[s] = DeviceOf[c] /\ st[s] = "parked"
  /\ target[s] = target[c] => DeviceOf[c] # NoDevice

Evicting(c) == /\ attach[c] \in {"evicting", "evicted"}
               /\ awaited[c] # None => finalizing[awaited[c]] = "done"

\* One turn of the loop of releaseParkedForAttach.
EvictNext(c, s) ==
  /\ Evicting(c) /\ s \in queue[c]
  /\ queue' = [queue EXCEPT ![c] = @ \ {s}]
  /\ \/ /\ Evictable(s, c)
        /\ Finalize({s})
        /\ awaited' = [awaited EXCEPT ![c] = s]
        /\ attach' = [attach EXCEPT ![c] = "evicted"]
     \/ /\ ~Evictable(s, c)
        /\ awaited' = [awaited EXCEPT ![c] = None]
        /\ UNCHANGED <<attach, st, finalizing, timer, gap, gapFull, overflowed,
                       known, redraw, stale>>
  /\ UNCHANGED <<sockets, resuming, claim, claimOf, parking, leases, ready,
                 target, registry, pty>>

\* The second prepare, when something was released; it may conflict again.
RetryPrepare(c) ==
  /\ Evicting(c) /\ queue[c] = {}
  /\ \/ attach[c] = "evicted" /\ Prepare(c, target[c])
     \/ /\ attach[c] = "evicting" \/ ~Free(target[c])
        /\ attach' = [attach EXCEPT ![c] = "failing"]
        /\ UNCHANGED <<record, owner, kept>>
  /\ awaited' = [awaited EXCEPT ![c] = None]
  /\ UNCHANGED <<sockets, resuming, queue, claim, claimOf, parking, lease,
                 intent, marker, screen, st, target, registry, pty, timer,
                 finalizing>>

\* spawnPty and the call of prepared.attach.
SpawnPty(c) ==
  /\ attach[c] = "spawning"
  /\ \/ /\ pty' = pty \cup {c}
        /\ attach' = [attach EXCEPT ![c] = "connecting"]
     \/ /\ MayFail
        /\ attach' = [attach EXCEPT ![c] = "failing"]
        /\ UNCHANGED pty
  /\ UNCHANGED <<sockets, resuming, queue, awaited, claim, claimOf, parking,
                 leases, screen, st, target, registry, timer, finalizing>>

\* The frames go out, and the session built for a resuming socket is thrown
\* away.
ReplaySent(c, s, temporary) ==
  /\ sock[c] = "open"
  /\ st' = [x \in Sockets |-> CASE x = s -> "attached"
                                [] x \in temporary -> "closed"
                                [] OTHER -> st[x]]
  /\ bound' = [x \in Sockets |-> IF x \in temporary THEN None ELSE bound[x]]
  /\ finalizing' = [x \in Sockets |-> IF x \in temporary THEN "done"
                                                          ELSE finalizing[x]]
  /\ ready' = [ready EXCEPT ![c] = s]
  /\ known' = known \cup {s}
  /\ overflowed' = overflowed \ {s}
  /\ stale' = IF s \in gapFull THEN stale \ {s} ELSE stale
  /\ UNCHANGED <<sock, owner, kept, intent, marker, timer>>

\* The socket reports a dropped frame or backpressure on any of them:
\* handleTransportBackpressure.
ReplayCut(c, s) ==
  /\ MayDrop /\ sock[c] = "open"
  /\ st' = [st EXCEPT ![s] = "parked"]
  /\ \/ ready' = [ready EXCEPT ![c] = s] /\ known' = known \cup {s}
     \/ ready' = ready /\ known' = known \ {s}
  /\ overflowed' = overflowed \cup {s}
  /\ stale' = stale \cup {s}
  /\ sock' = Closing({c})
  /\ HandsBack({x \in {s} : record'[x] = "attached"})
  /\ Mark({s}, "desktop", None)
  /\ timer' = timer \cup {s}
  /\ UNCHANGED <<bound, finalizing>>

\* The socket is not open: every frame is dropped silently.
ReplayUnheard(c, s) ==
  /\ sock[c] # "open"
  /\ st' = [st EXCEPT ![s] = "attached"]
  /\ overflowed' = overflowed \ {s}
  /\ stale' = IF gap[s] > 0 THEN stale \cup {s} ELSE stale
  /\ known' = known \ {s}
  /\ UNCHANGED <<sock, bound, finalizing, ready, owner, kept, intent,
                 marker, timer>>

\* sendReady and the buffered output, on the socket c of session s.
Replay(c, s, temporary) ==
  /\ gap' = [gap EXCEPT ![s] = 0]
  /\ gapFull' = gapFull \ {s}
  /\ redraw' = IF s \in overflowed THEN redraw \cup {s} ELSE redraw
  /\ registry' = registry \cup {s}
  /\ ReplaySent(c, s, temporary) \/ ReplayCut(c, s) \/ ReplayUnheard(c, s)

\* The session was closed while it attached: releaseLease.
AttachStale(c) ==
  /\ st[c] = "closed"
  /\ record' = [record EXCEPT ![c] = "none"]
  /\ attach' = [attach EXCEPT ![c] = "idle"]
  /\ UNCHANGED <<sock, bound, screen, st, registry, timer, finalizing, lease,
                 owner, kept, intent, marker>>

\* From here to sendReady there is one await, lease.refresh, which
\* completes at once.
AttachServed(c) ==
  /\ st[c] # "closed" /\ bound[c] # None
  /\ record' = [record EXCEPT ![c] = "attached"]
  /\ lease' = lease \cup {c}
  /\ attach' = [attach EXCEPT ![c] = "idle"]
  /\ Replay(c, c, {})

\* The socket went away: the session parks, the desktop has the window.
AttachUnserved(c) ==
  /\ st[c] # "closed" /\ bound[c] = None
  /\ record' = [record EXCEPT ![c] = "attached"]
  /\ lease' = lease \cup {c}
  /\ attach' = [attach EXCEPT ![c] = "returning"]
  /\ st' = [st EXCEPT ![c] = "parked"]
  /\ registry' = registry \cup {c}
  /\ HandsBack({c})
  /\ Mark({c}, "desktop", None)
  /\ UNCHANGED <<sock, bound, screen, timer, finalizing>>

\* No tmux client appeared within two seconds, or a tmux command failed.
AttachRefused(c) ==
  /\ MayFail
  /\ attach' = [attach EXCEPT ![c] = "failing"]
  /\ UNCHANGED <<sock, bound, screen, st, registry, timer, finalizing, leases>>

\* prepared.attach returns: the tmux client of the PTY appeared.
AttachReturns(c) ==
  /\ attach[c] = "connecting"
  /\ AttachStale(c) \/ AttachServed(c) \/ AttachUnserved(c) \/ AttachRefused(c)
  /\ UNCHANGED <<last, resuming, queue, awaited, claim, claimOf, parking,
                 target, pty>>

\* The end of attachFresh for a session whose socket went away meanwhile.
ReturnDone(c) ==
  /\ attach[c] = "returning"
  /\ attach' = [attach EXCEPT ![c] = "idle"]
  /\ timer' = timer \cup {c}
  /\ UNCHANGED <<sockets, resuming, queue, awaited, claim, claimOf, parking,
                 leases, screen, st, target, registry, pty, finalizing>>

\* The catch block of attachFresh, after the PTY was killed.
AttachFailed(c) ==
  /\ attach[c] = "failing"
  /\ attach' = [attach EXCEPT ![c] = "idle"]
  /\ pty' = pty \ {c}
  /\ record' = [record EXCEPT ![c] = "none"]
  /\ lease' = lease \ {c}
  /\ registry' = registry \ {c}
  /\ LET gone == st[c] = "closed" \/ bound[c] = None
     IN /\ st' = [st EXCEPT ![c] = IF gone THEN "closed" ELSE "awaiting_attach"]
        /\ finalizing' = [finalizing EXCEPT ![c] = IF gone /\ @ = "no"
                                                   THEN "done" ELSE @]
  /\ UNCHANGED <<sockets, resuming, queue, awaited, claim, claimOf, parking,
                 owner, kept, intent, marker, screen, target, timer>>
-----------------------------------------------------------------------------
(* A resuming attach *)

\* handleAttach with the credentials of s: registry.find and canResumeTarget
\* accept them.  Only a client that received the ready frame has them.
AttachResume(c, s) ==
  /\ AttachFrame(c)
  /\ s \in registry /\ s \in known /\ DeviceOf[s] = DeviceOf[c]
  /\ IsAttachedOrParked(s)
  /\ attach' = [attach EXCEPT ![c] = "tick"]
  /\ resuming' = [resuming EXCEPT ![c] = s]
  /\ UNCHANGED <<sockets, queue, awaited, claim, claimOf, parking, leases,
                 screen, st, target, registry, pty, timer, finalizing>>

\* resumeSocket up to its first await: the new transport replaces the old
\* one, and the viewport keeps its owner.
ResumeSwap(c) ==
  LET s == resuming[c]
      previous == bound[s]
  IN /\ attach[c] = "tick"
     /\ Current(c, c) /\ IsAttachedOrParked(s)
     /\ attach' = [attach EXCEPT ![c] = "resizing"]
     /\ sock' = Closing({previous} \ {c})
     /\ bound' = [bound EXCEPT ![s] = c]
     /\ last' = [last EXCEPT ![s] = c]
     /\ timer' = timer \ {s}
     /\ Mark({s}, IF intent[s] = "desktop" THEN "desktop" ELSE owner[s], None)
     /\ st' = [st EXCEPT ![s] = "synchronizing"]
     /\ UNCHANGED <<resuming, queue, awaited, claim, claimOf, parking, lease,
                    record, owner, kept, gap, gapFull, overflowed, ready, known,
                    redraw, stale, target, registry, pty, finalizing>>

\* Either socket went away, or resumeSocket refused (resume_unavailable).
ResumeAbandoned(c) ==
  /\ \/ attach[c] = "tick" /\ ~(Current(c, c) /\ IsAttachedOrParked(resuming[c]))
     \/ attach[c] = "resizing" /\ ~(Current(c, c) /\ Current(c, resuming[c]))
  /\ attach' = [attach EXCEPT ![c] = "idle"]
  /\ UNCHANGED <<sockets, resuming, queue, awaited, claim, claimOf, parking,
                 leases, screen, st, target, registry, pty, timer, finalizing>>

\* lease.resize and pty.resize have returned, each with the same check.
ResumeResized(c) ==
  LET s == resuming[c]
  IN /\ attach[c] = "resizing" /\ Current(c, c) /\ Current(c, s)
     /\ attach' = [attach EXCEPT ![c] = "idle"]
     /\ UNCHANGED <<last, resuming, queue, awaited, claim, claimOf, parking,
                    lease, record, target, pty>>
     /\ Replay(c, s, {c})

\* Mutant: the error is reported and the session left as it is.
ResumeFailsStuck(c) ==
  LET s == resuming[c]
  IN /\ MayFail
     /\ attach[c] = "resizing" /\ Current(c, c) /\ Current(c, s)
     /\ attach' = [attach EXCEPT ![c] = "idle"]
     /\ UNCHANGED <<sockets, resuming, queue, awaited, claim, claimOf, parking,
                    leases, screen, st, target, registry, pty, timer,
                    finalizing>>

\* One of them failed: resumable again, on another transport.
ResumeFails(c) ==
  LET s == resuming[c]
  IN /\ MayFail
     /\ attach[c] = "resizing" /\ Current(c, c) /\ Current(c, s)
     /\ attach' = [attach EXCEPT ![c] = "idle"]
     /\ st' = [st EXCEPT ![s] = "parked"]
     /\ timer' = timer \cup {s}
     /\ sock' = Closing({c})
     /\ UNCHANGED <<bound, last, resuming, queue, awaited, claim, claimOf,
                    parking, leases, screen, target, registry, pty, finalizing>>
-----------------------------------------------------------------------------
(* Input of the client: claimMobileForInput *)

\* A claim, terminal input, copy mode, tmux buffer or image paste frame.
\* One claim of each socket is in flight at a time.
Claim(c, s) ==
  /\ Current(c, s) /\ IsAttached(s) /\ claim[c] = "idle"
  /\ claim' = [claim EXCEPT ![c] = "calling"]
  /\ claimOf' = [claimOf EXCEPT ![c] = s]
  /\ Mark({s}, "mobile", c)
  /\ UNCHANGED <<sockets, attach, resuming, queue, awaited, parking, lease,
                 record, owner, kept, screen, st, target, registry, pty, timer,
                 finalizing>>

\* TmuxViewportManager.claimMobile on the record of the lease.
ClaimTakesEffect(c) ==
  /\ claim[c] = "calling"
  /\ claim' = [claim EXCEPT ![c] = "effected"]
  /\ owner' = [owner EXCEPT ![claimOf[c]] =
                 IF record[claimOf[c]] = "attached" THEN "mobile" ELSE @]
  /\ kept' = kept \ {claimOf[c]}
  /\ UNCHANGED <<sockets, attach, resuming, queue, awaited, claimOf, parking,
                 lease, record, intent, marker, screen, st, target, registry,
                 pty, timer, finalizing>>

\* A tmux command of the claim fails, before or after the owner changed.
ClaimFails(c) ==
  /\ MayFail /\ claim[c] \in {"calling", "effected"}
  /\ claim' = [claim EXCEPT ![c] = "failed"]
  /\ UNCHANGED <<sockets, attach, resuming, queue, awaited, claimOf, parking,
                 leases, screen, st, target, registry, pty, timer, finalizing>>

\* Mutant: a claim restores the desktop only if nobody spoke after it.
RestoreDesktopIfLast(c, s) ==
  /\ Mark(IF marker[s] = c THEN {s} ELSE {}, "desktop", None)
  /\ IF marker[s] = c THEN HandsBack({s} \cap Live)
                      ELSE UNCHANGED <<owner, kept>>

\* restoreDesktopAfterStaleClaim
RestoreDesktop(c, s) ==
  /\ Mark(IF marker[s] = c THEN {s} ELSE {}, "desktop", None)
  /\ IF intent'[s] = "desktop" THEN HandsBack({s} \cap Live)
                               ELSE UNCHANGED <<owner, kept>>

\* Mutant: the claim returns without looking at its socket.
ClaimReturnsUnchecked(c) ==
  /\ claim[c] \in {"effected", "failed"}
  /\ claim' = [claim EXCEPT ![c] = "idle"]
  /\ UNCHANGED <<sockets, attach, resuming, queue, awaited, claimOf, parking,
                 leases, screen, st, target, registry, pty, timer, finalizing>>

\* Back in claimMobileForInput: a live claim writes its input to the PTY.
ClaimReturns(c) ==
  LET s == claimOf[c]
  IN /\ claim[c] \in {"effected", "failed"}
     /\ claim' = [claim EXCEPT ![c] = "idle"]
     /\ IF Current(c, s) THEN UNCHANGED <<owner, kept, intent, marker>>
                         ELSE RestoreDesktop(c, s)
     /\ UNCHANGED <<sockets, attach, resuming, queue, awaited, claimOf, parking,
                    lease, record, screen, st, target, registry, pty, timer,
                    finalizing>>

\* A detach frame: every session that listens to the socket finalizes.
Detach(c) ==
  /\ \E s \in Sockets : Current(c, s)
  /\ Finalize({s \in Sockets : Current(c, s)})
  /\ UNCHANGED <<sockets, handlers, leases, ready, target, registry,
                 pty>>
-----------------------------------------------------------------------------
(* The runtime: finalizeTransport, the PTY and its output *)

\* Mutant: the lease is forgotten and not released.
FinalizeKilledOnly(s) ==
  /\ finalizing[s] = "killing"
  /\ finalizing' = [finalizing EXCEPT ![s] = "releasing"]
  /\ pty' = pty \ {s}
  /\ lease' = lease \ {s}
  /\ UNCHANGED <<sockets, handlers, record, owner, kept, intent, marker,
                 screen, st, target, registry, timer>>

\* stopRuntime: pty.kill returns, the lease is released.
FinalizeKilled(s) ==
  /\ finalizing[s] = "killing"
  /\ finalizing' = [finalizing EXCEPT ![s] = "releasing"]
  /\ pty' = pty \ {s}
  /\ lease' = lease \ {s}
  /\ record' = [record EXCEPT ![s] = IF s \in lease THEN "none" ELSE @]
  /\ kept' = kept \ {s}
  /\ UNCHANGED <<sockets, handlers, owner, intent, marker, screen, st, target,
                 registry, timer>>

FinalizeDone(s) ==
  /\ finalizing[s] = "releasing"
  /\ finalizing' = [finalizing EXCEPT ![s] = "done"]
  /\ registry' = registry \ {s}
  /\ bound' = [bound EXCEPT ![s] = None]
  /\ sock' = Closing({bound[s]})
  /\ UNCHANGED <<last, handlers, leases, screen, st, target, pty, timer>>

\* handlePtyExit; after a kill `pty' is unset and the exit is ignored.
PtyExits(s) ==
  /\ s \in pty
  /\ pty' = pty \ {s}
  /\ IF st[s] = "closed" \/ attach[s] = "failing"
     THEN UNCHANGED <<st, finalizing, timer, gap, gapFull, overflowed, known,
                      redraw, stale>>
     ELSE Finalize({s})
  /\ UNCHANGED <<sockets, handlers, leases, ready, target, registry>>

\* releaseRecord killed the tmux session of the PTY's client.
KilledPtyExits(s) == st[s] = "closed" /\ record[s] = "none" /\ PtyExits(s)

Buffering(s) == st[s] \in {"attaching", "parked", "synchronizing"}

\* Mutant: the session is parked, the dropped frame is forgotten.
BackpressureForgotten(s) ==
  LET park == IF st[s] = "attached" THEN {s} ELSE {}
  IN /\ sock' = Closing({bound[s]})
     /\ st' = [st EXCEPT ![s] = IF s \in park THEN "parked" ELSE @]
     /\ Mark(park \cap lease, "desktop", None)
     /\ HandsBack(park \cap lease \cap Live)
     /\ timer' = timer \cup park
     /\ UNCHANGED overflowed

\* handleTransportBackpressure: the screen of s has to be drawn again.
Backpressure(s) ==
  LET park == IF st[s] = "attached" THEN {s} ELSE {}
  IN /\ overflowed' = overflowed \cup {s}
     /\ sock' = Closing({bound[s]})
     /\ st' = [st EXCEPT ![s] = IF s \in park THEN "parked" ELSE @]
     /\ Mark(park \cap lease, "desktop", None)
     /\ HandsBack(park \cap lease \cap Live)
     /\ timer' = timer \cup park

\* Some other frame (pong, viewport, error) meets backpressure.
FrameDropped(s) ==
  /\ bound[s] # None /\ Current(bound[s], s)
  /\ Backpressure(s)
  /\ UNCHANGED <<bound, last, handlers, lease, record, gap, gapFull, ready,
                 known, redraw, stale, target, registry, pty,
                 finalizing>>

\* nextBytes <= TERMINAL_OUTPUT_GAP_MAX_BYTES
RoomInGap(s) == gap[s] < GapMax

\* handlePtyOutput of a chunk; `full' is the repaint that refresh asked for.
BufferOutput(s, full) ==
  /\ s \in pty /\ Buffering(s) /\ (full => s \in redraw)
  /\ redraw' = IF full THEN redraw \ {s} ELSE redraw
  /\ \/ /\ RoomInGap(s)
        /\ gap' = [gap EXCEPT ![s] = @ + 1]
        /\ gapFull' = IF full THEN gapFull \cup {s} ELSE gapFull
        /\ UNCHANGED <<overflowed, stale>>
     \/ /\ ~RoomInGap(s)
        /\ gap' = [gap EXCEPT ![s] = 0]
        /\ gapFull' = gapFull \ {s}
        /\ overflowed' = overflowed \cup {s}
        /\ stale' = stale \cup {s}
  /\ UNCHANGED <<sockets, handlers, leases, ready, known, st, target,
                 registry, pty, timer, finalizing>>

SendOutput(s, full) ==
  /\ s \in pty /\ st[s] = "attached" /\ (full => s \in redraw)
  /\ bound[s] # None /\ Current(bound[s], s)
  /\ redraw' = IF full THEN redraw \ {s} ELSE redraw
  /\ \/ /\ stale' = IF full THEN stale \ {s} ELSE stale
        /\ UNCHANGED <<overflowed, sock, st, intent, marker, owner, kept,
                       timer>>
     \/ /\ MayDrop /\ Backpressure(s)     \* send reports 0 or -1
        /\ stale' = stale \cup {s}
  /\ UNCHANGED <<bound, last, handlers, lease, record, gap, gapFull, ready,
                 known, target, registry, pty, finalizing>>

\* sendBinary without an open socket.
SilentOutput(s, full) ==
  /\ s \in pty /\ st[s] = "attached" /\ (full => s \in redraw)
  /\ bound[s] = None \/ ~Current(bound[s], s)
  /\ redraw' = IF full THEN redraw \ {s} ELSE redraw
  /\ stale' = stale \cup {s}
  /\ UNCHANGED <<sockets, handlers, leases, gap, gapFull, overflowed, ready,
                 known, st, target, registry, pty, timer, finalizing>>

PtyOutput(s, full) ==
  BufferOutput(s, full) \/ SendOutput(s, full) \/ SilentOutput(s, full)
-----------------------------------------------------------------------------
(* What tmux does to the lease (viewport-manager.ts) *)

\* claimDesktop, from a hook or from the poll.
DesktopTakesOver(s) ==
  /\ record[s] = "attached" /\ owner[s] = "mobile"
  /\ owner' = [owner EXCEPT ![s] = "desktop"]
  /\ kept' = kept \ {s}
  /\ UNCHANGED <<sockets, handlers, lease, record, intent, marker, screen, st,
                 target, registry, pty, timer, finalizing>>

\* client-detached of the mobile client: the record goes, the session stays.
MobileClientDetached(s) ==
  /\ record[s] = "attached"
  /\ record' = [record EXCEPT ![s] = "none"]
  /\ kept' = kept \ {s}
  /\ UNCHANGED <<sockets, handlers, lease, owner, intent, marker, screen, st,
                 target, registry, pty, timer, finalizing>>
-----------------------------------------------------------------------------
\* What the program does by itself, once it has begun.
Handlers ==
  \E c \in Sockets :
     \/ CloseEvent(c) \/ ParkingReturns(c) \/ TimerFires(c)
     \/ \E s \in Sockets : EvictNext(c, s)
     \/ RetryPrepare(c) \/ SpawnPty(c) \/ AttachReturns(c) \/ ReturnDone(c)
     \/ AttachFailed(c) \/ ResumeSwap(c) \/ ResumeAbandoned(c)
     \/ ResumeResized(c) \/ ResumeFails(c)
     \/ ClaimTakesEffect(c) \/ ClaimFails(c) \/ ClaimReturns(c)
     \/ FinalizeKilled(c) \/ FinalizeDone(c) \/ KilledPtyExits(c)

\* What clients, the network, shells and desktops do.
Environment ==
  \E c \in Sockets :
     \/ Connect(c) \/ NetworkClose(c)
     \/ \E t \in Targets : AttachFresh(c, t)
     \/ \E s \in Sockets : AttachResume(c, s)
     \/ "claim" \in Events /\ \E s \in Sockets : Claim(c, s)
     \/ "detach" \in Events /\ Detach(c)
     \/ "drop" \in Events /\ FrameDropped(c)
     \/ "exit" \in Events /\ PtyExits(c)
     \/ "output" \in Events /\ \E full \in BOOLEAN : PtyOutput(c, full)
     \/ "takeover" \in Events /\ DesktopTakesOver(c)
     \/ "unhook" \in Events /\ MobileClientDetached(c)

Next == Handlers \/ Environment

Spec == Init /\ [][Next]_vars

\* Promises settle, timers fire and close events are delivered.  Nothing
\* is assumed of clients, networks, desktops or shells, except that a PTY
\* ends once its tmux session was killed.
Fairness ==
  \A c \in Sockets :
     /\ WF_vars(CloseEvent(c)) /\ WF_vars(ParkingReturns(c))
     /\ WF_vars(TimerFires(c))
     /\ WF_vars(\E s \in Sockets : EvictNext(c, s)) /\ WF_vars(RetryPrepare(c))
     /\ WF_vars(SpawnPty(c)) /\ WF_vars(AttachReturns(c))
     /\ WF_vars(ReturnDone(c)) /\ WF_vars(AttachFailed(c))
     /\ WF_vars(ResumeSwap(c)) /\ WF_vars(ResumeAbandoned(c))
     /\ WF_vars(ResumeResized(c) \/ ResumeFails(c))
     /\ WF_vars(ClaimTakesEffect(c)) /\ WF_vars(ClaimReturns(c))
     /\ WF_vars(FinalizeKilled(c)) /\ WF_vars(FinalizeDone(c))
     /\ WF_vars(KilledPtyExits(c))

FairSpec == Spec /\ Fairness
-----------------------------------------------------------------------------
(* Properties *)

\* No claim of any socket is still in flight on session s.
Settled(s) == \A c \in Sockets : claimOf[c] = s => claim[c] = "idle"

\* Once the claims in flight are through, a lease whose session last meant
\* the desktop to have it is the desktop's, or tmux refused the last attempt
\* to restore it (viewport-manager.ts 599): a claim that a closed or replaced
\* socket left pending (claimMobileForInput, terminal-session.ts:678) never
\* keeps the window, and a resume (395) never takes it.
IntentHonoured ==
  \A s \in Sockets :
     (s \in lease /\ record[s] = "attached" /\ Settled(s) /\ intent[s] = "desktop")
       => owner[s] = "desktop" \/ s \in kept

\* A parked session that listens to no socket has given the window back, or
\* has at least tried since its last claim and was refused by tmux
\* (handleTransportClosed 780, attachFresh 562, restoreDesktop... 702).
ParkedHandsBack ==
  \A s \in Sockets :
     (st[s] = "parked" /\ bound[s] = None /\ record[s] = "attached"
        /\ s \in lease /\ Settled(s)) => owner[s] = "desktop" \/ s \in kept

\* A closed session whose handlers are through holds nothing: no lease
\* record, no registry entry, no PTY that will outlive its tmux session.
ReleasedWhenClosed ==
  \A s \in Sockets :
     (st[s] = "closed" /\ finalizing[s] = "done" /\ attach[s] = "idle")
       => record[s] = "none" /\ s \notin lease /\ s \notin registry

\* A parked session is on its way out of that state: its resume timer runs,
\* its socket is about to close, or the handler that arms the timer waits.
ParkedHasExit ==
  \A s \in Sockets :
     st[s] = "parked" =>
        \/ s \in timer \/ bound[s] # None \/ attach[s] # "idle"
        \/ \E c \in Sockets : parking[c] = s /\ last[s] = c

\* However a session ends or is left, nothing stays behind: both of them.
NothingIsLeftBehind == ReleasedWhenClosed /\ ParkedHasExit

\* A client that was told it is attached, on a socket still open, is the one
\* its session listens to: a replaced transport is closed (resumeSocket 411).
ServedIsBound ==
  \A c \in Sockets :
     (ready[c] # None /\ sock[c] = "open" /\ st[ready[c]] # "closed")
       => bound[ready[c]] = c

\* A window's lease, seen through the records of the sessions.
Windows == {WindowOf[t] : t \in Targets}
Holders(w) == {s \in Sockets : record[s] # "none" /\ WindowOf[target[s]] = w}
HolderOf == [w \in Windows |-> IF Holders(w) = {} THEN None
                               ELSE CHOOSE s \in Holders(w) : TRUE]
LiveWindows == {w \in Windows : \E s \in Holders(w) : record[s] = "attached"}
OwnerOf == [w \in Windows |-> IF \E s \in Holders(w) : owner[s] = "desktop"
                              THEN "desktop" ELSE "mobile"]
Lease == INSTANCE ViewportLease WITH
  Clients <- Sockets, NoClient <- None,
  holder <- HolderOf, live <- LiveWindows, owner <- OwnerOf

\* Whatever sockets, claims and resumes do, the windows are used as the
\* viewport port promises: one session at a time, freed before they change
\* hands (prepare at 499 and 506, release at 481, 491 and 872).
LeaseSpec == Lease!Spec

\* Output the client's screen misses is owed to it: the overflow flag, a
\* repaint tmux has still to emit, or one that waits in the gap buffer will
\* draw the screen again (handlePtyOutput 718, sendSocketData 652).
NoSilentGap ==
  \A s \in known \cap stale :
     st[s] \in {"attached", "parked", "synchronizing"}
       => s \in overflowed \/ s \in redraw \/ s \in gapFull

\* When no client is left, every window and every PTY is given up.
NobodyThere == \A c \in Sockets : sock[c] \in {"new", "closed"}
AllReleased == pty = {} /\ registry = {}
               /\ \A s \in Sockets : record[s] = "none"
AbandonedIsReleased == <>[]NobodyThere => <>[]AllReleased

\* An attach frame is always answered: the session leaves "attaching" and
\* "synchronizing".
AttachSettles ==
  \A s \in Sockets :
     st[s] \in {"attaching", "synchronizing"}
       ~> st[s] \notin {"attaching", "synchronizing"}
=============================================================================
