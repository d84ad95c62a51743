--------------------------- MODULE WebConnection ---------------------------
(***************************************************************************)
(* The terminal of the web client: usePaneViewModel keeps one WebSocket to *)
(* the daemon for the pane on the screen.  It is driven by the route, the  *)
(* user, the app going to the background and back, timers, a ticket        *)
(* request, and the events of sockets that may already be given up.        *)
(*                                                                         *)
(* JavaScript runs each of these callbacks to its end, with the promises   *)
(* it settles: an aborted ticket request is gone in the same step.  Only   *)
(* the wait for the detach of the pane left before cannot be aborted.      *)
(* A socket name stands for one WebSocket object at a time.                *)
(***************************************************************************)
EXTENDS Naturals, Sequences, FiniteSets

CONSTANTS
  Panes,
  Sockets,
  None,
  MaxFaults  \* bound on lost connections, refusals and needless restarts

ASSUME NoneAssumption == None \notin Sockets /\ None \notin Panes
ASSUME MaxFaultsAssumption == MaxFaults \in Nat

VARIABLES
  app,      \* appStateRef
  mounted,  \* the effect that owns the terminal is alive: not disposed
  target,   \* the pane on the screen, None when its data has gone away
  closed,   \* terminalClosedRef: do not connect unless the user asks
  ready,    \* terminalReadyRef
  status,
  current,  \* socketRef
  input,    \* the socket socketInputQueueRef is attached to
  attempt,  \* connect(): connectInFlight, what it awaits, is it out of date
  pending,  \* pendingDetachRef: the socket of a promise nobody awaits yet
  retry,    \* retryScheduledRef
  resume,   \* resumeRef is set
  kept,     \* the panes whose credentials are in the terminalResumeStore
  paste,    \* the binding of a paste that is being read
  sock,     \* the sockets, their wires and their ends at the daemon
  left,     \* the user detached or the session ended, and nobody asked again
  stranded, \* an attempt that was out of date ended with nothing after it
  faults

surface == <<app, mounted, target>>
screen == <<surface, pending>>
user == <<paste, left>>
vars == <<app, mounted, target, pending, closed, ready, status, current, input,
          attempt, retry, resume, kept, paste, sock, left, stranded, faults>>

-----------------------------------------------------------------------------
Live == {"connecting", "open"}

Unused == [state |-> "closed", pane |-> None, server |-> "idle",
           wire |-> <<>>, detach |-> FALSE, leaving |-> FALSE,
           timer |-> FALSE, silent |-> FALSE]

NoAttempt == [awaits |-> "nothing", left |-> None, stale |-> FALSE]
Ticket == [awaits |-> "ticket", left |-> None, stale |-> FALSE]
Detached(s) == [awaits |-> "detach", left |-> s, stale |-> FALSE]

(* closeNetworkSocket: from now on nothing but its close event is seen.    *)
Closing(socks, s) ==
  [socks EXCEPT ![s] = [Unused EXCEPT !.state = "closing",
                                      !.leaving = socks[s].leaving]]

GivenUp(socks, s) == IF s = None THEN socks ELSE Closing(socks, s)

(* socketInputQueue.detach(): what is typed from now on is dropped.        *)
Unready == ready' = FALSE /\ input' = None

Fault == /\ faults < MaxFaults
         /\ faults' = faults + 1

-----------------------------------------------------------------------------
(* Connecting.                                                             *)

(* scheduleReconnect *)
Retries == ~closed /\ app = "active"
ScheduleReconnect(otherwise) ==
  /\ retry' = (retry \/ Retries)
  /\ status' = IF Retries /\ ~retry THEN "connecting" ELSE otherwise

(* connect(), once its early returns have passed and no detach is awaited: *)
(* the socket before is given up, unless it is closing already.            *)
\* Mutant: a socket that is open already is overlooked.
ReplacedIfOpening(s) == s # None /\ sock[s].state = "connecting"
Replaced(s) == s # None /\ sock[s].state \in Live
Connects ==
  IF attempt.awaits # "nothing"
    THEN UNCHANGED <<ready, current, input, attempt, sock, stranded>>
    ELSE /\ attempt' = Ticket
         /\ sock' = IF Replaced(current) THEN Closing(sock, current) ELSE sock
         /\ current' = IF Replaced(current) THEN None ELSE current
         /\ ready' = (ready /\ ~Replaced(current))
         /\ input' = IF Replaced(current) THEN None ELSE input
         /\ stranded' = FALSE

(* cancelConnectAttempt *)
Cancelled(a) == IF a.awaits = "detach" THEN [a EXCEPT !.stale = TRUE]
                ELSE NoAttempt

RetryFires ==
  /\ retry
  /\ retry' = FALSE
  /\ IF Retries THEN Connects
     ELSE UNCHANGED <<ready, current, input, attempt, sock, stranded>>
  /\ UNCHANGED <<screen, closed, status, resume, kept, user, faults>>

Bound(s) == paste # None /\ paste.socket = s
Free(s) == sock[s].state = "closed" /\ ~Bound(s)
Dials(s) ==
  /\ Free(s) /\ s = CHOOSE f \in Sockets : Free(f)
  /\ sock' = [sock EXCEPT ![s] = [Unused EXCEPT
                !.state = "connecting", !.pane = target, !.timer = TRUE]]
  /\ current' = s

(* openMuximodTerminal has its ticket. *)
TicketArrives ==
  /\ attempt.awaits = "ticket"
  /\ attempt' = NoAttempt
  /\ \E s \in Sockets : Dials(s)
  /\ status' = "connecting"
  /\ UNCHANGED <<screen, closed, ready, input, retry, resume, kept, user,
                 stranded, faults>>

TicketFails ==
  /\ attempt.awaits = "ticket"
  /\ attempt' = NoAttempt
  /\ ScheduleReconnect("error")
  /\ Fault
  /\ UNCHANGED <<screen, closed, ready, current, input, resume, kept, user,
                 sock, stranded>>

(* handleOpen, sendAttach *)
Opens(s) ==
  /\ sock[s].state = "connecting" /\ ~sock[s].silent
  /\ sock' = [sock EXCEPT ![s].state = "open",
                          ![s].server = IF resume THEN "resuming"
                                        ELSE "attaching"]
  /\ UNCHANGED <<screen, closed, ready, status, current, input, attempt,
                 retry, resume, kept, user, stranded, faults>>

(* The promise of detachSocketAndWait settles, and the attempt that awaits *)
(* it goes on, unless something has happened since that outdates it.       *)
Outdated == attempt.stale \/ closed
Settled(s) == pending' = IF pending = s THEN None ELSE pending
\* Mutant: the attempt ends when the detach does.
DetachEndsAttempt(s) ==
  /\ attempt' = IF attempt.awaits = "detach" /\ attempt.left = s
                THEN NoAttempt ELSE attempt
  /\ Settled(s) /\ UNCHANGED stranded
\* Mutant: the promise never settles.
DetachForgotten(s) == UNCHANGED <<pending, attempt, stranded>>
DetachDone(s) ==
  /\ Settled(s)
  /\ IF attempt.awaits = "detach" /\ attempt.left = s
       THEN /\ attempt' = IF Outdated THEN NoAttempt ELSE Ticket
            /\ stranded' = (stranded \/ (Outdated /\ Retries))
       ELSE UNCHANGED <<attempt, stranded>>

(* failHandshake: the attach is not answered in time, or a ping is not.    *)
TimesOut(s) ==
  /\ s = current /\ sock[s].silent
  /\ sock[s].timer \/ (ready /\ app = "active")
  /\ sock' = Closing(sock, s)
  /\ Unready
  /\ ScheduleReconnect("error")
  /\ UNCHANGED <<screen, closed, current, attempt, resume, kept, user,
                 stranded, faults>>

(* The event "close", after "error" or alone. *)
Lost(s) ==
  /\ sock' = [sock EXCEPT ![s] = Unused]
  /\ DetachDone(s)
  /\ IF s # current
       THEN UNCHANGED <<ready, status, current, input, retry>>
       ELSE /\ Unready /\ current' = None
            /\ IF closed THEN UNCHANGED <<status, retry>>
               ELSE ScheduleReconnect("connecting")
  /\ UNCHANGED <<surface, closed, resume, kept, user>>

ClosesAtLast(s) ==
  /\ \/ sock[s].state = "closing"
     \/ /\ sock[s].state = "open" /\ sock[s].wire = <<>>
        /\ sock[s].server = "done" /\ ~sock[s].silent
  /\ Lost(s) /\ UNCHANGED faults

ConnectionLost(s) == sock[s].state \in Live /\ Lost(s) /\ Fault

(* Nothing arrives any more, what was on the wire included. *)
FallsSilent(s) ==
  /\ sock[s].state \in Live /\ ~sock[s].silent
  /\ sock' = [sock EXCEPT ![s].silent = TRUE, ![s].wire = <<>>]
  /\ Fault
  /\ UNCHANGED <<screen, closed, ready, status, current, input, attempt,
                 retry, resume, kept, user, stranded>>

-----------------------------------------------------------------------------
(* The daemon (its side of a socket is TerminalSession).  What it answers  *)
(* on a socket that is being left is left out: nobody reads it.            *)

Sends(s, message, next) ==
  /\ sock[s].state = "open" /\ ~sock[s].silent
  /\ sock' = [sock EXCEPT ![s].wire = Append(@, message), ![s].server = next]
  /\ UNCHANGED <<screen, closed, ready, status, current, input, attempt,
                 retry, resume, kept, user, stranded>>

Answers(s) ==
  /\ ~sock[s].leaving
  /\ sock[s].server \in {"resuming", "attaching"}
  /\ \/ Sends(s, "ready", "serving")
     \/ /\ sock[s].server = "resuming"
        /\ Sends(s, "resume_not_found", "idle")
  /\ UNCHANGED faults

(* An attach fails, or an operation of a session that goes on. *)
Fails(s) ==
  /\ ~sock[s].leaving
  /\ sock[s].server \in {"resuming", "attaching", "serving"}
  /\ LET next == IF sock[s].server = "serving" THEN "serving" ELSE "idle"
     IN  \E error \in {"refused", "failed"} : Sends(s, error, next)
  /\ Fault

(* The terminal exits, or a detach is handled: before an attach is, or     *)
(* after it failed, the socket is just closed.                             *)
EndsSession(s) ==
  /\ sock[s].server \in {"resuming", "attaching", "serving"}
  /\ sock[s].detach \/ sock[s].server = "serving"
  /\ Sends(s, "closed", "done") /\ UNCHANGED faults

ClosesUnattached(s) ==
  /\ sock[s].state = "open" /\ ~sock[s].silent
  /\ sock[s].server = "idle" /\ sock[s].detach
  /\ sock' = [sock EXCEPT ![s].server = "done"]
  /\ UNCHANGED <<screen, closed, ready, status, current, input, attempt,
                 retry, resume, kept, user, stranded, faults>>

-----------------------------------------------------------------------------
(* The messages of the daemon: the listener of the view model sees those   *)
(* of its socket, detachSocketAndWait the closed of one it waits for.      *)

Receives(s, message) ==
  /\ sock[s].state = "open" /\ sock[s].wire # <<>>
  /\ Head(sock[s].wire) = message

Read(s) == [sock EXCEPT ![s].wire = Tail(@)]

OnReady(s) ==
  /\ Receives(s, "ready") /\ s = current
  /\ IF app # "active"
       THEN /\ sock' = Closing(sock, s)
            /\ UNCHANGED <<closed, ready, status, input, resume, kept, left>>
       ELSE /\ sock' = [Read(s) EXCEPT ![s].timer = FALSE]
            /\ ready' = TRUE /\ input' = s /\ status' = "connected"
            /\ closed' = FALSE
            /\ resume' = TRUE /\ kept' = kept \cup {target}
            /\ left' = FALSE
  /\ UNCHANGED <<screen, current, attempt, retry, paste, stranded, faults>>

OnClosed(s) ==
  /\ Receives(s, "closed") /\ s = current
  /\ sock' = [Read(s) EXCEPT ![s].timer = FALSE]
  /\ Unready /\ status' = "closed"
  /\ closed' = TRUE
  /\ resume' = FALSE /\ kept' = kept \ {target}
  /\ left' = TRUE
  /\ UNCHANGED <<screen, current, attempt, retry, paste, stranded, faults>>

(* The fallback to a fresh attach on the same socket. *)
OnResumeNotFound(s) ==
  /\ Receives(s, "resume_not_found") /\ s = current
  /\ sock' = [Read(s) EXCEPT
                ![s].server = IF sock[s].detach THEN @ ELSE "attaching"]
  /\ resume' = FALSE /\ kept' = kept \ {target}
  /\ input' = None /\ status' = "connecting"
  /\ UNCHANGED <<screen, closed, ready, current, attempt, retry, user,
                 stranded, faults>>

(* An error that is not about an action of the user. *)
OnRefused(s) ==
  /\ Receives(s, "refused") /\ s = current
  /\ sock' = [Read(s) EXCEPT ![s].timer = FALSE]
  /\ ready' = FALSE /\ status' = "error"
  /\ UNCHANGED <<screen, closed, current, input, attempt, retry, resume, kept,
                 user, stranded, faults>>

OnFailed(s) ==
  /\ Receives(s, "failed") /\ s = current
  /\ sock' = Closing(sock, s)
  /\ Unready
  /\ ScheduleReconnect("error")
  /\ UNCHANGED <<screen, closed, current, attempt, resume, kept, user,
                 stranded, faults>>

OnDetached(s) ==
  /\ Receives(s, "closed") /\ sock[s].leaving
  /\ sock' = [Read(s) EXCEPT ![s].leaving = FALSE]
  /\ DetachDone(s)
  /\ UNCHANGED <<surface, closed, ready, status, current, input, retry, resume,
                 kept, user, faults>>

(* TERMINAL_DETACH_TIMEOUT_MS *)
DetachTimesOut(s) ==
  /\ sock[s].leaving
  /\ sock' = [Closing(sock, s) EXCEPT ![s].leaving = FALSE]
  /\ DetachDone(s)
  /\ UNCHANGED <<surface, closed, ready, status, current, input, retry, resume,
                 kept, user, faults>>

-----------------------------------------------------------------------------
(* The route, the app and the user.                                        *)

(* A new effect: its own connectInFlight, and what outlives the last one.  *)
Mounts(p, credentials, awaited) ==
  /\ mounted' = TRUE /\ target' = p /\ pending' = None
  /\ closed' = FALSE /\ ready' = FALSE /\ status' = "connecting"
  /\ current' = None /\ input' = None /\ retry' = FALSE
  /\ resume' = (p \in credentials) /\ kept' = credentials
  /\ attempt' = IF awaited = None THEN Ticket ELSE Detached(awaited)
  /\ left' = FALSE /\ stranded' = FALSE
  /\ UNCHANGED <<app, paste>>

(* A hook that was discarded since has taken its pendingDetachRef along.   *)
Show(p) ==
  /\ ~mounted /\ app = "active"
  /\ \/ Mounts(p, kept, None)
     \/ pending # None /\ Mounts(p, kept, pending)
  /\ UNCHANGED <<sock, faults>>

(* Cleanup with another pane in the route detaches: detachSocketAndWait,   *)
(* which notices nothing but closed, on the wire or yet to be sent.        *)
Noticed(wire) ==
  IF \E i \in DOMAIN wire : wire[i] = "closed" THEN <<"closed">> ELSE <<>>
Leaves(socks, s) ==
  IF s = None THEN socks
  ELSE IF sock[s].state = "open"
    THEN [socks EXCEPT ![s].detach = TRUE, ![s].leaving = TRUE,
                       ![s].timer = FALSE, ![s].wire = Noticed(@)]
    ELSE [Closing(socks, s) EXCEPT ![s].leaving = TRUE]

Switch(p) ==
  /\ mounted /\ app = "active" /\ p # target
  /\ sock' = Leaves(sock, current)
  /\ Mounts(p, kept \ {target}, current)
  /\ UNCHANGED faults

(* Cleanup with the same pane keeps the session for a resume. *)
Remount ==
  /\ mounted /\ app = "active"
  /\ sock' = GivenUp(sock, current)
  /\ Mounts(target, kept, None)
  /\ Fault

(* What every cleanup does when no effect follows: the status stays.       *)
Unmounts ==
  /\ mounted /\ app = "active" /\ mounted' = FALSE
  /\ Unready /\ current' = None /\ retry' = FALSE /\ attempt' = NoAttempt
  /\ stranded' = FALSE /\ UNCHANGED <<app, status, user, faults>>

(* The surface of the terminal, or the whole view, leaves the screen.      *)
Hide ==
  /\ Unmounts
  /\ sock' = GivenUp(sock, current)
  /\ UNCHANGED <<target, pending, closed, resume, kept>>

(* The view stays, the data of its pane goes: a cleanup that detaches.     *)
Vanish ==
  /\ Unmounts
  /\ target' = None /\ pending' = current
  /\ sock' = Leaves(sock, current)
  /\ closed' = TRUE
  /\ resume' = FALSE /\ kept' = kept \ {target}

(* pauseTransport *)
Background ==
  /\ app = "active" /\ app' = "background"
  /\ IF closed \/ ~mounted
       THEN UNCHANGED <<ready, input, retry, attempt, sock>>
       ELSE /\ attempt' = Cancelled(attempt)
            /\ retry' = FALSE
            /\ Unready
            /\ sock' = GivenUp(sock, current)
  /\ UNCHANGED <<mounted, target, pending, closed, status, current, resume,
                 kept, user, stranded, faults>>

(* reconnect(): without a terminal there is no connect() to call.          *)
Reconnects ==
  /\ closed' = FALSE
  /\ retry' = FALSE
  /\ status' = "connecting"
  /\ IF mounted THEN Connects
     ELSE UNCHANGED <<ready, current, input, attempt, sock, stranded>>
  /\ UNCHANGED <<mounted, target, pending, resume, kept, paste, faults>>

\* Mutant: the foreground connects whatever the terminal is.
ForegroundReconnects ==
  /\ app = "background" /\ app' = "active"
  /\ Reconnects /\ UNCHANGED left
Foreground ==
  /\ app = "background" /\ app' = "active"
  /\ IF closed
       THEN UNCHANGED <<mounted, target, pending, closed, ready, status,
                        current, input, attempt, retry, resume, kept, user,
                        sock, stranded, faults>>
       ELSE Reconnects /\ UNCHANGED left

PressReconnect ==
  /\ mounted \/ target = None
  /\ app = "active"
  /\ ~ready /\ (status \in {"error", "closed"} \/ retry)
  /\ Reconnects
  /\ left' = FALSE
  /\ UNCHANGED app

(* handleOnline *)
GoesOnline ==
  /\ mounted /\ ~closed /\ app = "active"
  /\ retry' = FALSE
  /\ status' = "connecting"
  /\ Connects
  /\ Fault
  /\ UNCHANGED <<screen, closed, resume, kept, user>>

Detach ==
  /\ mounted /\ app = "active" /\ ~closed
  /\ closed' = TRUE /\ retry' = FALSE
  /\ attempt' = Cancelled(attempt)
  /\ ready' = FALSE
  /\ resume' = FALSE /\ kept' = kept \ {target}
  /\ status' = "closed" /\ left' = TRUE
  /\ sock' = IF current = None THEN sock
             ELSE IF sock[current].state = "open"
               THEN [sock EXCEPT ![current].detach = TRUE]
               ELSE Closing(sock, current)
  /\ UNCHANGED <<screen, current, input, paste, stranded, faults>>

(* isPasteLifecycleCurrent; a socket belongs to one mount of the terminal. *)
\* Mutant: only isCurrentPaneForPaste is asked.
PaneCurrent(binding) == mounted /\ target = binding.target
PasteCurrent(binding) ==
  /\ mounted /\ target = binding.target
  /\ current = binding.socket /\ sock[current].state = "open"
  /\ ready /\ ~closed /\ app = "active"

AskPaste ==
  /\ paste = None /\ current # None
  /\ PasteCurrent([target |-> target, socket |-> current])
  /\ paste' = [target |-> target, socket |-> current]
  /\ UNCHANGED <<screen, closed, ready, status, current, input, attempt,
                 retry, resume, kept, sock, left, stranded, faults>>

(* The clipboard is read: where it is pasted, if at all. *)
PastedTo == IF paste # None /\ PasteCurrent(paste) THEN input ELSE None
PasteRead ==
  /\ paste # None /\ paste' = None
  /\ UNCHANGED <<screen, closed, ready, status, current, input, attempt,
                 retry, resume, kept, sock, left, stranded, faults>>

-----------------------------------------------------------------------------
Init ==
  /\ app = "active" /\ mounted = FALSE /\ target \in Panes /\ pending = None
  /\ closed = FALSE /\ ready = FALSE /\ status = "connecting"
  /\ current = None /\ input = None
  /\ attempt = NoAttempt /\ retry = FALSE
  /\ resume = FALSE /\ kept = {} /\ paste = None
  /\ sock = [s \in Sockets |-> Unused]
  /\ left = FALSE /\ stranded = FALSE /\ faults = 0

OnMessage(s) ==
  \/ OnReady(s) \/ OnClosed(s) \/ OnResumeNotFound(s)
  \/ OnRefused(s) \/ OnFailed(s) \/ OnDetached(s)

(* What happens to a socket by itself, sooner or later. *)
Progress(s) ==
  \/ Opens(s) \/ Answers(s) \/ OnMessage(s) \/ TimesOut(s)
  \/ ClosesUnattached(s) \/ ClosesAtLast(s) \/ DetachTimesOut(s)

Next ==
  \/ RetryFires \/ TicketArrives \/ TicketFails
  \/ \E s \in Sockets :
       \/ Progress(s) \/ EndsSession(s)
       \/ Fails(s) \/ ConnectionLost(s) \/ FallsSilent(s)
  \/ \E p \in Panes : Show(p) \/ Switch(p)
  \/ Remount \/ Hide \/ Vanish \/ Background \/ Foreground
  \/ PressReconnect \/ GoesOnline \/ Detach
  \/ AskPaste \/ PasteRead

Spec == Init /\ [][Next]_vars

(* Timers fire, requests and handshakes end, messages that were sent are   *)
(* read; no user has to do anything, and no fault has to happen.           *)
Fairness ==
  /\ WF_vars(RetryFires) /\ WF_vars(TicketArrives) /\ WF_vars(PasteRead)
  /\ \A s \in Sockets : WF_vars(Progress(s))

FairSpec == Spec /\ Fairness

-----------------------------------------------------------------------------
Messages == {"ready", "closed", "resume_not_found", "refused", "failed"}

Attempts == [awaits : {"nothing", "ticket", "detach"},
             left : Sockets \cup {None}, stale : BOOLEAN]
Connections ==
  [state : {"closed", "connecting", "open", "closing"},
   pane : Panes \cup {None},
   server : {"idle", "resuming", "attaching", "serving", "done"},
   wire : Seq(Messages), detach : BOOLEAN, leaving : BOOLEAN,
   timer : BOOLEAN, silent : BOOLEAN]

(* Every variable keeps its type, socketRef never names a closed socket,   *)
(* and a terminal has a pane.                                              *)
TypeOK ==
  /\ app \in {"active", "background"} /\ mounted \in BOOLEAN
  /\ target \in Panes \cup {None} /\ pending \in Sockets \cup {None}
  /\ closed \in BOOLEAN /\ ready \in BOOLEAN /\ retry \in BOOLEAN
  /\ status \in {"connecting", "connected", "error", "closed"}
  /\ current \in Sockets \cup {None} /\ input \in Sockets \cup {None}
  /\ attempt \in Attempts
  /\ resume \in BOOLEAN /\ kept \subseteq Panes
  /\ paste \in {None} \cup [target : Panes, socket : Sockets]
  /\ sock \in [Sockets -> Connections]
  /\ left \in BOOLEAN /\ stranded \in BOOLEAN /\ faults \in 0..MaxFaults
  /\ current # None => sock[current].state # "closed"
  /\ mounted => target \in Panes

(* No connection is lost track of: an open one is the view model's, or was *)
(* told to detach, or its session has ended and the daemon closes it.      *)
OneConnection ==
  \A s \in Sockets : sock[s].state \in Live =>
    \/ s = current \/ sock[s].detach \/ sock[s].server = "done"

(* What is typed can only go to the socket that serves the pane on the     *)
(* screen: not to one that was lost, replaced, or left with another pane.  *)
KeysReachTheScreen ==
  input # None =>
    /\ mounted /\ input = current
    /\ sock[input].state = "open" /\ sock[input].pane = target
    /\ sock[input].server \in {"serving", "done"}

(* A paste reaches the connection it was asked on or none, however long    *)
(* the clipboard or the file takes to be read.                             *)
PasteStays ==
  PastedTo # None => /\ PastedTo = paste.socket
                     /\ sock[paste.socket].pane = paste.target

(* All input goes where its user saw it go: both of them.                  *)
InputReachesItsPane == KeysReachTheScreen /\ PasteStays

(* After detach() or the end of the session nothing connects again by      *)
(* itself.  (A ready that overtakes detach() undoes it: see OnReady.)      *)
ClosedStaysClosed ==
  left => /\ closed
          /\ attempt.awaits # "ticket"
          /\ current # None => sock[current].state # "connecting"

(* "Connected" is what the user is told while the pane is served, and only *)
(* then or while a connection that was good is being replaced.  (A view    *)
(* whose pane vanished goes on saying what it said: see Vanish.)           *)
ConnectedIsServed ==
  mounted /\ app = "active" =>
    /\ ready => status = "connected"
    /\ status = "connected" => ready \/ attempt.awaits = "ticket"

(* "Connecting" means that something is under way which will end: an       *)
(* attempt, a retry, a handshake with a deadline or a closing socket.      *)
ConnectingIsProgress ==
  /\ mounted /\ app = "active" /\ ~closed
  /\ status = "connecting" /\ ~stranded
  => \/ attempt.awaits = "ticket" \/ retry
     \/ attempt.awaits = "detach" /\ sock[attempt.left].leaving
     \/ /\ current # None
        /\ sock[current].state = "closing" \/ sock[current].timer

(* What the user is told of the connection of a terminal on the screen is  *)
(* true.                                                                   *)
StatusIsHonest == ConnectedIsServed /\ ConnectingIsProgress

(* A pane that stays on the screen is served in the end, or the user is    *)
(* told that it is not: who waits for ever has changed panes for ever.     *)
Waits == /\ mounted /\ app = "active" /\ ~closed
         /\ ~ready /\ status # "error" /\ ~stranded
Connected == <>[]Waits => []<><<target' # target>>_target
=============================================================================
