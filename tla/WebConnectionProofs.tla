------------------------- MODULE WebConnectionProofs -------------------------
(***************************************************************************)
(* What WebConnection promises for any panes, sockets and faults: of       *)
(* everything it promises only Connected, a liveness property, is left to  *)
(* TLC.                                                                    *)
(*                                                                         *)
(* The properties speak of what the view model believes; the invariant     *)
(* adds what it cannot see.  SocketInv is the protocol of one socket: an   *)
(* attach is answered once, on an empty wire.  CurrentInv ties the socket  *)
(* of the view model to the pane, to its attempts and to its deadline,     *)
(* PendingInv the socket of a detach nobody awaits yet to its promise.     *)
(***************************************************************************)
EXTENDS WebConnection, TLAPS

\* A socket and its wire.  The daemon answers an attach once, with nothing
\* else on the wire; a refused one leaves that answer there until it is read.
SocketInv == \A s \in Sockets :
  /\ sock[s].state # "open" => sock[s].wire = <<>>
  /\ sock[s].state \in {"closed", "connecting"} => sock[s].server = "idle"
  /\ sock[s].state = "connecting" => s = current /\ ~sock[s].detach
  /\ sock[s].leaving => s # current /\ sock[s].state \in {"open", "closing"}
  /\ sock[s].server \in {"resuming", "attaching"} => sock[s].wire = <<>>
  /\ sock[s].server = "idle" => Len(sock[s].wire) <= 1
  /\ \A i \in DOMAIN sock[s].wire :
       /\ sock[s].wire[i] = "ready" =>
            i = 1 /\ sock[s].server \in {"serving", "done"}
       /\ sock[s].wire[i] = "resume_not_found" =>
            /\ Len(sock[s].wire) = 1
            /\ sock[s].server = "idle" \/ sock[s].server = "done"

\* The socket of the view model and its attempts.
CurrentInv ==
  /\ attempt.awaits = "detach" =>
       /\ current = None
       /\ attempt.left \in Sockets /\ sock[attempt.left].leaving
  /\ current # None =>
       /\ sock[current].state \in Live =>
            sock[current].pane = target /\ attempt.awaits = "nothing"
       /\ sock[current].state = "connecting"
            \/ sock[current].server \in {"resuming", "attaching"}
            \/ (\E i \in DOMAIN sock[current].wire :
                  sock[current].wire[i] = "resume_not_found")
          => sock[current].timer

\* A terminal that is ready has its socket, and what is typed goes there.
ReadyInv == ready =>
  /\ current # None /\ sock[current].state = "open" /\ input = current
  /\ status = "connected" /\ app = "active" /\ ~closed /\ mounted

\* The socket that input goes to has been answered.
InputInv == input # None => \A i \in DOMAIN sock[input].wire :
  sock[input].wire[i] \notin {"ready", "resume_not_found"}

\* A terminal that is closed tries nothing.  (One whose pane vanished is
\* closed as well, though nobody left it.)
ClosedInv ==
  /\ left => closed
  /\ closed =>
       /\ mounted => status # "connected"
       /\ attempt.awaits # "ticket"
       /\ current # None => sock[current].state # "connecting"

\* Nothing is left of a terminal that is not on the screen.
HiddenInv == ~mounted =>
  /\ current = None /\ input = None /\ attempt.awaits = "nothing"
  /\ ~retry /\ ~stranded

\* A detach that the next terminal has to wait for is under way.
PendingInv == pending # None => sock[pending].leaving

\* The type invariant without its last conjunct and the records in it.
SockTyped == sock \in [Sockets -> Connections]
AttemptTyped == attempt \in Attempts
CurrentTyped == current # None => sock[current].state # "closed"

Inv == /\ TypeOK /\ SocketInv /\ CurrentInv /\ ReadyInv /\ InputInv
       /\ ClosedInv /\ HiddenInv /\ PendingInv /\ OneConnection
       /\ KeysReachTheScreen /\ ConnectedIsServed /\ ConnectingIsProgress
-----------------------------------------------------------------------------
\* What may be put on a wire, and what is left of it.
LEMMA Wires ==
  ASSUME SockTyped, NEW s \in Sockets
  PROVE  /\ sock[s].wire # <<>> => Tail(sock[s].wire) \in Seq(Messages)
         /\ Append(sock[s].wire, "ready") \in Seq(Messages)
         /\ Append(sock[s].wire, "closed") \in Seq(Messages)
         /\ Append(sock[s].wire, "resume_not_found") \in Seq(Messages)
         /\ \A e \in {"refused", "failed"} :
              Append(sock[s].wire, e) \in Seq(Messages)
         /\ Noticed(sock[s].wire) \in Seq(Messages)
         /\ <<>> \in Seq(Messages)
<1>1. sock[s].wire \in Seq(Messages) BY DEF SockTyped, Connections
<1>2. {"ready", "closed", "resume_not_found", "refused", "failed"}
        \subseteq Messages
  BY DEF Messages
<1>3. Noticed(sock[s].wire) \in {<<>>, <<"closed">>} BY DEF Noticed
<1>4. <<>> \in Seq(Messages) /\ <<"closed">> \in Seq(Messages) BY <1>2
<1>5. sock[s].wire # <<>> => Tail(sock[s].wire) \in Seq(Messages) BY <1>1
<1>6. \A m \in Messages : Append(sock[s].wire, m) \in Seq(Messages) BY <1>1
<1>q. QED BY <1>2, <1>3, <1>4, <1>5, <1>6

\* What is left of a wire was on it.
LEMMA TailOf ==
  ASSUME NEW w \in Seq(Messages), w # <<>>
  PROVE  \A i \in DOMAIN Tail(w) : i + 1 \in DOMAIN w /\ Tail(w)[i] = w[i + 1]
OBVIOUS

\* A connection stays one whatever part of it changes.
LEMMA Changed ==
  ASSUME NEW c \in Connections
  PROVE  /\ \A x \in {"closed", "connecting", "open", "closing"} :
              [c EXCEPT !.state = x] \in Connections
         /\ \A x \in {"idle", "resuming", "attaching", "serving", "done"} :
              [c EXCEPT !.server = x] \in Connections
         /\ \A x \in Seq(Messages) : [c EXCEPT !.wire = x] \in Connections
         /\ \A x \in Panes \cup {None} : [c EXCEPT !.pane = x] \in Connections
         /\ \A x \in BOOLEAN : /\ [c EXCEPT !.detach = x] \in Connections
                               /\ [c EXCEPT !.leaving = x] \in Connections
                               /\ [c EXCEPT !.timer = x] \in Connections
                               /\ [c EXCEPT !.silent = x] \in Connections
BY DEF Connections

LEMMA Changes ==
  ASSUME NEW socks \in [Sockets -> Connections], NEW s \in Sockets
  PROVE  /\ \A x \in {"open"} :
              [socks EXCEPT ![s].state = x] \in [Sockets -> Connections]
         /\ \A x \in {"idle", "resuming", "attaching", "serving", "done"} :
              [socks EXCEPT ![s].server = x] \in [Sockets -> Connections]
         /\ \A x \in Seq(Messages) :
              [socks EXCEPT ![s].wire = x] \in [Sockets -> Connections]
         /\ \A x \in BOOLEAN :
              /\ [socks EXCEPT ![s].detach = x] \in [Sockets -> Connections]
              /\ [socks EXCEPT ![s].leaving = x] \in [Sockets -> Connections]
              /\ [socks EXCEPT ![s].timer = x] \in [Sockets -> Connections]
              /\ [socks EXCEPT ![s].silent = x] \in [Sockets -> Connections]
<1>1. socks[s] \in Connections OBVIOUS
<1>q. QED BY <1>1, Changed

\* Closing a socket, and dialling with one, leaves a connection.
LEMMA ClosingTyped ==
  ASSUME NEW socks \in [Sockets -> Connections], NEW s \in Sockets
  PROVE  /\ Closing(socks, s) \in [Sockets -> Connections]
         /\ [socks EXCEPT ![s] = Unused] \in [Sockets -> Connections]
<1>1. /\ Unused \in Connections
      /\ socks[s].leaving \in BOOLEAN
  BY DEF Unused, Connections
<1>2. [Unused EXCEPT !.state = "closing", !.leaving = socks[s].leaving]
        \in Connections
  BY <1>1, Changed
<1>q. QED BY <1>1, <1>2 DEF Closing

LEMMA DialledTyped ==
  ASSUME SockTyped, NEW s \in Sockets, target \in Panes \cup {None},
         Dials(s)
  PROVE  SockTyped'
<1> DEFINE c == [Unused EXCEPT !.state = "connecting", !.pane = target,
                               !.timer = TRUE]
<1>1. Unused \in Connections BY DEF Unused, Connections
<1>2. c \in Connections BY <1>1, Changed
<1>3. sock' = [sock EXCEPT ![s] = c] BY DEF Dials
<1> HIDE DEF c
<1>q. QED BY <1>2, <1>3 DEF SockTyped

\* What an attempt may be.
LEMMA AttemptsTyped ==
  /\ NoAttempt \in Attempts /\ Ticket \in Attempts
  /\ \A s \in Sockets : Detached(s) \in Attempts
  /\ \A a \in Attempts : Cancelled(a) \in Attempts
BY DEF NoAttempt, Ticket, Detached, Attempts, Cancelled

\* What closing a socket leaves of it.
LEMMA ClosingIs ==
  ASSUME NEW socks \in [Sockets -> Connections], NEW s \in Sockets
  PROVE  /\ \A t \in Sockets \ {s} : Closing(socks, s)[t] = socks[t]
         /\ Closing(socks, s)[s].state = "closing"
         /\ Closing(socks, s)[s].server = "idle"
         /\ Closing(socks, s)[s].wire = <<>>
         /\ Closing(socks, s)[s].leaving = socks[s].leaving
         /\ Closing(socks, s)[s].detach = FALSE
<1> DEFINE c == [Unused EXCEPT !.state = "closing",
                                !.leaving = socks[s].leaving]
<1>1. /\ c.state = "closing" /\ c.server = "idle" /\ c.wire = <<>>
      /\ c.leaving = socks[s].leaving /\ c.detach = FALSE
  BY DEF Unused
<1>2. Closing(socks, s) = [socks EXCEPT ![s] = c] BY DEF Closing
<1> HIDE DEF c
<1>q. QED BY <1>1, <1>2

\* What is computed of truth values is one.
LEMMA Booleans ==
  /\ ready \in BOOLEAN /\ stranded \in BOOLEAN /\ Connects
       => ready' \in BOOLEAN /\ stranded' \in BOOLEAN
  /\ \A s : stranded \in BOOLEAN /\ DetachDone(s) => stranded' \in BOOLEAN
  /\ \A x : retry \in BOOLEAN /\ ScheduleReconnect(x) => retry' \in BOOLEAN
  /\ \A p, k, a : Mounts(p, k, a) => resume' \in BOOLEAN
<1>1. ASSUME ready \in BOOLEAN, stranded \in BOOLEAN, Connects
      PROVE  ready' \in BOOLEAN /\ stranded' \in BOOLEAN
  <2>1. CASE attempt.awaits # "nothing" BY <1>1, <2>1 DEF Connects
  <2>2. CASE attempt.awaits = "nothing"
    <3>1. ready' = (ready /\ ~Replaced(current)) /\ stranded' = FALSE
      BY <1>1, <2>2 DEF Connects
    <3>2. (ready /\ ~Replaced(current)) \in BOOLEAN BY Zenon
    <3>q. QED BY <3>1, <3>2
  <2>q. QED BY <2>1, <2>2
<1>2. ASSUME NEW s, stranded \in BOOLEAN, DetachDone(s)
      PROVE  stranded' \in BOOLEAN
  BY <1>2, Zenon DEF DetachDone, Settled
<1>3. ASSUME NEW x, retry \in BOOLEAN, ScheduleReconnect(x)
      PROVE  retry' \in BOOLEAN
  BY <1>3, Zenon DEF ScheduleReconnect
<1>4. ASSUME NEW p, NEW k, NEW a, Mounts(p, k, a)
      PROVE  resume' \in BOOLEAN
  <2>1. resume' = (p \in k) BY <1>4 DEF Mounts
  <2>q. QED BY <2>1
<1>q. QED BY <1>1, <1>2, <1>3, <1>4

\* Closing a socket disturbs no other, nor what the view model waits for.
LEMMA ClosingFits ==
  ASSUME TypeOK, SocketInv, NEW t \in Sockets, sock' = Closing(sock, t),
         current' = current \/ (t = current /\ current' = None)
  PROVE  SocketInv'
<1>1. sock \in [Sockets -> Connections] BY DEF TypeOK
<1>2. DOMAIN <<>> = {} OBVIOUS
<1>3. \A s \in Sockets \ {t} : sock'[s] = sock[s] BY <1>1, ClosingIs
<1>4. /\ sock'[t].state = "closing" /\ sock'[t].server = "idle"
      /\ sock'[t].wire = <<>> /\ sock'[t].leaving = sock[t].leaving
  BY <1>1, ClosingIs
<1>5. None \notin Sockets BY NoneAssumption
<1>q. QED BY <1>1, <1>2, <1>3, <1>4, <1>5 DEF SocketInv

LEMMA ClosingCurrent ==
  ASSUME TypeOK, CurrentInv, NEW t \in Sockets, sock' = Closing(sock, t),
         attempt' \in {attempt, Cancelled(attempt)}, current' = current,
         target' = target
  PROVE  CurrentInv'
<1>1. sock \in [Sockets -> Connections] BY DEF TypeOK
<1>2. DOMAIN <<>> = {} OBVIOUS
<1>3. \A s \in Sockets \ {t} : sock'[s] = sock[s] BY <1>1, ClosingIs
<1>4. /\ sock'[t].state = "closing" /\ sock'[t].server = "idle"
      /\ sock'[t].wire = <<>> /\ sock'[t].leaving = sock[t].leaving
  BY <1>1, ClosingIs
<1>5. current # None => current \in Sockets BY DEF TypeOK
<1>6. attempt'.awaits = "detach" =>
        current = None /\ attempt'.left \in Sockets
          /\ sock'[attempt'.left].leaving
  <2>1. attempt'.awaits = "detach" =>
          attempt.awaits = "detach" /\ attempt'.left = attempt.left
    BY DEF Cancelled, NoAttempt, TypeOK, Attempts
  <2>q. QED BY <2>1, <1>3, <1>4 DEF CurrentInv
<1>8. attempt.awaits = "nothing" => attempt'.awaits = "nothing"
  BY DEF Cancelled, NoAttempt
<1>7. current # None /\ current # t => sock'[current] = sock[current]
  BY <1>3, <1>5
<1>q. QED BY <1>2, <1>4, <1>5, <1>6, <1>7, <1>8 DEF CurrentInv, Live

\* Asking for a paste and reading the clipboard disturb nothing else.
LEMMA Quiet ==
  ASSUME AskPaste \/ PasteRead \/ UNCHANGED vars
  PROVE  UNCHANGED <<screen, closed, ready, status, current, input, attempt,
                     retry, resume, kept, sock, left, stranded>>
BY DEF AskPaste, PasteRead, vars, screen, surface, user

\* Every step keeps the sockets connections.
LEMMA SocksStep ==
  ASSUME TypeOK, SockTyped, [Next]_vars
  PROVE  SockTyped'
<1> USE NoneAssumption, MaxFaultsAssumption
<1>a. /\ current \in Sockets \cup {None} /\ target \in Panes \cup {None}
      /\ resume \in BOOLEAN
  BY DEF TypeOK
<1>1. CASE RetryFires
  BY <1>1, <1>a, Wires, Changes, ClosingTyped DEF RetryFires, screen,
    surface, user, Connects, Replaced, Retries, Live, SockTyped
<1>2. CASE TicketArrives
  <2>1. PICK s \in Sockets : Dials(s) BY <1>2 DEF TicketArrives
  <2>q. QED BY <2>1, <1>a, DialledTyped
<1>3. CASE TicketFails
  BY <1>3, <1>a, Wires, Changes, ClosingTyped DEF TicketFails, screen,
    surface, user, ScheduleReconnect, Retries, Fault, SockTyped
<1>4. ASSUME NEW s \in Sockets, Opens(s)
      PROVE  SockTyped'
  BY <1>4, <1>a, Wires, Changes, ClosingTyped DEF Opens, screen, surface,
    user, SockTyped
<1>5. ASSUME NEW s \in Sockets, Answers(s)
      PROVE  SockTyped'
  <2>1. CASE Sends(s, "ready", "serving")
    BY <2>1, Wires, Changes DEF Sends, SockTyped
  <2>2. CASE Sends(s, "resume_not_found", "idle")
    BY <2>2, Wires, Changes DEF Sends, SockTyped
  <2>q. QED BY <1>5, <2>1, <2>2 DEF Answers
<1>6. ASSUME NEW s \in Sockets, OnReady(s)
      PROVE  SockTyped'
  <2>1. CASE app # "active"
    BY <1>6, <2>1, ClosingTyped DEF OnReady, SockTyped
  <2>2. CASE app = "active"
    <3>1. Read(s) \in [Sockets -> Connections]
      BY <1>6, Wires, Changes DEF OnReady, Receives, Read, SockTyped
    <3>2. sock' = [Read(s) EXCEPT ![s].timer = FALSE]
      BY <1>6, <2>2 DEF OnReady
    <3>q. QED BY <3>1, <3>2, Changes DEF SockTyped
  <2>q. QED BY <2>1, <2>2
<1>7. ASSUME NEW s \in Sockets, OnClosed(s)
      PROVE  SockTyped'
  <2>1. Read(s) \in [Sockets -> Connections]
    BY <1>7, Wires, Changes DEF OnClosed, Receives, Read, SockTyped
  <2>2. sock' = [Read(s) EXCEPT ![s].timer = FALSE]
    BY <1>7 DEF OnClosed
  <2>q. QED BY <2>1, <2>2, Changes DEF SockTyped
<1>8. ASSUME NEW s \in Sockets, OnResumeNotFound(s)
      PROVE  SockTyped'
  <2>1. Read(s) \in [Sockets -> Connections]
    BY <1>8, Wires, Changes DEF OnResumeNotFound, Receives, Read, SockTyped
  <2>2. Read(s)[s].server
          \in {"idle", "resuming", "attaching", "serving", "done"}
    BY <2>1 DEF Connections
  <2>q. QED BY <1>8, <2>1, <2>2, Changes DEF OnResumeNotFound, SockTyped
<1>9. ASSUME NEW s \in Sockets, OnRefused(s)
      PROVE  SockTyped'
  <2>1. Read(s) \in [Sockets -> Connections]
    BY <1>9, Wires, Changes DEF OnRefused, Receives, Read, SockTyped
  <2>2. sock' = [Read(s) EXCEPT ![s].timer = FALSE]
    BY <1>9 DEF OnRefused
  <2>q. QED BY <2>1, <2>2, Changes DEF SockTyped
<1>10. ASSUME NEW s \in Sockets, OnFailed(s)
      PROVE  SockTyped'
  BY <1>10, <1>a, Wires, Changes, ClosingTyped DEF OnFailed, screen, surface,
    user, Receives, Unready, ScheduleReconnect, Retries, SockTyped
<1>11. ASSUME NEW s \in Sockets, OnDetached(s)
      PROVE  SockTyped'
  BY <1>11, <1>a, Wires, Changes, ClosingTyped DEF OnDetached, screen,
    surface, user, Receives, Read, DetachDone, Settled, Outdated, Retries,
    SockTyped
<1>12. ASSUME NEW s \in Sockets, TimesOut(s)
      PROVE  SockTyped'
  BY <1>12, <1>a, Wires, Changes, ClosingTyped DEF TimesOut, screen, surface,
    user, Unready, ScheduleReconnect, Retries, SockTyped
<1>13. ASSUME NEW s \in Sockets, ClosesUnattached(s)
      PROVE  SockTyped'
  BY <1>13, <1>a, Wires, Changes, ClosingTyped DEF ClosesUnattached, screen,
    surface, user, SockTyped
<1>14. ASSUME NEW s \in Sockets, ClosesAtLast(s)
      PROVE  SockTyped'
  BY <1>14, <1>a, Wires, Changes, ClosingTyped DEF ClosesAtLast, screen,
    surface, user, Lost, DetachDone, Settled, Outdated, Unready,
    ScheduleReconnect, Retries, SockTyped
<1>15. ASSUME NEW s \in Sockets, DetachTimesOut(s)
      PROVE  SockTyped'
  BY <1>15, <1>a, Wires, Changes, ClosingTyped DEF DetachTimesOut, screen,
    surface, user, DetachDone, Settled, Outdated, Retries, SockTyped
<1>16. ASSUME NEW s \in Sockets, EndsSession(s)
      PROVE  SockTyped'
  BY <1>16, <1>a, Wires, Changes, ClosingTyped DEF EndsSession, screen,
    surface, user, Sends, SockTyped
<1>17. ASSUME NEW s \in Sockets, Fails(s)
      PROVE  SockTyped'
  <2>1. PICK e \in {"refused", "failed"}, n \in {"serving", "idle"} :
           Sends(s, e, n)
    BY <1>17 DEF Fails
  <2>q. QED BY <2>1, Wires, Changes DEF Sends, SockTyped
<1>18. ASSUME NEW s \in Sockets, ConnectionLost(s)
      PROVE  SockTyped'
  BY <1>18, <1>a, Wires, Changes, ClosingTyped DEF ConnectionLost, screen,
    surface, user, Fault, Lost, DetachDone, Settled, Outdated, Unready,
    ScheduleReconnect, Retries, SockTyped
<1>19. ASSUME NEW s \in Sockets, FallsSilent(s)
      PROVE  SockTyped'
  BY <1>19, <1>a, Wires, Changes, ClosingTyped DEF FallsSilent, screen,
    surface, user, Fault, SockTyped
<1>20. ASSUME NEW p \in Panes, Show(p)
      PROVE  SockTyped'
  BY <1>20, <1>a, Wires, Changes, ClosingTyped DEF Show, screen, surface,
    user, Mounts, SockTyped
<1>21. ASSUME NEW p \in Panes, Switch(p)
      PROVE  SockTyped'
  <2>1. CASE current = None
    BY <1>21, <2>1, <1>a, Wires, Changes, ClosingTyped DEF Switch, screen,
      surface, user, Mounts, Leaves, SockTyped
  <2>2. CASE current # None /\ sock[current].state = "open"
    BY <1>21, <2>2, <1>a, Wires, Changes, ClosingTyped DEF Switch, screen,
      surface, user, Mounts, Leaves, SockTyped
  <2>3. CASE current # None /\ sock[current].state # "open"
    BY <1>21, <2>3, <1>a, Wires, Changes, ClosingTyped DEF Switch, screen,
      surface, user, Mounts, Leaves, SockTyped
  <2>q. QED BY <1>21, <2>1, <2>2, <2>3 DEF Switch
<1>22. CASE Remount
  BY <1>22, <1>a, Wires, Changes, ClosingTyped DEF Remount, screen, surface,
    user, Mounts, GivenUp, Fault, SockTyped
<1>23. CASE Hide
  BY <1>23, <1>a, Wires, Changes, ClosingTyped DEF Hide, Unmounts, Unready,
    screen, surface, user, GivenUp, SockTyped
<1>24. CASE Vanish
  <2>1. CASE current = None
    BY <1>24, <2>1, <1>a, Wires, Changes, ClosingTyped DEF Vanish, Unmounts,
      Unready, NoAttempt, screen, surface, user, Leaves, SockTyped
  <2>2. CASE current # None /\ sock[current].state = "open"
    BY <1>24, <2>2, <1>a, Wires, Changes, ClosingTyped DEF Vanish, Unmounts,
      Unready, NoAttempt, screen, surface, user, Leaves, SockTyped
  <2>3. CASE current # None /\ sock[current].state # "open"
    BY <1>24, <2>3, <1>a, Wires, Changes, ClosingTyped DEF Vanish, Unmounts,
      Unready, NoAttempt, screen, surface, user, Leaves, SockTyped
  <2>q. QED BY <1>24, <2>1, <2>2, <2>3 DEF Vanish, Unmounts, Unready,
    NoAttempt
<1>25. CASE Background
  <2>1. CASE closed \/ ~mounted
    BY <1>25, <2>1, <1>a, Wires, Changes, ClosingTyped DEF Background,
      screen, surface, user, Unready, GivenUp, SockTyped
  <2>2. CASE ~closed /\ mounted /\ current = None
    BY <1>25, <2>2, <1>a, Wires, Changes, ClosingTyped DEF Background,
      screen, surface, user, Unready, GivenUp, SockTyped
  <2>3. CASE ~closed /\ mounted /\ current # None
    BY <1>25, <2>3, <1>a, Wires, Changes, ClosingTyped DEF Background,
      screen, surface, user, Unready, GivenUp, SockTyped
  <2>q. QED BY <1>25, <2>1, <2>2, <2>3 DEF Background
<1>26. CASE Foreground
  <2>1. CASE closed \/ ~mounted
    BY <1>26, <2>1, <1>a, Wires, Changes, ClosingTyped DEF Foreground,
      screen, surface, user, Reconnects, Connects, Replaced, Retries, Live,
      SockTyped
  <2>2. CASE ~(closed \/ ~mounted) /\ attempt.awaits # "nothing"
    BY <1>26, <2>2, <1>a, Wires, Changes, ClosingTyped DEF Foreground,
      screen, surface, user, Reconnects, Connects, Replaced, Retries, Live,
      SockTyped
  <2>3. CASE /\ ~(closed \/ ~mounted) /\ attempt.awaits = "nothing"
            /\ ~Replaced(current)
    BY <1>26, <2>3, <1>a, Wires, Changes, ClosingTyped DEF Foreground,
      screen, surface, user, Reconnects, Connects, Replaced, Retries, Live,
      SockTyped
  <2>4. CASE /\ ~(closed \/ ~mounted) /\ attempt.awaits = "nothing"
            /\ Replaced(current)
    BY <1>26, <2>4, <1>a, Wires, Changes, ClosingTyped DEF Foreground,
      screen, surface, user, Reconnects, Connects, Replaced, Retries, Live,
      SockTyped
  <2>q. QED BY <1>26, <2>1, <2>2, <2>3, <2>4 DEF Foreground
<1>27. CASE PressReconnect
  <2>1. CASE ~mounted \/ attempt.awaits # "nothing"
    BY <1>27, <2>1, <1>a, Wires, Changes, ClosingTyped DEF PressReconnect,
      screen, surface, user, Reconnects, Connects, Replaced, Retries, Live,
      SockTyped
  <2>2. CASE mounted /\ attempt.awaits = "nothing" /\ ~Replaced(current)
    BY <1>27, <2>2, <1>a, Wires, Changes, ClosingTyped DEF PressReconnect,
      screen, surface, user, Reconnects, Connects, Replaced, Retries, Live,
      SockTyped
  <2>3. CASE mounted /\ attempt.awaits = "nothing" /\ Replaced(current)
    BY <1>27, <2>3, <1>a, Wires, Changes, ClosingTyped DEF PressReconnect,
      screen, surface, user, Reconnects, Connects, Replaced, Retries, Live,
      SockTyped
  <2>q. QED BY <1>27, <2>1, <2>2, <2>3 DEF PressReconnect
<1>28. CASE GoesOnline
  <2>1. CASE attempt.awaits # "nothing"
    BY <1>28, <2>1, <1>a, Wires, Changes, ClosingTyped DEF GoesOnline,
      screen, surface, user, Connects, Replaced, Retries, Live, Fault,
      SockTyped
  <2>2. CASE attempt.awaits = "nothing" /\ ~Replaced(current)
    BY <1>28, <2>2, <1>a, Wires, Changes, ClosingTyped DEF GoesOnline,
      screen, surface, user, Connects, Replaced, Retries, Live, Fault,
      SockTyped
  <2>3. CASE attempt.awaits = "nothing" /\ Replaced(current)
    BY <1>28, <2>3, <1>a, Wires, Changes, ClosingTyped DEF GoesOnline,
      screen, surface, user, Connects, Replaced, Retries, Live, Fault,
      SockTyped
  <2>q. QED BY <1>28, <2>1, <2>2, <2>3 DEF GoesOnline
<1>29. CASE Detach
  <2>1. CASE current = None
    BY <1>29, <2>1, <1>a, Wires, Changes, ClosingTyped DEF Detach, screen,
      surface, user, SockTyped
  <2>2. CASE current # None /\ sock[current].state = "open"
    BY <1>29, <2>2, <1>a, Wires, Changes, ClosingTyped DEF Detach, screen,
      surface, user, SockTyped
  <2>3. CASE current # None /\ sock[current].state # "open"
    BY <1>29, <2>3, <1>a, Wires, Changes, ClosingTyped DEF Detach, screen,
      surface, user, SockTyped
  <2>q. QED BY <1>29, <2>1, <2>2, <2>3 DEF Detach
<1>30. CASE AskPaste \/ PasteRead \/ UNCHANGED vars
  BY <1>30, Quiet DEF screen, surface, SockTyped
<1>q. QED BY <1>1, <1>2, <1>3, <1>4, <1>5, <1>6, <1>7, <1>8, <1>9, <1>10,
  <1>11, <1>12, <1>13, <1>14, <1>15, <1>16, <1>17, <1>18, <1>19, <1>20,
  <1>21, <1>22, <1>23, <1>24, <1>25, <1>26, <1>27, <1>28, <1>29, <1>30 DEF Next,
  Progress, OnMessage

\* Every step keeps the attempt one.
LEMMA AttemptsStep ==
  ASSUME TypeOK, AttemptTyped, [Next]_vars
  PROVE  AttemptTyped'
<1> USE NoneAssumption, MaxFaultsAssumption
<1>a. current \in Sockets \cup {None}
  BY DEF TypeOK
<1>1. CASE RetryFires
  BY <1>1, <1>a, AttemptsTyped DEF RetryFires, screen, surface, user,
    Connects, Replaced, AttemptTyped
<1>2. CASE TicketArrives
  BY <1>2, <1>a, AttemptsTyped DEF TicketArrives, screen, surface, user,
    Dials, Free, AttemptTyped
<1>3. CASE TicketFails
  BY <1>3, <1>a, AttemptsTyped DEF TicketFails, screen, surface, user,
    ScheduleReconnect, Fault, AttemptTyped
<1>4. ASSUME NEW s \in Sockets, Opens(s)
      PROVE  AttemptTyped'
  BY <1>4, <1>a, AttemptsTyped DEF Opens, screen, surface, user, AttemptTyped
<1>5. ASSUME NEW s \in Sockets, Answers(s)
      PROVE  AttemptTyped'
  BY <1>5, <1>a, AttemptsTyped DEF Answers, screen, surface, user, Sends,
    AttemptTyped
<1>6. ASSUME NEW s \in Sockets, OnReady(s)
      PROVE  AttemptTyped'
  BY <1>6, <1>a, AttemptsTyped DEF OnReady, screen, surface, user, Receives,
    Read, AttemptTyped
<1>7. ASSUME NEW s \in Sockets, OnClosed(s)
      PROVE  AttemptTyped'
  BY <1>7, <1>a, AttemptsTyped DEF OnClosed, screen, surface, user, Receives,
    Read, Unready, AttemptTyped
<1>8. ASSUME NEW s \in Sockets, OnResumeNotFound(s)
      PROVE  AttemptTyped'
  BY <1>8, <1>a, AttemptsTyped DEF OnResumeNotFound, screen, surface, user,
    Receives, Read, AttemptTyped
<1>9. ASSUME NEW s \in Sockets, OnRefused(s)
      PROVE  AttemptTyped'
  BY <1>9, <1>a, AttemptsTyped DEF OnRefused, screen, surface, user,
    Receives, Read, AttemptTyped
<1>10. ASSUME NEW s \in Sockets, OnFailed(s)
      PROVE  AttemptTyped'
  BY <1>10, <1>a, AttemptsTyped DEF OnFailed, screen, surface, user,
    Receives, Unready, ScheduleReconnect, AttemptTyped
<1>11. ASSUME NEW s \in Sockets, OnDetached(s)
      PROVE  AttemptTyped'
  BY <1>11, <1>a, AttemptsTyped DEF OnDetached, screen, surface, user,
    Receives, Read, DetachDone, Settled, Outdated, AttemptTyped
<1>12. ASSUME NEW s \in Sockets, TimesOut(s)
      PROVE  AttemptTyped'
  BY <1>12, <1>a, AttemptsTyped DEF TimesOut, screen, surface, user, Unready,
    ScheduleReconnect, AttemptTyped
<1>13. ASSUME NEW s \in Sockets, ClosesUnattached(s)
      PROVE  AttemptTyped'
  BY <1>13, <1>a, AttemptsTyped DEF ClosesUnattached, screen, surface, user,
    AttemptTyped
<1>14. ASSUME NEW s \in Sockets, ClosesAtLast(s)
      PROVE  AttemptTyped'
  BY <1>14, <1>a, AttemptsTyped DEF ClosesAtLast, screen, surface, user,
    Lost, DetachDone, Settled, Outdated, Unready, ScheduleReconnect,
    AttemptTyped
<1>15. ASSUME NEW s \in Sockets, DetachTimesOut(s)
      PROVE  AttemptTyped'
  BY <1>15, <1>a, AttemptsTyped DEF DetachTimesOut, screen, surface, user,
    DetachDone, Settled, Outdated, AttemptTyped
<1>16. ASSUME NEW s \in Sockets, EndsSession(s)
      PROVE  AttemptTyped'
  BY <1>16, <1>a, AttemptsTyped DEF EndsSession, screen, surface, user,
    Sends, AttemptTyped
<1>17. ASSUME NEW s \in Sockets, Fails(s)
      PROVE  AttemptTyped'
  BY <1>17, <1>a, AttemptsTyped DEF Fails, screen, surface, user, Sends,
    Fault, AttemptTyped
<1>18. ASSUME NEW s \in Sockets, ConnectionLost(s)
      PROVE  AttemptTyped'
  BY <1>18, <1>a, AttemptsTyped DEF ConnectionLost, screen, surface, user,
    Fault, Lost, DetachDone, Settled, Outdated, Unready, ScheduleReconnect,
    AttemptTyped
<1>19. ASSUME NEW s \in Sockets, FallsSilent(s)
      PROVE  AttemptTyped'
  BY <1>19, <1>a, AttemptsTyped DEF FallsSilent, screen, surface, user,
    Fault, AttemptTyped
<1>20. ASSUME NEW p \in Panes, Show(p)
      PROVE  AttemptTyped'
  <2>1. attempt' = Ticket \/ (pending # None /\ attempt' = Detached(pending))
    BY <1>20 DEF Show, Mounts
  <2>2. pending \in Sockets \cup {None}
    BY DEF TypeOK
  <2>q. QED BY <2>1, <2>2, AttemptsTyped DEF AttemptTyped
<1>21. ASSUME NEW p \in Panes, Switch(p)
      PROVE  AttemptTyped'
  BY <1>21, <1>a, AttemptsTyped DEF Switch, screen, surface, user, Mounts,
    AttemptTyped
<1>22. CASE Remount
  BY <1>22, <1>a, AttemptsTyped DEF Remount, screen, surface, user, Mounts,
    Fault, AttemptTyped
<1>23. CASE Hide
  BY <1>23, <1>a, AttemptsTyped DEF Hide, Unmounts, Unready, screen, surface,
    user, AttemptTyped
<1>24. CASE Vanish
  BY <1>24, <1>a, AttemptsTyped DEF Vanish, Unmounts, Unready, NoAttempt,
    screen, surface, user, AttemptTyped
<1>25. CASE Background
  BY <1>25, <1>a, AttemptsTyped DEF Background, screen, surface, user,
    Unready, AttemptTyped
<1>26. CASE Foreground
  BY <1>26, <1>a, AttemptsTyped DEF Foreground, screen, surface, user,
    Reconnects, Connects, Replaced, AttemptTyped
<1>27. CASE PressReconnect
  BY <1>27, <1>a, AttemptsTyped DEF PressReconnect, screen, surface, user,
    Reconnects, Connects, Replaced, AttemptTyped
<1>28. CASE GoesOnline
  BY <1>28, <1>a, AttemptsTyped DEF GoesOnline, screen, surface, user,
    Connects, Replaced, Fault, AttemptTyped
<1>29. CASE Detach
  BY <1>29, <1>a, AttemptsTyped DEF Detach, screen, surface, user,
    AttemptTyped
<1>30. CASE AskPaste \/ PasteRead \/ UNCHANGED vars
  BY <1>30, Quiet DEF screen, surface, AttemptTyped
<1>q. QED BY <1>1, <1>2, <1>3, <1>4, <1>5, <1>6, <1>7, <1>8, <1>9, <1>10,
  <1>11, <1>12, <1>13, <1>14, <1>15, <1>16, <1>17, <1>18, <1>19, <1>20,
  <1>21, <1>22, <1>23, <1>24, <1>25, <1>26, <1>27, <1>28, <1>29, <1>30 DEF Next,
  Progress, OnMessage

\* The socket of the view model is not closed.
LEMMA CurrentsStep ==
  ASSUME TypeOK, [Next]_vars
  PROVE  CurrentTyped'
<1> USE NoneAssumption, MaxFaultsAssumption
<1>1. CASE RetryFires
  BY <1>1 DEF RetryFires, screen, surface, user, Connects, Replaced, Closing,
    Ticket, Retries, Live, Unused, TypeOK, CurrentTyped, Connections
<1>2. CASE TicketArrives
  BY <1>2 DEF TicketArrives, screen, surface, user, Dials, Free, NoAttempt,
    Unused, TypeOK, CurrentTyped, Connections
<1>3. CASE TicketFails
  BY <1>3 DEF TicketFails, screen, surface, user, ScheduleReconnect, Retries,
    NoAttempt, Fault, TypeOK, CurrentTyped, Connections
<1>4. ASSUME NEW s \in Sockets, Opens(s)
      PROVE  CurrentTyped'
  BY <1>4 DEF Opens, screen, surface, user, TypeOK, CurrentTyped, Connections
<1>5. ASSUME NEW s \in Sockets, Answers(s)
      PROVE  CurrentTyped'
  <2>1. CASE Sends(s, "ready", "serving")
    BY <1>5, <2>1 DEF Answers, screen, surface, user, Sends, TypeOK,
      CurrentTyped, Connections
  <2>2. CASE sock[s].server = "resuming" /\ Sends(s, "resume_not_found", "idle")
    BY <1>5, <2>2 DEF Answers, screen, surface, user, Sends, TypeOK,
      CurrentTyped, Connections
  <2>q. QED BY <1>5, <2>1, <2>2 DEF Answers
<1>6. ASSUME NEW s \in Sockets, OnReady(s)
      PROVE  CurrentTyped'
  <2>1. CASE app # "active"
    BY <1>6, <2>1, ClosingIs DEF OnReady, TypeOK, CurrentTyped
  <2>2. CASE app = "active"
    <3>1. /\ current' = current
          /\ sock' = [Read(s) EXCEPT ![s].timer = FALSE]
      BY <1>6, <2>2 DEF OnReady
    <3>q. QED BY <3>1 DEF Read, TypeOK, Connections, CurrentTyped
  <2>q. QED BY <2>1, <2>2
<1>7. ASSUME NEW s \in Sockets, OnClosed(s)
      PROVE  CurrentTyped'
  BY <1>7 DEF OnClosed, screen, surface, user, Receives, Read, Unready,
    TypeOK, CurrentTyped, Connections
<1>8. ASSUME NEW s \in Sockets, OnResumeNotFound(s)
      PROVE  CurrentTyped'
  BY <1>8 DEF OnResumeNotFound, screen, surface, user, Receives, Read,
    TypeOK, CurrentTyped, Connections
<1>9. ASSUME NEW s \in Sockets, OnRefused(s)
      PROVE  CurrentTyped'
  BY <1>9 DEF OnRefused, screen, surface, user, Receives, Read, TypeOK,
    CurrentTyped, Connections
<1>10. ASSUME NEW s \in Sockets, OnFailed(s)
      PROVE  CurrentTyped'
  BY <1>10 DEF OnFailed, screen, surface, user, Receives, Closing, Unready,
    Unused, ScheduleReconnect, Retries, TypeOK, CurrentTyped, Connections
<1>11. ASSUME NEW s \in Sockets, OnDetached(s)
      PROVE  CurrentTyped'
  BY <1>11 DEF OnDetached, screen, surface, user, Receives, Read, DetachDone,
    Settled, Outdated, NoAttempt, Ticket, Retries, TypeOK, CurrentTyped,
    Connections
<1>12. ASSUME NEW s \in Sockets, TimesOut(s)
      PROVE  CurrentTyped'
  BY <1>12 DEF TimesOut, screen, surface, user, Closing, Unready, Unused,
    ScheduleReconnect, Retries, TypeOK, CurrentTyped, Connections
<1>13. ASSUME NEW s \in Sockets, ClosesUnattached(s)
      PROVE  CurrentTyped'
  BY <1>13 DEF ClosesUnattached, screen, surface, user, TypeOK, CurrentTyped,
    Connections
<1>14. ASSUME NEW s \in Sockets, ClosesAtLast(s)
      PROVE  CurrentTyped'
  BY <1>14 DEF ClosesAtLast, screen, surface, user, Lost, DetachDone,
    Settled, Outdated, NoAttempt, Ticket, Unready, ScheduleReconnect,
    Retries, Unused, TypeOK, CurrentTyped, Connections
<1>15. ASSUME NEW s \in Sockets, DetachTimesOut(s)
      PROVE  CurrentTyped'
  BY <1>15 DEF DetachTimesOut, screen, surface, user, Closing, Unused,
    DetachDone, Settled, Outdated, NoAttempt, Ticket, Retries, TypeOK,
    CurrentTyped, Connections
<1>16. ASSUME NEW s \in Sockets, EndsSession(s)
      PROVE  CurrentTyped'
  BY <1>16 DEF EndsSession, screen, surface, user, Sends, TypeOK,
    CurrentTyped, Connections
<1>17. ASSUME NEW s \in Sockets, Fails(s)
      PROVE  CurrentTyped'
  BY <1>17 DEF Fails, screen, surface, user, Sends, Fault, TypeOK,
    CurrentTyped, Connections
<1>18. ASSUME NEW s \in Sockets, ConnectionLost(s)
      PROVE  CurrentTyped'
  BY <1>18 DEF ConnectionLost, screen, surface, user, Fault, Lost,
    DetachDone, Settled, Outdated, NoAttempt, Ticket, Unready,
    ScheduleReconnect, Retries, Unused, TypeOK, CurrentTyped, Connections
<1>19. ASSUME NEW s \in Sockets, FallsSilent(s)
      PROVE  CurrentTyped'
  BY <1>19 DEF FallsSilent, screen, surface, user, Fault, TypeOK,
    CurrentTyped, Connections
<1>20. ASSUME NEW p \in Panes, Show(p)
      PROVE  CurrentTyped'
  BY <1>20 DEF Show, screen, surface, user, Mounts, Ticket, Detached, TypeOK,
    CurrentTyped, Connections
<1>21. ASSUME NEW p \in Panes, Switch(p)
      PROVE  CurrentTyped'
  BY <1>21 DEF Switch, screen, surface, user, Mounts, Ticket, Detached,
    Leaves, Noticed, Closing, Unused, TypeOK, CurrentTyped, Connections
<1>22. CASE Remount
  BY <1>22 DEF Remount, screen, surface, user, Mounts, Ticket, Detached,
    GivenUp, Closing, Unused, Fault, TypeOK, CurrentTyped, Connections
<1>23. CASE Hide
  BY <1>23 DEF Hide, Unmounts, Unready, screen, surface, user, NoAttempt,
    GivenUp, Closing, Unused, TypeOK, CurrentTyped, Connections
<1>24. CASE Vanish
  BY <1>24 DEF Vanish, Unmounts, Unready, NoAttempt, screen, surface, user,
    Leaves, Noticed, Closing, Unused, TypeOK, CurrentTyped, Connections
<1>25. CASE Background
  <2>1. CASE closed \/ ~mounted \/ current = None
    BY <1>25, <2>1 DEF Background, GivenUp, user, TypeOK, CurrentTyped
  <2>2. CASE ~closed /\ mounted /\ current # None
    BY <1>25, <2>2, ClosingIs DEF Background, GivenUp, TypeOK, CurrentTyped
  <2>q. QED BY <2>1, <2>2
<1>26. CASE Foreground
  BY <1>26 DEF Foreground, screen, surface, user, Reconnects, Connects,
    Replaced, Closing, Ticket, Retries, Live, Unused, TypeOK, CurrentTyped,
    Connections
<1>27. CASE PressReconnect
  BY <1>27 DEF PressReconnect, screen, surface, user, Reconnects, Connects,
    Replaced, Closing, Ticket, Retries, Live, Unused, TypeOK, CurrentTyped,
    Connections
<1>28. CASE GoesOnline
  BY <1>28 DEF GoesOnline, screen, surface, user, Connects, Replaced,
    Closing, Ticket, Retries, Live, Unused, Fault, TypeOK, CurrentTyped,
    Connections
<1>29. CASE Detach
  BY <1>29 DEF Detach, screen, surface, user, Cancelled, NoAttempt, Closing,
    Unused, TypeOK, CurrentTyped, Connections
<1>30. CASE AskPaste \/ PasteRead \/ UNCHANGED vars
  BY <1>30, Quiet DEF screen, surface, TypeOK, CurrentTyped, Connections
<1>q. QED BY <1>1, <1>2, <1>3, <1>4, <1>5, <1>6, <1>7, <1>8, <1>9, <1>10,
  <1>11, <1>12, <1>13, <1>14, <1>15, <1>16, <1>17, <1>18, <1>19, <1>20,
  <1>21, <1>22, <1>23, <1>24, <1>25, <1>26, <1>27, <1>28, <1>29, <1>30 DEF Next,
  Progress, OnMessage

\* Truth values, and the rest of TypeOK.
Truths ==
  /\ mounted \in BOOLEAN /\ closed \in BOOLEAN /\ ready \in BOOLEAN
  /\ retry \in BOOLEAN /\ resume \in BOOLEAN /\ left \in BOOLEAN
  /\ stranded \in BOOLEAN

Values ==
  /\ app \in {"active", "background"}
  /\ target \in Panes \cup {None} /\ pending \in Sockets \cup {None}
  /\ mounted => target \in Panes
  /\ status \in {"connecting", "connected", "error", "closed"}
  /\ current \in Sockets \cup {None} /\ input \in Sockets \cup {None}
  /\ kept \subseteq Panes
  /\ paste \in {None} \cup [target : Panes, socket : Sockets]
  /\ faults \in 0..MaxFaults

\* A step leaves truth values.
LEMMA TruthsStep ==
  ASSUME Truths, [Next]_vars
  PROVE  Truths'
<1> USE NoneAssumption, MaxFaultsAssumption
<1>1. CASE RetryFires
  BY <1>1, Booleans DEF RetryFires, screen, surface, user, Truths
<1>2. CASE TicketArrives
  BY <1>2, Booleans DEF TicketArrives, screen, surface, user, Truths
<1>3. CASE TicketFails
  BY <1>3, Booleans DEF TicketFails, screen, surface, user, Truths
<1>4. ASSUME NEW s \in Sockets, Opens(s)
      PROVE  Truths'
  BY <1>4, Booleans DEF Opens, screen, surface, user, Truths
<1>5. ASSUME NEW s \in Sockets, Answers(s)
      PROVE  Truths'
  BY <1>5, Booleans DEF Answers, screen, surface, user, Sends, Truths
<1>6. ASSUME NEW s \in Sockets, OnReady(s)
      PROVE  Truths'
  BY <1>6, Booleans DEF OnReady, screen, surface, user, Receives, Truths
<1>7. ASSUME NEW s \in Sockets, OnClosed(s)
      PROVE  Truths'
  BY <1>7, Booleans DEF OnClosed, screen, surface, user, Receives, Unready,
    Truths
<1>8. ASSUME NEW s \in Sockets, OnResumeNotFound(s)
      PROVE  Truths'
  BY <1>8, Booleans DEF OnResumeNotFound, screen, surface, user, Receives,
    Truths
<1>9. ASSUME NEW s \in Sockets, OnRefused(s)
      PROVE  Truths'
  BY <1>9, Booleans DEF OnRefused, screen, surface, user, Receives, Truths
<1>10. ASSUME NEW s \in Sockets, OnFailed(s)
      PROVE  Truths'
  BY <1>10, Booleans DEF OnFailed, screen, surface, user, Receives, Unready,
    Truths
<1>11. ASSUME NEW s \in Sockets, OnDetached(s)
      PROVE  Truths'
  BY <1>11, Booleans DEF OnDetached, screen, surface, user, Receives, Truths
<1>12. ASSUME NEW s \in Sockets, TimesOut(s)
      PROVE  Truths'
  BY <1>12, Booleans DEF TimesOut, screen, surface, user, Unready, Truths
<1>13. ASSUME NEW s \in Sockets, ClosesUnattached(s)
      PROVE  Truths'
  BY <1>13, Booleans DEF ClosesUnattached, screen, surface, user, Truths
<1>14. ASSUME NEW s \in Sockets, ClosesAtLast(s)
      PROVE  Truths'
  BY <1>14, Booleans DEF ClosesAtLast, screen, surface, user, Lost, Unready,
    Truths
<1>15. ASSUME NEW s \in Sockets, DetachTimesOut(s)
      PROVE  Truths'
  BY <1>15, Booleans DEF DetachTimesOut, screen, surface, user, Truths
<1>16. ASSUME NEW s \in Sockets, EndsSession(s)
      PROVE  Truths'
  BY <1>16, Booleans DEF EndsSession, screen, surface, user, Sends, Truths
<1>17. ASSUME NEW s \in Sockets, Fails(s)
      PROVE  Truths'
  BY <1>17, Booleans DEF Fails, screen, surface, user, Sends, Truths
<1>18. ASSUME NEW s \in Sockets, ConnectionLost(s)
      PROVE  Truths'
  BY <1>18, Booleans DEF ConnectionLost, screen, surface, user, Lost,
    Unready, Truths
<1>19. ASSUME NEW s \in Sockets, FallsSilent(s)
      PROVE  Truths'
  BY <1>19, Booleans DEF FallsSilent, screen, surface, user, Truths
<1>20. ASSUME NEW p \in Panes, Show(p)
      PROVE  Truths'
  BY <1>20, Booleans DEF Show, screen, surface, user, Mounts, Truths
<1>21. ASSUME NEW p \in Panes, Switch(p)
      PROVE  Truths'
  BY <1>21, Booleans DEF Switch, screen, surface, user, Mounts, Truths
<1>22. CASE Remount
  BY <1>22, Booleans DEF Remount, screen, surface, user, Mounts, GivenUp,
    Truths
<1>23. CASE Hide
  BY <1>23, Booleans DEF Hide, Unmounts, Unready, screen, surface, user,
    GivenUp, Truths
<1>24. CASE Vanish
  BY <1>24, Booleans DEF Vanish, Unmounts, Unready, NoAttempt, screen,
    surface, user, Truths
<1>25. CASE Background
  BY <1>25, Booleans DEF Background, screen, surface, user, Cancelled,
    Unready, GivenUp, Truths
<1>26. CASE Foreground
  BY <1>26, Booleans DEF Foreground, screen, surface, user, Reconnects,
    Truths
<1>27. CASE PressReconnect
  BY <1>27, Booleans DEF PressReconnect, screen, surface, user, Reconnects,
    Truths
<1>28. CASE GoesOnline
  BY <1>28, Booleans DEF GoesOnline, screen, surface, user, Truths
<1>29. CASE Detach
  BY <1>29, Booleans DEF Detach, screen, surface, user, Cancelled, Truths
<1>30. CASE AskPaste \/ PasteRead \/ UNCHANGED vars
  BY <1>30 DEF AskPaste, PasteRead, PasteCurrent, vars, screen, surface,
    user, Truths
<1>q. QED BY <1>1, <1>2, <1>3, <1>4, <1>5, <1>6, <1>7, <1>8, <1>9, <1>10,
  <1>11, <1>12, <1>13, <1>14, <1>15, <1>16, <1>17, <1>18, <1>19, <1>20,
  <1>21, <1>22, <1>23, <1>24, <1>25, <1>26, <1>27, <1>28, <1>29, <1>30 DEF Next,
  Progress, OnMessage

\* ... and the other variables in their types.
LEMMA ValuesStep ==
  ASSUME Values, HiddenInv, [Next]_vars
  PROVE  Values'
<1> USE NoneAssumption, MaxFaultsAssumption
<1>1. CASE RetryFires
  BY <1>1 DEF RetryFires, screen, surface, user, Connects, Replaced, Ticket,
    Retries, Values
<1>2. CASE TicketArrives
  BY <1>2 DEF TicketArrives, screen, surface, user, Dials, Free, NoAttempt,
    Values
<1>3. CASE TicketFails
  BY <1>3 DEF TicketFails, screen, surface, user, ScheduleReconnect, Retries,
    NoAttempt, Fault, Values
<1>4. ASSUME NEW s \in Sockets, Opens(s)
      PROVE  Values'
  BY <1>4 DEF Opens, screen, surface, user, Values
<1>5. ASSUME NEW s \in Sockets, Answers(s)
      PROVE  Values'
  BY <1>5 DEF Answers, screen, surface, user, Sends, Values
<1>6. ASSUME NEW s \in Sockets, OnReady(s)
      PROVE  Values'
  BY <1>6 DEF OnReady, screen, surface, user, Receives, HiddenInv, Values
<1>7. ASSUME NEW s \in Sockets, OnClosed(s)
      PROVE  Values'
  BY <1>7 DEF OnClosed, screen, surface, user, Receives, Unready, Values
<1>8. ASSUME NEW s \in Sockets, OnResumeNotFound(s)
      PROVE  Values'
  BY <1>8 DEF OnResumeNotFound, screen, surface, user, Receives, Values
<1>9. ASSUME NEW s \in Sockets, OnRefused(s)
      PROVE  Values'
  BY <1>9 DEF OnRefused, screen, surface, user, Receives, Values
<1>10. ASSUME NEW s \in Sockets, OnFailed(s)
      PROVE  Values'
  BY <1>10 DEF OnFailed, screen, surface, user, Receives, Unready,
    ScheduleReconnect, Retries, Values
<1>11. ASSUME NEW s \in Sockets, OnDetached(s)
      PROVE  Values'
  BY <1>11 DEF OnDetached, screen, surface, user, Receives, DetachDone,
    Settled, Outdated, NoAttempt, Ticket, Retries, Values
<1>12. ASSUME NEW s \in Sockets, TimesOut(s)
      PROVE  Values'
  BY <1>12 DEF TimesOut, screen, surface, user, Unready, ScheduleReconnect,
    Retries, Values
<1>13. ASSUME NEW s \in Sockets, ClosesUnattached(s)
      PROVE  Values'
  BY <1>13 DEF ClosesUnattached, screen, surface, user, Values
<1>14. ASSUME NEW s \in Sockets, ClosesAtLast(s)
      PROVE  Values'
  BY <1>14 DEF ClosesAtLast, screen, surface, user, Lost, DetachDone,
    Settled, Outdated, NoAttempt, Ticket, Unready, ScheduleReconnect,
    Retries, Values
<1>15. ASSUME NEW s \in Sockets, DetachTimesOut(s)
      PROVE  Values'
  BY <1>15 DEF DetachTimesOut, screen, surface, user, DetachDone, Settled,
    Outdated, NoAttempt, Ticket, Retries, Values
<1>16. ASSUME NEW s \in Sockets, EndsSession(s)
      PROVE  Values'
  BY <1>16 DEF EndsSession, screen, surface, user, Sends, Values
<1>17. ASSUME NEW s \in Sockets, Fails(s)
      PROVE  Values'
  BY <1>17 DEF Fails, screen, surface, user, Sends, Fault, Values
<1>18. ASSUME NEW s \in Sockets, ConnectionLost(s)
      PROVE  Values'
  BY <1>18 DEF ConnectionLost, screen, surface, user, Fault, Lost,
    DetachDone, Settled, Outdated, NoAttempt, Ticket, Unready,
    ScheduleReconnect, Retries, Values
<1>19. ASSUME NEW s \in Sockets, FallsSilent(s)
      PROVE  Values'
  BY <1>19 DEF FallsSilent, screen, surface, user, Fault, Values
<1>20. ASSUME NEW p \in Panes, Show(p)
      PROVE  Values'
  BY <1>20 DEF Show, screen, surface, user, Mounts, Ticket, Values
<1>21. ASSUME NEW p \in Panes, Switch(p)
      PROVE  Values'
  BY <1>21 DEF Switch, screen, surface, user, Mounts, Ticket, Leaves, Values
<1>22. CASE Remount
  BY <1>22 DEF Remount, screen, surface, user, Mounts, Ticket, GivenUp,
    Fault, Values
<1>23. CASE Hide
  BY <1>23 DEF Hide, Unmounts, Unready, screen, surface, user, NoAttempt,
    GivenUp, Values
<1>24. CASE Vanish
  BY <1>24 DEF Vanish, Unmounts, Unready, NoAttempt, screen, surface, user,
    Leaves, Values
<1>25. CASE Background
  BY <1>25 DEF Background, screen, surface, user, Cancelled, NoAttempt,
    Unready, GivenUp, Values
<1>26. CASE Foreground
  BY <1>26 DEF Foreground, screen, surface, user, Reconnects, Connects,
    Replaced, Ticket, Retries, Values
<1>27. CASE PressReconnect
  BY <1>27 DEF PressReconnect, screen, surface, user, Reconnects, Connects,
    Replaced, Ticket, Retries, Values
<1>28. CASE GoesOnline
  BY <1>28 DEF GoesOnline, screen, surface, user, Connects, Replaced, Ticket,
    Retries, Fault, Values
<1>29. CASE Detach
  BY <1>29 DEF Detach, screen, surface, user, Cancelled, NoAttempt, Values
<1>30. CASE AskPaste \/ PasteRead \/ UNCHANGED vars
  BY <1>30 DEF AskPaste, PasteRead, PasteCurrent, vars, screen, surface,
    user, Values
<1>q. QED BY <1>1, <1>2, <1>3, <1>4, <1>5, <1>6, <1>7, <1>8, <1>9, <1>10,
  <1>11, <1>12, <1>13, <1>14, <1>15, <1>16, <1>17, <1>18, <1>19, <1>20,
  <1>21, <1>22, <1>23, <1>24, <1>25, <1>26, <1>27, <1>28, <1>29, <1>30 DEF Next,
  Progress, OnMessage

\* Every step keeps the variables in their types.
LEMMA Types ==
  ASSUME TypeOK, HiddenInv, SockTyped', AttemptTyped', CurrentTyped',
         [Next]_vars
  PROVE  TypeOK'
<1>1. Truths /\ Values BY DEF TypeOK, Truths, Values
<1>2. Truths' /\ Values' BY <1>1, TruthsStep, ValuesStep
<1>q. QED
  BY <1>2 DEF TypeOK, Truths, Values, SockTyped, AttemptTyped, CurrentTyped

\* A socket and its wire fit the state of both ends.
LEMMA SocketsStep ==
  ASSUME TypeOK, SocketInv, CurrentInv, HiddenInv, [Next]_vars
  PROVE  SocketInv'
<1> USE NoneAssumption, MaxFaultsAssumption
<1>1. CASE RetryFires
  <2>1. CASE UNCHANGED <<sock, current>>
    BY <2>1 DEF SocketInv
  <2>2. CASE ~UNCHANGED <<sock, current>>
    <3>1. /\ current \in Sockets /\ sock' = Closing(sock, current)
          /\ current' = None
      BY <1>1, <2>2 DEF RetryFires, Connects, Replaced, TypeOK
    <3>q. QED BY <3>1, ClosingFits
  <2>q. QED BY <2>1, <2>2
<1>2. CASE TicketArrives
  <2>1. PICK s \in Sockets : Dials(s) BY <1>2 DEF TicketArrives
  <2>2. /\ sock'[s].state = "connecting" /\ sock'[s].server = "idle"
        /\ sock'[s].wire = <<>> /\ ~sock'[s].detach /\ ~sock'[s].leaving
        /\ current' = s
    BY <2>1 DEF Dials, Unused, TypeOK
  <2>3. \A t \in Sockets \ {s} : sock'[t] = sock[t]
    BY <2>1 DEF Dials, TypeOK
  <2>4. \A t \in Sockets : sock[t].state # "connecting"
    BY <1>2 DEF TicketArrives, SocketInv, CurrentInv, Live
  <2>5. ~sock[s].leaving BY <2>1 DEF Dials, Free, SocketInv
  <2>6. current # s BY <2>1 DEF Dials, Free, TypeOK
  <2>7. DOMAIN <<>> = {} OBVIOUS
  <2>q. QED BY <2>2, <2>3, <2>4, <2>7 DEF SocketInv
<1>3. CASE TicketFails
  BY <1>3 DEF TicketFails, screen, surface, user, ScheduleReconnect, Retries,
    NoAttempt, Fault, TypeOK, Attempts, Connections, Messages, SocketInv,
    CurrentInv, HiddenInv
<1>4. ASSUME NEW s \in Sockets, Opens(s)
      PROVE  SocketInv'
  BY <1>4 DEF Opens, screen, surface, user, TypeOK, Attempts, Connections,
    Messages, SocketInv, CurrentInv, HiddenInv
<1>5. ASSUME NEW s \in Sockets, Answers(s)
      PROVE  SocketInv'
  <2>1. sock[s].wire = <<>> BY <1>5 DEF Answers, SocketInv
  <2>2. PICK m \in {"ready", "resume_not_found"} :
          LET next == IF m = "ready" THEN "serving" ELSE "idle" IN
          /\ sock' = [sock EXCEPT ![s].wire = <<m>>, ![s].server = next]
          /\ sock[s].state = "open" /\ current' = current
    BY <1>5, <2>1 DEF Answers, Sends
  <2>3. DOMAIN <<m>> = {1} /\ Len(<<m>>) = 1 /\ <<m>>[1] = m OBVIOUS
  <2>q. QED BY <2>2, <2>3 DEF TypeOK, Connections, SocketInv
<1>6. ASSUME NEW s \in Sockets, OnReady(s)
      PROVE  SocketInv'
  <2>1. CASE app # "active"
    BY <1>6, <2>1, ClosingFits DEF OnReady
  <2>2. CASE app = "active"
    <3>1. /\ sock' = [Read(s) EXCEPT ![s].timer = FALSE]
          /\ current' = current /\ sock[s].wire # <<>>
      BY <1>6, <2>2 DEF OnReady, Receives
    <3>q. QED BY <3>1 DEF Read, TypeOK, Connections, Messages, SocketInv
  <2>q. QED BY <2>1, <2>2
<1>7. ASSUME NEW s \in Sockets, OnClosed(s)
      PROVE  SocketInv'
  BY <1>7 DEF OnClosed, screen, surface, user, Receives, Read, Unready,
    TypeOK, Attempts, Connections, Messages, SocketInv, CurrentInv, HiddenInv
<1>8. ASSUME NEW s \in Sockets, OnResumeNotFound(s)
      PROVE  SocketInv'
  BY <1>8 DEF OnResumeNotFound, screen, surface, user, Receives, Read,
    TypeOK, Attempts, Connections, Messages, SocketInv, CurrentInv, HiddenInv
<1>9. ASSUME NEW s \in Sockets, OnRefused(s)
      PROVE  SocketInv'
  BY <1>9 DEF OnRefused, screen, surface, user, Receives, Read, TypeOK,
    Attempts, Connections, Messages, SocketInv, CurrentInv, HiddenInv
<1>10. ASSUME NEW s \in Sockets, OnFailed(s)
      PROVE  SocketInv'
  BY <1>10 DEF OnFailed, screen, surface, user, Receives, Closing, Unready,
    Unused, ScheduleReconnect, Retries, TypeOK, Attempts, Connections,
    Messages, SocketInv, CurrentInv, HiddenInv
<1>11. ASSUME NEW s \in Sockets, OnDetached(s)
      PROVE  SocketInv'
  <2>1. /\ sock' = [Read(s) EXCEPT ![s].leaving = FALSE]
        /\ current' = current /\ sock[s].wire # <<>>
    BY <1>11 DEF OnDetached, Receives
  <2>q. QED BY <2>1 DEF Read, TypeOK, Connections, Messages, SocketInv
<1>12. ASSUME NEW s \in Sockets, TimesOut(s)
      PROVE  SocketInv'
  BY <1>12 DEF TimesOut, screen, surface, user, Closing, Unready, Unused,
    ScheduleReconnect, Retries, TypeOK, Attempts, Connections, Messages,
    SocketInv, CurrentInv, HiddenInv
<1>13. ASSUME NEW s \in Sockets, ClosesUnattached(s)
      PROVE  SocketInv'
  BY <1>13 DEF ClosesUnattached, screen, surface, user, TypeOK, Attempts,
    Connections, Messages, SocketInv, CurrentInv, HiddenInv
<1>14. ASSUME NEW s \in Sockets, ClosesAtLast(s)
      PROVE  SocketInv'
  BY <1>14 DEF ClosesAtLast, screen, surface, user, Lost, DetachDone,
    Settled, Outdated, NoAttempt, Ticket, Unready, ScheduleReconnect,
    Retries, Unused, TypeOK, Attempts, Connections, Messages, SocketInv,
    CurrentInv, HiddenInv
<1>15. ASSUME NEW s \in Sockets, DetachTimesOut(s)
      PROVE  SocketInv'
  BY <1>15 DEF DetachTimesOut, screen, surface, user, Closing, Unused,
    DetachDone, Settled, Outdated, NoAttempt, Ticket, Retries, TypeOK,
    Attempts, Connections, Messages, SocketInv, CurrentInv, HiddenInv
<1>16. ASSUME NEW s \in Sockets, EndsSession(s)
      PROVE  SocketInv'
  BY <1>16 DEF EndsSession, screen, surface, user, Sends, TypeOK, Attempts,
    Connections, Messages, SocketInv, CurrentInv, HiddenInv
<1>17. ASSUME NEW s \in Sockets, Fails(s)
      PROVE  SocketInv'
  <2>1. PICK e \in {"refused", "failed"}, n \in {"serving", "idle"} :
          /\ Sends(s, e, n)
          /\ sock[s].server # "serving" =>
               sock[s].server \in {"resuming", "attaching"}
    BY <1>17 DEF Fails
  <2>2. /\ sock[s].state = "open" /\ current' = current
        /\ sock' = [sock EXCEPT ![s].wire = Append(@, e), ![s].server = n]
    BY <2>1 DEF Sends
  <2>3. n = "idle" => sock[s].wire = <<>> /\ Len(Append(sock[s].wire, e)) = 1
    BY <1>17, <2>1 DEF Fails, Sends, SocketInv, TypeOK, Connections
  <2>q. QED BY <2>2, <2>3 DEF TypeOK, Connections, Messages, SocketInv
<1>18. ASSUME NEW s \in Sockets, ConnectionLost(s)
      PROVE  SocketInv'
  BY <1>18 DEF ConnectionLost, screen, surface, user, Fault, Lost,
    DetachDone, Settled, Outdated, NoAttempt, Ticket, Unready,
    ScheduleReconnect, Retries, Unused, TypeOK, Attempts, Connections,
    Messages, SocketInv, CurrentInv, HiddenInv
<1>19. ASSUME NEW s \in Sockets, FallsSilent(s)
      PROVE  SocketInv'
  BY <1>19 DEF FallsSilent, screen, surface, user, Fault, TypeOK, Attempts,
    Connections, Messages, SocketInv, CurrentInv, HiddenInv
<1>20. ASSUME NEW p \in Panes, Show(p)
      PROVE  SocketInv'
  BY <1>20 DEF Show, screen, surface, user, Mounts, Ticket, Detached, TypeOK,
    Attempts, Connections, Messages, SocketInv, CurrentInv, HiddenInv
<1>21. ASSUME NEW p \in Panes, Switch(p)
      PROVE  SocketInv'
  <2>1. CASE current = None
    BY <1>21, <2>1 DEF Switch, Mounts, Leaves, TypeOK, SocketInv
  <2>2. CASE current # None /\ sock[current].state = "open"
    BY <1>21, <2>2 DEF Switch, Mounts, Leaves, Noticed, TypeOK, Connections,
      SocketInv
  <2>3. CASE current # None /\ sock[current].state # "open"
    BY <1>21, <2>3, ClosingIs DEF Switch, Mounts, Leaves, Closing, Unused,
      TypeOK, Connections, SocketInv
  <2>q. QED BY <2>1, <2>2, <2>3
<1>22. CASE Remount
  BY <1>22 DEF Remount, screen, surface, user, Mounts, Ticket, Detached,
    GivenUp, Closing, Unused, Fault, TypeOK, Attempts, Connections, Messages,
    SocketInv, CurrentInv, HiddenInv
<1>23. CASE Hide
  BY <1>23 DEF Hide, Unmounts, Unready, screen, surface, user, NoAttempt,
    GivenUp, Closing, Unused, TypeOK, Attempts, Connections, Messages,
    SocketInv, CurrentInv, HiddenInv
<1>24. CASE Vanish
  <2>1. CASE current = None
    BY <1>24, <2>1 DEF Vanish, Unmounts, Unready, NoAttempt, Leaves, TypeOK,
      SocketInv
  <2>2. CASE current # None /\ sock[current].state = "open"
    BY <1>24, <2>2 DEF Vanish, Unmounts, Unready, NoAttempt, Leaves, Noticed,
      TypeOK, Connections, SocketInv
  <2>3. CASE current # None /\ sock[current].state # "open"
    BY <1>24, <2>3, ClosingIs DEF Vanish, Unmounts, Unready, NoAttempt,
      Leaves, Closing, Unused, TypeOK, Connections, SocketInv
  <2>q. QED BY <2>1, <2>2, <2>3
<1>25. CASE Background
  <2>1. CASE sock' = sock
    BY <1>25, <2>1 DEF Background, SocketInv
  <2>2. CASE sock' # sock
    <3>1. /\ current \in Sockets /\ sock' = Closing(sock, current)
          /\ current' = current
      BY <1>25, <2>2 DEF Background, GivenUp, TypeOK
    <3>q. QED BY <3>1, ClosingFits
  <2>q. QED BY <2>1, <2>2
<1>26. CASE Foreground
  <2>1. CASE UNCHANGED <<sock, current>>
    BY <2>1 DEF SocketInv
  <2>2. CASE ~UNCHANGED <<sock, current>>
    <3>1. /\ current \in Sockets /\ sock' = Closing(sock, current)
          /\ current' = None
      BY <1>26, <2>2 DEF Foreground, Reconnects, Connects, Replaced, TypeOK
    <3>q. QED BY <3>1, ClosingFits
  <2>q. QED BY <2>1, <2>2
<1>27. CASE PressReconnect
  <2>1. CASE UNCHANGED <<sock, current>>
    BY <2>1 DEF SocketInv
  <2>2. CASE ~UNCHANGED <<sock, current>>
    <3>1. /\ current \in Sockets /\ sock' = Closing(sock, current)
          /\ current' = None
      BY <1>27, <2>2 DEF PressReconnect, Reconnects, Connects, Replaced,
        TypeOK
    <3>q. QED BY <3>1, ClosingFits
  <2>q. QED BY <2>1, <2>2
<1>28. CASE GoesOnline
  <2>1. CASE UNCHANGED <<sock, current>>
    BY <2>1 DEF SocketInv
  <2>2. CASE ~UNCHANGED <<sock, current>>
    <3>1. /\ current \in Sockets /\ sock' = Closing(sock, current)
          /\ current' = None
      BY <1>28, <2>2 DEF GoesOnline, Connects, Replaced, TypeOK
    <3>q. QED BY <3>1, ClosingFits
  <2>q. QED BY <2>1, <2>2
<1>29. CASE Detach
  BY <1>29 DEF Detach, screen, surface, user, Cancelled, NoAttempt, Closing,
    Unused, TypeOK, Attempts, Connections, Messages, SocketInv, CurrentInv,
    HiddenInv
<1>30. CASE AskPaste \/ PasteRead \/ UNCHANGED vars
  BY <1>30, Quiet DEF screen, surface, TypeOK, Attempts, Connections,
    Messages, SocketInv, CurrentInv, HiddenInv
<1>q. QED BY <1>1, <1>2, <1>3, <1>4, <1>5, <1>6, <1>7, <1>8, <1>9, <1>10,
  <1>11, <1>12, <1>13, <1>14, <1>15, <1>16, <1>17, <1>18, <1>19, <1>20,
  <1>21, <1>22, <1>23, <1>24, <1>25, <1>26, <1>27, <1>28, <1>29, <1>30 DEF Next,
  Progress, OnMessage

\* The view model's socket is for the pane on the screen.
LEMMA CurrentStep ==
  ASSUME TypeOK, SocketInv, CurrentInv, PendingInv, [Next]_vars
  PROVE  CurrentInv'
<1> USE NoneAssumption, MaxFaultsAssumption
<1>1. CASE RetryFires
  BY <1>1 DEF RetryFires, screen, surface, user, Connects, Replaced, Closing,
    Ticket, Retries, Live, Unused, TypeOK, Attempts, Connections, Messages,
    SocketInv, CurrentInv
<1>2. CASE TicketArrives
  BY <1>2 DEF TicketArrives, screen, surface, user, Dials, Free, NoAttempt,
    Unused, TypeOK, Attempts, Connections, Messages, SocketInv, CurrentInv
<1>3. CASE TicketFails
  BY <1>3 DEF TicketFails, screen, surface, user, ScheduleReconnect, Retries,
    NoAttempt, Fault, TypeOK, Attempts, Connections, Messages, SocketInv,
    CurrentInv
<1>4. ASSUME NEW s \in Sockets, Opens(s)
      PROVE  CurrentInv'
  <2>1. s = current /\ current' = current /\ attempt' = attempt
          /\ target' = target /\ sock[s].wire = <<>> /\ sock[s].timer
    BY <1>4 DEF Opens, SocketInv, CurrentInv, screen, surface
  <2>2. /\ sock'[s].wire = <<>> /\ sock'[s].timer
        /\ sock'[s].pane = sock[s].pane /\ sock'[s].state = "open"
    BY <1>4, <2>1 DEF Opens, TypeOK, Connections
  <2>3. attempt.awaits = "nothing" /\ sock[s].pane = target
    BY <1>4, <2>1, NoneAssumption DEF Opens, CurrentInv, Live
  <2>q. QED BY <2>1, <2>2, <2>3 DEF CurrentInv
<1>5. ASSUME NEW s \in Sockets, Answers(s)
      PROVE  CurrentInv'
  <2>1. CASE Sends(s, "ready", "serving")
    BY <1>5, <2>1 DEF Answers, Sends, screen, surface, user, TypeOK,
      Connections, SocketInv, CurrentInv
  <2>2. CASE sock[s].server = "resuming" /\ Sends(s, "resume_not_found", "idle")
    BY <1>5, <2>2 DEF Answers, Sends, screen, surface, user, TypeOK,
      Connections, SocketInv, CurrentInv
  <2>q. QED BY <1>5, <2>1, <2>2 DEF Answers
<1>6. ASSUME NEW s \in Sockets, OnReady(s)
      PROVE  CurrentInv'
  <2>1. CASE app # "active"
    BY <1>6, <2>1, ClosingCurrent DEF OnReady, screen, surface
  <2>2. CASE app = "active"
    <3>1. /\ sock' = [Read(s) EXCEPT ![s].timer = FALSE]
          /\ current' = current /\ attempt' = attempt /\ target' = target
          /\ current = s /\ sock[s].state = "open" /\ sock[s].wire # <<>>
          /\ sock[s].wire[1] = "ready"
      BY <1>6, <2>2 DEF OnReady, Receives, screen, surface
    <3>2. sock[s].server \in {"serving", "done"}
      BY <3>1 DEF SocketInv, TypeOK, Connections
    <3>3. \A i \in DOMAIN sock[s].wire : sock[s].wire[i] # "resume_not_found"
      BY <3>1 DEF SocketInv, TypeOK, Connections
    <3>4. /\ sock'[s].wire = Tail(sock[s].wire)
          /\ sock'[s].server = sock[s].server
          /\ sock'[s].state = sock[s].state /\ sock'[s].pane = sock[s].pane
      BY <3>1 DEF Read, TypeOK, Connections
    <3>5. \A i \in DOMAIN sock'[s].wire : sock'[s].wire[i] # "resume_not_found"
      <4>1. sock[s].wire \in Seq(Messages) BY DEF TypeOK, Connections
      <4>2. \A i \in DOMAIN Tail(sock[s].wire) :
              /\ i + 1 \in DOMAIN sock[s].wire
              /\ Tail(sock[s].wire)[i] = sock[s].wire[i + 1]
        BY <3>1, <4>1, TailOf
      <4>q. QED BY <3>3, <3>4, <4>2
    <3>6. attempt.awaits = "nothing" /\ sock[s].pane = target
      BY <3>1, NoneAssumption DEF CurrentInv, Live
    <3>q. QED BY <3>1, <3>2, <3>4, <3>5, <3>6 DEF CurrentInv
  <2>q. QED BY <2>1, <2>2
<1>7. ASSUME NEW s \in Sockets, OnClosed(s)
      PROVE  CurrentInv'
  BY <1>7 DEF OnClosed, screen, surface, user, Receives, Read, Unready,
    TypeOK, Attempts, Connections, Messages, SocketInv, CurrentInv
<1>8. ASSUME NEW s \in Sockets, OnResumeNotFound(s)
      PROVE  CurrentInv'
  BY <1>8 DEF OnResumeNotFound, screen, surface, user, Receives, Read,
    TypeOK, Attempts, Connections, Messages, SocketInv, CurrentInv
<1>9. ASSUME NEW s \in Sockets, OnRefused(s)
      PROVE  CurrentInv'
  BY <1>9 DEF OnRefused, screen, surface, user, Receives, Read, TypeOK,
    Attempts, Connections, Messages, SocketInv, CurrentInv
<1>10. ASSUME NEW s \in Sockets, OnFailed(s)
      PROVE  CurrentInv'
  BY <1>10, ClosingCurrent DEF OnFailed, screen, surface
<1>11. ASSUME NEW s \in Sockets, OnDetached(s)
      PROVE  CurrentInv'
  BY <1>11 DEF OnDetached, screen, surface, user, Receives, Read, DetachDone,
    Settled, Outdated, NoAttempt, Ticket, Retries, TypeOK, Attempts,
    Connections, Messages, SocketInv, CurrentInv
<1>12. ASSUME NEW s \in Sockets, TimesOut(s)
      PROVE  CurrentInv'
  BY <1>12, ClosingCurrent DEF TimesOut, screen, surface
<1>13. ASSUME NEW s \in Sockets, ClosesUnattached(s)
      PROVE  CurrentInv'
  BY <1>13 DEF ClosesUnattached, screen, surface, user, TypeOK, Attempts,
    Connections, Messages, SocketInv, CurrentInv
<1>14. ASSUME NEW s \in Sockets, ClosesAtLast(s)
      PROVE  CurrentInv'
  BY <1>14 DEF ClosesAtLast, screen, surface, user, Lost, DetachDone,
    Settled, Outdated, NoAttempt, Ticket, Unready, ScheduleReconnect,
    Retries, Unused, TypeOK, Attempts, Connections, Messages, SocketInv,
    CurrentInv
<1>15. ASSUME NEW s \in Sockets, DetachTimesOut(s)
      PROVE  CurrentInv'
  BY <1>15 DEF DetachTimesOut, screen, surface, user, Closing, Unused,
    DetachDone, Settled, Outdated, NoAttempt, Ticket, Retries, TypeOK,
    Attempts, Connections, Messages, SocketInv, CurrentInv
<1>16. ASSUME NEW s \in Sockets, EndsSession(s)
      PROVE  CurrentInv'
  BY <1>16 DEF EndsSession, screen, surface, user, Sends, TypeOK, Attempts,
    Connections, Messages, SocketInv, CurrentInv
<1>17. ASSUME NEW s \in Sockets, Fails(s)
      PROVE  CurrentInv'
  BY <1>17 DEF Fails, screen, surface, user, Sends, Fault, TypeOK, Attempts,
    Connections, Messages, SocketInv, CurrentInv
<1>18. ASSUME NEW s \in Sockets, ConnectionLost(s)
      PROVE  CurrentInv'
  BY <1>18 DEF ConnectionLost, screen, surface, user, Fault, Lost,
    DetachDone, Settled, Outdated, NoAttempt, Ticket, Unready,
    ScheduleReconnect, Retries, Unused, TypeOK, Attempts, Connections,
    Messages, SocketInv, CurrentInv
<1>19. ASSUME NEW s \in Sockets, FallsSilent(s)
      PROVE  CurrentInv'
  BY <1>19 DEF FallsSilent, screen, surface, user, Fault, TypeOK, Attempts,
    Connections, Messages, SocketInv, CurrentInv
<1>20. ASSUME NEW p \in Panes, Show(p)
      PROVE  CurrentInv'
  BY <1>20 DEF Show, screen, surface, user, Mounts, Ticket, Detached, TypeOK,
    Attempts, Connections, Messages, SocketInv, CurrentInv, PendingInv
<1>21. ASSUME NEW p \in Panes, Switch(p)
      PROVE  CurrentInv'
  BY <1>21 DEF Switch, screen, surface, user, Mounts, Ticket, Detached,
    Leaves, Noticed, Closing, Unused, TypeOK, Attempts, Connections,
    Messages, SocketInv, CurrentInv
<1>22. CASE Remount
  BY <1>22 DEF Remount, screen, surface, user, Mounts, Ticket, Detached,
    GivenUp, Closing, Unused, Fault, TypeOK, Attempts, Connections, Messages,
    SocketInv, CurrentInv
<1>23. CASE Hide
  BY <1>23 DEF Hide, Unmounts, Unready, screen, surface, user, NoAttempt,
    GivenUp, Closing, Unused, TypeOK, Attempts, Connections, Messages,
    SocketInv, CurrentInv
<1>24. CASE Vanish
  BY <1>24 DEF Vanish, Unmounts, Unready, NoAttempt, screen, surface, user,
    Leaves, Noticed, Closing, Unused, TypeOK, Attempts, Connections,
    Messages, SocketInv, CurrentInv
<1>25. CASE Background
  <2>1. CASE sock' = sock
    BY <1>25, <2>1 DEF Background, Cancelled, NoAttempt, TypeOK, Attempts,
      CurrentInv, Live
  <2>2. CASE sock' # sock
    <3>1. /\ current \in Sockets /\ sock' = Closing(sock, current)
          /\ current' = current /\ attempt' = Cancelled(attempt)
          /\ target' = target
      BY <1>25, <2>2 DEF Background, GivenUp, user, TypeOK
    <3>q. QED BY <3>1, ClosingCurrent
  <2>q. QED BY <2>1, <2>2
<1>26. CASE Foreground
  BY <1>26 DEF Foreground, screen, surface, user, Reconnects, Connects,
    Replaced, Closing, Ticket, Retries, Live, Unused, TypeOK, Attempts,
    Connections, Messages, SocketInv, CurrentInv
<1>27. CASE PressReconnect
  BY <1>27 DEF PressReconnect, screen, surface, user, Reconnects, Connects,
    Replaced, Closing, Ticket, Retries, Live, Unused, TypeOK, Attempts,
    Connections, Messages, SocketInv, CurrentInv
<1>28. CASE GoesOnline
  BY <1>28 DEF GoesOnline, screen, surface, user, Connects, Replaced,
    Closing, Ticket, Retries, Live, Unused, Fault, TypeOK, Attempts,
    Connections, Messages, SocketInv, CurrentInv
<1>29. CASE Detach
  <2>1. CASE current = None \/ sock[current].state = "open"
    BY <1>29, <2>1 DEF Detach, Cancelled, NoAttempt, screen, surface, TypeOK,
      Attempts, Connections, CurrentInv, Live
  <2>2. CASE current # None /\ sock[current].state # "open"
    <3>1. /\ current \in Sockets /\ sock' = Closing(sock, current)
          /\ current' = current /\ attempt' = Cancelled(attempt)
          /\ target' = target
      BY <1>29, <2>2 DEF Detach, screen, surface, TypeOK
    <3>q. QED BY <3>1, ClosingCurrent
  <2>q. QED BY <2>1, <2>2
<1>30. CASE AskPaste \/ PasteRead \/ UNCHANGED vars
  BY <1>30, Quiet DEF screen, surface, TypeOK, Attempts, Connections,
    Messages, SocketInv, CurrentInv
<1>q. QED BY <1>1, <1>2, <1>3, <1>4, <1>5, <1>6, <1>7, <1>8, <1>9, <1>10,
  <1>11, <1>12, <1>13, <1>14, <1>15, <1>16, <1>17, <1>18, <1>19, <1>20,
  <1>21, <1>22, <1>23, <1>24, <1>25, <1>26, <1>27, <1>28, <1>29, <1>30 DEF Next,
  Progress, OnMessage

\* Ready means ready.
LEMMA ReadyStep ==
  ASSUME TypeOK, SocketInv, CurrentInv, ReadyInv, InputInv, HiddenInv,
    [Next]_vars
  PROVE  ReadyInv'
<1> USE NoneAssumption, MaxFaultsAssumption
<1>1. CASE RetryFires
  BY <1>1 DEF RetryFires, screen, surface, user, Connects, Replaced, Closing,
    Ticket, Retries, Live, Unused, TypeOK, Attempts, Connections, Messages,
    ReadyInv, CurrentInv, InputInv
<1>2. CASE TicketArrives
  <2>1. ~ready BY <1>2 DEF TicketArrives, ReadyInv, CurrentInv, Live
  <2>q. QED BY <1>2, <2>1 DEF TicketArrives, ReadyInv
<1>3. CASE TicketFails
  <2>1. ~ready BY <1>3 DEF TicketFails, ReadyInv, CurrentInv, Live
  <2>q. QED BY <1>3, <2>1 DEF TicketFails, ReadyInv
<1>4. ASSUME NEW s \in Sockets, Opens(s)
      PROVE  ReadyInv'
  BY <1>4 DEF Opens, screen, surface, user, TypeOK, Attempts, Connections,
    Messages, ReadyInv, CurrentInv, InputInv
<1>5. ASSUME NEW s \in Sockets, Answers(s)
      PROVE  ReadyInv'
  <2>1. CASE Sends(s, "ready", "serving")
    BY <1>5, <2>1 DEF Answers, screen, surface, user, Sends, TypeOK,
      Attempts, Connections, Messages, ReadyInv, CurrentInv, InputInv
  <2>2. CASE sock[s].server = "resuming" /\ Sends(s, "resume_not_found", "idle")
    BY <1>5, <2>2 DEF Answers, screen, surface, user, Sends, TypeOK,
      Attempts, Connections, Messages, ReadyInv, CurrentInv, InputInv
  <2>q. QED BY <1>5, <2>1, <2>2 DEF Answers
<1>6. ASSUME NEW s \in Sockets, OnReady(s)
      PROVE  ReadyInv'
  <2>1. CASE app # "active"
    BY <1>6, <2>1 DEF OnReady, screen, surface, ReadyInv
  <2>2. CASE app = "active"
    <3>1. /\ sock' = [Read(s) EXCEPT ![s].timer = FALSE]
          /\ current' = s /\ input' = s /\ status' = "connected"
          /\ app' = "active" /\ closed' = FALSE /\ mounted' = mounted
          /\ current = s /\ sock[s].state = "open"
      BY <1>6, <2>2 DEF OnReady, Receives, screen, surface
    <3>2. mounted BY <3>1 DEF HiddenInv
    <3>3. sock'[s].state = "open" BY <3>1 DEF Read, TypeOK, Connections
    <3>q. QED BY <3>1, <3>2, <3>3 DEF ReadyInv
  <2>q. QED BY <2>1, <2>2
<1>7. ASSUME NEW s \in Sockets, OnClosed(s)
      PROVE  ReadyInv'
  BY <1>7 DEF OnClosed, screen, surface, user, Receives, Read, Unready,
    TypeOK, Attempts, Connections, Messages, ReadyInv, CurrentInv, InputInv
<1>8. ASSUME NEW s \in Sockets, OnResumeNotFound(s)
      PROVE  ReadyInv'
  BY <1>8 DEF OnResumeNotFound, screen, surface, user, Receives, Read,
    TypeOK, Attempts, Connections, Messages, ReadyInv, CurrentInv, InputInv
<1>9. ASSUME NEW s \in Sockets, OnRefused(s)
      PROVE  ReadyInv'
  BY <1>9 DEF OnRefused, screen, surface, user, Receives, Read, TypeOK,
    Attempts, Connections, Messages, ReadyInv, CurrentInv, InputInv
<1>10. ASSUME NEW s \in Sockets, OnFailed(s)
      PROVE  ReadyInv'
  BY <1>10 DEF OnFailed, screen, surface, user, Receives, Closing, Unready,
    Unused, ScheduleReconnect, Retries, TypeOK, Attempts, Connections,
    Messages, ReadyInv, CurrentInv, InputInv
<1>11. ASSUME NEW s \in Sockets, OnDetached(s)
      PROVE  ReadyInv'
  BY <1>11 DEF OnDetached, screen, surface, user, Receives, Read, DetachDone,
    Settled, Outdated, NoAttempt, Ticket, Retries, TypeOK, Attempts,
    Connections, Messages, ReadyInv, CurrentInv, InputInv
<1>12. ASSUME NEW s \in Sockets, TimesOut(s)
      PROVE  ReadyInv'
  BY <1>12 DEF TimesOut, screen, surface, user, Closing, Unready, Unused,
    ScheduleReconnect, Retries, TypeOK, Attempts, Connections, Messages,
    ReadyInv, CurrentInv, InputInv
<1>13. ASSUME NEW s \in Sockets, ClosesUnattached(s)
      PROVE  ReadyInv'
  BY <1>13 DEF ClosesUnattached, screen, surface, user, TypeOK, Attempts,
    Connections, Messages, ReadyInv, CurrentInv, InputInv
<1>14. ASSUME NEW s \in Sockets, ClosesAtLast(s)
      PROVE  ReadyInv'
  <2>1. CASE s = current
    BY <1>14, <2>1 DEF ClosesAtLast, Lost, Unready, ReadyInv
  <2>2. CASE s # current
    <3>1. /\ UNCHANGED <<ready, status, current, input, app, mounted, closed>>
          /\ sock' = [sock EXCEPT ![s] = Unused]
      BY <1>14, <2>2 DEF ClosesAtLast, Lost, screen, surface
    <3>2. ready => sock'[current] = sock[current]
      BY <2>2, <3>1 DEF TypeOK, ReadyInv
    <3>q. QED BY <3>1, <3>2 DEF ReadyInv
  <2>q. QED BY <2>1, <2>2
<1>15. ASSUME NEW s \in Sockets, DetachTimesOut(s)
      PROVE  ReadyInv'
  <2>1. /\ UNCHANGED <<ready, status, current, input, app, mounted, closed>>
        /\ sock' = [Closing(sock, s) EXCEPT ![s].leaving = FALSE]
    BY <1>15 DEF DetachTimesOut, screen, surface, user
  <2>2. s # current BY <1>15 DEF DetachTimesOut, SocketInv
  <2>3. ready => sock'[current] = sock[current]
    BY <2>1, <2>2 DEF Closing, TypeOK, ReadyInv
  <2>q. QED BY <2>1, <2>3 DEF ReadyInv
<1>16. ASSUME NEW s \in Sockets, EndsSession(s)
      PROVE  ReadyInv'
  BY <1>16 DEF EndsSession, screen, surface, user, Sends, TypeOK, Attempts,
    Connections, Messages, ReadyInv, CurrentInv, InputInv
<1>17. ASSUME NEW s \in Sockets, Fails(s)
      PROVE  ReadyInv'
  BY <1>17 DEF Fails, screen, surface, user, Sends, Fault, TypeOK, Attempts,
    Connections, Messages, ReadyInv, CurrentInv, InputInv
<1>18. ASSUME NEW s \in Sockets, ConnectionLost(s)
      PROVE  ReadyInv'
  <2>1. CASE s = current
    BY <1>18, <2>1 DEF ConnectionLost, Lost, Unready, ReadyInv
  <2>2. CASE s # current
    <3>1. /\ UNCHANGED <<ready, status, current, input, app, mounted, closed>>
          /\ sock' = [sock EXCEPT ![s] = Unused]
      BY <1>18, <2>2 DEF ConnectionLost, Lost, screen, surface
    <3>2. ready => sock'[current] = sock[current]
      BY <2>2, <3>1 DEF TypeOK, ReadyInv
    <3>q. QED BY <3>1, <3>2 DEF ReadyInv
  <2>q. QED BY <2>1, <2>2
<1>19. ASSUME NEW s \in Sockets, FallsSilent(s)
      PROVE  ReadyInv'
  BY <1>19 DEF FallsSilent, screen, surface, user, Fault, TypeOK, Attempts,
    Connections, Messages, ReadyInv, CurrentInv, InputInv
<1>20. ASSUME NEW p \in Panes, Show(p)
      PROVE  ReadyInv'
  BY <1>20 DEF Show, screen, surface, user, Mounts, Ticket, Detached, TypeOK,
    Attempts, Connections, Messages, ReadyInv, CurrentInv, InputInv
<1>21. ASSUME NEW p \in Panes, Switch(p)
      PROVE  ReadyInv'
  BY <1>21 DEF Switch, screen, surface, user, Mounts, Ticket, Detached,
    Leaves, Noticed, Closing, Unused, TypeOK, Attempts, Connections,
    Messages, ReadyInv, CurrentInv, InputInv
<1>22. CASE Remount
  BY <1>22 DEF Remount, screen, surface, user, Mounts, Ticket, Detached,
    GivenUp, Closing, Unused, Fault, TypeOK, Attempts, Connections, Messages,
    ReadyInv, CurrentInv, InputInv
<1>23. CASE Hide
  BY <1>23 DEF Hide, Unmounts, Unready, screen, surface, user, NoAttempt,
    GivenUp, Closing, Unused, TypeOK, Attempts, Connections, Messages,
    ReadyInv, CurrentInv, InputInv
<1>24. CASE Vanish
  BY <1>24 DEF Vanish, Unmounts, Unready, NoAttempt, screen, surface, user,
    Leaves, Noticed, Closing, Unused, TypeOK, Attempts, Connections,
    Messages, ReadyInv, CurrentInv, InputInv
<1>25. CASE Background
  BY <1>25 DEF Background, screen, surface, user, Cancelled, NoAttempt,
    Unready, GivenUp, Closing, Unused, TypeOK, Attempts, Connections,
    Messages, ReadyInv, CurrentInv, InputInv
<1>26. CASE Foreground
  BY <1>26 DEF Foreground, screen, surface, user, Reconnects, Connects,
    Replaced, Closing, Ticket, Retries, Live, Unused, TypeOK, Attempts,
    Connections, Messages, ReadyInv, CurrentInv, InputInv
<1>27. CASE PressReconnect
  BY <1>27 DEF PressReconnect, screen, surface, user, Reconnects, Connects,
    Replaced, Closing, Ticket, Retries, Live, Unused, TypeOK, Attempts,
    Connections, Messages, ReadyInv, CurrentInv, InputInv
<1>28. CASE GoesOnline
  BY <1>28 DEF GoesOnline, screen, surface, user, Connects, Replaced,
    Closing, Ticket, Retries, Live, Unused, Fault, TypeOK, Attempts,
    Connections, Messages, ReadyInv, CurrentInv, InputInv
<1>29. CASE Detach
  BY <1>29 DEF Detach, screen, surface, user, Cancelled, NoAttempt, Closing,
    Unused, TypeOK, Attempts, Connections, Messages, ReadyInv, CurrentInv,
    InputInv
<1>30. CASE AskPaste \/ PasteRead \/ UNCHANGED vars
  BY <1>30, Quiet DEF screen, surface, TypeOK, Attempts, Connections,
    Messages, ReadyInv, CurrentInv, InputInv
<1>q. QED BY <1>1, <1>2, <1>3, <1>4, <1>5, <1>6, <1>7, <1>8, <1>9, <1>10,
  <1>11, <1>12, <1>13, <1>14, <1>15, <1>16, <1>17, <1>18, <1>19, <1>20,
  <1>21, <1>22, <1>23, <1>24, <1>25, <1>26, <1>27, <1>28, <1>29, <1>30 DEF Next,
  Progress, OnMessage

\* Input goes where the attach was answered.
LEMMA InputStep ==
  ASSUME TypeOK, SocketInv, InputInv, [Next]_vars
  PROVE  InputInv'
<1> USE NoneAssumption, MaxFaultsAssumption
<1>1. CASE RetryFires
  BY <1>1 DEF RetryFires, screen, surface, user, Connects, Replaced, Closing,
    Ticket, Retries, Live, Unused, TypeOK, Attempts, Connections, Messages,
    InputInv, SocketInv
<1>2. CASE TicketArrives
  BY <1>2 DEF TicketArrives, screen, surface, user, Dials, Free, NoAttempt,
    Unused, TypeOK, Attempts, Connections, Messages, InputInv, SocketInv
<1>3. CASE TicketFails
  BY <1>3 DEF TicketFails, screen, surface, user, ScheduleReconnect, Retries,
    NoAttempt, Fault, TypeOK, Attempts, Connections, Messages, InputInv,
    SocketInv
<1>4. ASSUME NEW s \in Sockets, Opens(s)
      PROVE  InputInv'
  BY <1>4 DEF Opens, screen, surface, user, TypeOK, Attempts, Connections,
    Messages, InputInv, SocketInv
<1>5. ASSUME NEW s \in Sockets, Answers(s)
      PROVE  InputInv'
  <2>1. CASE Sends(s, "ready", "serving")
    BY <1>5, <2>1 DEF Answers, Sends, screen, surface, user, TypeOK,
      Connections, InputInv, SocketInv
  <2>2. CASE sock[s].server = "resuming" /\ Sends(s, "resume_not_found", "idle")
    <3>1. sock[s].wire = <<>> BY <2>2 DEF SocketInv
    <3>2. /\ UNCHANGED <<input, current, ready, mounted, target, app>>
          /\ sock' = [sock EXCEPT ![s].wire = Append(@, "resume_not_found"),
                                  ![s].server = "idle"]
      BY <2>2 DEF Sends, screen, surface
    <3>3. Append(<<>>, "resume_not_found") = <<"resume_not_found">> OBVIOUS
    <3>q. QED BY <2>2, <3>1, <3>2, <3>3 DEF TypeOK, Connections, InputInv
  <2>q. QED BY <1>5, <2>1, <2>2 DEF Answers
<1>6. ASSUME NEW s \in Sockets, OnReady(s)
      PROVE  InputInv'
  <2>1. CASE app # "active"
    <3>1. /\ sock' = Closing(sock, s) /\ input' = input
          /\ sock \in [Sockets -> Connections]
      BY <1>6, <2>1 DEF OnReady, TypeOK
    <3>2. sock'[s].wire = <<>> /\ \A t \in Sockets \ {s} : sock'[t] = sock[t]
      BY <3>1, ClosingIs
    <3>3. DOMAIN <<>> = {} OBVIOUS
    <3>q. QED BY <3>1, <3>2, <3>3 DEF InputInv, TypeOK
  <2>2. CASE app = "active"
    <3>1. /\ sock' = [Read(s) EXCEPT ![s].timer = FALSE]
          /\ input' = s /\ sock[s].wire # <<>> /\ sock[s].wire[1] = "ready"
      BY <1>6, <2>2 DEF OnReady, Receives
    <3>2. sock[s].wire \in Seq(Messages) BY DEF TypeOK, Connections
    <3>3. \A i \in DOMAIN Tail(sock[s].wire) :
            /\ i + 1 \in DOMAIN sock[s].wire /\ i + 1 # 1
            /\ Tail(sock[s].wire)[i] = sock[s].wire[i + 1]
      BY <3>1, <3>2, TailOf
    <3>4. \A i \in DOMAIN sock[s].wire :
            /\ sock[s].wire[i] = "ready" => i = 1
            /\ sock[s].wire[i] # "resume_not_found"
      BY <3>1, <3>2 DEF SocketInv
    <3>5. sock'[s].wire = Tail(sock[s].wire)
      BY <3>1 DEF Read, TypeOK, Connections
    <3>6. \A i \in DOMAIN sock'[s].wire :
            sock'[s].wire[i] \notin {"ready", "resume_not_found"}
      BY <3>3, <3>4, <3>5
    <3>q. QED BY <3>1, <3>6 DEF InputInv
  <2>q. QED BY <2>1, <2>2
<1>7. ASSUME NEW s \in Sockets, OnClosed(s)
      PROVE  InputInv'
  BY <1>7 DEF OnClosed, screen, surface, user, Receives, Read, Unready,
    TypeOK, Attempts, Connections, Messages, InputInv, SocketInv
<1>8. ASSUME NEW s \in Sockets, OnResumeNotFound(s)
      PROVE  InputInv'
  BY <1>8 DEF OnResumeNotFound, screen, surface, user, Receives, Read,
    TypeOK, Attempts, Connections, Messages, InputInv, SocketInv
<1>9. ASSUME NEW s \in Sockets, OnRefused(s)
      PROVE  InputInv'
  BY <1>9 DEF OnRefused, screen, surface, user, Receives, Read, TypeOK,
    Attempts, Connections, Messages, InputInv, SocketInv
<1>10. ASSUME NEW s \in Sockets, OnFailed(s)
      PROVE  InputInv'
  BY <1>10 DEF OnFailed, screen, surface, user, Receives, Closing, Unready,
    Unused, ScheduleReconnect, Retries, TypeOK, Attempts, Connections,
    Messages, InputInv, SocketInv
<1>11. ASSUME NEW s \in Sockets, OnDetached(s)
      PROVE  InputInv'
  BY <1>11 DEF OnDetached, screen, surface, user, Receives, Read, DetachDone,
    Settled, Outdated, NoAttempt, Ticket, Retries, TypeOK, Attempts,
    Connections, Messages, InputInv, SocketInv
<1>12. ASSUME NEW s \in Sockets, TimesOut(s)
      PROVE  InputInv'
  BY <1>12 DEF TimesOut, screen, surface, user, Closing, Unready, Unused,
    ScheduleReconnect, Retries, TypeOK, Attempts, Connections, Messages,
    InputInv, SocketInv
<1>13. ASSUME NEW s \in Sockets, ClosesUnattached(s)
      PROVE  InputInv'
  BY <1>13 DEF ClosesUnattached, screen, surface, user, TypeOK, Attempts,
    Connections, Messages, InputInv, SocketInv
<1>14. ASSUME NEW s \in Sockets, ClosesAtLast(s)
      PROVE  InputInv'
  BY <1>14 DEF ClosesAtLast, screen, surface, user, Lost, DetachDone,
    Settled, Outdated, NoAttempt, Ticket, Unready, ScheduleReconnect,
    Retries, Unused, TypeOK, Attempts, Connections, Messages, InputInv,
    SocketInv
<1>15. ASSUME NEW s \in Sockets, DetachTimesOut(s)
      PROVE  InputInv'
  BY <1>15 DEF DetachTimesOut, screen, surface, user, Closing, Unused,
    DetachDone, Settled, Outdated, NoAttempt, Ticket, Retries, TypeOK,
    Attempts, Connections, Messages, InputInv, SocketInv
<1>16. ASSUME NEW s \in Sockets, EndsSession(s)
      PROVE  InputInv'
  BY <1>16 DEF EndsSession, screen, surface, user, Sends, TypeOK, Attempts,
    Connections, Messages, InputInv, SocketInv
<1>17. ASSUME NEW s \in Sockets, Fails(s)
      PROVE  InputInv'
  BY <1>17 DEF Fails, screen, surface, user, Sends, Fault, TypeOK, Attempts,
    Connections, Messages, InputInv, SocketInv
<1>18. ASSUME NEW s \in Sockets, ConnectionLost(s)
      PROVE  InputInv'
  BY <1>18 DEF ConnectionLost, screen, surface, user, Fault, Lost,
    DetachDone, Settled, Outdated, NoAttempt, Ticket, Unready,
    ScheduleReconnect, Retries, Unused, TypeOK, Attempts, Connections,
    Messages, InputInv, SocketInv
<1>19. ASSUME NEW s \in Sockets, FallsSilent(s)
      PROVE  InputInv'
  BY <1>19 DEF FallsSilent, screen, surface, user, Fault, TypeOK, Attempts,
    Connections, Messages, InputInv, SocketInv
<1>20. ASSUME NEW p \in Panes, Show(p)
      PROVE  InputInv'
  BY <1>20 DEF Show, screen, surface, user, Mounts, Ticket, Detached, TypeOK,
    Attempts, Connections, Messages, InputInv, SocketInv
<1>21. ASSUME NEW p \in Panes, Switch(p)
      PROVE  InputInv'
  BY <1>21 DEF Switch, screen, surface, user, Mounts, Ticket, Detached,
    Leaves, Noticed, Closing, Unused, TypeOK, Attempts, Connections,
    Messages, InputInv, SocketInv
<1>22. CASE Remount
  BY <1>22 DEF Remount, screen, surface, user, Mounts, Ticket, Detached,
    GivenUp, Closing, Unused, Fault, TypeOK, Attempts, Connections, Messages,
    InputInv, SocketInv
<1>23. CASE Hide
  BY <1>23 DEF Hide, Unmounts, Unready, screen, surface, user, NoAttempt,
    GivenUp, Closing, Unused, TypeOK, Attempts, Connections, Messages,
    InputInv, SocketInv
<1>24. CASE Vanish
  BY <1>24 DEF Vanish, Unmounts, Unready, NoAttempt, screen, surface, user,
    Leaves, Noticed, Closing, Unused, TypeOK, Attempts, Connections,
    Messages, InputInv, SocketInv
<1>25. CASE Background
  BY <1>25 DEF Background, screen, surface, user, Cancelled, NoAttempt,
    Unready, GivenUp, Closing, Unused, TypeOK, Attempts, Connections,
    Messages, InputInv, SocketInv
<1>26. CASE Foreground
  BY <1>26 DEF Foreground, screen, surface, user, Reconnects, Connects,
    Replaced, Closing, Ticket, Retries, Live, Unused, TypeOK, Attempts,
    Connections, Messages, InputInv, SocketInv
<1>27. CASE PressReconnect
  BY <1>27 DEF PressReconnect, screen, surface, user, Reconnects, Connects,
    Replaced, Closing, Ticket, Retries, Live, Unused, TypeOK, Attempts,
    Connections, Messages, InputInv, SocketInv
<1>28. CASE GoesOnline
  BY <1>28 DEF GoesOnline, screen, surface, user, Connects, Replaced,
    Closing, Ticket, Retries, Live, Unused, Fault, TypeOK, Attempts,
    Connections, Messages, InputInv, SocketInv
<1>29. CASE Detach
  BY <1>29 DEF Detach, screen, surface, user, Cancelled, NoAttempt, Closing,
    Unused, TypeOK, Attempts, Connections, Messages, InputInv, SocketInv
<1>30. CASE AskPaste \/ PasteRead \/ UNCHANGED vars
  BY <1>30, Quiet DEF screen, surface, TypeOK, Attempts, Connections,
    Messages, InputInv, SocketInv
<1>q. QED BY <1>1, <1>2, <1>3, <1>4, <1>5, <1>6, <1>7, <1>8, <1>9, <1>10,
  <1>11, <1>12, <1>13, <1>14, <1>15, <1>16, <1>17, <1>18, <1>19, <1>20,
  <1>21, <1>22, <1>23, <1>24, <1>25, <1>26, <1>27, <1>28, <1>29, <1>30 DEF Next,
  Progress, OnMessage

\* A closed terminal stays so.
LEMMA ClosedStep ==
  ASSUME TypeOK, CurrentInv, HiddenInv, ClosedInv, [Next]_vars
  PROVE  ClosedInv'
<1> USE NoneAssumption, MaxFaultsAssumption
<1>1. CASE RetryFires
  BY <1>1 DEF RetryFires, screen, surface, user, Connects, Replaced, Closing,
    Ticket, Retries, Live, Unused, TypeOK, Attempts, Connections, Messages,
    ClosedInv, CurrentInv
<1>2. CASE TicketArrives
  BY <1>2 DEF TicketArrives, screen, surface, user, Dials, Free, NoAttempt,
    Unused, TypeOK, Attempts, Connections, Messages, ClosedInv, CurrentInv
<1>3. CASE TicketFails
  BY <1>3 DEF TicketFails, screen, surface, user, ScheduleReconnect, Retries,
    NoAttempt, Fault, TypeOK, Attempts, Connections, Messages, ClosedInv,
    CurrentInv
<1>4. ASSUME NEW s \in Sockets, Opens(s)
      PROVE  ClosedInv'
  BY <1>4 DEF Opens, screen, surface, user, TypeOK, Attempts, Connections,
    Messages, ClosedInv, CurrentInv
<1>5. ASSUME NEW s \in Sockets, Answers(s)
      PROVE  ClosedInv'
  <2>1. CASE Sends(s, "ready", "serving")
    BY <1>5, <2>1 DEF Answers, screen, surface, user, Sends, TypeOK,
      Attempts, Connections, Messages, ClosedInv, CurrentInv
  <2>2. CASE sock[s].server = "resuming" /\ Sends(s, "resume_not_found", "idle")
    BY <1>5, <2>2 DEF Answers, screen, surface, user, Sends, TypeOK,
      Attempts, Connections, Messages, ClosedInv, CurrentInv
  <2>q. QED BY <1>5, <2>1, <2>2 DEF Answers
<1>6. ASSUME NEW s \in Sockets, OnReady(s)
      PROVE  ClosedInv'
  <2>1. CASE app # "active"
    <3>1. /\ UNCHANGED <<closed, left, status, attempt, mounted, current>>
          /\ sock' = Closing(sock, s)
          /\ sock \in [Sockets -> Connections] /\ current = s
      BY <1>6, <2>1 DEF OnReady, Receives, screen, surface, TypeOK
    <3>2. sock'[s].state = "closing" BY <3>1, ClosingIs
    <3>q. QED BY <3>1, <3>2 DEF ClosedInv
  <2>2. CASE app = "active"
    BY <1>6, <2>2 DEF OnReady, screen, surface, ClosedInv
  <2>q. QED BY <2>1, <2>2
<1>7. ASSUME NEW s \in Sockets, OnClosed(s)
      PROVE  ClosedInv'
  <2>1. /\ closed' = TRUE /\ left' = TRUE /\ status' = "closed"
        /\ UNCHANGED <<attempt, mounted, current>>
        /\ current = s /\ sock[s].state = "open"
        /\ sock' = [Read(s) EXCEPT ![s].timer = FALSE]
    BY <1>7 DEF OnClosed, Receives, Unready, screen, surface
  <2>2. mounted BY <2>1 DEF HiddenInv
  <2>3. attempt.awaits # "ticket" BY <2>1 DEF CurrentInv, Live
  <2>4. sock'[s].state = "open" BY <2>1 DEF Read, TypeOK, Connections
  <2>q. QED BY <2>1, <2>2, <2>3, <2>4 DEF ClosedInv
<1>8. ASSUME NEW s \in Sockets, OnResumeNotFound(s)
      PROVE  ClosedInv'
  BY <1>8 DEF OnResumeNotFound, screen, surface, user, Receives, Read,
    TypeOK, Attempts, Connections, Messages, ClosedInv, CurrentInv
<1>9. ASSUME NEW s \in Sockets, OnRefused(s)
      PROVE  ClosedInv'
  BY <1>9 DEF OnRefused, screen, surface, user, Receives, Read, TypeOK,
    Attempts, Connections, Messages, ClosedInv, CurrentInv
<1>10. ASSUME NEW s \in Sockets, OnFailed(s)
      PROVE  ClosedInv'
  BY <1>10 DEF OnFailed, screen, surface, user, Receives, Closing, Unready,
    Unused, ScheduleReconnect, Retries, TypeOK, Attempts, Connections,
    Messages, ClosedInv, CurrentInv
<1>11. ASSUME NEW s \in Sockets, OnDetached(s)
      PROVE  ClosedInv'
  BY <1>11 DEF OnDetached, screen, surface, user, Receives, Read, DetachDone,
    Settled, Outdated, NoAttempt, Ticket, Retries, TypeOK, Attempts,
    Connections, Messages, ClosedInv, CurrentInv
<1>12. ASSUME NEW s \in Sockets, TimesOut(s)
      PROVE  ClosedInv'
  BY <1>12 DEF TimesOut, screen, surface, user, Closing, Unready, Unused,
    ScheduleReconnect, Retries, TypeOK, Attempts, Connections, Messages,
    ClosedInv, CurrentInv
<1>13. ASSUME NEW s \in Sockets, ClosesUnattached(s)
      PROVE  ClosedInv'
  BY <1>13 DEF ClosesUnattached, screen, surface, user, TypeOK, Attempts,
    Connections, Messages, ClosedInv, CurrentInv
<1>14. ASSUME NEW s \in Sockets, ClosesAtLast(s)
      PROVE  ClosedInv'
  BY <1>14 DEF ClosesAtLast, screen, surface, user, Lost, DetachDone,
    Settled, Outdated, NoAttempt, Ticket, Unready, ScheduleReconnect,
    Retries, Unused, TypeOK, Attempts, Connections, Messages, ClosedInv,
    CurrentInv
<1>15. ASSUME NEW s \in Sockets, DetachTimesOut(s)
      PROVE  ClosedInv'
  BY <1>15 DEF DetachTimesOut, screen, surface, user, Closing, Unused,
    DetachDone, Settled, Outdated, NoAttempt, Ticket, Retries, TypeOK,
    Attempts, Connections, Messages, ClosedInv, CurrentInv
<1>16. ASSUME NEW s \in Sockets, EndsSession(s)
      PROVE  ClosedInv'
  BY <1>16 DEF EndsSession, screen, surface, user, Sends, TypeOK, Attempts,
    Connections, Messages, ClosedInv, CurrentInv
<1>17. ASSUME NEW s \in Sockets, Fails(s)
      PROVE  ClosedInv'
  BY <1>17 DEF Fails, screen, surface, user, Sends, Fault, TypeOK, Attempts,
    Connections, Messages, ClosedInv, CurrentInv
<1>18. ASSUME NEW s \in Sockets, ConnectionLost(s)
      PROVE  ClosedInv'
  BY <1>18 DEF ConnectionLost, screen, surface, user, Fault, Lost,
    DetachDone, Settled, Outdated, NoAttempt, Ticket, Unready,
    ScheduleReconnect, Retries, Unused, TypeOK, Attempts, Connections,
    Messages, ClosedInv, CurrentInv
<1>19. ASSUME NEW s \in Sockets, FallsSilent(s)
      PROVE  ClosedInv'
  BY <1>19 DEF FallsSilent, screen, surface, user, Fault, TypeOK, Attempts,
    Connections, Messages, ClosedInv, CurrentInv
<1>20. ASSUME NEW p \in Panes, Show(p)
      PROVE  ClosedInv'
  BY <1>20 DEF Show, screen, surface, user, Mounts, Ticket, Detached, TypeOK,
    Attempts, Connections, Messages, ClosedInv, CurrentInv
<1>21. ASSUME NEW p \in Panes, Switch(p)
      PROVE  ClosedInv'
  BY <1>21 DEF Switch, screen, surface, user, Mounts, Ticket, Detached,
    Leaves, Noticed, Closing, Unused, TypeOK, Attempts, Connections,
    Messages, ClosedInv, CurrentInv
<1>22. CASE Remount
  BY <1>22 DEF Remount, screen, surface, user, Mounts, Ticket, Detached,
    GivenUp, Closing, Unused, Fault, TypeOK, Attempts, Connections, Messages,
    ClosedInv, CurrentInv
<1>23. CASE Hide
  BY <1>23 DEF Hide, Unmounts, Unready, screen, surface, user, NoAttempt,
    GivenUp, Closing, Unused, TypeOK, Attempts, Connections, Messages,
    ClosedInv, CurrentInv
<1>24. CASE Vanish
  BY <1>24 DEF Vanish, Unmounts, Unready, NoAttempt, screen, surface, user,
    Leaves, Noticed, Closing, Unused, TypeOK, Attempts, Connections,
    Messages, ClosedInv, CurrentInv
<1>25. CASE Background
  BY <1>25 DEF Background, screen, surface, user, Cancelled, NoAttempt,
    Unready, GivenUp, Closing, Unused, TypeOK, Attempts, Connections,
    Messages, ClosedInv, CurrentInv
<1>26. CASE Foreground
  BY <1>26 DEF Foreground, screen, surface, user, Reconnects, Connects,
    Replaced, Closing, Ticket, Retries, Live, Unused, TypeOK, Attempts,
    Connections, Messages, ClosedInv, CurrentInv
<1>27. CASE PressReconnect
  BY <1>27 DEF PressReconnect, screen, surface, user, Reconnects, Connects,
    Replaced, Closing, Ticket, Retries, Live, Unused, TypeOK, Attempts,
    Connections, Messages, ClosedInv, CurrentInv
<1>28. CASE GoesOnline
  BY <1>28 DEF GoesOnline, screen, surface, user, Connects, Replaced,
    Closing, Ticket, Retries, Live, Unused, Fault, TypeOK, Attempts,
    Connections, Messages, ClosedInv, CurrentInv
<1>29. CASE Detach
  BY <1>29 DEF Detach, screen, surface, user, Cancelled, NoAttempt, Closing,
    Unused, TypeOK, Attempts, Connections, Messages, ClosedInv, CurrentInv
<1>30. CASE AskPaste \/ PasteRead \/ UNCHANGED vars
  BY <1>30, Quiet DEF screen, surface, TypeOK, Attempts, Connections,
    Messages, ClosedInv, CurrentInv
<1>q. QED BY <1>1, <1>2, <1>3, <1>4, <1>5, <1>6, <1>7, <1>8, <1>9, <1>10,
  <1>11, <1>12, <1>13, <1>14, <1>15, <1>16, <1>17, <1>18, <1>19, <1>20,
  <1>21, <1>22, <1>23, <1>24, <1>25, <1>26, <1>27, <1>28, <1>29, <1>30 DEF Next,
  Progress, OnMessage

\* Nothing happens off the screen.
LEMMA HiddenStep ==
  ASSUME TypeOK, HiddenInv, [Next]_vars
  PROVE  HiddenInv'
<1> USE NoneAssumption, MaxFaultsAssumption
<1>1. CASE RetryFires
  BY <1>1 DEF RetryFires, screen, surface, user, Connects, Replaced, Closing,
    Ticket, Retries, Live, Unused, TypeOK, Attempts, Connections, Messages,
    HiddenInv
<1>2. CASE TicketArrives
  BY <1>2 DEF TicketArrives, screen, surface, user, Dials, Free, NoAttempt,
    Unused, TypeOK, Attempts, Connections, Messages, HiddenInv
<1>3. CASE TicketFails
  BY <1>3 DEF TicketFails, screen, surface, user, ScheduleReconnect, Retries,
    NoAttempt, Fault, TypeOK, Attempts, Connections, Messages, HiddenInv
<1>4. ASSUME NEW s \in Sockets, Opens(s)
      PROVE  HiddenInv'
  BY <1>4 DEF Opens, screen, surface, user, TypeOK, Attempts, Connections,
    Messages, HiddenInv
<1>5. ASSUME NEW s \in Sockets, Answers(s)
      PROVE  HiddenInv'
  BY <1>5 DEF Answers, screen, surface, user, Sends, TypeOK, Attempts,
    Connections, Messages, HiddenInv
<1>6. ASSUME NEW s \in Sockets, OnReady(s)
      PROVE  HiddenInv'
  BY <1>6 DEF OnReady, screen, surface, user, Receives, Read, Closing,
    Unused, TypeOK, Attempts, Connections, Messages, HiddenInv
<1>7. ASSUME NEW s \in Sockets, OnClosed(s)
      PROVE  HiddenInv'
  BY <1>7 DEF OnClosed, screen, surface, user, Receives, Read, Unready,
    TypeOK, Attempts, Connections, Messages, HiddenInv
<1>8. ASSUME NEW s \in Sockets, OnResumeNotFound(s)
      PROVE  HiddenInv'
  BY <1>8 DEF OnResumeNotFound, screen, surface, user, Receives, Read,
    TypeOK, Attempts, Connections, Messages, HiddenInv
<1>9. ASSUME NEW s \in Sockets, OnRefused(s)
      PROVE  HiddenInv'
  BY <1>9 DEF OnRefused, screen, surface, user, Receives, Read, TypeOK,
    Attempts, Connections, Messages, HiddenInv
<1>10. ASSUME NEW s \in Sockets, OnFailed(s)
      PROVE  HiddenInv'
  BY <1>10 DEF OnFailed, screen, surface, user, Receives, Closing, Unready,
    Unused, ScheduleReconnect, Retries, TypeOK, Attempts, Connections,
    Messages, HiddenInv
<1>11. ASSUME NEW s \in Sockets, OnDetached(s)
      PROVE  HiddenInv'
  BY <1>11 DEF OnDetached, screen, surface, user, Receives, Read, DetachDone,
    Settled, Outdated, NoAttempt, Ticket, Retries, TypeOK, Attempts,
    Connections, Messages, HiddenInv
<1>12. ASSUME NEW s \in Sockets, TimesOut(s)
      PROVE  HiddenInv'
  BY <1>12 DEF TimesOut, screen, surface, user, Closing, Unready, Unused,
    ScheduleReconnect, Retries, TypeOK, Attempts, Connections, Messages,
    HiddenInv
<1>13. ASSUME NEW s \in Sockets, ClosesUnattached(s)
      PROVE  HiddenInv'
  BY <1>13 DEF ClosesUnattached, screen, surface, user, TypeOK, Attempts,
    Connections, Messages, HiddenInv
<1>14. ASSUME NEW s \in Sockets, ClosesAtLast(s)
      PROVE  HiddenInv'
  BY <1>14 DEF ClosesAtLast, screen, surface, user, Lost, DetachDone,
    Settled, Outdated, NoAttempt, Ticket, Unready, ScheduleReconnect,
    Retries, Unused, TypeOK, Attempts, Connections, Messages, HiddenInv
<1>15. ASSUME NEW s \in Sockets, DetachTimesOut(s)
      PROVE  HiddenInv'
  BY <1>15 DEF DetachTimesOut, screen, surface, user, Closing, Unused,
    DetachDone, Settled, Outdated, NoAttempt, Ticket, Retries, TypeOK,
    Attempts, Connections, Messages, HiddenInv
<1>16. ASSUME NEW s \in Sockets, EndsSession(s)
      PROVE  HiddenInv'
  BY <1>16 DEF EndsSession, screen, surface, user, Sends, TypeOK, Attempts,
    Connections, Messages, HiddenInv
<1>17. ASSUME NEW s \in Sockets, Fails(s)
      PROVE  HiddenInv'
  BY <1>17 DEF Fails, screen, surface, user, Sends, Fault, TypeOK, Attempts,
    Connections, Messages, HiddenInv
<1>18. ASSUME NEW s \in Sockets, ConnectionLost(s)
      PROVE  HiddenInv'
  BY <1>18 DEF ConnectionLost, screen, surface, user, Fault, Lost,
    DetachDone, Settled, Outdated, NoAttempt, Ticket, Unready,
    ScheduleReconnect, Retries, Unused, TypeOK, Attempts, Connections,
    Messages, HiddenInv
<1>19. ASSUME NEW s \in Sockets, FallsSilent(s)
      PROVE  HiddenInv'
  BY <1>19 DEF FallsSilent, screen, surface, user, Fault, TypeOK, Attempts,
    Connections, Messages, HiddenInv
<1>20. ASSUME NEW p \in Panes, Show(p)
      PROVE  HiddenInv'
  BY <1>20 DEF Show, screen, surface, user, Mounts, Ticket, Detached, TypeOK,
    Attempts, Connections, Messages, HiddenInv
<1>21. ASSUME NEW p \in Panes, Switch(p)
      PROVE  HiddenInv'
  BY <1>21 DEF Switch, screen, surface, user, Mounts, Ticket, Detached,
    Leaves, Noticed, Closing, Unused, TypeOK, Attempts, Connections,
    Messages, HiddenInv
<1>22. CASE Remount
  BY <1>22 DEF Remount, screen, surface, user, Mounts, Ticket, Detached,
    GivenUp, Closing, Unused, Fault, TypeOK, Attempts, Connections, Messages,
    HiddenInv
<1>23. CASE Hide
  BY <1>23 DEF Hide, Unmounts, Unready, screen, surface, user, NoAttempt,
    GivenUp, Closing, Unused, TypeOK, Attempts, Connections, Messages,
    HiddenInv
<1>24. CASE Vanish
  BY <1>24 DEF Vanish, Unmounts, Unready, NoAttempt, screen, surface, user,
    Leaves, Noticed, Closing, Unused, TypeOK, Attempts, Connections,
    Messages, HiddenInv
<1>25. CASE Background
  BY <1>25 DEF Background, screen, surface, user, Cancelled, NoAttempt,
    Unready, GivenUp, Closing, Unused, TypeOK, Attempts, Connections,
    Messages, HiddenInv
<1>26. CASE Foreground
  BY <1>26 DEF Foreground, screen, surface, user, Reconnects, Connects,
    Replaced, Closing, Ticket, Retries, Live, Unused, TypeOK, Attempts,
    Connections, Messages, HiddenInv
<1>27. CASE PressReconnect
  BY <1>27 DEF PressReconnect, screen, surface, user, Reconnects, Connects,
    Replaced, Closing, Ticket, Retries, Live, Unused, TypeOK, Attempts,
    Connections, Messages, HiddenInv
<1>28. CASE GoesOnline
  BY <1>28 DEF GoesOnline, screen, surface, user, Connects, Replaced,
    Closing, Ticket, Retries, Live, Unused, Fault, TypeOK, Attempts,
    Connections, Messages, HiddenInv
<1>29. CASE Detach
  BY <1>29 DEF Detach, screen, surface, user, Cancelled, NoAttempt, Closing,
    Unused, TypeOK, Attempts, Connections, Messages, HiddenInv
<1>30. CASE AskPaste \/ PasteRead \/ UNCHANGED vars
  BY <1>30, Quiet DEF screen, surface, TypeOK, Attempts, Connections,
    Messages, HiddenInv
<1>q. QED BY <1>1, <1>2, <1>3, <1>4, <1>5, <1>6, <1>7, <1>8, <1>9, <1>10,
  <1>11, <1>12, <1>13, <1>14, <1>15, <1>16, <1>17, <1>18, <1>19, <1>20,
  <1>21, <1>22, <1>23, <1>24, <1>25, <1>26, <1>27, <1>28, <1>29, <1>30 DEF Next,
  Progress, OnMessage

\* The promise of a detach settles when the socket stops leaving.
LEMMA PendingStep ==
  ASSUME TypeOK, SocketInv, PendingInv, [Next]_vars
  PROVE  PendingInv'
<1> USE NoneAssumption, MaxFaultsAssumption
<1>1. CASE RetryFires
  BY <1>1 DEF RetryFires, screen, surface, user, Connects, Replaced, Closing,
    Ticket, Retries, Live, Unused, TypeOK, Attempts, Connections, Messages,
    SocketInv, PendingInv
<1>2. CASE TicketArrives
  BY <1>2 DEF TicketArrives, screen, surface, user, Dials, Free, NoAttempt,
    Unused, TypeOK, Attempts, Connections, Messages, SocketInv, PendingInv
<1>3. CASE TicketFails
  BY <1>3 DEF TicketFails, screen, surface, user, ScheduleReconnect, Retries,
    NoAttempt, Fault, TypeOK, Attempts, Connections, Messages, SocketInv,
    PendingInv
<1>4. ASSUME NEW s \in Sockets, Opens(s)
      PROVE  PendingInv'
  BY <1>4 DEF Opens, screen, surface, user, TypeOK, Attempts, Connections,
    Messages, SocketInv, PendingInv
<1>5. ASSUME NEW s \in Sockets, Answers(s)
      PROVE  PendingInv'
  <2>1. CASE Sends(s, "ready", "serving")
    BY <1>5, <2>1 DEF Sends, screen, surface, TypeOK, Connections,
      PendingInv
  <2>2. CASE sock[s].server = "resuming" /\ Sends(s, "resume_not_found", "idle")
    BY <1>5, <2>2 DEF Sends, screen, surface, TypeOK, Connections,
      PendingInv
  <2>q. QED BY <1>5, <2>1, <2>2 DEF Answers
<1>6. ASSUME NEW s \in Sockets, OnReady(s)
      PROVE  PendingInv'
  BY <1>6 DEF OnReady, screen, surface, user, Receives, Read, Closing,
    Unused, TypeOK, Attempts, Connections, Messages, SocketInv, PendingInv
<1>7. ASSUME NEW s \in Sockets, OnClosed(s)
      PROVE  PendingInv'
  BY <1>7 DEF OnClosed, screen, surface, user, Receives, Read, Unready,
    TypeOK, Attempts, Connections, Messages, SocketInv, PendingInv
<1>8. ASSUME NEW s \in Sockets, OnResumeNotFound(s)
      PROVE  PendingInv'
  BY <1>8 DEF OnResumeNotFound, screen, surface, user, Receives, Read,
    TypeOK, Attempts, Connections, Messages, SocketInv, PendingInv
<1>9. ASSUME NEW s \in Sockets, OnRefused(s)
      PROVE  PendingInv'
  BY <1>9 DEF OnRefused, screen, surface, user, Receives, Read, TypeOK,
    Attempts, Connections, Messages, SocketInv, PendingInv
<1>10. ASSUME NEW s \in Sockets, OnFailed(s)
      PROVE  PendingInv'
  BY <1>10 DEF OnFailed, screen, surface, user, Receives, Closing, Unready,
    Unused, ScheduleReconnect, Retries, TypeOK, Attempts, Connections,
    Messages, SocketInv, PendingInv
<1>11. ASSUME NEW s \in Sockets, OnDetached(s)
      PROVE  PendingInv'
  BY <1>11 DEF OnDetached, screen, surface, user, Receives, Read, DetachDone,
    Settled, Outdated, NoAttempt, Ticket, Retries, TypeOK, Attempts,
    Connections, Messages, SocketInv, PendingInv
<1>12. ASSUME NEW s \in Sockets, TimesOut(s)
      PROVE  PendingInv'
  BY <1>12 DEF TimesOut, screen, surface, user, Closing, Unready, Unused,
    ScheduleReconnect, Retries, TypeOK, Attempts, Connections, Messages,
    SocketInv, PendingInv
<1>13. ASSUME NEW s \in Sockets, ClosesUnattached(s)
      PROVE  PendingInv'
  BY <1>13 DEF ClosesUnattached, screen, surface, user, TypeOK, Attempts,
    Connections, Messages, SocketInv, PendingInv
<1>14. ASSUME NEW s \in Sockets, ClosesAtLast(s)
      PROVE  PendingInv'
  BY <1>14 DEF ClosesAtLast, screen, surface, user, Lost, DetachDone,
    Settled, Outdated, NoAttempt, Ticket, Unready, ScheduleReconnect,
    Retries, Unused, TypeOK, Attempts, Connections, Messages, SocketInv,
    PendingInv
<1>15. ASSUME NEW s \in Sockets, DetachTimesOut(s)
      PROVE  PendingInv'
  BY <1>15 DEF DetachTimesOut, screen, surface, user, Closing, Unused,
    DetachDone, Settled, Outdated, NoAttempt, Ticket, Retries, TypeOK,
    Attempts, Connections, Messages, SocketInv, PendingInv
<1>16. ASSUME NEW s \in Sockets, EndsSession(s)
      PROVE  PendingInv'
  BY <1>16 DEF EndsSession, screen, surface, user, Sends, TypeOK, Attempts,
    Connections, Messages, SocketInv, PendingInv
<1>17. ASSUME NEW s \in Sockets, Fails(s)
      PROVE  PendingInv'
  BY <1>17 DEF Fails, screen, surface, user, Sends, Fault, TypeOK, Attempts,
    Connections, Messages, SocketInv, PendingInv
<1>18. ASSUME NEW s \in Sockets, ConnectionLost(s)
      PROVE  PendingInv'
  BY <1>18 DEF ConnectionLost, screen, surface, user, Fault, Lost,
    DetachDone, Settled, Outdated, NoAttempt, Ticket, Unready,
    ScheduleReconnect, Retries, Unused, TypeOK, Attempts, Connections,
    Messages, SocketInv, PendingInv
<1>19. ASSUME NEW s \in Sockets, FallsSilent(s)
      PROVE  PendingInv'
  BY <1>19 DEF FallsSilent, screen, surface, user, Fault, TypeOK, Attempts,
    Connections, Messages, SocketInv, PendingInv
<1>20. ASSUME NEW p \in Panes, Show(p)
      PROVE  PendingInv'
  BY <1>20 DEF Show, screen, surface, user, Mounts, Ticket, Detached, TypeOK,
    Attempts, Connections, Messages, SocketInv, PendingInv
<1>21. ASSUME NEW p \in Panes, Switch(p)
      PROVE  PendingInv'
  BY <1>21 DEF Switch, screen, surface, user, Mounts, Ticket, Detached,
    Leaves, Noticed, Closing, Unused, TypeOK, Attempts, Connections,
    Messages, SocketInv, PendingInv
<1>22. CASE Remount
  BY <1>22 DEF Remount, screen, surface, user, Mounts, Ticket, Detached,
    GivenUp, Closing, Unused, Fault, TypeOK, Attempts, Connections, Messages,
    SocketInv, PendingInv
<1>23. CASE Hide
  BY <1>23 DEF Hide, Unmounts, Unready, screen, surface, user, NoAttempt,
    GivenUp, Closing, Unused, TypeOK, Attempts, Connections, Messages,
    SocketInv, PendingInv
<1>24. CASE Vanish
  BY <1>24 DEF Vanish, Unmounts, Unready, NoAttempt, screen, surface, user,
    Leaves, Noticed, Closing, Unused, TypeOK, Attempts, Connections,
    Messages, SocketInv, PendingInv
<1>25. CASE Background
  BY <1>25 DEF Background, screen, surface, user, Cancelled, NoAttempt,
    Unready, GivenUp, Closing, Unused, TypeOK, Attempts, Connections,
    Messages, SocketInv, PendingInv
<1>26. CASE Foreground
  BY <1>26 DEF Foreground, screen, surface, user, Reconnects, Connects,
    Replaced, Closing, Ticket, Retries, Live, Unused, TypeOK, Attempts,
    Connections, Messages, SocketInv, PendingInv
<1>27. CASE PressReconnect
  BY <1>27 DEF PressReconnect, screen, surface, user, Reconnects, Connects,
    Replaced, Closing, Ticket, Retries, Live, Unused, TypeOK, Attempts,
    Connections, Messages, SocketInv, PendingInv
<1>28. CASE GoesOnline
  BY <1>28 DEF GoesOnline, screen, surface, user, Connects, Replaced,
    Closing, Ticket, Retries, Live, Unused, Fault, TypeOK, Attempts,
    Connections, Messages, SocketInv, PendingInv
<1>29. CASE Detach
  BY <1>29 DEF Detach, screen, surface, user, Cancelled, NoAttempt, Closing,
    Unused, TypeOK, Attempts, Connections, Messages, SocketInv, PendingInv
<1>30. CASE AskPaste \/ PasteRead \/ UNCHANGED vars
  BY <1>30, Quiet DEF screen, surface, TypeOK, Attempts, Connections,
    Messages, SocketInv, PendingInv
<1>q. QED BY <1>1, <1>2, <1>3, <1>4, <1>5, <1>6, <1>7, <1>8, <1>9, <1>10,
  <1>11, <1>12, <1>13, <1>14, <1>15, <1>16, <1>17, <1>18, <1>19, <1>20,
  <1>21, <1>22, <1>23, <1>24, <1>25, <1>26, <1>27, <1>28, <1>29, <1>30 DEF Next,
  Progress, OnMessage

\* No connection is lost track of.
LEMMA Tracks ==
  ASSUME TypeOK, CurrentInv, HiddenInv, OneConnection, [Next]_vars
  PROVE  OneConnection'
<1> USE NoneAssumption, MaxFaultsAssumption
<1>1. CASE RetryFires
  <2>1. CASE UNCHANGED <<sock, current>>
    BY <2>1 DEF OneConnection
  <2>2. CASE ~UNCHANGED <<sock, current>>
    <3>1. /\ current \in Sockets /\ sock' = Closing(sock, current)
          /\ current' = None /\ sock \in [Sockets -> Connections]
      BY <1>1, <2>2 DEF RetryFires, Connects, Replaced, TypeOK
    <3>2. /\ sock'[current].state = "closing"
          /\ \A t \in Sockets \ {current} : sock'[t] = sock[t]
      BY <3>1, ClosingIs
    <3>q. QED BY <3>1, <3>2 DEF OneConnection, Live
  <2>q. QED BY <2>1, <2>2
<1>2. CASE TicketArrives
  BY <1>2 DEF TicketArrives, screen, surface, user, Dials, Free, NoAttempt,
    Unused, TypeOK, Attempts, Connections, Messages, OneConnection, Live,
    CurrentInv, HiddenInv
<1>3. CASE TicketFails
  BY <1>3 DEF TicketFails, screen, surface, user, ScheduleReconnect, Retries,
    NoAttempt, Fault, TypeOK, Attempts, Connections, Messages, OneConnection,
    Live, CurrentInv, HiddenInv
<1>4. ASSUME NEW s \in Sockets, Opens(s)
      PROVE  OneConnection'
  BY <1>4 DEF Opens, screen, surface, user, TypeOK, Attempts, Connections,
    Messages, OneConnection, Live, CurrentInv, HiddenInv
<1>5. ASSUME NEW s \in Sockets, Answers(s)
      PROVE  OneConnection'
  <2>1. CASE Sends(s, "ready", "serving")
    BY <1>5, <2>1 DEF Answers, screen, surface, user, Sends, TypeOK,
      Attempts, Connections, Messages, OneConnection, Live, CurrentInv,
      HiddenInv
  <2>2. CASE sock[s].server = "resuming" /\ Sends(s, "resume_not_found", "idle")
    BY <1>5, <2>2 DEF Answers, screen, surface, user, Sends, TypeOK,
      Attempts, Connections, Messages, OneConnection, Live, CurrentInv,
      HiddenInv
  <2>q. QED BY <1>5, <2>1, <2>2 DEF Answers
<1>6. ASSUME NEW s \in Sockets, OnReady(s)
      PROVE  OneConnection'
  BY <1>6 DEF OnReady, screen, surface, user, Receives, Read, Closing,
    Unused, TypeOK, Attempts, Connections, Messages, OneConnection, Live,
    CurrentInv, HiddenInv
<1>7. ASSUME NEW s \in Sockets, OnClosed(s)
      PROVE  OneConnection'
  BY <1>7 DEF OnClosed, screen, surface, user, Receives, Read, Unready,
    TypeOK, Attempts, Connections, Messages, OneConnection, Live, CurrentInv,
    HiddenInv
<1>8. ASSUME NEW s \in Sockets, OnResumeNotFound(s)
      PROVE  OneConnection'
  BY <1>8 DEF OnResumeNotFound, screen, surface, user, Receives, Read,
    TypeOK, Attempts, Connections, Messages, OneConnection, Live, CurrentInv,
    HiddenInv
<1>9. ASSUME NEW s \in Sockets, OnRefused(s)
      PROVE  OneConnection'
  BY <1>9 DEF OnRefused, screen, surface, user, Receives, Read, TypeOK,
    Attempts, Connections, Messages, OneConnection, Live, CurrentInv,
    HiddenInv
<1>10. ASSUME NEW s \in Sockets, OnFailed(s)
      PROVE  OneConnection'
  BY <1>10 DEF OnFailed, screen, surface, user, Receives, Closing, Unready,
    Unused, ScheduleReconnect, Retries, TypeOK, Attempts, Connections,
    Messages, OneConnection, Live, CurrentInv, HiddenInv
<1>11. ASSUME NEW s \in Sockets, OnDetached(s)
      PROVE  OneConnection'
  BY <1>11 DEF OnDetached, screen, surface, user, Receives, Read, DetachDone,
    Settled, Outdated, NoAttempt, Ticket, Retries, TypeOK, Attempts,
    Connections, Messages, OneConnection, Live, CurrentInv, HiddenInv
<1>12. ASSUME NEW s \in Sockets, TimesOut(s)
      PROVE  OneConnection'
  BY <1>12 DEF TimesOut, screen, surface, user, Closing, Unready, Unused,
    ScheduleReconnect, Retries, TypeOK, Attempts, Connections, Messages,
    OneConnection, Live, CurrentInv, HiddenInv
<1>13. ASSUME NEW s \in Sockets, ClosesUnattached(s)
      PROVE  OneConnection'
  BY <1>13 DEF ClosesUnattached, screen, surface, user, TypeOK, Attempts,
    Connections, Messages, OneConnection, Live, CurrentInv, HiddenInv
<1>14. ASSUME NEW s \in Sockets, ClosesAtLast(s)
      PROVE  OneConnection'
  BY <1>14 DEF ClosesAtLast, screen, surface, user, Lost, DetachDone,
    Settled, Outdated, NoAttempt, Ticket, Unready, ScheduleReconnect,
    Retries, Unused, TypeOK, Attempts, Connections, Messages, OneConnection,
    Live, CurrentInv, HiddenInv
<1>15. ASSUME NEW s \in Sockets, DetachTimesOut(s)
      PROVE  OneConnection'
  BY <1>15 DEF DetachTimesOut, screen, surface, user, Closing, Unused,
    DetachDone, Settled, Outdated, NoAttempt, Ticket, Retries, TypeOK,
    Attempts, Connections, Messages, OneConnection, Live, CurrentInv,
    HiddenInv
<1>16. ASSUME NEW s \in Sockets, EndsSession(s)
      PROVE  OneConnection'
  BY <1>16 DEF EndsSession, screen, surface, user, Sends, TypeOK, Attempts,
    Connections, Messages, OneConnection, Live, CurrentInv, HiddenInv
<1>17. ASSUME NEW s \in Sockets, Fails(s)
      PROVE  OneConnection'
  BY <1>17 DEF Fails, screen, surface, user, Sends, Fault, TypeOK, Attempts,
    Connections, Messages, OneConnection, Live, CurrentInv, HiddenInv
<1>18. ASSUME NEW s \in Sockets, ConnectionLost(s)
      PROVE  OneConnection'
  BY <1>18 DEF ConnectionLost, screen, surface, user, Fault, Lost,
    DetachDone, Settled, Outdated, NoAttempt, Ticket, Unready,
    ScheduleReconnect, Retries, Unused, TypeOK, Attempts, Connections,
    Messages, OneConnection, Live, CurrentInv, HiddenInv
<1>19. ASSUME NEW s \in Sockets, FallsSilent(s)
      PROVE  OneConnection'
  BY <1>19 DEF FallsSilent, screen, surface, user, Fault, TypeOK, Attempts,
    Connections, Messages, OneConnection, Live, CurrentInv, HiddenInv
<1>20. ASSUME NEW p \in Panes, Show(p)
      PROVE  OneConnection'
  BY <1>20 DEF Show, screen, surface, user, Mounts, Ticket, Detached, TypeOK,
    Attempts, Connections, Messages, OneConnection, Live, CurrentInv,
    HiddenInv
<1>21. ASSUME NEW p \in Panes, Switch(p)
      PROVE  OneConnection'
  BY <1>21 DEF Switch, screen, surface, user, Mounts, Ticket, Detached,
    Leaves, Noticed, Closing, Unused, TypeOK, Attempts, Connections,
    Messages, OneConnection, Live, CurrentInv, HiddenInv
<1>22. CASE Remount
  BY <1>22 DEF Remount, screen, surface, user, Mounts, Ticket, Detached,
    GivenUp, Closing, Unused, Fault, TypeOK, Attempts, Connections, Messages,
    OneConnection, Live, CurrentInv, HiddenInv
<1>23. CASE Hide
  BY <1>23 DEF Hide, Unmounts, Unready, screen, surface, user, NoAttempt,
    GivenUp, Closing, Unused, TypeOK, Attempts, Connections, Messages,
    OneConnection, Live, CurrentInv, HiddenInv
<1>24. CASE Vanish
  BY <1>24 DEF Vanish, Unmounts, Unready, NoAttempt, screen, surface, user,
    Leaves, Noticed, Closing, Unused, TypeOK, Attempts, Connections,
    Messages, OneConnection, Live, CurrentInv, HiddenInv
<1>25. CASE Background
  BY <1>25 DEF Background, screen, surface, user, Cancelled, NoAttempt,
    Unready, GivenUp, Closing, Unused, TypeOK, Attempts, Connections,
    Messages, OneConnection, Live, CurrentInv, HiddenInv
<1>26. CASE Foreground
  <2>1. CASE UNCHANGED <<sock, current>>
    BY <2>1 DEF OneConnection
  <2>2. CASE ~UNCHANGED <<sock, current>>
    <3>1. /\ current \in Sockets /\ sock' = Closing(sock, current)
          /\ current' = None /\ sock \in [Sockets -> Connections]
      BY <1>26, <2>2 DEF Foreground, Reconnects, Connects, Replaced, TypeOK
    <3>2. /\ sock'[current].state = "closing"
          /\ \A t \in Sockets \ {current} : sock'[t] = sock[t]
      BY <3>1, ClosingIs
    <3>q. QED BY <3>1, <3>2 DEF OneConnection, Live
  <2>q. QED BY <2>1, <2>2
<1>27. CASE PressReconnect
  <2>1. CASE UNCHANGED <<sock, current>>
    BY <2>1 DEF OneConnection
  <2>2. CASE ~UNCHANGED <<sock, current>>
    <3>1. /\ current \in Sockets /\ sock' = Closing(sock, current)
          /\ current' = None /\ sock \in [Sockets -> Connections]
      BY <1>27, <2>2 DEF PressReconnect, Reconnects, Connects, Replaced,
        TypeOK
    <3>2. /\ sock'[current].state = "closing"
          /\ \A t \in Sockets \ {current} : sock'[t] = sock[t]
      BY <3>1, ClosingIs
    <3>q. QED BY <3>1, <3>2 DEF OneConnection, Live
  <2>q. QED BY <2>1, <2>2
<1>28. CASE GoesOnline
  <2>1. CASE UNCHANGED <<sock, current>>
    BY <2>1 DEF OneConnection
  <2>2. CASE ~UNCHANGED <<sock, current>>
    <3>1. /\ current \in Sockets /\ sock' = Closing(sock, current)
          /\ current' = None /\ sock \in [Sockets -> Connections]
      BY <1>28, <2>2 DEF GoesOnline, Connects, Replaced, TypeOK
    <3>2. /\ sock'[current].state = "closing"
          /\ \A t \in Sockets \ {current} : sock'[t] = sock[t]
      BY <3>1, ClosingIs
    <3>q. QED BY <3>1, <3>2 DEF OneConnection, Live
  <2>q. QED BY <2>1, <2>2
<1>29. CASE Detach
  BY <1>29 DEF Detach, screen, surface, user, Cancelled, NoAttempt, Closing,
    Unused, TypeOK, Attempts, Connections, Messages, OneConnection, Live,
    CurrentInv, HiddenInv
<1>30. CASE AskPaste \/ PasteRead \/ UNCHANGED vars
  BY <1>30, Quiet DEF screen, surface, TypeOK, Attempts, Connections,
    Messages, OneConnection, Live, CurrentInv, HiddenInv
<1>q. QED BY <1>1, <1>2, <1>3, <1>4, <1>5, <1>6, <1>7, <1>8, <1>9, <1>10,
  <1>11, <1>12, <1>13, <1>14, <1>15, <1>16, <1>17, <1>18, <1>19, <1>20,
  <1>21, <1>22, <1>23, <1>24, <1>25, <1>26, <1>27, <1>28, <1>29, <1>30 DEF Next,
  Progress, OnMessage

\* What is typed goes to the screen.
LEMMA Keys ==
  ASSUME TypeOK, SocketInv, CurrentInv, InputInv, HiddenInv,
    KeysReachTheScreen, [Next]_vars
  PROVE  KeysReachTheScreen'
<1> USE NoneAssumption, MaxFaultsAssumption
<1>1. CASE RetryFires
  BY <1>1 DEF RetryFires, screen, surface, user, Connects, Replaced, Closing,
    Ticket, Retries, Live, Unused, TypeOK, Attempts, Connections, Messages,
    KeysReachTheScreen, SocketInv, CurrentInv, InputInv, HiddenInv
<1>2. CASE TicketArrives
  <2>1. input = None
    BY <1>2 DEF TicketArrives, KeysReachTheScreen, CurrentInv, Live
  <2>q. QED BY <1>2, <2>1 DEF TicketArrives, KeysReachTheScreen
<1>3. CASE TicketFails
  BY <1>3 DEF TicketFails, screen, surface, user, ScheduleReconnect, Retries,
    NoAttempt, Fault, TypeOK, Attempts, Connections, Messages,
    KeysReachTheScreen, SocketInv, CurrentInv, InputInv, HiddenInv
<1>4. ASSUME NEW s \in Sockets, Opens(s)
      PROVE  KeysReachTheScreen'
  BY <1>4 DEF Opens, screen, surface, user, TypeOK, Attempts, Connections,
    Messages, KeysReachTheScreen, SocketInv, CurrentInv, InputInv, HiddenInv
<1>5. ASSUME NEW s \in Sockets, Answers(s)
      PROVE  KeysReachTheScreen'
  <2>1. CASE Sends(s, "ready", "serving")
    BY <1>5, <2>1 DEF Answers, Sends, screen, surface, user, TypeOK,
      Connections, KeysReachTheScreen
  <2>2. CASE sock[s].server = "resuming" /\ Sends(s, "resume_not_found", "idle")
    BY <1>5, <2>2 DEF Answers, Sends, screen, surface, user, TypeOK,
      Connections, KeysReachTheScreen
  <2>q. QED BY <1>5, <2>1, <2>2 DEF Answers
<1>6. ASSUME NEW s \in Sockets, OnReady(s)
      PROVE  KeysReachTheScreen'
  <2>1. CASE app # "active"
    <3>1. /\ UNCHANGED <<input, mounted, current, target>>
          /\ current = s /\ sock[s].wire # <<>> /\ sock[s].wire[1] = "ready"
      BY <1>6, <2>1 DEF OnReady, Receives, screen, surface
    <3>2. 1 \in DOMAIN sock[s].wire BY <3>1 DEF TypeOK, Connections
    <3>3. input # s BY <3>1, <3>2 DEF InputInv
    <3>q. QED BY <3>1, <3>3 DEF KeysReachTheScreen
  <2>2. CASE app = "active"
    <3>1. /\ sock' = [Read(s) EXCEPT ![s].timer = FALSE]
          /\ input' = s /\ current = s
          /\ UNCHANGED <<mounted, current, target>>
          /\ sock[s].state = "open"
          /\ sock[s].wire # <<>> /\ sock[s].wire[1] = "ready"
      BY <1>6, <2>2 DEF OnReady, Receives, screen, surface
    <3>2. 1 \in DOMAIN sock[s].wire BY <3>1 DEF TypeOK, Connections
    <3>3. sock[s].server \in {"serving", "done"} BY <3>1, <3>2 DEF SocketInv
    <3>4. mounted /\ sock[s].pane = target
      BY <3>1, NoneAssumption DEF HiddenInv, CurrentInv, Live
    <3>5. /\ sock'[s].state = sock[s].state /\ sock'[s].pane = sock[s].pane
          /\ sock'[s].server = sock[s].server
      BY <3>1 DEF Read, TypeOK, Connections
    <3>q. QED BY <3>1, <3>3, <3>4, <3>5 DEF KeysReachTheScreen
  <2>q. QED BY <2>1, <2>2
<1>7. ASSUME NEW s \in Sockets, OnClosed(s)
      PROVE  KeysReachTheScreen'
  BY <1>7 DEF OnClosed, screen, surface, user, Receives, Read, Unready,
    TypeOK, Attempts, Connections, Messages, KeysReachTheScreen, SocketInv,
    CurrentInv, InputInv, HiddenInv
<1>8. ASSUME NEW s \in Sockets, OnResumeNotFound(s)
      PROVE  KeysReachTheScreen'
  BY <1>8 DEF OnResumeNotFound, screen, surface, user, Receives, Read,
    TypeOK, Attempts, Connections, Messages, KeysReachTheScreen, SocketInv,
    CurrentInv, InputInv, HiddenInv
<1>9. ASSUME NEW s \in Sockets, OnRefused(s)
      PROVE  KeysReachTheScreen'
  BY <1>9 DEF OnRefused, screen, surface, user, Receives, Read, TypeOK,
    Attempts, Connections, Messages, KeysReachTheScreen, SocketInv,
    CurrentInv, InputInv, HiddenInv
<1>10. ASSUME NEW s \in Sockets, OnFailed(s)
      PROVE  KeysReachTheScreen'
  BY <1>10 DEF OnFailed, screen, surface, user, Receives, Closing, Unready,
    Unused, ScheduleReconnect, Retries, TypeOK, Attempts, Connections,
    Messages, KeysReachTheScreen, SocketInv, CurrentInv, InputInv, HiddenInv
<1>11. ASSUME NEW s \in Sockets, OnDetached(s)
      PROVE  KeysReachTheScreen'
  BY <1>11 DEF OnDetached, screen, surface, user, Receives, Read, DetachDone,
    Settled, Outdated, NoAttempt, Ticket, Retries, TypeOK, Attempts,
    Connections, Messages, KeysReachTheScreen, SocketInv, CurrentInv,
    InputInv, HiddenInv
<1>12. ASSUME NEW s \in Sockets, TimesOut(s)
      PROVE  KeysReachTheScreen'
  BY <1>12 DEF TimesOut, screen, surface, user, Closing, Unready, Unused,
    ScheduleReconnect, Retries, TypeOK, Attempts, Connections, Messages,
    KeysReachTheScreen, SocketInv, CurrentInv, InputInv, HiddenInv
<1>13. ASSUME NEW s \in Sockets, ClosesUnattached(s)
      PROVE  KeysReachTheScreen'
  BY <1>13 DEF ClosesUnattached, screen, surface, user, TypeOK, Attempts,
    Connections, Messages, KeysReachTheScreen, SocketInv, CurrentInv,
    InputInv, HiddenInv
<1>14. ASSUME NEW s \in Sockets, ClosesAtLast(s)
      PROVE  KeysReachTheScreen'
  BY <1>14 DEF ClosesAtLast, screen, surface, user, Lost, DetachDone,
    Settled, Outdated, NoAttempt, Ticket, Unready, ScheduleReconnect,
    Retries, Unused, TypeOK, Attempts, Connections, Messages,
    KeysReachTheScreen, SocketInv, CurrentInv, InputInv, HiddenInv
<1>15. ASSUME NEW s \in Sockets, DetachTimesOut(s)
      PROVE  KeysReachTheScreen'
  BY <1>15 DEF DetachTimesOut, screen, surface, user, Closing, Unused,
    DetachDone, Settled, Outdated, NoAttempt, Ticket, Retries, TypeOK,
    Attempts, Connections, Messages, KeysReachTheScreen, SocketInv,
    CurrentInv, InputInv, HiddenInv
<1>16. ASSUME NEW s \in Sockets, EndsSession(s)
      PROVE  KeysReachTheScreen'
  BY <1>16 DEF EndsSession, screen, surface, user, Sends, TypeOK, Attempts,
    Connections, Messages, KeysReachTheScreen, SocketInv, CurrentInv,
    InputInv, HiddenInv
<1>17. ASSUME NEW s \in Sockets, Fails(s)
      PROVE  KeysReachTheScreen'
  BY <1>17 DEF Fails, screen, surface, user, Sends, Fault, TypeOK, Attempts,
    Connections, Messages, KeysReachTheScreen, SocketInv, CurrentInv,
    InputInv, HiddenInv
<1>18. ASSUME NEW s \in Sockets, ConnectionLost(s)
      PROVE  KeysReachTheScreen'
  BY <1>18 DEF ConnectionLost, screen, surface, user, Fault, Lost,
    DetachDone, Settled, Outdated, NoAttempt, Ticket, Unready,
    ScheduleReconnect, Retries, Unused, TypeOK, Attempts, Connections,
    Messages, KeysReachTheScreen, SocketInv, CurrentInv, InputInv, HiddenInv
<1>19. ASSUME NEW s \in Sockets, FallsSilent(s)
      PROVE  KeysReachTheScreen'
  BY <1>19 DEF FallsSilent, screen, surface, user, Fault, TypeOK, Attempts,
    Connections, Messages, KeysReachTheScreen, SocketInv, CurrentInv,
    InputInv, HiddenInv
<1>20. ASSUME NEW p \in Panes, Show(p)
      PROVE  KeysReachTheScreen'
  BY <1>20 DEF Show, screen, surface, user, Mounts, Ticket, Detached, TypeOK,
    Attempts, Connections, Messages, KeysReachTheScreen, SocketInv,
    CurrentInv, InputInv, HiddenInv
<1>21. ASSUME NEW p \in Panes, Switch(p)
      PROVE  KeysReachTheScreen'
  BY <1>21 DEF Switch, screen, surface, user, Mounts, Ticket, Detached,
    Leaves, Noticed, Closing, Unused, TypeOK, Attempts, Connections,
    Messages, KeysReachTheScreen, SocketInv, CurrentInv, InputInv, HiddenInv
<1>22. CASE Remount
  BY <1>22 DEF Remount, screen, surface, user, Mounts, Ticket, Detached,
    GivenUp, Closing, Unused, Fault, TypeOK, Attempts, Connections, Messages,
    KeysReachTheScreen, SocketInv, CurrentInv, InputInv, HiddenInv
<1>23. CASE Hide
  BY <1>23 DEF Hide, Unmounts, Unready, screen, surface, user, NoAttempt,
    GivenUp, Closing, Unused, TypeOK, Attempts, Connections, Messages,
    KeysReachTheScreen, SocketInv, CurrentInv, InputInv, HiddenInv
<1>24. CASE Vanish
  BY <1>24 DEF Vanish, Unmounts, Unready, NoAttempt, screen, surface, user,
    Leaves, Noticed, Closing, Unused, TypeOK, Attempts, Connections,
    Messages, KeysReachTheScreen, SocketInv, CurrentInv, InputInv, HiddenInv
<1>25. CASE Background
  BY <1>25 DEF Background, screen, surface, user, Cancelled, NoAttempt,
    Unready, GivenUp, Closing, Unused, TypeOK, Attempts, Connections,
    Messages, KeysReachTheScreen, SocketInv, CurrentInv, InputInv, HiddenInv
<1>26. CASE Foreground
  BY <1>26 DEF Foreground, screen, surface, user, Reconnects, Connects,
    Replaced, Closing, Ticket, Retries, Live, Unused, TypeOK, Attempts,
    Connections, Messages, KeysReachTheScreen, SocketInv, CurrentInv,
    InputInv, HiddenInv
<1>27. CASE PressReconnect
  BY <1>27 DEF PressReconnect, screen, surface, user, Reconnects, Connects,
    Replaced, Closing, Ticket, Retries, Live, Unused, TypeOK, Attempts,
    Connections, Messages, KeysReachTheScreen, SocketInv, CurrentInv,
    InputInv, HiddenInv
<1>28. CASE GoesOnline
  BY <1>28 DEF GoesOnline, screen, surface, user, Connects, Replaced,
    Closing, Ticket, Retries, Live, Unused, Fault, TypeOK, Attempts,
    Connections, Messages, KeysReachTheScreen, SocketInv, CurrentInv,
    InputInv, HiddenInv
<1>29. CASE Detach
  BY <1>29 DEF Detach, screen, surface, user, Cancelled, NoAttempt, Closing,
    Unused, TypeOK, Attempts, Connections, Messages, KeysReachTheScreen,
    SocketInv, CurrentInv, InputInv, HiddenInv
<1>30. CASE AskPaste \/ PasteRead \/ UNCHANGED vars
  BY <1>30, Quiet DEF screen, surface, TypeOK, Attempts, Connections,
    Messages, KeysReachTheScreen, SocketInv, CurrentInv, InputInv, HiddenInv
<1>q. QED BY <1>1, <1>2, <1>3, <1>4, <1>5, <1>6, <1>7, <1>8, <1>9, <1>10,
  <1>11, <1>12, <1>13, <1>14, <1>15, <1>16, <1>17, <1>18, <1>19, <1>20,
  <1>21, <1>22, <1>23, <1>24, <1>25, <1>26, <1>27, <1>28, <1>29, <1>30 DEF Next,
  Progress, OnMessage

\* Connected means served.
LEMMA Serves ==
  ASSUME TypeOK, CurrentInv, InputInv, ReadyInv, ClosedInv, HiddenInv,
    ConnectedIsServed, [Next]_vars
  PROVE  ConnectedIsServed'
<1> USE NoneAssumption, MaxFaultsAssumption
<1>1. CASE RetryFires
  BY <1>1 DEF RetryFires, screen, surface, user, Connects, Replaced, Closing,
    Ticket, Retries, Live, Unused, TypeOK, Attempts, Connections, Messages,
    ConnectedIsServed, CurrentInv, InputInv, ReadyInv, ClosedInv, HiddenInv
<1>2. CASE TicketArrives
  <2>1. ~ready BY <1>2 DEF TicketArrives, ReadyInv, CurrentInv, Live
  <2>q. QED BY <1>2, <2>1 DEF TicketArrives, ConnectedIsServed
<1>3. CASE TicketFails
  <2>1. ~ready BY <1>3 DEF TicketFails, ReadyInv, CurrentInv, Live
  <2>q. QED BY <1>3, <2>1 DEF TicketFails, ScheduleReconnect,
    ConnectedIsServed
<1>4. ASSUME NEW s \in Sockets, Opens(s)
      PROVE  ConnectedIsServed'
  BY <1>4 DEF Opens, screen, surface, user, TypeOK, Attempts, Connections,
    Messages, ConnectedIsServed, CurrentInv, InputInv, ReadyInv, ClosedInv,
    HiddenInv
<1>5. ASSUME NEW s \in Sockets, Answers(s)
      PROVE  ConnectedIsServed'
  <2>1. CASE Sends(s, "ready", "serving")
    BY <2>1 DEF Sends, screen, surface, ConnectedIsServed
  <2>2. CASE sock[s].server = "resuming" /\ Sends(s, "resume_not_found", "idle")
    BY <2>2 DEF Sends, screen, surface, ConnectedIsServed
  <2>q. QED BY <1>5, <2>1, <2>2 DEF Answers
<1>6. ASSUME NEW s \in Sockets, OnReady(s)
      PROVE  ConnectedIsServed'
  BY <1>6 DEF OnReady, screen, surface, user, Receives, Read, Closing,
    Unused, TypeOK, Attempts, Connections, Messages, ConnectedIsServed,
    CurrentInv, InputInv, ReadyInv, ClosedInv, HiddenInv
<1>7. ASSUME NEW s \in Sockets, OnClosed(s)
      PROVE  ConnectedIsServed'
  BY <1>7 DEF OnClosed, screen, surface, user, Receives, Read, Unready,
    TypeOK, Attempts, Connections, Messages, ConnectedIsServed, CurrentInv,
    InputInv, ReadyInv, ClosedInv, HiddenInv
<1>8. ASSUME NEW s \in Sockets, OnResumeNotFound(s)
      PROVE  ConnectedIsServed'
  BY <1>8 DEF OnResumeNotFound, screen, surface, user, Receives, Read,
    TypeOK, Attempts, Connections, Messages, ConnectedIsServed, CurrentInv,
    InputInv, ReadyInv, ClosedInv, HiddenInv
<1>9. ASSUME NEW s \in Sockets, OnRefused(s)
      PROVE  ConnectedIsServed'
  BY <1>9 DEF OnRefused, screen, surface, user, Receives, Read, TypeOK,
    Attempts, Connections, Messages, ConnectedIsServed, CurrentInv, InputInv,
    ReadyInv, ClosedInv, HiddenInv
<1>10. ASSUME NEW s \in Sockets, OnFailed(s)
      PROVE  ConnectedIsServed'
  BY <1>10 DEF OnFailed, screen, surface, user, Receives, Closing, Unready,
    Unused, ScheduleReconnect, Retries, TypeOK, Attempts, Connections,
    Messages, ConnectedIsServed, CurrentInv, InputInv, ReadyInv, ClosedInv,
    HiddenInv
<1>11. ASSUME NEW s \in Sockets, OnDetached(s)
      PROVE  ConnectedIsServed'
  BY <1>11 DEF OnDetached, screen, surface, user, Receives, Read, DetachDone,
    Settled, Outdated, NoAttempt, Ticket, Retries, TypeOK, Attempts,
    Connections, Messages, ConnectedIsServed, CurrentInv, InputInv, ReadyInv,
    ClosedInv, HiddenInv
<1>12. ASSUME NEW s \in Sockets, TimesOut(s)
      PROVE  ConnectedIsServed'
  BY <1>12 DEF TimesOut, screen, surface, user, Closing, Unready, Unused,
    ScheduleReconnect, Retries, TypeOK, Attempts, Connections, Messages,
    ConnectedIsServed, CurrentInv, InputInv, ReadyInv, ClosedInv, HiddenInv
<1>13. ASSUME NEW s \in Sockets, ClosesUnattached(s)
      PROVE  ConnectedIsServed'
  BY <1>13 DEF ClosesUnattached, screen, surface, user, TypeOK, Attempts,
    Connections, Messages, ConnectedIsServed, CurrentInv, InputInv, ReadyInv,
    ClosedInv, HiddenInv
<1>14. ASSUME NEW s \in Sockets, ClosesAtLast(s)
      PROVE  ConnectedIsServed'
  BY <1>14 DEF ClosesAtLast, screen, surface, user, Lost, DetachDone,
    Settled, Outdated, NoAttempt, Ticket, Unready, ScheduleReconnect,
    Retries, Unused, TypeOK, Attempts, Connections, Messages,
    ConnectedIsServed, CurrentInv, InputInv, ReadyInv, ClosedInv, HiddenInv
<1>15. ASSUME NEW s \in Sockets, DetachTimesOut(s)
      PROVE  ConnectedIsServed'
  BY <1>15 DEF DetachTimesOut, screen, surface, user, Closing, Unused,
    DetachDone, Settled, Outdated, NoAttempt, Ticket, Retries, TypeOK,
    Attempts, Connections, Messages, ConnectedIsServed, CurrentInv, InputInv,
    ReadyInv, ClosedInv, HiddenInv
<1>16. ASSUME NEW s \in Sockets, EndsSession(s)
      PROVE  ConnectedIsServed'
  BY <1>16 DEF EndsSession, screen, surface, user, Sends, TypeOK, Attempts,
    Connections, Messages, ConnectedIsServed, CurrentInv, InputInv, ReadyInv,
    ClosedInv, HiddenInv
<1>17. ASSUME NEW s \in Sockets, Fails(s)
      PROVE  ConnectedIsServed'
  BY <1>17 DEF Fails, screen, surface, user, Sends, Fault, TypeOK, Attempts,
    Connections, Messages, ConnectedIsServed, CurrentInv, InputInv, ReadyInv,
    ClosedInv, HiddenInv
<1>18. ASSUME NEW s \in Sockets, ConnectionLost(s)
      PROVE  ConnectedIsServed'
  BY <1>18 DEF ConnectionLost, screen, surface, user, Fault, Lost,
    DetachDone, Settled, Outdated, NoAttempt, Ticket, Unready,
    ScheduleReconnect, Retries, Unused, TypeOK, Attempts, Connections,
    Messages, ConnectedIsServed, CurrentInv, InputInv, ReadyInv, ClosedInv,
    HiddenInv
<1>19. ASSUME NEW s \in Sockets, FallsSilent(s)
      PROVE  ConnectedIsServed'
  BY <1>19 DEF FallsSilent, screen, surface, user, Fault, TypeOK, Attempts,
    Connections, Messages, ConnectedIsServed, CurrentInv, InputInv, ReadyInv,
    ClosedInv, HiddenInv
<1>20. ASSUME NEW p \in Panes, Show(p)
      PROVE  ConnectedIsServed'
  BY <1>20 DEF Show, screen, surface, user, Mounts, Ticket, Detached, TypeOK,
    Attempts, Connections, Messages, ConnectedIsServed, CurrentInv, InputInv,
    ReadyInv, ClosedInv, HiddenInv
<1>21. ASSUME NEW p \in Panes, Switch(p)
      PROVE  ConnectedIsServed'
  BY <1>21 DEF Switch, screen, surface, user, Mounts, Ticket, Detached,
    Leaves, Noticed, Closing, Unused, TypeOK, Attempts, Connections,
    Messages, ConnectedIsServed, CurrentInv, InputInv, ReadyInv, ClosedInv,
    HiddenInv
<1>22. CASE Remount
  BY <1>22 DEF Remount, screen, surface, user, Mounts, Ticket, Detached,
    GivenUp, Closing, Unused, Fault, TypeOK, Attempts, Connections, Messages,
    ConnectedIsServed, CurrentInv, InputInv, ReadyInv, ClosedInv, HiddenInv
<1>23. CASE Hide
  BY <1>23 DEF Hide, Unmounts, Unready, screen, surface, user, NoAttempt,
    GivenUp, Closing, Unused, TypeOK, Attempts, Connections, Messages,
    ConnectedIsServed, CurrentInv, InputInv, ReadyInv, ClosedInv, HiddenInv
<1>24. CASE Vanish
  BY <1>24 DEF Vanish, Unmounts, Unready, NoAttempt, screen, surface, user,
    Leaves, Noticed, Closing, Unused, TypeOK, Attempts, Connections,
    Messages, ConnectedIsServed, CurrentInv, InputInv, ReadyInv, ClosedInv,
    HiddenInv
<1>25. CASE Background
  BY <1>25 DEF Background, screen, surface, user, Cancelled, NoAttempt,
    Unready, GivenUp, Closing, Unused, TypeOK, Attempts, Connections,
    Messages, ConnectedIsServed, CurrentInv, InputInv, ReadyInv, ClosedInv,
    HiddenInv
<1>26. CASE Foreground
  BY <1>26 DEF Foreground, screen, surface, user, Reconnects, Connects,
    Replaced, Closing, Ticket, Retries, Live, Unused, TypeOK, Attempts,
    Connections, Messages, ConnectedIsServed, CurrentInv, InputInv, ReadyInv,
    ClosedInv, HiddenInv
<1>27. CASE PressReconnect
  BY <1>27 DEF PressReconnect, screen, surface, user, Reconnects, Connects,
    Replaced, Closing, Ticket, Retries, Live, Unused, TypeOK, Attempts,
    Connections, Messages, ConnectedIsServed, CurrentInv, InputInv, ReadyInv,
    ClosedInv, HiddenInv
<1>28. CASE GoesOnline
  BY <1>28 DEF GoesOnline, screen, surface, user, Connects, Replaced,
    Closing, Ticket, Retries, Live, Unused, Fault, TypeOK, Attempts,
    Connections, Messages, ConnectedIsServed, CurrentInv, InputInv, ReadyInv,
    ClosedInv, HiddenInv
<1>29. CASE Detach
  BY <1>29 DEF Detach, screen, surface, user, Cancelled, NoAttempt, Closing,
    Unused, TypeOK, Attempts, Connections, Messages, ConnectedIsServed,
    CurrentInv, InputInv, ReadyInv, ClosedInv, HiddenInv
<1>30. CASE AskPaste \/ PasteRead \/ UNCHANGED vars
  BY <1>30, Quiet DEF screen, surface, TypeOK, Attempts, Connections,
    Messages, ConnectedIsServed, CurrentInv, InputInv, ReadyInv, ClosedInv,
    HiddenInv
<1>q. QED BY <1>1, <1>2, <1>3, <1>4, <1>5, <1>6, <1>7, <1>8, <1>9, <1>10,
  <1>11, <1>12, <1>13, <1>14, <1>15, <1>16, <1>17, <1>18, <1>19, <1>20,
  <1>21, <1>22, <1>23, <1>24, <1>25, <1>26, <1>27, <1>28, <1>29, <1>30 DEF Next,
  Progress, OnMessage

\* Connecting means progress.
LEMMA Progresses ==
  ASSUME TypeOK, SocketInv, CurrentInv, PendingInv, ConnectingIsProgress,
         [Next]_vars
  PROVE  ConnectingIsProgress'
<1> USE NoneAssumption, MaxFaultsAssumption
<1>1. CASE RetryFires
  BY <1>1 DEF RetryFires, screen, surface, user, Connects, Replaced, Closing,
    Ticket, Retries, Live, Unused, TypeOK, Attempts, Connections, Messages,
    ConnectingIsProgress, SocketInv, CurrentInv
<1>2. CASE TicketArrives
  BY <1>2 DEF TicketArrives, screen, surface, user, Dials, Free, NoAttempt,
    Unused, TypeOK, Attempts, Connections, Messages, ConnectingIsProgress,
    SocketInv, CurrentInv
<1>3. CASE TicketFails
  BY <1>3 DEF TicketFails, screen, surface, user, ScheduleReconnect, Retries,
    NoAttempt, Fault, TypeOK, Attempts, Connections, Messages,
    ConnectingIsProgress, SocketInv, CurrentInv
<1>4. ASSUME NEW s \in Sockets, Opens(s)
      PROVE  ConnectingIsProgress'
  BY <1>4 DEF Opens, screen, surface, user, TypeOK, Attempts, Connections,
    Messages, ConnectingIsProgress, SocketInv, CurrentInv
<1>5. ASSUME NEW s \in Sockets, Answers(s)
      PROVE  ConnectingIsProgress'
  <2>1. CASE Sends(s, "ready", "serving")
    BY <1>5, <2>1 DEF Answers, screen, surface, user, Sends, TypeOK,
      Attempts, Connections, Messages, ConnectingIsProgress, SocketInv,
      CurrentInv
  <2>2. CASE sock[s].server = "resuming" /\ Sends(s, "resume_not_found", "idle")
    BY <1>5, <2>2 DEF Answers, screen, surface, user, Sends, TypeOK,
      Attempts, Connections, Messages, ConnectingIsProgress, SocketInv,
      CurrentInv
  <2>q. QED BY <1>5, <2>1, <2>2 DEF Answers
<1>6. ASSUME NEW s \in Sockets, OnReady(s)
      PROVE  ConnectingIsProgress'
  BY <1>6 DEF OnReady, screen, surface, user, Receives, Read, Closing,
    Unused, TypeOK, Attempts, Connections, Messages, ConnectingIsProgress,
    SocketInv, CurrentInv
<1>7. ASSUME NEW s \in Sockets, OnClosed(s)
      PROVE  ConnectingIsProgress'
  BY <1>7 DEF OnClosed, screen, surface, user, Receives, Read, Unready,
    TypeOK, Attempts, Connections, Messages, ConnectingIsProgress, SocketInv,
    CurrentInv
<1>8. ASSUME NEW s \in Sockets, OnResumeNotFound(s)
      PROVE  ConnectingIsProgress'
  BY <1>8 DEF OnResumeNotFound, screen, surface, user, Receives, Read,
    TypeOK, Attempts, Connections, Messages, ConnectingIsProgress, SocketInv,
    CurrentInv
<1>9. ASSUME NEW s \in Sockets, OnRefused(s)
      PROVE  ConnectingIsProgress'
  BY <1>9 DEF OnRefused, screen, surface, user, Receives, Read, TypeOK,
    Attempts, Connections, Messages, ConnectingIsProgress, SocketInv,
    CurrentInv
<1>10. ASSUME NEW s \in Sockets, OnFailed(s)
      PROVE  ConnectingIsProgress'
  BY <1>10 DEF OnFailed, screen, surface, user, Receives, Closing, Unready,
    Unused, ScheduleReconnect, Retries, TypeOK, Attempts, Connections,
    Messages, ConnectingIsProgress, SocketInv, CurrentInv
<1>11. ASSUME NEW s \in Sockets, OnDetached(s)
      PROVE  ConnectingIsProgress'
  BY <1>11 DEF OnDetached, screen, surface, user, Receives, Read, DetachDone,
    Settled, Outdated, NoAttempt, Ticket, Retries, TypeOK, Attempts,
    Connections, Messages, ConnectingIsProgress, SocketInv, CurrentInv
<1>12. ASSUME NEW s \in Sockets, TimesOut(s)
      PROVE  ConnectingIsProgress'
  BY <1>12 DEF TimesOut, screen, surface, user, Closing, Unready, Unused,
    ScheduleReconnect, Retries, TypeOK, Attempts, Connections, Messages,
    ConnectingIsProgress, SocketInv, CurrentInv
<1>13. ASSUME NEW s \in Sockets, ClosesUnattached(s)
      PROVE  ConnectingIsProgress'
  BY <1>13 DEF ClosesUnattached, screen, surface, user, TypeOK, Attempts,
    Connections, Messages, ConnectingIsProgress, SocketInv, CurrentInv
<1>14. ASSUME NEW s \in Sockets, ClosesAtLast(s)
      PROVE  ConnectingIsProgress'
  <2>1. CASE s = current
    BY <1>14, <2>1 DEF ClosesAtLast, screen, surface, user, Lost, DetachDone,
      Settled, Outdated, NoAttempt, Ticket, Unready, ScheduleReconnect,
      Retries, Unused, TypeOK, Attempts, Connections, Messages,
      ConnectingIsProgress, SocketInv, CurrentInv
  <2>2. CASE s # current
    BY <1>14, <2>2 DEF ClosesAtLast, screen, surface, user, Lost, DetachDone,
      Settled, Outdated, NoAttempt, Ticket, Unready, ScheduleReconnect,
      Retries, Unused, TypeOK, Attempts, Connections, Messages,
      ConnectingIsProgress, SocketInv, CurrentInv
  <2>q. QED BY <1>14, <2>1, <2>2 DEF ClosesAtLast
<1>15. ASSUME NEW s \in Sockets, DetachTimesOut(s)
      PROVE  ConnectingIsProgress'
  BY <1>15 DEF DetachTimesOut, screen, surface, user, Closing, Unused,
    DetachDone, Settled, Outdated, NoAttempt, Ticket, Retries, TypeOK,
    Attempts, Connections, Messages, ConnectingIsProgress, SocketInv,
    CurrentInv
<1>16. ASSUME NEW s \in Sockets, EndsSession(s)
      PROVE  ConnectingIsProgress'
  BY <1>16 DEF EndsSession, screen, surface, user, Sends, TypeOK, Attempts,
    Connections, Messages, ConnectingIsProgress, SocketInv, CurrentInv
<1>17. ASSUME NEW s \in Sockets, Fails(s)
      PROVE  ConnectingIsProgress'
  BY <1>17 DEF Fails, screen, surface, user, Sends, Fault, TypeOK, Attempts,
    Connections, Messages, ConnectingIsProgress, SocketInv, CurrentInv
<1>18. ASSUME NEW s \in Sockets, ConnectionLost(s)
      PROVE  ConnectingIsProgress'
  <2>1. CASE s = current
    BY <1>18, <2>1 DEF ConnectionLost, screen, surface, user, Fault, Lost,
      DetachDone, Settled, Outdated, NoAttempt, Ticket, Unready,
      ScheduleReconnect, Retries, Unused, TypeOK, Attempts, Connections,
      Messages, ConnectingIsProgress, SocketInv, CurrentInv
  <2>2. CASE s # current
    BY <1>18, <2>2 DEF ConnectionLost, screen, surface, user, Fault, Lost,
      DetachDone, Settled, Outdated, NoAttempt, Ticket, Unready,
      ScheduleReconnect, Retries, Unused, TypeOK, Attempts, Connections,
      Messages, ConnectingIsProgress, SocketInv, CurrentInv
  <2>q. QED BY <1>18, <2>1, <2>2 DEF ConnectionLost
<1>19. ASSUME NEW s \in Sockets, FallsSilent(s)
      PROVE  ConnectingIsProgress'
  BY <1>19 DEF FallsSilent, screen, surface, user, Fault, TypeOK, Attempts,
    Connections, Messages, ConnectingIsProgress, SocketInv, CurrentInv
<1>20. ASSUME NEW p \in Panes, Show(p)
      PROVE  ConnectingIsProgress'
  <2>1. CASE attempt' = Ticket
    BY <2>1 DEF Ticket, ConnectingIsProgress
  <2>2. CASE pending # None /\ attempt' = Detached(pending) /\ sock' = sock
    BY <2>2 DEF Detached, PendingInv, ConnectingIsProgress
  <2>q. QED BY <1>20, <2>1, <2>2 DEF Show, Mounts
<1>21. ASSUME NEW p \in Panes, Switch(p)
      PROVE  ConnectingIsProgress'
  BY <1>21 DEF Switch, screen, surface, user, Mounts, Ticket, Detached,
    Leaves, Noticed, Closing, Unused, TypeOK, Attempts, Connections,
    Messages, ConnectingIsProgress, SocketInv, CurrentInv
<1>22. CASE Remount
  BY <1>22 DEF Remount, screen, surface, user, Mounts, Ticket, Detached,
    GivenUp, Closing, Unused, Fault, TypeOK, Attempts, Connections, Messages,
    ConnectingIsProgress, SocketInv, CurrentInv
<1>23. CASE Hide
  BY <1>23 DEF Hide, Unmounts, Unready, screen, surface, user, NoAttempt,
    GivenUp, Closing, Unused, TypeOK, Attempts, Connections, Messages,
    ConnectingIsProgress, SocketInv, CurrentInv
<1>24. CASE Vanish
  BY <1>24 DEF Vanish, Unmounts, Unready, NoAttempt, screen, surface, user,
    Leaves, Noticed, Closing, Unused, TypeOK, Attempts, Connections,
    Messages, ConnectingIsProgress, SocketInv, CurrentInv
<1>25. CASE Background
  BY <1>25 DEF Background, screen, surface, user, Cancelled, NoAttempt,
    Unready, GivenUp, Closing, Unused, TypeOK, Attempts, Connections,
    Messages, ConnectingIsProgress, SocketInv, CurrentInv
<1>26. CASE Foreground
  <2>1. CASE closed \/ ~mounted
    BY <1>26, <2>1 DEF Foreground, screen, surface, user, Reconnects,
      Connects, Replaced, Closing, Ticket, Retries, Live, Unused, TypeOK,
      Attempts, Connections, Messages, ConnectingIsProgress, SocketInv,
      CurrentInv
  <2>2. CASE ~(closed \/ ~mounted) /\ attempt.awaits # "nothing"
    BY <1>26, <2>2 DEF Foreground, screen, surface, user, Reconnects,
      Connects, Replaced, Closing, Ticket, Retries, Live, Unused, TypeOK,
      Attempts, Connections, Messages, ConnectingIsProgress, SocketInv,
      CurrentInv
  <2>3. CASE ~(closed \/ ~mounted) /\ attempt.awaits = "nothing"
    <3>1. Reconnects
      BY <1>26, <2>3 DEF Foreground
    <3>2. Connects
      BY <2>3, <3>1 DEF Reconnects
    <3>3. attempt' = Ticket
      BY <2>3, <3>2 DEF Connects
    <3>q. QED BY <3>3 DEF Ticket, ConnectingIsProgress
  <2>q. QED BY <1>26, <2>1, <2>2, <2>3
<1>27. CASE PressReconnect
  BY <1>27 DEF PressReconnect, screen, surface, user, Reconnects, Connects,
    Replaced, Closing, Ticket, Retries, Live, Unused, TypeOK, Attempts,
    Connections, Messages, ConnectingIsProgress, SocketInv, CurrentInv
<1>28. CASE GoesOnline
  BY <1>28 DEF GoesOnline, screen, surface, user, Connects, Replaced,
    Closing, Ticket, Retries, Live, Unused, Fault, TypeOK, Attempts,
    Connections, Messages, ConnectingIsProgress, SocketInv, CurrentInv
<1>29. CASE Detach
  BY <1>29 DEF Detach, screen, surface, user, Cancelled, NoAttempt, Closing,
    Unused, TypeOK, Attempts, Connections, Messages, ConnectingIsProgress,
    SocketInv, CurrentInv
<1>30. CASE AskPaste \/ PasteRead \/ UNCHANGED vars
  BY <1>30, Quiet DEF screen, surface, TypeOK, Attempts, Connections,
    Messages, ConnectingIsProgress, SocketInv, CurrentInv
<1>q. QED BY <1>1, <1>2, <1>3, <1>4, <1>5, <1>6, <1>7, <1>8, <1>9, <1>10,
  <1>11, <1>12, <1>13, <1>14, <1>15, <1>16, <1>17, <1>18, <1>19, <1>20,
  <1>21, <1>22, <1>23, <1>24, <1>25, <1>26, <1>27, <1>28, <1>29, <1>30 DEF Next,
  Progress, OnMessage

-----------------------------------------------------------------------------
LEMMA Starts == Init => Inv
<1> SUFFICES ASSUME Init PROVE Inv
  OBVIOUS
<1> USE NoneAssumption, MaxFaultsAssumption
<1>1. Unused \in Connections
  <2>1. <<>> \in Seq(Messages) OBVIOUS
  <2>q. QED BY <2>1 DEF Unused, Connections
<1>2. TypeOK
  <2>1. attempt \in Attempts BY AttemptsTyped DEF Init
  <2>2. sock \in [Sockets -> Connections] BY <1>1 DEF Init
  <2>3. faults \in 0..MaxFaults /\ kept \subseteq Panes BY DEF Init
  <2>q. QED BY <2>1, <2>2, <2>3 DEF Init, TypeOK
<1>3. \A s \in Sockets : sock[s] = Unused BY DEF Init
<1>4. SocketInv
  <2>1. DOMAIN <<>> = {} /\ Len(<<>>) = 0 OBVIOUS
  <2>q. QED BY <1>3, <2>1 DEF Unused, SocketInv
<1>5. /\ CurrentInv /\ ReadyInv /\ InputInv /\ ClosedInv /\ HiddenInv
      /\ PendingInv
      /\ KeysReachTheScreen /\ ConnectedIsServed /\ ConnectingIsProgress
  BY DEF Init, NoAttempt, PendingInv, CurrentInv, ReadyInv, InputInv,
    ClosedInv, HiddenInv, KeysReachTheScreen, ConnectedIsServed,
    ConnectingIsProgress
<1>6. OneConnection BY <1>3 DEF Unused, Live, OneConnection
<1>q. QED BY <1>2, <1>4, <1>5, <1>6 DEF Inv

LEMMA Steps == Inv /\ [Next]_vars => Inv'
<1> SUFFICES ASSUME Inv, [Next]_vars PROVE Inv'
  OBVIOUS
<1>1. SockTyped /\ AttemptTyped
  BY DEF Inv, TypeOK, SockTyped, AttemptTyped
<1>2. SockTyped' /\ AttemptTyped' /\ CurrentTyped'
  BY <1>1, SocksStep, AttemptsStep, CurrentsStep DEF Inv
<1>q. QED
  BY <1>2, Types, SocketsStep, CurrentStep, ReadyStep, InputStep, ClosedStep,
    HiddenStep, PendingStep, Tracks, Keys, Serves, Progresses DEF Inv

LEMMA Invariance == Spec => []Inv
BY Starts, Steps, PTL DEF Spec

\* The variables of a terminal have their types, whatever messages, close
\* events and timers of earlier sockets do to them (usePaneViewModel).
THEOREM TypeCorrectness == Spec => []TypeOK
<1>1. Inv => TypeOK BY DEF Inv
<1>q. QED BY Invariance, <1>1, PTL

\* Every open connection is the current one or on its way out, however
\* attempts, pane switches and the app's background interleave (connect,
\* closeNetworkSocket, detachSocketAndWait).
THEOREM NoConnectionIsLostTrackOf == Spec => []OneConnection
<1>1. Inv => OneConnection BY DEF Inv
<1>q. QED BY Invariance, <1>1, PTL

\* Input is only attached to the connection of the pane on the screen, and
\* only once the daemon serves it (createTerminalInputQueue).
THEOREM InputReachesTheScreen == Spec => []KeysReachTheScreen
<1>1. Inv => KeysReachTheScreen BY DEF Inv
<1>q. QED BY Invariance, <1>1, PTL

\* A paste that was asked on one connection is never sent on another: input
\* goes to the current socket, and that is for the pane on the screen.
THEOREM PastesStay == Spec => []PasteStays
<1>1. Inv => PasteStays
  BY DEF Inv, TypeOK, ReadyInv, CurrentInv, Live, PasteStays, PastedTo,
    PasteCurrent
<1>q. QED BY Invariance, <1>1, PTL

\* So all input goes where its user saw it go.
THEOREM InputIsNotMisled == Spec => []InputReachesItsPane
BY InputReachesTheScreen, PastesStay, PTL DEF InputReachesItsPane

\* A terminal that was detached, or whose session ended, stays closed until
\* the user asks for it (terminalClosedRef).
THEOREM ClosedUntilAsked == Spec => []ClosedStaysClosed
<1>1. Inv => ClosedStaysClosed BY DEF Inv, ClosedInv, ClosedStaysClosed
<1>q. QED BY Invariance, <1>1, PTL

\* "Connected" and "connecting" mean what they say of a terminal on the screen,
\* up to the attempts that were outdated while they awaited a detach (stranded).
\* A cleanup leaves the status alone, so a view whose pane vanished is excepted.
THEOREM StatusIsTrue == Spec => []StatusIsHonest
<1>1. Inv => StatusIsHonest BY DEF Inv, StatusIsHonest
<1>q. QED BY Invariance, <1>1, PTL
=============================================================================
