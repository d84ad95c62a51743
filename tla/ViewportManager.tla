--------------------------- MODULE ViewportManager ---------------------------
(***************************************************************************)
(* packages/infrastructure/src/terminal/viewport-manager.ts and the window *)
(* commands of tmux.ts: how a phone borrows a tmux window from a desktop.  *)
(*                                                                         *)
(* There is one window.  Every handler of the manager runs to its end      *)
(* without waiting, so it is one action; only waitForClient waits, between *)
(* Prepare and Attach.  A handler is a sequence of tmux commands, any of   *)
(* which may throw: the action then stops after a prefix of them.  A       *)
(* command throws when its pane is gone, or when tmux fails by itself, at  *)
(* most MaxFailures times.                                                 *)
(*                                                                         *)
(* Sizes are within the bounds clampViewportSize and isValidClientSize     *)
(* ask for.  The order of list-clients is arbitrary.  Until MaxFailures    *)
(* commands threw, those whose failure the code swallows (the flags and    *)
(* the list of the clients) may fail as well, and are not counted.         *)
(***************************************************************************)
EXTENDS Naturals, Sequences, FiniteSets

CONSTANTS
  Desktops,     \* tmux clients on the session of the window
  OwnFlag,      \* those whose user set the active-pane flag
  Panes,        \* the panes of the window
  Shapes,       \* its layouts
  Sizes,        \* sizes of phones and desktops
  UserPolicy,   \* window-size and mouse option of the window, and whether
  UserMouse,    \*   it is zoomed, before any phone comes
  UserZoomed,
  None,
  MaxFailures,  \* bound on tmux commands that fail by themselves
  Events        \* what an instance lets phones and users do

ASSUME OptionsAssumption ==
  /\ UserPolicy \in {"latest", "largest", "smallest", "manual"}
  /\ UserMouse \in {"on", "off"} /\ UserZoomed \in BOOLEAN
ASSUME SizesAssumption == Sizes \subseteq Nat /\ IsFiniteSet(Sizes)
ASSUME DesktopsAssumption == OwnFlag \subseteq Desktops /\ None \notin Desktops
ASSUME FailuresAssumption == MaxFailures \in Nat
ASSUME EventsAssumption ==
  Events \subseteq {"claim", "close", "dispose", "focus", "hook", "move",
                   "reshape", "resize"}

VARIABLES
  win,          \* the tmux window
  panes,        \* its panes
  client,       \* the desktop clients of tmux
  lease,        \* the LeaseRecord of the window, or None
  disposed,
  failures      \* commands that failed so far

vars == <<win, panes, client, lease, disposed, failures>>

Windows == [size : Sizes, shape : Shapes, zoomed : BOOLEAN, active : Panes,
            policy : {"latest", "largest", "smallest", "manual"},
            mouse : {"on", "off"}]

Views == [name : Desktops, size : Sizes, focused : BOOLEAN]

\* `client' is the stage from which mobileClient is set, `attached' the one
\* from which the session has the lease.
Leases == [stage : {"prepared", "client", "attached"}, pane : Panes,
           snap : Windows, owner : {"mobile", "desktop"}, mobile : Sizes,
           latest : Views \cup {None},
           saved : [Desktops -> {"none", "on", "off"}],
           seen : (Sizes \X Shapes) \cup {None}, quiet : BOOLEAN]

\* Nothing is told apart from everything that can be there.
ASSUME NoneAssumption ==
  None \notin Leases /\ None \notin Views /\ None \notin Sizes

TypeOK ==
  /\ win \in Windows
  /\ panes \in SUBSET Panes
  /\ client \in [Desktops -> [here : BOOLEAN, size : Sizes, focused : BOOLEAN,
                              flag : BOOLEAN]]
  /\ lease \in Leases \cup {None}
  /\ disposed \in BOOLEAN
  /\ failures \in 0..MaxFailures

Init ==
  /\ win \in {w \in Windows : /\ w.policy = UserPolicy /\ w.mouse = UserMouse
                              /\ w.zoomed = UserZoomed}
  /\ panes = Panes
  /\ client \in [Desktops -> [here : BOOLEAN, size : Sizes, focused : {FALSE},
                              flag : BOOLEAN]]
  /\ \A d \in Desktops : client[d].flag = (d \in OwnFlag)
  /\ lease = None
  /\ disposed = FALSE
  /\ failures = 0

-----------------------------------------------------------------------------
(* tmux *)

Here == {d \in Desktops : client[d].here}
View(d) == [name |-> d, size |-> client[d].size, focused |-> client[d].focused]

\* A command, as [do, arg].
Mouse(m)  == [do |-> "mouse", arg |-> m]
Policy(p) == [do |-> "policy", arg |-> p]
Resize(z) == [do |-> "resize", arg |-> z]
Layout(s) == [do |-> "layout", arg |-> s]
Select(p) == [do |-> "select", arg |-> p]
Zoom(p)   == [do |-> "zoom", arg |-> p]
Read(p)   == [do |-> "read", arg |-> p]     \* snapshotWindow
Fit(p)    == [do |-> "fit", arg |-> p]      \* resize-window -A, -a

ClientSizes == {client[d].size : d \in Here}
  \cup (IF lease # None /\ lease.stage # "prepared" THEN {lease.mobile} ELSE {})
Largest == CHOOSE z \in ClientSizes : \A y \in ClientSizes : y <= z
Smallest == CHOOSE z \in ClientSizes : \A y \in ClientSizes : z <= y
FittedSize(policy, size) ==
  IF ClientSizes = {} THEN size
  ELSE IF policy = "largest" THEN Largest ELSE Smallest

\* resize-window makes the window-size option manual by itself.
Apply(w, k) ==
  CASE k.do = "mouse"  -> [w EXCEPT !.mouse = k.arg]
    [] k.do = "policy" -> [w EXCEPT !.policy = k.arg]
    [] k.do = "resize" -> [w EXCEPT !.size = k.arg, !.policy = "manual"]
    [] k.do = "layout" -> [w EXCEPT !.shape = k.arg, !.zoomed = FALSE]
    [] k.do = "select" -> [w EXCEPT !.active = k.arg,
                                    !.zoomed = w.zoomed /\ w.active = k.arg]
    [] k.do = "zoom"   -> [w EXCEPT !.zoomed = ~@]
    [] k.do = "fit"    -> [w EXCEPT !.size = FittedSize(k.arg, w.size),
                                    !.policy = "manual"]
    [] OTHER           -> w

\* Commands on a pane that is gone throw.
Possible(k) == k.do \in {"select", "zoom", "read"} => k.arg \in panes

\* The window w after each number of commands.
Stages(w, cmds) ==
  LET after[i \in 0..Len(cmds)] ==
        IF i = 0 THEN w ELSE Apply(after[i - 1], cmds[i])
  IN after

\* All ways a sequence of commands may end on window w after f failures.
Ends(w, cmds, f) ==
  LET reach == {n \in 0..Len(cmds) : \A i \in 1..n : Possible(cmds[i])}
      stop(n) == n = Len(cmds) \/ ~Possible(cmds[n + 1])
  IN {[win |-> Stages(w, cmds)[n], done |-> n = Len(cmds),
       fails |-> IF stop(n) THEN f ELSE f + 1] :
        n \in {m \in reach : stop(m) \/ f < MaxFailures}}

\* restoreWindowSize; the code skips the option of a manual window.
RestoreSize(s, preferred) ==
  CASE s.policy = "manual" -> <<Resize(s.size)>>
    [] s.policy = "latest" ->
         <<Resize(IF preferred = None THEN s.size ELSE preferred),
           Policy("latest")>>
    [] OTHER -> <<Fit(s.policy), Policy(s.policy)>>

\* restoreSnapshot
Restore(s, preferred) ==
  <<Layout(s.shape), Select(s.active)>>
    \o (IF s.zoomed THEN <<Zoom(s.active)>> ELSE <<>>)
    \o RestoreSize(s, preferred) \o <<Mouse(s.mouse)>>
-----------------------------------------------------------------------------
(* The parts of the handlers, as the sets of their possible results *)

Nothing == [d \in Desktops |-> "none"]

\* protectDesktopClients on lease l: a failure leaves some of them out, the
\* first of which may already count as protected.
Protected(l, f) ==
  {[lease |-> [l EXCEPT !.quiet = TRUE,
                        !.saved = [d \in Desktops |->
                           IF d \in S[1] /\ @[d] = "none"
                           THEN IF client[d].flag THEN "on" ELSE "off"
                           ELSE @[d]]],
    client |-> [d \in Desktops |->
                  IF d \in S[2] THEN [client[d] EXCEPT !.flag = TRUE]
                                ELSE client[d]]] :
     S \in IF f = MaxFailures THEN {<<Here, Here>>}
           ELSE {T \in (SUBSET Here) \X (SUBSET Here) :
                   T[2] \subseteq T[1] /\ Cardinality(T[1] \ T[2]) <= 1}}

\* restoreDesktopClientFlags, with the flags saved in l; failures are ignored.
Unflagged(l, cl, f) ==
  {[d \in Desktops |-> IF d \in S THEN [cl[d] EXCEPT !.flag = FALSE] ELSE cl[d]] :
     S \in LET ours == {d \in Desktops : l.saved[d] = "off"}
           IN IF f < MaxFailures THEN SUBSET ours ELSE {ours}}

\* Mutant: the phone's own client is not told apart.
RememberedAny(f) ==
  {View(d) : d \in Here} \cup {[name |-> None, size |-> win.size, focused |-> FALSE]}

\* rememberLatestDesktop
Remembered(f) ==
  {View(d) : d \in Here} \cup (IF Here = {} \/ f < MaxFailures THEN {None} ELSE {})

\* The commands of reconcileMobileViewport, for the current window w.
Mobilize(l, w, size) ==
  <<Mouse("on"), Policy("manual"), Read(l.pane)>>
    \o (IF w.size # size THEN <<Resize(size)>> ELSE <<>>)
    \o (IF w.zoomed /\ w.active # l.pane THEN <<Layout(w.shape)>> ELSE <<>>)
    \o (IF w.zoomed /\ w.active = l.pane THEN <<>>
        ELSE <<Select(l.pane), Zoom(l.pane)>>)

\* What reconcileMobileViewport remembers of the window its commands left.
Saw(l, e) ==
  {[l EXCEPT !.seen = <<e.win.size, e.win.shape>>]}
    \cup (IF e.fails < MaxFailures THEN {[l EXCEPT !.seen = None]} ELSE {})

\* After the commands on the window, the calls on the mobile client may still
\* throw.
Settled(l, e, f) ==
  IF ~e.done
  THEN {[lease |-> l, win |-> e.win, done |-> FALSE, fails |-> e.fails]}
  ELSE {[lease |-> [x EXCEPT !.latest = v], win |-> e.win, done |-> TRUE,
         fails |-> e.fails] : x \in Saw(l, e), v \in Remembered(f)}
       \cup {[lease |-> x, win |-> e.win, done |-> FALSE, fails |-> e.fails + 1] :
               x \in IF l.stage = "prepared" \/ e.fails = MaxFailures THEN {}
                     ELSE Saw(l, e)}

\* reconcileMobileViewport: the phone's size, its pane zoomed.
Reconciled(l, w, size, f) ==
  LET begun == [l EXCEPT !.quiet = TRUE, !.owner = "mobile", !.mobile = size]
  IN UNION {Settled(begun, e, f) : e \in Ends(w, Mobilize(l, w, size), f)}

\* claimDesktop when the desktop has the window: another client or size.
Followed(l, d, f) ==
  LET same == /\ l.latest # None
              /\ l.latest.name = d /\ l.latest.size = client[d].size
  IN {[lease |-> [l EXCEPT !.latest = View(d)], win |-> e.win, client |-> client,
       fails |-> e.fails] :
        e \in Ends(win, IF same THEN <<>>
                        ELSE <<Policy("manual"), Resize(client[d].size)>>, f)}

\* The commands with which claimDesktop undoes the phone's view.  A client
\* that was given the active-pane flag has the pane of the snapshot.
GiveBack(l, d) ==
  LET pane == IF l.saved[d] # "none" THEN l.snap.active ELSE win.active
  IN <<Read(l.pane)>> \o
     IF l.snap.zoomed /\ pane = l.snap.active
     THEN Restore(l.snap, client[d].size)
     ELSE <<Layout(win.shape), Select(pane), Mouse(l.snap.mouse)>>

\* Mutant: the clients keep the active-pane flag.
TakenWithFlags(l, d, f) ==
  LET ends == Ends(win, GiveBack(l, d), f)
      desktops == [l EXCEPT !.owner = "desktop", !.latest = View(d),
                            !.saved = Nothing]
  IN {[lease |-> l, win |-> e.win, client |-> client, fails |-> e.fails] :
        e \in {x \in ends : ~x.done}}
     \cup UNION {{[lease |-> desktops, win |-> z.win, client |-> client,
                   fails |-> z.fails] :
                    z \in Ends(e.win, <<Policy("manual"), Resize(client[d].size)>>,
                               e.fails)} : e \in {x \in ends : x.done}}

\* claimDesktop when the phone has the window.
Taken(l, d, f) ==
  LET ends == Ends(win, GiveBack(l, d), f)
      desktops == [l EXCEPT !.owner = "desktop", !.latest = View(d),
                            !.saved = Nothing]
  IN {[lease |-> l, win |-> e.win, client |-> client, fails |-> e.fails] :
        e \in {x \in ends : ~x.done}}
     \cup UNION {{[lease |-> desktops, win |-> z.win, client |-> k,
                   fails |-> z.fails] :
                    z \in Ends(e.win, <<Policy("manual"), Resize(client[d].size)>>,
                               e.fails),
                    k \in Unflagged(l, client, f)} : e \in {x \in ends : x.done}}

ClaimedByDesktop(l, d, f) ==
  IF l.owner = "desktop" THEN Followed(l, d, f) ELSE Taken(l, d, f)

\* Mutant: the old layout is put back over the desktop's.
ReleasedToSnapshot(l, w, cl, f) ==
  UNION {{[win |-> e.win, client |-> k, fails |-> e.fails] :
            k \in IF e.done THEN Unflagged(l, cl, f) ELSE {cl}} :
         e \in Ends(w, Restore(l.snap, None), f)}

\* The restoration of releaseRecord, and of a prepare that failed.
Released(l, w, cl, f) ==
  LET cmds == IF l.owner = "mobile" THEN Restore(l.snap, None)
              ELSE <<Policy(l.snap.policy), Mouse(l.snap.mouse)>>
  IN UNION {{[win |-> e.win, client |-> k, fails |-> e.fails] :
               k \in IF e.done THEN Unflagged(l, cl, f) ELSE {cl}} :
            e \in Ends(w, cmds, f)}
-----------------------------------------------------------------------------
(* The handlers *)

\* Mutant: a window that is only prepared counts as well.
Leased == lease # None

\* The mobile client of the lease is known.
Attached == lease # None /\ lease.stage # "prepared"

Owner == IF lease = None THEN "desktop" ELSE lease.owner

\* The primed state of a handler with result r.
Becomes(r) ==
  /\ lease' = r.lease /\ win' = r.win /\ client' = r.client
  /\ failures' = r.fails
  /\ UNCHANGED <<panes, disposed>>

\* releaseRecord; without a lease there is nothing to release.
Freed(l, w, cl, f) ==
  {[lease |-> None, win |-> r.win, client |-> r.client, fails |-> r.fails] :
     r \in Released(l, w, cl, f)}

\* prepare, for the phone's size: on a failure the window is put back.
Prepare(p, size) ==
  /\ lease = None /\ ~disposed /\ p \in panes
  /\ LET fresh == [stage |-> "prepared", pane |-> p, snap |-> win,
                   owner |-> "mobile", mobile |-> size, latest |-> None,
                   saved |-> Nothing, seen |-> None, quiet |-> FALSE]
     IN \E t \in Protected(fresh, failures) :
        \E r \in Reconciled(t.lease, win, size, failures) :
          IF r.done
          THEN Becomes([lease |-> r.lease, win |-> r.win, client |-> t.client,
                        fails |-> r.fails])
          ELSE \E x \in Freed(r.lease, r.win, t.client, r.fails) : Becomes(x)

\* reconcileMobileViewport after protectDesktopClients.
Grab(l, size, stage) ==
  \E t \in Protected(l, failures) :
  \E r \in Reconciled(t.lease, win, size, failures) :
    Becomes([lease |-> IF r.done THEN [r.lease EXCEPT !.stage = stage] ELSE r.lease,
             win |-> r.win, client |-> t.client, fails |-> r.fails])

\* attach, once waitForClient found the client of the PTY.  When it throws,
\* the session releases the lease.
Attach(size) ==
  /\ lease # None /\ lease.stage = "prepared"
  /\ Grab([lease EXCEPT !.stage = "client"], size, "attached")

\* Mutant: the size is remembered, never applied.
MeasuredOnly(size) ==
  Becomes([lease |-> [lease EXCEPT !.mobile = size], win |-> win,
           client |-> client, fails |-> failures])

\* The size the phone reports: resizeMobile.  It is applied at once only if
\* the phone has the window.
Measured(size) ==
  LET l == [lease EXCEPT !.mobile = size] IN
  IF lease.owner = "desktop" \/ size = lease.mobile
  THEN Becomes([lease |-> l, win |-> win, client |-> client, fails |-> failures])
  ELSE \E r \in Reconciled(l, win, size, failures) :
         Becomes([lease |-> r.lease, win |-> r.win, client |-> client,
                  fails |-> r.fails])

ResizeMobile(size) ==
  /\ lease # None /\ lease.stage = "attached"
  /\ Measured(size)

\* claimMobile; without a size it is the claim that goes with every input.
\* A claim of a desktop's window takes a new snapshot of it.
ClaimMobile(size) ==
  /\ "claim" \in Events
  /\ lease # None /\ lease.stage = "attached"
  /\ IF lease.owner = "mobile"
     THEN size # None /\ Measured(size)
     ELSE LET again == [lease EXCEPT !.snap = win] IN
          \/ /\ Possible(Read(lease.pane))
             /\ Grab([again EXCEPT !.owner = "mobile"],
                     IF size = None THEN lease.mobile ELSE size, "attached")
          \/ /\ failures < MaxFailures      \* capturePaneLayout throws
             /\ Becomes([lease |-> again, win |-> win, client |-> client,
                         fails |-> failures + 1])

\* reassertMobileViewport, after muximo split the window.
Reassert ==
  /\ lease # None /\ lease.owner = "mobile"
  /\ \E r \in Reconciled(lease, win, lease.mobile, failures) :
       Becomes([lease |-> r.lease, win |-> r.win, client |-> client,
                fails |-> r.fails])

\* What returnToDesktop does without a desktop client that takes the window.
FellBack(l, w, cl, f) ==
  UNION {IF e.done
         THEN {[lease |-> [l EXCEPT !.owner = "desktop", !.latest = None,
                                    !.saved = Nothing],
                win |-> e.win, client |-> k, fails |-> e.fails] :
                 k \in Unflagged(l, cl, f)}
         ELSE {[lease |-> l, win |-> e.win, client |-> cl, fails |-> e.fails]} :
         e \in Ends(w, Restore(l.snap, None), f)}

ReturnToDesktop ==
  /\ lease # None /\ lease.stage = "attached" /\ lease.owner = "mobile"
  /\ \/ \E d \in Here :
        \E r \in Taken(lease, d, failures) :
          IF r.lease.owner = "desktop" THEN Becomes(r)
          ELSE \E x \in FellBack(r.lease, r.win, r.client, r.fails) : Becomes(x)
     \/ /\ Here = {} \/ failures < MaxFailures
        /\ \E x \in FellBack(lease, win, client, failures) : Becomes(x)

\* release of the lease or of a preparation, and the client-detached hook of
\* the mobile client.
Release ==
  /\ lease # None
  /\ \E r \in Freed(lease, win, client, failures) : Becomes(r)

Dispose ==
  /\ "dispose" \in Events /\ ~disposed
  /\ \E r \in IF lease = None
              THEN {[lease |-> None, win |-> win, client |-> client,
                     fails |-> failures]}
              ELSE Freed(lease, win, client, failures) :
       /\ lease' = r.lease /\ win' = r.win /\ client' = r.client
       /\ failures' = r.fails
  /\ disposed' = TRUE
  /\ UNCHANGED panes

\* Which events of a desktop client are input of its user: `advanced' says
\* that its activity is later than what was remembered.
HookCounts(d, event, advanced) ==
  CASE event = "client-active" ->
         /\ client[d].focused
         /\ lease.latest # None
              => advanced \/ lease.latest.name # d \/ ~lease.quiet
    [] event \in {"client-focus-in", "client-resized"} -> ~lease.quiet
    [] OTHER -> TRUE

\* handleTmuxHook for a desktop client in the window.
Hook(d, event, advanced) ==
  /\ "hook" \in Events
  /\ ~disposed /\ Attached /\ d \in Here
  /\ HookCounts(d, event, advanced)
  /\ IF event = "client-active" /\ lease.latest = None
     THEN Becomes([lease |-> [lease EXCEPT !.latest = View(d)], win |-> win,
                   client |-> client, fails |-> failures])
     ELSE \E r \in ClaimedByDesktop(lease, d, failures) : Becomes(r)

\* findStableDesktopClient
Stable ==
  LET focused == {d \in Here : client[d].focused} IN
  IF lease.latest # None /\ lease.latest.name \in Here THEN {lease.latest.name}
  ELSE IF focused # {} THEN focused ELSE Here

\* What the poll takes for activity of the desktop.
Changed(d) ==
  \/ lease.latest # None => \/ lease.latest.focused # client[d].focused
                            \/ lease.latest.size # client[d].size
  \/ /\ lease.seen # None /\ Possible(Read(lease.pane))
     /\ lease.seen # <<win.size, win.shape>>

PollTakes(d) ==
  /\ lease.owner = "mobile" /\ ~lease.quiet /\ Changed(d)
  /\ \E r \in Taken(lease, d, failures) : Becomes(r)

\* Mutant: the new size is remembered, and the window left as it is.
PollRemembers(d) ==
  /\ lease.owner = "desktop"
  /\ lease.latest # None /\ lease.latest.name = d
  /\ lease.latest.size # client[d].size
  /\ Becomes([lease |-> [lease EXCEPT !.latest = View(d)], win |-> win,
              client |-> client, fails |-> failures])

PollFollows(d) ==
  /\ lease.owner = "desktop"
  /\ lease.latest # None /\ lease.latest.name = d
  /\ lease.latest.size # client[d].size
  /\ \E e \in Ends(win, <<Resize(client[d].size)>>, failures) :
       Becomes([lease |-> [lease EXCEPT !.latest = View(d)], win |-> e.win,
                client |-> client, fails |-> e.fails])

\* pollDesktopClients
Poll ==
  /\ ~disposed /\ Attached
  /\ \E d \in Stable : PollTakes(d) \/ PollFollows(d)

\* 250 ms after the last command.
QuietEnds ==
  /\ lease # None /\ lease.quiet
  /\ lease' = [lease EXCEPT !.quiet = FALSE]
  /\ UNCHANGED <<win, panes, client, disposed, failures>>

Handlers ==
  \/ \E z \in Sizes : \/ \E p \in Panes : Prepare(p, z)
                      \/ Attach(z) \/ ResizeMobile(z)
  \/ \E z \in Sizes \cup {None} : ClaimMobile(z)
  \/ ReturnToDesktop \/ Release \/ Dispose \/ Reassert \/ Poll \/ QuietEnds
  \/ \E d \in Desktops, advanced \in BOOLEAN,
        event \in {"client-attached", "client-active", "client-resized",
                   "client-focus-in"} : Hook(d, event, advanced)
-----------------------------------------------------------------------------
(* The users of the desktop clients, and tmux *)

Sees(d, c) ==
  /\ client[d] # c /\ client' = [client EXCEPT ![d] = c]
  /\ UNCHANGED <<win, panes, lease, disposed, failures>>

\* A desktop client moves to the window, or to another one of its session.
DesktopMoves(d) ==
  "move" \in Events /\ Sees(d, [client[d] EXCEPT !.here = ~@])

DesktopFocus(d) ==
  "focus" \in Events /\ Sees(d, [client[d] EXCEPT !.focused = ~@])

DesktopResizes(d, z) ==
  "resize" \in Events /\ Sees(d, [client[d] EXCEPT !.size = z])

\* A user at a desktop changes the layout and selects a pane: both unzoom.
UserReshapes(s, p) ==
  /\ "reshape" \in Events /\ Here # {} /\ p \in panes
  /\ win' = [win EXCEPT !.shape = s, !.active = p, !.zoomed = FALSE]
  /\ win' # win
  /\ UNCHANGED <<panes, client, lease, disposed, failures>>

\* The program of a pane ends: tmux closes the pane.
PaneCloses(p, s) ==
  /\ "close" \in Events /\ p \in panes /\ panes # {p}
  /\ panes' = panes \ {p}
  /\ win' = [win EXCEPT !.shape = s, !.zoomed = FALSE,
                        !.active = IF @ = p THEN CHOOSE x \in panes' : TRUE ELSE @]
  /\ UNCHANGED <<client, lease, disposed, failures>>

\* A window without a manual size follows its clients.
Follow ==
  /\ win.policy # "manual" /\ ClientSizes # {}
  /\ \E z \in IF win.policy = "latest" THEN ClientSizes
              ELSE {FittedSize(win.policy, win.size)} :
       z # win.size /\ win' = [win EXCEPT !.size = z]
  /\ UNCHANGED <<panes, client, lease, disposed, failures>>

Environment ==
  \/ \E d \in Desktops : \/ DesktopMoves(d) \/ DesktopFocus(d)
                         \/ \E z \in Sizes : DesktopResizes(d, z)
  \/ \E s \in Shapes, p \in Panes : UserReshapes(s, p) \/ PaneCloses(p, s)
  \/ Follow

Next == Handlers \/ Environment

Spec == Init /\ [][Next]_vars

\* The interval of startMonitor, and the end of the quiet time.
FairSpec == Spec /\ WF_vars(Poll) /\ WF_vars(QuietEnds)
-----------------------------------------------------------------------------
(* Properties *)

DesktopHas == lease = None \/ lease.owner = "desktop"

\* Whatever the order of takeovers, claims, resizes and reconnections was,
\* a window that the desktop has again (taken over, handed back or released)
\* has the mouse option of its user, and is not left zoomed on the pane of
\* the phone (claimDesktop, returnToDesktop, releaseRecord).
WindowHandedBack ==
  DesktopHas => /\ win.mouse = UserMouse
                /\ win.zoomed => UserZoomed

\* Then no client keeps the active-pane flag the phone gave it, and none
\* loses one its user had set (protectDesktopClients, which may run many
\* times during a lease, against restoreDesktopClientFlags).
ClientsHandedBack ==
  DesktopHas => \A d \in Desktops : client[d].flag = (d \in OwnFlag)

\* What the phone borrows of a window and of its clients goes back with it.
HandedBack == WindowHandedBack /\ ClientsHandedBack

\* A window the desktop took over has the size of the client that took it,
\* or follows its clients by itself: reports of the phone's size, polls and
\* hooks leave it so.
DesktopSized ==
  lease # None /\ lease.owner = "desktop" /\ lease.latest # None
    => win.policy # "manual" \/ win.size = lease.latest.size

\* While the phone has the window, it has the size the phone last asked for,
\* and does not follow the desktop clients.
PhoneSized ==
  lease # None /\ lease.owner = "mobile"
    => win.policy = "manual" /\ win.size = lease.mobile /\ win.mouse = "on"

\* Whoever has the window has it in a size that it can use.
OwnerSized == DesktopSized /\ PhoneSized

\* "A desktop takeover is authoritative": while the desktop has the window
\* and until the phone claims it, no handler touches its layout, its active
\* pane or its zoom, and releasing the lease does not either (releaseRecord).
DesktopLayoutStays ==
  [][lease # lease' /\ Owner = "desktop"
       /\ (lease' = None \/ lease'.owner = "desktop")
     => /\ win'.shape = win.shape /\ win'.active = win.active
        /\ win'.zoomed = win.zoomed]_vars

\* When the client the window belongs to is resized, the window gets its size,
\* unless the phone or another client takes it or the client leaves: the hook
\* may be lost, the poll does it (pollDesktopClients).
DesktopFollowed ==
  \A d \in Desktops :
    (Attached /\ lease.owner = "desktop" /\ lease.latest # None
       /\ lease.latest.name = d /\ d \in Here)
    ~> \/ win.size = client[d].size
       \/ disposed \/ ~DesktopHas \/ lease = None
       \/ lease.latest = None \/ lease.latest.name # d \/ d \notin Here

\* Nobody has the window: its size option is the one its user had set.
PolicyRestored == lease = None => win.policy = UserPolicy

\* The manager implements the lease that TerminalSession relies on, failures
\* of any of its commands included.
Lease == INSTANCE ViewportLease WITH
  Windows <- {"window"}, Clients <- {"phone"}, NoClient <- "nobody",
  holder <- [w \in {"window"} |-> IF lease = None THEN "nobody" ELSE "phone"],
  live <- IF lease # None /\ lease.stage # "prepared" THEN {"window"} ELSE {},
  owner <- [w \in {"window"} |-> IF lease = None THEN "mobile" ELSE lease.owner]
LeaseSpec == Lease!Spec
=============================================================================
