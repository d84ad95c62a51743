--------------------------- MODULE EventDelivery ---------------------------
(***************************************************************************)
(* How a change in tmux reaches the screen of a phone.  The daemon polls   *)
(* tmux (TmuxStateMonitor), compares with the last snapshot and publishes  *)
(* an event per changed session; a subscriber has room for one event that  *)
(* it has not read.  One web client shares an event stream among its views *)
(* (muximod-event-coordinator.ts) and fetches again whatever an event or a *)
(* new stream invalidates.  Events carry no data, so what matters is that  *)
(* a page that shows something old is always owed a fetch.                 *)
(*                                                                         *)
(* The reads of tmux and the writes of its panes to SQLite are synchronous *)
(* behind their promises, so a whole reconcile is one action.              *)
(***************************************************************************)
EXTENDS Naturals

CONSTANTS
  Sessions,    \* tmux sessions; each has a page (a query) of the client
  Agents,      \* the sessions in which a pane runs an agent
  Contents,    \* what a session's panes, or its agent, can look like
  Streams,     \* ids of event streams; an id is used again once it is free
  Gone,        \* no tmux server, or a page that says so
  None,
  MaxViewers,  \* views of the client mounted at a time
  MaxChanges,  \* bound on what happens to tmux
  MaxTroubles  \* bound on failing requests, streams and daemons, and on
               \*   how often views are mounted

ASSUME AgentsAssumption == Agents \subseteq Sessions
ASSUME ContentsAssumption == Contents # {}
ASSUME BoundsAssumption ==
  {MaxViewers, MaxChanges, MaxTroubles} \subseteq Nat

VARIABLES
  tmux,     \* what runs now: a cell per session, or Gone
  servers,  \* tmux servers so far: their panes all differ
  baseline, \* previous: the snapshot of the last comparison, None before it
  synced,   \* lastSuccessfulLiveFingerprint
  sub,      \* streams the daemon has a subscriber for
  pending,  \* per stream, the events that the client has not got
  phase,    \* where connect() is with a stream
  live,     \* the streams of the current generation
  timer,    \* reconnectTimer is set
  refused,  \* an error of this generation after which nobody reconnects
  viewers,  \* subscribers.size
  page,     \* per session: the query's fetch and what it shows
  changes, troubles

host == <<tmux, servers, changes>>
monitor == <<baseline, synced>>
client == <<phase, live, timer, refused, viewers>>
vars == <<tmux, servers, changes, baseline, synced, sub, pending, phase,
          live, timer, refused, viewers, page, troubles>>

-----------------------------------------------------------------------------
Cells == [server : Nat \ {0}, panes : Contents, agent : Contents]
Snapshots == [Sessions -> Cells]

Prints == [Sessions -> (Nat \ {0}) \X Contents]

ASSUME NoneAssumption ==
  /\ None # Gone
  /\ None \notin Snapshots \cup Cells \cup Prints
  /\ Gone \notin Snapshots \cup Cells

Phases == {"idle", "opening", "consumed", "closing"}
Fetches == {"idle", "asked", "answered", "failed"}

\* A page: how far its fetch is, the answer under way (got), the cell shown,
\* and whether each of the two may be wrong without anybody knowing (see
\* Unannounced below).
Pages == [at : Fetches, got : Cells \cup {Gone, None}, blind : BOOLEAN,
          cell : Cells \cup {Gone, None}, unsure : BOOLEAN]

NewPage == [at |-> "idle", got |-> None, blind |-> FALSE,
            cell |-> None, unsure |-> FALSE]

TypeOK ==
  /\ tmux \in Snapshots \cup {Gone}
  /\ servers \in Nat \ {0}
  /\ baseline \in Snapshots \cup {None}
  /\ synced \in Prints \cup {None}
  /\ sub \in SUBSET Streams
  /\ pending \in [Streams -> SUBSET Sessions]
  /\ phase \in [Streams -> Phases]
  /\ live \in SUBSET Streams
  /\ timer \in BOOLEAN
  /\ refused \in BOOLEAN
  /\ viewers \in 0..MaxViewers
  /\ page \in [Sessions -> Pages]
  /\ changes \in 0..MaxChanges
  /\ troubles \in 0..MaxTroubles

\* What a new tmux server shows.  Its id and its panes' ids are new, so how
\* they look does not matter.
First == CHOOSE c \in Contents : TRUE
Started(n) ==
  [s \in Sessions |-> [server |-> n, panes |-> First, agent |-> First]]

\* The daemon has just started and found tmux running.  (ServerExits and
\* Restart lead to a daemon that did not.)
Init ==
  /\ tmux = Started(1)
  /\ servers = 1
  /\ baseline = tmux
  /\ synced = [s \in Sessions |-> <<tmux[s].server, tmux[s].panes>>]
  /\ sub = {}
  /\ pending = [s \in Streams |-> {}]
  /\ phase = [s \in Streams |-> "idle"]
  /\ live = {}
  /\ timer = FALSE
  /\ refused = FALSE
  /\ viewers = 0
  /\ page = [s \in Sessions |-> NewPage]
  /\ changes = 0 /\ troubles = 0

-----------------------------------------------------------------------------
(* tmux and its users: no code of this repository.                          *)

Changes == changes < MaxChanges /\ changes' = changes + 1
Troubles == troubles < MaxTroubles /\ troubles' = troubles + 1

PanesChange(s) ==
  /\ Changes
  /\ tmux # Gone
  /\ \E c \in Contents \ {tmux[s].panes} : tmux' = [tmux EXCEPT ![s].panes = c]
  /\ UNCHANGED <<servers, baseline, synced, sub, pending, client, page, troubles>>

AgentMoves(s) ==
  /\ Changes
  /\ tmux # Gone
  /\ \E c \in Contents \ {tmux[s].agent} : tmux' = [tmux EXCEPT ![s].agent = c]
  /\ UNCHANGED <<servers, baseline, synced, sub, pending, client, page, troubles>>

ServerExits ==
  /\ Changes
  /\ tmux # Gone
  /\ tmux' = Gone
  /\ servers' = servers + 1
  /\ UNCHANGED <<baseline, synced, sub, pending, client, page, troubles>>

ServerStarts ==
  /\ Changes
  /\ tmux = Gone
  /\ tmux' = Started(servers)
  /\ UNCHANGED <<servers, baseline, synced, sub, pending, client, page, troubles>>

-----------------------------------------------------------------------------
(* The daemon.                                                              *)

\* liveSnapshotFingerprint: of what list-panes prints.  What an agent does is
\* seen only by observing it.
Live == [s \in Sessions |-> <<tmux[s].server, tmux[s].panes>>]

\* requiresDynamicSynchronization: a pane runs an agent.
Dynamic == Agents # {}

\* Mutant: agents are not observed while list-panes prints the same.
ShouldSynchronizeOnChange == baseline = None \/ synced # Live

ShouldSynchronize ==
  \/ baseline = None
  \/ synced # Live
  \/ Dynamic

Diff == {s \in Sessions : baseline[s] # tmux[s]}

\* publish, once per changed session.  A subscriber keeps the last event until
\* its response reads it; which of those before it were read in time is open.
Kept(unread, named) ==
  {kept \in SUBSET (unread \cup named) : kept \cap named # {}}

Published(named) ==
  IF named = {} THEN UNCHANGED pending
  ELSE /\ pending' \in [Streams -> SUBSET Sessions]
       /\ \A s \in Streams : IF s \in sub THEN pending'[s] \in Kept(pending[s], named)
                            ELSE pending'[s] = pending[s]

\* reconcile finds no server: nothing is compared and nothing is said.
PollFindsNone ==
  /\ tmux = Gone
  /\ synced # None
  /\ synced' = None
  /\ UNCHANGED <<host, baseline, sub, pending, client, page, troubles>>

\* reconcile synchronizes.  The first time there is nothing to compare with.
\* Otherwise (a heartbeat, or a synchronization that throws) the monitor keeps
\* what it had.
Poll ==
  /\ tmux # Gone
  /\ ShouldSynchronize
  /\ baseline' = tmux
  /\ synced' = Live
  /\ IF baseline = None THEN UNCHANGED pending ELSE Published(Diff)
  /\ UNCHANGED <<host, sub, client, page, troubles>>

\* The daemon stops or dies and is started again: start() polls at once.
Restart ==
  /\ Troubles
  /\ IF tmux = Gone THEN baseline' = None /\ synced' = None
     ELSE baseline' = tmux /\ synced' = Live
  /\ sub' = {}
  /\ pending' = [s \in Streams |-> {}]
  /\ UNCHANGED <<host, client, page>>

\* events.subscribe: the subscriber is there before the answer.
Subscribes(s) ==
  /\ phase[s] = "opening"
  /\ s \notin sub
  /\ sub' = sub \cup {s}
  /\ UNCHANGED <<host, monitor, pending, client, page, troubles>>

\* sessions.list, sessions.get, panes.list: what tmux shows now.
Cell(q) == IF tmux = Gone THEN Gone ELSE tmux[q]

\* The monitor has not seen what is answered: should tmux change back before
\* it polls, it never will.  A monitor that has seen nothing yet will not
\* announce the first thing it sees.
Ahead(q) == \/ baseline = None
            \/ tmux # Gone /\ baseline[q] # tmux[q]

Answer(q) ==
  /\ page[q].at = "asked"
  /\ page' = [page EXCEPT ![q].at = "answered", ![q].got = Cell(q),
                          ![q].blind = Ahead(q)]
  /\ UNCHANGED <<host, monitor, sub, pending, client, troubles>>

-----------------------------------------------------------------------------
(* The web client.                                                          *)

\* Mutant: a stream of an earlier generation counts.
IsActiveIfViewed(s) == viewers > 0

\* isActive: of the current generation, and somebody looks.
IsActive(s) == s \in live /\ viewers > 0

Freed(s) ==
  /\ sub' = sub \ {s}
  /\ pending' = [pending EXCEPT ![s] = {}]

\* A query that is invalidated starts its fetch again, except that its very
\* first fetch is left to run: what it answered may be old by then.
Invalidated(p) ==
  IF p.cell = None /\ p.at \in {"asked", "answered"}
  THEN [p EXCEPT !.blind = (p.at = "answered")]
  ELSE [p EXCEPT !.at = "asked", !.got = None, !.blind = FALSE]

\* Mutant: only the session that the event names is fetched.
ByNamedEvent(event) == [page EXCEPT ![event] = Invalidated(page[event])]

\* invalidateOnMuximodEvent: everything derived from sessions, whichever
\* session the event names.
ByEvent(event) == [q \in Sessions |-> Invalidated(page[q])]

\* invalidateOnReconnect.
ByReconnect == [q \in Sessions |-> Invalidated(page[q])]

\* connect() begins.
Opens(s) ==
  /\ phase[s] = "idle"
  /\ phase' = [phase EXCEPT ![s] = "opening"]

\* A view mounts; the first one starts a generation.  A query without data is
\* fetched.
View ==
  /\ viewers < MaxViewers
  /\ viewers' = viewers + 1
  /\ Troubles
  /\ page' = [q \in Sessions |->
       IF page[q].cell = None /\ page[q].at \in {"idle", "failed"}
       THEN [page[q] EXCEPT !.at = "asked"] ELSE page[q]]
  /\ IF viewers = 0
     THEN \E s \in Streams : Opens(s) /\ live' = {s} /\ refused' = FALSE
     ELSE UNCHANGED <<phase, live, refused>>
  /\ UNCHANGED <<host, monitor, sub, pending, timer>>

\* disconnect(), when the last view unmounts.
Disconnects(left) ==
  IF left = 0
  THEN /\ live' = {}
       /\ timer' = FALSE
       /\ phase' = [s \in Streams |->
             IF phase[s] = "consumed" THEN "closing" ELSE phase[s]]
  ELSE UNCHANGED <<live, timer, phase>>

Leave ==
  /\ viewers > 0
  /\ viewers' = viewers - 1
  /\ Disconnects(viewers - 1)
  /\ UNCHANGED <<host, monitor, sub, pending, refused, page, troubles>>

\* stop() or iterator.return() took effect.
Closed(s) ==
  /\ phase[s] = "closing"
  /\ phase' = [phase EXCEPT ![s] = "idle"]
  /\ Freed(s)
  /\ UNCHANGED <<host, monitor, live, timer, refused, viewers, page, troubles>>

\* open() resolves.
OpenReturns(s) ==
  /\ phase[s] = "opening"
  /\ s \in sub
  /\ IF IsActive(s)
     THEN /\ phase' = [phase EXCEPT ![s] = "consumed"]
          /\ page' = ByReconnect
     ELSE /\ phase' = [phase EXCEPT ![s] = "closing"]
          /\ UNCHANGED page
  /\ UNCHANGED <<host, monitor, sub, pending, live, timer, refused, viewers,
                 troubles>>

\* scheduleReconnect of a stream of the current generation.
Reconnects(s, retriable) ==
  IF IsActive(s)
  THEN /\ live' = live \ {s}
       /\ timer' = (timer \/ retriable)
       /\ refused' = (refused \/ ~retriable)
  ELSE UNCHANGED <<live, timer, refused>>

\* open() fails, or the stream ends with or without an error.  After a restart
\* of the daemon that is sure to happen.
StreamEnds(s) ==
  /\ phase[s] \in {"opening", "consumed"}
  /\ \/ phase[s] = "consumed" /\ s \notin sub /\ UNCHANGED troubles
     \/ Troubles
  /\ phase' = [phase EXCEPT ![s] = "idle"]
  /\ Freed(s)
  /\ \E retriable \in BOOLEAN : Reconnects(s, retriable)
  /\ UNCHANGED <<host, monitor, viewers, page>>

\* reconnectTimer fires.
TimerFires ==
  /\ timer
  /\ timer' = FALSE
  /\ \E s \in Streams : Opens(s) /\ live' = live \cup {s}
  /\ UNCHANGED <<host, monitor, sub, pending, refused, viewers, page, troubles>>

\* onEvent.
Deliver(s) ==
  /\ phase[s] = "consumed"
  /\ \E event \in pending[s] :
       /\ page' = IF IsActive(s) THEN ByEvent(event) ELSE page
       /\ pending' = [pending EXCEPT ![s] = @ \ {event}]
  /\ UNCHANGED <<host, monitor, sub, client, troubles>>

\* The answer arrives.
Arrive(q) ==
  /\ page[q].at = "answered"
  /\ page' = [page EXCEPT ![q] = [at |-> "idle", got |-> None, blind |-> FALSE,
                                  cell |-> page[q].got, unsure |-> page[q].blind]]
  /\ UNCHANGED <<host, monitor, sub, pending, client, troubles>>

\* The request fails and its retries are used up: the page says so.
FetchFails(q) ==
  /\ page[q].at \in {"asked", "answered"}
  /\ Troubles
  /\ page' = [page EXCEPT ![q].at = "failed", ![q].got = None, ![q].blind = FALSE]
  /\ UNCHANGED <<host, monitor, sub, pending, client>>

-----------------------------------------------------------------------------
Next ==
  \/ \E s \in Sessions : PanesChange(s) \/ Answer(s) \/ Arrive(s) \/ FetchFails(s)
  \/ \E s \in Agents : AgentMoves(s)
  \/ ServerExits \/ ServerStarts \/ PollFindsNone \/ Poll \/ Restart
  \/ \E s \in Streams : \/ Subscribes(s) \/ Closed(s) \/ OpenReturns(s)
                        \/ StreamEnds(s) \/ Deliver(s)
  \/ View \/ Leave \/ TimerFires

Spec == Init /\ [][Next]_vars

\* The interval of the monitor and the timer of a reconnection fire; requests,
\* answers and events that do not fail arrive; what was closed ends.
Fairness ==
  /\ WF_vars(Poll)
  /\ WF_vars(TimerFires)
  /\ \A s \in Streams :
       /\ WF_vars(Subscribes(s)) /\ WF_vars(OpenReturns(s)) /\ WF_vars(Closed(s))
       /\ WF_vars(Deliver(s))
       /\ WF_vars(phase[s] = "consumed" /\ s \notin sub /\ StreamEnds(s))
  /\ \A q \in Sessions : WF_vars(Answer(q)) /\ WF_vars(Arrive(q))

FairSpec == Spec /\ Fairness

-----------------------------------------------------------------------------
(* Properties.                                                              *)

\* The monitor will see a difference in this session at its next poll.
WillBeSeen(q) ==
  tmux # Gone /\ baseline # None /\ baseline[q] # tmux[q] /\ ShouldSynchronize

Connected(s) == s \in live /\ phase[s] = "consumed" /\ s \in sub

\* An event is on its way, or the stream that would have brought it is being
\* opened again, which invalidates everything.
WillBeTold ==
  \/ \E s \in live : phase[s] = "consumed" /\ pending[s] # {}
  \/ timer \/ \E s \in live : phase[s] # "consumed" \/ s \notin sub

\* What no event announces: that the last tmux server is gone; and, to a page
\* that read it, a state that the monitor never compared (it was undone before
\* the next poll, or nothing was there when the daemon started), or that an
\* event spoke of during the page's very first fetch.
Unannounced(q) == tmux = Gone \/ page[q].unsure

Stale(q) == page[q].cell # Cell(q)

\* A page that shows something old while somebody looks is being fetched, or
\* the change will be noticed, or the news of it is on its way, however the
\* reads of the monitor, of the pages and the loss of streams interleave
\* (tmux-state.ts, events.ts, muximod-event-coordinator.ts together).
RefreshIsOwed ==
  viewers > 0 /\ ~refused =>
    \A q \in Sessions :
      page[q].at = "idle" /\ Stale(q) /\ ~Unannounced(q) =>
        WillBeSeen(q) \/ WillBeTold

\* The views share one stream: at most one is consumed or opened for the
\* current generation, none beside a timer that will open the next, and what
\* is left of earlier generations never reaches the pages.
OneStream ==
  /\ \A s, t \in live : s = t
  /\ timer => live = {}
  /\ \A s \in Streams : phase[s] = "consumed" => s \in live
  /\ viewers > 0 /\ ~refused => timer \/ live # {}

\* Once tmux, views and network are quiet, every page shows what tmux shows,
\* unless it shows an error or nothing announced the change.
PagesConverge ==
  <>[](viewers > 0 /\ ~refused =>
         \A q \in Sessions :
           page[q].at = "failed" \/ Unannounced(q) \/ ~Stale(q))
=============================================================================
