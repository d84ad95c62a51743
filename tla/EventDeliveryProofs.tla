------------------------- MODULE EventDeliveryProofs -------------------------
(***************************************************************************)
(* What EventDelivery promises for any sessions, streams and bounds.       *)
(*                                                                         *)
(* RefreshIsOwed compares a page with tmux, which its reader cannot see.   *)
(* The invariant compares it with the monitor's baseline instead: what a   *)
(* page has read is what the monitor last compared with, or news of the    *)
(* difference is on its way (OwedInv).  A change then either moves tmux    *)
(* away from both, and will be seen, or was announced.                     *)
(***************************************************************************)
EXTENDS EventDelivery, TLAPS

\* Every tmux server has a number of its own.
ServerInv ==
  /\ tmux # Gone => \A q \in Sessions : tmux[q].server = servers
  /\ baseline # None => \A q \in Sessions :
       /\ baseline[q].server \in 1..servers
       /\ tmux = Gone => baseline[q].server < servers

\* The fingerprint is that of the baseline, and without agents it tells all
\* there is to tell.
PrintInv ==
  /\ synced # None =>
       /\ baseline # None
       /\ synced = [s \in Sessions |-> <<baseline[s].server, baseline[s].panes>>]
  /\ \A q \in Sessions \ Agents :
       /\ tmux # Gone => tmux[q].agent = First
       /\ baseline # None => baseline[q].agent = First

\* Who holds the one stream of the current generation.
StreamInv ==
  /\ OneStream
  /\ \A s \in live : phase[s] \in {"opening", "consumed"}
  /\ viewers = 0 => live = {} /\ ~timer

\* A query that somebody looks at has data or is on its way to it, and an
\* answer has something to show.
DataInv ==
  \A q \in Sessions :
    /\ viewers > 0 /\ page[q].at = "idle" => page[q].cell # None
    /\ page[q].at = "answered" => page[q].got # None

\* What a page read of q is what the monitor compared with, or it is told.
Known(q, c) ==
  \/ WillBeTold
  \/ /\ baseline # None
     /\ IF c = Gone THEN baseline[q].server < servers ELSE baseline[q] = c

OwedInv ==
  viewers > 0 /\ ~refused =>
    \A q \in Sessions :
      /\ page[q].at = "idle" /\ ~page[q].unsure => Known(q, page[q].cell)
      /\ page[q].at = "answered" /\ ~page[q].blind => Known(q, page[q].got)

Inv == TypeOK /\ ServerInv /\ PrintInv /\ StreamInv /\ DataInv /\ OwedInv
-----------------------------------------------------------------------------
LEMMA FirstIsContent == First \in Contents
BY ContentsAssumption DEF First

\* What an invalidation leaves of a page: a fetch that has yet to be answered,
\* or the answer of its first fetch, marked.
LEMMA InvalidatedPage ==
  ASSUME NEW p \in Pages
  PROVE  /\ Invalidated(p) \in Pages
         /\ Invalidated(p).at = "asked"
            \/ /\ Invalidated(p).at = "answered" /\ p.at = "answered"
               /\ Invalidated(p).blind /\ Invalidated(p).got = p.got
<1>1. CASE p.cell = None /\ p.at \in {"asked", "answered"}
  <2> DEFINE b == (p.at = "answered")
  <2>1. Invalidated(p) = [p EXCEPT !.blind = b] BY <1>1 DEF Invalidated
  <2>2. b \in BOOLEAN OBVIOUS
  <2> HIDE DEF b
  <2>3. /\ Invalidated(p) \in Pages /\ Invalidated(p).at = p.at
        /\ Invalidated(p).blind = b /\ Invalidated(p).got = p.got
    BY <2>1, <2>2 DEF Pages
  <2>q. QED BY <1>1, <2>3 DEF b
<1>2. CASE ~(p.cell = None /\ p.at \in {"asked", "answered"})
  <2>1. Invalidated(p) = [p EXCEPT !.at = "asked", !.got = None, !.blind = FALSE]
    BY <1>2 DEF Invalidated
  <2>q. QED BY <2>1 DEF Pages, Fetches
<1>q. QED BY <1>1, <1>2

\* The pages a view leaves on mounting.
LEMMA ViewedPages ==
  ASSUME TypeOK, View
  PROVE  /\ page' \in [Sessions -> Pages]
         /\ \A q \in Sessions :
              \/ page'[q] = page[q] /\ ~(page[q].cell = None /\ page[q].at = "idle")
              \/ page'[q].at = "asked"
<1>1. \A q \in Sessions :
        page'[q] = IF page[q].cell = None /\ page[q].at \in {"idle", "failed"}
                   THEN [page[q] EXCEPT !.at = "asked"] ELSE page[q]
  BY DEF View
<1>2. \A q \in Sessions : [page[q] EXCEPT !.at = "asked"] \in Pages
  BY DEF TypeOK, Pages, Fetches
<1>3. DOMAIN page' = Sessions /\ page' = [q \in Sessions |-> page'[q]]
  BY DEF View
<1>4. page \in [Sessions -> Pages] BY DEF TypeOK
<1>5. \A q \in Sessions : [page[q] EXCEPT !.at = "asked"].at = "asked"
  BY <1>4 DEF Pages
<1>6. \A q \in Sessions : page'[q] \in Pages BY <1>1, <1>2, <1>4
<1>q. QED BY <1>1, <1>3, <1>4, <1>5, <1>6

\* Every step leaves every variable in its type.
LEMMA TypeStep ==
  ASSUME TypeOK, [Next]_vars
  PROVE  TypeOK'
<1> USE AgentsAssumption, ContentsAssumption, NoneAssumption, BoundsAssumption
<1>1. ASSUME NEW s \in Sessions, PanesChange(s)
      PROVE  TypeOK'
  BY <1>1 DEF PanesChange, Changes, client, TypeOK, Snapshots, Cells, Prints,
    Phases, Fetches, Pages
<1>2. ASSUME NEW s \in Agents, AgentMoves(s)
      PROVE  TypeOK'
  BY <1>2 DEF AgentMoves, Changes, client, TypeOK, Snapshots, Cells, Prints,
    Phases, Fetches, Pages
<1>3. CASE ServerExits
  BY <1>3 DEF ServerExits, Changes, client, TypeOK, Snapshots, Cells, Prints,
    Phases, Fetches, Pages
<1>4. CASE ServerStarts
  BY <1>4, FirstIsContent DEF ServerStarts, Changes, client, Started, TypeOK,
    Snapshots, Cells, Prints, Phases, Fetches, Pages
<1>5. CASE PollFindsNone
  BY <1>5 DEF PollFindsNone, host, client, TypeOK, Snapshots, Cells, Prints,
    Phases, Fetches, Pages
<1>6. CASE Poll
  BY <1>6 DEF Poll, host, client, Published, Kept, Diff, Live, TypeOK,
    Snapshots, Cells, Prints, Phases, Fetches, Pages
<1>7. CASE Restart
  BY <1>7 DEF Restart, host, client, Troubles, Live, TypeOK, Snapshots,
    Cells, Prints, Phases, Fetches, Pages
<1>8. ASSUME NEW s \in Streams, Subscribes(s)
      PROVE  TypeOK'
  BY <1>8 DEF Subscribes, host, monitor, client, TypeOK, Snapshots, Cells,
    Prints, Phases, Fetches, Pages
<1>9. ASSUME NEW s \in Sessions, Answer(s)
      PROVE  TypeOK'
  <2>1. Cell(s) \in Cells \cup {Gone} /\ Ahead(s) \in BOOLEAN
    BY <1>9 DEF Cell, Ahead, TypeOK, Snapshots
  <2> DEFINE c == Cell(s)  b == Ahead(s)
  <2>3. page' = [page EXCEPT ![s].at = "answered", ![s].got = c, ![s].blind = b]
    BY <1>9 DEF Answer
  <2> HIDE DEF c, b
  <2>4. page'[s] = [page[s] EXCEPT !.at = "answered", !.got = c, !.blind = b]
        /\ \A q \in Sessions : q # s => page'[q] = page[q]
    BY <2>3 DEF TypeOK
  <2>5. [page[s] EXCEPT !.at = "answered", !.got = c, !.blind = b] \in Pages
    BY <2>1 DEF TypeOK, Pages, Fetches, c, b
  <2>2. page' \in [Sessions -> Pages]
    BY <2>3, <2>4, <2>5 DEF TypeOK
  <2>q. QED BY <1>9, <2>2 DEF Answer, TypeOK, host, monitor, client
<1>10. CASE View
  <2>1. phase' \in [Streams -> Phases] /\ live' \subseteq Streams /\ refused' \in BOOLEAN
    BY <1>10 DEF View, Opens, TypeOK, Phases
  <2>2. viewers' \in 0..MaxViewers /\ troubles' \in 0..MaxTroubles
    BY <1>10, BoundsAssumption DEF View, Troubles, TypeOK
  <2>q. QED BY <1>10, <2>1, <2>2, ViewedPages DEF View, TypeOK, host, monitor
<1>11. CASE Leave
  <2>1. viewers' \in 0..MaxViewers
    BY <1>11, BoundsAssumption DEF Leave, TypeOK
  <2>2. phase' \in [Streams -> Phases] /\ live' \subseteq Streams /\ timer' \in BOOLEAN
    BY <1>11 DEF Leave, Disconnects, TypeOK, Phases
  <2>q. QED BY <1>11, <2>1, <2>2 DEF Leave, TypeOK, host, monitor
<1>12. ASSUME NEW s \in Streams, Closed(s)
      PROVE  TypeOK'
  BY <1>12 DEF Closed, host, monitor, Freed, TypeOK, Snapshots, Cells,
    Prints, Phases, Fetches, Pages
<1>13. ASSUME NEW s \in Streams, OpenReturns(s)
      PROVE  TypeOK'
  <2>1. page' \in [Sessions -> Pages]
    BY <1>13, InvalidatedPage DEF OpenReturns, ByReconnect, TypeOK
  <2>2. phase' \in [Streams -> Phases]
    BY <1>13 DEF OpenReturns, TypeOK, Phases
  <2>q. QED BY <1>13, <2>1, <2>2 DEF OpenReturns, TypeOK, host, monitor
<1>14. ASSUME NEW s \in Streams, StreamEnds(s)
      PROVE  TypeOK'
  <2>1. phase' \in [Streams -> Phases]
    BY <1>14 DEF StreamEnds, TypeOK, Phases
  <2>2. live' \subseteq Streams /\ timer' \in BOOLEAN /\ refused' \in BOOLEAN
    BY <1>14 DEF StreamEnds, Reconnects, TypeOK
  <2>3. sub' \subseteq Streams /\ pending' \in [Streams -> SUBSET Sessions]
    BY <1>14 DEF StreamEnds, Freed, TypeOK
  <2>4. troubles' \in 0..MaxTroubles
    BY <1>14, BoundsAssumption DEF StreamEnds, Troubles, TypeOK
  <2>q. QED BY <1>14, <2>1, <2>2, <2>3, <2>4 DEF StreamEnds, TypeOK, host, monitor
<1>15. CASE TimerFires
  BY <1>15 DEF TimerFires, host, monitor, Opens, TypeOK, Snapshots, Cells,
    Prints, Phases, Fetches, Pages
<1>16. ASSUME NEW s \in Streams, Deliver(s)
      PROVE  TypeOK'
  <2>1. page' \in [Sessions -> Pages]
    BY <1>16, InvalidatedPage DEF Deliver, ByEvent, TypeOK
  <2>q. QED BY <1>16, <2>1 DEF Deliver, TypeOK, host, monitor, client
<1>17. ASSUME NEW s \in Sessions, Arrive(s)
      PROVE  TypeOK'
  BY <1>17 DEF Arrive, host, monitor, client, TypeOK, Snapshots, Cells,
    Prints, Phases, Fetches, Pages
<1>18. ASSUME NEW s \in Sessions, FetchFails(s)
      PROVE  TypeOK'
  <2>3. page'[s] = [page[s] EXCEPT !.at = "failed", !.got = None, !.blind = FALSE]
        /\ \A q \in Sessions : q # s => page'[q] = page[q]
    BY <1>18 DEF FetchFails, TypeOK
  <2>4. [page[s] EXCEPT !.at = "failed", !.got = None, !.blind = FALSE] \in Pages
    BY DEF TypeOK, Pages, Fetches
  <2>1. page' \in [Sessions -> Pages]
    BY <1>18, <2>3, <2>4 DEF FetchFails, TypeOK
  <2>2. troubles' \in 0..MaxTroubles
    BY <1>18, BoundsAssumption DEF FetchFails, Troubles, TypeOK
  <2>q. QED BY <1>18, <2>1, <2>2 DEF FetchFails, TypeOK, host, monitor, client
<1>19. CASE UNCHANGED vars
  BY <1>19 DEF vars, TypeOK, Snapshots, Cells, Prints, Phases, Fetches, Pages
<1>q. QED BY <1>1, <1>2, <1>3, <1>4, <1>5, <1>6, <1>7, <1>8, <1>9, <1>10,
  <1>11, <1>12, <1>13, <1>14, <1>15, <1>16, <1>17, <1>18, <1>19 DEF Next

\* A new server has a number above those before it.
LEMMA ServerStep ==
  ASSUME TypeOK, ServerInv, [Next]_vars
  PROVE  ServerInv'
<1> USE AgentsAssumption, ContentsAssumption, NoneAssumption, BoundsAssumption
<1>1. ASSUME NEW s \in Sessions, PanesChange(s)
      PROVE  ServerInv'
  <2>1. \A q \in Sessions : tmux'[q].server = tmux[q].server
    BY <1>1 DEF PanesChange, TypeOK, Snapshots, Cells
  <2>2. tmux' # Gone /\ tmux # Gone
    BY <1>1, NoneAssumption DEF PanesChange, TypeOK, Snapshots, Cells
  <2>q. QED BY <1>1, <2>1, <2>2 DEF PanesChange, ServerInv, client
<1>2. ASSUME NEW s \in Agents, AgentMoves(s)
      PROVE  ServerInv'
  <2>1. \A q \in Sessions : tmux'[q].server = tmux[q].server
    BY <1>2 DEF AgentMoves, TypeOK, Snapshots, Cells
  <2>2. tmux' # Gone /\ tmux # Gone
    BY <1>2, NoneAssumption DEF AgentMoves, TypeOK, Snapshots, Cells
  <2>q. QED BY <1>2, <2>1, <2>2 DEF AgentMoves, ServerInv, client
<1>3. CASE ServerExits
  BY <1>3 DEF ServerExits, Changes, client, TypeOK, Snapshots, Cells, Prints,
    Phases, Fetches, Pages, ServerInv
<1>4. CASE ServerStarts
  BY <1>4, FirstIsContent DEF ServerStarts, Changes, client, Started, TypeOK,
    Snapshots, Cells, Prints, Phases, Fetches, Pages, ServerInv
<1>5. CASE PollFindsNone
  BY <1>5 DEF PollFindsNone, host, client, TypeOK, Snapshots, Cells, Prints,
    Phases, Fetches, Pages, ServerInv
<1>6. CASE Poll
  BY <1>6 DEF Poll, host, client, Published, Kept, Diff, Live, TypeOK,
    Snapshots, Cells, Prints, Phases, Fetches, Pages, ServerInv
<1>7. CASE Restart
  BY <1>7 DEF Restart, host, client, Troubles, Live, TypeOK, Snapshots,
    Cells, Prints, Phases, Fetches, Pages, ServerInv
<1>8. ASSUME NEW s \in Streams, Subscribes(s)
      PROVE  ServerInv'
  BY <1>8 DEF Subscribes, host, monitor, client, TypeOK, Snapshots, Cells,
    Prints, Phases, Fetches, Pages, ServerInv
<1>9. ASSUME NEW s \in Sessions, Answer(s)
      PROVE  ServerInv'
  BY <1>9 DEF Answer, host, monitor, client, Cell, Ahead, TypeOK, Snapshots,
    Cells, Prints, Phases, Fetches, Pages, ServerInv
<1>10. CASE View
  BY <1>10, ViewedPages DEF View, host, monitor, Opens, Troubles, TypeOK,
    Snapshots, Cells, Prints, Phases, Fetches, Pages, ServerInv
<1>11. CASE Leave
  BY <1>11 DEF Leave, host, monitor, Disconnects, TypeOK, Snapshots, Cells,
    Prints, Phases, Fetches, Pages, ServerInv
<1>12. ASSUME NEW s \in Streams, Closed(s)
      PROVE  ServerInv'
  BY <1>12 DEF Closed, host, monitor, Freed, TypeOK, Snapshots, Cells,
    Prints, Phases, Fetches, Pages, ServerInv
<1>13. ASSUME NEW s \in Streams, OpenReturns(s)
      PROVE  ServerInv'
  BY <1>13, InvalidatedPage DEF OpenReturns, host, monitor, IsActive,
    ByReconnect, TypeOK, Snapshots, Cells, Prints, Phases, Fetches, Pages,
    ServerInv
<1>14. ASSUME NEW s \in Streams, StreamEnds(s)
      PROVE  ServerInv'
  BY <1>14 DEF StreamEnds, host, monitor, Freed, Troubles, Reconnects,
    IsActive, TypeOK, Snapshots, Cells, Prints, Phases, Fetches, Pages,
    ServerInv
<1>15. CASE TimerFires
  BY <1>15 DEF TimerFires, host, monitor, Opens, TypeOK, Snapshots, Cells,
    Prints, Phases, Fetches, Pages, ServerInv
<1>16. ASSUME NEW s \in Streams, Deliver(s)
      PROVE  ServerInv'
  BY <1>16, InvalidatedPage DEF Deliver, host, monitor, client, IsActive,
    ByEvent, TypeOK, Snapshots, Cells, Prints, Phases, Fetches, Pages,
    ServerInv
<1>17. ASSUME NEW s \in Sessions, Arrive(s)
      PROVE  ServerInv'
  BY <1>17 DEF Arrive, host, monitor, client, TypeOK, Snapshots, Cells,
    Prints, Phases, Fetches, Pages, ServerInv
<1>18. ASSUME NEW s \in Sessions, FetchFails(s)
      PROVE  ServerInv'
  BY <1>18 DEF FetchFails, host, monitor, client, Troubles, TypeOK,
    Snapshots, Cells, Prints, Phases, Fetches, Pages, ServerInv
<1>19. CASE UNCHANGED vars
  BY <1>19 DEF vars, TypeOK, Snapshots, Cells, Prints, Phases, Fetches,
    Pages, ServerInv
<1>q. QED BY <1>1, <1>2, <1>3, <1>4, <1>5, <1>6, <1>7, <1>8, <1>9, <1>10,
  <1>11, <1>12, <1>13, <1>14, <1>15, <1>16, <1>17, <1>18, <1>19 DEF Next

\* Polls set baseline and fingerprint together.
LEMMA PrintStep ==
  ASSUME TypeOK, PrintInv, [Next]_vars
  PROVE  PrintInv'
<1> USE AgentsAssumption, ContentsAssumption, NoneAssumption, BoundsAssumption
<1>1. ASSUME NEW s \in Sessions, PanesChange(s)
      PROVE  PrintInv'
  BY <1>1 DEF PanesChange, Changes, client, TypeOK, Snapshots, Cells, Prints,
    Phases, Fetches, Pages, PrintInv
<1>2. ASSUME NEW s \in Agents, AgentMoves(s)
      PROVE  PrintInv'
  BY <1>2 DEF AgentMoves, Changes, client, TypeOK, Snapshots, Cells, Prints,
    Phases, Fetches, Pages, PrintInv
<1>3. CASE ServerExits
  BY <1>3 DEF ServerExits, Changes, client, TypeOK, Snapshots, Cells, Prints,
    Phases, Fetches, Pages, PrintInv
<1>4. CASE ServerStarts
  BY <1>4, FirstIsContent DEF ServerStarts, Changes, client, Started, TypeOK,
    Snapshots, Cells, Prints, Phases, Fetches, Pages, PrintInv
<1>5. CASE PollFindsNone
  BY <1>5 DEF PollFindsNone, host, client, TypeOK, Snapshots, Cells, Prints,
    Phases, Fetches, Pages, PrintInv
<1>6. CASE Poll
  BY <1>6 DEF Poll, host, client, Published, Kept, Diff, Live, TypeOK,
    Snapshots, Cells, Prints, Phases, Fetches, Pages, PrintInv
<1>7. CASE Restart
  BY <1>7 DEF Restart, host, client, Troubles, Live, TypeOK, Snapshots,
    Cells, Prints, Phases, Fetches, Pages, PrintInv
<1>8. ASSUME NEW s \in Streams, Subscribes(s)
      PROVE  PrintInv'
  BY <1>8 DEF Subscribes, host, monitor, client, TypeOK, Snapshots, Cells,
    Prints, Phases, Fetches, Pages, PrintInv
<1>9. ASSUME NEW s \in Sessions, Answer(s)
      PROVE  PrintInv'
  BY <1>9 DEF Answer, host, monitor, client, Cell, Ahead, TypeOK, Snapshots,
    Cells, Prints, Phases, Fetches, Pages, PrintInv
<1>10. CASE View
  BY <1>10, ViewedPages DEF View, host, monitor, Opens, Troubles, TypeOK,
    Snapshots, Cells, Prints, Phases, Fetches, Pages, PrintInv
<1>11. CASE Leave
  BY <1>11 DEF Leave, host, monitor, Disconnects, TypeOK, Snapshots, Cells,
    Prints, Phases, Fetches, Pages, PrintInv
<1>12. ASSUME NEW s \in Streams, Closed(s)
      PROVE  PrintInv'
  BY <1>12 DEF Closed, host, monitor, Freed, TypeOK, Snapshots, Cells,
    Prints, Phases, Fetches, Pages, PrintInv
<1>13. ASSUME NEW s \in Streams, OpenReturns(s)
      PROVE  PrintInv'
  BY <1>13, InvalidatedPage DEF OpenReturns, host, monitor, IsActive,
    ByReconnect, TypeOK, Snapshots, Cells, Prints, Phases, Fetches, Pages,
    PrintInv
<1>14. ASSUME NEW s \in Streams, StreamEnds(s)
      PROVE  PrintInv'
  BY <1>14 DEF StreamEnds, host, monitor, Freed, Troubles, Reconnects,
    IsActive, TypeOK, Snapshots, Cells, Prints, Phases, Fetches, Pages,
    PrintInv
<1>15. CASE TimerFires
  BY <1>15 DEF TimerFires, host, monitor, Opens, TypeOK, Snapshots, Cells,
    Prints, Phases, Fetches, Pages, PrintInv
<1>16. ASSUME NEW s \in Streams, Deliver(s)
      PROVE  PrintInv'
  BY <1>16, InvalidatedPage DEF Deliver, host, monitor, client, IsActive,
    ByEvent, TypeOK, Snapshots, Cells, Prints, Phases, Fetches, Pages,
    PrintInv
<1>17. ASSUME NEW s \in Sessions, Arrive(s)
      PROVE  PrintInv'
  BY <1>17 DEF Arrive, host, monitor, client, TypeOK, Snapshots, Cells,
    Prints, Phases, Fetches, Pages, PrintInv
<1>18. ASSUME NEW s \in Sessions, FetchFails(s)
      PROVE  PrintInv'
  BY <1>18 DEF FetchFails, host, monitor, client, Troubles, TypeOK,
    Snapshots, Cells, Prints, Phases, Fetches, Pages, PrintInv
<1>19. CASE UNCHANGED vars
  BY <1>19 DEF vars, TypeOK, Snapshots, Cells, Prints, Phases, Fetches,
    Pages, PrintInv
<1>q. QED BY <1>1, <1>2, <1>3, <1>4, <1>5, <1>6, <1>7, <1>8, <1>9, <1>10,
  <1>11, <1>12, <1>13, <1>14, <1>15, <1>16, <1>17, <1>18, <1>19 DEF Next

\* A generation has one stream, or a timer that will open it.
LEMMA StreamStep ==
  ASSUME TypeOK, StreamInv, [Next]_vars
  PROVE  StreamInv'
<1> USE AgentsAssumption, ContentsAssumption, NoneAssumption, BoundsAssumption
<1>1. ASSUME NEW s \in Sessions, PanesChange(s)
      PROVE  StreamInv'
  BY <1>1 DEF PanesChange, Changes, client, TypeOK, Phases, StreamInv,
    OneStream
<1>2. ASSUME NEW s \in Agents, AgentMoves(s)
      PROVE  StreamInv'
  BY <1>2 DEF AgentMoves, Changes, client, TypeOK, Phases, StreamInv,
    OneStream
<1>3. CASE ServerExits
  BY <1>3 DEF ServerExits, Changes, client, TypeOK, Phases, StreamInv,
    OneStream
<1>4. CASE ServerStarts
  BY <1>4, FirstIsContent DEF ServerStarts, Changes, client, Started, TypeOK,
    Phases, StreamInv, OneStream
<1>5. CASE PollFindsNone
  BY <1>5 DEF PollFindsNone, host, client, TypeOK, Phases, StreamInv,
    OneStream
<1>6. CASE Poll
  BY <1>6 DEF Poll, host, client, Published, Kept, Diff, Live, TypeOK,
    Phases, StreamInv, OneStream
<1>7. CASE Restart
  BY <1>7 DEF Restart, host, client, Troubles, Live, TypeOK, Phases,
    StreamInv, OneStream
<1>8. ASSUME NEW s \in Streams, Subscribes(s)
      PROVE  StreamInv'
  BY <1>8 DEF Subscribes, host, monitor, client, TypeOK, Phases, StreamInv,
    OneStream
<1>9. ASSUME NEW s \in Sessions, Answer(s)
      PROVE  StreamInv'
  BY <1>9 DEF Answer, host, monitor, client, Cell, Ahead, TypeOK, Phases,
    StreamInv, OneStream
<1>10. CASE View
  <2>1. CASE viewers = 0
    <3>1. PICK s \in Streams : Opens(s) /\ live' = {s} /\ refused' = FALSE
      BY <1>10, <2>1 DEF View
    <3>2. phase'[s] = "opening" /\ \A t \in Streams : t # s => phase'[t] = phase[t]
      BY <3>1 DEF Opens, TypeOK
    <3>q. QED BY <1>10, <2>1, <3>1, <3>2 DEF View, StreamInv, OneStream, TypeOK
  <2>2. CASE viewers # 0
    BY <1>10, <2>2 DEF View, StreamInv, OneStream, TypeOK
  <2>q. QED BY <2>1, <2>2
<1>11. CASE Leave
  BY <1>11 DEF Leave, host, monitor, Disconnects, TypeOK, Phases, StreamInv,
    OneStream
<1>12. ASSUME NEW s \in Streams, Closed(s)
      PROVE  StreamInv'
  BY <1>12 DEF Closed, host, monitor, Freed, TypeOK, Phases, StreamInv,
    OneStream
<1>13. ASSUME NEW s \in Streams, OpenReturns(s)
      PROVE  StreamInv'
  <2>1. \A t \in Streams : t # s => phase'[t] = phase[t]
    BY <1>13 DEF OpenReturns, TypeOK
  <2>2. phase'[s] = IF IsActive(s) THEN "consumed" ELSE "closing"
    BY <1>13 DEF OpenReturns, TypeOK
  <2>3. live' = live /\ timer' = timer /\ viewers' = viewers /\ refused' = refused
    BY <1>13 DEF OpenReturns
  <2>q. QED BY <2>1, <2>2, <2>3 DEF IsActive, StreamInv, OneStream, TypeOK
<1>14. ASSUME NEW s \in Streams, StreamEnds(s)
      PROVE  StreamInv'
  <2>1. /\ phase'[s] = "idle" /\ viewers' = viewers
        /\ \A t \in Streams : t # s => phase'[t] = phase[t]
    BY <1>14 DEF StreamEnds, TypeOK
  <2>2. PICK retriable \in BOOLEAN : Reconnects(s, retriable)
    BY <1>14 DEF StreamEnds
  <2>3. CASE IsActive(s)
    <3>1. live' = {} /\ s \in live /\ viewers > 0
      BY <2>2, <2>3 DEF Reconnects, IsActive, StreamInv, OneStream, TypeOK
    <3>2. ~timer BY <3>1 DEF StreamInv, OneStream
    <3>3. timer' = retriable /\ refused' = (refused \/ ~retriable)
      BY <2>2, <2>3, <3>2 DEF Reconnects
    <3>4. \A t \in Streams : phase'[t] # "consumed"
      BY <2>1, <3>1 DEF StreamInv, OneStream, TypeOK
    <3>q. QED BY <2>1, <2>2, <3>1, <3>3, <3>4 DEF StreamInv, OneStream
  <2>4. CASE ~IsActive(s)
    BY <2>1, <2>2, <2>4 DEF Reconnects, IsActive, StreamInv, OneStream, TypeOK
  <2>q. QED BY <2>3, <2>4
<1>15. CASE TimerFires
  BY <1>15 DEF TimerFires, host, monitor, Opens, TypeOK, Phases, StreamInv,
    OneStream
<1>16. ASSUME NEW s \in Streams, Deliver(s)
      PROVE  StreamInv'
  BY <1>16, InvalidatedPage DEF Deliver, host, monitor, client, IsActive,
    ByEvent, TypeOK, Phases, StreamInv, OneStream
<1>17. ASSUME NEW s \in Sessions, Arrive(s)
      PROVE  StreamInv'
  BY <1>17 DEF Arrive, host, monitor, client, TypeOK, Phases, StreamInv,
    OneStream
<1>18. ASSUME NEW s \in Sessions, FetchFails(s)
      PROVE  StreamInv'
  BY <1>18 DEF FetchFails, host, monitor, client, Troubles, TypeOK, Phases,
    StreamInv, OneStream
<1>19. CASE UNCHANGED vars
  BY <1>19 DEF vars, TypeOK, Phases, StreamInv, OneStream
<1>q. QED BY <1>1, <1>2, <1>3, <1>4, <1>5, <1>6, <1>7, <1>8, <1>9, <1>10,
  <1>11, <1>12, <1>13, <1>14, <1>15, <1>16, <1>17, <1>18, <1>19 DEF Next

\* A query without data is fetched when a view mounts.
LEMMA DataStep ==
  ASSUME TypeOK, DataInv, [Next]_vars
  PROVE  DataInv'
<1> USE AgentsAssumption, ContentsAssumption, NoneAssumption, BoundsAssumption
<1>1. ASSUME NEW s \in Sessions, PanesChange(s)
      PROVE  DataInv'
  BY <1>1 DEF PanesChange, Changes, client, TypeOK, Snapshots, Cells, Pages,
    DataInv
<1>2. ASSUME NEW s \in Agents, AgentMoves(s)
      PROVE  DataInv'
  BY <1>2 DEF AgentMoves, Changes, client, TypeOK, Snapshots, Cells, Pages,
    DataInv
<1>3. CASE ServerExits
  BY <1>3 DEF ServerExits, Changes, client, TypeOK, Snapshots, Cells, Pages,
    DataInv
<1>4. CASE ServerStarts
  BY <1>4, FirstIsContent DEF ServerStarts, Changes, client, Started, TypeOK,
    Snapshots, Cells, Pages, DataInv
<1>5. CASE PollFindsNone
  BY <1>5 DEF PollFindsNone, host, client, TypeOK, Snapshots, Cells, Pages,
    DataInv
<1>6. CASE Poll
  BY <1>6 DEF Poll, host, client, Published, Kept, Diff, Live, TypeOK,
    Snapshots, Cells, Pages, DataInv
<1>7. CASE Restart
  BY <1>7 DEF Restart, host, client, Troubles, Live, TypeOK, Snapshots,
    Cells, Pages, DataInv
<1>8. ASSUME NEW s \in Streams, Subscribes(s)
      PROVE  DataInv'
  BY <1>8 DEF Subscribes, host, monitor, client, TypeOK, Snapshots, Cells,
    Pages, DataInv
<1>9. ASSUME NEW s \in Sessions, Answer(s)
      PROVE  DataInv'
  BY <1>9 DEF Answer, host, monitor, client, Cell, Ahead, TypeOK, Snapshots,
    Cells, Pages, DataInv
<1>10. CASE View
  BY <1>10, ViewedPages DEF View, host, monitor, Opens, Troubles, TypeOK,
    Snapshots, Cells, Pages, DataInv
<1>11. CASE Leave
  BY <1>11 DEF Leave, host, monitor, Disconnects, TypeOK, Snapshots, Cells,
    Pages, DataInv
<1>12. ASSUME NEW s \in Streams, Closed(s)
      PROVE  DataInv'
  BY <1>12 DEF Closed, host, monitor, Freed, TypeOK, Snapshots, Cells, Pages,
    DataInv
<1>13. ASSUME NEW s \in Streams, OpenReturns(s)
      PROVE  DataInv'
  BY <1>13, InvalidatedPage DEF OpenReturns, host, monitor, IsActive,
    ByReconnect, TypeOK, Snapshots, Cells, Pages, DataInv
<1>14. ASSUME NEW s \in Streams, StreamEnds(s)
      PROVE  DataInv'
  BY <1>14 DEF StreamEnds, host, monitor, Freed, Troubles, Reconnects,
    IsActive, TypeOK, Snapshots, Cells, Pages, DataInv
<1>15. CASE TimerFires
  BY <1>15 DEF TimerFires, host, monitor, Opens, TypeOK, Snapshots, Cells,
    Pages, DataInv
<1>16. ASSUME NEW s \in Streams, Deliver(s)
      PROVE  DataInv'
  BY <1>16, InvalidatedPage DEF Deliver, host, monitor, client, IsActive,
    ByEvent, TypeOK, Snapshots, Cells, Pages, DataInv
<1>17. ASSUME NEW s \in Sessions, Arrive(s)
      PROVE  DataInv'
  BY <1>17 DEF Arrive, host, monitor, client, TypeOK, Snapshots, Cells,
    Pages, DataInv
<1>18. ASSUME NEW s \in Sessions, FetchFails(s)
      PROVE  DataInv'
  BY <1>18 DEF FetchFails, host, monitor, client, Troubles, TypeOK,
    Snapshots, Cells, Pages, DataInv
<1>19. CASE UNCHANGED vars
  BY <1>19 DEF vars, TypeOK, Snapshots, Cells, Pages, DataInv
<1>q. QED BY <1>1, <1>2, <1>3, <1>4, <1>5, <1>6, <1>7, <1>8, <1>9, <1>10,
  <1>11, <1>12, <1>13, <1>14, <1>15, <1>16, <1>17, <1>18, <1>19 DEF Next

\* A page that parts from the baseline is told: a poll publishes before it
\* moves the baseline, and news is only dropped for a fetch or a new stream.
LEMMA OwedStep ==
  ASSUME TypeOK, ServerInv, StreamInv, DataInv, OwedInv, [Next]_vars
  PROVE  OwedInv'
<1> USE AgentsAssumption, ContentsAssumption, NoneAssumption, BoundsAssumption
<1>1. ASSUME NEW s \in Sessions, PanesChange(s)
      PROVE  OwedInv'
  BY <1>1 DEF PanesChange, Changes, client, TypeOK, Snapshots, Cells, Prints,
    Phases, Fetches, Pages, ServerInv, StreamInv, OneStream, DataInv,
    OwedInv, Known, WillBeTold
<1>2. ASSUME NEW s \in Agents, AgentMoves(s)
      PROVE  OwedInv'
  BY <1>2 DEF AgentMoves, Changes, client, TypeOK, Snapshots, Cells, Prints,
    Phases, Fetches, Pages, ServerInv, StreamInv, OneStream, DataInv,
    OwedInv, Known, WillBeTold
<1>3. CASE ServerExits
  BY <1>3 DEF ServerExits, Changes, client, TypeOK, Snapshots, Cells, Prints,
    Phases, Fetches, Pages, ServerInv, StreamInv, OneStream, DataInv,
    OwedInv, Known, WillBeTold
<1>4. CASE ServerStarts
  BY <1>4, FirstIsContent DEF ServerStarts, Changes, client, Started, TypeOK,
    Snapshots, Cells, Prints, Phases, Fetches, Pages, ServerInv, StreamInv,
    OneStream, DataInv, OwedInv, Known, WillBeTold
<1>5. CASE PollFindsNone
  BY <1>5 DEF PollFindsNone, host, client, TypeOK, Snapshots, Cells, Prints,
    Phases, Fetches, Pages, ServerInv, StreamInv, OneStream, DataInv,
    OwedInv, Known, WillBeTold
<1>6. CASE Poll
  BY <1>6 DEF Poll, host, client, Published, Kept, Diff, Live, TypeOK,
    Snapshots, Cells, Prints, Phases, Fetches, Pages, ServerInv, StreamInv,
    OneStream, DataInv, OwedInv, Known, WillBeTold
<1>7. CASE Restart
  BY <1>7 DEF Restart, host, client, Troubles, Live, TypeOK, Snapshots,
    Cells, Prints, Phases, Fetches, Pages, ServerInv, StreamInv, OneStream,
    DataInv, OwedInv, Known, WillBeTold
<1>8. ASSUME NEW s \in Streams, Subscribes(s)
      PROVE  OwedInv'
  BY <1>8 DEF Subscribes, host, monitor, client, TypeOK, Snapshots, Cells,
    Prints, Phases, Fetches, Pages, ServerInv, StreamInv, OneStream, DataInv,
    OwedInv, Known, WillBeTold
<1>9. ASSUME NEW s \in Sessions, Answer(s)
      PROVE  OwedInv'
  BY <1>9 DEF Answer, host, monitor, client, Cell, Ahead, TypeOK, Snapshots,
    Cells, Prints, Phases, Fetches, Pages, ServerInv, StreamInv, OneStream,
    DataInv, OwedInv, Known, WillBeTold
<1>10. CASE View
  BY <1>10, ViewedPages DEF View, host, monitor, Opens, Troubles, TypeOK,
    Snapshots, Cells, Prints, Phases, Fetches, Pages, ServerInv, StreamInv,
    OneStream, DataInv, OwedInv, Known, WillBeTold
<1>11. CASE Leave
  BY <1>11 DEF Leave, host, monitor, Disconnects, TypeOK, Snapshots, Cells,
    Prints, Phases, Fetches, Pages, ServerInv, StreamInv, OneStream, DataInv,
    OwedInv, Known, WillBeTold
<1>12. ASSUME NEW s \in Streams, Closed(s)
      PROVE  OwedInv'
  BY <1>12 DEF Closed, host, monitor, Freed, TypeOK, Snapshots, Cells,
    Prints, Phases, Fetches, Pages, ServerInv, StreamInv, OneStream, DataInv,
    OwedInv, Known, WillBeTold
<1>13. ASSUME NEW s \in Streams, OpenReturns(s)
      PROVE  OwedInv'
  <2>1. CASE IsActive(s)
    BY <1>13, <2>1, InvalidatedPage DEF OpenReturns, ByReconnect, TypeOK, OwedInv
  <2>3. CASE viewers = 0
    BY <1>13, <2>3 DEF OpenReturns, OwedInv
  <2>2. CASE ~IsActive(s) /\ viewers # 0
    <3>1. \A t \in live : t # s BY <2>2 DEF IsActive, TypeOK
    <3>2. UNCHANGED <<page, tmux, servers, baseline, synced, live, sub, pending, timer,
                      refused, viewers>> /\ \A t \in live : phase'[t] = phase[t]
      BY <1>13, <2>2, <3>1 DEF OpenReturns, TypeOK, host, monitor
    <3>q. QED BY <3>2 DEF OwedInv, Known, WillBeTold
  <2>q. QED BY <2>1, <2>2, <2>3
<1>14. ASSUME NEW s \in Streams, StreamEnds(s)
      PROVE  OwedInv'
  <2>1. PICK retriable \in BOOLEAN : Reconnects(s, retriable)
    BY <1>14 DEF StreamEnds
  <2>2. UNCHANGED <<page, tmux, servers, baseline, synced, viewers>>
    BY <1>14 DEF StreamEnds, host, monitor
  <2>3. CASE IsActive(s)
    <3>1. timer' \/ refused'
      BY <2>1, <2>3 DEF Reconnects
    <3>q. QED BY <3>1 DEF OwedInv, Known, WillBeTold
  <2>4. CASE viewers = 0
    BY <2>2, <2>4 DEF OwedInv
  <2>5. CASE ~IsActive(s) /\ viewers # 0
    <3>1. s \notin live BY <2>5 DEF IsActive, TypeOK
    <3>2. UNCHANGED <<live, timer, refused>>
      BY <2>1, <2>5 DEF Reconnects
    <3>3. \A t \in live : phase'[t] = phase[t] /\ pending'[t] = pending[t]
                         /\ (t \in sub' <=> t \in sub)
      BY <1>14, <3>1 DEF StreamEnds, Freed, TypeOK
    <3>q. QED BY <2>2, <3>2, <3>3 DEF OwedInv, Known, WillBeTold
  <2>q. QED BY <2>3, <2>4, <2>5
<1>15. CASE TimerFires
  BY <1>15 DEF TimerFires, host, monitor, Opens, TypeOK, Snapshots, Cells,
    Prints, Phases, Fetches, Pages, ServerInv, StreamInv, OneStream, DataInv,
    OwedInv, Known, WillBeTold
<1>16. ASSUME NEW s \in Streams, Deliver(s)
      PROVE  OwedInv'
  <2>1. CASE IsActive(s)
    <3>1. page' = [q \in Sessions |-> Invalidated(page[q])]
      BY <1>16, <2>1 DEF Deliver, ByEvent
    <3>2. \A q \in Sessions : page'[q].at # "idle" /\ (page'[q].at = "answered" => page'[q].blind)
      BY <3>1, InvalidatedPage DEF TypeOK
    <3>q. QED BY <3>2 DEF OwedInv
  <2>2. CASE ~IsActive(s)
    BY <1>16, <2>2 DEF Deliver, IsActive, OwedInv, StreamInv, OneStream, client
  <2>q. QED BY <2>1, <2>2
<1>17. ASSUME NEW s \in Sessions, Arrive(s)
      PROVE  OwedInv'
  BY <1>17 DEF Arrive, host, monitor, client, TypeOK, Snapshots, Cells,
    Prints, Phases, Fetches, Pages, ServerInv, StreamInv, OneStream, DataInv,
    OwedInv, Known, WillBeTold
<1>18. ASSUME NEW s \in Sessions, FetchFails(s)
      PROVE  OwedInv'
  BY <1>18 DEF FetchFails, host, monitor, client, Troubles, TypeOK,
    Snapshots, Cells, Prints, Phases, Fetches, Pages, ServerInv, StreamInv,
    OneStream, DataInv, OwedInv, Known, WillBeTold
<1>19. CASE UNCHANGED vars
  BY <1>19 DEF vars, TypeOK, Snapshots, Cells, Prints, Phases, Fetches,
    Pages, ServerInv, StreamInv, OneStream, DataInv, OwedInv, Known,
    WillBeTold
<1>q. QED BY <1>1, <1>2, <1>3, <1>4, <1>5, <1>6, <1>7, <1>8, <1>9, <1>10,
  <1>11, <1>12, <1>13, <1>14, <1>15, <1>16, <1>17, <1>18, <1>19 DEF Next

LEMMA InitInv == Init => Inv
<1> SUFFICES ASSUME Init PROVE Inv OBVIOUS
<1> USE FirstIsContent, NoneAssumption, BoundsAssumption
<1>1. tmux \in Snapshots /\ baseline = tmux
  BY DEF Init, Started, Snapshots, Cells
<1>2. synced \in Prints BY <1>1 DEF Init, Prints, Snapshots, Cells
<1>0. NewPage \in Pages BY DEF NewPage, Pages, Fetches
<1>3. page \in [Sessions -> Pages] BY <1>0 DEF Init
<1>t. /\ servers \in Nat \ {0} /\ viewers \in 0..MaxViewers
      /\ changes \in 0..MaxChanges /\ troubles \in 0..MaxTroubles
  BY DEF Init
<1>s. /\ phase \in [Streams -> Phases] /\ pending \in [Streams -> SUBSET Sessions]
      /\ sub \subseteq Streams /\ live \subseteq Streams
  BY DEF Init, Phases
<1>4. TypeOK BY <1>1, <1>2, <1>3, <1>t, <1>s DEF Init, TypeOK
<1>5. ServerInv BY <1>1 DEF Init, ServerInv, Started
<1>6. PrintInv BY <1>1 DEF Init, PrintInv, Started
<1>7. StreamInv BY DEF Init, StreamInv, OneStream
<1>8. DataInv BY DEF Init, DataInv, NewPage
<1>9. OwedInv BY DEF Init, OwedInv
<1>q. QED BY <1>4, <1>5, <1>6, <1>7, <1>8, <1>9 DEF Inv

LEMMA StepInv == Inv /\ [Next]_vars => Inv'
BY TypeStep, ServerStep, PrintStep, StreamStep, DataStep, OwedStep DEF Inv

LEMMA Invariance == Spec => []Inv
BY InitInv, StepInv, PTL DEF Spec
-----------------------------------------------------------------------------
\* Every variable keeps its type, for any sessions, streams and bounds.
THEOREM TypeCorrectness == Spec => []TypeOK
<1>1. Inv => TypeOK BY DEF Inv
<1>q. QED BY <1>1, Invariance, PTL

\* However views mount and unmount while streams open, end and are opened
\* again, one stream serves them (muximod-event-coordinator.ts:129).
THEOREM ViewsShareAStream == Spec => []OneStream
<1>1. Inv => OneStream BY DEF Inv, StreamInv
<1>q. QED BY <1>1, Invariance, PTL

\* No page is left with something old that a poll compared or will compare,
\* although a subscriber keeps one event only (events.ts:13) and nothing is
\* replayed.
THEOREM PagesAreToldOfChanges == Spec => []RefreshIsOwed
<1>1. ASSUME Inv, viewers > 0, ~refused, NEW q \in Sessions, page[q].at = "idle",
             Stale(q), ~Unannounced(q), ~WillBeTold
      PROVE  WillBeSeen(q)
  <2>1. tmux # Gone /\ baseline # None /\ baseline[q] # tmux[q]
    BY <1>1, NoneAssumption DEF Inv, TypeOK, OwedInv, Known, ServerInv, Unannounced,
       Stale, Cell, Snapshots, Cells, Pages
  <2>2. CASE Dynamic
    BY <2>1, <2>2 DEF WillBeSeen, ShouldSynchronize
  <2>3. CASE ~Dynamic
    <3>1. tmux[q].agent = baseline[q].agent /\ tmux[q] \in Cells /\ baseline[q] \in Cells
      BY <1>1, <2>1, <2>3, NoneAssumption DEF Inv, TypeOK, PrintInv, Dynamic, Snapshots
    <3>2. <<tmux[q].server, tmux[q].panes>> # <<baseline[q].server, baseline[q].panes>>
      BY <2>1, <3>1 DEF Cells
    <3>3. synced # Live
      BY <1>1, <3>2, NoneAssumption, <2>1 DEF Inv, TypeOK, PrintInv, Live, Prints,
         Snapshots, Cells
    <3>q. QED BY <2>1, <3>3 DEF WillBeSeen, ShouldSynchronize
  <2>q. QED BY <2>2, <2>3
<1>2. Inv => RefreshIsOwed BY <1>1 DEF RefreshIsOwed
<1>q. QED BY <1>2, Invariance, PTL
=============================================================================
