---------------------------- MODULE ViewportLease ----------------------------
(***************************************************************************)
(* What TerminalViewportPort (packages/infrastructure/src/terminal/        *)
(* contracts.ts) promises of a tmux window, whoever uses it: at most one   *)
(* client has the window, a window is had before it is attached, only an   *)
(* attached window changes between mobile and desktop, and it passes from  *)
(* one client to another only by being free in between.                    *)
(***************************************************************************)
CONSTANTS Windows, Clients, NoClient

VARIABLES
  holder,     \* the client with the lease of a window
  live,       \* windows whose mobile tmux client is attached
  owner       \* whose size and focus the window follows

vars == <<holder, live, owner>>

TypeOK ==
  /\ holder \in [Windows -> Clients \cup {NoClient}]
  /\ live \in SUBSET Windows
  /\ owner \in [Windows -> {"mobile", "desktop"}]

Init ==
  /\ holder = [w \in Windows |-> NoClient]
  /\ live = {}
  /\ owner = [w \in Windows |-> "mobile"]

Prepare(w, c) ==
  /\ holder[w] = NoClient
  /\ holder' = [holder EXCEPT ![w] = c]
  /\ owner' = [owner EXCEPT ![w] = "mobile"]
  /\ UNCHANGED live

\* The client may lose its transport while it attaches: then the desktop
\* has the window at once.
Attach(w, o) ==
  /\ holder[w] # NoClient /\ w \notin live
  /\ live' = live \cup {w}
  /\ owner' = [owner EXCEPT ![w] = o]
  /\ UNCHANGED holder

HandOver(w, o) ==
  /\ w \in live
  /\ owner' = [owner EXCEPT ![w] = o]
  /\ UNCHANGED <<holder, live>>

\* The owner of a free window means nothing.
Release(w) ==
  /\ holder[w] # NoClient
  /\ holder' = [holder EXCEPT ![w] = NoClient]
  /\ live' = live \ {w}
  /\ owner' = [owner EXCEPT ![w] = "mobile"]

Next ==
  \E w \in Windows :
     \/ \E c \in Clients : Prepare(w, c)
     \/ \E o \in {"mobile", "desktop"} : Attach(w, o) \/ HandOver(w, o)
     \/ Release(w)

Spec == Init /\ [][Next]_vars
=============================================================================
