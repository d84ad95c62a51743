--------------------------- MODULE PairingProofs ---------------------------
(***************************************************************************)
(* What Pairing promises for any CLIs and browsers and any number of stops *)
(* of the daemon: the variables have their types, a registered key is one  *)
(* the user said yes to, what is pending has somebody to answer for it, a  *)
(* pairing is only rejected by its owner, and all ends agree.              *)
(*                                                                         *)
(* A CLI that stops listens to nothing, but what it wrote is still handled *)
(* and what the daemon sent it still lies there.  StageInv says which of   *)
(* its requests and responses can be on their way at every phase; ClaimInv *)
(* that the claim of a row, the message about it and the user's answer all *)
(* are about the same browser.                                             *)
(***************************************************************************)
EXTENDS Pairing, TLAPS

\* What may be on its way between a CLI and the daemon.
StageInv == \A c \in Clis :
  /\ cli[c] = "start" =>
       request[c] = "none" /\ row[c].status = "none" /\ c \notin creating
  /\ request[c] # "none" => response[c] = "none" /\ c \notin creating
  /\ request[c] = "create" =>
       cli[c] \in {"creating"} \cup Ended /\ row[c].status = "none"
  /\ request[c] = "approve" =>
       cli[c] \in {"approving"} \cup Ended /\ confirmed[c] # Nobody
  /\ request[c] = "reject" => cli[c] \in {"rejecting"} \cup Ended
  /\ c \in creating =>
       /\ cli[c] \in {"creating"} \cup Ended /\ response[c] = "none"
       /\ c \in clients \/ cli[c] \in Ended
  /\ response[c] # "none" => cli[c] \in Requesting \cup Ended
  /\ response[c] = "created" => cli[c] \in {"creating"} \cup Ended
  /\ response[c] = "approved" => device[c] # Nobody
  /\ response[c] = "rejected" => row[c].status = "rejected"

\* The claim of a pairing, and those who have heard of it.
ClaimInv == \A c \in Clis :
  /\ row[c].status \in {"none", "offered"} => row[c].claimant = Nobody
  /\ row[c].status = "awaiting_approval" => row[c].claimant # Nobody
  /\ claims[c] \subseteq {row[c].claimant}
  /\ asked[c] \in {Nobody, row[c].claimant}
  /\ confirmed[c] \in {Nobody, asked[c]}
  /\ cli[c] = "confirming" => asked[c] # Nobody
  /\ device[c] # Nobody => device[c] = row[c].claimant
  /\ device[c] # Nobody <=> row[c].status = "approved"

\* A browser that waits for the approval of a pairing has claimed it.
WaitInv == \A b \in Browsers :
  /\ browser[b].at \in {"waiting", "paired"} => browser[b].code \in Clis
  /\ browser[b].at = "waiting" => row[browser[b].code].claimant = b

\* Rows are made by a run of the daemon that has begun.
RunInv ==
  /\ ~up => run < MaxStops
  /\ \A c \in Clis : row[c].run <= run

Inv == /\ TypeOK /\ StageInv /\ ClaimInv /\ WaitInv /\ RunInv
       /\ RegisteredIsConfirmed /\ PendingIsOwned /\ RejectedByItsOwner
       /\ EndsAgree
-----------------------------------------------------------------------------
\* rejectPairing changes nothing but the status, and only of what is pending.
LEMMA RejectedRows ==
  ASSUME TypeOK, NEW gone
  PROVE  /\ Rejected(gone) \in [Clis -> Rows]
         /\ \A c \in Clis :
              /\ Rejected(gone)[c].claimant = row[c].claimant
              /\ Rejected(gone)[c].run = row[c].run
              /\ Rejected(gone)[c].live = row[c].live
              /\ Rejected(gone)[c].status =
                   IF c \in gone /\ Pending(c) THEN "rejected"
                   ELSE row[c].status
<1>1. \A c \in Clis :
        /\ [row[c] EXCEPT !.status = "rejected"] \in Rows
        /\ [row[c] EXCEPT !.status = "rejected"].claimant = row[c].claimant
        /\ [row[c] EXCEPT !.status = "rejected"].run = row[c].run
        /\ [row[c] EXCEPT !.status = "rejected"].live = row[c].live
        /\ [row[c] EXCEPT !.status = "rejected"].status = "rejected"
  BY DEF TypeOK, Rows, Statuses
<1>2. \A c \in Clis : row[c] \in Rows BY DEF TypeOK
<1>q. QED BY <1>1, <1>2 DEF Rejected

\* A claim, an approval and an expiry change one row.
LEMMA ChangedRow ==
  ASSUME TypeOK, NEW c \in Clis, NEW r \in Rows,
         row' = [row EXCEPT ![c] = r]
  PROVE  /\ row' \in [Clis -> Rows]
         /\ row'[c] = r
         /\ \A d \in Clis \ {c} : row'[d] = row[d]
BY DEF TypeOK

LEMMA ClaimedRow ==
  ASSUME TypeOK, NEW b \in Browsers, NEW c \in Clis, Claimable(c),
         ClaimPairing(b, c)
  PROVE  /\ row' \in [Clis -> Rows]
         /\ \A d \in Clis \ {c} : row'[d] = row[d]
         /\ row'[c].status = "awaiting_approval"
         /\ row'[c].claimant = b
         /\ row'[c].run = row[c].run
<1> DEFINE r == [row[c] EXCEPT
                !.status = "awaiting_approval", !.claimant = b, !.live = TRUE]
<1>1. row[c] \in Rows BY DEF TypeOK
<1>2. /\ r \in Rows /\ r.status = "awaiting_approval" /\ r.claimant = b
      /\ r.run = row[c].run
  BY <1>1 DEF Rows, Statuses
<1>3. row' = [row EXCEPT ![c] = r] BY DEF ClaimPairing, TypeOK
<1> HIDE DEF r
<1>q. QED BY <1>2, <1>3, ChangedRow

LEMMA ApprovedRow ==
  ASSUME TypeOK, NEW c \in Clis, Approvable(c), ApprovePairing(c)
  PROVE  /\ row' \in [Clis -> Rows]
         /\ \A d \in Clis \ {c} : row'[d] = row[d]
         /\ row'[c].status = "approved"
         /\ row'[c].claimant = row[c].claimant
         /\ row'[c].run = row[c].run
<1> DEFINE r == [row[c] EXCEPT !.status = "approved"]
<1>1. row[c] \in Rows BY DEF TypeOK
<1>2. /\ r \in Rows /\ r.status = "approved" /\ r.claimant = row[c].claimant
      /\ r.run = row[c].run
  BY <1>1 DEF Rows, Statuses
<1>3. row' = [row EXCEPT ![c] = r] BY DEF ApprovePairing, TypeOK
<1> HIDE DEF r
<1>q. QED BY <1>2, <1>3, ChangedRow

LEMMA ExpiredRow ==
  ASSUME TypeOK, NEW c \in Clis, Expire(c)
  PROVE  /\ row' \in [Clis -> Rows]
         /\ \A d \in Clis :
              /\ row'[d].status = row[d].status
              /\ row'[d].claimant = row[d].claimant
              /\ row'[d].run = row[d].run
<1> DEFINE r == [row[c] EXCEPT !.live = FALSE]
<1>1. row[c] \in Rows BY DEF TypeOK
<1>2. /\ r \in Rows /\ r.status = row[c].status
      /\ r.claimant = row[c].claimant /\ r.run = row[c].run
  BY <1>1 DEF Rows
<1>3. row' = [row EXCEPT ![c] = r] BY DEF Expire, TypeOK
<1> HIDE DEF r
<1>q. QED BY <1>2, <1>3, ChangedRow

\* A poll changes no more than the status of an overdue claim.
LEMMA PolledRow ==
  ASSUME TypeOK, NEW b \in Browsers, PollPairing(b)
  PROVE  /\ row' \in [Clis -> Rows]
         /\ \A d \in Clis :
              /\ row'[d].claimant = row[d].claimant
              /\ row'[d].run = row[d].run
              /\ row'[d].status = row[d].status \/ row'[d].status = "expired"
<1> DEFINE c == browser[b].code
           r == [row[c] EXCEPT !.status = "expired"]
<1>1. CASE row' = row BY <1>1 DEF TypeOK
<1>2. CASE row' # row
  <2>1. row' = [row EXCEPT ![c].status = "expired"] BY <1>2 DEF PollPairing
  <2>2. c \in Clis BY <1>2, <2>1 DEF TypeOK
  <2>3. row[c] \in Rows BY <2>2 DEF TypeOK
  <2>4. /\ r \in Rows /\ r.status = "expired"
        /\ r.claimant = row[c].claimant /\ r.run = row[c].run
    BY <2>3 DEF Rows, Statuses
  <2>5. row' = [row EXCEPT ![c] = r] BY <2>1, <2>2 DEF TypeOK
  <2> HIDE DEF r, c
  <2>q. QED BY <2>2, <2>4, <2>5, ChangedRow
<1>q. QED BY <1>1, <1>2

\* Every step keeps the variables in their types.
LEMMA Types ==
  ASSUME TypeOK, RunInv, [Next]_vars
  PROVE  TypeOK'
<1> USE NobodyAssumption, MaxStopsAssumption
<1>1. ASSUME NEW c \in Clis, Connect(c)
      PROVE  TypeOK'
  BY <1>1 DEF Connect, store, Writes, TypeOK, Rows, Statuses, Phases,
    Requesting, Ended, RunInv
<1>2. ASSUME NEW c \in Clis, Receive(c)
      PROVE  TypeOK'
  BY <1>2 DEF Receive, daemon, store, TypeOK, Rows, Statuses, Phases,
    Requesting, Ended, RunInv
<1>3. ASSUME NEW c \in Clis, ShowPairing(c)
      PROVE  TypeOK'
  BY <1>3 DEF ShowPairing, daemon, store, wire, TypeOK, Rows, Statuses,
    Phases, Requesting, Ended, RunInv
<1>4. ASSUME NEW c \in Clis, Ask(c)
      PROVE  TypeOK'
  BY <1>4 DEF Ask, daemon, store, TypeOK, Rows, Statuses, Phases, Requesting,
    Ended, RunInv
<1>5. ASSUME NEW c \in Clis, UserAnswers(c)
      PROVE  TypeOK'
  BY <1>5 DEF UserAnswers, daemon, store, Writes, TypeOK, Rows, Statuses,
    Phases, Requesting, Ended, RunInv
<1>6. ASSUME NEW c \in Clis, Fails(c)
      PROVE  TypeOK'
  BY <1>6 DEF Fails, daemon, store, wire, TypeOK, Rows, Statuses, Phases,
    Requesting, Ended, RunInv
<1>7. ASSUME NEW c \in Clis, CreatePairing(c)
      PROVE  TypeOK'
  BY <1>7 DEF CreatePairing, terminal, Handles, Writes, TypeOK, Rows,
    Statuses, Phases, Requesting, Ended, RunInv
<1>8. ASSUME NEW c \in Clis, PairingCreated(c)
      PROVE  TypeOK'
  <2>1. /\ Rejected({c}) \in [Clis -> Rows]
        /\ \A d \in Clis :
             /\ Rejected({c})[d].claimant = row[d].claimant
             /\ Rejected({c})[d].run = row[d].run
             /\ Rejected({c})[d].status =
                  IF d \in {c} /\ Pending(d) THEN "rejected"
                  ELSE row[d].status
    BY RejectedRows
  <2>2. CASE Disconnected(c)
    <3>1. /\ row' = Rejected({c}) /\ creating' = creating \ {c}
          /\ c \in creating /\ c \notin clients /\ up
          /\ UNCHANGED <<run, up, clients, owners, device, request, response,
                         claims, terminal, browser>>
      BY <1>8, <2>2 DEF PairingCreated, Disconnected
    <3>q. QED BY <2>1, <3>1 DEF terminal, RunInv, TypeOK, Ended
  <2>3. CASE ~Disconnected(c)
    BY <1>8, <2>3 DEF PairingCreated, Disconnected, Sends, terminal, RunInv,
      TypeOK, Rows, Statuses, Phases, Requesting, Ended
  <2>q. QED BY <2>2, <2>3
<1>9. ASSUME NEW c \in Clis, ApprovePairing(c)
      PROVE  TypeOK'
  <2>1. CASE Approvable(c)
    <3>1. /\ row' \in [Clis -> Rows] /\ row'[c].status = "approved"
          /\ row'[c].claimant = row[c].claimant /\ row'[c].run = row[c].run
          /\ \A d \in Clis \ {c} : row'[d] = row[d]
      BY <1>9, <2>1, ApprovedRow
    <3>2. /\ device' = [device EXCEPT ![c] = row[c].claimant]
          /\ owners' = owners \ {c} /\ Sends(c, "approved")
          /\ request[c] = "approve" /\ c \in clients
          /\ row[c].status = "awaiting_approval"
          /\ request' = [request EXCEPT ![c] = "none"]
          /\ UNCHANGED <<run, up, clients, creating, claims, terminal,
            browser>>
      BY <1>9, <2>1 DEF ApprovePairing, Approvable, Handles, Writes
    <3>q. QED
      BY <3>1, <3>2 DEF Sends, terminal, RunInv, TypeOK, Rows, Statuses,
        Phases, Requesting, Ended
  <2>2. CASE ~Approvable(c)
    BY <1>9, <2>2 DEF ApprovePairing, Handles, Writes, Sends, store,
      terminal, RunInv, TypeOK, Rows, Statuses, Phases, Requesting, Ended
  <2>q. QED BY <2>1, <2>2
<1>10. ASSUME NEW c \in Clis, RejectPairing(c)
      PROVE  TypeOK'
  <2>1. /\ Rejected({c}) \in [Clis -> Rows]
        /\ \A d \in Clis :
             /\ Rejected({c})[d].claimant = row[d].claimant
             /\ Rejected({c})[d].run = row[d].run
             /\ Rejected({c})[d].status =
                  IF d \in {c} /\ Pending(d) THEN "rejected"
                  ELSE row[d].status
    BY RejectedRows
  <2>q. QED
    BY <1>10, <2>1 DEF RejectPairing, Handles, Writes, Pending, Sends,
      terminal, RunInv, TypeOK, Rows, Statuses, Phases, Requesting, Ended
<1>11. ASSUME NEW c \in Clis, Close(c)
      PROVE  TypeOK'
  <2>1. /\ Rejected(OwnedBy(c)) \in [Clis -> Rows]
        /\ \A d \in Clis :
             /\ Rejected(OwnedBy(c))[d].claimant = row[d].claimant
             /\ Rejected(OwnedBy(c))[d].run = row[d].run
             /\ Rejected(OwnedBy(c))[d].status =
                  IF d \in OwnedBy(c) /\ Pending(d) THEN "rejected"
                  ELSE row[d].status
    BY RejectedRows
  <2>q. QED
    BY <1>11, <2>1 DEF Close, OwnedBy, Pending, wire, terminal, RunInv,
      TypeOK, Rows, Statuses, Phases, Requesting, Ended
<1>12. ASSUME NEW c \in Clis, Expire(c)
      PROVE  TypeOK'
  BY <1>12, ExpiredRow DEF Expire, daemon, wire, terminal, RunInv, TypeOK,
    Rows, Statuses, Phases, Requesting, Ended
<1>13. ASSUME NEW b \in Browsers, PollPairing(b)
      PROVE  TypeOK'
  <2>1. row' \in [Clis -> Rows] BY <1>13, PolledRow
  <2>2. browser' \in [Browsers -> [at : {"idle", "waiting", "paired", "failed"},
                                   code : Clis \cup {Nobody}]]
    BY <1>13 DEF PollPairing, TypeOK
  <2>3. UNCHANGED <<daemon, device, wire, terminal>> BY <1>13 DEF PollPairing
  <2>q. QED BY <2>1, <2>2, <2>3 DEF daemon, wire, terminal, TypeOK
<1>14. ASSUME NEW b \in Browsers, Leave(b)
      PROVE  TypeOK'
  BY <1>14 DEF Leave, daemon, store, wire, terminal, TypeOK, Rows, Statuses,
    Phases, Requesting, Ended, RunInv
<1>15. ASSUME NEW b \in Browsers, NEW c \in Clis, ClaimPairing(b, c)
      PROVE  TypeOK'
  <2>1. CASE Claimable(c)
    <3>1. /\ row' \in [Clis -> Rows] /\ row'[c].status = "awaiting_approval"
          /\ row'[c].claimant = b /\ row'[c].run = row[c].run
          /\ \A d \in Clis \ {c} : row'[d] = row[d]
      BY <1>15, <2>1, ClaimedRow
    <3>2. /\ claims' = Notified(c, b) /\ UNCHANGED <<daemon, device, request,
                                                    response, terminal>>
          /\ \E at \in {"waiting", "failed"} :
               browser' = [browser EXCEPT ![b] = [at |-> at, code |-> c]]
          /\ row[c].status = "offered" /\ browser[b].at = "idle"
      BY <1>15, <2>1 DEF ClaimPairing, Claimable
    <3>q. QED
      BY <3>1, <3>2 DEF Notified, daemon, terminal, RunInv, TypeOK, Rows,
        Statuses, Phases, Requesting, Ended
  <2>2. CASE ~Claimable(c)
    BY <1>15, <2>2 DEF ClaimPairing, daemon, terminal, RunInv, TypeOK, Rows,
      Statuses, Phases, Requesting, Ended
  <2>q. QED BY <2>1, <2>2
<1>16. CASE Stop
  BY <1>16 DEF Stop, store, terminal, TypeOK, Rows, Statuses, Phases,
    Requesting, Ended, RunInv
<1>17. CASE Start
  BY <1>17 DEF Start, store, wire, terminal, TypeOK, Rows, Statuses, Phases,
    Requesting, Ended, RunInv
<1>18. CASE UNCHANGED vars
  BY <1>18 DEF vars, daemon, store, wire, terminal, TypeOK, Rows, Statuses,
    Phases, Requesting, Ended, RunInv
<1>q. QED BY <1>1, <1>2, <1>3, <1>4, <1>5, <1>6, <1>7, <1>8, <1>9, <1>10,
  <1>11, <1>12, <1>13, <1>14, <1>15, <1>16, <1>17, <1>18 DEF Next

\* What is on its way fits the phase of its CLI.
LEMMA Stages ==
  ASSUME TypeOK, StageInv, ClaimInv, RejectedByItsOwner, [Next]_vars
  PROVE  StageInv'
<1> USE NobodyAssumption, MaxStopsAssumption
<1>1. ASSUME NEW c \in Clis, Connect(c)
      PROVE  StageInv'
  BY <1>1 DEF Connect, store, Writes, StageInv, TypeOK, Rows, Statuses,
    Phases, Requesting, Ended
<1>2. ASSUME NEW c \in Clis, Receive(c)
      PROVE  StageInv'
  BY <1>2 DEF Receive, daemon, store, StageInv, TypeOK, Rows, Statuses,
    Phases, Requesting, Ended
<1>3. ASSUME NEW c \in Clis, ShowPairing(c)
      PROVE  StageInv'
  BY <1>3 DEF ShowPairing, daemon, store, wire, StageInv, TypeOK, Rows,
    Statuses, Phases, Requesting, Ended
<1>4. ASSUME NEW c \in Clis, Ask(c)
      PROVE  StageInv'
  BY <1>4 DEF Ask, daemon, store, StageInv, TypeOK, Rows, Statuses, Phases,
    Requesting, Ended
<1>5. ASSUME NEW c \in Clis, UserAnswers(c)
      PROVE  StageInv'
  <2>1. /\ request[c] = "none"
        /\ response[c] = "none" /\ c \notin creating /\ asked[c] # Nobody
        /\ row[c].status # "rejected"
    BY <1>5 DEF UserAnswers, StageInv, ClaimInv, RejectedByItsOwner, TypeOK,
      Rows, Statuses, Phases, Requesting, Ended
  <2>q. QED
    BY <1>5, <2>1 DEF UserAnswers, Writes, daemon, store, StageInv, TypeOK,
      Rows, Statuses, Phases, Requesting, Ended
<1>6. ASSUME NEW c \in Clis, Fails(c)
      PROVE  StageInv'
  BY <1>6 DEF Fails, daemon, store, wire, StageInv, TypeOK, Rows, Statuses,
    Phases, Requesting, Ended
<1>7. ASSUME NEW c \in Clis, CreatePairing(c)
      PROVE  StageInv'
  BY <1>7 DEF CreatePairing, terminal, Handles, Writes, StageInv, TypeOK,
    Rows, Statuses, Phases, Requesting, Ended
<1>8. ASSUME NEW c \in Clis, PairingCreated(c)
      PROVE  StageInv'
  BY <1>8 DEF PairingCreated, terminal, Rejected, Pending, Disconnected,
    Sends, StageInv, TypeOK, Rows, Statuses, Phases, Requesting, Ended
<1>9. ASSUME NEW c \in Clis, ApprovePairing(c)
      PROVE  StageInv'
  <2>1. CASE Approvable(c)
    <3>1. /\ row' \in [Clis -> Rows] /\ row'[c].status = "approved"
          /\ row'[c].claimant = row[c].claimant /\ row'[c].run = row[c].run
          /\ \A d \in Clis \ {c} : row'[d] = row[d]
      BY <1>9, <2>1, ApprovedRow
    <3>2. /\ device' = [device EXCEPT ![c] = row[c].claimant]
          /\ owners' = owners \ {c} /\ Sends(c, "approved")
          /\ request[c] = "approve" /\ c \in clients
          /\ row[c].status = "awaiting_approval"
          /\ request' = [request EXCEPT ![c] = "none"]
          /\ UNCHANGED <<run, up, clients, creating, claims, terminal,
            browser>>
      BY <1>9, <2>1 DEF ApprovePairing, Approvable, Handles, Writes
    <3>3. /\ response[c] = "none" /\ c \notin creating
          /\ cli[c] \in {"approving"} \cup Ended
          /\ row[c].claimant # Nobody
      BY <3>2 DEF StageInv, ClaimInv
    <3>q. QED
      BY <3>1, <3>2, <3>3 DEF Sends, terminal, StageInv, TypeOK, Rows,
        Statuses, Phases, Requesting, Ended
  <2>2. CASE ~Approvable(c)
    BY <1>9, <2>2 DEF ApprovePairing, Handles, Writes, Sends, store,
      terminal, StageInv, TypeOK, Rows, Statuses, Phases, Requesting, Ended
  <2>q. QED BY <2>1, <2>2
<1>10. ASSUME NEW c \in Clis, RejectPairing(c)
      PROVE  StageInv'
  BY <1>10 DEF RejectPairing, terminal, Handles, Writes, Rejected, Pending,
    Sends, StageInv, TypeOK, Rows, Statuses, Phases, Requesting, Ended
<1>11. ASSUME NEW c \in Clis, Close(c)
      PROVE  StageInv'
  BY <1>11 DEF Close, wire, terminal, Rejected, Pending, OwnedBy, StageInv,
    TypeOK, Rows, Statuses, Phases, Requesting, Ended
<1>12. ASSUME NEW c \in Clis, Expire(c)
      PROVE  StageInv'
  BY <1>12 DEF Expire, daemon, wire, terminal, StageInv, TypeOK, Rows,
    Statuses, Phases, Requesting, Ended
<1>13. ASSUME NEW b \in Browsers, PollPairing(b)
      PROVE  StageInv'
  BY <1>13 DEF PollPairing, daemon, store, wire, terminal, Granted, StageInv,
    TypeOK, Rows, Statuses, Phases, Requesting, Ended
<1>14. ASSUME NEW b \in Browsers, Leave(b)
      PROVE  StageInv'
  BY <1>14 DEF Leave, daemon, store, wire, terminal, StageInv, TypeOK, Rows,
    Statuses, Phases, Requesting, Ended
<1>15. ASSUME NEW b \in Browsers, NEW c \in Clis, ClaimPairing(b, c)
      PROVE  StageInv'
  <2>1. UNCHANGED <<cli, request, response, creating, clients, confirmed, device>>
    BY <1>15 DEF ClaimPairing, daemon, terminal
  <2>2. \A d \in Clis : /\ row[d].status \in {"none", "rejected"} => row'[d] = row[d]
                        /\ row'[d].status = "none" => row[d].status = "none"
    <3>1. CASE Claimable(c)
      BY <1>15, <3>1, ClaimedRow DEF Claimable
    <3>2. CASE ~Claimable(c)
      BY <1>15, <3>2 DEF ClaimPairing
    <3>q. QED BY <3>1, <3>2
  <2>q. QED BY <2>1, <2>2 DEF StageInv
<1>16. CASE Stop
  BY <1>16 DEF Stop, store, terminal, StageInv, TypeOK, Rows, Statuses,
    Phases, Requesting, Ended
<1>17. CASE Start
  BY <1>17 DEF Start, store, wire, terminal, StageInv, TypeOK, Rows,
    Statuses, Phases, Requesting, Ended
<1>18. CASE UNCHANGED vars
  BY <1>18 DEF vars, daemon, store, wire, terminal, StageInv, TypeOK, Rows,
    Statuses, Phases, Requesting, Ended
<1>q. QED BY <1>1, <1>2, <1>3, <1>4, <1>5, <1>6, <1>7, <1>8, <1>9, <1>10,
  <1>11, <1>12, <1>13, <1>14, <1>15, <1>16, <1>17, <1>18 DEF Next

\* All who heard of a claim heard of the same one.
LEMMA Claims ==
  ASSUME TypeOK, StageInv, ClaimInv, [Next]_vars
  PROVE  ClaimInv'
<1> USE NobodyAssumption, MaxStopsAssumption
<1>1. ASSUME NEW c \in Clis, Connect(c)
      PROVE  ClaimInv'
  BY <1>1 DEF Connect, store, Writes, StageInv, ClaimInv, TypeOK, Rows,
    Statuses, Phases, Requesting, Ended
<1>2. ASSUME NEW c \in Clis, Receive(c)
      PROVE  ClaimInv'
  BY <1>2 DEF Receive, daemon, store, StageInv, ClaimInv, TypeOK, Rows,
    Statuses, Phases, Requesting, Ended
<1>3. ASSUME NEW c \in Clis, ShowPairing(c)
      PROVE  ClaimInv'
  BY <1>3 DEF ShowPairing, daemon, store, wire, StageInv, ClaimInv, TypeOK,
    Rows, Statuses, Phases, Requesting, Ended
<1>4. ASSUME NEW c \in Clis, Ask(c)
      PROVE  ClaimInv'
  BY <1>4 DEF Ask, daemon, store, StageInv, ClaimInv, TypeOK, Rows, Statuses,
    Phases, Requesting, Ended
<1>5. ASSUME NEW c \in Clis, UserAnswers(c)
      PROVE  ClaimInv'
  BY <1>5 DEF UserAnswers, daemon, store, Writes, StageInv, ClaimInv, TypeOK,
    Rows, Statuses, Phases, Requesting, Ended
<1>6. ASSUME NEW c \in Clis, Fails(c)
      PROVE  ClaimInv'
  BY <1>6 DEF Fails, daemon, store, wire, StageInv, ClaimInv, TypeOK, Rows,
    Statuses, Phases, Requesting, Ended
<1>7. ASSUME NEW c \in Clis, CreatePairing(c)
      PROVE  ClaimInv'
  BY <1>7 DEF CreatePairing, terminal, Handles, Writes, StageInv, ClaimInv,
    TypeOK, Rows, Statuses, Phases, Requesting, Ended
<1>8. ASSUME NEW c \in Clis, PairingCreated(c)
      PROVE  ClaimInv'
  BY <1>8 DEF PairingCreated, terminal, Rejected, Pending, Disconnected,
    Sends, StageInv, ClaimInv, TypeOK, Rows, Statuses, Phases, Requesting,
    Ended
<1>9. ASSUME NEW c \in Clis, ApprovePairing(c)
      PROVE  ClaimInv'
  BY <1>9 DEF ApprovePairing, terminal, store, Handles, Writes, Approvable,
    Sends, StageInv, ClaimInv, TypeOK, Rows, Statuses, Phases, Requesting,
    Ended
<1>10. ASSUME NEW c \in Clis, RejectPairing(c)
      PROVE  ClaimInv'
  BY <1>10 DEF RejectPairing, terminal, Handles, Writes, Rejected, Pending,
    Sends, StageInv, ClaimInv, TypeOK, Rows, Statuses, Phases, Requesting,
    Ended
<1>11. ASSUME NEW c \in Clis, Close(c)
      PROVE  ClaimInv'
  BY <1>11 DEF Close, wire, terminal, Rejected, Pending, OwnedBy, StageInv,
    ClaimInv, TypeOK, Rows, Statuses, Phases, Requesting, Ended
<1>12. ASSUME NEW c \in Clis, Expire(c)
      PROVE  ClaimInv'
  BY <1>12 DEF Expire, daemon, wire, terminal, StageInv, ClaimInv, TypeOK,
    Rows, Statuses, Phases, Requesting, Ended
<1>13. ASSUME NEW b \in Browsers, PollPairing(b)
      PROVE  ClaimInv'
  BY <1>13 DEF PollPairing, daemon, store, wire, terminal, Granted, StageInv,
    ClaimInv, TypeOK, Rows, Statuses, Phases, Requesting, Ended
<1>14. ASSUME NEW b \in Browsers, Leave(b)
      PROVE  ClaimInv'
  BY <1>14 DEF Leave, daemon, store, wire, terminal, StageInv, ClaimInv,
    TypeOK, Rows, Statuses, Phases, Requesting, Ended
<1>15. ASSUME NEW b \in Browsers, NEW c \in Clis, ClaimPairing(b, c)
      PROVE  ClaimInv'
  <2>1. CASE Claimable(c)
    <3>1. /\ row' \in [Clis -> Rows] /\ row'[c].status = "awaiting_approval"
          /\ row'[c].claimant = b /\ row'[c].run = row[c].run
          /\ \A d \in Clis \ {c} : row'[d] = row[d]
      BY <1>15, <2>1, ClaimedRow
    <3>2. /\ claims' = Notified(c, b) /\ UNCHANGED <<daemon, device, request,
                                                    response, terminal>>
          /\ \E at \in {"waiting", "failed"} :
               browser' = [browser EXCEPT ![b] = [at |-> at, code |-> c]]
          /\ row[c].status = "offered" /\ browser[b].at = "idle"
      BY <1>15, <2>1 DEF ClaimPairing, Claimable
    <3>q. QED
      BY <3>1, <3>2 DEF Notified, daemon, terminal, StageInv, ClaimInv,
        TypeOK, Rows, Statuses, Phases, Requesting, Ended
  <2>2. CASE ~Claimable(c)
    BY <1>15, <2>2 DEF ClaimPairing, daemon, terminal, StageInv, ClaimInv,
      TypeOK, Rows, Statuses, Phases, Requesting, Ended
  <2>q. QED BY <2>1, <2>2
<1>16. CASE Stop
  BY <1>16 DEF Stop, store, terminal, StageInv, ClaimInv, TypeOK, Rows,
    Statuses, Phases, Requesting, Ended
<1>17. CASE Start
  BY <1>17 DEF Start, store, wire, terminal, StageInv, ClaimInv, TypeOK,
    Rows, Statuses, Phases, Requesting, Ended
<1>18. CASE UNCHANGED vars
  BY <1>18 DEF vars, daemon, store, wire, terminal, StageInv, ClaimInv,
    TypeOK, Rows, Statuses, Phases, Requesting, Ended
<1>q. QED BY <1>1, <1>2, <1>3, <1>4, <1>5, <1>6, <1>7, <1>8, <1>9, <1>10,
  <1>11, <1>12, <1>13, <1>14, <1>15, <1>16, <1>17, <1>18 DEF Next

\* A claim is not replaced while its browser waits.
LEMMA Waits ==
  ASSUME TypeOK, StageInv, ClaimInv, WaitInv, [Next]_vars
  PROVE  WaitInv'
<1> USE NobodyAssumption, MaxStopsAssumption
<1>1. ASSUME NEW c \in Clis, Connect(c)
      PROVE  WaitInv'
  BY <1>1 DEF Connect, store, Writes, StageInv, ClaimInv, WaitInv, TypeOK,
    Rows, Statuses, Phases, Requesting, Ended
<1>2. ASSUME NEW c \in Clis, Receive(c)
      PROVE  WaitInv'
  BY <1>2 DEF Receive, daemon, store, StageInv, ClaimInv, WaitInv, TypeOK,
    Rows, Statuses, Phases, Requesting, Ended
<1>3. ASSUME NEW c \in Clis, ShowPairing(c)
      PROVE  WaitInv'
  BY <1>3 DEF ShowPairing, daemon, store, wire, StageInv, ClaimInv, WaitInv,
    TypeOK, Rows, Statuses, Phases, Requesting, Ended
<1>4. ASSUME NEW c \in Clis, Ask(c)
      PROVE  WaitInv'
  BY <1>4 DEF Ask, daemon, store, StageInv, ClaimInv, WaitInv, TypeOK, Rows,
    Statuses, Phases, Requesting, Ended
<1>5. ASSUME NEW c \in Clis, UserAnswers(c)
      PROVE  WaitInv'
  BY <1>5 DEF UserAnswers, daemon, store, Writes, StageInv, ClaimInv,
    WaitInv, TypeOK, Rows, Statuses, Phases, Requesting, Ended
<1>6. ASSUME NEW c \in Clis, Fails(c)
      PROVE  WaitInv'
  BY <1>6 DEF Fails, daemon, store, wire, StageInv, ClaimInv, WaitInv,
    TypeOK, Rows, Statuses, Phases, Requesting, Ended
<1>7. ASSUME NEW c \in Clis, CreatePairing(c)
      PROVE  WaitInv'
  BY <1>7 DEF CreatePairing, terminal, Handles, Writes, StageInv, ClaimInv,
    WaitInv, TypeOK, Rows, Statuses, Phases, Requesting, Ended
<1>8. ASSUME NEW c \in Clis, PairingCreated(c)
      PROVE  WaitInv'
  BY <1>8 DEF PairingCreated, terminal, Rejected, Pending, Disconnected,
    Sends, StageInv, ClaimInv, WaitInv, TypeOK, Rows, Statuses, Phases,
    Requesting, Ended
<1>9. ASSUME NEW c \in Clis, ApprovePairing(c)
      PROVE  WaitInv'
  <2>1. CASE Approvable(c)
    <3>1. /\ row' \in [Clis -> Rows] /\ row'[c].status = "approved"
          /\ row'[c].claimant = row[c].claimant /\ row'[c].run = row[c].run
          /\ \A d \in Clis \ {c} : row'[d] = row[d]
      BY <1>9, <2>1, ApprovedRow
    <3>2. /\ device' = [device EXCEPT ![c] = row[c].claimant]
          /\ owners' = owners \ {c} /\ Sends(c, "approved")
          /\ request[c] = "approve" /\ c \in clients
          /\ row[c].status = "awaiting_approval"
          /\ request' = [request EXCEPT ![c] = "none"]
          /\ UNCHANGED <<run, up, clients, creating, claims, terminal,
            browser>>
      BY <1>9, <2>1 DEF ApprovePairing, Approvable, Handles, Writes
    <3>q. QED
      BY <3>1, <3>2 DEF Sends, terminal, StageInv, ClaimInv, WaitInv, TypeOK,
        Rows, Statuses, Phases, Requesting, Ended
  <2>2. CASE ~Approvable(c)
    BY <1>9, <2>2 DEF ApprovePairing, Handles, Writes, Sends, store,
      terminal, StageInv, ClaimInv, WaitInv, TypeOK, Rows, Statuses, Phases,
      Requesting, Ended
  <2>q. QED BY <2>1, <2>2
<1>10. ASSUME NEW c \in Clis, RejectPairing(c)
      PROVE  WaitInv'
  BY <1>10 DEF RejectPairing, terminal, Handles, Writes, Rejected, Pending,
    Sends, StageInv, ClaimInv, WaitInv, TypeOK, Rows, Statuses, Phases,
    Requesting, Ended
<1>11. ASSUME NEW c \in Clis, Close(c)
      PROVE  WaitInv'
  BY <1>11 DEF Close, wire, terminal, Rejected, Pending, OwnedBy, StageInv,
    ClaimInv, WaitInv, TypeOK, Rows, Statuses, Phases, Requesting, Ended
<1>12. ASSUME NEW c \in Clis, Expire(c)
      PROVE  WaitInv'
  BY <1>12 DEF Expire, daemon, wire, terminal, StageInv, ClaimInv, WaitInv,
    TypeOK, Rows, Statuses, Phases, Requesting, Ended
<1>13. ASSUME NEW b \in Browsers, PollPairing(b)
      PROVE  WaitInv'
  BY <1>13 DEF PollPairing, daemon, store, wire, terminal, Granted, StageInv,
    ClaimInv, WaitInv, TypeOK, Rows, Statuses, Phases, Requesting, Ended
<1>14. ASSUME NEW b \in Browsers, Leave(b)
      PROVE  WaitInv'
  BY <1>14 DEF Leave, daemon, store, wire, terminal, StageInv, ClaimInv,
    WaitInv, TypeOK, Rows, Statuses, Phases, Requesting, Ended
<1>15. ASSUME NEW b \in Browsers, NEW c \in Clis, ClaimPairing(b, c)
      PROVE  WaitInv'
  <2>1. CASE Claimable(c)
    <3>1. /\ row' \in [Clis -> Rows] /\ row'[c].status = "awaiting_approval"
          /\ row'[c].claimant = b /\ row'[c].run = row[c].run
          /\ \A d \in Clis \ {c} : row'[d] = row[d]
      BY <1>15, <2>1, ClaimedRow
    <3>2. /\ claims' = Notified(c, b) /\ UNCHANGED <<daemon, device, request,
                                                    response, terminal>>
          /\ \E at \in {"waiting", "failed"} :
               browser' = [browser EXCEPT ![b] = [at |-> at, code |-> c]]
          /\ row[c].status = "offered" /\ browser[b].at = "idle"
      BY <1>15, <2>1 DEF ClaimPairing, Claimable
    <3>3. browser'[b].code = c /\ \A e \in Browsers \ {b} : browser'[e] = browser[e]
      BY <3>2 DEF TypeOK
    <3>4. \A e \in Browsers : browser[e].at = "waiting" => browser[e].code # c
      BY <3>2 DEF WaitInv, ClaimInv, TypeOK
    <3>q. QED
      BY <3>1, <3>3, <3>4 DEF WaitInv
  <2>2. CASE ~Claimable(c)
    <3>1. /\ browser' = [browser EXCEPT ![b] = [at |-> "failed", code |-> c]]
          /\ row' = row
      BY <1>15, <2>2 DEF ClaimPairing
    <3>q. QED BY <3>1 DEF WaitInv, TypeOK
  <2>q. QED BY <2>1, <2>2
<1>16. CASE Stop
  BY <1>16 DEF Stop, store, terminal, StageInv, ClaimInv, WaitInv, TypeOK,
    Rows, Statuses, Phases, Requesting, Ended
<1>17. CASE Start
  BY <1>17 DEF Start, store, wire, terminal, StageInv, ClaimInv, WaitInv,
    TypeOK, Rows, Statuses, Phases, Requesting, Ended
<1>18. CASE UNCHANGED vars
  BY <1>18 DEF vars, daemon, store, wire, terminal, StageInv, ClaimInv,
    WaitInv, TypeOK, Rows, Statuses, Phases, Requesting, Ended
<1>q. QED BY <1>1, <1>2, <1>3, <1>4, <1>5, <1>6, <1>7, <1>8, <1>9, <1>10,
  <1>11, <1>12, <1>13, <1>14, <1>15, <1>16, <1>17, <1>18 DEF Next

\* A new run is later than every row.
LEMMA Runs ==
  ASSUME TypeOK, RunInv, [Next]_vars
  PROVE  RunInv'
<1> USE NobodyAssumption, MaxStopsAssumption
<1>1. ASSUME NEW c \in Clis, Connect(c)
      PROVE  RunInv'
  BY <1>1 DEF Connect, store, Writes, RunInv, TypeOK, Rows, Statuses, Phases,
    Requesting, Ended
<1>2. ASSUME NEW c \in Clis, Receive(c)
      PROVE  RunInv'
  BY <1>2 DEF Receive, daemon, store, RunInv, TypeOK, Rows, Statuses, Phases,
    Requesting, Ended
<1>3. ASSUME NEW c \in Clis, ShowPairing(c)
      PROVE  RunInv'
  BY <1>3 DEF ShowPairing, daemon, store, wire, RunInv, TypeOK, Rows,
    Statuses, Phases, Requesting, Ended
<1>4. ASSUME NEW c \in Clis, Ask(c)
      PROVE  RunInv'
  BY <1>4 DEF Ask, daemon, store, RunInv, TypeOK, Rows, Statuses, Phases,
    Requesting, Ended
<1>5. ASSUME NEW c \in Clis, UserAnswers(c)
      PROVE  RunInv'
  BY <1>5 DEF UserAnswers, daemon, store, Writes, RunInv, TypeOK, Rows,
    Statuses, Phases, Requesting, Ended
<1>6. ASSUME NEW c \in Clis, Fails(c)
      PROVE  RunInv'
  BY <1>6 DEF Fails, daemon, store, wire, RunInv, TypeOK, Rows, Statuses,
    Phases, Requesting, Ended
<1>7. ASSUME NEW c \in Clis, CreatePairing(c)
      PROVE  RunInv'
  BY <1>7 DEF CreatePairing, terminal, Handles, Writes, RunInv, TypeOK, Rows,
    Statuses, Phases, Requesting, Ended
<1>8. ASSUME NEW c \in Clis, PairingCreated(c)
      PROVE  RunInv'
  <2>1. \A d \in Clis :
          /\ Rejected({c})[d].run = row[d].run
          /\ Rejected({c})[d].status =
               IF d \in {c} /\ Pending(d) THEN "rejected" ELSE row[d].status
    BY RejectedRows
  <2>q. QED
    BY <1>8, <2>1 DEF PairingCreated, terminal, Pending, Disconnected, RunInv,
      TypeOK
<1>9. ASSUME NEW c \in Clis, ApprovePairing(c)
      PROVE  RunInv'
  BY <1>9 DEF ApprovePairing, terminal, store, Handles, Writes, Approvable,
    Sends, RunInv, TypeOK, Rows, Statuses, Phases, Requesting, Ended
<1>10. ASSUME NEW c \in Clis, RejectPairing(c)
      PROVE  RunInv'
  BY <1>10 DEF RejectPairing, terminal, Handles, Writes, Rejected, Pending,
    Sends, RunInv, TypeOK, Rows, Statuses, Phases, Requesting, Ended
<1>11. ASSUME NEW c \in Clis, Close(c)
      PROVE  RunInv'
  BY <1>11 DEF Close, wire, terminal, Rejected, Pending, OwnedBy, RunInv,
    TypeOK, Rows, Statuses, Phases, Requesting, Ended
<1>12. ASSUME NEW c \in Clis, Expire(c)
      PROVE  RunInv'
  BY <1>12 DEF Expire, daemon, wire, terminal, RunInv, TypeOK, Rows,
    Statuses, Phases, Requesting, Ended
<1>13. ASSUME NEW b \in Browsers, PollPairing(b)
      PROVE  RunInv'
  BY <1>13 DEF PollPairing, daemon, store, wire, terminal, Granted, RunInv,
    TypeOK, Rows, Statuses, Phases, Requesting, Ended
<1>14. ASSUME NEW b \in Browsers, Leave(b)
      PROVE  RunInv'
  BY <1>14 DEF Leave, daemon, store, wire, terminal, RunInv, TypeOK, Rows,
    Statuses, Phases, Requesting, Ended
<1>15. ASSUME NEW b \in Browsers, NEW c \in Clis, ClaimPairing(b, c)
      PROVE  RunInv'
  <2>1. CASE Claimable(c)
    <3>1. /\ row' \in [Clis -> Rows] /\ row'[c].status = "awaiting_approval"
          /\ row'[c].claimant = b /\ row'[c].run = row[c].run
          /\ \A d \in Clis \ {c} : row'[d] = row[d]
      BY <1>15, <2>1, ClaimedRow
    <3>2. /\ claims' = Notified(c, b) /\ UNCHANGED <<daemon, device, request,
                                                    response, terminal>>
          /\ \E at \in {"waiting", "failed"} :
               browser' = [browser EXCEPT ![b] = [at |-> at, code |-> c]]
          /\ row[c].status = "offered" /\ browser[b].at = "idle"
      BY <1>15, <2>1 DEF ClaimPairing, Claimable
    <3>q. QED
      BY <3>1, <3>2 DEF Notified, daemon, terminal, RunInv, TypeOK, Rows,
        Statuses, Phases, Requesting, Ended
  <2>2. CASE ~Claimable(c)
    BY <1>15, <2>2 DEF ClaimPairing, daemon, terminal, RunInv, TypeOK, Rows,
      Statuses, Phases, Requesting, Ended
  <2>q. QED BY <2>1, <2>2
<1>16. CASE Stop
  BY <1>16 DEF Stop, store, terminal, RunInv, TypeOK, Rows, Statuses, Phases,
    Requesting, Ended
<1>17. CASE Start
  BY <1>17 DEF Start, store, wire, terminal, RunInv, TypeOK, Rows, Statuses,
    Phases, Requesting, Ended
<1>18. CASE UNCHANGED vars
  BY <1>18 DEF vars, daemon, store, wire, terminal, RunInv, TypeOK, Rows,
    Statuses, Phases, Requesting, Ended
<1>q. QED BY <1>1, <1>2, <1>3, <1>4, <1>5, <1>6, <1>7, <1>8, <1>9, <1>10,
  <1>11, <1>12, <1>13, <1>14, <1>15, <1>16, <1>17, <1>18 DEF Next

\* A device is registered with the key that was confirmed.
LEMMA Registers ==
  ASSUME TypeOK, StageInv, ClaimInv, RegisteredIsConfirmed, [Next]_vars
  PROVE  RegisteredIsConfirmed'
<1> USE NobodyAssumption, MaxStopsAssumption
<1>1. ASSUME NEW c \in Clis, Connect(c)
      PROVE  RegisteredIsConfirmed'
  BY <1>1 DEF Connect, store, Writes, RegisteredIsConfirmed, StageInv,
    ClaimInv, TypeOK, Rows, Statuses, Phases, Requesting, Ended
<1>2. ASSUME NEW c \in Clis, Receive(c)
      PROVE  RegisteredIsConfirmed'
  BY <1>2 DEF Receive, daemon, store, RegisteredIsConfirmed, StageInv,
    ClaimInv, TypeOK, Rows, Statuses, Phases, Requesting, Ended
<1>3. ASSUME NEW c \in Clis, ShowPairing(c)
      PROVE  RegisteredIsConfirmed'
  BY <1>3 DEF ShowPairing, daemon, store, wire, RegisteredIsConfirmed,
    StageInv, ClaimInv, TypeOK, Rows, Statuses, Phases, Requesting, Ended
<1>4. ASSUME NEW c \in Clis, Ask(c)
      PROVE  RegisteredIsConfirmed'
  BY <1>4 DEF Ask, daemon, store, RegisteredIsConfirmed, StageInv, ClaimInv,
    TypeOK, Rows, Statuses, Phases, Requesting, Ended
<1>5. ASSUME NEW c \in Clis, UserAnswers(c)
      PROVE  RegisteredIsConfirmed'
  BY <1>5 DEF UserAnswers, daemon, store, Writes, RegisteredIsConfirmed,
    StageInv, ClaimInv, TypeOK, Rows, Statuses, Phases, Requesting, Ended
<1>6. ASSUME NEW c \in Clis, Fails(c)
      PROVE  RegisteredIsConfirmed'
  BY <1>6 DEF Fails, daemon, store, wire, RegisteredIsConfirmed, StageInv,
    ClaimInv, TypeOK, Rows, Statuses, Phases, Requesting, Ended
<1>7. ASSUME NEW c \in Clis, CreatePairing(c)
      PROVE  RegisteredIsConfirmed'
  BY <1>7 DEF CreatePairing, terminal, Handles, Writes,
    RegisteredIsConfirmed, StageInv, ClaimInv, TypeOK, Rows, Statuses,
    Phases, Requesting, Ended
<1>8. ASSUME NEW c \in Clis, PairingCreated(c)
      PROVE  RegisteredIsConfirmed'
  BY <1>8 DEF PairingCreated, terminal, Rejected, Pending, Disconnected,
    Sends, RegisteredIsConfirmed, StageInv, ClaimInv, TypeOK, Rows, Statuses,
    Phases, Requesting, Ended
<1>9. ASSUME NEW c \in Clis, ApprovePairing(c)
      PROVE  RegisteredIsConfirmed'
  BY <1>9 DEF ApprovePairing, terminal, store, Handles, Writes, Approvable,
    Sends, RegisteredIsConfirmed, StageInv, ClaimInv, TypeOK, Rows, Statuses,
    Phases, Requesting, Ended
<1>10. ASSUME NEW c \in Clis, RejectPairing(c)
      PROVE  RegisteredIsConfirmed'
  BY <1>10 DEF RejectPairing, terminal, Handles, Writes, Rejected, Pending,
    Sends, RegisteredIsConfirmed, StageInv, ClaimInv, TypeOK, Rows, Statuses,
    Phases, Requesting, Ended
<1>11. ASSUME NEW c \in Clis, Close(c)
      PROVE  RegisteredIsConfirmed'
  BY <1>11 DEF Close, wire, terminal, Rejected, Pending, OwnedBy,
    RegisteredIsConfirmed, StageInv, ClaimInv, TypeOK, Rows, Statuses,
    Phases, Requesting, Ended
<1>12. ASSUME NEW c \in Clis, Expire(c)
      PROVE  RegisteredIsConfirmed'
  BY <1>12 DEF Expire, daemon, wire, terminal, RegisteredIsConfirmed,
    StageInv, ClaimInv, TypeOK, Rows, Statuses, Phases, Requesting, Ended
<1>13. ASSUME NEW b \in Browsers, PollPairing(b)
      PROVE  RegisteredIsConfirmed'
  BY <1>13 DEF PollPairing, daemon, store, wire, terminal, Granted,
    RegisteredIsConfirmed, StageInv, ClaimInv, TypeOK, Rows, Statuses,
    Phases, Requesting, Ended
<1>14. ASSUME NEW b \in Browsers, Leave(b)
      PROVE  RegisteredIsConfirmed'
  BY <1>14 DEF Leave, daemon, store, wire, terminal, RegisteredIsConfirmed,
    StageInv, ClaimInv, TypeOK, Rows, Statuses, Phases, Requesting, Ended
<1>15. ASSUME NEW b \in Browsers, NEW c \in Clis, ClaimPairing(b, c)
      PROVE  RegisteredIsConfirmed'
  BY <1>15 DEF ClaimPairing, daemon, terminal, Claimable, Notified,
    RegisteredIsConfirmed, StageInv, ClaimInv, TypeOK, Rows, Statuses,
    Phases, Requesting, Ended
<1>16. CASE Stop
  BY <1>16 DEF Stop, store, terminal, RegisteredIsConfirmed, StageInv,
    ClaimInv, TypeOK, Rows, Statuses, Phases, Requesting, Ended
<1>17. CASE Start
  BY <1>17 DEF Start, store, wire, terminal, RegisteredIsConfirmed, StageInv,
    ClaimInv, TypeOK, Rows, Statuses, Phases, Requesting, Ended
<1>18. CASE UNCHANGED vars
  BY <1>18 DEF vars, daemon, store, wire, terminal, RegisteredIsConfirmed,
    StageInv, ClaimInv, TypeOK, Rows, Statuses, Phases, Requesting, Ended
<1>q. QED BY <1>1, <1>2, <1>3, <1>4, <1>5, <1>6, <1>7, <1>8, <1>9, <1>10,
  <1>11, <1>12, <1>13, <1>14, <1>15, <1>16, <1>17, <1>18 DEF Next

\* A pending pairing keeps its owner, or ends with it.
LEMMA Owns ==
  ASSUME TypeOK, StageInv, RunInv, PendingIsOwned, [Next]_vars
  PROVE  PendingIsOwned'
<1> USE NobodyAssumption, MaxStopsAssumption
<1>1. ASSUME NEW c \in Clis, Connect(c)
      PROVE  PendingIsOwned'
  BY <1>1 DEF Connect, store, Writes, PendingIsOwned, Pending, StageInv,
    RunInv, TypeOK, Rows, Statuses, Phases, Requesting, Ended
<1>2. ASSUME NEW c \in Clis, Receive(c)
      PROVE  PendingIsOwned'
  BY <1>2 DEF Receive, daemon, store, PendingIsOwned, Pending, StageInv,
    RunInv, TypeOK, Rows, Statuses, Phases, Requesting, Ended
<1>3. ASSUME NEW c \in Clis, ShowPairing(c)
      PROVE  PendingIsOwned'
  BY <1>3 DEF ShowPairing, daemon, store, wire, PendingIsOwned, Pending,
    StageInv, RunInv, TypeOK, Rows, Statuses, Phases, Requesting, Ended
<1>4. ASSUME NEW c \in Clis, Ask(c)
      PROVE  PendingIsOwned'
  BY <1>4 DEF Ask, daemon, store, PendingIsOwned, Pending, StageInv, RunInv,
    TypeOK, Rows, Statuses, Phases, Requesting, Ended
<1>5. ASSUME NEW c \in Clis, UserAnswers(c)
      PROVE  PendingIsOwned'
  BY <1>5 DEF UserAnswers, daemon, store, Writes, PendingIsOwned, Pending,
    StageInv, RunInv, TypeOK, Rows, Statuses, Phases, Requesting, Ended
<1>6. ASSUME NEW c \in Clis, Fails(c)
      PROVE  PendingIsOwned'
  BY <1>6 DEF Fails, daemon, store, wire, PendingIsOwned, Pending, StageInv,
    RunInv, TypeOK, Rows, Statuses, Phases, Requesting, Ended
<1>7. ASSUME NEW c \in Clis, CreatePairing(c)
      PROVE  PendingIsOwned'
  BY <1>7 DEF CreatePairing, terminal, Handles, Writes, PendingIsOwned,
    Pending, StageInv, RunInv, TypeOK, Rows, Statuses, Phases, Requesting,
    Ended
<1>8. ASSUME NEW c \in Clis, PairingCreated(c)
      PROVE  PendingIsOwned'
  BY <1>8 DEF PairingCreated, terminal, Rejected, Pending, Disconnected,
    Sends, PendingIsOwned, StageInv, RunInv, TypeOK, Rows, Statuses, Phases,
    Requesting, Ended
<1>9. ASSUME NEW c \in Clis, ApprovePairing(c)
      PROVE  PendingIsOwned'
  <2>1. CASE Approvable(c)
    <3>1. /\ row'[c].status = "approved"
          /\ \A d \in Clis \ {c} : row'[d] = row[d]
      BY <1>9, <2>1, ApprovedRow
    <3>2. owners' = owners \ {c} /\ UNCHANGED <<run, up, clients, creating>>
      BY <1>9, <2>1 DEF ApprovePairing
    <3>q. QED BY <3>1, <3>2 DEF PendingIsOwned, Pending
  <2>2. CASE ~Approvable(c)
    BY <1>9, <2>2 DEF ApprovePairing, store, PendingIsOwned, Pending
  <2>q. QED BY <2>1, <2>2
<1>10. ASSUME NEW c \in Clis, RejectPairing(c)
      PROVE  PendingIsOwned'
  BY <1>10 DEF RejectPairing, terminal, Handles, Writes, Rejected, Pending,
    Sends, PendingIsOwned, StageInv, RunInv, TypeOK, Rows, Statuses, Phases,
    Requesting, Ended
<1>11. ASSUME NEW c \in Clis, Close(c)
      PROVE  PendingIsOwned'
  BY <1>11 DEF Close, wire, terminal, Rejected, Pending, OwnedBy,
    PendingIsOwned, StageInv, RunInv, TypeOK, Rows, Statuses, Phases,
    Requesting, Ended
<1>12. ASSUME NEW c \in Clis, Expire(c)
      PROVE  PendingIsOwned'
  BY <1>12 DEF Expire, daemon, wire, terminal, PendingIsOwned, Pending,
    StageInv, RunInv, TypeOK, Rows, Statuses, Phases, Requesting, Ended
<1>13. ASSUME NEW b \in Browsers, PollPairing(b)
      PROVE  PendingIsOwned'
  BY <1>13 DEF PollPairing, daemon, store, wire, terminal, Granted,
    PendingIsOwned, Pending, StageInv, RunInv, TypeOK, Rows, Statuses,
    Phases, Requesting, Ended
<1>14. ASSUME NEW b \in Browsers, Leave(b)
      PROVE  PendingIsOwned'
  BY <1>14 DEF Leave, daemon, store, wire, terminal, PendingIsOwned, Pending,
    StageInv, RunInv, TypeOK, Rows, Statuses, Phases, Requesting, Ended
<1>15. ASSUME NEW b \in Browsers, NEW c \in Clis, ClaimPairing(b, c)
      PROVE  PendingIsOwned'
  <2>1. CASE Claimable(c)
    <3>1. /\ row' \in [Clis -> Rows] /\ row'[c].status = "awaiting_approval"
          /\ row'[c].claimant = b /\ row'[c].run = row[c].run
          /\ \A d \in Clis \ {c} : row'[d] = row[d]
      BY <1>15, <2>1, ClaimedRow
    <3>2. /\ claims' = Notified(c, b) /\ UNCHANGED <<daemon, device, request,
                                                    response, terminal>>
          /\ \E at \in {"waiting", "failed"} :
               browser' = [browser EXCEPT ![b] = [at |-> at, code |-> c]]
          /\ row[c].status = "offered" /\ browser[b].at = "idle"
      BY <1>15, <2>1 DEF ClaimPairing, Claimable
    <3>q. QED
      BY <3>1, <3>2 DEF Notified, daemon, terminal, PendingIsOwned, Pending,
        StageInv, RunInv, TypeOK
  <2>2. CASE ~Claimable(c)
    BY <1>15, <2>2 DEF ClaimPairing, daemon, terminal, PendingIsOwned,
      Pending, StageInv, RunInv, TypeOK, Rows, Statuses, Phases, Requesting,
      Ended
  <2>q. QED BY <2>1, <2>2
<1>16. CASE Stop
  BY <1>16 DEF Stop, store, terminal, PendingIsOwned, Pending, StageInv,
    RunInv, TypeOK, Rows, Statuses, Phases, Requesting, Ended
<1>17. CASE Start
  BY <1>17 DEF Start, store, wire, terminal, PendingIsOwned, Pending,
    StageInv, RunInv, TypeOK, Rows, Statuses, Phases, Requesting, Ended
<1>18. CASE UNCHANGED vars
  BY <1>18 DEF vars, daemon, store, wire, terminal, PendingIsOwned, Pending,
    StageInv, RunInv, TypeOK, Rows, Statuses, Phases, Requesting, Ended
<1>q. QED BY <1>1, <1>2, <1>3, <1>4, <1>5, <1>6, <1>7, <1>8, <1>9, <1>10,
  <1>11, <1>12, <1>13, <1>14, <1>15, <1>16, <1>17, <1>18 DEF Next

\* Only the owner's end or answer rejects a pairing.
LEMMA Rejects ==
  ASSUME TypeOK, StageInv, RejectedByItsOwner, [Next]_vars
  PROVE  RejectedByItsOwner'
<1> USE NobodyAssumption, MaxStopsAssumption
<1>1. ASSUME NEW c \in Clis, Connect(c)
      PROVE  RejectedByItsOwner'
  BY <1>1 DEF Connect, store, Writes, RejectedByItsOwner, StageInv, TypeOK,
    Rows, Statuses, Phases, Requesting, Ended
<1>2. ASSUME NEW c \in Clis, Receive(c)
      PROVE  RejectedByItsOwner'
  BY <1>2 DEF Receive, daemon, store, RejectedByItsOwner, StageInv, TypeOK,
    Rows, Statuses, Phases, Requesting, Ended
<1>3. ASSUME NEW c \in Clis, ShowPairing(c)
      PROVE  RejectedByItsOwner'
  BY <1>3 DEF ShowPairing, daemon, store, wire, RejectedByItsOwner, StageInv,
    TypeOK, Rows, Statuses, Phases, Requesting, Ended
<1>4. ASSUME NEW c \in Clis, Ask(c)
      PROVE  RejectedByItsOwner'
  BY <1>4 DEF Ask, daemon, store, RejectedByItsOwner, StageInv, TypeOK, Rows,
    Statuses, Phases, Requesting, Ended
<1>5. ASSUME NEW c \in Clis, UserAnswers(c)
      PROVE  RejectedByItsOwner'
  BY <1>5 DEF UserAnswers, daemon, store, Writes, RejectedByItsOwner,
    StageInv, TypeOK, Rows, Statuses, Phases, Requesting, Ended
<1>6. ASSUME NEW c \in Clis, Fails(c)
      PROVE  RejectedByItsOwner'
  BY <1>6 DEF Fails, daemon, store, wire, RejectedByItsOwner, StageInv,
    TypeOK, Rows, Statuses, Phases, Requesting, Ended
<1>7. ASSUME NEW c \in Clis, CreatePairing(c)
      PROVE  RejectedByItsOwner'
  BY <1>7 DEF CreatePairing, terminal, Handles, Writes, RejectedByItsOwner,
    StageInv, TypeOK, Rows, Statuses, Phases, Requesting, Ended
<1>8. ASSUME NEW c \in Clis, PairingCreated(c)
      PROVE  RejectedByItsOwner'
  <2>1. /\ Rejected({c}) \in [Clis -> Rows]
        /\ \A d \in Clis :
             /\ Rejected({c})[d].claimant = row[d].claimant
             /\ Rejected({c})[d].run = row[d].run
             /\ Rejected({c})[d].status =
                  IF d \in {c} /\ Pending(d) THEN "rejected"
                  ELSE row[d].status
    BY RejectedRows
  <2>2. CASE Disconnected(c)
    <3>1. /\ row' = Rejected({c}) /\ creating' = creating \ {c}
          /\ c \in creating /\ c \notin clients /\ up
          /\ UNCHANGED <<run, up, clients, owners, device, request, response,
                         claims, terminal, browser>>
      BY <1>8, <2>2 DEF PairingCreated, Disconnected
    <3>2. cli[c] \in Ended BY <3>1 DEF StageInv
    <3>3. \A d \in Clis : d # c => row'[d].status = row[d].status
      BY <2>1, <3>1
    <3>q. QED BY <3>1, <3>2, <3>3 DEF terminal, RejectedByItsOwner
  <2>3. CASE ~Disconnected(c)
    BY <1>8, <2>3 DEF PairingCreated, Disconnected, Sends, terminal,
      RejectedByItsOwner, StageInv, TypeOK, Rows, Statuses, Phases,
      Requesting, Ended
  <2>q. QED BY <2>2, <2>3
<1>9. ASSUME NEW c \in Clis, ApprovePairing(c)
      PROVE  RejectedByItsOwner'
  <2>1. CASE Approvable(c)
    <3>1. /\ row'[c].status = "approved"
          /\ \A d \in Clis \ {c} : row'[d] = row[d]
      BY <1>9, <2>1, ApprovedRow
    <3>2. cli' = cli BY <1>9 DEF ApprovePairing, terminal
    <3>q. QED BY <3>1, <3>2 DEF RejectedByItsOwner
  <2>2. CASE ~Approvable(c)
    BY <1>9, <2>2 DEF ApprovePairing, store, terminal, RejectedByItsOwner
  <2>q. QED BY <2>1, <2>2
<1>10. ASSUME NEW c \in Clis, RejectPairing(c)
      PROVE  RejectedByItsOwner'
  BY <1>10 DEF RejectPairing, terminal, Handles, Writes, Rejected, Pending,
    Sends, RejectedByItsOwner, StageInv, TypeOK, Rows, Statuses, Phases,
    Requesting, Ended
<1>11. ASSUME NEW c \in Clis, Close(c)
      PROVE  RejectedByItsOwner'
  BY <1>11 DEF Close, wire, terminal, Rejected, Pending, OwnedBy,
    RejectedByItsOwner, StageInv, TypeOK, Rows, Statuses, Phases, Requesting,
    Ended
<1>12. ASSUME NEW c \in Clis, Expire(c)
      PROVE  RejectedByItsOwner'
  BY <1>12 DEF Expire, daemon, wire, terminal, RejectedByItsOwner, StageInv,
    TypeOK, Rows, Statuses, Phases, Requesting, Ended
<1>13. ASSUME NEW b \in Browsers, PollPairing(b)
      PROVE  RejectedByItsOwner'
  BY <1>13 DEF PollPairing, daemon, store, wire, terminal, Granted,
    RejectedByItsOwner, StageInv, TypeOK, Rows, Statuses, Phases, Requesting,
    Ended
<1>14. ASSUME NEW b \in Browsers, Leave(b)
      PROVE  RejectedByItsOwner'
  BY <1>14 DEF Leave, daemon, store, wire, terminal, RejectedByItsOwner,
    StageInv, TypeOK, Rows, Statuses, Phases, Requesting, Ended
<1>15. ASSUME NEW b \in Browsers, NEW c \in Clis, ClaimPairing(b, c)
      PROVE  RejectedByItsOwner'
  <2>1. CASE Claimable(c)
    <3>1. /\ row' \in [Clis -> Rows] /\ row'[c].status = "awaiting_approval"
          /\ row'[c].claimant = b /\ row'[c].run = row[c].run
          /\ \A d \in Clis \ {c} : row'[d] = row[d]
      BY <1>15, <2>1, ClaimedRow
    <3>2. /\ claims' = Notified(c, b) /\ UNCHANGED <<daemon, device, request,
                                                    response, terminal>>
          /\ \E at \in {"waiting", "failed"} :
               browser' = [browser EXCEPT ![b] = [at |-> at, code |-> c]]
          /\ row[c].status = "offered" /\ browser[b].at = "idle"
      BY <1>15, <2>1 DEF ClaimPairing, Claimable
    <3>q. QED
      BY <3>1, <3>2 DEF Notified, daemon, terminal, RejectedByItsOwner,
        StageInv, TypeOK, Rows, Statuses, Phases, Requesting, Ended
  <2>2. CASE ~Claimable(c)
    BY <1>15, <2>2 DEF ClaimPairing, daemon, terminal, RejectedByItsOwner,
      StageInv, TypeOK, Rows, Statuses, Phases, Requesting, Ended
  <2>q. QED BY <2>1, <2>2
<1>16. CASE Stop
  BY <1>16 DEF Stop, store, terminal, RejectedByItsOwner, StageInv, TypeOK,
    Rows, Statuses, Phases, Requesting, Ended
<1>17. CASE Start
  BY <1>17 DEF Start, store, wire, terminal, RejectedByItsOwner, StageInv,
    TypeOK, Rows, Statuses, Phases, Requesting, Ended
<1>18. CASE UNCHANGED vars
  BY <1>18 DEF vars, daemon, store, wire, terminal, RejectedByItsOwner,
    StageInv, TypeOK, Rows, Statuses, Phases, Requesting, Ended
<1>q. QED BY <1>1, <1>2, <1>3, <1>4, <1>5, <1>6, <1>7, <1>8, <1>9, <1>10,
  <1>11, <1>12, <1>13, <1>14, <1>15, <1>16, <1>17, <1>18 DEF Next

\* What a browser or a CLI believes at its end stays true.
LEMMA Ends ==
  ASSUME TypeOK, StageInv, ClaimInv, WaitInv, EndsAgree, [Next]_vars
  PROVE  EndsAgree'
<1> USE NobodyAssumption, MaxStopsAssumption
<1>1. ASSUME NEW c \in Clis, Connect(c)
      PROVE  EndsAgree'
  BY <1>1 DEF Connect, store, Writes, EndsAgree, StageInv, ClaimInv, WaitInv,
    TypeOK, Rows, Statuses, Phases, Requesting, Ended
<1>2. ASSUME NEW c \in Clis, Receive(c)
      PROVE  EndsAgree'
  BY <1>2 DEF Receive, daemon, store, EndsAgree, StageInv, ClaimInv, WaitInv,
    TypeOK, Rows, Statuses, Phases, Requesting, Ended
<1>3. ASSUME NEW c \in Clis, ShowPairing(c)
      PROVE  EndsAgree'
  BY <1>3 DEF ShowPairing, daemon, store, wire, EndsAgree, StageInv,
    ClaimInv, WaitInv, TypeOK, Rows, Statuses, Phases, Requesting, Ended
<1>4. ASSUME NEW c \in Clis, Ask(c)
      PROVE  EndsAgree'
  BY <1>4 DEF Ask, daemon, store, EndsAgree, StageInv, ClaimInv, WaitInv,
    TypeOK, Rows, Statuses, Phases, Requesting, Ended
<1>5. ASSUME NEW c \in Clis, UserAnswers(c)
      PROVE  EndsAgree'
  BY <1>5 DEF UserAnswers, daemon, store, Writes, EndsAgree, StageInv,
    ClaimInv, WaitInv, TypeOK, Rows, Statuses, Phases, Requesting, Ended
<1>6. ASSUME NEW c \in Clis, Fails(c)
      PROVE  EndsAgree'
  BY <1>6 DEF Fails, daemon, store, wire, EndsAgree, StageInv, ClaimInv,
    WaitInv, TypeOK, Rows, Statuses, Phases, Requesting, Ended
<1>7. ASSUME NEW c \in Clis, CreatePairing(c)
      PROVE  EndsAgree'
  BY <1>7 DEF CreatePairing, terminal, Handles, Writes, EndsAgree, StageInv,
    ClaimInv, WaitInv, TypeOK, Rows, Statuses, Phases, Requesting, Ended
<1>8. ASSUME NEW c \in Clis, PairingCreated(c)
      PROVE  EndsAgree'
  <2>1. \A d \in Clis :
          /\ Rejected({c})[d].run = row[d].run
          /\ Rejected({c})[d].status =
               IF d \in {c} /\ Pending(d) THEN "rejected" ELSE row[d].status
    BY RejectedRows
  <2>2. /\ UNCHANGED <<device, terminal, browser>>
        /\ row' = Rejected({c}) \/ row' = row
    BY <1>8 DEF PairingCreated
  <2>q. QED BY <2>1, <2>2 DEF terminal, Pending, EndsAgree
<1>9. ASSUME NEW c \in Clis, ApprovePairing(c)
      PROVE  EndsAgree'
  BY <1>9 DEF ApprovePairing, terminal, store, Handles, Writes, Approvable,
    Sends, EndsAgree, StageInv, ClaimInv, WaitInv, TypeOK, Rows, Statuses,
    Phases, Requesting, Ended
<1>10. ASSUME NEW c \in Clis, RejectPairing(c)
      PROVE  EndsAgree'
  BY <1>10 DEF RejectPairing, terminal, Handles, Writes, Rejected, Pending,
    Sends, EndsAgree, StageInv, ClaimInv, WaitInv, TypeOK, Rows, Statuses,
    Phases, Requesting, Ended
<1>11. ASSUME NEW c \in Clis, Close(c)
      PROVE  EndsAgree'
  BY <1>11 DEF Close, wire, terminal, Rejected, Pending, OwnedBy, EndsAgree,
    StageInv, ClaimInv, WaitInv, TypeOK, Rows, Statuses, Phases, Requesting,
    Ended
<1>12. ASSUME NEW c \in Clis, Expire(c)
      PROVE  EndsAgree'
  BY <1>12 DEF Expire, daemon, wire, terminal, EndsAgree, StageInv, ClaimInv,
    WaitInv, TypeOK, Rows, Statuses, Phases, Requesting, Ended
<1>13. ASSUME NEW b \in Browsers, PollPairing(b)
      PROVE  EndsAgree'
  BY <1>13 DEF PollPairing, daemon, store, wire, terminal, Granted,
    EndsAgree, StageInv, ClaimInv, WaitInv, TypeOK, Rows, Statuses, Phases,
    Requesting, Ended
<1>14. ASSUME NEW b \in Browsers, Leave(b)
      PROVE  EndsAgree'
  BY <1>14 DEF Leave, daemon, store, wire, terminal, EndsAgree, StageInv,
    ClaimInv, WaitInv, TypeOK, Rows, Statuses, Phases, Requesting, Ended
<1>15. ASSUME NEW b \in Browsers, NEW c \in Clis, ClaimPairing(b, c)
      PROVE  EndsAgree'
  <2>1. CASE Claimable(c)
    <3>1. /\ row' \in [Clis -> Rows] /\ row'[c].status = "awaiting_approval"
          /\ row'[c].claimant = b /\ row'[c].run = row[c].run
          /\ \A d \in Clis \ {c} : row'[d] = row[d]
      BY <1>15, <2>1, ClaimedRow
    <3>2. /\ claims' = Notified(c, b) /\ UNCHANGED <<daemon, device, request,
                                                    response, terminal>>
          /\ \E at \in {"waiting", "failed"} :
               browser' = [browser EXCEPT ![b] = [at |-> at, code |-> c]]
          /\ row[c].status = "offered" /\ browser[b].at = "idle"
      BY <1>15, <2>1 DEF ClaimPairing, Claimable
    <3>3. \A d \in Clis : /\ cli'[d] = cli[d] /\ device'[d] = device[d]
                          /\ row[d].status = "rejected" => row'[d] = row[d]
      BY <3>1, <3>2 DEF terminal
    <3>4. \A e \in Browsers : browser'[e].at = "paired" =>
            browser'[e] = browser[e]
      BY <3>2 DEF TypeOK
    <3>5. \A e \in Browsers : browser[e].at = "paired" =>
            browser[e].code \in Clis
      BY DEF WaitInv
    <3>q. QED BY <3>3, <3>4, <3>5 DEF EndsAgree
  <2>2. CASE ~Claimable(c)
    <3>1. /\ browser' = [browser EXCEPT ![b] = [at |-> "failed", code |-> c]]
          /\ UNCHANGED <<row, device, cli>>
      BY <1>15, <2>2 DEF ClaimPairing, terminal
    <3>2. \A e \in Browsers : browser'[e].at = "paired" =>
            browser'[e] = browser[e]
      BY <3>1 DEF TypeOK
    <3>q. QED BY <3>1, <3>2 DEF EndsAgree
  <2>q. QED BY <2>1, <2>2
<1>16. CASE Stop
  BY <1>16 DEF Stop, store, terminal, EndsAgree, StageInv, ClaimInv, WaitInv,
    TypeOK, Rows, Statuses, Phases, Requesting, Ended
<1>17. CASE Start
  BY <1>17 DEF Start, store, wire, terminal, EndsAgree, StageInv, ClaimInv,
    WaitInv, TypeOK, Rows, Statuses, Phases, Requesting, Ended
<1>18. CASE UNCHANGED vars
  BY <1>18 DEF vars, daemon, store, wire, terminal, EndsAgree, StageInv,
    ClaimInv, WaitInv, TypeOK, Rows, Statuses, Phases, Requesting, Ended
<1>q. QED BY <1>1, <1>2, <1>3, <1>4, <1>5, <1>6, <1>7, <1>8, <1>9, <1>10,
  <1>11, <1>12, <1>13, <1>14, <1>15, <1>16, <1>17, <1>18 DEF Next

-----------------------------------------------------------------------------
LEMMA Starts == Init => Inv
BY NobodyAssumption, MaxStopsAssumption
  DEF Init, Inv, TypeOK, Rows, Statuses, Phases, Requesting, Ended, StageInv,
    ClaimInv, WaitInv, RunInv, RegisteredIsConfirmed, PendingIsOwned, Pending,
    RejectedByItsOwner, EndsAgree

LEMMA Steps == Inv /\ [Next]_vars => Inv'
BY Types, Stages, Claims, Waits, Runs, Registers, Owns, Rejects, Ends DEF Inv

LEMMA Invariance == Spec => []Inv
BY Starts, Steps, PTL DEF Spec

\* The variables of the daemon, the CLIs and the browsers have their types,
\* and a socket owns pairings only while it is connected.
THEOREM TypeCorrectness == Spec => []TypeOK
<1>1. Inv => TypeOK BY DEF Inv
<1>q. QED BY Invariance, <1>1, PTL

\* However many browsers scan a code, the key that is registered is the one
\* whose fingerprint the user confirmed (approvePairing).
THEOREM OnlyConfirmedKeys == Spec => []RegisteredIsConfirmed
<1>1. Inv => RegisteredIsConfirmed BY DEF Inv
<1>q. QED BY Invariance, <1>1, PTL

\* A pairing that can still be answered has somebody to answer for it, also
\* when its CLI leaves while the daemon makes it (control.ts).
THEOREM NothingPendsAlone == Spec => []PendingIsOwned
<1>1. Inv => PendingIsOwned BY DEF Inv
<1>q. QED BY Invariance, <1>1, PTL

\* A CLI that ends takes only its own pairing along (control.ts).
THEOREM OwnersReject == Spec => []RejectedByItsOwner
<1>1. Inv => RejectedByItsOwner BY DEF Inv
<1>q. QED BY Invariance, <1>1, PTL

\* A browser that stored its key and a CLI that printed how it ended are both
\* right about the device (browser-auth.ts, pair-device.ts).
THEOREM BothEndsAgree == Spec => []EndsAgree
<1>1. Inv => EndsAgree BY DEF Inv
<1>q. QED BY Invariance, <1>1, PTL
=============================================================================
