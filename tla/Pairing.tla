------------------------------ MODULE Pairing ------------------------------
(***************************************************************************)
(* Pairing a browser with the daemon.  `muximo pair` (a CLI) asks the      *)
(* daemon over the control socket for a pairing, shows its code, waits for *)
(* the claim of a browser that scanned it, asks its user about the claim's *)
(* fingerprint and answers with approve or reject.  The pairing is a row   *)
(* in SQLite; the daemon remembers in memory which socket owns it, sends   *)
(* the claim there, and rejects what a closing socket still owns.          *)
(*                                                                         *)
(* A CLI makes one pairing, so a CLI names its pairing.  It sends one      *)
(* request at a time and closes its end when it stops: the daemon reads    *)
(* the request, if there is one, before it notices that.                   *)
(***************************************************************************)
EXTENDS Naturals

CONSTANTS
  Clis,     \* the runs of `muximo pair`
  Browsers, \* who may scan a code; each has a key of its own
  Nobody,
  MaxStops  \* bound on how often the daemon stops or dies

ASSUME NobodyAssumption == Nobody \notin Browsers
ASSUME MaxStopsAssumption == MaxStops \in Nat

VARIABLES
  run,       \* how often the daemon was started before
  up,
  row,       \* auth_pairings
  device,    \* the key registered with auth_devices for a pairing
  clients,   \* the sockets that are open at the daemon
  owners,    \* the domain of pairingOwners: a pairing's socket is its CLI's
  creating,  \* the handlers of create_pairing that wait for the store
  request,   \* what a CLI wrote and the daemon has not handled
  response,  \* what a CLI will read, other than a claim
  claims,    \* pairing_claimed messages, from the wire to pendingClaims
  cli,       \* where PairDevice.execute is
  asked,     \* the claimant whose fingerprint the user was shown
  confirmed, \* the claimant the user said yes to
  shown,     \* the codes that can be scanned
  browser    \* pairBrowserFromQr: where a browser is, and with whose code

daemon == <<run, up, clients, owners, creating>>
store == <<row, device>>
wire == <<request, response, claims>>
terminal == <<cli, asked, confirmed, shown>>
vars == <<run, up, row, device, clients, owners, creating, request, response,
          claims, cli, asked, confirmed, shown, browser>>

-----------------------------------------------------------------------------
Statuses ==
  {"none", "offered", "awaiting_approval", "approved", "rejected", "expired"}
Rows == [status : Statuses, claimant : Browsers \cup {Nobody},
         live : BOOLEAN,  \* expiresAt of the offer, or claimExpiresAt
         run : Nat]       \* the run of the daemon that made it

Requesting == {"creating", "approving", "rejecting"}
Ended == {"approved", "rejected", "failed"}
Phases == {"start", "showing", "waiting", "confirming"} \cup Requesting \cup Ended

Pending(c) == row[c].status \in {"offered", "awaiting_approval"}

Init ==
  /\ run = 0 /\ up = TRUE
  /\ row = [c \in Clis |-> [status |-> "none", claimant |-> Nobody,
                            live |-> FALSE, run |-> 0]]
  /\ device = [c \in Clis |-> Nobody]
  /\ clients = {} /\ owners = {} /\ creating = {}
  /\ request = [c \in Clis |-> "none"]
  /\ response = [c \in Clis |-> "none"]
  /\ claims = [c \in Clis |-> {}]
  /\ cli = [c \in Clis |-> "start"]
  /\ asked = [c \in Clis |-> Nobody]
  /\ confirmed = [c \in Clis |-> Nobody]
  /\ shown = {}
  /\ browser = [b \in Browsers |-> [at |-> "idle", code |-> Nobody]]

-----------------------------------------------------------------------------
(* The CLI.  A request that is not answered in time closes the socket; the *)
(* wait for a claim has no limit.                                          *)

Writes(c, r) == request' = [request EXCEPT ![c] = r]

(* connect, createPairing *)
Connect(c) ==
  /\ cli[c] = "start" /\ up
  /\ cli' = [cli EXCEPT ![c] = "creating"]
  /\ clients' = clients \cup {c}
  /\ Writes(c, "create")
  /\ UNCHANGED <<run, up, owners, creating, store, response, claims, asked,
                 confirmed, shown, browser>>

(* The response to the request: the code is shown, or the command ends.    *)
Receive(c) ==
  /\ cli[c] \in Requesting /\ response[c] # "none"
  /\ response' = [response EXCEPT ![c] = "none"]
  /\ cli' = [cli EXCEPT ![c] = IF response[c] = "created" THEN "showing"
                               ELSE IF response[c] = "error" THEN "failed"
                               ELSE response[c]]
  /\ shown' = IF response[c] = "created" THEN shown \cup {c} ELSE shown
  /\ UNCHANGED <<daemon, store, request, claims, asked, confirmed, browser>>

(* showPairing has opened the page: from now on PairDevice listens. *)
ShowPairing(c) ==
  /\ cli[c] = "showing"
  /\ cli' = [cli EXCEPT ![c] = "waiting"]
  /\ UNCHANGED <<daemon, store, wire, asked, confirmed, shown, browser>>

(* waitForClaim returns; confirmPairing shows the claim. *)
Ask(c) == \E b \in claims[c] :
  /\ cli[c] = "waiting"
  /\ cli' = [cli EXCEPT ![c] = "confirming"]
  /\ claims' = [claims EXCEPT ![c] = @ \ {b}]
  /\ asked' = [asked EXCEPT ![c] = b]
  /\ UNCHANGED <<daemon, store, request, response, confirmed, shown, browser>>

UserAnswers(c) ==
  /\ cli[c] = "confirming" /\ c \in clients
  /\ \/ /\ cli' = [cli EXCEPT ![c] = "approving"]
        /\ confirmed' = [confirmed EXCEPT ![c] = asked[c]]
        /\ Writes(c, "approve")
     \/ /\ cli' = [cli EXCEPT ![c] = "rejecting"]
        /\ Writes(c, "reject")
        /\ UNCHANGED confirmed
  /\ UNCHANGED <<daemon, store, response, claims, asked, shown, browser>>

(* The user interrupts it, a request takes too long, a page cannot be      *)
(* opened, or the daemon has closed the socket.                            *)
Fails(c) ==
  /\ cli[c] \notin Ended \cup {"start"}
  /\ cli' = [cli EXCEPT ![c] = "failed"]
  /\ UNCHANGED <<daemon, store, wire, asked, confirmed, shown, browser>>

-----------------------------------------------------------------------------
(* MuximodControlServer and the store. *)

Sends(c, r) ==
  response' = IF c \in clients THEN [response EXCEPT ![c] = r] ELSE response

Handles(c, r) ==
  /\ up /\ request[c] = r /\ c \in clients
  /\ Writes(c, "none")

(* AuthStore.createPairing; the handler awaits it. *)
CreatePairing(c) ==
  /\ Handles(c, "create")
  /\ row' = [row EXCEPT ![c] = [status |-> "offered", claimant |-> Nobody,
                                live |-> TRUE, run |-> run]]
  /\ creating' = creating \cup {c}
  /\ UNCHANGED <<run, up, clients, owners, device, response, claims,
                 terminal, browser>>

(* rejectPairing only touches a row that is pending. *)
Rejected(gone) ==
  [c \in Clis |-> IF c \in gone /\ Pending(c)
                  THEN [row[c] EXCEPT !.status = "rejected"] ELSE row[c]]

\* Mutant: create_pairing does not look at the socket again
DisconnectedUnnoticed(c) == FALSE

(* The client may have left while the handler waited. *)
Disconnected(c) == c \notin clients

PairingCreated(c) ==
  /\ up /\ c \in creating
  /\ creating' = creating \ {c}
  /\ IF Disconnected(c)
     THEN row' = Rejected({c}) /\ UNCHANGED <<owners, response>>
     ELSE /\ owners' = owners \cup {c}
          /\ Sends(c, "created")
          /\ UNCHANGED row
  /\ UNCHANGED <<run, up, clients, device, request, claims, terminal, browser>>

(* A pairing is approved once it has a claim that has not expired.  The    *)
(* device takes its key from the row.  (That an overdue one is marked      *)
(* expired here is undone when the transaction throws.)                    *)
Approvable(c) == row[c].status = "awaiting_approval" /\ row[c].live

ApprovePairing(c) ==
  /\ Handles(c, "approve")
  /\ IF Approvable(c)
     THEN /\ row' = [row EXCEPT ![c].status = "approved"]
          /\ device' = [device EXCEPT ![c] = row[c].claimant]
          /\ owners' = owners \ {c}
          /\ Sends(c, "approved")
     ELSE Sends(c, "error") /\ UNCHANGED <<store, owners>>
  /\ UNCHANGED <<run, up, clients, creating, claims, terminal, browser>>

RejectPairing(c) ==
  /\ Handles(c, "reject")
  /\ row' = Rejected({c})
  /\ owners' = IF Pending(c) THEN owners \ {c} ELSE owners
  /\ Sends(c, IF Pending(c) THEN "rejected" ELSE "error")
  /\ UNCHANGED <<run, up, clients, creating, device, claims, terminal, browser>>

\* Mutant: the loop over pairingOwners does not compare the owner
OwnedByAny(c) == owners

(* The pairings that go with a socket. *)
OwnedBy(c) == owners \cap {c}

(* The socket's close event. *)
Close(c) ==
  /\ up /\ c \in clients /\ cli[c] \in Ended /\ request[c] = "none"
  /\ clients' = clients \ {c}
  /\ owners' = owners \ OwnedBy(c)
  /\ row' = Rejected(OwnedBy(c))
  /\ UNCHANGED <<run, up, creating, device, wire, terminal, browser>>

(* stop forgets the owners before the sockets' close events, and a daemon  *)
(* that dies does so too: their pairings stay pending.                     *)
Stop ==
  /\ up /\ run < MaxStops
  /\ up' = FALSE
  /\ clients' = {} /\ owners' = {} /\ creating' = {}
  /\ request' = [c \in Clis |-> "none"]
  /\ UNCHANGED <<run, store, response, claims, terminal, browser>>

Start ==
  /\ ~up
  /\ up' = TRUE /\ run' = run + 1
  /\ UNCHANGED <<clients, owners, creating, store, wire, terminal, browser>>

(* A time passes: the offer's 5 minutes, or the claim's 10. *)
Expire(c) ==
  /\ row[c].live
  /\ row' = [row EXCEPT ![c].live = FALSE]
  /\ UNCHANGED <<daemon, device, wire, terminal, browser>>

-----------------------------------------------------------------------------
(* The browsers. *)

\* Mutant: whoever claims a pairing again replaces the claim
ClaimableAgain(c) == Pending(c) /\ row[c].live

Claimable(c) == row[c].status = "offered" /\ row[c].live

\* Mutant: readResponses drops what arrives while nobody waits for it
NotifiedIfWaiting(c, b) ==
  IF c \in owners /\ cli[c] = "waiting" THEN [claims EXCEPT ![c] = @ \cup {b}]
  ELSE claims

(* notifyPairingClaim: the claim goes to the owner, if there is one. *)
Notified(c, b) ==
  IF c \in owners THEN [claims EXCEPT ![c] = @ \cup {b}] ELSE claims

(* The claim's response may be lost: then the browser has failed although  *)
(* its claim is there.                                                     *)
ClaimPairing(b, c) ==
  /\ up /\ browser[b].at = "idle" /\ c \in shown
  /\ IF Claimable(c)
     THEN /\ row' = [row EXCEPT ![c] = [@ EXCEPT
                !.status = "awaiting_approval", !.claimant = b, !.live = TRUE]]
          /\ claims' = Notified(c, b)
          /\ \E at \in {"waiting", "failed"} :
               browser' = [browser EXCEPT ![b] = [at |-> at, code |-> c]]
     ELSE /\ browser' = [browser EXCEPT ![b] = [at |-> "failed", code |-> c]]
          /\ UNCHANGED <<row, claims>>
  /\ UNCHANGED <<daemon, device, request, response, terminal>>

\* Mutant: any settled status ends the wait, and the key is stored
GrantedOnceSettled(c) == row[c].status \in {"approved", "rejected"}

(* Nothing but an approval ends the wait well. *)
Granted(c) == row[c].status = "approved"

(* waitForPairingApproval.  The claim's token expires with the claim, even *)
(* when it was approved; what is not approved is thrown.  A poll of an     *)
(* overdue claim marks it expired before it throws, and no transaction     *)
(* takes that back: from then on the user's answer is an error.            *)
PollPairing(b) ==
  LET c == browser[b].code IN
  /\ up /\ browser[b].at = "waiting"
  /\ row[c].status # "awaiting_approval" \/ ~row[c].live
  /\ browser' = [browser EXCEPT ![b].at =
                   IF row[c].live /\ Granted(c) THEN "paired" ELSE "failed"]
  /\ row' = IF row[c].status = "awaiting_approval"
            THEN [row EXCEPT ![c].status = "expired"] ELSE row
  /\ UNCHANGED <<daemon, device, wire, terminal>>

(* A poll fails, or the page is closed. *)
Leave(b) ==
  /\ browser[b].at = "waiting"
  /\ browser' = [browser EXCEPT ![b].at = "failed"]
  /\ UNCHANGED <<daemon, store, wire, terminal>>

-----------------------------------------------------------------------------
Next ==
  \/ \E c \in Clis :
       \/ Connect(c) \/ Receive(c) \/ ShowPairing(c) \/ Ask(c)
       \/ UserAnswers(c) \/ Fails(c)
       \/ CreatePairing(c) \/ PairingCreated(c) \/ ApprovePairing(c)
       \/ RejectPairing(c) \/ Close(c) \/ Expire(c)
  \/ \E b \in Browsers : PollPairing(b) \/ Leave(b)
  \/ \E b \in Browsers, c \in Clis : ClaimPairing(b, c)
  \/ Stop \/ Start

Spec == Init /\ [][Next]_vars

(* The daemon and the CLIs act on what they have read; nothing makes a     *)
(* user answer, a browser claim, or a time pass.                           *)
Fairness == \A c \in Clis :
  /\ WF_vars(PairingCreated(c)) /\ WF_vars(ApprovePairing(c))
  /\ WF_vars(RejectPairing(c)) /\ WF_vars(Close(c))
  /\ WF_vars(ShowPairing(c)) /\ WF_vars(Ask(c))

FairSpec == Spec /\ Fairness

-----------------------------------------------------------------------------
(* The variables have their types, and a socket owns a pairing only while  *)
(* it is connected (handleConnection's close handler).                     *)
TypeOK ==
  /\ run \in 0..MaxStops /\ up \in BOOLEAN
  /\ row \in [Clis -> Rows]
  /\ device \in [Clis -> Browsers \cup {Nobody}]
  /\ clients \subseteq Clis /\ owners \subseteq clients
  /\ creating \subseteq Clis
  /\ request \in [Clis -> {"none", "create", "approve", "reject"}]
  /\ response \in
       [Clis -> {"none", "created", "approved", "rejected", "error"}]
  /\ claims \in [Clis -> SUBSET Browsers]
  /\ cli \in [Clis -> Phases]
  /\ asked \in [Clis -> Browsers \cup {Nobody}]
  /\ confirmed \in [Clis -> Browsers \cup {Nobody}]
  /\ shown \subseteq Clis
  /\ browser \in [Browsers -> [at : {"idle", "waiting", "paired", "failed"},
                               code : Clis \cup {Nobody}]]

(* A device is registered only with the key whose fingerprint the user of  *)
(* the pairing's own CLI saw and said yes to, whichever browsers scanned   *)
(* the code meanwhile (claimPairing, approvePairing).                      *)
RegisteredIsConfirmed ==
  \A c \in Clis : device[c] # Nobody => device[c] = confirmed[c]

(* While the daemon that made a pairing runs, somebody can still answer    *)
(* for it as long as it is pending: its CLI is connected and owns it, or   *)
(* create_pairing has not finished.                                        *)
PendingIsOwned ==
  \A c \in Clis : up /\ Pending(c) /\ row[c].run = run =>
    c \in (owners \cap clients) \cup creating

(* A pairing is rejected only because its own user said no or its own CLI  *)
(* ended, never because another's did (the close handler of control.ts).   *)
RejectedByItsOwner ==
  \A c \in Clis : row[c].status = "rejected" =>
    cli[c] \in {"rejecting"} \cup Ended

(* Whoever believes that the pairing is made, or refused, is right: a      *)
(* browser that stored its key finds it registered, and so does the CLI    *)
(* that printed "Approved"; "rejected" leaves no device.                   *)
EndsAgree ==
  /\ \A b \in Browsers : browser[b].at = "paired" =>
       device[browser[b].code] = b
  /\ \A c \in Clis : cli[c] = "approved" => device[c] # Nobody
  /\ \A c \in Clis : cli[c] = "rejected" =>
       device[c] = Nobody /\ row[c].status = "rejected"

(* A claim does not wait for nobody: the user is asked about it or the     *)
(* pairing is settled, unless the daemon stops first.                      *)
ClaimReachesUser ==
  \A c \in Clis :
    (row[c].status = "awaiting_approval" /\ row[c].run = run /\ up)
      ~> (asked[c] # Nobody \/ ~Pending(c) \/ ~up)
=============================================================================
