---------------------------- MODULE BrowserSessions ----------------------------
(***************************************************************************)
(* The browser session of one hosted account and the devices it enrols:    *)
(* finishAuth, authenticateAccountSession, signOut, createDevice and       *)
(* revokeDevice in platform/src/account.ts, with the triggers of migration *)
(* 0003 that charge a device to the entitlement.                           *)
(*                                                                         *)
(* A request authenticates in one statement and commits in a later one;    *)
(* whatever else the user does in between is committed by others.          *)
(***************************************************************************)
EXTENDS Integers, FiniteSets

CONSTANTS
  BrowserRequests,           \* requests of the browser, one at a time each
  SessionIds,         \* 1, 2, ...: one for each sign-in that is modelled
  MaxTokens,          \* bound: credentials minted
  DeviceIds,          \* ids that createDevice draws
  MaxDevices,         \* max_devices of the entitlement
  MaxDeviceIssuances  \* max_device_issuances

ASSUME BrowserAssumption == MaxDevices \in Nat /\ MaxDeviceIssuances \in Nat

VARIABLES
  sessionRow,      \* the account_sessions row of the user; createBrowserSession keeps one
  handed,       \* the tokens minted so far: 1 .. handed
  workspace,    \* status of the personal workspace
  device,       \* the devices rows
  entitlement,  \* its two device counters
  request,      \* the requests
  signedOut     \* sessions whose sign-out was answered 200

browserVars == <<sessionRow, handed, workspace, device, entitlement, request, signedOut>>

SignedOutRow == [id |-> 0, token |-> 0, state |-> "none"]
Resting == [kind |-> "none"]

SessionsInit ==
  /\ sessionRow = SignedOutRow /\ handed = 0 /\ workspace = "active"
  /\ device = [d \in DeviceIds |-> "none"]
  /\ entitlement = [active |-> 0, issued |-> 0]
  /\ request = [r \in BrowserRequests |-> Resting]
  /\ signedOut = {}

(* What SESSION_SQL and the guards of the later statements look for: the   *)
(* row is unrevoked and unexpired and its workspace is active.             *)
Usable == sessionRow.state = "live" /\ workspace = "active"
AnyState(token) == sessionRow.token = token  \* mutant: the token alone is looked for
Authenticates(token) == Usable /\ sessionRow.token = token
Rests(r) == request' = [request EXCEPT ![r] = Resting]
Becomes(r, kind) == request' = [request EXCEPT ![r].kind = kind]

(* A callback that carries no session cookie deletes the row and inserts   *)
(* another; it asks nothing of the old one.                                *)
StartSession(r) ==
  /\ request[r] = Resting
  /\ handed < MaxTokens /\ sessionRow.id + 1 \in SessionIds
  /\ sessionRow' = [id |-> sessionRow.id + 1, token |-> handed + 1, state |-> "live"]
  /\ handed' = handed + 1
  /\ UNCHANGED <<workspace, device, entitlement, request, signedOut>>

(* Any other request goes on with the row that its cookie found.           *)
(* createDevice also compares the counters that came with the session, and *)
(* draws an id; revokeDevice is sent for a device that was listed.         *)
Authenticate(r) ==
  /\ request[r] = Resting
  /\ \E kind \in {"reauth", "signout", "create", "revoke"}, d \in DeviceIds :
       /\ Usable
       /\ kind = "create" =>
            entitlement.active < MaxDevices /\ entitlement.issued < MaxDeviceIssuances
       /\ kind \in {"reauth", "signout"} => d = CHOOSE any \in DeviceIds : TRUE
       /\ kind = "create" => device[d] = "none"
       /\ kind = "revoke" => device[d] # "none"
       /\ request' = [request EXCEPT ![r] =
            [kind |-> kind, id |-> sessionRow.id, token |-> sessionRow.token, device |-> d]]
  /\ UNCHANGED <<sessionRow, handed, workspace, device, entitlement, signedOut>>

(* rotateBrowserSession: guarded by the credential that was authenticated. *)
Current(r) == Authenticates(request[r].token) /\ sessionRow.id = request[r].id
Rotate(r) ==
  /\ request[r].kind = "reauth" /\ handed < MaxTokens
  /\ \/ /\ Current(r)
        /\ sessionRow' = [sessionRow EXCEPT !.token = handed + 1]
        /\ handed' = handed + 1
     \/ ~Current(r) /\ UNCHANGED <<sessionRow, handed>>
  /\ Rests(r)
  /\ UNCHANGED <<workspace, device, entitlement, signedOut>>

(* signOut: guarded by the id of the session, so that it also ends one     *)
(* whose token was rotated in between.                                     *)
SignOut(r) ==
  /\ request[r].kind = "signout"
  /\ \/ /\ Usable /\ sessionRow.id = request[r].id
        /\ sessionRow' = [sessionRow EXCEPT !.state = "revoked"]
        /\ signedOut' = signedOut \cup {sessionRow.id}
     \/ ~(Usable /\ sessionRow.id = request[r].id) /\ UNCHANGED <<sessionRow, signedOut>>
  /\ Rests(r)
  /\ UNCHANGED <<handed, workspace, device, entitlement>>

(* devices_charge_entitlement: the row and both counters, or neither.      *)
Chargeable == entitlement.active < MaxDevices /\ entitlement.issued < MaxDeviceIssuances
CreateDevice(r) ==
  /\ request[r].kind = "create"
  /\ \/ /\ Current(r) /\ Chargeable /\ device[request[r].device] = "none"
        /\ device' = [device EXCEPT ![request[r].device] = "active"]
        /\ entitlement' = [active |-> entitlement.active + 1, issued |-> entitlement.issued + 1]
     \/ /\ ~(Current(r) /\ Chargeable /\ device[request[r].device] = "none")
        /\ UNCHANGED <<device, entitlement>>
  /\ Rests(r)
  /\ UNCHANGED <<sessionRow, handed, workspace, signedOut>>

(* devices_release_active_slot gives the slot back, never the issuance.    *)
Release == entitlement' = [entitlement EXCEPT !.active = IF @ > 0 THEN @ - 1 ELSE 0]
RevokeDevice(r) ==
  /\ request[r].kind = "revoke"
  /\ \/ /\ Current(r) /\ device[request[r].device] = "active"
        /\ device' = [device EXCEPT ![request[r].device] = "revoked"]
        /\ Release /\ Rests(r)
     \/ /\ ~(Current(r) /\ device[request[r].device] = "active")
        /\ Becomes(r, "missed")
        /\ UNCHANGED <<device, entitlement>>
  /\ UNCHANGED <<sessionRow, handed, workspace, signedOut>>

(* No row was updated: a credential that still stands makes it a 404.      *)
Recheck(r) ==
  /\ request[r].kind = "missed"
  /\ IF Current(r) THEN Becomes(r, "404") ELSE Becomes(r, "401")
  /\ UNCHANGED <<sessionRow, handed, workspace, device, entitlement, signedOut>>

EndReply(r) ==
  /\ request[r].kind \in {"404", "401"}
  /\ Rests(r)
  /\ UNCHANGED <<sessionRow, handed, workspace, device, entitlement, signedOut>>

(* SESSION_TTL_SECONDS pass; account deletion locks the workspace.         *)
ExpireSession ==
  /\ sessionRow.state = "live" /\ sessionRow' = [sessionRow EXCEPT !.state = "expired"]
  /\ UNCHANGED <<handed, workspace, device, entitlement, request, signedOut>>
LockWorkspace ==
  /\ Usable /\ workspace' = "deleting"
  /\ UNCHANGED <<sessionRow, handed, device, entitlement, request, signedOut>>

SessionsNext ==
  \/ \E r \in BrowserRequests :
       \/ StartSession(r) \/ Authenticate(r) \/ Rotate(r) \/ SignOut(r)
       \/ CreateDevice(r) \/ RevokeDevice(r) \/ Recheck(r) \/ EndReply(r)
  \/ ExpireSession \/ LockWorkspace

SessionsSpec == SessionsInit /\ [][SessionsNext]_browserVars

-----------------------------------------------------------------------------
(* "If this callback loses to sign-out or another callback, [...] every    *)
(* following statement affect[s] zero rows" (rotateBrowserSession): once a *)
(* sign-out was answered, no request that authenticated before it mints a  *)
(* credential of that session or touches a device, until a new sign-in.    *)
SignOutIsFinal ==
  [][sessionRow.id \in signedOut =>
       /\ UNCHANGED <<device, entitlement>>
       /\ sessionRow' = sessionRow \/ sessionRow'.id \notin signedOut]_browserVars

(* The entitlement counts its devices, however creations and revocations   *)
(* interleave, and a 404 is about a device that is not enrolled, never     *)
(* about a credential that lost the race ("Distinguish a true              *)
(* tenant-scoped device miss", revokeDevice).                              *)
DevicesAreCounted ==
  /\ entitlement.active = Cardinality({d \in DeviceIds : device[d] = "active"})
  /\ entitlement.issued = Cardinality({d \in DeviceIds : device[d] # "none"})
  /\ entitlement.active <= MaxDevices /\ entitlement.issued <= MaxDeviceIssuances
  /\ \A r \in BrowserRequests : request[r].kind = "404" => device[request[r].device] # "active"
===============================================================================
