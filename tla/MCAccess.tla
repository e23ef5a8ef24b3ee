------------------------------ MODULE MCAccess ------------------------------
(* Small instances of the control plane's own services.  They have no        *)
(* variable in common and each allows for whatever the others may do at any  *)
(* time, so a behaviour follows one of them.                                 *)
EXTENDS Accounts, SignIn, Sessions, Gateway, Storage, TLC

CONSTANTS u1, u2, p1, h1, h2, q1, o1, s1, e1, e2, member

VARIABLE part

accessVars == <<accountVars, signInVars, sessionVars, gatewayVars, storageVars, part>>

Init ==
    /\ part \in {"accounts", "sign-in", "sessions", "gateway", "storage"}
    /\ InitAccounts /\ InitSignIn /\ InitSessions /\ InitGateway /\ InitStorage /\ free = 30
    /\ inBody => part = "gateway"

Next ==
    \/ part = "accounts" /\ NextAccounts /\ UNCHANGED <<signInVars, sessionVars, gatewayVars, storageVars, part>>
    \/ part = "sign-in" /\ NextSignIn /\ UNCHANGED <<accountVars, sessionVars, gatewayVars, storageVars, part>>
    \/ part = "sessions" /\ NextSessions /\ UNCHANGED <<accountVars, signInVars, gatewayVars, storageVars, part>>
    \* two requests of any kind and one that writes
    \/ /\ part = "gateway" /\ NextGateway /\ hit'[q1].kind = "write"
       /\ UNCHANGED <<accountVars, signInVars, sessionVars, storageVars, part>>
    \/ part = "storage" /\ NextStorage /\ UNCHANGED <<accountVars, signInVars, sessionVars, gatewayVars, part>>

Spec == Init /\ [][Next]_accessVars

\* Every table, request and history of the control plane's own services has its type.
AccessTypeOK == AccountsTypeOK /\ SignInTypeOK /\ SessionsTypeOK /\ GatewayTypeOK /\ StorageTypeOK

GroupMaps == {{"admin"}}
CustomMaps == {{}, {member}}
ConfiguredAdmins == {{}, {u2}}
KindsOfRecord == e1 :> "run" @@ e2 :> "audit"
\* handlers, requests and calls
Interchangeable == Permutations({h1, h2})
=============================================================================
