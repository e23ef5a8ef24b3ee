--------------------------- MODULE SecretDelivery ---------------------------
(***************************************************************************)
(* The values of the named secrets (store/encrypted_secrets.go,            *)
(* api/secrets.go) and their delivery to a runner that has received an     *)
(* order and has not yet claimed its start (worker/runtime.go:155,         *)
(* worker/secrets.go, controlplane/secret_delivery.go).                    *)
(*                                                                         *)
(* The server reads the secrets of a request one by one, decrypts each     *)
(* and marks its row by what it found; a request that stores a value does  *)
(* the same.  Reading a row and marking it are statements of their own,    *)
(* the second naming the row by its id, and administrators replace and     *)
(* delete values in between.  Which deletions are allowed is in Catalog; a *)
(* run keeps the version it was created from, so any secret may be gone.   *)
(***************************************************************************)
EXTENDS FiniteSets

CONSTANTS
    Sealed,   \* rows of encrypted_secrets
    Orders,   \* deliveries of orders whose handler asks for secrets
    Upserts   \* requests that store a value

\* A request to the server is not one for values of a runner.
ASSUME ReadersDiffer == Orders \cap Upserts = {}

Readers == Orders \cup Upserts

VARIABLES
    secret,      \* encrypted_secrets
    fetch,       \* secret requests of runners
    upsert,      \* the secret each request that stores a value is about
    found,       \* the record each reader holds between Find and SetIntegrityStatus
    overtaken,   \* readers whose record is no longer the one that is stored
    outdated     \* secrets whose status was given to a record that is not the one stored

deliveryVars == <<secret, fetch, upsert, found, overtaken, outdated>>

\* good: encrypted with the key this control plane has, and undamaged
SecretRow == [state : {"none", "good", "bad"}, status : {"UNKNOWN", "VALID", "FAILED"}]
NoSecret == [state |-> "none", status |-> "UNKNOWN"]
Fresh == [state |-> "good", status |-> "UNKNOWN"]

FetchRow == [phase : {"none", "dispatched", "asked", "reading", "values", "rejected"},
             active : BOOLEAN,                \* the run is DISPATCHED or RUNNING
             waiting : BOOLEAN,               \* the runner would still take an answer
             secrets : SUBSET Sealed,         \* of the run's task version
             left : SUBSET Sealed,            \* not yet looked up
             values : SUBSET Sealed]
NoFetch == [phase |-> "none", active |-> FALSE, waiting |-> FALSE, secrets |-> {}, left |-> {}, values |-> {}]

Record == Sealed \X {"good", "bad"}

SetFetch(a, row) == fetch' = [fetch EXCEPT ![a] = row]

InitDelivery ==
    /\ secret = [s \in Sealed |-> NoSecret]
    /\ fetch = [a \in Orders |-> NoFetch]
    /\ upsert = [u \in Upserts |-> {}]
    /\ found = [r \in Readers |-> {}]
    /\ overtaken = {} /\ outdated = {}

\* The stored value of s changes under those who have read it.
Overtake(s) == overtaken' = overtaken \cup {r \in Readers : \E f \in found[r] : f[1] = s}

Hold(r, s) ==
    /\ found' = [found EXCEPT ![r] = {<<s, secret[s].state>>}]
    /\ overtaken' = overtaken \ {r}

Release(r) ==
    /\ found' = [found EXCEPT ![r] = {}]
    /\ overtaken' = overtaken \ {r}

\* FAILED stands for the statuses of a value that does not decrypt, a missing key among the reasons
StatusOf(state) == IF state = "good" THEN "VALID" ELSE "FAILED"

\* the row is named by its id, whatever it holds by now; a row that is gone stays gone
SetIntegrityStatus(r, s, state) ==
    IF secret[s].state = "none" THEN UNCHANGED <<secret, outdated>>
    ELSE /\ secret' = [secret EXCEPT ![s].status = StatusOf(state)]
         /\ outdated' = IF r \in overtaken THEN outdated \cup {s} ELSE outdated \ {s}

-----------------------------------------------------------------------------
(* Administration *)

\* SecretAdminService.Upsert encrypts and writes the value, and goes on to validate it
Upsert(u, s) ==
    /\ upsert[u] = {}
    /\ secret' = [secret EXCEPT ![s] = Fresh]
    /\ upsert' = [upsert EXCEPT ![u] = {s}]
    /\ Overtake(s)
    /\ outdated' = outdated \ {s}
    /\ UNCHANGED <<fetch, found>>

\* validateStoredSecret: the row is gone or cannot be read, or it is read
FindUpserted(u) ==
    /\ found[u] = {}
    /\ \E s \in upsert[u] :
        \/ upsert' = [upsert EXCEPT ![u] = {}] /\ UNCHANGED <<found, overtaken>>
        \/ secret[s].state # "none" /\ Hold(u, s) /\ UNCHANGED upsert
    /\ UNCHANGED <<secret, fetch, outdated>>

\* ... decrypted, and marked unless the update fails
ValidateStoredSecret(u) ==
    /\ \E f \in found[u] : SetIntegrityStatus(u, f[1], f[2]) \/ UNCHANGED <<secret, outdated>>
    /\ Release(u)
    /\ upsert' = [upsert EXCEPT ![u] = {}]
    /\ UNCHANGED fetch

DropSecret(s) ==
    /\ secret[s].state # "none"
    /\ secret' = [secret EXCEPT ![s] = NoSecret]
    /\ Overtake(s)
    /\ outdated' = outdated \ {s}
    /\ UNCHANGED <<fetch, upsert, found>>

\* The stored ciphertext is damaged, or the key file is not the one it was encrypted with.
Spoil(s) ==
    /\ secret[s].state = "good"
    /\ secret' = [secret EXCEPT ![s].state = "bad"]
    /\ Overtake(s)
    /\ outdated' = outdated \cup {s}
    /\ UNCHANGED <<fetch, upsert, found>>

-----------------------------------------------------------------------------
(* Delivery *)

\* A run is placed and its order delivered, for the first time or again.
Dispatch(a, secrets) ==
    /\ fetch[a].phase = "none"
    /\ SetFetch(a, [NoFetch EXCEPT !.phase = "dispatched", !.active = TRUE, !.secrets = secrets])
    /\ UNCHANGED <<secret, upsert, found, overtaken, outdated>>

\* cancelled, settled or given to another attempt (RunStore), which matters until the request is authorized
EndRun(a) ==
    /\ fetch[a].active /\ fetch[a].phase \in {"dispatched", "asked"}
    /\ SetFetch(a, [fetch[a] EXCEPT !.active = FALSE])
    /\ UNCHANGED <<secret, upsert, found, overtaken, outdated>>

FetchSecrets(a) ==
    /\ fetch[a].phase = "dispatched" /\ fetch[a].secrets # {}
    /\ SetFetch(a, [fetch[a] EXCEPT !.phase = "asked", !.waiting = TRUE])
    /\ UNCHANGED <<secret, upsert, found, overtaken, outdated>>

Rejected(a) == [fetch[a] EXCEPT !.phase = "rejected", !.left = {}, !.values = {}]

\* The server takes one request after the other.  It goes on when the attempt is the run's, the run is active and
\* the references are the version's; a request that is old, or whose key or run cannot be read, is rejected.
AuthorizeSecretRequest(a) ==
    /\ fetch[a].phase = "asked" /\ \A b \in Orders : fetch[b].phase # "reading"
    /\ \/ SetFetch(a, Rejected(a))
       \/ fetch[a].active /\ SetFetch(a, [fetch[a] EXCEPT !.phase = "reading", !.left = fetch[a].secrets])
    /\ UNCHANGED <<secret, upsert, found, overtaken, outdated>>

SkipSecret(a, s) ==
    IF secret[s].state = "none" THEN SetFetch(a, [fetch[a] EXCEPT !.left = @ \ {s}]) /\ UNCHANGED <<found, overtaken>>
    ELSE SetFetch(a, [fetch[a] EXCEPT !.left = @ \ {s}]) /\ Hold(a, s)

\* the row is gone or cannot be read, or it is read
FindSecret(a, s) ==
    \/ SetFetch(a, Rejected(a)) /\ UNCHANGED <<found, overtaken>>
    \/ /\ secret[s].state # "none"
       /\ SetFetch(a, [fetch[a] EXCEPT !.left = @ \ {s}])
       /\ Hold(a, s)

ReadSecret(a, s) ==
    /\ fetch[a].phase = "reading" /\ found[a] = {} /\ s \in fetch[a].left
    /\ FindSecret(a, s)
    /\ UNCHANGED <<secret, upsert, outdated>>

\* Decrypt the record that was read and mark the row.  A value whose row could not be marked is not given.
DecryptSecret(a) ==
    /\ \E f \in found[a] :
        \/ /\ SetIntegrityStatus(a, f[1], f[2])
           /\ SetFetch(a, IF f[2] = "good" THEN [fetch[a] EXCEPT !.values = @ \cup {f[1]}] ELSE Rejected(a))
        \/ UNCHANGED <<secret, outdated>> /\ SetFetch(a, Rejected(a))
    /\ Release(a)
    /\ UNCHANGED upsert

SecretResponse(a) ==
    /\ fetch[a].phase = "reading" /\ fetch[a].left = {} /\ found[a] = {}
    /\ SetFetch(a, [fetch[a] EXCEPT !.phase = "values"])
    /\ UNCHANGED <<secret, upsert, found, overtaken, outdated>>

\* The request or its answer is lost, or five seconds pass.  The server knows nothing of it and goes on.
FetchTimeout(a) ==
    /\ fetch[a].waiting /\ fetch[a].phase # "values"
    /\ SetFetch(a, [fetch[a] EXCEPT !.waiting = FALSE])
    /\ UNCHANGED <<secret, upsert, found, overtaken, outdated>>

NextDelivery ==
    \/ \E s \in Sealed : DropSecret(s) \/ Spoil(s)
    \/ \E u \in Upserts : \/ \E s \in Sealed : Upsert(u, s)
                          \/ FindUpserted(u) \/ ValidateStoredSecret(u)
    \/ \E a \in Orders : \/ \E secrets \in SUBSET Sealed : Dispatch(a, secrets)
                         \/ \E s \in Sealed : ReadSecret(a, s)
                         \/ EndRun(a) \/ FetchSecrets(a) \/ AuthorizeSecretRequest(a)
                         \/ DecryptSecret(a) \/ SecretResponse(a) \/ FetchTimeout(a)

SpecDelivery == InitDelivery /\ [][NextDelivery]_deliveryVars

-----------------------------------------------------------------------------
(* Properties *)

\* Every row, request and record read has its type.
DeliveryTypeOK ==
    /\ secret \in [Sealed -> SecretRow]
    /\ fetch \in [Orders -> FetchRow]
    /\ upsert \in [Upserts -> SUBSET Sealed]
    /\ found \in [Readers -> SUBSET Record]
    /\ overtaken \subseteq Readers
    /\ outdated \subseteq Sealed

\* A status is never written for a secret that was deleted after it was read.
DeletedUntouched == \A s \in Sealed : secret[s].state = "none" => secret[s] = NoSecret

\* A runner gets the values of all the secrets of the version its run was
\* created from, or of none: rotations and deletions that happen while the
\* server reads them one by one, and reads and updates that fail, do not leave
\* it a part of them (secret_delivery.go:50).
DeliveredWhole ==
    \A a \in Orders : (fetch[a].phase = "values" /\ fetch[a].waiting) => fetch[a].values = fetch[a].secrets

\* VALID is said of a value the server can decrypt and FAILED of one it cannot,
\* with two exceptions: a status written from a record that another request
\* replaced after it was read, which may mark a good value as failed although
\* the administration guide says that "failed" means the stored ciphertext
\* cannot be decrypted, and a value that was damaged since its status was
\* written.  A value that is stored again loses the status of the one before it.
StatusTellsStored ==
    \A s \in Sealed \ outdated :
        /\ secret[s].status = "VALID" => secret[s].state = "good"
        /\ secret[s].status = "FAILED" => secret[s].state = "bad"

\* Secrets that change while they are read are delivered whole, and one whose
\* value did not change between being read and being marked is marked by it.
SecretsSound == DeliveredWhole /\ DeletedUntouched /\ StatusTellsStored
=============================================================================
