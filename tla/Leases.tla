------------------------------- MODULE Leases -------------------------------
(***************************************************************************)
(* Resource leases with both of their writers: the transaction of the      *)
(* dispatcher (ClaimWaiting in backend/internal/store/runs.go) and the     *)
(* lease API (internal/store/resources.go, internal/api/infrastructure.go).*)
(*                                                                         *)
(* RunStore takes ClaimWaiting in one step.  Here its statements interleave*)
(* with the API's transactions, at READ COMMITTED: what the dispatcher has *)
(* written (claim) is seen by others when it commits, the rows it has      *)
(* written are locked until then, and the unique index on ACTIVE leases    *)
(* fails the second INSERT.  Resources are exclusive ones.                 *)
(***************************************************************************)
EXTENDS Integers, FiniteSets

CONSTANTS
    Resources,
    Attempts,   \* execution attempts, each may be claimed once
    Clients,    \* lease API requests that may be under way at once
    MaxToken    \* bound: fencing tokens per resource

ASSUME LeasesAssumption == MaxToken \in Nat

VARIABLES
    present,    \* rows of resources
    fencing,    \* resources.next_fencing_token
    required,   \* resources named in task_resource_requirements
    lease,      \* resource_leases
    attempt,    \* execution_attempts: not there, held (dispatched) or finished
    claim,      \* the dispatcher's open transaction
    client      \* the API requests that hold a resource row

leaseVars == <<present, fencing, required, lease, attempt, claim, client>>

LeaseRecord == [resource : Resources, holder : Attempts, token : Nat,
                state : {"ACTIVE", "RELEASED", "EXPIRED"}, due : BOOLEAN]   \* due: expires_at has passed
\* todo: the resources of the run; swept and locked: those whose old lease was looked
\* at, and whose row was updated; ripe: leases past expires_at at the transaction's
\* now(); expired: those it has set to EXPIRED
Claim == [attempt : SUBSET Attempts, todo : SUBSET Resources, swept : SUBSET Resources,
          locked : SUBSET Resources, ripe : SUBSET LeaseRecord, expired : SUBSET LeaseRecord]
NoClaim == [attempt |-> {}, todo |-> {}, swept |-> {}, locked |-> {}, ripe |-> {}, expired |-> {}]

ActiveLease(x) == {l \in lease : l.resource = x /\ l.state = "ACTIVE"}
Unexpired(x) == {l \in ActiveLease(x) : ~l.due}
WithState(rows, state) == (lease \ rows) \cup {[l EXCEPT !.state = state] : l \in rows}
NewLease(x, a, n) == [resource |-> x, holder |-> a, token |-> n, state |-> "ACTIVE", due |-> FALSE]
\* the row of a resource is locked by the dispatcher, or by an API request
DispatcherHas(x) == x \in claim.locked
ClientHas(x) == \E c \in Clients : client[c] = {x}

InitLeases ==
    /\ present = {} /\ required = {} /\ lease = {}
    /\ fencing = [x \in Resources |-> 0]
    /\ attempt = [a \in Attempts |-> "none"]
    /\ claim = NoClaim
    /\ client = [c \in Clients |-> {}]

-----------------------------------------------------------------------------
(* Resources *)

CreateResource(x) ==
    /\ x \notin present
    /\ present' = present \cup {x}
    /\ UNCHANGED <<fencing, required, lease, attempt, claim, client>>

\* a task version that names the resource is published
RequireResource(x) ==
    /\ x \in present \ required
    /\ required' = required \cup {x}
    /\ UNCHANGED <<present, fencing, lease, attempt, claim, client>>

\* DELETE: refused while a task version names it, and by the foreign key of any
\* lease there ever was
DeleteResource(x) ==
    /\ x \in present \ required
    /\ ~DispatcherHas(x) /\ ~ClientHas(x)
    /\ \A l \in lease : l.resource # x
    /\ present' = present \ {x}
    /\ UNCHANGED <<fencing, required, lease, attempt, claim, client>>

-----------------------------------------------------------------------------
(* The dispatcher *)

\* ClaimWaiting's SELECT: every resource of the version is free
PickRun(a, needs) ==
    /\ claim = NoClaim /\ attempt[a] = "none"
    /\ needs \subseteq required
    /\ \A x \in needs : Unexpired(x) = {} /\ fencing[x] < MaxToken
    /\ claim' = [NoClaim EXCEPT !.attempt = {a}, !.todo = needs,
                                !.ripe = {l \in lease : l.state = "ACTIVE" /\ l.due /\ l.resource \in needs}]
    /\ UNCHANGED <<present, fencing, required, lease, attempt, client>>

\* UPDATE ... SET state = 'EXPIRED' for the next resource
ExpireLease(x) ==
    /\ x \in claim.todo \ claim.swept /\ claim.swept = claim.locked
    /\ claim' = [claim EXCEPT !.swept = @ \cup {x}, !.expired = @ \cup (ActiveLease(x) \cap claim.ripe)]
    /\ UNCHANGED <<present, fencing, required, lease, attempt, client>>

\* UPDATE resources ... RETURNING next_fencing_token waits for the row's lock
TakeToken(x) ==
    /\ x \in claim.swept \ claim.locked
    /\ ~ClientHas(x)
    /\ claim' = [claim EXCEPT !.locked = @ \cup {x}]
    /\ UNCHANGED <<present, fencing, required, lease, attempt, client>>

\* INSERT of the leases: the unique index fails it when another lease became
\* ACTIVE since the SELECT, and the transaction is rolled back
LeaseConflictIgnored(x) == FALSE

LeaseConflict(x) == ActiveLease(x) \ claim.expired # {}

CommitClaim ==
    /\ claim.attempt # {} /\ claim.locked = claim.todo
    /\ \A x \in claim.todo : fencing[x] < MaxToken
    /\ claim' = NoClaim
    /\ IF \E x \in claim.todo : LeaseConflict(x)
       THEN UNCHANGED <<fencing, lease, attempt>>
       ELSE \E a \in claim.attempt :
              /\ attempt' = [attempt EXCEPT ![a] = "held"]
              /\ fencing' = [x \in Resources |-> IF x \in claim.todo THEN fencing[x] + 1 ELSE fencing[x]]
              /\ lease' = WithState(claim.expired, "EXPIRED")
                          \cup {NewLease(x, a, fencing[x] + 1) : x \in claim.todo}
    /\ UNCHANGED <<present, required, client>>

\* any error, also the deadlock in which the database gives up the dispatcher's
\* transaction: it waits for a row an API request holds that waits for a lease
RollbackClaim ==
    /\ claim # NoClaim
    /\ claim' = NoClaim
    /\ UNCHANGED <<present, fencing, required, lease, attempt, client>>

\* releaseRunResources: the attempt ends
FinishAttempt(a) ==
    /\ attempt[a] = "held"
    /\ attempt' = [attempt EXCEPT ![a] = "finished"]
    /\ \A l \in claim.expired : l.holder # a
    /\ lease' = WithState({l \in lease : l.holder = a /\ l.state = "ACTIVE"}, "RELEASED")
    /\ UNCHANGED <<present, fencing, required, claim, client>>

-----------------------------------------------------------------------------
(* The lease API *)

\* Acquire: SELECT ... FROM resources ... FOR UPDATE
LockResource(c, x) ==
    /\ client[c] = {} /\ x \in present
    /\ ~DispatcherHas(x) /\ ~ClientHas(x)
    /\ client' = [client EXCEPT ![c] = {x}]
    /\ UNCHANGED <<present, fencing, required, lease, attempt, claim>>

\* the ACTIVE lease, if there is one, has expired
MayTake(x) == Unexpired(x) = {}

\* next_fencing_token = next_fencing_token + 1
NextToken(x) == fencing[x] + 1

\* the rest of Acquire; holder is an attempt that exists.  It waits for a lease
\* row the dispatcher has expired and not committed.
AcquireLease(c, x, holder) ==
    /\ client[c] = {x}
    /\ ActiveLease(x) \cap claim.expired = {}
    /\ client' = [client EXCEPT ![c] = {}]
    /\ IF MayTake(x) /\ attempt[holder] # "none" /\ NextToken(x) <= MaxToken
       THEN /\ lease' = WithState(ActiveLease(x), "EXPIRED") \cup {NewLease(x, holder, NextToken(x))}
            /\ fencing' = [fencing EXCEPT ![x] = @ + 1]
       ELSE UNCHANGED <<lease, fencing>>
    /\ UNCHANGED <<present, required, attempt, claim>>

\* Release: holder and fencing token must match
ReleaseLease(x, holder, n) ==
    LET rows == {l \in ActiveLease(x) : l.holder = holder /\ l.token = n} IN
    /\ rows # {} /\ rows \cap claim.expired = {}
    /\ lease' = WithState(rows, "RELEASED")
    /\ UNCHANGED <<present, fencing, required, attempt, claim, client>>

\* expires_at passes
LeaseRunsOut(l) ==
    /\ l \in lease /\ ~l.due /\ l.state = "ACTIVE"
    /\ lease' = (lease \ {l}) \cup {[l EXCEPT !.due = TRUE]}
    /\ UNCHANGED <<present, fencing, required, attempt, claim, client>>

-----------------------------------------------------------------------------

NextLeases ==
    \/ \E x \in Resources : \/ CreateResource(x) \/ RequireResource(x) \/ DeleteResource(x)
                            \/ ExpireLease(x) \/ TakeToken(x)
    \/ \E a \in Attempts : FinishAttempt(a) \/ \E needs \in SUBSET Resources : PickRun(a, needs)
    \/ CommitClaim
    \/ RollbackClaim
    \/ \E c \in Clients, x \in Resources : LockResource(c, x) \/ \E a \in Attempts : AcquireLease(c, x, a)
    \/ \E x \in Resources, a \in Attempts, n \in 1..MaxToken : ReleaseLease(x, a, n)
    \/ \E l \in lease : LeaseRunsOut(l)

SpecLeases == InitLeases /\ [][NextLeases]_leaseVars

-----------------------------------------------------------------------------
(* Properties *)

\* Every row has its type.
LeasesTypeOK ==
    /\ present \subseteq Resources /\ required \subseteq present
    /\ fencing \in [Resources -> 0..MaxToken]
    /\ lease \subseteq LeaseRecord
    /\ attempt \in [Attempts -> {"none", "held", "finished"}]
    /\ claim \in Claim
    /\ client \in [Clients -> {s \in SUBSET Resources : Cardinality(s) <= 1}]

\* A resource has one holder: at most one ACTIVE lease, whose fencing token is
\* newer than that of every lease before it, also when a dispatch and an API
\* request take the resource at the same time.
OneHolder ==
    \A l, k \in lease : l.resource = k.resource /\ l.state = "ACTIVE" /\ k # l =>
        k.state # "ACTIVE" /\ k.token < l.token

\* A lease that has not expired ends only when it is released: by the end of
\* its attempt or by a request that names its holder and token.
NoTakeover ==
    [][\A l \in lease : l.state = "ACTIVE" /\ ~l.due =>
         [l EXCEPT !.state = "EXPIRED"] \notin lease']_leaseVars

\* A fencing token is never handed out twice for a resource that exists, even
\* when the transaction that took it was rolled back.
TokensFresh ==
    \A l \in lease : /\ l.resource \in present
                     /\ l.token <= fencing[l.resource]
                     /\ \A k \in lease : k.resource = l.resource /\ k.token = l.token => k = l

\* What a lease is worth to its holder with both writers at work: nobody else
\* holds the resource, its token is the newest, and it is not taken away.
LeasesHold == [](OneHolder /\ TokensFresh) /\ NoTakeover
=============================================================================
