------------------------------ MODULE Sessions ------------------------------
(***************************************************************************)
(* Sign-in sessions: the tables auth_sessions and                          *)
(* sso_authorization_states (backend/internal/store/sessions.go,           *)
(* sso_state.go) and the calls that use them (internal/api/auth_service.go,*)
(* session.go, oidc_auth.go): password and SSO login, refresh with token   *)
(* rotation, logout and the revocations an administrator triggers.         *)
(*                                                                         *)
(* The database runs at READ COMMITTED.  Rotate locks its row (SELECT FOR  *)
(* UPDATE) and commits later; an UPDATE of many rows works on the rows that*)
(* exist as it starts, and waits for the ones another transaction has      *)
(* locked.  A refresh token is secret and random, so a caller presents the *)
(* right one or a wrong one.  Which accounts exist and are enabled is in   *)
(* module Accounts: here a login may be admitted at any time.              *)
(*                                                                         *)
(* Sessions are numbered in the order of creation.  Times are kept as the  *)
(* time left; 0 means passed.                                              *)
(***************************************************************************)
EXTENDS Integers, Sequences, FiniteSets

CONSTANTS
    Owners,         \* accounts
    Challenges,     \* SSO authorization states that may be created
    Calls,          \* calls that may be under way at once
    AccessLife,     \* accessLifetime
    RefreshLife,    \* refreshLifetime
    ChallengeLife,  \* 10 minutes
    MaxSessions     \* bound: sessions created

ASSUME SessionsAssumption ==
    /\ AccessLife \in Nat \ {0}
    /\ RefreshLife \in Nat /\ RefreshLife >= AccessLife
    /\ ChallengeLife \in Nat \ {0}
    /\ MaxSessions \in Nat

VARIABLES
    session,    \* auth_sessions
    challenge,  \* sso_authorization_states
    call,       \* the calls under way
    burned      \* history: families revoked by a replay that no rotation overlapped

sessionVars == <<session, challenge, call, burned>>

-----------------------------------------------------------------------------
(* Rows *)

SessionRow == [state : {"live", "revoked", "deleted"},
               owner : Owners,
               family : Nat \ {0},            \* session_family_id: the first session
               parent : Nat,                  \* the session it replaced (history), 0: none
               via : SUBSET Challenges,       \* the SSO state it came from (history)
               access : 0..AccessLife,        \* access_expires_at
               refresh : 0..RefreshLife]      \* refresh_expires_at
ChallengeRow == [state : {"none", "open", "consumed", "deleted"}, left : 0..ChallengeLife]
Call == [op : {"idle", "issue", "exchange", "rotate", "sweep"},
         id : Nat,                   \* the session whose row the call has locked, 0: none
         right : BOOLEAN,            \* the refresh token presented is the right one
         owner : SUBSET Owners,
         via : SUBSET Challenges,
         rows : SUBSET (Nat \ {0})]  \* the rows its UPDATE will revoke

NoCall == [op |-> "idle", id |-> 0, right |-> FALSE, owner |-> {}, via |-> {}, rows |-> {}]

Exists(i) == i \in DOMAIN session /\ session[i].state # "deleted"
Live(i) == i \in DOMAIN session /\ session[i].state = "live"
Family(i) == {j \in DOMAIN session : Exists(j) /\ session[j].family = session[i].family}
LockedByOther(c, i) == \E k \in Calls \ {c} : call[k].id = i
RevokeRow(row) == [row EXCEPT !.state = IF @ = "deleted" THEN @ ELSE "revoked"]
Revoked(rows) == [i \in DOMAIN session |-> IF i \in rows THEN RevokeRow(session[i]) ELSE session[i]]

BeginCall(c, next) == call[c] = NoCall /\ call' = [call EXCEPT ![c] = next]
EndCall(c) == call' = [call EXCEPT ![c] = NoCall]

InitSessions ==
    /\ session = << >>
    /\ challenge = [s \in Challenges |-> [state |-> "none", left |-> 0]]
    /\ call = [c \in Calls |-> NoCall]
    /\ burned = {}

-----------------------------------------------------------------------------
(* Login *)

\* Login: the password was verified; the session is created in a later step
PasswordLogin(c, o) ==
    /\ BeginCall(c, [NoCall EXCEPT !.op = "issue", !.owner = {o}])
    /\ UNCHANGED <<session, challenge, burned>>

NewSession(o, family, parent, via) ==
    [state |-> "live", owner |-> o, family |-> family, parent |-> parent, via |-> via,
     access |-> AccessLife, refresh |-> RefreshLife]

\* issueTokens: a session in a family of its own
IssueTokens(c) ==
    /\ call[c].op = "issue"
    /\ Len(session) < MaxSessions
    /\ \E o \in call[c].owner :
         session' = Append(session, NewSession(o, Len(session) + 1, 0, call[c].via))
    /\ EndCall(c)
    /\ UNCHANGED <<challenge, burned>>

OpenChallenge == [state |-> "open", left |-> ChallengeLife]

\* the states DeleteExpired removes
Spent(row) == row.state = "consumed" \/ (row.state = "open" /\ row.left = 0)

\* createPersistentChallenge: expired and consumed states are deleted first
CreateChallenge(s) ==
    /\ challenge[s].state = "none"
    /\ challenge' = [k \in Challenges |->
          IF k = s THEN OpenChallenge
          ELSE IF Spent(challenge[k]) THEN [state |-> "deleted", left |-> 0]
          ELSE challenge[k]]
    /\ UNCHANGED <<session, call, burned>>

\* consume: one transaction on the locked row
Consume(s) ==
    /\ challenge[s].state = "open" /\ challenge[s].left > 0
    /\ challenge' = [challenge EXCEPT ![s] = [state |-> "consumed", left |-> 0]]

\* oidcCallback: the state is consumed before the code is exchanged
OIDCCallback(c, s) ==
    /\ Consume(s)
    /\ BeginCall(c, [NoCall EXCEPT !.op = "exchange", !.via = {s}])
    /\ UNCHANGED <<session, burned>>

\* the exchange fails, or links the identity, or admits an account
OIDCExchange(c) ==
    /\ call[c].op = "exchange"
    /\ \/ EndCall(c)
       \/ \E o \in Owners : call' = [call EXCEPT ![c] = [@ EXCEPT !.op = "issue", !.owner = {o}]]
    /\ UNCHANGED <<session, challenge, burned>>

-----------------------------------------------------------------------------
(* Refresh *)

\* Get and then the SELECT ... FOR UPDATE of Rotate
Refresh(c, i, right) ==
    /\ Exists(i) /\ ~LockedByOther(c, i)
    /\ BeginCall(c, [NoCall EXCEPT !.op = "rotate", !.id = i, !.right = right])
    /\ UNCHANGED <<session, challenge, burned>>

Rotatable(i, right) == Live(i) /\ session[i].refresh > 0 /\ right

\* the token is good: its session is revoked and replaced in the same family
Rotate(c) ==
    LET i == call[c].id IN
    /\ call[c].op = "rotate"
    /\ Rotatable(i, call[c].right)
    /\ Len(session) < MaxSessions
    /\ session' = Append(Revoked({i}), NewSession(session[i].owner, session[i].family, i, {}))
    /\ EndCall(c)
    /\ UNCHANGED <<challenge, burned>>

RotateReplayRevokesOne(c) ==
    LET i == call[c].id IN
    /\ call[c].op = "rotate" /\ Exists(i)
    /\ ~Rotatable(i, call[c].right)
    /\ session' = Revoked({i}) /\ burned' = burned \cup {session[i].family} /\ EndCall(c)
    /\ UNCHANGED challenge

\* A revoked, expired or wrong token revokes the family: at once when no row is
\* locked, otherwise the rows that exist now, later.
RotateReplay(c) ==
    LET i == call[c].id IN
    /\ call[c].op = "rotate" /\ Exists(i)
    /\ ~Rotatable(i, call[c].right)
    /\ IF \E j \in Family(i) : LockedByOther(c, j)
       THEN call' = [call EXCEPT ![c] = [@ EXCEPT !.op = "sweep", !.rows = Family(i)]]
            /\ UNCHANGED <<session, burned>>
       ELSE session' = Revoked(Family(i)) /\ burned' = burned \cup {session[i].family} /\ EndCall(c)
    /\ UNCHANGED challenge

-----------------------------------------------------------------------------
(* Revocation *)

\* Logout, and revoking one session: UPDATE of one row
RevokeSession(i) ==
    /\ Exists(i) /\ ~\E c \in Calls : call[c].id = i
    /\ session' = Revoked({i})
    /\ UNCHANGED <<challenge, call, burned>>

OwnedBy(o) == {i \in DOMAIN session : Exists(i) /\ session[i].owner = o}

\* LogoutAll, also the last step of DisableUser, ApproveUser and ChangePassword
RevokeUser(c, o) ==
    /\ call[c] = NoCall
    /\ IF \E i \in OwnedBy(o) : LockedByOther(c, i)
       THEN call' = [call EXCEPT ![c] = [NoCall EXCEPT !.op = "sweep", !.rows = OwnedBy(o)]]
            /\ UNCHANGED session
       ELSE session' = Revoked(OwnedBy(o)) /\ UNCHANGED call
    /\ UNCHANGED <<challenge, burned>>

\* the rows an UPDATE waited for are free
Sweep(c) ==
    /\ call[c].op = "sweep"
    /\ \A i \in call[c].rows : ~LockedByOther(c, i)
    /\ session' = Revoked(call[c].rows)
    /\ EndCall(c)
    /\ UNCHANGED <<challenge, burned>>

\* two replays of one family wait for each other: the database aborts one
SweepDeadlock(c) ==
    /\ call[c].op = "sweep"
    /\ \E k \in Calls \ {c} : call[k].op = "sweep" /\ call[k].id \in call[c].rows /\ call[c].id \in call[k].rows
    /\ EndCall(c)
    /\ UNCHANGED <<session, challenge, burned>>

\* DeleteOlderThan: retention removes every session created up to the cutoff
DeleteOlderThan(cutoff) ==
    /\ cutoff \in DOMAIN session
    /\ \A i \in 1..cutoff : ~\E c \in Calls : call[c].id = i
    /\ session' = [i \in DOMAIN session |-> IF i <= cutoff THEN [session[i] EXCEPT !.state = "deleted"] ELSE session[i]]
    /\ UNCHANGED <<challenge, call, burned>>

-----------------------------------------------------------------------------

Sooner(t) == IF t > 0 THEN t - 1 ELSE 0

TickSessions ==
    /\ session' = [i \in DOMAIN session |->
          [session[i] EXCEPT !.access = Sooner(@), !.refresh = Sooner(@)]]
    /\ challenge' = [s \in Challenges |-> [challenge[s] EXCEPT !.left = Sooner(@)]]
    /\ UNCHANGED <<call, burned>>

NextSessions ==
    \/ TickSessions
    \/ \E s \in Challenges : CreateChallenge(s)
    \/ \E i \in DOMAIN session : RevokeSession(i) \/ DeleteOlderThan(i)
    \/ \E c \in Calls :
        \/ \E o \in Owners : PasswordLogin(c, o) \/ RevokeUser(c, o)
        \/ \E s \in Challenges : OIDCCallback(c, s)
        \/ OIDCExchange(c)
        \/ IssueTokens(c)
        \/ \E i \in DOMAIN session, right \in BOOLEAN : Refresh(c, i, right)
        \/ Rotate(c)
        \/ RotateReplay(c)
        \/ Sweep(c)
        \/ SweepDeadlock(c)

SpecSessions == InitSessions /\ [][NextSessions]_sessionVars

-----------------------------------------------------------------------------
(* Properties *)

\* Every row has its type.
SessionsTypeOK ==
    /\ session \in Seq(SessionRow)
    /\ challenge \in [Challenges -> ChallengeRow]
    /\ call \in [Calls -> Call]
    /\ burned \subseteq Nat \ {0}

\* The access token is accepted (SessionManager.Authenticator, Active).
Authenticated(i) == Live(i) /\ session[i].access > 0

\* A refresh token is exchanged at most once, and of a chain of rotations only
\* the newest session admits requests, however often a client repeats a
\* refresh and however repeats and revocations interleave.
OneLivePerFamily ==
    \A i, j \in DOMAIN session :
        /\ session[i].parent # 0 /\ session[i].parent = session[j].parent => i = j
        /\ session[i].family = session[j].family /\ Live(i) /\ Live(j) => i = j

\* Replaying a used token ends the family for good: no session of it, and none
\* that a later refresh could create, is live again.
ReplayEndsFamily == \A i \in DOMAIN session : session[i].family \in burned => ~Live(i)

\* An SSO authorization state admits at most one session, however often the
\* callback is requested and however slow the exchange is.
StateUsedOnce ==
    \A i, j \in DOMAIN session : session[i].via \cap session[j].via # {} => i = j

\* A revoked session never admits a request again and its expiry never moves
\* back, whatever waits, rotates or is deleted.
RevokedStays ==
    [][\A i \in DOMAIN session :
         /\ i \in DOMAIN session'
         /\ ~Live(i) => ~Live(i)'
         /\ session'[i].refresh <= session[i].refresh]_sessionVars

\* What a token is worth: it is used once, its replay ends the family, and what
\* was revoked stays so, with refreshes, callbacks and revocations in any order.
TokensHold == [](OneLivePerFamily /\ ReplayEndsFamily /\ StateUsedOnce) /\ RevokedStays
=============================================================================
