------------------------------ MODULE Accounts ------------------------------
(* Player profiles and their sessions (server/handlers_accounts.go, the     *)
(* accounts part of store/repo.go).                                         *)
(*                                                                          *)
(* A handler is a goroutine; what the handlers share is the database, which *)
(* takes one statement or transaction after the other.  A step is one       *)
(* statement together with the checks before it; between two statements of  *)
(* a handler others come in, the handler may fail, and the server may go    *)
(* down.  A password and the recovery code that goes with it are always     *)
(* written together, so one number stands for both: 0 is a profile without. *)
EXTENDS Naturals, FiniteSets

CONSTANTS
    Profiles,    \* ids of profiles
    HandleKeys,  \* handles as account.Key folds them
    Identities,  \* (issuer, subject) pairs
    Tokens,      \* session tokens
    Workers,     \* requests under way at once
    MaxSecrets,  \* bound: passwords chosen in a behaviour
    Nobody

ASSUME MaxSecretsIsNat == MaxSecrets \in Nat
ASSUME NobodyIsNone == Nobody \notin Profiles \cup HandleKeys \cup Identities

VARIABLES
    account,   \* accounts: handle key and secret of each profile
    identity,  \* account_identities: the profile of each identity
    session,   \* account_sessions
    secrets,   \* the last secret chosen
    work       \* what each handler has still to do

accountVars == <<account, identity, session, secrets, work>>

NoAccount == [key |-> Nobody, secret |-> 0]
NoSession == [profile |-> Nobody, seen |-> 0, late |-> FALSE]
Idle == [step |-> "idle", profile |-> Nobody, seen |-> 0, flow |-> Nobody, code |-> 0,
         who |-> Nobody, key |-> Nobody]

AccountsInit ==
    /\ account = [p \in Profiles |-> NoAccount]
    /\ identity = [i \in Identities |-> Nobody]
    /\ session = [t \in Tokens |-> NoSession]
    /\ secrets = 0
    /\ work = [r \in Workers |-> Idle]

Exists(p) == account[p] # NoAccount
Taken(key) == \E p \in Profiles : account[p].key = key
SessionsOf(p) == {t \in Tokens : session[t].profile = p}

\* A new request, session or profile gets an id nobody has: any will do.
Free(r) == work[r] = Idle /\ r = CHOOSE q \in Workers : work[q] = Idle
FreeToken(t) == session[t] = NoSession /\ t = CHOOSE u \in Tokens : session[u] = NoSession
NewID(p) == ~Exists(p) /\ p = CHOOSE q \in Profiles : ~Exists(q)

Done(r) == work' = [work EXCEPT ![r] = Idle]

\* The sessions of p with a note that they outlived a change of the secret.
NotedLate(p) ==
    [t \in Tokens |-> IF session[t].profile = p THEN [session[t] EXCEPT !.late = TRUE]
                      ELSE session[t]]

----------------------------------------------------------------------------

\* handleRegister up to CreateAccount; a handle that folds onto an existing
\* one is refused.
Register(r, p, key) ==
    /\ Free(r) /\ NewID(p) /\ ~Taken(key) /\ secrets < MaxSecrets
    /\ account' = [account EXCEPT ![p] = [key |-> key, secret |-> secrets + 1]]
    /\ secrets' = secrets + 1
    /\ work' = [work EXCEPT ![r] = [Idle EXCEPT !.step = "session", !.profile = p,
                                                !.seen = secrets + 1]]
    /\ UNCHANGED <<identity, session>>

\* handleLogin up to the check; a profile without a password has no such way in.
Login(r, p) ==
    /\ Free(r) /\ Exists(p) /\ account[p].secret # 0
    /\ work' = [work EXCEPT ![r] = [Idle EXCEPT !.step = "session", !.profile = p,
                                                !.seen = account[p].secret]]
    /\ UNCHANGED <<account, identity, session, secrets>>

\* createAccountSession, the last statement of a handler.  When it fails the
\* handler has done everything else.
CreateSession(r) ==
    LET w == work[r] IN
    /\ w.step = "session"
    /\ \/ \E t \in Tokens :
             /\ FreeToken(t)
             /\ session' = [session EXCEPT ![t] =
                    [profile |-> w.profile, seen |-> w.seen,
                     late |-> w.seen # account[w.profile].secret]]
       \/ UNCHANGED session
    /\ Done(r)
    /\ UNCHANGED <<account, identity, secrets>>

\* handleAccountPassword up to its check: the recovery code proves it is the
\* owner, or a session together with the password, if there is one.
ProvePassword(r, p) ==
    /\ Free(r) /\ Exists(p) /\ secrets < MaxSecrets
    /\ account[p].secret # 0 \/ SessionsOf(p) # {}
    /\ work' = [work EXCEPT ![r] = [Idle EXCEPT !.step = "secrets", !.profile = p]]
    /\ UNCHANGED <<account, identity, session, secrets>>

\* UpdateAccountSecrets.
UpdateSecrets(r) ==
    LET p == work[r].profile IN
    /\ work[r].step = "secrets"
    /\ \/ /\ secrets < MaxSecrets
          /\ account' = [account EXCEPT ![p].secret = secrets + 1]
          /\ secrets' = secrets + 1
          /\ work' = [work EXCEPT ![r].step = "drop", ![r].seen = secrets + 1]
       \/ Done(r) /\ UNCHANGED <<account, secrets>>
    /\ UNCHANGED <<identity, session>>

\* DeleteAccountSessions; when it fails that is logged, and the handler goes on.
DropSessions(r) ==
    LET p == work[r].profile IN
    /\ work[r].step = "drop"
    /\ \/ session' = [t \in Tokens |-> IF session[t].profile = p THEN NoSession ELSE session[t]]
       \/ session' = NotedLate(p)
    /\ work' = [work EXCEPT ![r].step = "session"]
    /\ UNCHANGED <<account, identity, secrets>>

\* handleLogout, or the session has lived its ninety days.
Logout(t) ==
    /\ session[t] # NoSession
    /\ session' = [session EXCEPT ![t] = NoSession]
    /\ UNCHANGED <<account, identity, secrets, work>>

\* Mutant: the sessions are deleted first and the password written second.
DropFirst(r) ==
    LET p == work[r].profile IN
    \/ /\ work[r].step = "secrets" /\ secrets < MaxSecrets
       /\ session' = [t \in Tokens |-> IF session[t].profile = p THEN NoSession ELSE session[t]]
       /\ work' = [work EXCEPT ![r].step = "drop"]
       /\ UNCHANGED <<account, identity, secrets>>
    \/ /\ work[r].step = "drop" /\ secrets < MaxSecrets
       /\ account' = [account EXCEPT ![p].secret = secrets + 1]
       /\ secrets' = secrets + 1
       /\ work' = [work EXCEPT ![r].step = "session", ![r].seen = secrets + 1]
       /\ UNCHANGED <<identity, session>>

\* A new password is written, and then the sessions are deleted.
Statement(r) == UpdateSecrets(r) \/ DropSessions(r)

AccountsNext ==
    \/ \E r \in Workers, p \in Profiles :
          \/ \E key \in HandleKeys : Register(r, p, key)
          \/ Login(r, p) \/ ProvePassword(r, p)
    \/ \E r \in Workers : Statement(r)
    \/ \E t \in Tokens : Logout(t)

\* The server goes down: the handlers are gone, the rows stay.
LoseWork ==
    /\ work' = [r \in Workers |-> Idle]
    /\ session' = [t \in Tokens |->
          IF \E r \in Workers : work[r].step = "drop" /\ work[r].profile = session[t].profile
                                /\ session[t] # NoSession
          THEN [session[t] EXCEPT !.late = TRUE] ELSE session[t]]
    /\ UNCHANGED <<account, identity, secrets>>

----------------------------------------------------------------------------

\* "A new password means every other device starts over": a session belongs
\* to the secret its profile has now.  The exceptions are noted when they
\* happen: the handler that is about to delete the sessions, a sign-in that
\* looked at the secret before the change and wrote its session after it, a
\* delete that failed, a server that went down before it.
PasswordEndsSessions ==
    \A t \in Tokens :
        LET s == session[t] IN
        s # NoSession =>
            \/ s.seen = account[s.profile].secret \/ s.late
            \/ \E r \in Workers : work[r].step = "drop" /\ work[r].profile = s.profile

\* "A half-made profile cannot outlive a failed sign-in": every profile can be
\* signed in to, by a password or by an identity, however sign-ups and claims
\* overlap and whatever part of them fails.
ProfilesAreReachable ==
    \A p \in Profiles :
        Exists(p) =>
            account[p].secret # 0 \/ \E i \in Identities : identity[i] = p
=============================================================================
