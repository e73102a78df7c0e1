------------------------------- MODULE SignIn -------------------------------
(* Sign-in with an outside account (server/handlers_revoked.go and package  *)
(* revokedauth), on top of Accounts.                                        *)
(*                                                                          *)
(* A page starts a sign-in and asks for its result; the person approves it  *)
(* in the app, which answers on another connection; the result is a code    *)
(* the page spends for a session, or for a claim it turns into a profile    *)
(* under a handle of the player's choice.  The maps flows, waits and        *)
(* handoffs are in memory, each call on them holds the lock and is a step.  *)
(* state, nonce, verifier and wait key of a sign-in are drawn together and  *)
(* used for nothing else: one model value stands for them.                  *)
EXTENDS Accounts

CONSTANTS
    Flows,           \* sign-ins, each started by one page
    Issuers,         \* the servers people are on
    AllowedIssuers,  \* Options.Issuers, or all of them
    IssuerOf,        \* the server of an identity
    MaxCodes,        \* bound: handoff codes issued in a behaviour
    MaxApprovals     \* bound: requests approved in the app

ASSUME IssuersAreKnown == IssuerOf \in [Identities -> Issuers] /\ MaxCodes \in Nat /\ MaxApprovals \in Nat
ASSUME FlowsAreApart == Nobody \notin Flows /\ Flows \cap 1..MaxCodes = {}

VARIABLES
    flow,      \* flows: the sign-ins that have not come back, and their issuer
    wait,      \* waits: the pages that wait for a result
    handoff,   \* handoffs, by code
    codes,     \* the last code drawn
    late,      \* the sign-ins and codes whose time is over
    page,      \* what the page of a sign-in has got so far, and the server it named
    approved,  \* <<flow, identity>>: approved in the app; the answers it may deliver
    minted     \* the sessions that came of each sign-in

outsideVars == <<flow, wait, handoff, codes, late, page, approved, minted>>
vars == <<accountVars, outsideVars>>

Codes == 1..MaxCodes
NoFlow == [open |-> FALSE, issuer |-> Nobody]
NoWait == [stage |-> "none", code |-> 0]
NoHandoff == [kind |-> "none", profile |-> Nobody, who |-> Nobody]
NewPage == [stage |-> "new", code |-> 0, profile |-> Nobody, named |-> Nobody]

OutsideInit ==
    /\ flow = [f \in Flows |-> NoFlow]
    /\ wait = [f \in Flows |-> NoWait]
    /\ handoff = [c \in Codes |-> NoHandoff]
    /\ codes = 0 /\ late = {} /\ approved = {}
    /\ page = [f \in Flows |-> NewPage]
    /\ minted = [f \in Flows |-> 0]

Init == AccountsInit /\ OutsideInit

To(r, step) == work' = [work EXCEPT ![r].step = step]

\* The page is told that the sign-in is over; one that is in stays in.
PageOver(f) ==
    page' = [page EXCEPT ![f] = IF @.stage = "in" THEN @
                                ELSE [NewPage EXCEPT !.stage = "over", !.named = page[f].named]]

\* sweep, which startFlow and putHandoff begin with.
SweptFlows == [f \in Flows |-> [flow[f] EXCEPT !.open = @ /\ f \notin late]]
SweptWaits == [f \in Flows |-> IF f \in late THEN NoWait ELSE wait[f]]
SweptHandoffs == [c \in Codes |-> IF c \in late THEN NoHandoff ELSE handoff[c]]

----------------------------------------------------------------------------
(* revokedauth.                                                             *)

\* Discover: an allowed server that names itself.  It may fail for reasons of
\* its own at any time, like the calls below.
Discovered(iss) == iss \in AllowedIssuers

\* Exchange redeems a code at the server it was issued at.
Exchanged(iss, who) == IssuerOf[who] = iss

\* Mutant: the nonce of the token is not compared.
VerifiedAnyNonce(iss, f, nonce, who) == IssuerOf[who] = iss

\* VerifyIDToken: signed by that server, and for this sign-in (the nonce).
Verified(iss, f, nonce, who) == IssuerOf[who] = iss /\ nonce = f

----------------------------------------------------------------------------
(* The page and the app.                                                    *)

\* handleRevokedStart, for a named server or any.
StartFlow(f, issuer) ==
    /\ page[f].stage = "new"
    /\ issuer # Nobody => Discovered(issuer)
    /\ flow' = [SweptFlows EXCEPT ![f] = [open |-> TRUE, issuer |-> issuer]]
    /\ wait' = [SweptWaits EXCEPT ![f].stage = "open"]
    /\ handoff' = SweptHandoffs
    /\ page' = [page EXCEPT ![f].stage = "waiting", ![f].named = issuer]
    /\ UNCHANGED <<accountVars, codes, late, approved, minted>>

\* The person approves the request the page shows, in the app.
Approve(f, i) ==
    /\ page[f].stage = "waiting" /\ <<f, i>> \notin approved
    /\ Cardinality(approved) < MaxApprovals
    /\ approved' = approved \cup {<<f, i>>}
    /\ UNCHANGED <<accountVars, flow, wait, handoff, codes, late, page, minted>>

\* revokedFlowLifetime is over for a sign-in or a code.
TimesOut(x) ==
    /\ x \notin late
    /\ \/ x \in Flows /\ (flow[x].open \/ wait[x] # NoWait)
       \/ x \in Codes /\ handoff[x] # NoHandoff
    /\ late' = late \cup {x}
    /\ UNCHANGED <<accountVars, flow, wait, handoff, codes, page, approved, minted>>

\* takeWait knows of no sign-in whose time is not over.
WaitIsOver(f) == wait[f] = NoWait \/ f \in late

\* handleRevokedWait: a result is handed over once; the answer may be lost.
Ask(f) ==
    /\ page[f].stage = "waiting"
    /\ \/ /\ WaitIsOver(f) \/ wait[f].stage = "refused"
          /\ PageOver(f)
       \/ /\ wait[f].stage = "done" /\ ~WaitIsOver(f)
          /\ \/ page' = [page EXCEPT ![f].stage = "coded", ![f].code = wait[f].code]
             \/ UNCHANGED page
    /\ wait' = [wait EXCEPT ![f] = NoWait]
    /\ UNCHANGED <<accountVars, flow, handoff, codes, late, approved, minted>>

----------------------------------------------------------------------------
(* handleRevokedCallback.                                                   *)

\* takeFlow: a state is good for one callback.  The answer carries the state
\* of a sign-in and, if the person did not refuse, a code some sign-in was
\* approved with; the app may deliver it more than once.
TakeFlow(r, f, answer) ==
    /\ Free(r) /\ flow[f].open /\ f \notin late
    /\ flow' = [flow EXCEPT ![f].open = FALSE]
    /\ work' = [work EXCEPT ![r] = [Idle EXCEPT !.step = "answer", !.flow = f,
                                                !.key = answer[1], !.who = answer[2]]]
    /\ UNCHANGED <<account, identity, session, secrets,
                   wait, handoff, codes, late, page, approved, minted>>

\* Mutant: the server the answer names is taken, whatever the page asked for.
ServerOfAnswer(f, who) == IssuerOf[who]

\* The answer has to come from the server the sign-in was started for: one that
\* names another is refused, and so is, by that server, a code of another.  If
\* it was started for none, from the server the answer names.
AskedServer(f, who) == IF flow[f].issuer # Nobody THEN flow[f].issuer ELSE IssuerOf[who]

\* Whether the answer tells who it is.
Vouched(f, nonce, who) ==
    /\ who # Nobody
    /\ LET iss == AskedServer(f, who) IN
       Discovered(iss) /\ Exchanged(iss, who) /\ Verified(iss, f, nonce, who)

\* GetAccountByIdentity.
ProfileOf(i) == identity[i]

\* revokedAnswer up to GetAccountByIdentity: a session for the profile the
\* identity has, or a claim when it has none, or the reason there is none.
Answer(r) ==
    LET w == work[r] IN
    /\ w.step = "answer"
    /\ \/ /\ Vouched(w.flow, w.key, w.who)
          /\ LET p == ProfileOf(w.who) IN
             work' = [work EXCEPT ![r].step = IF p # Nobody THEN "mint" ELSE "put",
                                  ![r].profile = p,
                                  ![r].seen = IF p # Nobody THEN account[p].secret ELSE 0]
       \/ To(r, "refuse")
    /\ UNCHANGED <<account, identity, session, secrets, outsideVars>>

\* createAccountSession for an identity that has a profile.
Mint(r) ==
    LET w == work[r] IN
    /\ w.step = "mint"
    /\ \/ \E t \in Tokens :
             /\ FreeToken(t)
             /\ session' = [session EXCEPT ![t] = [profile |-> w.profile, seen |-> w.seen,
                                  late |-> w.seen # account[w.profile].secret]]
             /\ minted' = [minted EXCEPT ![w.flow] = @ + 1]
             /\ To(r, "put")
       \/ To(r, "refuse") /\ UNCHANGED <<session, minted>>
    /\ UNCHANGED <<account, identity, secrets,
                   flow, wait, handoff, codes, late, page, approved>>

\* putHandoff, under a new code.
PutHandoff(h) ==
    /\ codes < MaxCodes /\ codes' = codes + 1
    /\ handoff' = [SweptHandoffs EXCEPT ![codes + 1] = h]
    /\ flow' = SweptFlows /\ wait' = SweptWaits

Put(r) ==
    LET w == work[r] IN
    /\ w.step = "put"
    /\ PutHandoff([kind |-> IF w.profile # Nobody THEN "session" ELSE "claim",
                   profile |-> w.profile, who |-> w.who])
    /\ work' = [work EXCEPT ![r].step = "result", ![r].code = codes + 1]
    /\ UNCHANGED <<account, identity, session, secrets, late, page, approved, minted>>

\* finishWait: the code, or the reason there is none, for the page that waits.
FinishWait(r) ==
    LET w == work[r] IN
    /\ w.step \in {"result", "refuse"}
    /\ wait' = [wait EXCEPT ![w.flow] =
          IF @ = NoWait THEN @
          ELSE [stage |-> IF w.step = "result" THEN "done" ELSE "refused", code |-> w.code]]
    /\ Done(r)
    /\ UNCHANGED <<account, identity, session, secrets,
                   flow, handoff, codes, late, page, approved, minted>>

----------------------------------------------------------------------------
(* handleRevokedFinish and handleRevokedClaim.                              *)

Usable(c) == c # 0 /\ handoff[c] # NoHandoff /\ c \notin late

\* takeHandoff is single use: the session goes to the page, whose answer may
\* be lost; a claim is put back under a new code.
TakeHandoff(r, f) ==
    LET c == page[f].code  h == handoff[c] IN
    /\ page[f].stage = "coded" /\ Free(r)
    /\ \/ /\ Usable(c) /\ h.kind = "session"
          /\ \/ page' = [page EXCEPT ![f].stage = "in", ![f].profile = h.profile]
             \/ UNCHANGED page
          /\ UNCHANGED work
       \/ /\ Usable(c) /\ h.kind = "claim"
          /\ work' = [work EXCEPT ![r] = [Idle EXCEPT !.step = "putback", !.flow = f, !.who = h.who]]
          /\ UNCHANGED page
       \/ ~Usable(c) /\ PageOver(f) /\ UNCHANGED work
    /\ handoff' = [handoff EXCEPT ![c] = NoHandoff]
    /\ UNCHANGED <<account, identity, session, secrets,
                   flow, wait, codes, late, approved, minted>>

PutBack(r) ==
    LET f == work[r].flow IN
    /\ work[r].step = "putback"
    /\ PutHandoff([NoHandoff EXCEPT !.kind = "claim", !.who = work[r].who]) /\ Done(r)
    /\ \/ page' = [page EXCEPT ![f].stage = "choosing", ![f].code = codes + 1]
       \/ UNCHANGED page
    /\ UNCHANGED <<account, identity, session, secrets, late, approved, minted>>

\* Mutant: the claim is taken, as a code is by finish.
ClaimTakes(r, f, key) ==
    LET c == page[f].code IN
    /\ page[f].stage = "choosing" /\ Free(r) /\ Usable(c) /\ handoff[c].kind = "claim"
    /\ work' = [work EXCEPT ![r] = [Idle EXCEPT !.step = "create", !.flow = f, !.code = c,
                                                !.who = handoff[c].who, !.key = key]]
    /\ handoff' = [handoff EXCEPT ![c] = NoHandoff]
    /\ UNCHANGED <<account, identity, session, secrets,
                   flow, wait, codes, late, page, approved, minted>>

\* peekHandoff: the claim is read and stays.  The page may send it again.
Claim(r, f, key) ==
    LET c == page[f].code IN
    /\ page[f].stage = "choosing" /\ Free(r)
    /\ \/ /\ Usable(c) /\ handoff[c].kind = "claim"
          /\ work' = [work EXCEPT ![r] = [Idle EXCEPT !.step = "create", !.flow = f, !.code = c,
                                                      !.who = handoff[c].who, !.key = key]]
          /\ UNCHANGED page
       \/ ~Usable(c) /\ PageOver(f) /\ UNCHANGED work
    /\ UNCHANGED <<account, identity, session, secrets,
                   flow, wait, handoff, codes, late, approved, minted>>

\* Mutant: two statements instead of a transaction; the second is refused.
CreateThenLink(r, p) ==
    LET w == work[r] IN
    /\ w.step = "create" /\ NewID(p)
    /\ \/ /\ ~Taken(w.key)
          /\ account' = [account EXCEPT ![p] = [key |-> w.key, secret |-> 0]]
          /\ identity' = [identity EXCEPT ![w.who] = IF @ = Nobody THEN p ELSE @]
          /\ work' = [work EXCEPT ![r].step = "drop claim",
                                  ![r].profile = IF identity[w.who] = Nobody THEN p ELSE Nobody]
       \/ Done(r) /\ UNCHANGED <<account, identity>>
    /\ UNCHANGED <<session, secrets, outsideVars>>

\* Mutant: an identity that has got a profile meanwhile signs in to it.
CreateOrFind(r, p) ==
    LET w == work[r] IN
    /\ w.step = "create" /\ NewID(p) /\ ~Taken(w.key)
    /\ IF identity[w.who] = Nobody
       THEN /\ account' = [account EXCEPT ![p] = [key |-> w.key, secret |-> 0]]
            /\ identity' = [identity EXCEPT ![w.who] = p]
            /\ work' = [work EXCEPT ![r].step = "drop claim", ![r].profile = p]
       ELSE /\ work' = [work EXCEPT ![r].step = "drop claim", ![r].profile = identity[w.who]]
            /\ UNCHANGED <<account, identity>>
    /\ UNCHANGED <<session, secrets, outsideVars>>

\* CreateAccountWithIdentity, one transaction: the profile and its link, or
\* neither.  A handle that is taken leaves the claim as it was.
CreateWithIdentity(r, p) ==
    LET w == work[r] IN
    /\ w.step = "create"
    /\ \/ /\ NewID(p) /\ ~Taken(w.key) /\ identity[w.who] = Nobody
          /\ account' = [account EXCEPT ![p] = [key |-> w.key, secret |-> 0]]
          /\ identity' = [identity EXCEPT ![w.who] = p]
          /\ work' = [work EXCEPT ![r].step = "drop claim", ![r].profile = p]
       \/ /\ ~Taken(w.key) /\ identity[w.who] # Nobody
          /\ To(r, "drop claim")
          /\ UNCHANGED <<account, identity>>
       \/ Done(r) /\ UNCHANGED <<account, identity>>   \* taken, or it failed
    /\ UNCHANGED <<session, secrets, outsideVars>>

\* dropHandoff, after the profile was made or the identity turned out to have
\* one.
DropClaim(r) ==
    LET w == work[r] IN
    /\ w.step = "drop claim"
    /\ handoff' = [handoff EXCEPT ![w.code] = NoHandoff]
    /\ IF w.profile # Nobody THEN To(r, "session") /\ UNCHANGED page
       ELSE Done(r) /\ PageOver(w.flow)
    /\ UNCHANGED <<account, identity, session, secrets,
                   flow, wait, codes, late, approved, minted>>

\* The session of a claim, or of a handler of Accounts.
Finished(r) ==
    LET f == work[r].flow IN
    /\ CreateSession(r)
    /\ IF f \in Flows /\ session' # session
       THEN /\ minted' = [minted EXCEPT ![f] = @ + 1]
            /\ page' = [page EXCEPT ![f].stage = "in", ![f].profile = work[r].profile]
       ELSE UNCHANGED <<minted, page>>
    /\ UNCHANGED <<flow, wait, handoff, codes, late, approved>>

----------------------------------------------------------------------------

\* The server is restarted: what is in memory is gone.
Restart ==
    /\ LoseWork
    /\ flow' = [f \in Flows |-> NoFlow] /\ wait' = [f \in Flows |-> NoWait]
    /\ handoff' = [c \in Codes |-> NoHandoff]
    /\ late' = late \cup {f \in Flows : page[f].stage # "new"} \cup 1..codes
    /\ UNCHANGED <<codes, page, approved, minted>>

Handlers(r) ==
    \/ \E f \in Flows, a \in approved \cup {<<Nobody, Nobody>>} : TakeFlow(r, f, a)
    \/ Answer(r) \/ Mint(r) \/ Put(r) \/ FinishWait(r)
    \/ \E f \in Flows : TakeHandoff(r, f)
    \/ PutBack(r)
    \/ \E f \in Flows, key \in HandleKeys : Claim(r, f, key)
    \/ \E p \in Profiles : CreateWithIdentity(r, p)
    \/ DropClaim(r) \/ Finished(r)

Next ==
    \/ \E f \in Flows :
          \/ \E issuer \in Issuers \cup {Nobody} : StartFlow(f, issuer)
          \/ \E i \in Identities : Approve(f, i)
          \/ Ask(f)
    \/ \E x \in Flows \cup Codes : TimesOut(x)
    \/ \E r \in Workers : Handlers(r)
    \/ AccountsNext /\ UNCHANGED outsideVars
    \/ Restart

Spec == Init /\ [][Next]_vars

----------------------------------------------------------------------------

\* Whoever a page ends up signed in as, or choosing a handle for, approved
\* the request of that page, on the server the page asked for if it named one;
\* answers of several sign-ins may be mixed up on the way (revokedAnswer).
HasApproved(f, i) ==
    <<f, i>> \in approved /\ (page[f].named # Nobody => IssuerOf[i] = page[f].named)
PageGetsItsPerson ==
    \A f \in Flows :
        /\ page[f].stage = "in" =>
              \E i \in Identities : HasApproved(f, i) /\ identity[i] = page[f].profile
        /\ (page[f].stage \in {"coded", "choosing"} /\ Usable(page[f].code)
            /\ handoff[page[f].code].kind = "claim")
           => HasApproved(f, handoff[page[f].code].who)

\* A sign-in yields one session at most, however often its answer is
\* delivered and its code or claim is sent (takeFlow, takeHandoff, claims).
OneSessionPerSignIn == \A f \in Flows : minted[f] <= 1

\* "The claim is still good: the player picks another name without signing in
\* again": as long as its time is not over, a page that chooses a handle can
\* use its claim, unless the identity has got its profile.
ClaimStaysGood ==
    \A f \in Flows :
        (page[f].stage = "choosing" /\ page[f].code \notin late) =>
            \/ Usable(page[f].code)
            \/ \E i \in Identities : <<f, i>> \in approved /\ identity[i] # Nobody

\* A sign-in that succeeded is good for its session: for one, and for one.
GoodForOneSession == OneSessionPerSignIn /\ ClaimStaysGood
=============================================================================
