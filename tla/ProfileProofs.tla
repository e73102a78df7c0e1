---------------------------- MODULE ProfileProofs ---------------------------
(* What Accounts and SignIn promise, for every set of profiles, handles,    *)
(* identities, sessions, overlapping requests and sign-ins; and what Friends *)
(* promises, for every set of profiles, tables, invitations and overlapping *)
(* requests.                                                                *)
EXTENDS SignIn, Friends, TLAPS

----------------------------------------------------------------------------
(* Accounts and sign-ins.                                                   *)

Steps == {"idle", "session", "secrets", "drop", "answer", "mint", "put", "result", "refuse",
          "putback", "create", "drop claim"}
WorkType ==
    [step : Steps, profile : Profiles \cup {Nobody}, seen : Nat, flow : Flows \cup {Nobody},
     code : Codes \cup {0}, who : Identities \cup {Nobody},
     key : HandleKeys \cup Flows \cup {Nobody}]
PageType ==
    [stage : {"new", "waiting", "coded", "choosing", "in", "over"}, code : Codes \cup {0},
     profile : Profiles \cup {Nobody}, named : Issuers \cup {Nobody}]
HandoffType ==
    [kind : {"none", "session", "claim"}, profile : Profiles \cup {Nobody},
     who : Identities \cup {Nobody}]

\* The rows and what is in memory have the types of the code's structs.
AccountsType ==
    /\ account \in [Profiles -> [key : HandleKeys \cup {Nobody}, secret : Nat]]
    /\ identity \in [Identities -> Profiles \cup {Nobody}]
    /\ session \in [Tokens -> [profile : Profiles \cup {Nobody}, seen : Nat, late : BOOLEAN]]
    /\ secrets \in Nat
    /\ work \in [Workers -> WorkType]
OutsideType ==
    /\ flow \in [Flows -> [open : BOOLEAN, issuer : Issuers \cup {Nobody}]]
    /\ wait \in [Flows -> [stage : {"none", "open", "done", "refused"}, code : Codes \cup {0}]]
    /\ handoff \in [Codes -> HandoffType]
    /\ codes \in Codes \cup {0}
    /\ late \subseteq Flows \cup Codes
    /\ page \in [Flows -> PageType]
    /\ approved \subseteq Flows \X Identities
    /\ minted \in [Flows -> Nat]
TypeOK == AccountsType /\ OutsideType

----------------------------------------------------------------------------
(* The inductive invariant.                                                 *)

\* Sessions, identities and handlers name profiles that exist.
ProfilesExist ==
    /\ \A t \in Tokens : session[t] # NoSession =>
          session[t].profile \in Profiles /\ Exists(session[t].profile)
    /\ \A i \in Identities : identity[i] # Nobody => Exists(identity[i])
    /\ \A r \in Workers : work[r].step \in {"session", "secrets", "drop", "mint"} =>
          work[r].profile \in Profiles /\ Exists(work[r].profile)

\* Only codes that were drawn are late or hold something.
CodesAreDrawn ==
    \A c \in Codes : c > codes => c \notin late /\ handoff[c] = NoHandoff

OutsideSteps == {"answer", "mint", "put", "result", "refuse", "putback", "create", "drop claim"}

\* A handler works for one sign-in from takeFlow to finishWait, or for none;
\* one that is to make a profile has a handle for it.
HandlersHaveFlows ==
    \A r \in Workers :
        /\ work[r].step \in OutsideSteps => work[r].flow \in Flows
        /\ work[r].flow \in Flows => work[r].step \in OutsideSteps \cup {"session"}
        /\ work[r].step = "create" => work[r].key \in HandleKeys

\* Nothing has come of a sign-in: no session, and no code for its page.
Fruitless(f) ==
    /\ minted[f] = 0 /\ wait[f].stage # "done"
    /\ page[f].stage \in {"new", "waiting", "over"}

\* A sign-in is answered once: until then nothing comes of it, and nobody
\* works for it but the one who answers.
Answering(w) == w.step \in {"answer", "mint"}
Once(f) ==
    /\ page[f].stage = "new" => ~flow[f].open
    /\ (page[f].stage = "new" \/ flow[f].open) =>
          Fruitless(f) /\ \A r \in Workers : work[r].flow # f
    /\ \A r \in Workers :
          (work[r].flow = f /\ Answering(work[r])) =>
              /\ Fruitless(f) /\ page[f].stage # "new" /\ ~flow[f].open
              /\ \A q \in Workers \ {r} : work[q].flow # f
AnsweredOnce == \A f \in Flows : Once(f)

\* What is under a code of sign-in f belongs to the person g[f] who approved it.
Holds(g, f, c) ==
    /\ c \in Codes /\ c <= codes
    /\ handoff[c] # NoHandoff =>
          /\ handoff[c].who = g[f] /\ <<f, g[f]>> \in approved
          /\ handoff[c].kind = "session" =>
                handoff[c].profile # Nobody /\ identity[g[f]] = handoff[c].profile

\* The same of a handler, whose profile is that person's or still to come.
\* K are the codes of claims that were put back for the page.
WorksFor(g, K, r) ==
    LET w == work[r]  f == work[r].flow IN
    /\ w.step = "answer" => <<w.key, w.who>> \in approved \cup {<<Nobody, Nobody>>}
    /\ (f \in Flows /\ w.step \in {"mint", "put", "putback", "create", "drop claim", "session"}) =>
          w.who = g[f] /\ <<f, g[f]>> \in approved
    /\ (f \in Flows /\ w.step \in {"mint", "session"}) => identity[w.who] = w.profile
    /\ (w.step \in {"put", "drop claim"} /\ w.profile # Nobody) => identity[w.who] = w.profile
    /\ w.step = "create" => w.profile = Nobody
    /\ w.step = "drop claim" => identity[w.who] # Nobody
    /\ w.step = "result" => Holds(g, f, w.code) /\ w.code \notin K
    /\ w.step \in {"create", "drop claim"} => Holds(g, f, w.code)

\* And of what the page has or waits for: a code, a claim to choose a handle
\* with, a session.
Awaited(g, K, f) ==
    wait[f].stage = "done" => Holds(g, f, wait[f].code) /\ wait[f].code \notin K
Shown(g, K, f) ==
    /\ page[f].stage = "coded" => Holds(g, f, page[f].code) /\ page[f].code \notin K
    /\ page[f].stage = "choosing" => Holds(g, f, page[f].code) /\ page[f].code \in K
    /\ page[f].stage = "in" =>
          <<f, g[f]>> \in approved /\ page[f].profile # Nobody /\ identity[g[f]] = page[f].profile
SignedIn(g, f) == minted[f] # 0 => <<f, g[f]>> \in approved /\ identity[g[f]] # Nobody
Served(g, K, f) == Awaited(g, K, f) /\ Shown(g, K, f) /\ SignedIn(g, f)

\* That person is on the server the page named, if it named one.
ForPage(g, f) ==
    /\ page[f].stage = "new" => g[f] = Nobody
    /\ (page[f].named # Nobody /\ g[f] # Nobody) => IssuerOf[g[f]] = page[f].named

\* And so is whoever the answer of a sign-in can tell of: as long as it may
\* come, the sign-in is for the server its page named.
Unanswered(f) == flow[f].open \/ \E r \in Workers : work[r].step = "answer" /\ work[r].flow = f
NamedServer == \A f \in Flows : Unanswered(f) => page[f].named = flow[f].issuer

\* A handler that is about to create the session of a claim is the only one,
\* and the first.
Claiming(w) ==
    \/ w.step = "drop claim" /\ w.profile # Nobody
    \/ w.step = "session" /\ w.flow \in Flows
ClaimsAlone(r) ==
    Claiming(work[r]) =>
        /\ minted[work[r].flow] = 0
        /\ \A q \in Workers \ {r} : Claiming(work[q]) => work[q].flow # work[r].flow

Owned(g, K) ==
    /\ \A c \in K : c <= codes
    /\ \A r \in Workers : WorksFor(g, K, r) /\ ClaimsAlone(r)
    /\ \A f \in Flows : Served(g, K, f) /\ ForPage(g, f)
Owners == \E g \in [Flows -> Identities \cup {Nobody}], K \in SUBSET Codes : Owned(g, K)

SignInInv ==
    /\ TypeOK /\ ProfilesExist /\ CodesAreDrawn /\ HandlersHaveFlows /\ AnsweredOnce /\ NamedServer
    /\ Owners /\ PasswordEndsSessions /\ ProfilesAreReachable /\ GoodForOneSession
----------------------------------------------------------------------------
(* Types.                                                                   *)

LEMMA IdleType == Idle \in WorkType
  BY DEF Idle, WorkType, Steps

LEMMA StepNames ==
  /\ "session" \in Steps /\ "secrets" \in Steps /\ "drop" \in Steps /\ "answer" \in Steps
  /\ "mint" \in Steps /\ "put" \in Steps /\ "result" \in Steps /\ "refuse" \in Steps
  /\ "putback" \in Steps /\ "create" \in Steps /\ "drop claim" \in Steps
  BY DEF Steps

(* What the handlers do to what they still have to do.                      *)
LEMMA WorkUpdate ==
  ASSUME NEW W \in [Workers -> WorkType], NEW r \in Workers
  PROVE  /\ \A w \in WorkType : [W EXCEPT ![r] = w] \in [Workers -> WorkType]
         /\ \A s \in Steps : [W EXCEPT ![r].step = s] \in [Workers -> WorkType]
         /\ \A p \in Profiles \cup {Nobody} : [W EXCEPT ![r].profile = p] \in [Workers -> WorkType]
         /\ \A n \in Nat : [W EXCEPT ![r].seen = n] \in [Workers -> WorkType]
         /\ \A c \in Codes \cup {0} : [W EXCEPT ![r].code = c] \in [Workers -> WorkType]
<1>1. ASSUME NEW w \in WorkType
      PROVE  /\ \A s \in Steps : [w EXCEPT !.step = s] \in WorkType
             /\ \A p \in Profiles \cup {Nobody} : [w EXCEPT !.profile = p] \in WorkType
             /\ \A n \in Nat : [w EXCEPT !.seen = n] \in WorkType
             /\ \A c \in Codes \cup {0} : [w EXCEPT !.code = c] \in WorkType
  BY DEF WorkType
<1> QED BY <1>1

LEMMA WorkStep ==
  TypeOK /\ [Next]_vars => work' \in [Workers -> WorkType]
<1> SUFFICES ASSUME TypeOK, [Next]_vars PROVE work' \in [Workers -> WorkType]
  OBVIOUS
<1>0. /\ work \in [Workers -> WorkType] /\ secrets \in Nat
      /\ \A p \in Profiles : account[p].secret \in Nat
      /\ \A i \in Identities : identity[i] \in Profiles \cup {Nobody}
      /\ \A c \in Codes : handoff[c].who \in Identities \cup {Nobody}
      /\ \A f \in Flows : page[f].code \in Codes \cup {0}
  BY DEF TypeOK, AccountsType, OutsideType, HandoffType, PageType
<1>1. ASSUME NEW r \in Workers, NEW f \in Flows,
             NEW a \in approved \cup {<<Nobody, Nobody>>}, TakeFlow(r, f, a)
      PROVE  work' \in [Workers -> WorkType]
  <2>1. /\ work' = [work EXCEPT ![r] = [Idle EXCEPT !.step = "answer", !.flow = f,
                                                    !.key = a[1], !.who = a[2]]]
        /\ a[1] \in Flows \cup {Nobody} /\ a[2] \in Identities \cup {Nobody}
    BY <1>1 DEF TakeFlow, TypeOK, OutsideType
  <2>2. [Idle EXCEPT !.step = "answer", !.flow = f, !.key = a[1], !.who = a[2]] \in WorkType
    BY <2>1 DEF Idle, WorkType, Steps
  <2> QED BY <1>0, <2>1, <2>2
<1>2. ASSUME NEW r \in Workers, Answer(r) PROVE work' \in [Workers -> WorkType]
  <2>1. CASE To(r, "refuse")
    BY <1>0, <2>1, StepNames, WorkUpdate DEF To
  <2>2. CASE ~To(r, "refuse")
    <3> DEFINE s == IF identity[work[r].who] # Nobody THEN "mint" ELSE "put"
               p == identity[work[r].who]
               n == IF p # Nobody THEN account[p].secret ELSE 0
    <3>1. work' = [work EXCEPT ![r].step = s, ![r].profile = p, ![r].seen = n]
          /\ work[r].who # Nobody
      BY <1>2, <2>2 DEF Answer, ProfileOf, Vouched
    <3>2. p \in Profiles \cup {Nobody}
      BY <1>0, <3>1 DEF WorkType
    <3>3. s \in Steps /\ n \in Nat
      BY <1>0, <3>2 DEF Steps
    <3> HIDE DEF s, p, n
    <3> QED BY <1>0, <3>1, <3>2, <3>3, WorkUpdate
  <2> QED BY <2>1, <2>2
<1>3. ASSUME NEW r \in Workers, Put(r) PROVE work' \in [Workers -> WorkType]
  <2>1. codes + 1 \in Codes
    BY <1>3, IssuersAreKnown DEF Put, PutHandoff, TypeOK, OutsideType, Codes
  <2>2. work' = [work EXCEPT ![r].step = "result", ![r].code = codes + 1]
    BY <1>3 DEF Put
  <2> QED BY <1>0, <2>1, <2>2, StepNames, WorkUpdate
<1>4. ASSUME NEW r \in Workers, NEW f \in Flows, TakeHandoff(r, f)
      PROVE  work' \in [Workers -> WorkType]
  <2>1. CASE UNCHANGED work
    BY <1>0, <2>1
  <2>2. CASE work' # work
    <3> DEFINE i == handoff[page[f].code].who
    <3>1. work' = [work EXCEPT ![r] = [Idle EXCEPT !.step = "putback", !.flow = f, !.who = i]]
          /\ page[f].code # 0
      BY <1>4, <2>2 DEF TakeHandoff, Usable
    <3>2. [Idle EXCEPT !.step = "putback", !.flow = f, !.who = i] \in WorkType
      <4>1. i \in Identities \cup {Nobody}
        BY <1>0, <3>1
      <4> QED BY <4>1 DEF Idle, WorkType, Steps
    <3> QED BY <1>0, <3>1, <3>2
  <2> QED BY <2>1, <2>2
<1>5. ASSUME NEW r \in Workers, NEW f \in Flows, NEW key \in HandleKeys, Claim(r, f, key)
      PROVE  work' \in [Workers -> WorkType]
  <2>1. CASE UNCHANGED work
    BY <1>0, <2>1
  <2>2. CASE work' # work
    <3> DEFINE c == page[f].code
               w == [Idle EXCEPT !.step = "create", !.flow = f, !.code = c,
                                 !.who = handoff[c].who, !.key = key]
    <3>1. work' = [work EXCEPT ![r] = w] /\ c # 0
      BY <1>5, <2>2 DEF Claim, Usable
    <3>2. w \in WorkType
      <4>1. c \in Codes \cup {0} /\ handoff[c].who \in Identities \cup {Nobody}
        BY <1>0, <3>1
      <4> QED BY <4>1 DEF Idle, WorkType, Steps
    <3> HIDE DEF w
    <3> QED BY <1>0, <3>1, <3>2
  <2> QED BY <2>1, <2>2
<1>6. ASSUME NEW r \in Workers, NEW p \in Profiles, CreateWithIdentity(r, p)
      PROVE  work' \in [Workers -> WorkType]
  <2>1. CASE work' = [work EXCEPT ![r].step = "drop claim", ![r].profile = p]
    BY <1>0, <2>1, StepNames, WorkUpdate
  <2>2. CASE To(r, "drop claim")
    BY <1>0, <2>2, StepNames, WorkUpdate DEF To
  <2>3. CASE Done(r)
    BY <1>0, <2>3, IdleType, WorkUpdate DEF Done
  <2> QED BY <1>6, <2>1, <2>2, <2>3 DEF CreateWithIdentity
<1>7. ASSUME NEW r \in Workers, \/ To(r, "put") \/ To(r, "refuse") \/ To(r, "session") \/ Done(r)
      PROVE  work' \in [Workers -> WorkType]
  <2>1. ASSUME NEW s \in Steps, To(r, s) PROVE work' \in [Workers -> WorkType]
    BY <1>0, <2>1, WorkUpdate DEF To
  <2>2. CASE Done(r)
    BY <1>0, <2>2, IdleType, WorkUpdate DEF Done
  <2> QED BY <1>7, <2>1, <2>2, StepNames
<1>8. ASSUME NEW r \in Workers, NEW p \in Profiles, NEW n \in Nat,
             work' = [work EXCEPT ![r] = [Idle EXCEPT !.step = "session", !.profile = p, !.seen = n]]
      PROVE  work' \in [Workers -> WorkType]
  <2>1. [Idle EXCEPT !.step = "session", !.profile = p, !.seen = n] \in WorkType
    BY DEF Idle, WorkType, Steps
  <2> QED BY <1>0, <1>8, <2>1
<1>9. ASSUME NEW r \in Workers, NEW p \in Profiles,
             work' = [work EXCEPT ![r] = [Idle EXCEPT !.step = "secrets", !.profile = p]]
      PROVE  work' \in [Workers -> WorkType]
  <2>1. [Idle EXCEPT !.step = "secrets", !.profile = p] \in WorkType
    BY DEF Idle, WorkType, Steps
  <2> QED BY <1>0, <1>9, <2>1
<1>10. ASSUME NEW r \in Workers, UpdateSecrets(r) PROVE work' \in [Workers -> WorkType]
  <2>1. CASE Done(r)
    BY <1>0, <2>1, IdleType, WorkUpdate DEF Done
  <2>2. CASE work' = [work EXCEPT ![r].step = "drop", ![r].seen = secrets + 1]
    <3>1. secrets + 1 \in Nat
      BY <1>0
    <3> QED BY <1>0, <2>2, <3>1, StepNames, WorkUpdate
  <2> QED BY <1>10, <2>1, <2>2 DEF UpdateSecrets
<1>11. CASE Restart
  BY <1>11, IdleType DEF Restart, LoseWork
<1>12. CASE UNCHANGED work
  BY <1>0, <1>12
<1>13. ASSUME NEW r \in Workers, Handlers(r) PROVE work' \in [Workers -> WorkType]
  <2>1. Mint(r) \/ FinishWait(r) \/ PutBack(r) \/ DropClaim(r) \/ Finished(r)
        => To(r, "put") \/ To(r, "refuse") \/ To(r, "session") \/ Done(r)
    BY DEF Mint, FinishWait, PutBack, DropClaim, Finished, CreateSession
  <2> QED BY <1>13, <1>1, <1>2, <1>3, <1>4, <1>5, <1>6, <1>7, <2>1 DEF Handlers
<1>14. CASE AccountsNext
  <2>1. ASSUME NEW r \in Workers, NEW p \in Profiles, NEW key \in HandleKeys, Register(r, p, key)
        PROVE  work' \in [Workers -> WorkType]
    <3>1. secrets + 1 \in Nat
      BY <1>0
    <3> QED BY <1>8, <2>1, <3>1 DEF Register
  <2>2. ASSUME NEW r \in Workers, NEW p \in Profiles, Login(r, p)
        PROVE  work' \in [Workers -> WorkType]
    BY <1>0, <1>8, <2>2 DEF Login
  <2>3. ASSUME NEW r \in Workers, NEW p \in Profiles, ProvePassword(r, p)
        PROVE  work' \in [Workers -> WorkType]
    BY <1>9, <2>3 DEF ProvePassword
  <2>4. ASSUME NEW r \in Workers, DropSessions(r) PROVE work' \in [Workers -> WorkType]
    BY <1>7, <2>4 DEF DropSessions, To
  <2>5. ASSUME NEW t \in Tokens, Logout(t) PROVE work' \in [Workers -> WorkType]
    BY <1>0, <2>5 DEF Logout
  <2> QED BY <1>10, <1>14, <2>1, <2>2, <2>3, <2>4, <2>5 DEF AccountsNext, Statement
<1>15. ASSUME NEW f \in Flows, NEW issuer \in Issuers \cup {Nobody}, StartFlow(f, issuer)
       PROVE  UNCHANGED work
  BY <1>15 DEF StartFlow, accountVars
<1>16. ASSUME NEW f \in Flows, NEW i \in Identities, Approve(f, i) PROVE UNCHANGED work
  BY <1>16 DEF Approve, accountVars
<1>17. ASSUME NEW f \in Flows, Ask(f) PROVE UNCHANGED work
  BY <1>17 DEF Ask, accountVars
<1>18. ASSUME NEW x \in Flows \cup Codes, TimesOut(x) PROVE UNCHANGED work
  BY <1>18 DEF TimesOut, accountVars
<1>19. CASE UNCHANGED vars
  BY <1>0, <1>19 DEF vars, accountVars
<1> QED BY <1>11, <1>12, <1>13, <1>14, <1>15, <1>16, <1>17, <1>18, <1>19 DEF Next

(* The same for the pages and the waits.                                    *)
LEMMA PageUpdate ==
  ASSUME NEW P \in [Flows -> PageType], NEW f
  PROVE  /\ \A g \in PageType : [P EXCEPT ![f] = g] \in [Flows -> PageType]
         /\ \A i \in Issuers \cup {Nobody} :
               [P EXCEPT ![f].stage = "waiting", ![f].named = i] \in [Flows -> PageType]
         /\ \A c \in Codes \cup {0} : [P EXCEPT ![f].stage = "coded", ![f].code = c] \in [Flows -> PageType]
         /\ \A c \in Codes \cup {0} : [P EXCEPT ![f].stage = "choosing", ![f].code = c] \in [Flows -> PageType]
         /\ \A p \in Profiles \cup {Nobody} :
               [P EXCEPT ![f].stage = "in", ![f].profile = p] \in [Flows -> PageType]
<1>1. ASSUME NEW g \in PageType
      PROVE  /\ \A i \in Issuers \cup {Nobody} : [g EXCEPT !.stage = "waiting", !.named = i] \in PageType
             /\ \A c \in Codes \cup {0} : [g EXCEPT !.stage = "coded", !.code = c] \in PageType
             /\ \A c \in Codes \cup {0} : [g EXCEPT !.stage = "choosing", !.code = c] \in PageType
             /\ \A p \in Profiles \cup {Nobody} : [g EXCEPT !.stage = "in", !.profile = p] \in PageType
  BY DEF PageType
<1> QED BY <1>1

LEMMA PageOverType ==
  ASSUME TypeOK, NEW f, PageOver(f)
  PROVE  page' \in [Flows -> PageType]
<1> DEFINE n == [NewPage EXCEPT !.stage = "over", !.named = page[f].named]
<1>2. page \in [Flows -> PageType]
  BY DEF TypeOK, OutsideType
<1>1. f \in Flows => n \in PageType
  BY <1>2 DEF NewPage, PageType
<1>3. page' = [page EXCEPT ![f] = IF page[f].stage = "in" THEN page[f] ELSE n]
  BY DEF PageOver
<1> HIDE DEF n
<1> QED BY <1>1, <1>2, <1>3

FlowType == [open : BOOLEAN, issuer : Issuers \cup {Nobody}]
WaitType == [stage : {"none", "open", "done", "refused"}, code : Codes \cup {0}]

LEMMA SweptTypes ==
  ASSUME TypeOK
  PROVE  /\ SweptFlows \in [Flows -> FlowType]
         /\ SweptWaits \in [Flows -> WaitType]
         /\ SweptHandoffs \in [Codes -> HandoffType]
<1>1. SweptFlows \in [Flows -> FlowType]
  <2>1. ASSUME NEW f \in Flows PROVE [flow[f] EXCEPT !.open = @ /\ f \notin late] \in FlowType
    <3>1. flow[f] \in FlowType /\ (flow[f].open /\ f \notin late) \in BOOLEAN
      BY DEF TypeOK, OutsideType, FlowType
    <3> QED BY <3>1 DEF FlowType
  <2> QED BY <2>1 DEF SweptFlows
<1>2. SweptWaits \in [Flows -> WaitType]
  BY DEF SweptWaits, TypeOK, OutsideType, WaitType, NoWait
<1>3. NoHandoff \in HandoffType
  BY DEF NoHandoff, HandoffType
<1>4. SweptHandoffs \in [Codes -> HandoffType]
  BY <1>3 DEF SweptHandoffs, TypeOK, OutsideType
<1> QED BY <1>1, <1>2, <1>4

LEMMA OutsideStep ==
  TypeOK /\ [Next]_vars => OutsideType'
<1> SUFFICES ASSUME TypeOK, [Next]_vars PROVE OutsideType'
  OBVIOUS
<1> DEFINE FT == [Flows -> FlowType]
           WT == [Flows -> WaitType]
           HT == [Codes -> HandoffType]
           PT == [Flows -> PageType]
           AT == SUBSET (Flows \X Identities)
           MT == [Flows -> Nat]
           CT == Codes \cup {0}
           LT == SUBSET (Flows \cup Codes)
<1>0. /\ flow \in FT /\ wait \in WT /\ handoff \in HT /\ codes \in CT
      /\ late \in LT /\ page \in PT /\ approved \in AT /\ minted \in MT
  BY DEF TypeOK, OutsideType, FlowType, WaitType
<1>n. NoHandoff \in HandoffType /\ NoWait \in WaitType /\ NoFlow \in FlowType
  BY DEF NoHandoff, HandoffType, NoWait, WaitType, NoFlow, FlowType
<1>w. work \in [Workers -> WorkType]
  BY DEF TypeOK, AccountsType
<1>2. ASSUME NEW h \in HandoffType, PutHandoff(h), UNCHANGED <<late, approved, minted>>, page' \in PT
      PROVE  OutsideType'
  <2>1. codes + 1 \in Codes
    BY <1>0, <1>2, IssuersAreKnown DEF PutHandoff, Codes
  <2>2. handoff' \in HT
    <3>1. handoff' = [SweptHandoffs EXCEPT ![codes + 1] = h]
      BY <1>2 DEF PutHandoff
    <3> HIDE DEF HT
    <3> QED BY <3>1, SweptTypes DEF HT
  <2>3. flow' \in FT /\ wait' \in WT /\ codes' \in CT
    BY <1>2, <2>1, SweptTypes DEF PutHandoff
  <2> QED BY <1>0, <1>2, <2>2, <2>3 DEF OutsideType, FlowType, WaitType
<1>3. ASSUME NEW f \in Flows, NEW issuer \in Issuers \cup {Nobody}, StartFlow(f, issuer)
      PROVE  OutsideType'
  <2>1. flow' \in FT
    <3>1. [open |-> TRUE, issuer |-> issuer] \in FlowType
      BY DEF FlowType
    <3> QED BY <1>3, <3>1, SweptTypes DEF StartFlow
  <2>2. wait' \in WT
    <3>1. \A v \in WaitType : [v EXCEPT !.stage = "open"] \in WaitType
      BY DEF WaitType
    <3>2. wait' = [SweptWaits EXCEPT ![f].stage = "open"]
      BY <1>3 DEF StartFlow
    <3> QED BY <3>1, <3>2, SweptTypes
  <2>3. handoff' \in HT /\ page' \in PT
    BY <1>0, <1>3, SweptTypes, PageUpdate DEF StartFlow
  <2> QED BY <1>0, <1>3, <2>1, <2>2, <2>3 DEF StartFlow, OutsideType, FlowType, WaitType
<1>4. ASSUME NEW f \in Flows, NEW i \in Identities, Approve(f, i) PROVE OutsideType'
  BY <1>0, <1>4 DEF Approve, OutsideType, FlowType, WaitType
<1>5. ASSUME NEW x \in Flows \cup Codes, TimesOut(x) PROVE OutsideType'
  BY <1>0, <1>5 DEF TimesOut, OutsideType, FlowType, WaitType
<1>6. ASSUME NEW f \in Flows, Ask(f) PROVE OutsideType'
  <2>1. wait' \in WT
    BY <1>0, <1>6, <1>n DEF Ask
  <2>2. page' \in PT
    <3>1. CASE PageOver(f)
      BY <3>1, PageOverType
    <3>2. CASE page' = [page EXCEPT ![f].stage = "coded", ![f].code = wait[f].code]
      <4>1. wait[f].code \in Codes \cup {0}
        BY <1>0 DEF WaitType
      <4> QED BY <1>0, <3>2, <4>1, PageUpdate
    <3>3. CASE UNCHANGED page
      BY <1>0, <3>3
    <3> QED BY <1>6, <3>1, <3>2, <3>3 DEF Ask
  <2> QED BY <1>0, <1>6, <2>1, <2>2 DEF Ask, OutsideType, FlowType, WaitType
<1>7. ASSUME NEW r \in Workers, NEW f \in Flows,
             NEW a \in approved \cup {<<Nobody, Nobody>>}, TakeFlow(r, f, a)
      PROVE  OutsideType'
  <2>1. flow' \in FT
    <3>1. \A v \in FlowType : [v EXCEPT !.open = FALSE] \in FlowType
      BY DEF FlowType
    <3>2. flow' = [flow EXCEPT ![f].open = FALSE]
      BY <1>7 DEF TakeFlow
    <3> QED BY <1>0, <3>1, <3>2
  <2> QED BY <1>0, <1>7, <2>1 DEF TakeFlow, OutsideType, FlowType, WaitType
<1>8. ASSUME NEW r \in Workers, Mint(r) PROVE OutsideType'
  <2>1. minted' \in MT
    BY <1>0, <1>8 DEF Mint
  <2> QED BY <1>0, <1>8, <2>1 DEF Mint, OutsideType, FlowType, WaitType
<1>9. ASSUME NEW r \in Workers, Put(r) PROVE OutsideType'
  <2>1. [kind |-> IF work[r].profile # Nobody THEN "session" ELSE "claim",
         profile |-> work[r].profile, who |-> work[r].who] \in HandoffType
    BY <1>w DEF HandoffType, WorkType
  <2> QED BY <1>0, <1>2, <1>9, <2>1 DEF Put
<1>10. ASSUME NEW r \in Workers, FinishWait(r) PROVE OutsideType'
  <2> DEFINE w == work[r]
             n == [stage |-> IF w.step = "result" THEN "done" ELSE "refused", code |-> w.code]
  <2>1. n \in WaitType
    BY <1>w DEF WaitType, WorkType
  <2>2. wait' = [wait EXCEPT ![w.flow] = IF wait[w.flow] = NoWait THEN wait[w.flow] ELSE n]
    BY <1>10 DEF FinishWait
  <2>3. wait' \in WT
    <3> HIDE DEF n, w
    <3> QED BY <1>0, <2>1, <2>2
  <2> QED BY <1>0, <1>10, <2>3 DEF FinishWait, OutsideType, FlowType, WaitType
<1>11. ASSUME NEW r \in Workers, NEW f \in Flows, TakeHandoff(r, f) PROVE OutsideType'
  <2> DEFINE c == page[f].code
             h == handoff[c]
  <2>1. page' \in PT
    <3>1. CASE PageOver(f)
      BY <3>1, PageOverType
    <3>2. CASE Usable(c) /\ page' = [page EXCEPT ![f].stage = "in", ![f].profile = h.profile]
      <4>1. c \in Codes
        BY <1>0, <3>2 DEF Usable, PageType
      <4>2. h.profile \in Profiles \cup {Nobody}
        BY <1>0, <4>1 DEF HandoffType
      <4> HIDE DEF h, c
      <4> QED BY <1>0, <3>2, <4>2, PageUpdate
    <3>3. CASE UNCHANGED page
      BY <1>0, <3>3
    <3> QED BY <1>11, <3>1, <3>2, <3>3 DEF TakeHandoff
  <2>2. handoff' \in HT
    BY <1>0, <1>11, <1>n DEF TakeHandoff
  <2> QED BY <1>0, <1>11, <2>1, <2>2 DEF TakeHandoff, OutsideType, FlowType, WaitType
<1>12. ASSUME NEW r \in Workers, PutBack(r) PROVE OutsideType'
  <2>1. [NoHandoff EXCEPT !.kind = "claim", !.who = work[r].who] \in HandoffType
    BY <1>w DEF HandoffType, WorkType, NoHandoff
  <2>2. page' \in PT
    <3>1. codes + 1 \in Codes
      BY <1>0, <1>12, IssuersAreKnown DEF PutBack, PutHandoff, Codes
    <3>2. CASE page' = [page EXCEPT ![work[r].flow].stage = "choosing",
                                    ![work[r].flow].code = codes + 1]
      BY <1>0, <3>1, <3>2, PageUpdate
    <3>3. CASE UNCHANGED page
      BY <1>0, <3>3
    <3> QED BY <1>12, <3>2, <3>3 DEF PutBack
  <2> QED BY <1>0, <1>2, <1>12, <2>1, <2>2 DEF PutBack
<1>13. ASSUME NEW r \in Workers, NEW f \in Flows, NEW key \in HandleKeys, Claim(r, f, key)
       PROVE  OutsideType'
  <2>1. page' \in PT
    BY <1>0, <1>13, PageOverType DEF Claim
  <2> QED BY <1>0, <1>13, <2>1 DEF Claim, OutsideType, FlowType, WaitType
<1>14. ASSUME NEW r \in Workers, DropClaim(r) PROVE OutsideType'
  <2>1. page' \in PT
    BY <1>0, <1>14, PageOverType DEF DropClaim
  <2>2. handoff' \in HT
    BY <1>0, <1>14, <1>n DEF DropClaim
  <2> QED BY <1>0, <1>14, <2>1, <2>2 DEF DropClaim, OutsideType, FlowType, WaitType
<1>15. ASSUME NEW r \in Workers, Finished(r) PROVE OutsideType'
  <2>1. work[r].profile \in Profiles \cup {Nobody}
    BY <1>w DEF WorkType
  <2>2. page' \in PT
    <3>1. CASE work[r].flow \in Flows /\ session' # session
      <4>1. page' = [page EXCEPT ![work[r].flow].stage = "in", ![work[r].flow].profile = work[r].profile]
        BY <1>15, <3>1 DEF Finished
      <4> QED BY <1>0, <2>1, <4>1, PageUpdate
    <3>2. CASE ~(work[r].flow \in Flows /\ session' # session)
      BY <1>0, <1>15, <3>2 DEF Finished
    <3> QED BY <3>1, <3>2
  <2>3. minted' \in MT
    BY <1>0, <1>15 DEF Finished
  <2> QED BY <1>0, <1>15, <2>2, <2>3 DEF Finished, OutsideType, FlowType, WaitType
<1>16. CASE Restart
  <2>1. late' \in LT
    <3>1. 1..codes \subseteq Codes
      BY <1>0, IssuersAreKnown DEF Codes
    <3> QED BY <1>0, <1>16, <3>1 DEF Restart
  <2> QED BY <1>0, <1>16, <1>n, <2>1 DEF Restart, OutsideType, FlowType, WaitType
<1>17. CASE UNCHANGED outsideVars
  BY <1>0, <1>17 DEF outsideVars, OutsideType, FlowType, WaitType
<1>18. ASSUME NEW r \in Workers, Answer(r) \/ \E p \in Profiles : CreateWithIdentity(r, p)
       PROVE  UNCHANGED outsideVars
  BY <1>18 DEF Answer, CreateWithIdentity
<1>19. ASSUME NEW r \in Workers, Handlers(r) PROVE OutsideType'
  BY <1>7, <1>8, <1>9, <1>10, <1>11, <1>12, <1>13, <1>14, <1>15, <1>17, <1>18, <1>19 DEF Handlers
<1>20. CASE UNCHANGED vars
  BY <1>17, <1>20 DEF vars
<1> QED BY <1>3, <1>4, <1>5, <1>6, <1>16, <1>17, <1>19, <1>20 DEF Next

----------------------------------------------------------------------------
(* Profiles, sessions and passwords.                                        *)

Kept(r) == \A q \in Workers \ {r} : work'[q] = work[q]

\* What a handler was started for stays what it is.
SameCase(r) ==
    work'[r].flow = work[r].flow /\ work'[r].who = work[r].who /\ work'[r].key = work[r].key

LEMMA ToEffect ==
  ASSUME TypeOK, NEW r \in Workers, NEW s, To(r, s)
  PROVE  /\ Kept(r) /\ SameCase(r) /\ work'[r].step = s
         /\ work'[r].profile = work[r].profile /\ work'[r].seen = work[r].seen
         /\ work'[r].code = work[r].code
  BY DEF To, TypeOK, AccountsType, WorkType, Kept, SameCase

LEMMA DoneEffect ==
  ASSUME TypeOK, NEW r \in Workers, Done(r)
  PROVE  /\ Kept(r) /\ work'[r] = Idle /\ work'[r].step = "idle" /\ work'[r].flow = Nobody
  BY DEF Done, TypeOK, AccountsType, Kept, Idle

LEMMA AnswerEffect ==
  ASSUME TypeOK, NEW r \in Workers, NEW s, NEW p, NEW n,
         work' = [work EXCEPT ![r].step = s, ![r].profile = p, ![r].seen = n]
  PROVE  /\ Kept(r) /\ SameCase(r) /\ work'[r].step = s
         /\ work'[r].profile = p /\ work'[r].seen = n
  BY DEF TypeOK, AccountsType, WorkType, Kept, SameCase

LEMMA PutEffect ==
  ASSUME TypeOK, NEW r \in Workers, NEW s, NEW c,
         work' = [work EXCEPT ![r].step = s, ![r].code = c]
  PROVE  /\ Kept(r) /\ SameCase(r) /\ work'[r].step = s
         /\ work'[r].profile = work[r].profile /\ work'[r].code = c
  BY DEF TypeOK, AccountsType, WorkType, Kept, SameCase

LEMMA SecretEffect ==
  ASSUME TypeOK, NEW r \in Workers, NEW s, NEW n,
         work' = [work EXCEPT ![r].step = s, ![r].seen = n]
  PROVE  /\ Kept(r) /\ SameCase(r) /\ work'[r].step = s
         /\ work'[r].profile = work[r].profile /\ work'[r].seen = n
  BY DEF TypeOK, AccountsType, WorkType, Kept, SameCase

LEMMA CreateEffect ==
  ASSUME TypeOK, NEW r \in Workers, NEW s, NEW p,
         work' = [work EXCEPT ![r].step = s, ![r].profile = p]
  PROVE  /\ Kept(r) /\ SameCase(r) /\ work'[r].step = s
         /\ work'[r].profile = p /\ work'[r].code = work[r].code
  BY DEF TypeOK, AccountsType, WorkType, Kept, SameCase

LEMMA AccountsStep ==
  TypeOK /\ HandlersHaveFlows /\ [Next]_vars => AccountsType'
<1> SUFFICES ASSUME TypeOK, HandlersHaveFlows, [Next]_vars PROVE AccountsType'
  OBVIOUS
<1> DEFINE ROW == [key : HandleKeys \cup {Nobody}, secret : Nat]
           AT == [Profiles -> ROW]
           IT == [Identities -> Profiles \cup {Nobody}]
           SES == [profile : Profiles \cup {Nobody}, seen : Nat, late : BOOLEAN]
           ST == [Tokens -> SES]
<1>0. /\ account \in AT /\ identity \in IT /\ session \in ST /\ secrets \in Nat
      /\ work \in [Workers -> WorkType] /\ work' \in [Workers -> WorkType]
  BY WorkStep DEF TypeOK, AccountsType
<1>n. /\ NoSession \in SES
      /\ \A x \in SES : [x EXCEPT !.late = TRUE] \in SES
      /\ \A x \in ROW, n \in Nat : [x EXCEPT !.secret = n] \in ROW
      /\ \A k \in HandleKeys, n \in Nat : [key |-> k, secret |-> n] \in ROW
      /\ \A w \in WorkType, b \in BOOLEAN : [profile |-> w.profile, seen |-> w.seen, late |-> b] \in SES
  BY DEF NoSession, WorkType
<1>s. secrets + 1 \in Nat
  BY <1>0
<1>u. ASSUME account' \in AT, identity' \in IT, session' \in ST, secrets' \in Nat
      PROVE  AccountsType'
  BY <1>0, <1>u DEF AccountsType
<1>w. ASSUME NEW r \in Workers, NEW t \in Tokens, NEW b,
             session' = [session EXCEPT ![t] = [profile |-> work[r].profile, seen |-> work[r].seen,
                                                late |-> b # account[work[r].profile].secret]]
      PROVE  session' \in ST
  <2> DEFINE x == [profile |-> work[r].profile, seen |-> work[r].seen,
                   late |-> b # account[work[r].profile].secret]
  <2>1. x \in SES
    BY <1>0, <1>n
  <2> HIDE DEF x, SES
  <2> QED BY <1>0, <1>w, <2>1 DEF x
<1> HIDE DEF ROW, SES
<1>1. ASSUME NEW r \in Workers, NEW p \in Profiles, NEW key \in HandleKeys, Register(r, p, key)
      PROVE  AccountsType'
  BY <1>0, <1>n, <1>s, <1>u, <1>1 DEF Register
<1>2. ASSUME NEW r \in Workers, UpdateSecrets(r) PROVE AccountsType'
  <2>1. account' = account \/ account' = [account EXCEPT ![work[r].profile].secret = secrets + 1]
    BY <1>2 DEF UpdateSecrets
  <2>2. account' \in AT
    BY <1>0, <1>n, <1>s, <2>1
  <2> QED BY <1>0, <1>s, <1>u, <1>2, <2>2 DEF UpdateSecrets
<1>3. ASSUME NEW r \in Workers, DropSessions(r) PROVE AccountsType'
  <2>1. session' \in ST
    <3>1. CASE session' = NotedLate(work[r].profile)
      BY <1>0, <1>n, <3>1 DEF NotedLate
    <3>2. CASE session' # NotedLate(work[r].profile)
      BY <1>0, <1>n, <1>3, <3>2 DEF DropSessions
    <3> QED BY <3>1, <3>2
  <2> QED BY <1>0, <1>u, <1>3, <2>1 DEF DropSessions
<1>4. ASSUME NEW t \in Tokens, Logout(t) PROVE AccountsType'
  BY <1>0, <1>n, <1>u, <1>4 DEF Logout
<1>5. ASSUME NEW r \in Workers, CreateSession(r) PROVE AccountsType'
  <2>1. CASE UNCHANGED session
    BY <1>0, <1>u, <1>5, <2>1 DEF CreateSession
  <2>2. CASE session' # session
    <3>1. session' \in ST
      BY <1>5, <1>w, <2>2 DEF CreateSession
    <3> QED BY <1>0, <1>u, <1>5, <3>1 DEF CreateSession
  <2> QED BY <2>1, <2>2
<1>6. ASSUME NEW r \in Workers, Mint(r) PROVE AccountsType'
  <2>1. CASE UNCHANGED session
    BY <1>0, <1>u, <1>6, <2>1 DEF Mint
  <2>2. CASE session' # session
    <3>1. session' \in ST
      BY <1>6, <1>w, <2>2 DEF Mint
    <3> QED BY <1>0, <1>u, <1>6, <3>1 DEF Mint
  <2> QED BY <2>1, <2>2
<1>7. ASSUME NEW r \in Workers, NEW p \in Profiles, CreateWithIdentity(r, p)
      PROVE  AccountsType'
  <2>1. CASE UNCHANGED <<account, identity>>
    BY <1>0, <1>u, <1>7, <2>1 DEF CreateWithIdentity
  <2>2. CASE ~UNCHANGED <<account, identity>>
    <3>1. /\ account' = [account EXCEPT ![p] = [key |-> work[r].key, secret |-> 0]]
          /\ identity' = [identity EXCEPT ![work[r].who] = p]
          /\ work[r].key \in HandleKeys
      BY <1>7, <2>2 DEF CreateWithIdentity, HandlersHaveFlows
    <3>2. account' \in AT /\ identity' \in IT
      BY <1>0, <1>n, <3>1
    <3> QED BY <1>0, <1>u, <1>7, <3>2 DEF CreateWithIdentity
  <2> QED BY <2>1, <2>2
<1>8. CASE Restart
  <2>1. session' \in ST
    BY <1>0, <1>n, <1>8 DEF Restart, LoseWork
  <2> QED BY <1>0, <1>u, <1>8, <2>1 DEF Restart, LoseWork
<1>9. CASE UNCHANGED <<account, identity, session, secrets>>
  BY <1>0, <1>u, <1>9
<1>10. CASE AccountsNext
  <2>1. ASSUME NEW r \in Workers, NEW p \in Profiles, Login(r, p) \/ ProvePassword(r, p)
        PROVE  UNCHANGED <<account, identity, session, secrets>>
    BY <2>1 DEF Login, ProvePassword
  <2> QED BY <1>1, <1>2, <1>3, <1>4, <1>9, <1>10, <2>1 DEF AccountsNext, Statement
<1>11. ASSUME NEW r \in Workers, Handlers(r) PROVE AccountsType'
  <2>1. ASSUME \/ \E f \in Flows, a \in approved \cup {<<Nobody, Nobody>>} : TakeFlow(r, f, a)
               \/ Answer(r) \/ Put(r) \/ FinishWait(r)
               \/ \E f \in Flows : TakeHandoff(r, f)
               \/ PutBack(r)
               \/ \E f \in Flows, key \in HandleKeys : Claim(r, f, key)
               \/ DropClaim(r)
        PROVE  UNCHANGED <<account, identity, session, secrets>>
    BY <2>1 DEF TakeFlow, Answer, Put, FinishWait, TakeHandoff, PutBack, Claim, DropClaim
  <2>2. CASE Finished(r)
    BY <1>5, <2>2 DEF Finished
  <2> QED BY <1>6, <1>7, <1>9, <1>11, <2>1, <2>2 DEF Handlers
<1>12. ASSUME \/ \E f \in Flows : \/ \E issuer \in Issuers \cup {Nobody} : StartFlow(f, issuer)
                                  \/ \E i \in Identities : Approve(f, i)
                                  \/ Ask(f)
              \/ \E x \in Flows \cup Codes : TimesOut(x)
              \/ UNCHANGED vars
       PROVE  UNCHANGED <<account, identity, session, secrets>>
  BY <1>12 DEF StartFlow, Approve, Ask, TimesOut, accountVars, vars
<1> QED BY <1>8, <1>9, <1>10, <1>11, <1>12 DEF Next

\* Profiles are made and changed, and never removed.
LEMMA ProfilesStay ==
  ASSUME TypeOK, HandlersHaveFlows, [Next]_vars, NEW p \in Profiles, Exists(p)
  PROVE  Exists(p)'
<1>0. /\ account \in [Profiles -> [key : HandleKeys \cup {Nobody}, secret : Nat]]
      /\ secrets \in Nat
  BY DEF TypeOK, AccountsType
<1>1. ASSUME NEW q \in Profiles, NEW key \in HandleKeys, NEW n,
             account' = [account EXCEPT ![q] = [key |-> key, secret |-> n]]
      PROVE  Exists(p)'
  BY <1>0, <1>1, NobodyIsNone DEF Exists, NoAccount
<1>2. ASSUME NEW q, account' = [account EXCEPT ![q].secret = secrets + 1]
      PROVE  Exists(p)'
  <2>1. CASE q = p
    BY <1>0, <1>2, <2>1 DEF Exists, NoAccount
  <2>2. CASE q # p
    BY <1>0, <1>2, <2>2 DEF Exists
  <2> QED BY <2>1, <2>2
<1>3. CASE UNCHANGED account
  BY <1>3 DEF Exists
<1>4. CASE AccountsNext
  <2>1. \/ \E r \in Workers, q \in Profiles, key \in HandleKeys : Register(r, q, key)
        \/ \E r \in Workers : UpdateSecrets(r)
        \/ UNCHANGED account
    BY <1>4 DEF AccountsNext, Statement, Login, ProvePassword, DropSessions, Logout
  <2> QED BY <1>1, <1>2, <1>3, <2>1 DEF Register, UpdateSecrets
<1>5. ASSUME NEW r \in Workers, Handlers(r) PROVE Exists(p)'
  <2>1. ASSUME \/ \E f \in Flows, a \in approved \cup {<<Nobody, Nobody>>} : TakeFlow(r, f, a)
               \/ Answer(r) \/ Mint(r) \/ Put(r) \/ FinishWait(r)
               \/ \E f \in Flows : TakeHandoff(r, f)
               \/ PutBack(r)
               \/ \E f \in Flows, key \in HandleKeys : Claim(r, f, key)
               \/ DropClaim(r) \/ Finished(r)
        PROVE  UNCHANGED account
    BY <2>1 DEF TakeFlow, Answer, Mint, Put, FinishWait, TakeHandoff, PutBack, Claim, DropClaim,
                Finished, CreateSession
  <2>2. ASSUME NEW q \in Profiles, CreateWithIdentity(r, q), account' # account
        PROVE  /\ account' = [account EXCEPT ![q] = [key |-> work[r].key, secret |-> 0]]
               /\ work[r].key \in HandleKeys
    BY <2>2 DEF CreateWithIdentity, HandlersHaveFlows
  <2> QED BY <1>1, <1>3, <1>5, <2>1, <2>2 DEF Handlers
<1>6. ASSUME \/ \E f \in Flows : \/ \E issuer \in Issuers \cup {Nobody} : StartFlow(f, issuer)
                                 \/ \E i \in Identities : Approve(f, i)
                                 \/ Ask(f)
             \/ \E x \in Flows \cup Codes : TimesOut(x)
             \/ Restart
             \/ UNCHANGED vars
      PROVE  UNCHANGED account
  BY <1>6 DEF StartFlow, Approve, Ask, TimesOut, Restart, LoseWork, accountVars, vars
<1> QED BY <1>3, <1>4, <1>5, <1>6 DEF Next

\* An identity that has a profile keeps it.
LEMMA Links ==
  ASSUME TypeOK, [Next]_vars, identity' # identity
  PROVE  \E r \in Workers, p \in Profiles :
            /\ CreateWithIdentity(r, p)
            /\ identity' = [identity EXCEPT ![work[r].who] = p] /\ identity[work[r].who] = Nobody
            /\ account' = [account EXCEPT ![p] = [key |-> work[r].key, secret |-> 0]]
            /\ work' = [work EXCEPT ![r].step = "drop claim", ![r].profile = p]
<1>1. \E r \in Workers, p \in Profiles : CreateWithIdentity(r, p)
  BY DEF Next, Handlers, TakeFlow, Answer, Mint, Put, FinishWait, TakeHandoff, PutBack, Claim,
         DropClaim, Finished, CreateSession, StartFlow, Approve, Ask, TimesOut, Restart, LoseWork,
         accountVars, vars, AccountsNext, Statement, Register, Login, ProvePassword, UpdateSecrets,
         DropSessions, Logout
<1>2. ASSUME NEW r \in Workers, NEW p \in Profiles, CreateWithIdentity(r, p)
      PROVE  /\ identity' = [identity EXCEPT ![work[r].who] = p] /\ identity[work[r].who] = Nobody
             /\ account' = [account EXCEPT ![p] = [key |-> work[r].key, secret |-> 0]]
             /\ work' = [work EXCEPT ![r].step = "drop claim", ![r].profile = p]
  BY <1>2 DEF CreateWithIdentity
<1> QED BY <1>1, <1>2

LEMMA IdentitiesStay ==
  ASSUME TypeOK, [Next]_vars, NEW i \in Identities, identity[i] # Nobody
  PROVE  identity'[i] = identity[i]
<1>0. identity \in [Identities -> Profiles \cup {Nobody}]
  BY DEF TypeOK, AccountsType
<1>1. CASE identity' # identity
  <2>1. PICK r \in Workers, p \in Profiles :
           identity' = [identity EXCEPT ![work[r].who] = p] /\ identity[work[r].who] = Nobody
    BY <1>1, Links
  <2> QED BY <1>0, <2>1
<1> QED BY <1>1

\* A new profile is one that nothing named.
LEMMA IdentitiesExist ==
  ASSUME TypeOK, ProfilesExist, HandlersHaveFlows, [Next]_vars, NEW i \in Identities, identity'[i] # Nobody
  PROVE  Exists(identity[i])'
<1>0. /\ account \in [Profiles -> [key : HandleKeys \cup {Nobody}, secret : Nat]]
      /\ identity \in [Identities -> Profiles \cup {Nobody}]
  BY DEF TypeOK, AccountsType
<1>1. CASE identity'[i] = identity[i]
  <2>1. Exists(identity[i]) /\ identity[i] \in Profiles
    BY <1>0, <1>1 DEF ProfilesExist
  <2>2. account'[identity[i]] # NoAccount
    BY <2>1, ProfilesStay DEF Exists
  <2> QED BY <1>1, <2>2 DEF Exists
<1>2. CASE identity'[i] # identity[i]
  <2>1. PICK r \in Workers, p \in Profiles :
           /\ CreateWithIdentity(r, p)
           /\ identity' = [identity EXCEPT ![work[r].who] = p] /\ identity[work[r].who] = Nobody
           /\ account' = [account EXCEPT ![p] = [key |-> work[r].key, secret |-> 0]]
    BY <1>2, Links
  <2>2. work[r].key \in HandleKeys
    BY <2>1 DEF CreateWithIdentity, HandlersHaveFlows
  <2>3. account'[p] # NoAccount
    BY <1>0, <2>1, <2>2, NobodyIsNone DEF NoAccount
  <2>4. identity'[i] = p
    BY <1>0, <1>2, <2>1
  <2> QED BY <2>3, <2>4 DEF Exists
<1> QED BY <1>1, <1>2

\* A session that is written belongs to the profile of its handler.
LEMMA SessionsWritten ==
  ASSUME TypeOK, ProfilesExist, [Next]_vars, NEW t \in Tokens, session'[t] # NoSession
  PROVE  \/ session[t] # NoSession /\ session'[t].profile = session[t].profile
         \/ \E r \in Workers : work[r].step \in {"session", "mint"} /\ session'[t].profile = work[r].profile
<1>0. session \in [Tokens -> [profile : Profiles \cup {Nobody}, seen : Nat, late : BOOLEAN]]
  BY DEF TypeOK, AccountsType
<1>1. CASE session'[t] = session[t]
  BY <1>1
<1>2. CASE session'[t] = [session[t] EXCEPT !.late = TRUE] /\ session[t] # NoSession
  BY <1>0, <1>2
<1>3. ASSUME NEW r \in Workers, NEW u \in Tokens, NEW n, NEW b, work[r].step \in {"session", "mint"},
             session' = [session EXCEPT ![u] = [profile |-> work[r].profile, seen |-> n, late |-> b]]
      PROVE  session'[t] = session[t] \/ session'[t].profile = work[r].profile
  BY <1>0, <1>3
<1>4. ASSUME NEW r \in Workers, CreateSession(r) \/ Mint(r)
      PROVE  \/ session'[t] = session[t]
             \/ \E q \in Workers : work[q].step \in {"session", "mint"} /\ session'[t].profile = work[q].profile
  <2>1. CASE UNCHANGED session
    BY <2>1
  <2>2. CASE session' # session
    <3>1. PICK u \in Tokens :
             /\ work[r].step \in {"session", "mint"}
             /\ \E n, b : session' = [session EXCEPT ![u] =
                              [profile |-> work[r].profile, seen |-> n, late |-> b]]
      BY <1>4, <2>2 DEF CreateSession, Mint
    <3> QED BY <1>3, <3>1
  <2> QED BY <2>1, <2>2
<1>5. ASSUME NEW r \in Workers, DropSessions(r)
      PROVE  session[t] # NoSession /\ session'[t].profile = session[t].profile
  <2>1. session[t] # NoSession
    <3>1. work[r].profile # Nobody
      BY <1>5, NobodyIsNone DEF DropSessions, ProfilesExist
    <3>2. session'[t] = session[t] \/ session'[t] = NoSession \/ session[t].profile = work[r].profile
      BY <1>5 DEF DropSessions, NotedLate
    <3> QED BY <3>1, <3>2 DEF NoSession
  <2>2. session'[t] = session[t] \/ session'[t] = [session[t] EXCEPT !.late = TRUE]
    BY <1>5 DEF DropSessions, NotedLate
  <2> QED BY <1>1, <1>2, <2>1, <2>2, <1>0
<1>6. CASE LoseWork
  <2>1. session'[t] = session[t] \/ (session'[t] = [session[t] EXCEPT !.late = TRUE] /\ session[t] # NoSession)
    BY <1>6 DEF LoseWork
  <2> QED BY <1>1, <1>2, <2>1
<1>7. ASSUME NEW u \in Tokens, Logout(u) PROVE session'[t] = session[t]
  BY <1>0, <1>7 DEF Logout
<1>8. \/ UNCHANGED session
      \/ \E r \in Workers : CreateSession(r) \/ Mint(r) \/ DropSessions(r)
      \/ \E u \in Tokens : Logout(u)
      \/ LoseWork
  BY DEF Next, Handlers, TakeFlow, Answer, Put, FinishWait, TakeHandoff, PutBack, Claim,
         CreateWithIdentity, DropClaim, Finished, StartFlow, Approve, Ask, TimesOut, Restart,
         accountVars, vars, AccountsNext, Statement, Register, Login, ProvePassword, UpdateSecrets
<1> QED BY <1>1, <1>4, <1>5, <1>6, <1>7, <1>8

\* A step is one handler's, and the others keep what they have to do.
LEMMA HandlersKeep ==
  ASSUME TypeOK, NEW r \in Workers, Handlers(r), work' # work
  PROVE  Kept(r) /\ work[r].step # "drop"
<1>1. ASSUME NEW w, work' = [work EXCEPT ![r] = w] PROVE Kept(r)
  BY <1>1 DEF Kept, TypeOK, AccountsType
<1>2. Free(r) => work[r].step # "drop"
  BY DEF Free, Idle
<1>3. ASSUME NEW f \in Flows, NEW a, TakeFlow(r, f, a)
      PROVE  Free(r) /\ \E w : work' = [work EXCEPT ![r] = w]
  BY <1>3 DEF TakeFlow
<1>4. ASSUME NEW f \in Flows, TakeHandoff(r, f)
      PROVE  Free(r) /\ \E w : work' = [work EXCEPT ![r] = w]
  BY <1>4 DEF TakeHandoff
<1>5. ASSUME NEW f \in Flows, NEW key, Claim(r, f, key)
      PROVE  Free(r) /\ \E w : work' = [work EXCEPT ![r] = w]
  BY <1>5 DEF Claim
<1>6. ASSUME \/ Answer(r) \/ Mint(r) \/ Put(r) \/ FinishWait(r) \/ PutBack(r) \/ DropClaim(r)
             \/ Finished(r) \/ \E p \in Profiles : CreateWithIdentity(r, p)
      PROVE  /\ work[r].step # "drop"
             /\ \E w : work' = [work EXCEPT ![r] = w]
  BY <1>6 DEF Answer, Mint, Put, FinishWait, PutBack, DropClaim, Finished, CreateSession,
              CreateWithIdentity, To, Done
<1> QED BY <1>1, <1>2, <1>3, <1>4, <1>5, <1>6 DEF Handlers

LEMMA OneMoves ==
  ASSUME TypeOK, [Next]_vars
  PROVE  \/ UNCHANGED work
         \/ Restart
         \/ \E r \in Workers :
               /\ Kept(r)
               /\ work[r].step = "drop" => DropSessions(r)
<1>1. ASSUME NEW r \in Workers, NEW w, work' = [work EXCEPT ![r] = w] PROVE Kept(r)
  BY <1>1 DEF Kept, TypeOK, AccountsType
<1>3. CASE AccountsNext /\ work' # work
  <2>1. ASSUME NEW r \in Workers, NEW p, NEW key, Register(r, p, key) \/ Login(r, p) \/ ProvePassword(r, p)
        PROVE  Kept(r) /\ work[r].step # "drop"
    BY <1>1, <2>1 DEF Register, Login, ProvePassword, Free, Idle
  <2>2. ASSUME NEW r \in Workers, UpdateSecrets(r) PROVE Kept(r) /\ work[r].step # "drop"
    <3>1. work[r].step # "drop" /\ \E w : work' = [work EXCEPT ![r] = w]
      BY <2>2 DEF UpdateSecrets, Done
    <3> QED BY <1>1, <3>1
  <2>3. ASSUME NEW r \in Workers, DropSessions(r) PROVE Kept(r)
    BY <1>1, <2>3 DEF DropSessions
  <2> QED BY <1>3, <2>1, <2>2, <2>3 DEF AccountsNext, Statement, Logout
<1>4. \/ UNCHANGED work \/ Restart \/ AccountsNext \/ \E r \in Workers : Handlers(r)
  BY DEF Next, StartFlow, Approve, Ask, TimesOut, accountVars, vars
<1> QED BY <1>3, <1>4, HandlersKeep

LEMMA WorkNamesProfiles ==
  ASSUME TypeOK, ProfilesExist, HandlersHaveFlows, Owners, [Next]_vars, NEW r \in Workers,
         work'[r].step \in {"session", "secrets", "drop", "mint"}
  PROVE  \/ work[r].step \in {"session", "secrets", "drop", "mint"} /\ work'[r].profile = work[r].profile
         \/ work'[r].profile \in Profiles /\ Exists(work[r].profile)'
<1> DEFINE Good == \/ work[r].step \in {"session", "secrets", "drop", "mint"} /\ work'[r].profile = work[r].profile
                   \/ work'[r].profile \in Profiles /\ Exists(work[r].profile)'
<1>0. work \in [Workers -> WorkType] /\ identity \in [Identities -> Profiles \cup {Nobody}]
  BY DEF TypeOK, AccountsType
<1>1. CASE work'[r] = work[r]
  BY <1>1
<1>2. ASSUME NEW q \in Workers, Kept(q), q # r PROVE Good
  BY <1>1, <1>2 DEF Kept
<1>3. ASSUME NEW q \in Workers, NEW p \in Profiles, Exists(p)', NEW s, NEW n,
             work' = [work EXCEPT ![q] = [Idle EXCEPT !.step = s, !.profile = p, !.seen = n]]
      PROVE  Good
  <2>1. CASE q = r
    BY <1>0, <1>3, <2>1 DEF Idle, Exists
  <2> QED BY <1>0, <1>1, <1>3, <2>1
<1>4. ASSUME NEW q \in Workers, NEW p \in Profiles, Exists(p)', NEW s,
             work' = [work EXCEPT ![q] = [Idle EXCEPT !.step = s, !.profile = p]]
      PROVE  Good
  <2>1. CASE q = r
    BY <1>0, <1>4, <2>1 DEF Idle, Exists
  <2> QED BY <1>0, <1>1, <1>4, <2>1
<1>5. CASE AccountsNext
  <2>1. ASSUME NEW q \in Workers, NEW p \in Profiles, NEW key \in HandleKeys, Register(q, p, key)
        PROVE  Good
    <3>1. account \in [Profiles -> [key : HandleKeys \cup {Nobody}, secret : Nat]]
      BY DEF TypeOK, AccountsType
    <3>2. Exists(p)'
      BY <2>1, <3>1, NobodyIsNone DEF Register, Exists, NoAccount
    <3> QED BY <1>3, <2>1, <3>2 DEF Register
  <2>2. ASSUME NEW q \in Workers, NEW p \in Profiles, Login(q, p) PROVE Good
    <3>1. Exists(p)'
      BY <2>2 DEF Login, Exists
    <3> QED BY <1>3, <2>2, <3>1 DEF Login
  <2>3. ASSUME NEW q \in Workers, NEW p \in Profiles, ProvePassword(q, p) PROVE Good
    <3>1. Exists(p)'
      BY <2>3 DEF ProvePassword, Exists
    <3> QED BY <1>4, <2>3, <3>1 DEF ProvePassword
  <2>4. ASSUME NEW q \in Workers, UpdateSecrets(q) PROVE Good
    <3>1. CASE Done(q)
      BY <1>2, <3>1, DoneEffect
    <3>2. CASE work' = [work EXCEPT ![q].step = "drop", ![q].seen = secrets + 1]
      BY <1>2, <2>4, <3>2, SecretEffect DEF UpdateSecrets
    <3> QED BY <2>4, <3>1, <3>2 DEF UpdateSecrets
  <2>5. ASSUME NEW q \in Workers, DropSessions(q) PROVE Good
    BY <1>2, <2>5, ToEffect DEF DropSessions, To
  <2>6. ASSUME NEW t \in Tokens, Logout(t) PROVE Good
    BY <1>1, <2>6 DEF Logout
  <2> QED BY <1>5, <2>1, <2>2, <2>3, <2>4, <2>5, <2>6 DEF AccountsNext, Statement
<1>6. CASE Answer(r)
  <2>1. CASE To(r, "refuse")
    BY <2>1, ToEffect
  <2>2. CASE ~To(r, "refuse")
    <3> DEFINE p == identity[work[r].who]
               n == IF p # Nobody THEN account[p].secret ELSE 0
               s == IF p # Nobody THEN "mint" ELSE "put"
    <3>1. work' = [work EXCEPT ![r].step = s, ![r].profile = p, ![r].seen = n]
          /\ work[r].who # Nobody /\ UNCHANGED account
      BY <1>6, <2>2 DEF Answer, ProfileOf, Vouched
    <3>2. work'[r].step = s /\ work'[r].profile = p
      <4> HIDE DEF s, p, n
      <4> QED BY <3>1, AnswerEffect
    <3>3. work[r].who \in Identities /\ p # Nobody
      BY <1>0, <3>1, <3>2 DEF WorkType
    <3>4. p \in Profiles /\ Exists(p)
      BY <1>0, <3>3 DEF ProfilesExist
    <3> QED BY <3>1, <3>2, <3>4 DEF Exists
  <2> QED BY <2>1, <2>2
<1>7. CASE DropClaim(r)
  <2>1. CASE work[r].profile = Nobody
    BY <1>7, <2>1, DoneEffect DEF DropClaim
  <2>2. CASE work[r].profile # Nobody
    <3>1. PICK g \in [Flows -> Identities \cup {Nobody}], K \in SUBSET Codes : Owned(g, K)
      BY DEF Owners
    <3>2. WorksFor(g, K, r) /\ work[r].step = "drop claim" /\ work[r].flow \in Flows
      BY <1>7, <3>1 DEF Owned, DropClaim, HandlersHaveFlows, OutsideSteps
    <3>3. /\ identity[work[r].who] = work[r].profile
          /\ <<work[r].flow, g[work[r].flow]>> \in approved /\ work[r].who = g[work[r].flow]
      BY <2>2, <3>2 DEF WorksFor
    <3>4. work[r].who \in Identities
      BY <3>3 DEF TypeOK, OutsideType
    <3>5. work[r].profile \in Profiles /\ Exists(work[r].profile)
      BY <1>0, <2>2, <3>3, <3>4 DEF ProfilesExist
    <3>6. work'[r].profile = work[r].profile /\ UNCHANGED account
      BY <1>7, <2>2, ToEffect DEF DropClaim
    <3> QED BY <3>5, <3>6 DEF Exists
  <2> QED BY <2>1, <2>2
<1>8. ASSUME NEW q \in Workers, Handlers(q), q = r, ~Answer(r), ~DropClaim(r), work' # work
      PROVE  Good
  <2>1. ASSUME NEW f \in Flows, NEW a, TakeFlow(r, f, a) PROVE Good
    BY <1>0, <2>1 DEF TakeFlow, Idle
  <2>2. ASSUME NEW f \in Flows, TakeHandoff(r, f) PROVE Good
    BY <1>0, <1>8, <2>2 DEF TakeHandoff, Idle
  <2>3. ASSUME NEW f \in Flows, NEW key, Claim(r, f, key) PROVE Good
    BY <1>0, <1>8, <2>3 DEF Claim, Idle
  <2>4. CASE Done(r)
    BY <2>4, DoneEffect
  <2>5. ASSUME NEW s \in {"put", "refuse", "drop claim"}, To(r, s) PROVE Good
    BY <2>5, ToEffect
  <2>6. CASE Put(r)
    BY <2>6, PutEffect DEF Put
  <2>7. ASSUME NEW p \in Profiles, CreateWithIdentity(r, p), ~Done(r), ~To(r, "drop claim") PROVE Good
    <3>1. work' = [work EXCEPT ![r].step = "drop claim", ![r].profile = p]
      BY <2>7 DEF CreateWithIdentity
    <3> QED BY <3>1, CreateEffect
  <2>8. Mint(r) \/ FinishWait(r) \/ PutBack(r) \/ Finished(r)
        => Done(r) \/ \E s \in {"put", "refuse", "drop claim"} : To(r, s)
    BY DEF Mint, FinishWait, PutBack, Finished, CreateSession
  <2> QED BY <1>8, <2>1, <2>2, <2>3, <2>4, <2>5, <2>6, <2>7, <2>8 DEF Handlers
<1>9. CASE Restart
  BY <1>9 DEF Restart, LoseWork, Idle
<1>10. ASSUME NEW q \in Workers, Handlers(q), q # r, work' # work PROVE Good
  BY <1>2, <1>10, HandlersKeep
<1>11. UNCHANGED work \/ Restart \/ AccountsNext \/ \E q \in Workers : Handlers(q)
  BY DEF Next, StartFlow, Approve, Ask, TimesOut, accountVars, vars
<1> QED BY <1>1, <1>5, <1>6, <1>7, <1>8, <1>9, <1>10, <1>11

LEMMA ProfilesExistStep ==
  ASSUME TypeOK, ProfilesExist, HandlersHaveFlows, Owners, [Next]_vars
  PROVE  ProfilesExist'
<1>1. ASSUME NEW t \in Tokens, session'[t] # NoSession
      PROVE  session'[t].profile \in Profiles /\ Exists(session[t].profile)'
  <2>1. \E p \in Profiles : Exists(p) /\ session'[t].profile = p
    BY <1>1, SessionsWritten DEF ProfilesExist
  <2>2. PICK p \in Profiles : Exists(p) /\ session'[t].profile = p
    BY <2>1
  <2>3. Exists(p)'
    BY <2>2, ProfilesStay
  <2> QED BY <2>2, <2>3 DEF Exists
<1>2. ASSUME NEW i \in Identities, identity'[i] # Nobody PROVE Exists(identity[i])'
  BY <1>2, IdentitiesExist
<1>3. ASSUME NEW r \in Workers, work'[r].step \in {"session", "secrets", "drop", "mint"}
      PROVE  work'[r].profile \in Profiles /\ Exists(work[r].profile)'
  <2>1. CASE work[r].step \in {"session", "secrets", "drop", "mint"} /\ work'[r].profile = work[r].profile
    <3>1. work[r].profile \in Profiles /\ Exists(work[r].profile)
      BY <2>1 DEF ProfilesExist
    <3>2. account'[work[r].profile] # NoAccount
      BY <3>1, ProfilesStay DEF Exists
    <3> QED BY <2>1, <3>1, <3>2 DEF Exists
  <2> QED BY <1>3, <2>1, WorkNamesProfiles
<1> QED BY <1>1, <1>2, <1>3 DEF ProfilesExist

\* A profile's secret changes when it is written, and that is when the
\* handler turns to its sessions.
LEMMA SecretsChange ==
  ASSUME TypeOK, [Next]_vars, NEW p \in Profiles, Exists(p), account'[p].secret # account[p].secret
  PROVE  \E r \in Workers : /\ UpdateSecrets(r) /\ work[r].profile = p
                            /\ work' = [work EXCEPT ![r].step = "drop", ![r].seen = secrets + 1]
<1>0. account \in [Profiles -> [key : HandleKeys \cup {Nobody}, secret : Nat]]
  BY DEF TypeOK, AccountsType
<1>1. ASSUME NEW q \in Profiles, NEW v, NewID(q), account' = [account EXCEPT ![q] = v]
      PROVE  account'[p] = account[p]
  BY <1>0, <1>1 DEF NewID
<1>2. ASSUME NEW r \in Workers, NEW q \in Profiles, NEW key, Register(r, q, key)
      PROVE  account'[p] = account[p]
  BY <1>1, <1>2 DEF Register
<1>3. ASSUME NEW r \in Workers, NEW q \in Profiles, CreateWithIdentity(r, q)
      PROVE  account'[p] = account[p]
  BY <1>1, <1>3 DEF CreateWithIdentity
<1>4. \/ UNCHANGED account
      \/ \E r \in Workers, q \in Profiles, key \in HandleKeys : Register(r, q, key)
      \/ \E r \in Workers, q \in Profiles : CreateWithIdentity(r, q)
      \/ \E r \in Workers : UpdateSecrets(r)
  BY DEF Next, Handlers, TakeFlow, Answer, Mint, Put, FinishWait, TakeHandoff, PutBack, Claim,
         DropClaim, Finished, CreateSession, StartFlow, Approve, Ask, TimesOut, Restart, LoseWork,
         accountVars, vars, AccountsNext, Statement, Login, ProvePassword, DropSessions, Logout
<1>5. PICK r \in Workers : UpdateSecrets(r)
  BY <1>2, <1>3, <1>4
<1>6. /\ account' = [account EXCEPT ![work[r].profile].secret = secrets + 1]
      /\ work' = [work EXCEPT ![r].step = "drop", ![r].seen = secrets + 1]
  BY <1>5 DEF UpdateSecrets
<1> QED BY <1>0, <1>5, <1>6

\* "A new password means every other device starts over."
LEMMA PasswordStep ==
  ASSUME TypeOK, ProfilesExist, HandlersHaveFlows, PasswordEndsSessions, [Next]_vars
  PROVE  PasswordEndsSessions'
<1> SUFFICES ASSUME NEW t \in Tokens, session'[t] # NoSession
             PROVE  \/ session'[t].seen = account'[session'[t].profile].secret \/ session'[t].late
                    \/ \E r \in Workers : work'[r].step = "drop" /\ work'[r].profile = session'[t].profile
  BY DEF PasswordEndsSessions
<1> DEFINE Fine == \/ session'[t].seen = account'[session'[t].profile].secret \/ session'[t].late
                   \/ \E r \in Workers : work'[r].step = "drop" /\ work'[r].profile = session'[t].profile
<1>0. session \in [Tokens -> [profile : Profiles \cup {Nobody}, seen : Nat, late : BOOLEAN]]
  BY DEF TypeOK, AccountsType
<1>1. ASSUME NEW p \in Profiles, Exists(p), account'[p].secret # account[p].secret, session'[t].profile = p
      PROVE  Fine
  <2>1. PICK r \in Workers : work[r].profile = p /\ work' = [work EXCEPT ![r].step = "drop", ![r].seen = secrets + 1]
    BY <1>1, SecretsChange
  <2>2. work'[r].step = "drop" /\ work'[r].profile = p
    BY <2>1, SecretEffect
  <2> QED BY <1>1, <2>2
<1>2. ASSUME session'[t] = session[t] PROVE Fine
  <2> DEFINE p == session[t].profile
  <2>1. session[t] # NoSession /\ p \in Profiles /\ Exists(p)
    BY <1>2 DEF ProfilesExist
  <2>2. CASE account'[p].secret # account[p].secret
    BY <1>1, <1>2, <2>1, <2>2
  <2>3. CASE account'[p].secret = account[p].secret
    <3>1. CASE session[t].seen = account[p].secret \/ session[t].late
      BY <1>2, <2>3, <3>1
    <3>2. ASSUME NEW q \in Workers, work[q].step = "drop", work[q].profile = p PROVE Fine
      <4>1. CASE work'[q] = work[q]
        BY <1>2, <3>2, <4>1
      <4>2. CASE DropSessions(q)
        <5>1. session'[t] = NoSession \/ session'[t] = [session[t] EXCEPT !.late = TRUE]
          BY <3>2, <4>2 DEF DropSessions, NotedLate
        <5> QED BY <1>0, <2>1, <1>2, <5>1
      <4>3. CASE Restart
        <5>1. session'[t] = [session[t] EXCEPT !.late = TRUE]
          BY <2>1, <3>2, <4>3 DEF Restart, LoseWork
        <5> QED BY <1>0, <5>1
      <4> QED BY <3>2, <4>1, <4>2, <4>3, OneMoves DEF Kept
    <3> QED BY <2>1, <3>1, <3>2 DEF PasswordEndsSessions
  <2> QED BY <2>2, <2>3
<1>3. CASE session'[t] # session[t] /\ session'[t] = [session[t] EXCEPT !.late = TRUE]
  BY <1>0, <1>3
<1>4. ASSUME NEW r \in Workers, NEW u \in Tokens, UNCHANGED account,
             session' = [session EXCEPT ![u] = [profile |-> work[r].profile, seen |-> work[r].seen,
                             late |-> work[r].seen # account[work[r].profile].secret]]
      PROVE  Fine
  <2>1. CASE u = t
    BY <1>0, <1>4, <2>1
  <2> QED BY <1>0, <1>2, <1>4, <2>1
<1>5. ASSUME NEW r \in Workers, CreateSession(r) \/ Mint(r) PROVE Fine
  <2>1. CASE UNCHANGED session
    BY <1>2, <2>1
  <2>2. CASE session' # session
    BY <1>4, <1>5, <2>2 DEF CreateSession, Mint
  <2> QED BY <2>1, <2>2
<1>6. ASSUME NEW r \in Workers, DropSessions(r) PROVE Fine
  <2>1. session'[t] = session[t] \/ session'[t] = [session[t] EXCEPT !.late = TRUE]
    BY <1>6 DEF DropSessions, NotedLate
  <2> QED BY <1>2, <1>3, <2>1
<1>7. CASE LoseWork
  <2>1. session'[t] = session[t] \/ session'[t] = [session[t] EXCEPT !.late = TRUE]
    BY <1>7 DEF LoseWork
  <2> QED BY <1>2, <1>3, <2>1
<1>8. ASSUME NEW u \in Tokens, Logout(u) PROVE session'[t] = session[t]
  BY <1>0, <1>8 DEF Logout
<1>9. \/ UNCHANGED session
      \/ \E r \in Workers : CreateSession(r) \/ Mint(r) \/ DropSessions(r)
      \/ \E u \in Tokens : Logout(u)
      \/ LoseWork
  BY DEF Next, Handlers, TakeFlow, Answer, Put, FinishWait, TakeHandoff, PutBack, Claim,
         CreateWithIdentity, DropClaim, Finished, StartFlow, Approve, Ask, TimesOut, Restart,
         accountVars, vars, AccountsNext, Statement, Register, Login, ProvePassword, UpdateSecrets
<1> QED BY <1>2, <1>5, <1>6, <1>7, <1>8, <1>9

\* "A half-made profile cannot outlive a failed sign-in."
LEMMA ReachableStep ==
  ASSUME TypeOK, ProfilesExist, HandlersHaveFlows, Owners, ProfilesAreReachable, [Next]_vars
  PROVE  ProfilesAreReachable'
<1> SUFFICES ASSUME NEW p \in Profiles, account'[p] # NoAccount
             PROVE  account'[p].secret # 0 \/ \E i \in Identities : identity'[i] = p
  BY DEF ProfilesAreReachable, Exists
<1>0. /\ account \in [Profiles -> [key : HandleKeys \cup {Nobody}, secret : Nat]]
      /\ identity \in [Identities -> Profiles \cup {Nobody}] /\ secrets \in Nat
      /\ identity' \in [Identities -> Profiles \cup {Nobody}]
  BY AccountsStep DEF TypeOK, AccountsType
<1>1. ASSUME NEW i \in Identities, identity[i] = p PROVE identity'[i] = p
  BY <1>1, IdentitiesStay, NobodyIsNone
<1>2. CASE account'[p].secret = account[p].secret /\ Exists(p)
  BY <1>1, <1>2 DEF ProfilesAreReachable
<1>3. CASE account'[p].secret # account[p].secret /\ Exists(p)
  <2>1. PICK r \in Workers : UpdateSecrets(r) /\ work[r].profile = p /\ account' # account
    BY <1>3, SecretsChange
  <2>2. account' = [account EXCEPT ![p].secret = secrets + 1]
    BY <2>1 DEF UpdateSecrets
  <2> QED BY <1>0, <2>2
<1>4. CASE ~Exists(p)
  <2>1. account'[p] # account[p]
    BY <1>4 DEF Exists
  <2>2. ASSUME NEW r \in Workers, NEW q \in Profiles, NEW key \in HandleKeys, Register(r, q, key)
        PROVE  account'[p].secret # 0
    BY <1>0, <2>1, <2>2 DEF Register
  <2>3. ASSUME NEW r \in Workers, UpdateSecrets(r) PROVE work[r].profile = p => account'[p].secret # 0
    <3>1. account' = [account EXCEPT ![work[r].profile].secret = secrets + 1]
      BY <2>1, <2>3 DEF UpdateSecrets
    <3> QED BY <1>0, <3>1
  <2>4. ASSUME NEW r \in Workers, UpdateSecrets(r) PROVE work[r].profile = p
    <3>1. account' = [account EXCEPT ![work[r].profile].secret = secrets + 1]
      BY <2>1, <2>4 DEF UpdateSecrets
    <3> QED BY <1>0, <2>1, <3>1
  <2>5. ASSUME NEW r \in Workers, NEW q \in Profiles, CreateWithIdentity(r, q)
        PROVE  \E i \in Identities : identity'[i] = p
    <3>1. /\ account' = [account EXCEPT ![q] = [key |-> work[r].key, secret |-> 0]]
          /\ identity' = [identity EXCEPT ![work[r].who] = q] /\ work[r].step = "create"
      BY <2>1, <2>5 DEF CreateWithIdentity
    <3>2. q = p
      BY <1>0, <2>1, <3>1
    <3>3. PICK g \in [Flows -> Identities \cup {Nobody}], K \in SUBSET Codes : Owned(g, K)
      BY DEF Owners
    <3>4. WorksFor(g, K, r) /\ work[r].flow \in Flows
      BY <3>1, <3>3 DEF Owned, HandlersHaveFlows, OutsideSteps
    <3>5. <<work[r].flow, work[r].who>> \in approved
      BY <3>1, <3>4 DEF WorksFor
    <3>6. work[r].who \in Identities
      BY <3>5 DEF TypeOK, OutsideType
    <3> QED BY <1>0, <3>1, <3>2, <3>6
  <2>6. \/ UNCHANGED account
        \/ \E r \in Workers, q \in Profiles, key \in HandleKeys : Register(r, q, key)
        \/ \E r \in Workers, q \in Profiles : CreateWithIdentity(r, q)
        \/ \E r \in Workers : UpdateSecrets(r)
    BY DEF Next, Handlers, TakeFlow, Answer, Mint, Put, FinishWait, TakeHandoff, PutBack, Claim,
           DropClaim, Finished, CreateSession, StartFlow, Approve, Ask, TimesOut, Restart, LoseWork,
           accountVars, vars, AccountsNext, Statement, Login, ProvePassword, DropSessions, Logout
  <2> QED BY <2>1, <2>2, <2>3, <2>4, <2>5, <2>6
<1> QED BY <1>2, <1>3, <1>4

----------------------------------------------------------------------------
(* Sign-ins, their answers and their codes.                                 *)

LEMMA CodesStep ==
  ASSUME TypeOK, CodesAreDrawn, [Next]_vars
  PROVE  CodesAreDrawn'
<1> SUFFICES ASSUME NEW c \in Codes, c > codes' PROVE c \notin late' /\ handoff'[c] = NoHandoff
  BY DEF CodesAreDrawn
<1>0. /\ codes \in Nat /\ c \in Nat /\ handoff \in [Codes -> HandoffType] /\ c \notin Flows
      /\ Codes = 1..MaxCodes
  <2>1. Codes = 1..MaxCodes /\ Codes \subseteq Nat
    BY IssuersAreKnown DEF Codes
  <2>2. c \notin Flows
    BY <2>1, FlowsAreApart
  <2> QED BY <2>1, <2>2 DEF TypeOK, OutsideType
<1>1. CASE UNCHANGED <<codes, late, handoff>>
  BY <1>1 DEF CodesAreDrawn
<1>2. ASSUME c > codes PROVE c \notin late /\ handoff[c] = NoHandoff /\ SweptHandoffs[c] = NoHandoff
  BY <1>2 DEF CodesAreDrawn, SweptHandoffs
<1>3. ASSUME NEW h, PutHandoff(h), UNCHANGED late PROVE c \notin late' /\ handoff'[c] = NoHandoff
  <2>1. codes' = codes + 1 /\ handoff' = [SweptHandoffs EXCEPT ![codes + 1] = h]
    BY <1>3 DEF PutHandoff
  <2>2. c > codes /\ c # codes + 1
    BY <1>0, <2>1
  <2> QED BY <1>2, <1>3, <2>1, <2>2, SweptTypes
<1>4. ASSUME NEW d, handoff' = [handoff EXCEPT ![d] = NoHandoff], UNCHANGED <<codes, late>>
      PROVE  c \notin late' /\ handoff'[c] = NoHandoff
  BY <1>0, <1>2, <1>4
<1>5. ASSUME NEW f \in Flows, NEW issuer, StartFlow(f, issuer) PROVE c \notin late' /\ handoff'[c] = NoHandoff
  BY <1>2, <1>5 DEF StartFlow
<1>6. ASSUME NEW x \in Flows \cup Codes, TimesOut(x) PROVE c \notin late' /\ handoff'[c] = NoHandoff
  BY <1>0, <1>2, <1>6 DEF TimesOut
<1>7. CASE Restart
  <2>1. c \notin late
    BY <1>2, <1>7 DEF Restart
  <2> QED BY <1>0, <1>7, <2>1 DEF Restart
<1>8. ASSUME NEW r \in Workers, Handlers(r) PROVE c \notin late' /\ handoff'[c] = NoHandoff
  <2>1. ASSUME NEW f \in Flows, NEW a, TakeFlow(r, f, a) PROVE UNCHANGED <<codes, late, handoff>>
    BY <2>1 DEF TakeFlow
  <2>2. ASSUME \/ Answer(r) \/ Mint(r) \/ FinishWait(r) \/ Finished(r)
               \/ \E f \in Flows, key \in HandleKeys : Claim(r, f, key)
               \/ \E p \in Profiles : CreateWithIdentity(r, p)
        PROVE  UNCHANGED <<codes, late, handoff>>
    BY <2>2 DEF Answer, Mint, FinishWait, Finished, Claim, CreateWithIdentity, outsideVars
  <2>3. CASE Put(r)
    BY <1>3, <2>3 DEF Put
  <2>4. CASE PutBack(r)
    BY <1>3, <2>4 DEF PutBack
  <2>5. CASE DropClaim(r)
    BY <1>4, <2>5 DEF DropClaim
  <2>6. ASSUME NEW f \in Flows, TakeHandoff(r, f) PROVE c \notin late' /\ handoff'[c] = NoHandoff
    BY <1>4, <2>6 DEF TakeHandoff
  <2> QED BY <1>1, <1>8, <2>1, <2>2, <2>3, <2>4, <2>5, <2>6 DEF Handlers
<1>9. ASSUME \/ \E f \in Flows : (\E i \in Identities : Approve(f, i)) \/ Ask(f)
             \/ UNCHANGED outsideVars
      PROVE  UNCHANGED <<codes, late, handoff>>
  BY <1>9 DEF Approve, Ask, outsideVars
<1> QED BY <1>1, <1>5, <1>6, <1>7, <1>8, <1>9 DEF Next, vars

\* What a handler of Accounts is started for has nothing to do with a sign-in.
LEMMA AccountsWork ==
  ASSUME TypeOK, AccountsNext, NEW r \in Workers
  PROVE  \/ work'[r] = work[r]
         \/ /\ work'[r].flow = Nobody \/ work'[r].flow = work[r].flow
            /\ work'[r].step \in {"idle", "session", "secrets", "drop"}
            /\ work[r].step \in {"idle", "secrets", "drop"}
<1>0. work \in [Workers -> WorkType]
  BY DEF TypeOK, AccountsType
<1> DEFINE Good == \/ work'[r] = work[r]
                   \/ /\ work'[r].flow = Nobody \/ work'[r].flow = work[r].flow
                      /\ work'[r].step \in {"idle", "session", "secrets", "drop"}
                      /\ work[r].step \in {"idle", "secrets", "drop"}
<1>1. ASSUME NEW q \in Workers, NEW p, NEW n, Free(q),
             work' = [work EXCEPT ![q] = [Idle EXCEPT !.step = "session", !.profile = p, !.seen = n]]
      PROVE  Good
  <2>1. q = r => work[r] = Idle
    BY <1>1 DEF Free
  <2> QED BY <1>0, <1>1, <2>1 DEF Idle
<1>2. ASSUME NEW q \in Workers, NEW p, Free(q),
             work' = [work EXCEPT ![q] = [Idle EXCEPT !.step = "secrets", !.profile = p]]
      PROVE  Good
  <2>1. q = r => work[r] = Idle
    BY <1>2 DEF Free
  <2> QED BY <1>0, <1>2, <2>1 DEF Idle
<1>3. ASSUME NEW q \in Workers, UpdateSecrets(q) PROVE Good
  <2>1. CASE Done(q)
    BY <1>3, <2>1, DoneEffect DEF UpdateSecrets, Kept
  <2>2. CASE work' = [work EXCEPT ![q].step = "drop", ![q].seen = secrets + 1]
    <3>1. Kept(q) /\ SameCase(q) /\ work'[q].step = "drop"
      BY <2>2, SecretEffect
    <3> QED BY <1>3, <3>1 DEF UpdateSecrets, Kept, SameCase
  <2> QED BY <1>3, <2>1, <2>2 DEF UpdateSecrets
<1>4. ASSUME NEW q \in Workers, DropSessions(q) PROVE Good
  BY <1>4, ToEffect DEF DropSessions, To, Kept, SameCase
<1>5. ASSUME NEW q \in Workers, NEW p \in Profiles, NEW key, Register(q, p, key) PROVE Good
  BY <1>1, <1>5 DEF Register
<1>6. ASSUME NEW q \in Workers, NEW p \in Profiles, Login(q, p) PROVE Good
  BY <1>1, <1>6 DEF Login
<1>7. ASSUME NEW q \in Workers, NEW p \in Profiles, ProvePassword(q, p) PROVE Good
  BY <1>2, <1>7 DEF ProvePassword
<1>8. ASSUME NEW t \in Tokens, Logout(t) PROVE Good
  BY <1>8 DEF Logout
<1> QED BY <1>3, <1>4, <1>5, <1>6, <1>7, <1>8 DEF AccountsNext, Statement

LEMMA IdleIsFree ==
  Idle.step = "idle" /\ Idle.flow \notin Flows /\ Idle.profile = Nobody
  BY FlowsAreApart DEF Idle

LEMMA HandlersHaveFlowsStep ==
  ASSUME TypeOK, HandlersHaveFlows, [Next]_vars
  PROVE  HandlersHaveFlows'
<1> SUFFICES ASSUME NEW r \in Workers
             PROVE  /\ work'[r].step \in OutsideSteps => work'[r].flow \in Flows
                    /\ work'[r].flow \in Flows => work'[r].step \in OutsideSteps \cup {"session"}
                    /\ work'[r].step = "create" => work'[r].key \in HandleKeys
  BY DEF HandlersHaveFlows
<1> DEFINE Good == /\ work'[r].step \in OutsideSteps => work'[r].flow \in Flows
                   /\ work'[r].flow \in Flows => work'[r].step \in OutsideSteps \cup {"session"}
                   /\ work'[r].step = "create" => work'[r].key \in HandleKeys
<1>0. work \in [Workers -> WorkType]
  BY DEF TypeOK, AccountsType
<1>1. CASE work'[r] = work[r]
  BY <1>1 DEF HandlersHaveFlows
<1>2. CASE AccountsNext
  <2>1. CASE /\ work'[r].flow = Nobody \/ work'[r].flow = work[r].flow
             /\ work'[r].step \in {"idle", "session", "secrets", "drop"}
             /\ work[r].step \in {"idle", "secrets", "drop"}
    BY <2>1, FlowsAreApart DEF HandlersHaveFlows, OutsideSteps
  <2> QED BY <1>1, <1>2, <2>1, AccountsWork
<1>3. CASE Restart
  BY <1>3, IdleIsFree DEF Restart, LoseWork, OutsideSteps, Idle
<1>4. ASSUME NEW q \in Workers, Handlers(q), work' # work, q # r PROVE work'[r] = work[r]
  BY <1>4, HandlersKeep DEF Kept
<1>5. CASE Handlers(r) /\ work' # work
  <2>1. ASSUME NEW f \in Flows, NEW a, TakeFlow(r, f, a) PROVE Good
    BY <1>0, <2>1 DEF TakeFlow, Idle, OutsideSteps
  <2>2. ASSUME NEW f \in Flows, TakeHandoff(r, f) PROVE Good
    BY <1>0, <1>5, <2>2 DEF TakeHandoff, Idle, OutsideSteps
  <2>3. ASSUME NEW f \in Flows, NEW key \in HandleKeys, Claim(r, f, key) PROVE Good
    BY <1>0, <1>5, <2>3 DEF Claim, Idle, OutsideSteps
  <2>4. CASE Done(r)
    BY <2>4, DoneEffect, IdleIsFree DEF OutsideSteps
  <2>5. ASSUME NEW s \in {"put", "refuse", "drop claim", "session"}, To(r, s), work[r].step \in OutsideSteps
        PROVE  Good
    BY <2>5, ToEffect DEF SameCase, OutsideSteps, HandlersHaveFlows
  <2>6. CASE Put(r)
    <3>1. PICK c : work' = [work EXCEPT ![r].step = "result", ![r].code = c] /\ work[r].step = "put"
      BY <2>6 DEF Put
    <3>2. work'[r].step = "result" /\ SameCase(r)
      BY <3>1, PutEffect
    <3> QED BY <3>1, <3>2 DEF SameCase, OutsideSteps, HandlersHaveFlows
  <2>7. ASSUME NEW p \in Profiles, CreateWithIdentity(r, p), ~Done(r), ~To(r, "drop claim") PROVE Good
    <3>1. work' = [work EXCEPT ![r].step = "drop claim", ![r].profile = p] /\ work[r].step = "create"
      BY <2>7 DEF CreateWithIdentity
    <3> QED BY <3>1, CreateEffect DEF SameCase, OutsideSteps, HandlersHaveFlows
  <2>8. ASSUME Answer(r), ~To(r, "refuse") PROVE Good
    <3>1. PICK s \in {"mint", "put"} :
             /\ \E p, n : work' = [work EXCEPT ![r].step = s, ![r].profile = p, ![r].seen = n]
             /\ work[r].step = "answer"
      BY <2>8 DEF Answer
    <3>2. PICK p, n : work' = [work EXCEPT ![r].step = s, ![r].profile = p, ![r].seen = n]
      BY <3>1
    <3>3. work'[r].step = s /\ SameCase(r)
      BY <3>2, AnswerEffect
    <3> QED BY <3>1, <3>3 DEF SameCase, OutsideSteps, HandlersHaveFlows
  <2>9. ASSUME \/ (Answer(r) /\ To(r, "refuse")) \/ Mint(r) \/ FinishWait(r) \/ PutBack(r) \/ Finished(r)
               \/ DropClaim(r) \/ \E p \in Profiles : (CreateWithIdentity(r, p) /\ To(r, "drop claim"))
        PROVE  \/ Done(r)
               \/ work[r].step \in OutsideSteps /\ \E s \in {"put", "refuse", "drop claim", "session"} : To(r, s)
    BY <2>9 DEF Answer, Mint, FinishWait, PutBack, Finished, CreateSession, DropClaim, CreateWithIdentity,
                OutsideSteps
  <2> QED BY <1>5, <2>1, <2>2, <2>3, <2>4, <2>5, <2>6, <2>7, <2>8, <2>9 DEF Handlers
<1>6. UNCHANGED work \/ Restart \/ AccountsNext \/ \E q \in Workers : Handlers(q)
  BY DEF Next, StartFlow, Approve, Ask, TimesOut, accountVars, vars
<1> QED BY <1>1, <1>2, <1>3, <1>4, <1>5, <1>6

\* The answer has come and gone.
Past(f) ==
    /\ page[f].stage # "new" /\ ~flow[f].open
    /\ \A r \in Workers : work[r].flow = f => ~Answering(work[r])

LEMMA PastIsPast ==
  ASSUME NEW f \in Flows, Once(f),
         \/ page[f].stage \in {"coded", "choosing", "in"} \/ minted[f] # 0 \/ wait[f].stage = "done"
         \/ \E r \in Workers : work[r].flow = f /\ ~Answering(work[r])
  PROVE  Past(f)
  BY DEF Once, Past, Fruitless, Answering

LEMMA SweptKeeps ==
  ASSUME TypeOK, NEW f \in Flows
  PROVE  /\ SweptFlows[f].open => flow[f].open
         /\ SweptWaits[f].stage = "done" => SweptWaits[f] = wait[f]
         /\ \A c \in Codes : SweptHandoffs[c] = NoHandoff \/ SweptHandoffs[c] = handoff[c]
<1>1. flow[f] \in FlowType
  BY DEF TypeOK, OutsideType, FlowType
<1>2. SweptFlows[f].open => flow[f].open
  BY <1>1 DEF SweptFlows, FlowType
<1>3. SweptWaits[f].stage = "done" => SweptWaits[f] = wait[f]
  BY DEF SweptWaits, NoWait
<1> QED BY <1>2, <1>3 DEF SweptHandoffs

LEMMA PageOverEffect ==
  ASSUME TypeOK, NEW f \in Flows, PageOver(f)
  PROVE  /\ page[f].stage # "in" => page'[f].stage = "over"
         /\ page[f].stage = "in" => page' = page
         /\ page'[f].named = page[f].named
         /\ \A h \in Flows \ {f} : page'[h] = page[h]
<1> DEFINE n == [NewPage EXCEPT !.stage = "over", !.named = page[f].named]
<1>1. page \in [Flows -> PageType] /\ n.stage = "over" /\ n.named = page[f].named
  BY DEF TypeOK, OutsideType, NewPage
<1>2. page' = [page EXCEPT ![f] = IF page[f].stage = "in" THEN page[f] ELSE n]
  BY DEF PageOver
<1> HIDE DEF n
<1> QED BY <1>1, <1>2

LEMMA OnceStep ==
  ASSUME TypeOK, HandlersHaveFlows, AnsweredOnce, [Next]_vars
  PROVE  AnsweredOnce'
<1> SUFFICES ASSUME NEW f \in Flows PROVE Once(f)'
  BY DEF AnsweredOnce
<1>0. /\ Once(f)
      /\ flow \in [Flows -> FlowType] /\ wait \in [Flows -> WaitType] /\ page \in [Flows -> PageType]
      /\ minted \in [Flows -> Nat] /\ work \in [Workers -> WorkType]
  BY DEF AnsweredOnce, TypeOK, OutsideType, AccountsType, FlowType, WaitType
<1>p. ASSUME Past(f)' PROVE Once(f)'
  BY <1>p DEF Past, Once
<1>k. ASSUME flow'[f].open => flow[f].open,
             wait'[f].stage = "done" => wait[f].stage = "done",
             page'[f].stage = page[f].stage \/ (page[f].stage # "new" /\ page'[f].stage = "over"),
             minted'[f] = minted[f],
             \A r \in Workers : work'[r].flow = f =>
                 work[r].flow = f /\ (Answering(work'[r]) => Answering(work[r]))
      PROVE  Once(f)'
  BY <1>0, <1>k DEF Once, Fruitless, Answering
<1>1. ASSUME UNCHANGED <<flow, wait, page, minted>>,
             \A r \in Workers : work'[r].flow = f =>
                 work[r].flow = f /\ (Answering(work'[r]) => Answering(work[r]))
      PROVE  Once(f)'
  BY <1>0, <1>1, <1>k
<1>2. ASSUME NEW h \in Flows, NEW issuer, StartFlow(h, issuer) PROVE Once(f)'
  <2>1. UNCHANGED <<work, minted>>
    BY <1>2 DEF StartFlow, accountVars
  <2>2. CASE h = f
    <3>1. page[f].stage = "new"
      BY <1>2, <2>2 DEF StartFlow
    <3>2. page'[f].stage = "waiting"
      BY <1>0, <1>2, <2>2 DEF StartFlow, PageType
    <3>3. wait'[f].stage = "open"
      <4>1. wait' = [SweptWaits EXCEPT ![f].stage = "open"]
        BY <1>2, <2>2 DEF StartFlow
      <4> QED BY <4>1, SweptTypes DEF WaitType
    <3> QED BY <1>0, <2>1, <3>1, <3>2, <3>3 DEF Once, Fruitless, Answering
  <2>3. CASE h # f
    <3>1. /\ flow' = [SweptFlows EXCEPT ![h] = [open |-> TRUE, issuer |-> issuer]]
          /\ wait' = [SweptWaits EXCEPT ![h].stage = "open"]
          /\ page' = [page EXCEPT ![h].stage = "waiting", ![h].named = issuer]
      BY <1>2 DEF StartFlow
    <3>2. flow'[f] = SweptFlows[f] /\ wait'[f] = SweptWaits[f] /\ page'[f] = page[f]
      BY <1>0, <2>3, <3>1, SweptTypes
    <3> QED BY <1>0, <2>1, <3>2, SweptKeeps, <1>k DEF Answering
  <2> QED BY <2>2, <2>3
<1>3. ASSUME NEW h \in Flows, Ask(h) PROVE Once(f)'
  <2>1. UNCHANGED <<work, flow, minted>>
    BY <1>3 DEF Ask, accountVars
  <2>2. /\ page[h].stage = "waiting" /\ wait'[h] = NoWait
        /\ \A g \in Flows \ {h} : wait'[g] = wait[g]
    BY <1>0, <1>3 DEF Ask
  <2>3. CASE PageOver(h)
    <3>1. page'[h].stage = "over" /\ \A g \in Flows \ {h} : page'[g] = page[g]
      BY <2>2, <2>3, PageOverEffect
    <3> QED BY <1>0, <2>1, <2>2, <3>1, <1>k DEF Answering, NoWait
  <2>4. CASE UNCHANGED page
    BY <1>0, <2>1, <2>2, <2>4, <1>k DEF Answering, NoWait
  <2>5. CASE wait[h].stage = "done" /\ page' = [page EXCEPT ![h].stage = "coded", ![h].code = wait[h].code]
    <3>1. page'[h].stage = "coded" /\ \A g \in Flows \ {h} : page'[g] = page[g]
      BY <1>0, <2>5 DEF PageType
    <3>2. CASE h = f
      BY <1>0, <1>p, <2>1, <2>5, <3>1, <3>2, PastIsPast DEF Past, Answering
    <3> QED BY <1>0, <2>1, <2>2, <3>1, <3>2, <1>k DEF Answering
  <2> QED BY <1>3, <2>3, <2>4, <2>5 DEF Ask
<1>4. CASE AccountsNext /\ UNCHANGED outsideVars
  <2>1. ASSUME NEW r \in Workers, work'[r].flow = f
        PROVE  work[r].flow = f /\ (Answering(work'[r]) => Answering(work[r]))
    BY <1>4, <2>1, AccountsWork, FlowsAreApart DEF Answering
  <2> QED BY <1>1, <1>4, <2>1 DEF outsideVars
<1>5. CASE Restart
  <2>1. /\ flow'[f].open = FALSE /\ wait'[f].stage = "none" /\ UNCHANGED <<page, minted>>
        /\ \A r \in Workers : work'[r].flow # f
    BY <1>5, IdleIsFree DEF Restart, LoseWork, NoFlow, NoWait
  <2> QED BY <1>0, <2>1, <1>k
<1>6. ASSUME NEW r \in Workers, Handlers(r) PROVE Once(f)'
  <2>1. ASSUME NEW h \in Flows, NEW a \in approved \cup {<<Nobody, Nobody>>}, TakeFlow(r, h, a)
        PROVE  Once(f)'
    <3>1. /\ work'[r].flow = h /\ work'[r].step = "answer" /\ UNCHANGED <<wait, page, minted>>
          /\ \A q \in Workers \ {r} : work'[q] = work[q]
      BY <1>0, <2>1 DEF TakeFlow, Idle
    <3>2. flow[h].open /\ ~flow'[h].open /\ \A g \in Flows \ {h} : flow'[g] = flow[g]
      BY <1>0, <2>1 DEF TakeFlow, FlowType
    <3> QED BY <1>0, <3>1, <3>2 DEF Once, Fruitless, Answering
  <2>2. CASE Answer(r)
    <3>1. Kept(r) /\ SameCase(r)
      <4>1. CASE To(r, "refuse")
        BY <4>1, ToEffect
      <4>2. CASE ~To(r, "refuse")
        <5> DEFINE S == IF ProfileOf(work[r].who) # Nobody THEN "mint" ELSE "put"
                   P == ProfileOf(work[r].who)
                   N == IF P # Nobody THEN account[P].secret ELSE 0
        <5>2. work' = [work EXCEPT ![r].step = S, ![r].profile = P, ![r].seen = N]
          BY <2>2, <4>2 DEF Answer
        <5> HIDE DEF S, P, N
        <5>1. \E s, p, n : work' = [work EXCEPT ![r].step = s, ![r].profile = p, ![r].seen = n]
          BY <5>2
        <5> QED BY <5>1, AnswerEffect
      <4> QED BY <4>1, <4>2
    <3>2. work[r].step = "answer" /\ UNCHANGED <<flow, wait, page, minted>>
      BY <2>2 DEF Answer, outsideVars
    <3> QED BY <1>1, <3>1, <3>2 DEF Kept, SameCase, Answering
  <2>3. CASE Mint(r)
    <3>1. /\ Kept(r) /\ SameCase(r) /\ ~Answering(work'[r]) /\ Answering(work[r])
          /\ UNCHANGED <<flow, wait, page>>
      BY <2>3, ToEffect DEF Mint, Answering
    <3>2. CASE work[r].flow = f
      BY <1>0, <1>p, <3>1, <3>2 DEF Past, Once, Kept, Answering
    <3>3. CASE work[r].flow # f
      <4>1. minted'[f] = minted[f]
        BY <1>0, <2>3, <3>3 DEF Mint
      <4> QED BY <1>0, <3>1, <3>3, <4>1, <1>k DEF Kept, SameCase, Answering
    <3> QED BY <3>2, <3>3
  <2>4. CASE Put(r)
    <3>1. /\ flow'[f] = SweptFlows[f] /\ wait'[f] = SweptWaits[f] /\ UNCHANGED <<page, minted>>
      BY <2>4 DEF Put, PutHandoff
    <3>2. Kept(r) /\ SameCase(r) /\ work'[r].step = "result"
      <4>1. PICK c : work' = [work EXCEPT ![r].step = "result", ![r].code = c]
        BY <2>4 DEF Put
      <4> QED BY <4>1, PutEffect
    <3> QED BY <1>0, <3>1, <3>2, SweptKeeps, <1>k DEF Kept, SameCase, Answering
  <2>5. CASE FinishWait(r)
    <3>1. /\ Kept(r) /\ work'[r].flow = Nobody /\ UNCHANGED <<flow, page, minted>>
          /\ work[r].step \in {"result", "refuse"}
      BY <2>5, DoneEffect DEF FinishWait
    <3>2. CASE work[r].flow = f
      BY <1>0, <1>p, <3>1, <3>2, PastIsPast, FlowsAreApart DEF Past, Kept, Answering
    <3>3. CASE work[r].flow # f
      <4>1. wait'[f] = wait[f]
        BY <1>0, <2>5, <3>3 DEF FinishWait
      <4> QED BY <1>0, <3>1, <3>3, <4>1, <1>k, FlowsAreApart DEF Kept, Answering
    <3> QED BY <3>2, <3>3
  <2>6. ASSUME NEW h \in Flows, TakeHandoff(r, h) PROVE Once(f)'
    <3>1. /\ page[h].stage = "coded" /\ UNCHANGED <<flow, wait, minted>>
      BY <2>6 DEF TakeHandoff
    <3>2. page'[h].stage # "new" /\ \A g \in Flows \ {h} : page'[g] = page[g]
      <4>1. CASE PageOver(h)
        BY <3>1, <4>1, PageOverEffect
      <4>2. CASE UNCHANGED page
        BY <3>1, <4>2
      <4>3. CASE page' = [page EXCEPT ![h].stage = "in", ![h].profile = handoff[page[h].code].profile]
        BY <1>0, <4>3 DEF PageType
      <4> QED BY <2>6, <4>1, <4>2, <4>3 DEF TakeHandoff
    <3>3. /\ work' = work \/ (work'[r].flow = h /\ work'[r].step = "putback")
          /\ \A q \in Workers \ {r} : work'[q] = work[q]
      <4>1. CASE UNCHANGED work
        BY <4>1
      <4>2. CASE work' # work
        BY <1>0, <2>6, <4>2 DEF TakeHandoff, Idle
      <4> QED BY <4>1, <4>2
    <3>4. CASE h = f
      <4>1. Past(f)
        BY <1>0, <3>1, <3>4, PastIsPast
      <4>2. Past(f)'
        BY <3>1, <3>2, <3>3, <3>4, <4>1 DEF Past, Answering
      <4> QED BY <1>p, <4>2
    <3>5. CASE h # f
      BY <1>0, <3>1, <3>2, <3>3, <3>5, <1>k DEF Answering
    <3> QED BY <3>4, <3>5
  <2>7. CASE PutBack(r)
    <3>1. /\ Kept(r) /\ work'[r].flow = Nobody /\ UNCHANGED minted
          /\ work[r].step = "putback" /\ work[r].flow \in Flows
      BY <2>7, DoneEffect DEF PutBack, HandlersHaveFlows, OutsideSteps
    <3>2. /\ flow'[f] = SweptFlows[f] /\ wait'[f] = SweptWaits[f]
      BY <2>7 DEF PutBack, PutHandoff
    <3>3. /\ page'[work[r].flow].stage \in {page[work[r].flow].stage, "choosing"}
          /\ \A g \in Flows \ {work[r].flow} : page'[g] = page[g]
      <4>1. CASE UNCHANGED page
        BY <4>1
      <4>2. CASE page' # page
        <5>1. PICK c : page' = [page EXCEPT ![work[r].flow].stage = "choosing", ![work[r].flow].code = c]
          BY <2>7, <4>2 DEF PutBack
        <5> QED BY <1>0, <3>1, <5>1 DEF PageType
      <4> QED BY <4>1, <4>2
    <3>4. CASE work[r].flow = f
      <4>1. Past(f)
        BY <1>0, <3>1, <3>4, PastIsPast DEF Answering
      <4>2. Past(f)'
        BY <3>1, <3>2, <3>3, <3>4, <4>1, SweptKeeps, FlowsAreApart DEF Past, Kept, Answering
      <4> QED BY <1>p, <4>2
    <3>5. CASE work[r].flow # f
      BY <1>0, <3>1, <3>2, <3>3, <3>5, SweptKeeps, <1>k, FlowsAreApart DEF Kept, Answering
    <3> QED BY <3>4, <3>5
  <2>8. ASSUME NEW h \in Flows, NEW key \in HandleKeys, Claim(r, h, key) PROVE Once(f)'
    <3>1. /\ page[h].stage = "choosing" /\ UNCHANGED <<flow, wait, minted>>
      BY <2>8 DEF Claim
    <3>2. page'[h].stage # "new" /\ \A g \in Flows \ {h} : page'[g] = page[g]
      <4>1. CASE PageOver(h)
        BY <3>1, <4>1, PageOverEffect
      <4>2. CASE UNCHANGED page
        BY <3>1, <4>2
      <4> QED BY <2>8, <4>1, <4>2 DEF Claim
    <3>3. /\ work' = work \/ (work'[r].flow = h /\ work'[r].step = "create")
          /\ \A q \in Workers \ {r} : work'[q] = work[q]
      <4>1. CASE UNCHANGED work
        BY <4>1
      <4>2. CASE work' # work
        BY <1>0, <2>8, <4>2 DEF Claim, Idle
      <4> QED BY <4>1, <4>2
    <3>4. CASE h = f
      <4>1. Past(f)
        BY <1>0, <3>1, <3>4, PastIsPast
      <4>2. Past(f)'
        BY <3>1, <3>2, <3>3, <3>4, <4>1 DEF Past, Answering
      <4> QED BY <1>p, <4>2
    <3>5. CASE h # f
      BY <1>0, <3>1, <3>2, <3>3, <3>5, <1>k DEF Answering
    <3> QED BY <3>4, <3>5
  <2>9. ASSUME NEW p \in Profiles, CreateWithIdentity(r, p) PROVE Once(f)'
    <3>1. UNCHANGED <<flow, wait, page, minted>>
      BY <2>9 DEF CreateWithIdentity, outsideVars
    <3>2. CASE Done(r)
      BY <1>1, <3>1, <3>2, DoneEffect, FlowsAreApart DEF Kept, Answering
    <3>3. CASE To(r, "drop claim")
      <4>1. Kept(r) /\ SameCase(r) /\ work'[r].step = "drop claim"
        BY <3>3, ToEffect
      <4> QED BY <1>1, <3>1, <4>1 DEF Kept, SameCase, Answering
    <3>4. CASE ~Done(r) /\ ~To(r, "drop claim")
      <4>1. work' = [work EXCEPT ![r].step = "drop claim", ![r].profile = p]
        BY <2>9, <3>4 DEF CreateWithIdentity
      <4>2. Kept(r) /\ SameCase(r) /\ work'[r].step = "drop claim"
        BY <4>1, CreateEffect
      <4> QED BY <1>1, <3>1, <4>2 DEF Kept, SameCase, Answering
    <3> QED BY <3>2, <3>3, <3>4
  <2>10. CASE DropClaim(r)
    <3>1. UNCHANGED <<flow, wait, minted>> /\ work[r].step = "drop claim" /\ work[r].flow \in Flows
      BY <2>10 DEF DropClaim, HandlersHaveFlows, OutsideSteps
    <3>2. /\ Kept(r) /\ ~Answering(work'[r])
          /\ work'[r].flow \in {work[r].flow, Nobody}
      <4>1. CASE To(r, "session")
        BY <4>1, ToEffect DEF Answering, SameCase
      <4>2. CASE Done(r)
        BY <4>2, DoneEffect DEF Answering
      <4> QED BY <2>10, <4>1, <4>2 DEF DropClaim
    <3>3. /\ page'[work[r].flow].stage = page[work[r].flow].stage \/ page'[work[r].flow].stage = "over"
          /\ \A g \in Flows \ {work[r].flow} : page'[g] = page[g]
      BY <2>10, <3>1, PageOverEffect DEF DropClaim
    <3>4. CASE work[r].flow = f
      <4>1. Past(f)
        BY <1>0, <3>1, <3>4, PastIsPast DEF Answering
      <4>2. Past(f)'
        BY <3>1, <3>2, <3>3, <3>4, <4>1 DEF Past, Kept, Answering
      <4> QED BY <1>p, <4>2
    <3>5. CASE work[r].flow # f
      BY <1>0, <3>1, <3>2, <3>3, <3>5, <1>k, FlowsAreApart DEF Kept, Answering
    <3> QED BY <3>4, <3>5
  <2>11. CASE Finished(r)
    <3>1. UNCHANGED <<flow, wait>> /\ work[r].step = "session" /\ Kept(r) /\ work'[r].flow = Nobody
      BY <2>11, DoneEffect DEF Finished, CreateSession
    <3>2. CASE work[r].flow = f
      <4>1. Past(f)
        BY <1>0, <3>1, <3>2, PastIsPast DEF Answering
      <4>2. page'[f].stage = "in" \/ page' = page
        <5>1. CASE page' # page
          <6>1. page' = [page EXCEPT ![f].stage = "in", ![f].profile = work[r].profile]
            BY <2>11, <3>2, <5>1 DEF Finished
          <6> QED BY <1>0, <6>1 DEF PageType
        <5> QED BY <5>1
      <4>3. Past(f)'
        BY <3>1, <3>2, <4>1, <4>2, FlowsAreApart DEF Past, Kept, Answering
      <4> QED BY <1>p, <4>3
    <3>3. CASE work[r].flow # f
      <4>1. page'[f] = page[f] /\ minted'[f] = minted[f]
        BY <1>0, <2>11, <3>3 DEF Finished
      <4> QED BY <1>0, <3>1, <3>3, <4>1, <1>k, FlowsAreApart DEF Kept, Answering
    <3> QED BY <3>2, <3>3
  <2> QED BY <1>6, <2>1, <2>2, <2>3, <2>4, <2>5, <2>6, <2>7, <2>8, <2>9, <2>10, <2>11 DEF Handlers
<1>7. ASSUME \/ \E h \in Flows, i \in Identities : Approve(h, i)
             \/ \E x \in Flows \cup Codes : TimesOut(x)
             \/ UNCHANGED vars
      PROVE  UNCHANGED <<flow, wait, page, minted, work>>
  BY <1>7 DEF Approve, TimesOut, vars, outsideVars, accountVars
<1> QED BY <1>1, <1>2, <1>3, <1>4, <1>5, <1>6, <1>7 DEF Next, Answering

----------------------------------------------------------------------------
(* The server a page named.                                                 *)

\* A page names its server when it starts, and keeps it.
LEMMA NamedOnce ==
  ASSUME TypeOK, [Next]_vars, NEW f \in Flows
  PROVE  \/ /\ page'[f].named = page[f].named
            /\ page'[f].stage = "new" => page[f].stage = "new"
         \/ \E issuer \in Issuers \cup {Nobody} : StartFlow(f, issuer)
<1> DEFINE Same == /\ page'[f].named = page[f].named
                   /\ page'[f].stage = "new" => page[f].stage = "new"
<1>0. page \in [Flows -> PageType]
  BY DEF TypeOK, OutsideType
<1>1. CASE UNCHANGED page
  BY <1>1
<1>2. ASSUME NEW h, NEW s \in {"coded", "choosing"}, NEW c,
             page' = [page EXCEPT ![h].stage = s, ![h].code = c]
      PROVE  Same
  BY <1>0, <1>2 DEF PageType
<1>3. ASSUME NEW h, NEW p, page' = [page EXCEPT ![h].stage = "in", ![h].profile = p] PROVE Same
  BY <1>0, <1>3 DEF PageType
<1>4. ASSUME NEW h, PageOver(h) PROVE Same
  BY <1>0, <1>4 DEF PageOver, PageType, NewPage
<1>5. ASSUME NEW h \in Flows, NEW issuer \in Issuers \cup {Nobody}, StartFlow(h, issuer), h # f PROVE Same
  BY <1>0, <1>5 DEF StartFlow
<1>6. ASSUME NEW h \in Flows, Ask(h) PROVE Same
  BY <1>1, <1>2, <1>4, <1>6 DEF Ask
<1>7. ASSUME NEW r \in Workers, Handlers(r) PROVE Same
  <2>1. ASSUME \/ \E h \in Flows, a \in approved \cup {<<Nobody, Nobody>>} : TakeFlow(r, h, a)
               \/ Answer(r) \/ Mint(r) \/ Put(r) \/ FinishWait(r)
               \/ \E p \in Profiles : CreateWithIdentity(r, p)
        PROVE  UNCHANGED page
    BY <2>1 DEF TakeFlow, Answer, Mint, Put, FinishWait, CreateWithIdentity, outsideVars
  <2>2. CASE PutBack(r)
    BY <1>1, <1>2, <2>2 DEF PutBack
  <2>3. ASSUME NEW h \in Flows, TakeHandoff(r, h) PROVE Same
    BY <1>1, <1>3, <1>4, <2>3 DEF TakeHandoff
  <2>4. ASSUME NEW h \in Flows, NEW key, Claim(r, h, key) PROVE Same
    BY <1>1, <1>4, <2>4 DEF Claim
  <2>5. CASE DropClaim(r)
    BY <1>1, <1>4, <2>5 DEF DropClaim
  <2>6. CASE Finished(r)
    BY <1>1, <1>3, <2>6 DEF Finished
  <2> QED BY <1>1, <1>7, <2>1, <2>2, <2>3, <2>4, <2>5, <2>6 DEF Handlers
<1>8. ASSUME \/ \E h \in Flows, i \in Identities : Approve(h, i)
             \/ \E x \in Flows \cup Codes : TimesOut(x)
             \/ AccountsNext /\ UNCHANGED outsideVars
             \/ Restart \/ UNCHANGED vars
      PROVE  UNCHANGED page
  BY <1>8 DEF Approve, TimesOut, Restart, outsideVars, vars
<1> QED BY <1>1, <1>5, <1>6, <1>7, <1>8 DEF Next

LEMMA ForPageStays ==
  ASSUME TypeOK, [Next]_vars, NEW g, NEW f \in Flows, ForPage(g, f)
  PROVE  ForPage(g, f)'
<1>1. CASE page'[f].named = page[f].named /\ (page'[f].stage = "new" => page[f].stage = "new")
  BY <1>1 DEF ForPage
<1>2. ASSUME NEW issuer \in Issuers \cup {Nobody}, StartFlow(f, issuer) PROVE ForPage(g, f)'
  <2>1. g[f] = Nobody
    BY <1>2 DEF StartFlow, ForPage
  <2> QED BY <2>1 DEF ForPage
<1> QED BY <1>1, <1>2, NamedOnce

\* Nobody answers a sign-in but with its state, which takes it (takeFlow).
LEMMA AnswersAreTaken ==
  ASSUME TypeOK, HandlersHaveFlows, [Next]_vars, NEW r \in Workers, work'[r].step = "answer"
  PROVE  \/ work[r].step = "answer" /\ work'[r].flow = work[r].flow
         \/ flow[work'[r].flow].open
<1> DEFINE Good == \/ work[r].step = "answer" /\ work'[r].flow = work[r].flow
                   \/ flow[work'[r].flow].open
<1>0. work \in [Workers -> WorkType]
  BY DEF TypeOK, AccountsType
<1>1. CASE work'[r] = work[r]
  BY <1>1
<1>2. CASE AccountsNext
  BY <1>1, <1>2, AccountsWork
<1>3. CASE Restart
  BY <1>3, IdleIsFree DEF Restart, LoseWork
<1>4. ASSUME NEW q \in Workers, Handlers(q), work' # work, q # r PROVE work'[r] = work[r]
  BY <1>4, HandlersKeep DEF Kept
<1>5. CASE Handlers(r) /\ work' # work
  <2>1. ASSUME NEW f \in Flows, NEW a, TakeFlow(r, f, a) PROVE Good
    BY <1>0, <2>1 DEF TakeFlow, Idle
  <2>2. ASSUME NEW f \in Flows, TakeHandoff(r, f) PROVE Good
    BY <1>0, <1>5, <2>2 DEF TakeHandoff, Idle
  <2>3. ASSUME NEW f \in Flows, NEW key \in HandleKeys, Claim(r, f, key) PROVE Good
    BY <1>0, <1>5, <2>3 DEF Claim, Idle
  <2>4. CASE Done(r)
    BY <2>4, DoneEffect
  <2>5. ASSUME NEW s \in {"put", "refuse", "drop claim", "session"}, To(r, s) PROVE Good
    BY <2>5, ToEffect
  <2>6. CASE Put(r)
    <3>1. PICK c : work' = [work EXCEPT ![r].step = "result", ![r].code = c]
      BY <2>6 DEF Put
    <3>2. work'[r].step = "result"
      BY <3>1, PutEffect
    <3> QED BY <3>2
  <2>7. ASSUME NEW p \in Profiles, CreateWithIdentity(r, p), ~Done(r), ~To(r, "drop claim") PROVE Good
    <3>1. work' = [work EXCEPT ![r].step = "drop claim", ![r].profile = p]
      BY <2>7 DEF CreateWithIdentity
    <3>2. work'[r].step = "drop claim"
      BY <3>1, CreateEffect
    <3> QED BY <3>2
  <2>8. ASSUME Answer(r), ~To(r, "refuse") PROVE Good
    <3>1. PICK s \in {"mint", "put"} :
             \E p, n : work' = [work EXCEPT ![r].step = s, ![r].profile = p, ![r].seen = n]
      BY <2>8 DEF Answer
    <3>2. PICK p, n : work' = [work EXCEPT ![r].step = s, ![r].profile = p, ![r].seen = n]
      BY <3>1
    <3>3. work'[r].step = s
      BY <3>2, AnswerEffect
    <3> QED BY <3>3
  <2>9. ASSUME \/ (Answer(r) /\ To(r, "refuse")) \/ Mint(r) \/ FinishWait(r) \/ PutBack(r) \/ Finished(r)
               \/ DropClaim(r) \/ \E p \in Profiles : (CreateWithIdentity(r, p) /\ To(r, "drop claim"))
        PROVE  Done(r) \/ \E s \in {"put", "refuse", "drop claim", "session"} : To(r, s)
    BY <2>9 DEF Answer, Mint, FinishWait, PutBack, Finished, CreateSession, DropClaim, CreateWithIdentity
  <2> QED BY <1>5, <2>1, <2>2, <2>3, <2>4, <2>5, <2>6, <2>7, <2>8, <2>9 DEF Handlers
<1>6. UNCHANGED work \/ Restart \/ AccountsNext \/ \E q \in Workers : Handlers(q)
  BY DEF Next, StartFlow, Approve, Ask, TimesOut, accountVars, vars
<1> QED BY <1>1, <1>2, <1>3, <1>4, <1>5, <1>6

\* A sign-in that is open was open, and is for the server it was for, unless
\* it starts with this step.
LEMMA FlowsOpenOnce ==
  ASSUME TypeOK, [Next]_vars, NEW f \in Flows,
         ~Restart, \A issuer \in Issuers \cup {Nobody} : ~StartFlow(f, issuer)
  PROVE  flow'[f].issuer = flow[f].issuer /\ (flow'[f].open => flow[f].open)
<1>0. flow \in [Flows -> FlowType]
  BY DEF TypeOK, OutsideType, FlowType
<1>1. SweptFlows[f].issuer = flow[f].issuer /\ (SweptFlows[f].open => flow[f].open)
  BY <1>0 DEF SweptFlows, FlowType
<1>2. ASSUME NEW h \in Flows, NEW issuer, StartFlow(h, issuer), h # f PROVE flow'[f] = SweptFlows[f]
  BY <1>2, SweptTypes DEF StartFlow
<1>3. ASSUME NEW r \in Workers, Put(r) \/ PutBack(r) PROVE flow'[f] = SweptFlows[f]
  BY <1>3 DEF Put, PutBack, PutHandoff
<1>4. ASSUME NEW r \in Workers, NEW h \in Flows, NEW a, TakeFlow(r, h, a)
      PROVE  flow'[f].issuer = flow[f].issuer /\ (flow'[f].open => flow[f].open)
  BY <1>0, <1>4 DEF TakeFlow, FlowType
<1>5. ASSUME NEW r \in Workers, Handlers(r), ~Put(r), ~PutBack(r),
             \A h \in Flows, a \in approved \cup {<<Nobody, Nobody>>} : ~TakeFlow(r, h, a)
      PROVE  UNCHANGED flow
  BY <1>5 DEF Handlers, Answer, Mint, FinishWait, TakeHandoff, Claim, CreateWithIdentity, DropClaim,
              Finished, outsideVars
<1>6. ASSUME \/ \E h \in Flows : Ask(h) \/ \E i \in Identities : Approve(h, i)
             \/ \E x \in Flows \cup Codes : TimesOut(x)
             \/ AccountsNext /\ UNCHANGED outsideVars
             \/ UNCHANGED vars
      PROVE  UNCHANGED flow
  BY <1>6 DEF Ask, Approve, TimesOut, outsideVars, vars
<1> QED BY <1>1, <1>2, <1>3, <1>4, <1>5, <1>6 DEF Next

LEMMA NamedServerStep ==
  ASSUME TypeOK, HandlersHaveFlows, NamedServer, [Next]_vars
  PROVE  NamedServer'
<1> SUFFICES ASSUME NEW f \in Flows, Unanswered(f)' PROVE page'[f].named = flow'[f].issuer
  BY DEF NamedServer
<1>1. ASSUME NEW issuer \in Issuers \cup {Nobody}, StartFlow(f, issuer)
      PROVE  page'[f].named = flow'[f].issuer
  <2>1. page'[f].named = issuer
    BY <1>1 DEF StartFlow, TypeOK, OutsideType, PageType
  <2>2. flow'[f].issuer = issuer
    BY <1>1, SweptTypes DEF StartFlow
  <2> QED BY <2>1, <2>2
<1>2. CASE Restart
  <2>1. ~flow'[f].open /\ \A r \in Workers : work'[r].step = "idle"
    BY <1>2, IdleIsFree DEF Restart, LoseWork, NoFlow
  <2> QED BY <2>1 DEF Unanswered
<1>3. CASE ~Restart /\ \A issuer \in Issuers \cup {Nobody} : ~StartFlow(f, issuer)
  <2>1. flow'[f].issuer = flow[f].issuer /\ (flow'[f].open => flow[f].open)
    BY <1>3, FlowsOpenOnce
  <2>2. page'[f].named = page[f].named
    BY <1>3, NamedOnce
  <2>3. Unanswered(f)
    BY <2>1, AnswersAreTaken DEF Unanswered
  <2> QED BY <2>1, <2>2, <2>3 DEF NamedServer
<1> QED BY <1>1, <1>2, <1>3

----------------------------------------------------------------------------
(* Who is behind a sign-in.                                                 *)

LEMMA CodesGrow ==
  ASSUME TypeOK, [Next]_vars
  PROVE  /\ codes' \in Nat /\ codes <= codes' /\ approved \subseteq approved'
         /\ \A c \in Codes : c <= codes => handoff'[c] = handoff[c] \/ handoff'[c] = NoHandoff
<1>0. /\ codes \in Nat /\ Codes \subseteq Nat /\ handoff \in [Codes -> HandoffType]
      /\ approved \subseteq Flows \X Identities
  BY IssuersAreKnown DEF TypeOK, OutsideType, Codes
<1> DEFINE Good == /\ codes' \in Nat /\ codes <= codes' /\ approved \subseteq approved'
                   /\ \A c \in Codes : c <= codes => handoff'[c] = handoff[c] \/ handoff'[c] = NoHandoff
<1>1. CASE UNCHANGED <<codes, approved, handoff>>
  BY <1>0, <1>1
<1>2. ASSUME NEW h, PutHandoff(h), UNCHANGED approved PROVE Good
  <2>1. codes' = codes + 1 /\ handoff' = [SweptHandoffs EXCEPT ![codes + 1] = h]
    BY <1>2 DEF PutHandoff
  <2>2. ASSUME NEW c \in Codes, c <= codes PROVE handoff'[c] = SweptHandoffs[c]
    <3>1. c # codes + 1
      BY <1>0, <2>2
    <3> QED BY <2>1, <3>1, SweptTypes
  <2> QED BY <1>0, <1>2, <2>1, <2>2 DEF SweptHandoffs
<1>3. ASSUME NEW c, handoff' = [handoff EXCEPT ![c] = NoHandoff], UNCHANGED <<codes, approved>> PROVE Good
  BY <1>0, <1>3
<1>4. ASSUME NEW f \in Flows, NEW issuer, StartFlow(f, issuer) PROVE Good
  BY <1>0, <1>4 DEF StartFlow, SweptHandoffs
<1>5. ASSUME NEW f \in Flows, NEW i, Approve(f, i) PROVE Good
  BY <1>0, <1>5 DEF Approve
<1>6. CASE Restart
  BY <1>0, <1>6 DEF Restart
<1>7. ASSUME NEW r \in Workers, Handlers(r) PROVE Good
  <2>1. ASSUME NEW f \in Flows, NEW a, TakeFlow(r, f, a) PROVE UNCHANGED <<codes, approved, handoff>>
    BY <2>1 DEF TakeFlow
  <2>2. ASSUME \/ Answer(r) \/ Mint(r) \/ FinishWait(r) \/ Finished(r)
               \/ \E f \in Flows, key \in HandleKeys : Claim(r, f, key)
               \/ \E p \in Profiles : CreateWithIdentity(r, p)
        PROVE  UNCHANGED <<codes, approved, handoff>>
    BY <2>2 DEF Answer, Mint, FinishWait, Finished, Claim, CreateWithIdentity, outsideVars
  <2>3. CASE Put(r)
    BY <1>2, <2>3 DEF Put
  <2>4. CASE PutBack(r)
    BY <1>2, <2>4 DEF PutBack
  <2>5. CASE DropClaim(r)
    BY <1>3, <2>5 DEF DropClaim
  <2>6. ASSUME NEW f \in Flows, TakeHandoff(r, f) PROVE Good
    BY <1>3, <2>6 DEF TakeHandoff
  <2> QED BY <1>1, <1>7, <2>1, <2>2, <2>3, <2>4, <2>5, <2>6 DEF Handlers
<1>8. ASSUME \/ \E f \in Flows : Ask(f)
             \/ \E x \in Flows \cup Codes : TimesOut(x)
             \/ UNCHANGED outsideVars
      PROVE  UNCHANGED <<codes, approved, handoff>>
  BY <1>8 DEF Ask, TimesOut, outsideVars
<1> QED BY <1>1, <1>4, <1>5, <1>6, <1>7, <1>8 DEF Next, vars

\* What is under a code stays that person's, as long as it is there.
KeepsHolding(g, f, c) ==
    /\ c \in Codes /\ c <= codes'
    /\ handoff'[c] # NoHandoff =>
          /\ handoff'[c] = handoff[c]
          /\ handoff'[c].who = g[f] /\ <<f, g[f]>> \in approved'
          /\ handoff'[c].kind = "session" =>
                handoff'[c].profile # Nobody /\ identity'[g[f]] = handoff'[c].profile

LEMMA HoldsStays ==
  ASSUME TypeOK, [Next]_vars, NEW g, NEW f \in Flows, NEW c, Holds(g, f, c)
  PROVE  KeepsHolding(g, f, c)
<1>1. /\ c \in Codes /\ c <= codes /\ codes \in Nat /\ Codes \subseteq Nat
  BY IssuersAreKnown DEF Holds, TypeOK, OutsideType, Codes
<1>2. c <= codes'
  BY <1>1, CodesGrow
<1>3. ASSUME handoff'[c] # NoHandoff
      PROVE  /\ handoff'[c] = handoff[c]
             /\ handoff'[c].who = g[f] /\ <<f, g[f]>> \in approved'
             /\ handoff'[c].kind = "session" =>
                   handoff'[c].profile # Nobody /\ identity'[g[f]] = handoff'[c].profile
  <2>1. handoff'[c] = handoff[c] /\ <<f, g[f]>> \in approved
    BY <1>1, <1>3, CodesGrow DEF Holds
  <2>2. g[f] \in Identities /\ <<f, g[f]>> \in approved'
    BY <2>1, CodesGrow DEF TypeOK, OutsideType
  <2> QED BY <1>3, <2>1, <2>2, IdentitiesStay DEF Holds
<1> QED BY <1>1, <1>2, <1>3 DEF KeepsHolding

LEMMA WorksForStays ==
  ASSUME TypeOK, ProfilesExist, HandlersHaveFlows, [Next]_vars, NEW g, NEW K, NEW L, NEW r \in Workers,
         WorksFor(g, K, r), work'[r] = work[r], \A c \in Codes : c <= codes /\ c \in L => c \in K
  PROVE  WorksFor(g, L, r)'
<1> DEFINE w == work[r]
           f == work[r].flow
<1>1. f \in Flows /\ <<f, g[f]>> \in approved => g[f] \in Identities /\ <<f, g[f]>> \in approved'
  BY CodesGrow DEF TypeOK, OutsideType
<1>2. w.step = "answer" => <<w.key, w.who>> \in approved' \cup {<<Nobody, Nobody>>}
  BY CodesGrow DEF WorksFor
<1>3. (f \in Flows /\ w.step \in {"mint", "put", "putback", "create", "drop claim", "session"}) =>
         w.who = g[f] /\ <<f, g[f]>> \in approved' /\ w.who \in Identities
  BY <1>1 DEF WorksFor
<1>4. w.step \in {"mint", "put", "result", "create", "drop claim"} => f \in Flows
  BY DEF HandlersHaveFlows, OutsideSteps
<1>5. (f \in Flows /\ w.step \in {"mint", "session"}) => identity'[w.who] = w.profile
  <2>1. w.step \in {"mint", "session"} => w.profile # Nobody
    BY NobodyIsNone DEF ProfilesExist
  <2> QED BY <1>3, <2>1, IdentitiesStay DEF WorksFor
<1>6. (w.step \in {"put", "drop claim"} /\ w.profile # Nobody) => identity'[w.who] = w.profile
  BY <1>3, <1>4, IdentitiesStay DEF WorksFor
<1>7. w.step = "drop claim" => identity'[w.who] # Nobody
  BY <1>3, <1>4, IdentitiesStay DEF WorksFor
<1>8. w.step \in {"result", "create", "drop claim"} => Holds(g, f, w.code)
  BY DEF WorksFor
<1>9. w.step \in {"result", "create", "drop claim"} => Holds(g, f, w.code)'
  <2> SUFFICES ASSUME w.step \in {"result", "create", "drop claim"} PROVE Holds(g, f, w.code)'
    OBVIOUS
  <2>1. PICK h \in Flows, c \in Codes : Holds(g, h, c) /\ h = work[r].flow /\ c = work[r].code
    BY <1>4, <1>8 DEF Holds
  <2>2. KeepsHolding(g, h, c)
    BY <2>1, HoldsStays
  <2>3. h = work'[r].flow /\ c = work'[r].code
    BY <2>1
  <2> QED BY <2>2, <2>3 DEF Holds, KeepsHolding
<1>10. w.step = "result" => w.code \notin L
  BY <1>8 DEF WorksFor, Holds
<1> QED BY <1>2, <1>3, <1>5, <1>6, <1>7, <1>9, <1>10 DEF WorksFor

\* A page gets nothing new with this step, or what it should.
Tended(g, K, f) ==
    /\ (wait'[f].stage = "done" => wait'[f] = wait[f]) \/ Awaited(g, K, f)'
    /\ (page'[f].stage \in {"coded", "choosing", "in"} => page'[f] = page[f]) \/ Shown(g, K, f)'
    /\ (minted'[f] # 0 => minted[f] # 0) \/ SignedIn(g, f)'

LEMMA ServedStays ==
  ASSUME TypeOK, [Next]_vars, NEW g, NEW K, NEW L, NEW f \in Flows, Served(g, K, f), Tended(g, L, f),
         \A c \in Codes : c <= codes => (c \in L <=> c \in K)
  PROVE  Served(g, L, f)'
<1>1. <<f, g[f]>> \in approved => g[f] \in Identities /\ <<f, g[f]>> \in approved'
  BY CodesGrow DEF TypeOK, OutsideType
<1>2. ASSUME NEW c, Holds(g, f, c)
      PROVE  (c \in L <=> c \in K) /\ KeepsHolding(g, f, c)
  BY <1>2, HoldsStays DEF Holds
<1>3. ASSUME wait'[f].stage = "done" => wait'[f] = wait[f] PROVE Awaited(g, L, f)'
  <2> SUFFICES ASSUME wait'[f].stage = "done"
               PROVE  KeepsHolding(g, f, wait'[f].code) /\ wait'[f].code \notin L
    BY DEF Awaited, Holds, KeepsHolding
  <2> QED BY <1>2, <1>3 DEF Served, Awaited
<1>4. ASSUME page'[f].stage \in {"coded", "choosing", "in"} => page'[f] = page[f] PROVE Shown(g, L, f)'
  <2>1. ASSUME page'[f].stage = "coded"
        PROVE  KeepsHolding(g, f, page'[f].code) /\ page'[f].code \notin L
    BY <1>2, <1>4, <2>1 DEF Served, Shown
  <2>2. ASSUME page'[f].stage = "choosing"
        PROVE  KeepsHolding(g, f, page'[f].code) /\ page'[f].code \in L
    BY <1>2, <1>4, <2>2 DEF Served, Shown
  <2>3. ASSUME page'[f].stage = "in"
        PROVE  <<f, g[f]>> \in approved' /\ page'[f].profile # Nobody /\ identity'[g[f]] = page'[f].profile
    <3>1. page'[f] = page[f]
      BY <1>4, <2>3
    <3>2. page[f].stage = "in"
      BY <2>3, <3>1
    <3> QED BY <1>1, <3>1, <3>2, IdentitiesStay DEF Served, Shown
  <2> QED BY <2>1, <2>2, <2>3 DEF Shown, Holds, KeepsHolding
<1>5. ASSUME minted'[f] # 0 => minted[f] # 0 PROVE SignedIn(g, f)'
  <2>1. ASSUME minted'[f] # 0 PROVE <<f, g[f]>> \in approved' /\ identity'[g[f]] # Nobody
    BY <1>1, <1>5, <2>1, IdentitiesStay DEF Served, SignedIn
  <2> QED BY <2>1 DEF SignedIn
<1> QED BY <1>3, <1>4, <1>5 DEF Served, Tended

\* What changes the number of sessions of a sign-in, and who turns to a claim's.
LEMMA NewMinted ==
  ASSUME TypeOK, HandlersHaveFlows, [Next]_vars, NEW f \in Flows, minted'[f] # minted[f]
  PROVE  \E r \in Workers :
            /\ work[r].flow = f /\ Kept(r) /\ ~Claiming(work'[r]) /\ UNCHANGED identity
            /\ minted'[f] = minted[f] + 1
            /\ work[r].step = "mint" \/ work[r].step = "session"
<1>0. minted \in [Flows -> Nat]
  BY DEF TypeOK, OutsideType
<1>1. \E r \in Workers : Mint(r) \/ Finished(r)
  <2>1. ASSUME NEW r \in Workers, Handlers(r), ~Mint(r), ~Finished(r) PROVE UNCHANGED minted
    BY <2>1 DEF Handlers, TakeFlow, Answer, Put, FinishWait, TakeHandoff, PutBack, Claim, CreateWithIdentity,
                DropClaim, outsideVars
  <2> QED BY <2>1 DEF Next, StartFlow, Approve, Ask, TimesOut, Restart, outsideVars, vars
<1>2. ASSUME NEW r \in Workers, Mint(r)
      PROVE  /\ work[r].flow = f /\ Kept(r) /\ ~Claiming(work'[r]) /\ UNCHANGED identity
             /\ minted'[f] = minted[f] + 1 /\ work[r].step = "mint"
  <2>1. minted' = [minted EXCEPT ![work[r].flow] = minted[work[r].flow] + 1] /\ To(r, "put")
        /\ work[r].step = "mint" /\ UNCHANGED identity
    BY <1>2 DEF Mint
  <2>2. Kept(r) /\ work'[r].step = "put"
    BY <2>1, ToEffect
  <2> QED BY <1>0, <2>1, <2>2 DEF Claiming
<1>3. ASSUME NEW r \in Workers, Finished(r)
      PROVE  /\ work[r].flow = f /\ Kept(r) /\ ~Claiming(work'[r]) /\ UNCHANGED identity
             /\ minted'[f] = minted[f] + 1 /\ work[r].step = "session"
  <2>1. minted' = [minted EXCEPT ![work[r].flow] = minted[work[r].flow] + 1] /\ Done(r)
        /\ work[r].step = "session" /\ UNCHANGED identity
    BY <1>3 DEF Finished, CreateSession
  <2>2. Kept(r) /\ work'[r].step = "idle"
    BY <2>1, DoneEffect
  <2> QED BY <1>0, <2>1, <2>2 DEF Claiming
<1> QED BY <1>1, <1>2, <1>3

LEMMA NewClaim ==
  ASSUME TypeOK, HandlersHaveFlows, [Next]_vars, NEW g, NEW K, Owned(g, K),
         NEW r \in Workers, Claiming(work'[r])
  PROVE  /\ work'[r].flow \in Flows /\ work[r].flow = work'[r].flow
         /\ \/ Claiming(work[r])
            \/ /\ work[r].step = "create" /\ identity[work[r].who] = Nobody /\ identity' # identity
               /\ work'[r] # work[r]
<1> DEFINE Good == /\ work'[r].flow \in Flows /\ work[r].flow = work'[r].flow
                   /\ \/ Claiming(work[r])
                      \/ /\ work[r].step = "create" /\ identity[work[r].who] = Nobody /\ identity' # identity
                         /\ work'[r] # work[r]
<1>0. /\ work \in [Workers -> WorkType] /\ WorksFor(g, K, r)
      /\ identity \in [Identities -> Profiles \cup {Nobody}]
  BY DEF TypeOK, AccountsType, Owned
<1>1. CASE work'[r] = work[r]
  BY <1>1 DEF Claiming, HandlersHaveFlows, OutsideSteps
<1>2. CASE AccountsNext
  BY <1>1, <1>2, AccountsWork, FlowsAreApart DEF Claiming, HandlersHaveFlows, OutsideSteps
<1>3. CASE Restart
  BY <1>3, IdleIsFree DEF Restart, LoseWork, Claiming
<1>4. ASSUME NEW q \in Workers, Handlers(q), work' # work, q # r PROVE Good
  BY <1>1, <1>4, HandlersKeep DEF Kept
<1>5. CASE Handlers(r) /\ work' # work
  <2>1. ASSUME NEW f \in Flows, NEW a, TakeFlow(r, f, a) PROVE Good
    BY <1>0, <2>1 DEF TakeFlow, Idle, Claiming
  <2>2. ASSUME NEW f \in Flows, TakeHandoff(r, f) PROVE Good
    BY <1>0, <1>5, <2>2 DEF TakeHandoff, Idle, Claiming
  <2>3. ASSUME NEW f \in Flows, NEW key \in HandleKeys, Claim(r, f, key) PROVE Good
    BY <1>0, <1>5, <2>3 DEF Claim, Idle, Claiming
  <2>4. CASE Done(r)
    BY <2>4, DoneEffect DEF Claiming
  <2>5. ASSUME NEW s \in {"put", "refuse"}, To(r, s) PROVE Good
    BY <2>5, ToEffect DEF Claiming
  <2>6. CASE Put(r)
    <3>1. PICK c : work' = [work EXCEPT ![r].step = "result", ![r].code = c]
      BY <2>6 DEF Put
    <3>2. work'[r].step = "result"
      BY <3>1, PutEffect
    <3> QED BY <3>2 DEF Claiming
  <2>7. ASSUME NEW p \in Profiles, CreateWithIdentity(r, p), ~Done(r) PROVE Good
    <3>1. CASE To(r, "drop claim")
      <4>1. work[r].step = "create"
        BY <2>7 DEF CreateWithIdentity
      <4>2. work'[r].profile = Nobody /\ work'[r].step = "drop claim"
        BY <1>0, <3>1, <4>1, ToEffect DEF WorksFor
      <4> QED BY <4>2 DEF Claiming
    <3>2. CASE ~To(r, "drop claim")
      <4>1. /\ work' = [work EXCEPT ![r].step = "drop claim", ![r].profile = p]
            /\ work[r].step = "create" /\ identity[work[r].who] = Nobody
            /\ identity' = [identity EXCEPT ![work[r].who] = p]
        BY <2>7, <3>2 DEF CreateWithIdentity
      <4>2. SameCase(r) /\ work'[r].step = "drop claim"
        BY <4>1, CreateEffect
      <4>3. work[r].flow \in Flows
        BY <4>1 DEF HandlersHaveFlows, OutsideSteps
      <4>4. work[r].who \in Identities
        BY <1>0, <4>1, <4>3 DEF WorksFor, TypeOK, OutsideType
      <4>5. identity' # identity
        BY <1>0, <4>1, <4>4, NobodyIsNone
      <4> QED BY <4>1, <4>2, <4>3, <4>5 DEF SameCase
    <3> QED BY <3>1, <3>2
  <2>8. ASSUME Answer(r), ~To(r, "refuse") PROVE Good
    <3>1. PICK s \in {"mint", "put"} :
             \E p, n : work' = [work EXCEPT ![r].step = s, ![r].profile = p, ![r].seen = n]
      BY <2>8 DEF Answer
    <3>2. PICK p, n : work' = [work EXCEPT ![r].step = s, ![r].profile = p, ![r].seen = n]
      BY <3>1
    <3>3. work'[r].step = s
      BY <3>2, AnswerEffect
    <3> QED BY <3>3 DEF Claiming
  <2>9. CASE DropClaim(r) /\ ~Done(r)
    <3>1. work[r].step = "drop claim" /\ work[r].profile # Nobody /\ To(r, "session")
      BY <2>9 DEF DropClaim
    <3>2. SameCase(r)
      BY <3>1, ToEffect
    <3> QED BY <3>1, <3>2 DEF SameCase, Claiming, HandlersHaveFlows, OutsideSteps
  <2>10. ASSUME \/ Answer(r) /\ To(r, "refuse")
                \/ Mint(r)
                \/ FinishWait(r)
                \/ PutBack(r)
                \/ Finished(r)
         PROVE  Done(r) \/ \E s \in {"put", "refuse"} : To(r, s)
    BY <2>10 DEF Answer, Mint, FinishWait, PutBack, Finished, CreateSession
  <2> QED BY <1>5, <2>1, <2>2, <2>3, <2>4, <2>5, <2>6, <2>7, <2>8, <2>9, <2>10 DEF Handlers
<1>6. UNCHANGED work \/ Restart \/ AccountsNext \/ \E q \in Workers : Handlers(q)
  BY DEF Next, StartFlow, Approve, Ask, TimesOut, accountVars, vars
<1> QED BY <1>1, <1>2, <1>3, <1>4, <1>5, <1>6

\* A claim that is about to get its session has an identity with a profile.
LEMMA ClaimHasProfile ==
  ASSUME TypeOK, ProfilesExist, HandlersHaveFlows, NEW g, NEW K, Owned(g, K),
         NEW r \in Workers, Claiming(work[r])
  PROVE  /\ work[r].flow \in Flows /\ work[r].who = g[work[r].flow]
         /\ <<work[r].flow, work[r].who>> \in approved /\ identity[work[r].who] # Nobody
<1>1. WorksFor(g, K, r) /\ work[r].flow \in Flows /\ work[r].step \in {"drop claim", "session"}
  BY DEF Owned, Claiming, HandlersHaveFlows, OutsideSteps
<1>2. work[r].step = "session" => work[r].profile # Nobody
  BY NobodyIsNone DEF ProfilesExist
<1> QED BY <1>1, <1>2 DEF WorksFor

LEMMA ClaimsAloneStep ==
  ASSUME TypeOK, ProfilesExist, HandlersHaveFlows, AnsweredOnce, NEW g, NEW K, Owned(g, K), [Next]_vars,
         NEW r \in Workers
  PROVE  ClaimsAlone(r)'
<1> SUFFICES ASSUME Claiming(work'[r])
             PROVE  /\ minted'[work'[r].flow] = 0
                    /\ \A q \in Workers \ {r} : Claiming(work'[q]) => work'[q].flow # work'[r].flow
  BY DEF ClaimsAlone
<1> DEFINE f == work'[r].flow
           Made(q) == /\ work[q].step = "create" /\ identity[work[q].who] = Nobody /\ identity' # identity
                      /\ work'[q] # work[q]
<1>1. f \in Flows /\ work[r].flow = f /\ (Claiming(work[r]) \/ Made(r))
  BY NewClaim
<1>2. ASSUME NEW q \in Workers, Made(q), work[q].flow = f PROVE g[f] = work[q].who /\ identity[g[f]] = Nobody
  BY <1>1, <1>2 DEF Owned, WorksFor
<1>3. ASSUME NEW q \in Workers, Claiming(work[q]), work[q].flow = f PROVE identity[g[f]] # Nobody
  BY <1>3, ClaimHasProfile
<1>4. minted[f] = 0
  <2>1. CASE Claiming(work[r])
    BY <1>1, <2>1 DEF Owned, ClaimsAlone
  <2>2. CASE Made(r)
    BY <1>1, <1>2, <2>2 DEF Owned, Served, SignedIn
  <2> QED BY <1>1, <2>1, <2>2
<1>5. minted'[f] = 0
  <2> SUFFICES ASSUME minted'[f] # minted[f] PROVE FALSE
    BY <1>4
  <2>1. PICK q \in Workers :
           /\ work[q].flow = f /\ Kept(q) /\ ~Claiming(work'[q]) /\ UNCHANGED identity
           /\ work[q].step = "mint" \/ work[q].step = "session"
    BY <1>1, NewMinted
  <2>2. q # r /\ work'[r] = work[r] /\ Claiming(work[r])
    BY <1>1, <2>1 DEF Kept
  <2>3. CASE work[q].step = "mint"
    BY <1>1, <2>1, <2>2, <2>3 DEF AnsweredOnce, Once, Answering
  <2>4. CASE work[q].step = "session"
    BY <1>1, <2>1, <2>2, <2>4 DEF Owned, ClaimsAlone, Claiming
  <2> QED BY <2>1, <2>3, <2>4
<1>6. ASSUME NEW q \in Workers \ {r}, Claiming(work'[q]), work'[q].flow = f PROVE FALSE
  <2>1. work[q].flow = f /\ (Claiming(work[q]) \/ Made(q))
    BY <1>6, NewClaim
  <2>2. ~(Claiming(work[r]) /\ Claiming(work[q]))
    BY <1>1, <1>6, <2>1 DEF Owned, ClaimsAlone
  <2>3. Made(r) /\ Made(q)
    BY <1>1, <1>2, <1>3, <2>1, <2>2
  <2>4. ~Restart
    BY <2>3 DEF Restart, LoseWork
  <2> QED BY <1>6, <2>3, <2>4, OneMoves DEF Kept
<1> QED BY <1>5, <1>6

\* A sign-in yields one session at most.
LEMMA OneSessionStep ==
  ASSUME TypeOK, HandlersHaveFlows, AnsweredOnce, Owners, OneSessionPerSignIn, [Next]_vars
  PROVE  OneSessionPerSignIn'
<1> SUFFICES ASSUME NEW f \in Flows, minted'[f] # minted[f] PROVE minted'[f] <= 1
  BY DEF OneSessionPerSignIn
<1>1. PICK r \in Workers :
         /\ work[r].flow = f /\ minted'[f] = minted[f] + 1
         /\ work[r].step = "mint" \/ work[r].step = "session"
  BY NewMinted
<1>2. minted[f] = 0
  <2>1. CASE work[r].step = "mint"
    BY <1>1, <2>1 DEF AnsweredOnce, Once, Answering, Fruitless
  <2>2. CASE work[r].step = "session"
    BY <1>1, <2>2 DEF Owners, Owned, ClaimsAlone, Claiming
  <2> QED BY <1>1, <2>1, <2>2
<1> QED BY <1>1, <1>2

\* For a step that leaves the codes of put-back claims and the persons alone,
\* what is left to show is the handler that moves and the pages it serves.
LEMMA OwnersKept ==
  ASSUME TypeOK, ProfilesExist, HandlersHaveFlows, AnsweredOnce, [Next]_vars,
         NEW g \in [Flows -> Identities \cup {Nobody}], NEW K \in SUBSET Codes, Owned(g, K),
         \A q \in Workers : work'[q] = work[q] \/ WorksFor(g, K, q)',
         \A f \in Flows : Tended(g, K, f)
  PROVE  Owners'
<1>1. \A q \in Workers : WorksFor(g, K, q)'
  BY WorksForStays DEF Owned
<1>2. \A q \in Workers : ClaimsAlone(q)'
  BY ClaimsAloneStep
<1>3. ASSUME NEW f \in Flows PROVE Served(g, K, f)'
  BY ServedStays DEF Owned
<1>4. \A c \in K : c <= codes'
  BY CodesGrow, IssuersAreKnown DEF Owned, TypeOK, OutsideType, Codes
<1>6. \A f \in Flows : ForPage(g, f)'
  BY ForPageStays DEF Owned
<1>5. Owned(g, K)'
  BY <1>1, <1>2, <1>3, <1>4, <1>6 DEF Owned
<1> QED BY <1>5 DEF Owners

LEMMA OwnersHandler ==
  ASSUME SignInInv, [Next]_vars, NEW r \in Workers, Handlers(r)
  PROVE  Owners'
<1> USE DEF SignInInv
<1>0. PICK g \in [Flows -> Identities \cup {Nobody}], K \in SUBSET Codes : Owned(g, K)
  BY DEF Owners
<1>t. /\ work \in [Workers -> WorkType] /\ page \in [Flows -> PageType] /\ wait \in [Flows -> WaitType]
      /\ minted \in [Flows -> Nat] /\ handoff \in [Codes -> HandoffType] /\ flow \in [Flows -> FlowType]
      /\ identity \in [Identities -> Profiles \cup {Nobody}]
  BY DEF TypeOK, OutsideType, AccountsType, WaitType, FlowType
<1>w. WorksFor(g, K, r)
  BY <1>0 DEF Owned
<1>k. ASSUME Kept(r), WorksFor(g, K, r)', \A f \in Flows : Tended(g, K, f)
      PROVE  Owners'
  BY <1>0, <1>k, OwnersKept DEF Kept
<1>u. ASSUME UNCHANGED <<wait, page, minted>> PROVE \A f \in Flows : Tended(g, K, f)
  BY <1>u DEF Tended
<1>i. ASSUME work'[r].step \in {"idle", "refuse"} PROVE WorksFor(g, K, r)'
  BY <1>i DEF WorksFor
<1>1. ASSUME NEW f \in Flows, NEW a \in approved \cup {<<Nobody, Nobody>>}, TakeFlow(r, f, a)
      PROVE  Owners'
  <2>1. /\ Kept(r) /\ work'[r].step = "answer" /\ work'[r].key = a[1] /\ work'[r].who = a[2]
        /\ UNCHANGED <<wait, page, minted, approved>>
    BY <1>t, <1>1 DEF TakeFlow, Idle, Kept
  <2>2. a = <<a[1], a[2]>>
    BY DEF TypeOK, OutsideType
  <2>3. WorksFor(g, K, r)'
    BY <2>1, <2>2 DEF WorksFor
  <2> QED BY <1>k, <1>u, <2>1, <2>3
<1>2. CASE Answer(r)
  <2>1. work[r].step = "answer" /\ UNCHANGED <<identity, approved, wait, page, minted>>
    BY <1>2 DEF Answer, outsideVars
  <2>2. CASE To(r, "refuse")
    <3>1. Kept(r) /\ work'[r].step = "refuse"
      BY <2>2, ToEffect
    <3> QED BY <1>i, <1>k, <1>u, <2>1, <3>1
  <2>3. CASE ~To(r, "refuse")
    <3> DEFINE P == ProfileOf(work[r].who)
               S == IF P # Nobody THEN "mint" ELSE "put"
               N == IF P # Nobody THEN account[P].secret ELSE 0
    <3>1. /\ Vouched(work[r].flow, work[r].key, work[r].who)
          /\ work' = [work EXCEPT ![r].step = S, ![r].profile = P, ![r].seen = N]
      BY <1>2, <2>3 DEF Answer
    <3>2. /\ Kept(r) /\ SameCase(r) /\ work'[r].profile = P /\ work'[r].step = S
      <4> HIDE DEF S, P, N
      <4> QED BY <3>1, AnswerEffect
    <3>3. PICK f \in Flows, i \in Identities : work[r].flow = f /\ work[r].who = i /\ <<f, i>> \in approved
      <4>1. work[r].flow \in Flows
        BY <2>1 DEF HandlersHaveFlows, OutsideSteps
      <4>2. work[r].key = work[r].flow /\ work[r].who # Nobody
        BY <3>1 DEF Vouched, Verified
      <4>3. <<work[r].flow, work[r].who>> \in approved
        BY <1>w, <2>1, <4>1, <4>2, FlowsAreApart DEF WorksFor
      <4> QED BY <4>1, <4>3 DEF TypeOK, OutsideType
    <3> DEFINE h == [g EXCEPT ![f] = i]
    <3>4. h \in [Flows -> Identities \cup {Nobody}] /\ h[f] = i /\ \A e \in Flows \ {f} : h[e] = g[e]
      BY <1>0
    <3>5. Fruitless(f) /\ \A q \in Workers \ {r} : work[q].flow # f
      BY <2>1, <3>3 DEF AnsweredOnce, Once, Answering
    <3> HIDE DEF h
    <3>6. ASSUME NEW q \in Workers PROVE WorksFor(h, K, q)
      <4>1. CASE q = r
        BY <1>w, <2>1, <4>1 DEF WorksFor
      <4>2. CASE q # r
        <5>1. WorksFor(g, K, q) /\ work[q].flow # f
          BY <1>0, <3>5, <4>2 DEF Owned
        <5>2. work[q].step \in {"result", "create", "drop claim"} => work[q].flow \in Flows
          BY DEF HandlersHaveFlows, OutsideSteps
        <5> QED BY <3>4, <5>1, <5>2 DEF WorksFor, Holds
      <4> QED BY <4>1, <4>2
    <3>7. ASSUME NEW e \in Flows PROVE Served(h, K, e)
      <4>1. CASE e = f
        BY <3>5, <4>1 DEF Served, Awaited, Shown, SignedIn, Fruitless
      <4>2. CASE e # f
        <5>1. Served(g, K, e) /\ h[e] = g[e]
          BY <1>0, <3>4, <4>2 DEF Owned
        <5> QED BY <5>1 DEF Served, Awaited, Shown, SignedIn, Holds
      <4> QED BY <4>1, <4>2
    <3>12. page[f].stage # "new" /\ (page[f].named # Nobody => IssuerOf[i] = page[f].named)
      <4>1. page[f].named = flow[f].issuer
        BY <2>1, <3>3 DEF NamedServer, Unanswered
      <4>2. IssuerOf[i] = AskedServer(f, i)
        BY <3>1, <3>3 DEF Vouched, Exchanged
      <4>3. page[f].stage # "new"
        BY <2>1, <3>3 DEF AnsweredOnce, Once, Answering
      <4> QED BY <4>1, <4>2, <4>3 DEF AskedServer
    <3>13. ASSUME NEW e \in Flows PROVE ForPage(h, e)
      <4>1. CASE e = f
        BY <3>4, <3>12, <4>1 DEF ForPage
      <4>2. CASE e # f
        <5>1. ForPage(g, e) /\ h[e] = g[e]
          BY <1>0, <3>4, <4>2 DEF Owned
        <5> QED BY <5>1 DEF ForPage
      <4> QED BY <4>1, <4>2
    <3>8. Owned(h, K)
      BY <1>0, <3>6, <3>7, <3>13 DEF Owned
    <3>9. WorksFor(h, K, r)'
      <4>1. /\ work'[r].flow = f /\ work'[r].who = i /\ work'[r].step = S /\ S \in {"mint", "put"}
            /\ h[f] = i /\ <<f, i>> \in approved' /\ identity'[i] = work'[r].profile
        BY <2>1, <3>2, <3>3, <3>4 DEF SameCase, ProfileOf
      <4> HIDE DEF S
      <4> QED BY <4>1 DEF WorksFor
    <3>10. \A q \in Workers : work'[q] = work[q] \/ WorksFor(h, K, q)'
      BY <3>2, <3>9 DEF Kept
    <3>11. \A e \in Flows : Tended(h, K, e)
      BY <2>1 DEF Tended
    <3> QED BY <1>0, <3>4, <3>8, <3>10, <3>11, OwnersKept
  <2> QED BY <2>2, <2>3
<1>3. CASE Mint(r)
  <2>1. work[r].step = "mint" /\ UNCHANGED <<identity, approved, wait, page>> /\ work[r].flow \in Flows
    BY <1>3 DEF Mint, HandlersHaveFlows, OutsideSteps
  <2>2. /\ work[r].who = g[work[r].flow] /\ <<work[r].flow, work[r].who>> \in approved
        /\ identity[work[r].who] = work[r].profile /\ work[r].profile # Nobody
    BY <1>w, <2>1, NobodyIsNone DEF WorksFor, ProfilesExist
  <2>3. CASE To(r, "refuse") /\ UNCHANGED minted
    <3>1. Kept(r) /\ work'[r].step = "refuse"
      BY <2>3, ToEffect
    <3> QED BY <1>i, <1>k, <1>u, <2>1, <2>3, <3>1
  <2>4. CASE To(r, "put") /\ minted' = [minted EXCEPT ![work[r].flow] = minted[work[r].flow] + 1]
    <3>1. Kept(r) /\ SameCase(r) /\ work'[r].step = "put" /\ work'[r].profile = work[r].profile
      BY <2>4, ToEffect
    <3>2. WorksFor(g, K, r)'
      BY <2>1, <2>2, <3>1 DEF WorksFor, SameCase
    <3>3. ASSUME NEW f \in Flows PROVE Tended(g, K, f)
      <4>1. CASE f = work[r].flow
        BY <2>1, <2>2, <4>1 DEF Tended, SignedIn
      <4>2. CASE f # work[r].flow
        BY <1>t, <2>1, <2>4, <4>2 DEF Tended
      <4> QED BY <4>1, <4>2
    <3> QED BY <1>k, <3>1, <3>2, <3>3
  <2> QED BY <1>3, <2>3, <2>4 DEF Mint
<1>4. CASE Put(r)
  <2>1. PICK c \in Codes : c = codes + 1
    BY <1>4, IssuersAreKnown DEF Put, PutHandoff, Codes, TypeOK, OutsideType
  <2> DEFINE h == [kind |-> IF work[r].profile # Nobody THEN "session" ELSE "claim",
                   profile |-> work[r].profile, who |-> work[r].who]
  <2>2. /\ work[r].step = "put" /\ work[r].flow \in Flows /\ UNCHANGED <<identity, approved, page, minted>>
        /\ work' = [work EXCEPT ![r].step = "result", ![r].code = c]
        /\ handoff' = [SweptHandoffs EXCEPT ![c] = h] /\ codes' = c /\ wait' = SweptWaits
    BY <1>4, <2>1 DEF Put, PutHandoff, HandlersHaveFlows, OutsideSteps
  <2>3. Kept(r) /\ SameCase(r) /\ work'[r].step = "result" /\ work'[r].code = c
    BY <2>2, PutEffect
  <2>4. /\ work[r].who = g[work[r].flow] /\ <<work[r].flow, work[r].who>> \in approved
        /\ work[r].profile # Nobody => identity[work[r].who] = work[r].profile
    BY <1>w, <2>2 DEF WorksFor
  <2>5. handoff'[c] = h
    BY <2>2, SweptTypes
  <2>6. c \notin K
    BY <1>0, <2>1, IssuersAreKnown DEF Owned, TypeOK, OutsideType, Codes
  <2>7. c \in Nat
    BY IssuersAreKnown DEF Codes
  <2>8. WorksFor(g, K, r)'
    <3>1. PICK f \in Flows : f = work[r].flow /\ f = work'[r].flow
      BY <2>2, <2>3 DEF SameCase
    <3>2. c \in Codes /\ c <= codes'
      BY <2>2, <2>7
    <3>3. /\ handoff'[c].who = g[f] /\ <<f, g[f]>> \in approved'
          /\ handoff'[c].kind = "session" =>
                handoff'[c].profile # Nobody /\ identity'[g[f]] = handoff'[c].profile
      BY <2>2, <2>4, <2>5, <3>1
    <3>4. Holds(g, f, c)'
      BY <3>2, <3>3 DEF Holds
    <3> QED BY <2>3, <2>6, <3>1, <3>4 DEF WorksFor
  <2>9. \A f \in Flows : Tended(g, K, f)
    BY <2>2, SweptKeeps DEF Tended
  <2> QED BY <1>k, <2>3, <2>8, <2>9
<1>5. CASE FinishWait(r)
  <2>1. /\ Kept(r) /\ work'[r].step = "idle" /\ UNCHANGED <<identity, approved, codes, handoff, page, minted>>
        /\ work[r].step \in {"result", "refuse"} /\ work[r].flow \in Flows
    BY <1>5, DoneEffect DEF FinishWait, HandlersHaveFlows, OutsideSteps
  <2> DEFINE n == [stage |-> IF work[r].step = "result" THEN "done" ELSE "refused", code |-> work[r].code]
  <2>2. wait' = [wait EXCEPT ![work[r].flow] = IF wait[work[r].flow] = NoWait THEN wait[work[r].flow] ELSE n]
    BY <1>5 DEF FinishWait
  <2>3. ASSUME NEW f \in Flows PROVE Tended(g, K, f)
    <3>1. CASE wait'[f] = wait[f] \/ wait'[f].stage # "done"
      BY <2>1, <3>1 DEF Tended
    <3>2. CASE wait'[f] # wait[f] /\ wait'[f].stage = "done"
      <4>1. f = work[r].flow /\ wait'[f] = n
        <5> HIDE DEF n
        <5> QED BY <1>t, <2>2, <3>2
      <4>2. work[r].step = "result" /\ wait'[f].code = work[r].code
        BY <3>2, <4>1
      <4>3. Holds(g, f, work[r].code) /\ work[r].code \notin K
        BY <1>w, <4>1, <4>2 DEF WorksFor
      <4>4. Awaited(g, K, f)'
        BY <2>1, <4>2, <4>3 DEF Awaited, Holds
      <4> QED BY <2>1, <4>4 DEF Tended
    <3> QED BY <3>1, <3>2
  <2> QED BY <1>i, <1>k, <2>1, <2>3
<1>6. ASSUME NEW f \in Flows, TakeHandoff(r, f) PROVE Owners'
  <2>1. PICK c : c = page[f].code
    OBVIOUS
  <2>2. /\ page[f].stage = "coded" /\ Holds(g, f, c) /\ UNCHANGED <<identity, approved, codes, wait, minted>>
        /\ handoff' = [handoff EXCEPT ![c] = NoHandoff]
    BY <1>0, <1>6, <2>1 DEF TakeHandoff, Owned, Served, Shown
  <2>p. ASSUME UNCHANGED page PROVE \A e \in Flows : Tended(g, K, e)
    BY <2>2, <2>p DEF Tended
  <2>w. ASSUME UNCHANGED work, \A e \in Flows : Tended(g, K, e) PROVE Owners'
    BY <1>0, <2>w, OwnersKept
  <2>3. CASE PageOver(f) /\ UNCHANGED work
    <3>1. \A e \in Flows : Tended(g, K, e)
      BY <2>2, <2>3, PageOverEffect DEF Tended
    <3> QED BY <2>3, <2>w, <3>1
  <2>4. CASE UNCHANGED <<page, work>>
    BY <2>4, <2>p, <2>w
  <2>5. CASE /\ handoff[c] # NoHandoff /\ handoff[c].kind = "session" /\ UNCHANGED work
             /\ page' = [page EXCEPT ![f].stage = "in", ![f].profile = handoff[c].profile]
    <3>1. /\ page'[f].stage = "in" /\ page'[f].profile = handoff[c].profile
          /\ \A e \in Flows \ {f} : page'[e] = page[e]
      BY <1>t, <2>5 DEF PageType
    <3>2. /\ <<f, g[f]>> \in approved /\ handoff[c].profile # Nobody /\ identity[g[f]] = handoff[c].profile
      BY <2>2, <2>5 DEF Holds
    <3>3. Shown(g, K, f)'
      BY <2>2, <3>1, <3>2 DEF Shown
    <3>4. \A e \in Flows : Tended(g, K, e)
      BY <2>2, <3>1, <3>3 DEF Tended
    <3> QED BY <2>5, <2>w, <3>4
  <2>6. CASE /\ handoff[c] # NoHandoff /\ handoff[c].kind = "claim" /\ UNCHANGED page
             /\ work' = [work EXCEPT ![r] = [Idle EXCEPT !.step = "putback", !.flow = f, !.who = handoff[c].who]]
    <3>1. /\ Kept(r) /\ work'[r].step = "putback" /\ work'[r].flow = f /\ work'[r].who = handoff[c].who
      BY <1>t, <2>6 DEF Kept, Idle
    <3>2. handoff[c].who = g[f] /\ <<f, g[f]>> \in approved
      BY <2>2, <2>6 DEF Holds
    <3>3. WorksFor(g, K, r)'
      BY <2>2, <3>1, <3>2 DEF WorksFor
    <3> QED BY <1>k, <2>6, <2>p, <3>1, <3>3
  <2>7. \/ PageOver(f) /\ UNCHANGED work
        \/ UNCHANGED <<page, work>>
        \/ /\ handoff[c] # NoHandoff /\ handoff[c].kind = "session" /\ UNCHANGED work
           /\ page' = [page EXCEPT ![f].stage = "in", ![f].profile = handoff[c].profile]
        \/ /\ handoff[c] # NoHandoff /\ handoff[c].kind = "claim" /\ UNCHANGED page
           /\ work' = [work EXCEPT ![r] = [Idle EXCEPT !.step = "putback", !.flow = f, !.who = handoff[c].who]]
    BY <1>6, <2>1 DEF TakeHandoff, Usable
  <2> QED BY <2>3, <2>4, <2>5, <2>6, <2>7
<1>7. CASE PutBack(r)
  <2>1. PICK c \in Codes : c = codes + 1
    BY <1>7, IssuersAreKnown DEF PutBack, PutHandoff, Codes, TypeOK, OutsideType
  <2> DEFINE h == [NoHandoff EXCEPT !.kind = "claim", !.who = work[r].who]
  <2>2. /\ work[r].step = "putback" /\ UNCHANGED <<identity, approved, minted>>
        /\ handoff' = [SweptHandoffs EXCEPT ![c] = h] /\ codes' = c /\ wait' = SweptWaits /\ Done(r)
    BY <1>7, <2>1 DEF PutBack, PutHandoff
  <2>3. Kept(r) /\ work'[r].step = "idle"
    BY <2>2, DoneEffect
  <2>4. PICK f \in Flows : work[r].flow = f /\ work[r].who = g[f] /\ <<f, g[f]>> \in approved
    BY <1>w, <2>2 DEF WorksFor, HandlersHaveFlows, OutsideSteps
  <2>5. handoff'[c].who = g[f] /\ handoff'[c].kind = "claim"
    <3>1. handoff'[c] = h
      BY <2>2, SweptTypes
    <3> QED BY <2>4, <3>1 DEF NoHandoff
  <2>6. c \in Nat /\ codes \in Nat /\ Codes \subseteq Nat
    BY IssuersAreKnown DEF Codes, TypeOK, OutsideType
  <2> DEFINE L == K \cup {c}
  <2>7. /\ L \in SUBSET Codes /\ \A d \in L : d <= codes'
        /\ \A d \in Codes : d <= codes => (d \in L <=> d \in K)
    BY <1>0, <2>1, <2>2, <2>6 DEF Owned
  <2>8. Holds(g, f, c)'
    BY <2>2, <2>4, <2>5, <2>6 DEF Holds
  <2>9. ASSUME NEW e \in Flows PROVE Tended(g, L, e)
    <3>1. page'[e] = page[e] \/ Shown(g, L, e)'
      <4>1. CASE page' # page
        <5>1. page' = [page EXCEPT ![f].stage = "choosing", ![f].code = c]
          BY <1>7, <2>1, <2>4, <4>1 DEF PutBack
        <5>2. /\ page'[f].stage = "choosing" /\ page'[f].code = c
              /\ e # f => page'[e] = page[e]
          BY <1>t, <5>1 DEF PageType
        <5>3. Shown(g, L, f)'
          BY <2>8, <5>2 DEF Shown
        <5> QED BY <5>2, <5>3
      <4> QED BY <4>1
    <3>2. wait'[e].stage = "done" => wait'[e] = wait[e]
      BY <2>2, SweptKeeps
    <3> QED BY <2>2, <3>1, <3>2 DEF Tended
  <2> HIDE DEF L
  <2>10. \A e \in Flows : Served(g, L, e)'
    BY <1>0, <2>7, <2>9, ServedStays DEF Owned
  <2>11. WorksFor(g, L, r)'
    BY <2>3 DEF WorksFor
  <2>12. \A q \in Workers : WorksFor(g, L, q)'
    BY <1>0, <2>3, <2>7, <2>11, WorksForStays DEF Owned, Kept
  <2>13. \A q \in Workers : ClaimsAlone(q)'
    BY <1>0, ClaimsAloneStep
  <2>15. \A e \in Flows : ForPage(g, e)'
    BY <1>0, ForPageStays DEF Owned
  <2>14. Owned(g, L)'
    BY <2>7, <2>10, <2>12, <2>13, <2>15 DEF Owned
  <2> QED BY <2>7, <2>14 DEF Owners
<1>8. ASSUME NEW f \in Flows, NEW key \in HandleKeys, Claim(r, f, key) PROVE Owners'
  <2>1. PICK c : c = page[f].code
    OBVIOUS
  <2>2. /\ page[f].stage = "choosing" /\ Holds(g, f, c)
        /\ UNCHANGED <<identity, approved, codes, handoff, wait, minted>>
    BY <1>0, <1>8, <2>1 DEF Claim, Owned, Served, Shown
  <2>3. CASE PageOver(f) /\ UNCHANGED work
    <3>1. \A e \in Flows : Tended(g, K, e)
      BY <2>2, <2>3, PageOverEffect DEF Tended
    <3> QED BY <1>0, <2>3, <3>1, OwnersKept
  <2>4. CASE /\ handoff[c] # NoHandoff /\ UNCHANGED page
             /\ work' = [work EXCEPT ![r] = [Idle EXCEPT !.step = "create", !.flow = f, !.code = c,
                                                         !.who = handoff[c].who, !.key = key]]
    <3>1. /\ Kept(r) /\ work'[r].step = "create" /\ work'[r].flow = f /\ work'[r].who = handoff[c].who
          /\ work'[r].code = c /\ work'[r].profile = Nobody
      BY <1>t, <2>4 DEF Kept, Idle
    <3>2. handoff[c].who = g[f] /\ <<f, g[f]>> \in approved
      BY <2>2, <2>4 DEF Holds
    <3>3. Holds(g, f, c)'
      BY <2>2 DEF Holds
    <3>4. WorksFor(g, K, r)'
      BY <2>2, <3>1, <3>2, <3>3 DEF WorksFor
    <3> QED BY <1>k, <1>u, <2>2, <2>4, <3>1, <3>4
  <2> QED BY <1>8, <2>1, <2>3, <2>4 DEF Claim, Usable
<1>9. ASSUME NEW p \in Profiles, CreateWithIdentity(r, p) PROVE Owners'
  <2>1. work[r].step = "create" /\ UNCHANGED <<approved, codes, handoff, wait, page, minted>>
    BY <1>9 DEF CreateWithIdentity, outsideVars
  <2>2. CASE Done(r)
    BY <1>i, <1>k, <1>u, <2>1, <2>2, DoneEffect
  <2>3. PICK f \in Flows, c \in Codes :
           /\ work[r].flow = f /\ work[r].who = g[f] /\ <<f, g[f]>> \in approved
           /\ work[r].code = c /\ Holds(g, f, c) /\ work[r].profile = Nobody
    BY <1>w, <2>1 DEF WorksFor, HandlersHaveFlows, OutsideSteps, Holds
  <2>4. g[f] \in Identities
    BY <2>3 DEF TypeOK, OutsideType
  <2>5. KeepsHolding(g, f, c)
    BY <2>3, HoldsStays
  <2>6. Holds(g, f, c)'
    BY <2>5 DEF Holds, KeepsHolding
  <2>7. CASE To(r, "drop claim") /\ identity[work[r].who] # Nobody /\ UNCHANGED identity
    <3>1. /\ Kept(r) /\ work'[r].step = "drop claim" /\ work'[r].flow = f /\ work'[r].who = g[f]
          /\ work'[r].code = c /\ work'[r].profile = Nobody
      BY <2>3, <2>7, ToEffect DEF SameCase
    <3>2. WorksFor(g, K, r)'
      BY <2>1, <2>3, <2>6, <2>7, <3>1 DEF WorksFor
    <3> QED BY <1>k, <1>u, <2>1, <3>1, <3>2
  <2>8. CASE /\ identity' = [identity EXCEPT ![work[r].who] = p]
             /\ work' = [work EXCEPT ![r].step = "drop claim", ![r].profile = p]
    <3>1. /\ Kept(r) /\ SameCase(r) /\ work'[r].step = "drop claim" /\ work'[r].profile = p
          /\ work'[r].code = work[r].code
      BY <2>8, CreateEffect
    <3>2. work'[r].flow = f /\ work'[r].who = g[f] /\ work'[r].code = c
      BY <2>3, <3>1 DEF SameCase
    <3>3. identity'[g[f]] = p /\ p # Nobody
      BY <1>t, <2>3, <2>4, <2>8, NobodyIsNone
    <3>4. WorksFor(g, K, r)'
      BY <2>1, <2>3, <2>6, <3>1, <3>2, <3>3 DEF WorksFor
    <3> QED BY <1>k, <1>u, <2>1, <3>1, <3>4
  <2> QED BY <1>9, <2>2, <2>7, <2>8 DEF CreateWithIdentity
<1>10. CASE DropClaim(r)
  <2>1. /\ work[r].step = "drop claim" /\ UNCHANGED <<identity, approved, codes, wait, minted>>
        /\ work[r].flow \in Flows
    BY <1>10 DEF DropClaim, HandlersHaveFlows, OutsideSteps
  <2>2. CASE Done(r) /\ PageOver(work[r].flow)
    <3>1. \A e \in Flows : Tended(g, K, e)
      BY <2>1, <2>2, PageOverEffect DEF Tended
    <3> QED BY <1>i, <1>k, <2>2, <3>1, DoneEffect
  <2>3. CASE To(r, "session") /\ UNCHANGED page /\ work[r].profile # Nobody
    <3>1. Kept(r) /\ SameCase(r) /\ work'[r].step = "session" /\ work'[r].profile = work[r].profile
      BY <2>3, ToEffect
    <3>2. WorksFor(g, K, r)'
      BY <1>w, <2>1, <2>3, <3>1 DEF WorksFor, SameCase
    <3> QED BY <1>k, <1>u, <2>1, <2>3, <3>1, <3>2
  <2> QED BY <1>10, <2>2, <2>3 DEF DropClaim
<1>11. CASE Finished(r)
  <2>1. /\ work[r].step = "session" /\ Done(r) /\ UNCHANGED <<identity, approved, wait>>
    BY <1>11 DEF Finished, CreateSession
  <2>2. Kept(r) /\ work'[r].step = "idle"
    BY <2>1, DoneEffect
  <2>3. CASE UNCHANGED <<page, minted>>
    BY <1>i, <1>k, <1>u, <2>1, <2>2, <2>3
  <2>4. CASE ~UNCHANGED <<page, minted>>
    <3>1. PICK f \in Flows : f = work[r].flow
      BY <1>11, <2>4 DEF Finished
    <3>2. /\ minted' = [minted EXCEPT ![f] = minted[f] + 1]
          /\ page' = [page EXCEPT ![f].stage = "in", ![f].profile = work[r].profile]
      BY <1>11, <2>4, <3>1 DEF Finished
    <3>3. /\ page'[f].stage = "in" /\ page'[f].profile = work[r].profile
          /\ \A e \in Flows \ {f} : page'[e] = page[e] /\ minted'[e] = minted[e]
      BY <1>t, <3>2 DEF PageType
    <3>4. /\ <<f, g[f]>> \in approved /\ identity[g[f]] = work[r].profile /\ work[r].profile # Nobody
      BY <1>w, <2>1, <3>1, NobodyIsNone DEF WorksFor, ProfilesExist
    <3>5. Shown(g, K, f)' /\ SignedIn(g, f)'
      BY <2>1, <3>3, <3>4 DEF Shown, SignedIn
    <3>6. \A e \in Flows : Tended(g, K, e)
      BY <2>1, <3>3, <3>5 DEF Tended
    <3> QED BY <1>i, <1>k, <2>2, <3>6
  <2> QED BY <2>3, <2>4
<1> QED BY <1>1, <1>2, <1>3, <1>4, <1>5, <1>6, <1>7, <1>8, <1>9, <1>10, <1>11 DEF Handlers

LEMMA OwnersStep ==
  ASSUME SignInInv, [Next]_vars
  PROVE  Owners'
<1> USE DEF SignInInv
<1>0. PICK g \in [Flows -> Identities \cup {Nobody}], K \in SUBSET Codes : Owned(g, K)
  BY DEF Owners
<1>t. /\ page \in [Flows -> PageType] /\ wait \in [Flows -> WaitType]
  BY DEF TypeOK, OutsideType, WaitType
<1>k. ASSUME \A q \in Workers : work'[q] = work[q] \/ WorksFor(g, K, q)',
             \A f \in Flows : Tended(g, K, f)
      PROVE  Owners'
  BY <1>0, <1>k, OwnersKept
<1>u. ASSUME UNCHANGED <<wait, page, minted>> PROVE \A f \in Flows : Tended(g, K, f)
  BY <1>u DEF Tended
<1>1. ASSUME NEW f \in Flows, NEW issuer, StartFlow(f, issuer) PROVE Owners'
  <2>1. UNCHANGED <<work, minted>> /\ page' = [page EXCEPT ![f].stage = "waiting", ![f].named = issuer]
        /\ wait' = [SweptWaits EXCEPT ![f].stage = "open"]
    BY <1>1 DEF StartFlow, accountVars
  <2>2. page'[f].stage = "waiting" /\ \A e \in Flows \ {f} : page'[e] = page[e]
    BY <1>t, <2>1 DEF PageType
  <2>3. wait'[f].stage = "open" /\ \A e \in Flows \ {f} : wait'[e] = SweptWaits[e]
    BY <2>1, SweptTypes DEF WaitType
  <2>4. \A e \in Flows : Tended(g, K, e)
    BY <2>1, <2>2, <2>3, SweptKeeps DEF Tended
  <2> QED BY <1>k, <2>1, <2>4
<1>2. ASSUME NEW f \in Flows, Ask(f) PROVE Owners'
  <2>1. /\ UNCHANGED <<work, identity, approved, codes, handoff, minted>>
        /\ page[f].stage = "waiting" /\ wait'[f] = NoWait
        /\ \A e \in Flows \ {f} : wait'[e] = wait[e]
    BY <1>t, <1>2 DEF Ask, accountVars
  <2>2. CASE PageOver(f)
    <3>1. \A e \in Flows : Tended(g, K, e)
      BY <2>1, <2>2, PageOverEffect DEF Tended, NoWait
    <3> QED BY <1>k, <2>1, <3>1
  <2>3. CASE UNCHANGED page
    <3>1. \A e \in Flows : Tended(g, K, e)
      BY <2>1, <2>3 DEF Tended, NoWait
    <3> QED BY <1>k, <2>1, <3>1
  <2>4. CASE wait[f].stage = "done" /\ page' = [page EXCEPT ![f].stage = "coded", ![f].code = wait[f].code]
    <3>1. PICK c : c = wait[f].code
      OBVIOUS
    <3>2. page'[f].stage = "coded" /\ page'[f].code = c /\ \A e \in Flows \ {f} : page'[e] = page[e]
      BY <1>t, <2>4, <3>1 DEF PageType
    <3>3. Holds(g, f, c) /\ c \notin K
      BY <1>0, <2>4, <3>1 DEF Owned, Served, Awaited
    <3>4. Holds(g, f, c)'
      BY <2>1, <3>3 DEF Holds
    <3>5. Shown(g, K, f)'
      BY <3>2, <3>3, <3>4 DEF Shown
    <3>6. \A e \in Flows : Tended(g, K, e)
      BY <2>1, <3>2, <3>5 DEF Tended, NoWait
    <3> QED BY <1>k, <2>1, <3>6
  <2> QED BY <1>2, <2>2, <2>3, <2>4 DEF Ask
<1>3. CASE AccountsNext /\ UNCHANGED outsideVars
  <2>1. ASSUME NEW q \in Workers, work'[q] # work[q] PROVE WorksFor(g, K, q)'
    <3>1. work'[q].step \in {"idle", "session", "secrets", "drop"} /\ work'[q].flow \notin Flows
      BY <1>3, <2>1, AccountsWork, FlowsAreApart DEF HandlersHaveFlows, OutsideSteps
    <3> QED BY <3>1 DEF WorksFor
  <2> QED BY <1>3, <1>k, <1>u, <2>1 DEF outsideVars
<1>4. CASE Restart
  <2>1. ASSUME NEW q \in Workers PROVE WorksFor(g, K, q)'
    <3>1. work'[q].step = "idle"
      BY <1>4, IdleIsFree DEF Restart, LoseWork
    <3> QED BY <3>1 DEF WorksFor
  <2>2. \A f \in Flows : Tended(g, K, f)
    BY <1>4 DEF Restart, Tended, NoWait
  <2> QED BY <1>k, <2>1, <2>2
<1>5. ASSUME \/ \E f \in Flows, i \in Identities : Approve(f, i)
             \/ \E x \in Flows \cup Codes : TimesOut(x)
             \/ UNCHANGED vars
      PROVE  UNCHANGED <<wait, page, minted, work>>
  BY <1>5 DEF Approve, TimesOut, vars, outsideVars, accountVars
<1>6. CASE UNCHANGED <<wait, page, minted, work>>
  BY <1>k, <1>u, <1>6
<1> QED BY <1>1, <1>2, <1>3, <1>4, <1>5, <1>6, OwnersHandler DEF Next

\* Codes that somebody could still use and now cannot: their time is over, or
\* they were spent.
LEMMA CodesSpent ==
  ASSUME TypeOK, [Next]_vars, NEW c \in Codes, c <= codes, handoff[c] # NoHandoff, handoff'[c] = NoHandoff
  PROVE  \/ c \in late'
         \/ \E r \in Workers, f \in Flows : TakeHandoff(r, f) /\ page[f].stage = "coded" /\ c = page[f].code
         \/ \E r \in Workers : work[r].step = "drop claim" /\ c = work[r].code /\ UNCHANGED identity
<1>0. /\ codes \in Nat /\ c \in Nat /\ handoff \in [Codes -> HandoffType] /\ Codes \subseteq Nat
  BY IssuersAreKnown DEF TypeOK, OutsideType, Codes
<1>1. ASSUME NEW h, PutHandoff(h), UNCHANGED late PROVE c \in late'
  <2>1. codes' = codes + 1 /\ handoff' = [SweptHandoffs EXCEPT ![codes + 1] = h]
    BY <1>1 DEF PutHandoff
  <2>2. handoff'[c] = SweptHandoffs[c]
    BY <1>0, <2>1, SweptTypes
  <2> QED BY <1>1, <2>2 DEF SweptHandoffs
<1>2. ASSUME NEW f \in Flows, NEW issuer, StartFlow(f, issuer) PROVE c \in late'
  BY <1>2 DEF StartFlow, SweptHandoffs
<1>3. CASE Restart
  <2>1. c \in 1..codes /\ 1..codes \subseteq late'
    BY <1>0, <1>3, IssuersAreKnown DEF Restart, Codes
  <2> QED BY <2>1
<1>4. ASSUME NEW r \in Workers, Handlers(r)
      PROVE  \/ c \in late'
             \/ \E f \in Flows : TakeHandoff(r, f) /\ page[f].stage = "coded" /\ c = page[f].code
             \/ work[r].step = "drop claim" /\ c = work[r].code /\ UNCHANGED identity
  <2>1. ASSUME NEW f \in Flows, NEW a, TakeFlow(r, f, a) PROVE UNCHANGED handoff
    BY <2>1 DEF TakeFlow
  <2>2. ASSUME \/ Answer(r) \/ Mint(r) \/ FinishWait(r) \/ Finished(r)
               \/ \E f \in Flows, key \in HandleKeys : Claim(r, f, key)
               \/ \E p \in Profiles : CreateWithIdentity(r, p)
        PROVE  UNCHANGED handoff
    BY <2>2 DEF Answer, Mint, FinishWait, Finished, Claim, CreateWithIdentity, outsideVars
  <2>3. CASE Put(r)
    BY <1>1, <2>3 DEF Put
  <2>4. CASE PutBack(r)
    BY <1>1, <2>4 DEF PutBack
  <2>5. CASE DropClaim(r)
    BY <1>0, <2>5 DEF DropClaim
  <2>6. ASSUME NEW f \in Flows, TakeHandoff(r, f) PROVE page[f].stage = "coded" /\ c = page[f].code
    BY <1>0, <2>6 DEF TakeHandoff
  <2> QED BY <1>4, <2>1, <2>2, <2>3, <2>4, <2>5, <2>6 DEF Handlers
<1>5. ASSUME \/ \E f \in Flows : Ask(f) \/ \E i \in Identities : Approve(f, i)
             \/ \E x \in Flows \cup Codes : TimesOut(x)
             \/ UNCHANGED outsideVars
      PROVE  UNCHANGED handoff
  BY <1>5 DEF Ask, Approve, TimesOut, outsideVars
<1> QED BY <1>2, <1>3, <1>4, <1>5 DEF Next, vars

\* A page that turns to choosing has a code that was just drawn.
LEMMA NewChoice ==
  ASSUME TypeOK, CodesAreDrawn, HandlersHaveFlows, [Next]_vars, NEW f \in Flows,
         page'[f].stage = "choosing", page'[f] # page[f]
  PROVE  page'[f].code # 0 /\ handoff'[page'[f].code] # NoHandoff
<1>0. page \in [Flows -> PageType] /\ codes \in Nat /\ wait \in [Flows -> WaitType]
  BY IssuersAreKnown DEF TypeOK, OutsideType, Codes, WaitType
<1>p. ASSUME NEW h \in Flows, PageOver(h) PROVE FALSE
  BY <1>p, PageOverEffect
<1>s. ASSUME NEW h \in Flows, NEW i, page' = [page EXCEPT ![h].stage = "waiting", ![h].named = i] PROVE FALSE
  BY <1>0, <1>s DEF PageType
<1>c. ASSUME NEW h \in Flows, NEW c, page' = [page EXCEPT ![h].stage = "coded", ![h].code = c] PROVE FALSE
  BY <1>0, <1>c DEF PageType
<1>i. ASSUME NEW h \in Flows, NEW p, page' = [page EXCEPT ![h].stage = "in", ![h].profile = p] PROVE FALSE
  BY <1>0, <1>i DEF PageType
<1>1. ASSUME NEW r \in Workers, PutBack(r) PROVE page'[f].code # 0 /\ handoff'[page'[f].code] # NoHandoff
  <2>1. PICK c \in Codes : c = codes + 1
    BY <1>1, IssuersAreKnown DEF PutBack, PutHandoff, Codes, TypeOK, OutsideType
  <2>2. work[r].flow \in Flows /\ page' = [page EXCEPT ![work[r].flow].stage = "choosing", ![work[r].flow].code = c]
    BY <1>1, <2>1 DEF PutBack, HandlersHaveFlows, OutsideSteps
  <2>3. page'[f].code = c
    BY <1>0, <2>2 DEF PageType
  <2>4. handoff'[c].kind = "claim"
    <3> DEFINE h == [NoHandoff EXCEPT !.kind = "claim", !.who = work[r].who]
    <3>1. handoff' = [SweptHandoffs EXCEPT ![c] = h]
      BY <1>1, <2>1 DEF PutBack, PutHandoff
    <3>2. handoff'[c] = h
      BY <3>1, SweptTypes
    <3> QED BY <3>2 DEF NoHandoff
  <2> QED BY <1>0, <2>1, <2>3, <2>4 DEF NoHandoff
<1>2. ASSUME NEW r \in Workers, Handlers(r), ~PutBack(r) PROVE FALSE
  <2>1. UNCHANGED page \/ \/ \E h \in Flows : PageOver(h)
                          \/ \E h \in Flows : \E p : page' = [page EXCEPT ![h].stage = "in", ![h].profile = p]
    BY <1>2 DEF Handlers, TakeFlow, Answer, Mint, Put, FinishWait, TakeHandoff, Claim, CreateWithIdentity,
                DropClaim, Finished, outsideVars, HandlersHaveFlows, OutsideSteps
  <2> QED BY <1>i, <1>p, <2>1
<1>3. ASSUME NEW h \in Flows, Ask(h) PROVE FALSE
  BY <1>p, <1>c, <1>3 DEF Ask
<1>4. ASSUME NEW h \in Flows, NEW issuer, StartFlow(h, issuer) PROVE FALSE
  BY <1>s, <1>4 DEF StartFlow
<1>5. ASSUME \/ \E h \in Flows, i \in Identities : Approve(h, i)
             \/ \E x \in Flows \cup Codes : TimesOut(x)
             \/ Restart \/ UNCHANGED outsideVars
      PROVE  UNCHANGED page
  BY <1>5 DEF Approve, TimesOut, Restart, outsideVars
<1> QED BY <1>1, <1>2, <1>3, <1>4, <1>5 DEF Next, vars

\* A claim that was shown to its page is good until its time is over.
LEMMA ClaimGoodStep ==
  ASSUME SignInInv, [Next]_vars
  PROVE  ClaimStaysGood'
<1> USE DEF SignInInv
<1> SUFFICES ASSUME NEW f \in Flows, page'[f].stage = "choosing", page'[f].code \notin late'
             PROVE  \/ page'[f].code # 0 /\ handoff'[page'[f].code] # NoHandoff
                    \/ \E i \in Identities : <<f, i>> \in approved' /\ identity'[i] # Nobody
  BY DEF ClaimStaysGood, Usable
<1>0. PICK g \in [Flows -> Identities \cup {Nobody}], K \in SUBSET Codes : Owned(g, K)
  BY DEF Owners
<1>1. CASE page'[f] # page[f]
  BY <1>1, NewChoice
<1>2. ASSUME NEW i \in Identities, <<f, i>> \in approved, identity[i] # Nobody
      PROVE  <<f, i>> \in approved' /\ identity'[i] # Nobody
  BY <1>2, CodesGrow, IdentitiesStay
<1>3. CASE page'[f] = page[f]
  <2>1. PICK c : c = page[f].code /\ c = page'[f].code
    BY <1>3
  <2>2. Holds(g, f, c) /\ c \in K /\ c \in Codes /\ c <= codes
    BY <1>0, <1>3, <2>1 DEF Owned, Served, Shown, Holds
  <2>3. c # 0 /\ c \notin late
    <3>1. late \subseteq late'
      BY DEF Next, Handlers, TakeFlow, Answer, Mint, Put, FinishWait, TakeHandoff, PutBack, Claim,
             DropClaim, Finished, StartFlow, Approve, Ask, TimesOut, Restart, CreateWithIdentity,
             outsideVars, vars
    <3>2. c # 0
      BY <2>2, IssuersAreKnown DEF Codes
    <3> QED BY <2>1, <3>1, <3>2
  <2>4. CASE handoff[c] = NoHandoff
    <3>1. \E i \in Identities : <<f, i>> \in approved /\ identity[i] # Nobody
      BY <1>3, <2>1, <2>3, <2>4 DEF GoodForOneSession, ClaimStaysGood, Usable
    <3> QED BY <1>2, <3>1
  <2>5. CASE handoff'[c] # NoHandoff
    BY <2>1, <2>3, <2>5
  <2>6. CASE handoff[c] # NoHandoff /\ handoff'[c] = NoHandoff
    <3>1. g[f] \in Identities /\ <<f, g[f]>> \in approved /\ handoff[c].who = g[f]
      BY <2>2, <2>6 DEF Holds, TypeOK, OutsideType
    <3>2. ASSUME NEW h \in Flows, page[h].stage = "coded", c = page[h].code PROVE FALSE
      BY <1>0, <2>2, <3>2 DEF Owned, Served, Shown
    <3>3. ASSUME NEW r \in Workers, work[r].step = "drop claim", c = work[r].code
          PROVE  identity[g[f]] # Nobody
      <4>1. WorksFor(g, K, r) /\ work[r].flow \in Flows
        BY <1>0, <3>3 DEF Owned, HandlersHaveFlows, OutsideSteps
      <4>2. identity[work[r].who] # Nobody /\ work[r].who = g[work[r].flow]
            /\ Holds(g, work[r].flow, c)
        BY <3>3, <4>1 DEF WorksFor
      <4> QED BY <2>6, <3>1, <4>2 DEF Holds
    <3>4. identity[g[f]] # Nobody
      BY <2>1, <2>2, <2>6, <3>2, <3>3, CodesSpent
    <3> QED BY <1>2, <3>1, <3>4
  <2> QED BY <2>4, <2>5, <2>6
<1> QED BY <1>1, <1>3

----------------------------------------------------------------------------
(* The invariant and what it means.                                         *)

LEMMA SignInInit == Init => SignInInv
<1> SUFFICES ASSUME Init PROVE SignInInv
  OBVIOUS
<1> USE DEF Init, AccountsInit, OutsideInit
<1>1. AccountsType
  <2>1. NoAccount \in [key : HandleKeys \cup {Nobody}, secret : Nat]
    BY DEF NoAccount
  <2>2. NoSession \in [profile : Profiles \cup {Nobody}, seen : Nat, late : BOOLEAN]
    BY DEF NoSession
  <2> QED BY <2>1, <2>2, IdleType DEF AccountsType
<1>2. OutsideType
  <2>1. NoFlow \in FlowType /\ NoWait \in WaitType /\ NoHandoff \in HandoffType /\ NewPage \in PageType
    BY DEF NoFlow, FlowType, NoWait, WaitType, NoHandoff, HandoffType, NewPage, PageType
  <2> QED BY <2>1 DEF OutsideType, FlowType, WaitType
<1>3. \A r \in Workers : work[r] = Idle /\ work[r].step = "idle" /\ work[r].flow \notin Flows
  BY IdleIsFree
<1>4. ProfilesExist /\ HandlersHaveFlows /\ PasswordEndsSessions /\ ProfilesAreReachable
  BY <1>3 DEF ProfilesExist, HandlersHaveFlows, OutsideSteps, PasswordEndsSessions, ProfilesAreReachable, Exists
<1>5. \A f \in Flows : page[f].stage = "new" /\ wait[f].stage = "none" /\ ~flow[f].open /\ minted[f] = 0
  BY DEF NewPage, NoWait, NoFlow
<1>6. CodesAreDrawn /\ AnsweredOnce /\ GoodForOneSession
  BY <1>3, <1>5 DEF CodesAreDrawn, AnsweredOnce, Once, Fruitless, GoodForOneSession, OneSessionPerSignIn,
                    ClaimStaysGood
<1>7. Owners
  <2> DEFINE g == [f \in Flows |-> Nobody]
  <2>1. g \in [Flows -> Identities \cup {Nobody}] /\ {} \in SUBSET Codes
    OBVIOUS
  <2> HIDE DEF g
  <2>2. ASSUME NEW r \in Workers PROVE WorksFor(g, {}, r) /\ ClaimsAlone(r)
    BY <1>3 DEF WorksFor, ClaimsAlone, Claiming
  <2>3. ASSUME NEW f \in Flows PROVE Served(g, {}, f) /\ ForPage(g, f)
    <3>1. Served(g, {}, f)
      BY <1>5 DEF Served, Awaited, Shown, SignedIn
    <3>2. g[f] = Nobody
      BY DEF g
    <3> QED BY <3>1, <3>2 DEF ForPage
  <2>4. Owned(g, {})
    BY <2>2, <2>3 DEF Owned
  <2> QED BY <2>1, <2>4 DEF Owners
<1>8. NamedServer
  BY <1>3, <1>5 DEF NamedServer, Unanswered
<1> QED BY <1>1, <1>2, <1>4, <1>6, <1>7, <1>8 DEF SignInInv, TypeOK

LEMMA SignInStep == SignInInv /\ [Next]_vars => SignInInv'
<1> SUFFICES ASSUME SignInInv, [Next]_vars PROVE SignInInv'
  OBVIOUS
<1>1. /\ TypeOK /\ ProfilesExist /\ CodesAreDrawn /\ HandlersHaveFlows /\ AnsweredOnce /\ Owners
      /\ PasswordEndsSessions /\ ProfilesAreReachable /\ OneSessionPerSignIn
  BY DEF SignInInv, GoodForOneSession
<1>2. TypeOK'
  BY <1>1, AccountsStep, OutsideStep DEF TypeOK
<1>3. ProfilesExist' /\ PasswordEndsSessions' /\ ProfilesAreReachable'
  BY <1>1, ProfilesExistStep, PasswordStep, ReachableStep
<1>4. CodesAreDrawn' /\ HandlersHaveFlows' /\ AnsweredOnce'
  BY <1>1, CodesStep, HandlersHaveFlowsStep, OnceStep
<1>6. NamedServer'
  BY <1>1, NamedServerStep DEF SignInInv
<1>5. Owners' /\ GoodForOneSession'
  BY <1>1, OwnersStep, OneSessionStep, ClaimGoodStep DEF GoodForOneSession
<1> QED BY <1>2, <1>3, <1>4, <1>5, <1>6 DEF SignInInv

\* The inductive invariant holds in every state of every behaviour.
THEOREM SignInIsSound == Spec => []SignInInv
<1>1. Init => SignInInv
  BY SignInInit
<1>2. SignInInv /\ [Next]_vars => SignInInv'
  BY SignInStep
<1> QED BY <1>1, <1>2, PTL DEF Spec

\* A new password ends the sessions of the old one, but for the exceptions
\* handleAccountPassword has (handlers_accounts.go).
THEOREM PasswordsEndSessions == Spec => []PasswordEndsSessions
<1>1. SignInInv => PasswordEndsSessions
  BY DEF SignInInv
<1> QED BY <1>1, SignInIsSound, PTL

\* However sign-ups and claims overlap, and whatever part of them fails, no
\* profile is left that nobody can sign in to (CreateAccountWithIdentity).
THEOREM NoProfileIsLost == Spec => []ProfilesAreReachable
<1>1. SignInInv => ProfilesAreReachable
  BY DEF SignInInv
<1> QED BY <1>1, SignInIsSound, PTL

\* Whoever a page ends up signed in as, or choosing a handle for, approved the
\* request of that page, on the server the page named if it named one
\* (revokedAnswer, takeHandoff, handleRevokedClaim).
THEOREM PagesGetTheirPerson == Spec => []PageGetsItsPerson
<1>1. SignInInv => PageGetsItsPerson
  <2> SUFFICES ASSUME SignInInv, NEW f \in Flows
               PROVE  /\ page[f].stage = "in" =>
                           \E i \in Identities : HasApproved(f, i) /\ identity[i] = page[f].profile
                      /\ (page[f].stage \in {"coded", "choosing"} /\ handoff[page[f].code] # NoHandoff
                          /\ handoff[page[f].code].kind = "claim")
                         => HasApproved(f, handoff[page[f].code].who)
    BY DEF PageGetsItsPerson, Usable
  <2>1. PICK g, K : Owned(g, K)
    BY DEF SignInInv, Owners
  <2>2. Shown(g, K, f) /\ ForPage(g, f)
    BY <2>1 DEF Owned, Served
  <2>3. <<f, g[f]>> \in approved => g[f] \in Identities /\ HasApproved(f, g[f])
    BY <2>2, NobodyIsNone DEF SignInInv, TypeOK, OutsideType, ForPage, HasApproved
  <2> QED BY <2>2, <2>3 DEF Shown, Holds
<1> QED BY <1>1, SignInIsSound, PTL

\* A sign-in that succeeded is good for its session: for one, however often
\* answers, codes and claims are sent, and for one, whatever name is taken.
THEOREM SignInsAreGood == Spec => []GoodForOneSession
<1>1. SignInInv => GoodForOneSession
  BY DEF SignInInv
<1> QED BY <1>1, SignInIsSound, PTL

----------------------------------------------------------------------------
(* Friends.                                                                 *)

\* A friendship is two rows, and both are there.
Mutual == \A a, b \in Accounts : AreFriends(a, b) => AreFriends(b, a)

\* Two profiles never wait for each other: the second ask is the answer.
OneWay == \A a, b \in Accounts : (a # b /\ <<a, b>> \in asks) => <<b, a>> \notin asks

\* Friends do not ask each other, unless the ask was on its way before.
FriendsClear ==
    \A a, b \in Accounts :
        (a # b /\ AreFriends(a, b) /\ <<a, b>> \notin lateFriends) =>
            /\ asks \cap BothWays(a, b) = {}
            /\ \A w \in FriendWorkers : InFlight(w, a, b) => worker[w].op # "ask"

\* Nothing stands between two profiles one of which has blocked the other,
\* and nothing is about to, unless it was on its way before.
BlockClear ==
    \A a, b \in Accounts :
        (a # b /\ IsBlocked(a, b) /\ <<a, b>> \notin lateBlock) =>
            /\ friends \cap BothWays(a, b) = {}
            /\ asks \cap BothWays(a, b) = {}
            /\ \A i \in invites : <<i.from, i.to>> \notin BothWays(a, b)
            /\ \A w \in FriendWorkers : ~InFlight(w, a, b)

\* The inductive invariant.  The properties alone are not inductive: a
\* request in flight could still write what a block has just cleared.
FriendsInv == FriendsTypeOK /\ Mutual /\ OneWay /\ FriendsClear /\ BlockClear /\ OneInvitation

(***************************************************************************)
(* Every step keeps the invariant.                                         *)
(***************************************************************************)
THEOREM FriendsInvStep ==
  FriendsInv /\ [FriendsNext]_friendVars => FriendsInv'
<1> SUFFICES ASSUME FriendsInv, [FriendsNext]_friendVars PROVE FriendsInv'
  OBVIOUS
<1> USE DEF FriendsInv
<1>1. ASSUME NEW w \in FriendWorkers, NEW a \in Accounts, NEW b \in Accounts, LookToAsk(w, a, b) PROVE FriendsInv'
  <2>1. FriendsTypeOK'
    BY <1>1 DEF LookToAsk, rows, FriendsTypeOK, Requests, Looking, AskFriend, Invite, NoRequest, InviteRow, BothWays
  <2>2. Mutual'
    BY <1>1 DEF LookToAsk, rows, Mutual, AreFriends, BothWays
  <2>3. OneWay'
    BY <1>1 DEF LookToAsk, rows, OneWay, BothWays
  <2>4. FriendsClear'
    BY <1>1 DEF LookToAsk, rows, FriendsClear, Mutual, OneWay, AreFriends, InFlight, BothWays, IsBlocked, Looking, AskFriend, Invite, NoRequest, FriendsTypeOK, Requests
  <2>5. BlockClear'
    BY <1>1 DEF LookToAsk, rows, BlockClear, Mutual, IsBlocked, AreFriends, InFlight, BothWays, Looking, AskFriend, Invite, NoRequest, FriendsTypeOK, Requests
  <2>6. OneInvitation'
    BY <1>1 DEF LookToAsk, rows, OneInvitation, FriendsTypeOK, InviteRow, Requests, Looking, AskFriend, Invite, NoRequest
  <2> QED BY <2>1, <2>2, <2>3, <2>4, <2>5, <2>6
<1>2. ASSUME NEW w \in FriendWorkers, RequestFriend(w) PROVE FriendsInv'
  <2>1. FriendsTypeOK'
    BY <1>2 DEF RequestFriend, Befriend, RecordFriends, rows, FriendsTypeOK, Requests, Looking, AskFriend, Invite, NoRequest, InviteRow, BothWays
  <2>2. Mutual'
    BY <1>2 DEF RequestFriend, Befriend, RecordFriends, rows, Mutual, AreFriends, BothWays
  <2>3. OneWay'
    BY <1>2 DEF RequestFriend, Befriend, RecordFriends, rows, OneWay, BothWays
  <2>4. FriendsClear'
    BY <1>2 DEF RequestFriend, Befriend, RecordFriends, rows, FriendsClear, Mutual, OneWay, AreFriends, InFlight, BothWays, IsBlocked, Looking, AskFriend, Invite, NoRequest, FriendsTypeOK, Requests
  <2>5. BlockClear'
    BY <1>2 DEF RequestFriend, Befriend, RecordFriends, rows, BlockClear, Mutual, IsBlocked, AreFriends, InFlight, BothWays, Looking, AskFriend, Invite, NoRequest, FriendsTypeOK, Requests
  <2>6. OneInvitation'
    BY <1>2 DEF RequestFriend, Befriend, RecordFriends, rows, OneInvitation, FriendsTypeOK, InviteRow, Requests, Looking, AskFriend, Invite, NoRequest
  <2> QED BY <2>1, <2>2, <2>3, <2>4, <2>5, <2>6
<1>3. ASSUME NEW a \in Accounts, NEW b \in Accounts, AcceptRequest(a, b) PROVE FriendsInv'
  <2>1. FriendsTypeOK'
    BY <1>3 DEF AcceptRequest, Befriend, RecordFriends, rows, FriendsTypeOK, Requests, Looking, AskFriend, Invite, NoRequest, InviteRow, BothWays
  <2>2. Mutual'
    BY <1>3 DEF AcceptRequest, Befriend, RecordFriends, rows, Mutual, AreFriends, BothWays
  <2>3. OneWay'
    BY <1>3 DEF AcceptRequest, Befriend, RecordFriends, rows, OneWay, BothWays
  <2>4. FriendsClear'
    BY <1>3 DEF AcceptRequest, Befriend, RecordFriends, rows, FriendsClear, Mutual, OneWay, AreFriends, InFlight, BothWays, IsBlocked, Looking, AskFriend, Invite, NoRequest, FriendsTypeOK, Requests
  <2>5. BlockClear'
    BY <1>3 DEF AcceptRequest, Befriend, RecordFriends, rows, BlockClear, Mutual, IsBlocked, AreFriends, InFlight, BothWays, Looking, AskFriend, Invite, NoRequest, FriendsTypeOK, Requests
  <2>6. OneInvitation'
    BY <1>3 DEF AcceptRequest, Befriend, RecordFriends, rows, OneInvitation, FriendsTypeOK, InviteRow, Requests, Looking, AskFriend, Invite, NoRequest
  <2> QED BY <2>1, <2>2, <2>3, <2>4, <2>5, <2>6
<1>4. ASSUME NEW a \in Accounts, NEW b \in Accounts, DeclineRequest(a, b) PROVE FriendsInv'
  <2>1. FriendsTypeOK'
    BY <1>4 DEF DeclineRequest, rows, FriendsTypeOK, Requests, Looking, AskFriend, Invite, NoRequest, InviteRow, BothWays
  <2>2. Mutual'
    BY <1>4 DEF DeclineRequest, rows, Mutual, AreFriends, BothWays
  <2>3. OneWay'
    BY <1>4 DEF DeclineRequest, rows, OneWay, BothWays
  <2>4. FriendsClear'
    BY <1>4 DEF DeclineRequest, rows, FriendsClear, Mutual, OneWay, AreFriends, InFlight, BothWays, IsBlocked, Looking, AskFriend, Invite, NoRequest, FriendsTypeOK, Requests
  <2>5. BlockClear'
    BY <1>4 DEF DeclineRequest, rows, BlockClear, Mutual, IsBlocked, AreFriends, InFlight, BothWays, Looking, AskFriend, Invite, NoRequest, FriendsTypeOK, Requests
  <2>6. OneInvitation'
    BY <1>4 DEF DeclineRequest, rows, OneInvitation, FriendsTypeOK, InviteRow, Requests, Looking, AskFriend, Invite, NoRequest
  <2> QED BY <2>1, <2>2, <2>3, <2>4, <2>5, <2>6
<1>5. ASSUME NEW a \in Accounts, NEW b \in Accounts, BlockAccount(a, b) PROVE FriendsInv'
  <2>1. FriendsTypeOK'
    BY <1>5 DEF BlockAccount, RecordBlock, rows, FriendsTypeOK, Requests, Looking, AskFriend, Invite, NoRequest, InviteRow, BothWays
  <2>2. Mutual'
    BY <1>5 DEF BlockAccount, RecordBlock, rows, Mutual, AreFriends, BothWays
  <2>3. OneWay'
    BY <1>5 DEF BlockAccount, RecordBlock, rows, OneWay, BothWays
  <2>4. FriendsClear'
    BY <1>5 DEF BlockAccount, RecordBlock, rows, FriendsClear, Mutual, OneWay, AreFriends, InFlight, BothWays, IsBlocked, Looking, AskFriend, Invite, NoRequest, FriendsTypeOK, Requests
  <2>5. BlockClear'
    BY <1>5 DEF BlockAccount, RecordBlock, rows, BlockClear, Mutual, IsBlocked, AreFriends, InFlight, BothWays, Looking, AskFriend, Invite, NoRequest, FriendsTypeOK, Requests
  <2>6. OneInvitation'
    BY <1>5 DEF BlockAccount, RecordBlock, rows, OneInvitation, FriendsTypeOK, InviteRow, Requests, Looking, AskFriend, Invite, NoRequest
  <2> QED BY <2>1, <2>2, <2>3, <2>4, <2>5, <2>6
<1>6. ASSUME NEW a \in Accounts, NEW b \in Accounts, UnblockAccount(a, b) PROVE FriendsInv'
  <2>1. FriendsTypeOK'
    BY <1>6 DEF UnblockAccount, rows, FriendsTypeOK, Requests, Looking, AskFriend, Invite, NoRequest, InviteRow, BothWays
  <2>2. Mutual'
    BY <1>6 DEF UnblockAccount, rows, Mutual, AreFriends, BothWays
  <2>3. OneWay'
    BY <1>6 DEF UnblockAccount, rows, OneWay, BothWays
  <2>4. FriendsClear'
    BY <1>6 DEF UnblockAccount, rows, FriendsClear, Mutual, OneWay, AreFriends, InFlight, BothWays, IsBlocked, Looking, AskFriend, Invite, NoRequest, FriendsTypeOK, Requests
  <2>5. BlockClear'
    BY <1>6 DEF UnblockAccount, rows, BlockClear, Mutual, IsBlocked, AreFriends, InFlight, BothWays, Looking, AskFriend, Invite, NoRequest, FriendsTypeOK, Requests
  <2>6. OneInvitation'
    BY <1>6 DEF UnblockAccount, rows, OneInvitation, FriendsTypeOK, InviteRow, Requests, Looking, AskFriend, Invite, NoRequest
  <2> QED BY <2>1, <2>2, <2>3, <2>4, <2>5, <2>6
<1>7. ASSUME NEW a \in Accounts, NEW b \in Accounts, Unfriend(a, b) PROVE FriendsInv'
  <2>1. FriendsTypeOK'
    BY <1>7 DEF Unfriend, rows, FriendsTypeOK, Requests, Looking, AskFriend, Invite, NoRequest, InviteRow, BothWays
  <2>2. Mutual'
    BY <1>7 DEF Unfriend, rows, Mutual, AreFriends, BothWays
  <2>3. OneWay'
    BY <1>7 DEF Unfriend, rows, OneWay, BothWays
  <2>4. FriendsClear'
    BY <1>7 DEF Unfriend, rows, FriendsClear, Mutual, OneWay, AreFriends, InFlight, BothWays, IsBlocked, Looking, AskFriend, Invite, NoRequest, FriendsTypeOK, Requests
  <2>5. BlockClear'
    BY <1>7 DEF Unfriend, rows, BlockClear, Mutual, IsBlocked, AreFriends, InFlight, BothWays, Looking, AskFriend, Invite, NoRequest, FriendsTypeOK, Requests
  <2>6. OneInvitation'
    BY <1>7 DEF Unfriend, rows, OneInvitation, FriendsTypeOK, InviteRow, Requests, Looking, AskFriend, Invite, NoRequest
  <2> QED BY <2>1, <2>2, <2>3, <2>4, <2>5, <2>6
<1>8. ASSUME NEW w \in FriendWorkers, NEW a \in Accounts, NEW b \in Accounts, NEW t \in Tables, LookToInvite(w, a, b, t) PROVE FriendsInv'
  <2>0. Invite(a, b, t) \in Requests
    BY DEF Requests
  <2>1. FriendsTypeOK'
    BY <1>8, <2>0 DEF LookToInvite, rows, FriendsTypeOK
  <2>2. Mutual'
    BY <1>8 DEF LookToInvite, rows, Mutual, AreFriends, BothWays
  <2>3. OneWay'
    BY <1>8 DEF LookToInvite, rows, OneWay, BothWays
  <2>4. FriendsClear'
    BY <1>8 DEF LookToInvite, rows, FriendsClear, Mutual, OneWay, AreFriends, InFlight, BothWays, IsBlocked, Looking, AskFriend, Invite, NoRequest, FriendsTypeOK, Requests
  <2>5. BlockClear'
    BY <1>8 DEF LookToInvite, rows, BlockClear, Mutual, IsBlocked, AreFriends, InFlight, BothWays, Looking, AskFriend, Invite, NoRequest, FriendsTypeOK, Requests
  <2>6. OneInvitation'
    BY <1>8 DEF LookToInvite, rows, OneInvitation, FriendsTypeOK, InviteRow, Requests, Looking, AskFriend, Invite, NoRequest
  <2> QED BY <2>1, <2>2, <2>3, <2>4, <2>5, <2>6
<1>9. ASSUME NEW w \in FriendWorkers, NEW id \in InviteIds, CreateInvite(w, id) PROVE FriendsInv'
  <2> DEFINE new == [id |-> id, from |-> worker[w].from, to |-> worker[w].to,
                     table |-> worker[w].table, expired |-> FALSE]
  <2>a. PICK c \in Accounts, d \in Accounts, t \in Tables : worker[w] = Invite(c, d, t)
    BY <1>9 DEF CreateInvite, FriendsTypeOK, Requests, Looking, AskFriend, Invite, NoRequest
  <2>b. worker[w].from = c /\ worker[w].to = d /\ worker[w].table = t
    BY <2>a DEF Invite
  <2>c. new \in InviteRow /\ new.from = c /\ new.to = d /\ new.table = t
    BY <2>b DEF InviteRow
  <2>d. /\ invites' = {i \in invites : <<i.from, i.to, i.table>> # <<c, d, t>>} \cup {new}
        /\ worker' = [worker EXCEPT ![w] = NoRequest]
        /\ UNCHANGED <<friends, asks, blocks, lateBlock, lateFriends>>
    BY <1>9, <2>b DEF CreateInvite
  <2>e. InFlight(w, c, d)
    BY <2>a, <2>b DEF InFlight, BothWays, Invite, NoRequest
  <2> HIDE DEF new
  <2>1. FriendsTypeOK'
    BY <2>a, <2>b, <2>c, <2>d, <2>e DEF FriendsTypeOK, Requests, Looking, AskFriend, Invite, NoRequest, InviteRow, BothWays
  <2>2. Mutual'
    BY <2>a, <2>b, <2>c, <2>d, <2>e DEF Mutual, AreFriends, BothWays
  <2>3. OneWay'
    BY <2>a, <2>b, <2>c, <2>d, <2>e DEF OneWay, BothWays
  <2>4. FriendsClear'
    BY <2>a, <2>b, <2>c, <2>d, <2>e DEF FriendsClear, Mutual, OneWay, AreFriends, InFlight, BothWays, IsBlocked, Looking, AskFriend, Invite, NoRequest, FriendsTypeOK, Requests
  <2>5. BlockClear'
    BY <2>a, <2>b, <2>c, <2>d, <2>e DEF BlockClear, Mutual, IsBlocked, AreFriends, InFlight, BothWays, Looking, AskFriend, Invite, NoRequest, FriendsTypeOK, Requests
  <2>6. OneInvitation'
    BY <2>a, <2>b, <2>c, <2>d, <2>e DEF OneInvitation, FriendsTypeOK, InviteRow, Requests, Looking, AskFriend, Invite, NoRequest
  <2> QED BY <2>1, <2>2, <2>3, <2>4, <2>5, <2>6
<1>10. ASSUME NEW w \in FriendWorkers, GiveUp(w) PROVE FriendsInv'
  <2>1. FriendsTypeOK'
    BY <1>10 DEF GiveUp, rows, FriendsTypeOK, Requests, Looking, AskFriend, Invite, NoRequest, InviteRow, BothWays
  <2>2. Mutual'
    BY <1>10 DEF GiveUp, rows, Mutual, AreFriends, BothWays
  <2>3. OneWay'
    BY <1>10 DEF GiveUp, rows, OneWay, BothWays
  <2>4. FriendsClear'
    BY <1>10 DEF GiveUp, rows, FriendsClear, Mutual, OneWay, AreFriends, InFlight, BothWays, IsBlocked, Looking, AskFriend, Invite, NoRequest, FriendsTypeOK, Requests
  <2>5. BlockClear'
    BY <1>10 DEF GiveUp, rows, BlockClear, Mutual, IsBlocked, AreFriends, InFlight, BothWays, Looking, AskFriend, Invite, NoRequest, FriendsTypeOK, Requests
  <2>6. OneInvitation'
    BY <1>10 DEF GiveUp, rows, OneInvitation, FriendsTypeOK, InviteRow, Requests, Looking, AskFriend, Invite, NoRequest
  <2> QED BY <2>1, <2>2, <2>3, <2>4, <2>5, <2>6
<1>11. ASSUME NEW i \in invites, Expire(i) PROVE FriendsInv'
  <2> DEFINE old == [i EXCEPT !.expired = TRUE]
  <2>a. i \in InviteRow
    BY DEF FriendsTypeOK
  <2>b. old \in InviteRow /\ old.from = i.from /\ old.to = i.to /\ old.table = i.table
    BY <2>a DEF InviteRow
  <2>c. /\ invites' = (invites \ {i}) \cup {old}
        /\ UNCHANGED <<friends, asks, blocks, worker, lateBlock, lateFriends>>
    BY <1>11 DEF Expire
  <2> HIDE DEF old
  <2>1. FriendsTypeOK'
    BY <2>a, <2>b, <2>c DEF FriendsTypeOK, Requests, Looking, AskFriend, Invite, NoRequest, InviteRow, BothWays
  <2>2. Mutual'
    BY <2>a, <2>b, <2>c DEF Mutual, AreFriends, BothWays
  <2>3. OneWay'
    BY <2>a, <2>b, <2>c DEF OneWay, BothWays
  <2>4. FriendsClear'
    BY <2>a, <2>b, <2>c DEF FriendsClear, Mutual, OneWay, AreFriends, InFlight, BothWays, IsBlocked, Looking, AskFriend, Invite, NoRequest, FriendsTypeOK, Requests
  <2>5. BlockClear'
    BY <2>a, <2>b, <2>c DEF BlockClear, Mutual, IsBlocked, AreFriends, InFlight, BothWays, Looking, AskFriend, Invite, NoRequest, FriendsTypeOK, Requests
  <2>6. OneInvitation'
    BY <2>a, <2>b, <2>c DEF OneInvitation, FriendsTypeOK, InviteRow, Requests, Looking, AskFriend, Invite, NoRequest
  <2> QED BY <2>1, <2>2, <2>3, <2>4, <2>5, <2>6
<1>12. ASSUME PurgeInvites PROVE FriendsInv'
  <2>1. FriendsTypeOK'
    BY <1>12 DEF PurgeInvites, rows, FriendsTypeOK, Requests, Looking, AskFriend, Invite, NoRequest, InviteRow, BothWays
  <2>2. Mutual'
    BY <1>12 DEF PurgeInvites, rows, Mutual, AreFriends, BothWays
  <2>3. OneWay'
    BY <1>12 DEF PurgeInvites, rows, OneWay, BothWays
  <2>4. FriendsClear'
    BY <1>12 DEF PurgeInvites, rows, FriendsClear, Mutual, OneWay, AreFriends, InFlight, BothWays, IsBlocked, Looking, AskFriend, Invite, NoRequest, FriendsTypeOK, Requests
  <2>5. BlockClear'
    BY <1>12 DEF PurgeInvites, rows, BlockClear, Mutual, IsBlocked, AreFriends, InFlight, BothWays, Looking, AskFriend, Invite, NoRequest, FriendsTypeOK, Requests
  <2>6. OneInvitation'
    BY <1>12 DEF PurgeInvites, rows, OneInvitation, FriendsTypeOK, InviteRow, Requests, Looking, AskFriend, Invite, NoRequest
  <2> QED BY <2>1, <2>2, <2>3, <2>4, <2>5, <2>6
<1>13. ASSUME NEW a \in Accounts, NEW id \in InviteIds, DeleteInvite(a, id) PROVE FriendsInv'
  <2>1. FriendsTypeOK'
    BY <1>13 DEF DeleteInvite, rows, FriendsTypeOK, Requests, Looking, AskFriend, Invite, NoRequest, InviteRow, BothWays
  <2>2. Mutual'
    BY <1>13 DEF DeleteInvite, rows, Mutual, AreFriends, BothWays
  <2>3. OneWay'
    BY <1>13 DEF DeleteInvite, rows, OneWay, BothWays
  <2>4. FriendsClear'
    BY <1>13 DEF DeleteInvite, rows, FriendsClear, Mutual, OneWay, AreFriends, InFlight, BothWays, IsBlocked, Looking, AskFriend, Invite, NoRequest, FriendsTypeOK, Requests
  <2>5. BlockClear'
    BY <1>13 DEF DeleteInvite, rows, BlockClear, Mutual, IsBlocked, AreFriends, InFlight, BothWays, Looking, AskFriend, Invite, NoRequest, FriendsTypeOK, Requests
  <2>6. OneInvitation'
    BY <1>13 DEF DeleteInvite, rows, OneInvitation, FriendsTypeOK, InviteRow, Requests, Looking, AskFriend, Invite, NoRequest
  <2> QED BY <2>1, <2>2, <2>3, <2>4, <2>5, <2>6
<1>14. ASSUME NEW w \in FriendWorkers, LookForFriend(w) PROVE FriendsInv'
  <2>1. FriendsTypeOK'
    BY <1>14 DEF LookForFriend, rows, FriendsTypeOK, Requests, Looking, AskFriend, Invite, NoRequest, InviteRow, BothWays
  <2>2. Mutual'
    BY <1>14 DEF LookForFriend, rows, Mutual, AreFriends, BothWays
  <2>3. OneWay'
    BY <1>14 DEF LookForFriend, rows, OneWay, BothWays
  <2>4. FriendsClear'
    BY <1>14 DEF LookForFriend, rows, FriendsClear, Mutual, OneWay, AreFriends, InFlight, BothWays, IsBlocked, Looking, AskFriend, Invite, NoRequest, FriendsTypeOK, Requests
  <2>5. BlockClear'
    BY <1>14 DEF LookForFriend, rows, BlockClear, Mutual, IsBlocked, AreFriends, InFlight, BothWays, Looking, AskFriend, Invite, NoRequest, FriendsTypeOK, Requests
  <2>6. OneInvitation'
    BY <1>14 DEF LookForFriend, rows, OneInvitation, FriendsTypeOK, InviteRow, Requests, Looking, AskFriend, Invite, NoRequest
  <2> QED BY <2>1, <2>2, <2>3, <2>4, <2>5, <2>6
<1>15. CASE UNCHANGED friendVars
  BY <1>15 DEF friendVars, FriendsTypeOK, Mutual, OneWay, FriendsClear, BlockClear, OneInvitation,
     AreFriends, IsBlocked, InFlight
<1> QED
  BY <1>1, <1>2, <1>3, <1>4, <1>5, <1>6, <1>7, <1>8, <1>9, <1>10, <1>11, <1>12, <1>13, <1>14, <1>15 DEF FriendsNext

(***************************************************************************)
(* The invariant holds in every state, and gives the properties.           *)
(***************************************************************************)
THEOREM FriendsAreSound == FriendsSpec => []FriendsInv
<1>1. FriendsInit => FriendsInv
  BY DEF FriendsInit, FriendsInv, FriendsTypeOK, Mutual, OneWay, FriendsClear, BlockClear,
     OneInvitation, AreFriends, IsBlocked, InFlight, BothWays
<1> QED
  BY <1>1, FriendsInvStep, PTL DEF FriendsSpec

\* The rows have the types of their columns.
THEOREM FriendRowsTyped == FriendsSpec => []FriendsTypeOK
BY FriendsAreSound, PTL DEF FriendsInv

\* A block stops every path between two profiles (BlockAccount), except a
\* request that had looked before it.
THEOREM BlockSeparatesAlways == FriendsSpec => []BlockSeparates
<1>1. FriendsInv => BlockSeparates
  BY DEF FriendsInv, BlockClear, BlockSeparates, FriendsTypeOK, AreFriends, IsBlocked, BothWays,
     CanSee, SearchAccounts, FriendsPlaying, FriendsScreen, Incoming, Outgoing
<1> QED BY <1>1, FriendsAreSound, PTL

\* The pages of two profiles mirror each other (befriend, RequestFriend).
THEOREM ScreensAgreeAlways == FriendsSpec => []ScreensAgree
<1>1. ASSUME FriendsInv, NEW a \in Accounts, NEW b \in Accounts, a # b,
            <<a, b>> \notin lateFriends
      PROVE RelationTo(b, a) = Mirror(RelationTo(a, b)) /\ SearchRelation(a, b) = RelationTo(a, b)
  BY <1>1 DEF FriendsInv, Mutual, OneWay, FriendsClear, BothWays, AreFriends,
     RelationTo, SearchRelation, Mirror, Incoming, Outgoing
<1>2. FriendsInv => ScreensAgree
  BY <1>1 DEF ScreensAgree
<1> QED BY <1>2, FriendsAreSound, PTL

\* One invitation per sender, friend and table (CreateInvite).
THEOREM OneInvitationAlways == FriendsSpec => []OneInvitation
BY FriendsAreSound, PTL DEF FriendsInv
=============================================================================
