------------------------------ MODULE MCSignIn ------------------------------
(* The bounds on passwords and sign-ins are shared out three ways: people   *)
(* with passwords only, people who sign in from outside only, or one        *)
(* password and one sign-in; the other sign-ins are over at the start.      *)
EXTENDS SignIn, TLC

Servers == CHOOSE where \in [Identities -> Issuers] :
              \A iss \in Issuers : \E i \in Identities : where[i] = iss

\* Passwords used up, and the sign-ins that may be started.
Shares == {<<MaxSecrets, Flows>>, <<0, {}>>, <<MaxSecrets - 1, {CHOOSE f \in Flows : TRUE}>>}

MCInit ==
    /\ account = [p \in Profiles |-> NoAccount]
    /\ identity = [i \in Identities |-> Nobody]
    /\ session = [t \in Tokens |-> NoSession]
    /\ work = [r \in Workers |-> Idle]
    /\ flow = [f \in Flows |-> NoFlow]
    /\ wait = [f \in Flows |-> NoWait]
    /\ handoff = [c \in Codes |-> NoHandoff]
    /\ codes = 0 /\ late = {} /\ approved = {}
    /\ minted = [f \in Flows |-> 0]
    /\ \E share \in Shares :
          /\ secrets = share[1]
          /\ page = [f \in Flows |-> IF f \in share[2] THEN NewPage
                                     ELSE [NewPage EXCEPT !.stage = "over"]]

\* Handlers and tokens are alike: which free one is drawn makes no difference.
Alike == Permutations(Workers) \cup Permutations(Tokens)

MCSpec == MCInit /\ [][Next]_vars
=============================================================================
