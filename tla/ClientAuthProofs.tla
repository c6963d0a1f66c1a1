-------------------------- MODULE ClientAuthProofs --------------------------
(***************************************************************************)
(* Proofs about ClientAuth for all contexts Chef may answer with, all      *)
(* configured methods and all timeouts.                                    *)
(***************************************************************************)
EXTENDS ClientAuth, TLAPS

\* The lists of names give methods, and only known names are required.
LEMMA MethodSets ==
  ASSUME NEW c \in Contexts
  PROVE  /\ MethodsRequired(c.required) \subseteq Methods \ {Password}
         /\ AllowedBy(c) \subseteq Methods \/ AllowedBy(c) = allowed
         /\ Replaced(allowed, c.config) \subseteq Methods \/ Replaced(allowed, c.config) = allowed
         /\ c.required \subseteq PolicyNames
<1>1. /\ c.required \subseteq PolicyNames
      /\ c = [preferred |-> c.preferred, required |-> c.required, config |-> c.config]
  BY ClientAuthAssumption
<1>2. MethodsRequired(c.required) \subseteq Methods \ {Password}
  BY DEF MethodsRequired, Methods, Password, PublicKey, OpenId, Interactive
<1>3. \A names : MethodsNamed(names) \subseteq Methods
  BY DEF MethodsNamed
<1>4. \A before, names :
        Replaced(before, names) \subseteq Methods \/ Replaced(before, names) = before
  BY <1>3 DEF Replaced
<1>5. Replaced(allowed, c.config) \subseteq Methods \/ Replaced(allowed, c.config) = allowed
  BY <1>4
<1>6. AllowedBy(c) \subseteq Methods \/ AllowedBy(c) = allowed
  <2> DEFINE preferred == Replaced(allowed, c.preferred)
             demanded == IF c.required = {} THEN preferred ELSE MethodsNamed(c.required)
  <2>1. preferred \subseteq Methods \/ preferred = allowed
    BY <1>4
  <2>2. demanded \subseteq Methods \/ demanded = allowed
    BY <1>3, <2>1
  <2>3. AllowedBy(c) = Replaced(demanded, c.config)
    BY DEF AllowedBy
  <2> HIDE DEF demanded
  <2>4. Replaced(demanded, c.config) \subseteq Methods \/ Replaced(demanded, c.config) = demanded
    BY <1>4
  <2> QED
    BY <2>2, <2>3, <2>4
<1> QED
  BY <1>1, <1>2, <1>5, <1>6

-----------------------------------------------------------------------------
(***************************************************************************)
(* The type invariant.                                                     *)
(***************************************************************************)

\* Every step keeps the types.
LEMMA TypeStep == TypeOK /\ [Next]_vars => TypeOK'
<1> SUFFICES ASSUME TypeOK, [Next]_vars PROVE TypeOK'
  OBVIOUS
<1> USE DEF TypeOK, Active, Ended, loginVars, methodVars
<1>1. CASE Top \/ NothingToHandle \/ ClientGone \/ AwaitGrant \/ GrantTimesOut \/ GrantedEarly
  BY <1>1 DEF Top, GraceOver, AwaitMessage, StartOpenId, NothingToHandle, ClientGone,
              AwaitGrant, GrantTimesOut, GrantedEarly
<1>2. CASE LoginRefused \/ TakeChefRequest \/ TakeRequest
  BY <1>2 DEF LoginRefused, TakeChefRequest, TakeRequest, Modes, Methods, PublicKey
<1>3. ASSUME NEW c \in Contexts, TakeLogin(c) PROVE TypeOK'
  BY <1>3, MethodSets DEF TakeLogin, Modes
<1>4. ASSUME NEW c \in Contexts, TakeShellLogin(c) PROVE TypeOK'
  BY <1>4, MethodSets DEF TakeShellLogin, Modes
<1>5. CASE Handle
  <2> USE DEF GoOn, Methods, Password, Interactive, PublicKey, OpenId
  <2>1. CASE PasswordRight /\ UNCHANGED <<loginVars, required, now, since, takenAt>> /\ patience' = LongWait
    BY <2>1 DEF PasswordRight, Succeeds
  <2>2. CASE TooManyFailures /\ UNCHANGED <<loginVars, required, now, since, takenAt>> /\ patience' = LongWait
    BY <2>2 DEF TooManyFailures
  <2>3. CASE PasswordWrong /\ UNCHANGED <<loginVars, required, now, since, takenAt>> /\ patience' = LongWait
    BY <2>3 DEF PasswordWrong, MaxTries
  <2>4. CASE PasswordMethod
    BY <2>1, <2>2, <2>3, <2>4 DEF PasswordMethod
  <2>5. CASE InteractiveAnswer
    <3>1. CASE /\ phase' = "disconnected" /\ UNCHANGED <<allowed, succeeded, wrong, proved>>
               /\ UNCHANGED <<loginVars, required, now, since, takenAt>> /\ patience' = LongWait
      BY <3>1
    <3> QED
      BY <2>1, <2>2, <2>3, <2>5, <3>1 DEF InteractiveAnswer
  <2>6. CASE EmptyPassword \/ InteractivePrompt \/ KeyNotSigned \/ OtherMethod
    BY <2>6 DEF EmptyPassword, InteractivePrompt, KeyNotSigned, OtherMethod
  <2>7. CASE SignedKey
    BY <2>7 DEF SignedKey, Succeeds
  <2> QED
    BY <1>5, <2>4, <2>5, <2>6, <2>7 DEF Handle
<1>6. CASE Granted
  BY <1>6 DEF Granted, Methods, OpenId, Password
<1>7. CASE Tick
  BY <1>7 DEF Tick
<1>8. CASE UNCHANGED vars
  BY <1>8 DEF vars
<1> QED
  BY <1>1, <1>2, <1>3, <1>4, <1>5, <1>6, <1>7, <1>8 DEF Next, Take

\* The initial states have the types.
LEMMA TypeInit == Init => TypeOK
<1> SUFFICES ASSUME Init PROVE TypeOK
  OBVIOUS
<1>1. titled \in BOOLEAN
  BY Zenon DEF Init
<1>2. allowed \subseteq Methods
  BY ClientAuthAssumption DEF Init, Methods, Password, PublicKey, Interactive
<1> QED
  BY <1>1, <1>2 DEF Init, TypeOK, Active, MaxTries

\* The state of susshi_client_auth_dispatch() has its types, for every
\* configuration and every context of Chef.
THEOREM TypeCorrect == Spec => []TypeOK
BY TypeInit, TypeStep, PTL DEF Spec

-----------------------------------------------------------------------------
(***************************************************************************)
(* Chef's policy.  What the process has recorded as succeeded was proved,  *)
(* and what it has recorded as required is what Chef asked for.            *)
(***************************************************************************)
Recorded ==
  /\ succeeded \subseteq proved
  /\ mode = "unknown" => required = {} /\ proved = {}
  /\ mode \in {"gateway", "bastion"} => required = MethodsRequired(policy)
  /\ mode = "chef-remote" => proved \subseteq {PublicKey}
  /\ titled => mode \in {"gateway", "bastion", "shell"}
  /\ phase = "handling" => mode # "unknown"
  /\ phase = "authenticated" => succeeded # {} /\ required \subseteq succeeded

\* Every step keeps the records right.
LEMMA RecordedStep == TypeOK /\ Recorded /\ [Next]_vars => Recorded'
<1> SUFFICES ASSUME TypeOK, Recorded, [Next]_vars PROVE Recorded'
  OBVIOUS
<1> USE DEF Recorded, loginVars, methodVars
<1>1. CASE Top \/ NothingToHandle \/ ClientGone \/ AwaitGrant \/ GrantTimesOut \/ GrantedEarly
  BY <1>1 DEF Top, GraceOver, AwaitMessage, StartOpenId, NothingToHandle, ClientGone,
              AwaitGrant, GrantTimesOut, GrantedEarly
<1>2. CASE LoginRefused \/ TakeChefRequest \/ TakeRequest
  BY <1>2 DEF LoginRefused, TakeChefRequest, TakeRequest
<1>3. ASSUME NEW c \in Contexts, TakeLogin(c) PROVE Recorded'
  <2>1. required' = MethodsRequired(policy')
    BY <1>3 DEF TakeLogin
  <2> QED
    BY <1>3, <2>1 DEF TakeLogin, MethodsRequired
<1>4. ASSUME NEW c \in Contexts, TakeShellLogin(c) PROVE Recorded'
  BY <1>4 DEF TakeShellLogin
<1>5. CASE Handle
  <2>1. UNCHANGED <<mode, titled, policy, required>> /\ phase = "handling"
    BY <1>5 DEF Handle, PasswordMethod, EmptyPassword, InteractivePrompt, InteractiveAnswer,
                SignedKey, KeyNotSigned, OtherMethod
  <2>2. MethodsRequired(policy)' = MethodsRequired(policy)
    BY <2>1 DEF MethodsRequired
  <2>3. \/ UNCHANGED <<succeeded, proved>> /\ phase' \in {"loop", "disconnected"}
        \/ \E m \in Methods :
             /\ succeeded' = succeeded \cup {m} /\ proved' = proved \cup {m}
             /\ phase' = "authenticated" => required \subseteq succeeded'
             /\ phase' # "handling"
             /\ mode = "chef-remote" => m = PublicKey
    BY <1>5 DEF Handle, PasswordMethod, EmptyPassword, InteractivePrompt, InteractiveAnswer,
                SignedKey, KeyNotSigned, OtherMethod, PasswordRight, TooManyFailures,
                PasswordWrong, Succeeds, Satisfied, GoOn, Methods
  <2> QED
    BY <2>1, <2>2, <2>3
<1>6. CASE Granted
  BY <1>6 DEF Granted, Satisfied
<1>7. CASE Tick
  BY <1>7 DEF Tick
<1>8. CASE UNCHANGED vars
  BY <1>8 DEF vars
<1> QED
  BY <1>1, <1>2, <1>3, <1>4, <1>5, <1>6, <1>7, <1>8 DEF Next, Take

\* Whatever Chef requires and however the client proceeds, an authenticated
\* client has proved all of it: process_method_response() with all its callers.
THEOREM Policy == Spec => []ChefPolicyMet
<1>1. Init => Recorded
  BY DEF Init, Recorded
<1>2. Recorded => ChefPolicyMet
  BY DEF Recorded, ChefPolicyMet
<1> QED
  BY <1>1, <1>2, RecordedStep, TypeCorrect, PTL DEF Spec

-----------------------------------------------------------------------------
(***************************************************************************)
(* Methods on offer.                                                       *)
(***************************************************************************)

\* At the top of the loop some method is left, once Chef has answered.
SomethingLeft ==
  titled => /\ mode \notin {"unknown", "chef-remote"}
            /\ phase = "loop" => allowed # {}
            /\ phase = "wait" => allowed \notin {{}, {OpenId}}

\* Every step leaves a method before the process waits again.
LEMMA SomethingLeftStep == TypeOK /\ SomethingLeft /\ [Next]_vars => SomethingLeft'
<1> SUFFICES ASSUME TypeOK, SomethingLeft, [Next]_vars PROVE SomethingLeft'
  OBVIOUS
<1> USE DEF SomethingLeft, loginVars, methodVars
<1>1. CASE Top \/ NothingToHandle \/ ClientGone \/ AwaitGrant \/ GrantTimesOut \/ GrantedEarly
  BY <1>1 DEF Top, GraceOver, AwaitMessage, StartOpenId, NothingToHandle, ClientGone,
              AwaitGrant, GrantTimesOut, GrantedEarly
<1>2. CASE Take
  BY <1>2 DEF Take, LoginRefused, TakeChefRequest, TakeRequest, TakeLogin, TakeShellLogin
<1>3. CASE Handle
  <2>1. /\ UNCHANGED <<mode, titled>>
        /\ \/ GoOn
           \/ phase' \in {"authenticated", "disconnected"}
    BY <1>3 DEF Handle, PasswordMethod, EmptyPassword, InteractivePrompt, InteractiveAnswer,
                SignedKey, KeyNotSigned, OtherMethod, PasswordRight, TooManyFailures,
                PasswordWrong, Succeeds
  <2> QED
    BY <2>1 DEF GoOn
<1>4. CASE Granted
  BY <1>4 DEF Granted
<1>5. CASE Tick
  BY <1>5 DEF Tick
<1>6. CASE UNCHANGED vars
  BY <1>6 DEF vars
<1> QED
  BY <1>1, <1>2, <1>3, <1>4, <1>5, <1>6 DEF Next

\* The dispatch loop never waits for a client it has left no method for.
THEOREM NoVainWait == Spec => []NeverWaitsInVain
<1>1. Init => SomethingLeft
  BY DEF Init, SomethingLeft
<1>2. SomethingLeft => NeverWaitsInVain
  BY DEF SomethingLeft, NeverWaitsInVain
<1> QED
  BY <1>1, <1>2, SomethingLeftStep, TypeCorrect, PTL DEF Spec

\* What one step may withdraw: the conjunct of RequiredStaysOnOffer.
KeepsOffer ==
  titled => \A m \in required \cap allowed :
              \/ m \in allowed' \cup succeeded'
              \/ m = Interactive /\ wrong' = MaxTries
              \/ phase' = "disconnected"

\* No step withdraws a required method, but for the reasons given.
LEMMA KeepsOfferStep == TypeOK /\ Recorded /\ [Next]_vars => KeepsOffer
<1> SUFFICES ASSUME TypeOK, Recorded, [Next]_vars PROVE KeepsOffer
  OBVIOUS
<1> USE DEF KeepsOffer, loginVars, methodVars
<1>1. CASE Top \/ NothingToHandle \/ ClientGone \/ AwaitGrant \/ GrantTimesOut \/ GrantedEarly
           \/ Granted \/ Tick
  BY <1>1 DEF Top, GraceOver, AwaitMessage, StartOpenId, NothingToHandle, ClientGone,
              AwaitGrant, GrantTimesOut, GrantedEarly, Granted, Tick
<1>2. CASE Take
  BY <1>2 DEF Take, LoginRefused, TakeChefRequest, TakeRequest, TakeLogin, TakeShellLogin,
              Recorded
<1>3. CASE Handle
  <2>1. Password \notin required
    BY DEF TypeOK
  <2>2. CASE PasswordRight
    BY <2>1, <2>2 DEF PasswordRight, Succeeds
  <2>3. CASE PasswordWrong
    BY <2>1, <2>3 DEF PasswordWrong, TypeOK, MaxTries
  <2>4. CASE TooManyFailures
    BY <2>4 DEF TooManyFailures
  <2>5. CASE EmptyPassword \/ InteractivePrompt \/ KeyNotSigned \/ OtherMethod \/ SignedKey
    BY <2>1, <2>5 DEF EmptyPassword, InteractivePrompt, KeyNotSigned, OtherMethod, SignedKey,
                      Succeeds
  <2>6. CASE phase' = "disconnected"
    BY <2>6
  <2> QED
    BY <1>3, <2>2, <2>3, <2>4, <2>5, <2>6 DEF Handle, PasswordMethod, InteractiveAnswer
<1>4. CASE UNCHANGED vars
  BY <1>4 DEF vars
<1> QED
  BY <1>1, <1>2, <1>3, <1>4 DEF Next

\* The handlers withdraw a required method only once it succeeded, after three
\* wrong passwords, or when Chef ends the session.
THEOREM OnOffer == Spec => RequiredStaysOnOffer
<1>1. Init => Recorded
  BY DEF Init, Recorded
<1>2. TypeOK /\ Recorded /\ [Next]_vars => [KeepsOffer]_vars
  BY KeepsOfferStep
<1>3. RequiredStaysOnOffer <=> [][KeepsOffer]_vars
  BY PTL DEF RequiredStaysOnOffer, KeepsOffer
<1> QED
  BY <1>1, <1>2, <1>3, RecordedStep, TypeCorrect, PTL DEF Spec

-----------------------------------------------------------------------------
(***************************************************************************)
(* Time.  Every wait begins at a known time and has a known length.        *)
(***************************************************************************)
Timely ==
  /\ phase \in {"wait", "oidcStart"} => since <= Grace /\ now <= since + patience
  /\ phase = "handling" => takenAt <= Grace + Longest
  /\ phase = "oidcWait" => since <= Grace + Longest /\ now <= since + Grace
  /\ LateBound

\* Every step keeps within the times.
LEMMA TimelyStep == TypeOK /\ Timely /\ [Next]_vars => Timely'
<1> SUFFICES ASSUME TypeOK, Timely, [Next]_vars PROVE Timely'
  OBVIOUS
<1> USE ClientAuthAssumption DEF TypeOK, Timely, LateBound, Longest, loginVars, methodVars
<1>1. CASE Top \/ NothingToHandle \/ ClientGone \/ AwaitGrant \/ GrantTimesOut \/ GrantedEarly
  BY <1>1 DEF Top, GraceOver, AwaitMessage, StartOpenId, NothingToHandle, ClientGone,
              AwaitGrant, GrantTimesOut, GrantedEarly
<1>2. CASE Take
  BY <1>2 DEF Take, LoginRefused, TakeChefRequest, TakeRequest, TakeLogin, TakeShellLogin
<1>3. CASE Handle
  <2>1. /\ phase = "handling" /\ UNCHANGED takenAt
        /\ phase' \in {"loop", "authenticated", "disconnected"}
    BY <1>3 DEF Handle, PasswordMethod, EmptyPassword, InteractivePrompt, InteractiveAnswer,
                SignedKey, KeyNotSigned, OtherMethod, PasswordRight, TooManyFailures,
                PasswordWrong, Succeeds, GoOn
  <2> QED
    BY <2>1
<1>4. CASE Granted
  BY <1>4 DEF Granted
<1>5. CASE Tick
  BY <1>5 DEF Tick
<1>6. CASE UNCHANGED vars
  BY <1>6 DEF vars
<1> QED
  BY <1>1, <1>2, <1>3, <1>4, <1>5, <1>6 DEF Next

\* The true deadline of the authentication, for all timeouts: the login grace
\* time, one timeout of libssh, and for OpenID Connect a second grace time.
THEOREM InTime == Spec => []LateBound
<1>1. Init => Timely
  BY DEF Init, Timely, LateBound
<1>2. Timely => LateBound
  BY DEF Timely
<1> QED
  BY <1>1, <1>2, TimelyStep, TypeCorrect, PTL DEF Spec
=============================================================================
