-------------------------- MODULE TargetLoginProofs --------------------------
(***************************************************************************)
(* Proofs about TargetLogin and TargetAuth for every list of preferences,  *)
(* every number of addresses and every patience of target and client.      *)
(***************************************************************************)
EXTENDS TargetLogin, FiniteSetTheorems, WellFoundedInduction, TLAPS

USE DEF stored, talk, methods, auth, login, End, Goto

\* A set of positions has a first one.
LEMMA LeastPosition ==
  ASSUME NEW S, S \subseteq Nat, S # {}
  PROVE  \E i \in S : \A j \in S : i <= j
<1>1. PICK i \in S : \A j \in S : ~(<<j, i>> \in OpToRel(<, Nat))
  BY NatLessThanWellFounded, WFMin
<1>2. \A j \in S : ~(j < i)
  BY <1>1 DEF OpToRel
<1> QED
  BY <1>2

-----------------------------------------------------------------------------
(***************************************************************************)
(* The methods that are left, and where the login stands.                  *)
(***************************************************************************)
MethodsOK ==
  /\ preferred \in Seq(Methods) /\ enabled \subseteq Methods
  /\ history \in [sent : Nat, pollError : BOOLEAN]

\* Before the login at the target, which is never gone back to.
Before == {"login", "resolve", "proxy", "proxyKey", "proxyNone", "proxyProbe", "proxySigned",
           "clientAuth", "connect", "hostkey", "promptFinish", "promptWait", "promptAnswer",
           "authNone"}

\* The method that the loop takes is one.
LEMMA SelectedMethod ==
  ASSUME MethodsOK
  PROVE  Selected \in Methods \cup {"none"}
<1>1. CASE active # "none" /\ Usable(active)
  BY <1>1 DEF Selected, Usable, MethodsOK
<1>2. CASE ~(active # "none" /\ Usable(active)) /\ \E i \in DOMAIN preferred : Usable(preferred[i])
  <2> DEFINE S == {i \in DOMAIN preferred : Usable(preferred[i])}
             First(i) == Usable(preferred[i]) /\ \A j \in 1..(i - 1) : ~Usable(preferred[j])
  <2>1. DOMAIN preferred = 1..Len(preferred) /\ Len(preferred) \in Nat
    BY DEF MethodsOK
  <2>2. S \subseteq Nat /\ S # {}
    BY <1>2, <2>1
  <2>3. PICK i \in S : \A j \in S : i <= j
    BY <2>2, LeastPosition
  <2>4. i \in DOMAIN preferred /\ First(i)
    BY <2>1, <2>3
  <2>5. (CHOOSE k \in DOMAIN preferred : First(k)) \in DOMAIN preferred
    BY <2>4
  <2>6. Selected = preferred[CHOOSE k \in DOMAIN preferred : First(k)]
    BY <1>2 DEF Selected
  <2> QED
    BY <2>5, <2>6 DEF MethodsOK
<1>3. CASE ~(active # "none" /\ Usable(active)) /\ ~\E i \in DOMAIN preferred : Usable(preferred[i])
  BY <1>3 DEF Selected
<1> QED
  BY <1>1, <1>2, <1>3

\* The steps before the login at the target.
BeforeStep ==
  \/ store_splitted_loginstring_into_session
  \/ store_target_address_into_session \/ resolve_proxy_ips
  \/ susshi_proxy_connect_phase1 \/ susshi_proxy_verify_hostkey
  \/ susshi_proxy_auth_phase1 \/ susshi_proxy_auth_pubkey_phase1
  \/ susshi_proxy_connect_phase2 \/ ProxyTimeout
  \/ ClientAuthenticated \/ ConnectDirectly \/ ConnectThroughProxy
  \/ susshi_target_verify_hostkey \/ susshi_target_verify_bastion_hostkey
  \/ HostkeyPromptFinish \/ HostkeyPromptWait
  \/ HostkeyPromptAnswer \/ HostkeyPromptGone

\* Every step is one of these.
LEMMA StepCases == Next <=> BeforeStep \/ BeginAuth \/ (TargetAuth /\ UNCHANGED login)
BY DEF Next, BeforeStep

\* Sequences of bounded length are sequences.
LEMMA BoundedSequence ==
  ASSUME NEW S, NEW n \in Nat, NEW s \in SeqOf(S, n)
  PROVE  /\ Len(s) \in Nat /\ DOMAIN s = 1..Len(s)
         /\ \A i \in 1..Len(s) : s[i] \in S
<1>1. PICK m \in 0..n : s \in [1..m -> S]
  BY DEF SeqOf
<1>2. s \in Seq(S) /\ Len(s) = m
  BY <1>1
<1> QED
  BY <1>2

\* A nonempty interval from one holds its end.
LEMMA LastOfInterval == \A n \in Nat : n # 0 => n \in 1..n
OBVIOUS

\* What a resolver's answer comes to.
LEMMA ResolvedResult ==
  ASSUME NEW dns \in SeqOf(Families \cup {"wrong family", "denied"}, MaxDns)
  PROVE  Resolved(dns).rc \in {"OK", "failed", "wrong family", "denied"}
<1> DEFINE S == Families \cup {"wrong family", "denied"}
           full == Cardinality(Fit(dns)) >= MaxIps
<1>1. /\ Len(dns) \in Nat /\ DOMAIN dns = 1..Len(dns)
      /\ \A i \in 1..Len(dns) : dns[i] \in S
  BY BoundedSequence, LoginAssumption
<1>2. Resolved(dns).rc = IF full \/ Len(dns) \in Fit(dns) THEN "OK"
                         ELSE IF Len(dns) = 0 THEN "failed" ELSE dns[Len(dns)]
  BY DEF Resolved
<1>3. CASE full \/ Len(dns) \in Fit(dns) \/ Len(dns) = 0
  BY <1>2, <1>3
<1>4. CASE ~full /\ Len(dns) \notin Fit(dns) /\ Len(dns) # 0
  <2> HIDE DEF S, full
  <2>1. Len(dns) \in DOMAIN dns /\ dns[Len(dns)] \in S
    BY <1>1, <1>4, LastOfInterval
  <2>2. dns[Len(dns)] \in {"wrong family", "denied"}
    BY <1>4, <2>1 DEF Fit, S
  <2>3. Resolved(dns).rc = dns[Len(dns)]
    BY <1>2, <1>4
  <2> QED
    BY <2>2, <2>3
<1> QED
  BY <1>3, <1>4

\* The steps before the login at the target leave its results alone.
LEMMA BeforeKeeps ==
  ASSUME BeforeStep
  PROVE  /\ UNCHANGED <<target, rc, history, preferred, enabled, active>>
         /\ pc \in Before
         /\ exit' \in {"none", exit} \/ exit' # "success"
<1>1. UNCHANGED <<target, rc, history, preferred, enabled, active>> /\ pc \in Before
  BY DEF BeforeStep, store_splitted_loginstring_into_session,
         store_target_address_into_session, resolve_proxy_ips, susshi_proxy_connect_phase1,
         susshi_proxy_verify_hostkey, susshi_proxy_auth_phase1,
         susshi_proxy_auth_pubkey_phase1, susshi_proxy_connect_phase2, ProxyTimeout,
         ClientAuthenticated, ConnectDirectly, ConnectThroughProxy,
         susshi_target_verify_hostkey, susshi_target_verify_bastion_hostkey,
         HostkeyPromptFinish, HostkeyPromptWait, HostkeyPromptAnswer, HostkeyPromptGone, Before
<1>2. CASE store_target_address_into_session
  BY <1>1, <1>2, ResolvedResult DEF store_target_address_into_session
<1>3. CASE ~store_target_address_into_session
  BY <1>1, <1>3 DEF BeforeStep, store_splitted_loginstring_into_session,
                    store_target_address_into_session, resolve_proxy_ips,
                    susshi_proxy_connect_phase1, susshi_proxy_verify_hostkey,
                    susshi_proxy_auth_phase1, susshi_proxy_auth_pubkey_phase1,
                    susshi_proxy_connect_phase2, ProxyTimeout, ClientAuthenticated,
                    ConnectDirectly, ConnectThroughProxy, susshi_target_verify_hostkey,
                    susshi_target_verify_bastion_hostkey, HostkeyPromptFinish,
                    HostkeyPromptWait, HostkeyPromptAnswer, HostkeyPromptGone,
                    susshi_proxy_debug_message_callback
<1> QED
  BY <1>1, <1>2, <1>3

-----------------------------------------------------------------------------
(***************************************************************************)
(* A login that succeeds was granted.                                      *)
(***************************************************************************)

\* What the methods return and what the login ends with are of one mind.
GrantInv ==
  /\ rc = "SUCCESS" => target.granted \/ history.pollError
  /\ exit = "success" => target.granted \/ history.pollError

Granted == MethodsOK /\ GrantInv

\* The initial states satisfy it.
LEMMA GrantedInit == Init => Granted
BY AuthAssumption DEF Init, Granted, MethodsOK, GrantInv

\* Every step keeps the methods.
LEMMA MethodsStep == MethodsOK /\ [Next]_vars => MethodsOK'
<1> SUFFICES ASSUME MethodsOK, [Next]_vars PROVE MethodsOK'
  OBVIOUS
<1>1. CASE BeforeStep
  BY <1>1, BeforeKeeps DEF MethodsOK
<1>2. CASE BeginAuth
  BY <1>2 DEF BeginAuth, AuthNone, MethodsOK
<1>3. CASE TargetAuth
  <2>1. UNCHANGED preferred /\ enabled' \subseteq enabled
    BY <1>3 DEF TargetAuth, Dispatch, Returned,
                susshi_target_auth_load_chef_context_identities, susshi_target_auth_pubkey,
                susshi_target_auth_pubkey_pre_sshagent, KbInit, KbEmptyInfo, KbStoredPassword,
                KbNoPassword, KbDialog, KbStart, KbWait, KbAnswer, PasswordStored,
                PasswordMissing, PasswordDialog, FirstPassword, NextPassword, TryPassword,
                PasswordDone, AllDisabled, susshi_target_auth_continue_or_abort_interactive
  <2>2. \/ UNCHANGED history
        \/ history' = [history EXCEPT !.pollError = TRUE]
        \/ history' = [history EXCEPT !.sent = @ + 1]
    BY <1>3 DEF TargetAuth, Dispatch, Returned,
                susshi_target_auth_load_chef_context_identities, susshi_target_auth_pubkey,
                susshi_target_auth_pubkey_pre_sshagent, KbInit, KbEmptyInfo, KbStoredPassword,
                KbNoPassword, KbDialog, KbStart, KbWait, KbAnswer, PasswordStored,
                PasswordMissing, PasswordDialog, FirstPassword, NextPassword, SendStored
  <2>3. history' \in [sent : Nat, pollError : BOOLEAN]
    <3>1. CASE UNCHANGED history
      BY <3>1 DEF MethodsOK
    <3>2. CASE history' = [history EXCEPT !.pollError = TRUE]
      BY <3>2 DEF MethodsOK
    <3>3. CASE history' = [history EXCEPT !.sent = @ + 1]
      BY <3>3 DEF MethodsOK
    <3> QED
      BY <2>2, <3>1, <3>2, <3>3
  <2> QED
    BY <2>1, <2>3 DEF MethodsOK
<1>4. CASE UNCHANGED vars
  BY <1>4 DEF vars, MethodsOK
<1> QED
  BY <1>1, <1>2, <1>3, <1>4, StepCases

\* What the target grants stays granted, and a success of a method is its word.
LEMMA TargetGrants ==
  ASSUME GrantInv, NEW answer, TargetSays(answer)
  PROVE  /\ target.granted => target'.granted
         /\ rc' = "SUCCESS" => target'.granted
<1>1. target'.granted = (target.granted \/ answer = "SUCCESS") /\ rc' = answer
  BY DEF TargetSays
<1> QED
  BY <1>1

\* Every step keeps results and grants together.
LEMMA GrantStep == Granted /\ [Next]_vars => GrantInv'
<1> SUFFICES ASSUME Granted, [Next]_vars PROVE GrantInv'
  OBVIOUS
<1> USE DEF Granted
<1>1. CASE BeforeStep
  BY <1>1, BeforeKeeps DEF GrantInv
<1>2. CASE BeginAuth
  <2>1. PICK answer \in {"SUCCESS", "DENIED", "ERROR"} :
          /\ TargetSays(answer)
          /\ CASE answer = "SUCCESS" -> End("success")
               [] answer = "ERROR" -> End("auth failed")
               [] answer = "DENIED" -> Goto("dispatch")
    BY <1>2 DEF BeginAuth, AuthNone
  <2>2. rc' = answer /\ UNCHANGED history
    BY <1>2, <2>1 DEF BeginAuth, AuthNone, TargetSays
  <2>3. exit' = "success" => exit = "success" \/ rc' = "SUCCESS"
    BY <2>1, <2>2
  <2> QED
    BY <2>1, <2>2, <2>3, TargetGrants DEF GrantInv
<1>3. CASE TargetAuth
  <2>1. (target.granted => target'.granted) /\ (history.pollError => history'.pollError)
    BY <1>3, TargetGrants DEF TargetAuth, Dispatch, Returned,
                              susshi_target_auth_load_chef_context_identities,
                              susshi_target_auth_pubkey,
                              susshi_target_auth_pubkey_pre_sshagent, KbInit, KbEmptyInfo,
                              KbStoredPassword, KbNoPassword, KbDialog, KbStart, KbWait,
                              KbAnswer, PasswordStored, PasswordMissing, PasswordDialog,
                              FirstPassword, NextPassword, SendStored, TryPassword, MethodsOK
  <2>2. rc' = "SUCCESS" => target'.granted \/ history'.pollError
    BY <1>3, <2>1, TargetGrants DEF TargetAuth, Dispatch, Returned,
                                    susshi_target_auth_load_chef_context_identities,
                                    susshi_target_auth_pubkey,
                                    susshi_target_auth_pubkey_pre_sshagent, KbInit,
                                    KbEmptyInfo, KbStoredPassword, KbNoPassword, KbDialog,
                                    KbStart, KbWait, KbAnswer, PasswordStored,
                                    PasswordMissing, PasswordDialog, FirstPassword,
                                    NextPassword, SendStored, TryPassword, MethodsOK, GrantInv
  <2>3. exit' = "success" => exit = "success" \/ rc = "SUCCESS"
    BY <1>3 DEF TargetAuth, Dispatch, Returned,
                susshi_target_auth_load_chef_context_identities, susshi_target_auth_pubkey,
                susshi_target_auth_pubkey_pre_sshagent, KbInit, KbEmptyInfo, KbStoredPassword,
                KbNoPassword, KbDialog, KbStart, KbWait, KbAnswer, PasswordStored,
                PasswordMissing, PasswordDialog, FirstPassword, NextPassword, TryPassword,
                KbGoto
  <2> QED
    BY <2>1, <2>2, <2>3 DEF GrantInv
<1>4. CASE UNCHANGED vars
  BY <1>4 DEF vars, GrantInv
<1> QED
  BY <1>1, <1>2, <1>3, <1>4, StepCases

\* A login succeeds only if the target granted it, or if poll() failed in the
\* wait for the client's agent (susshi_target_auth() and its methods).
THEOREM LoginGranted == Spec => []GrantedByTarget
<1>1. Granted => GrantedByTarget
  BY DEF Granted, GrantInv, GrantedByTarget
<1> QED
  BY <1>1, GrantedInit, MethodsStep, GrantStep, PTL DEF Spec, Granted

-----------------------------------------------------------------------------
(***************************************************************************)
(* A stored password is sent once.                                         *)
(***************************************************************************)

\* As long as there is a password in memory, or may be one, none was sent.
SentInv ==
  /\ history.sent <= 1
  /\ pc \in Before \/ userpw # "none" => history.sent = 0

\* The login at the target does not go back to what was before.
LEMMA AuthStays ==
  ASSUME MethodsOK, TargetAuth
  PROVE  pc' \notin Before
<1>1. CASE Dispatch
  <2>1. Selected \in Methods \cup {"none"}
    BY SelectedMethod
  <2> QED
    BY <1>1, <2>1 DEF Dispatch, Methods, Before
<1>2. CASE ~Dispatch
  BY <1>2 DEF TargetAuth, Dispatch, Returned, susshi_target_auth_load_chef_context_identities,
              susshi_target_auth_pubkey, susshi_target_auth_pubkey_pre_sshagent, KbInit,
              KbEmptyInfo, KbStoredPassword, KbNoPassword, KbDialog, KbStart, KbWait,
              KbAnswer, PasswordStored, PasswordMissing, PasswordDialog, FirstPassword,
              NextPassword, TryPassword, KbGoto, KbAfter, Before
<1> QED
  BY <1>1, <1>2

\* Every step keeps the invariant.
LEMMA SentStep == MethodsOK /\ SentInv /\ [Next]_vars => SentInv'
<1> SUFFICES ASSUME MethodsOK, SentInv, [Next]_vars PROVE SentInv'
  OBVIOUS
<1>1. CASE BeforeStep
  <2>1. UNCHANGED history /\ pc \in Before
    BY <1>1, BeforeKeeps
  <2> QED
    BY <2>1 DEF SentInv, MethodsOK
<1>2. CASE BeginAuth
  <2>1. UNCHANGED history /\ pc \in Before
    BY <1>2 DEF BeginAuth, AuthNone, Before
  <2> QED
    BY <2>1 DEF SentInv, MethodsOK
<1>3. CASE TargetAuth
  <2>1. pc' \notin Before
    BY <1>3, AuthStays
  <2>2. CASE KbStoredPassword \/ PasswordStored
    <3>1. userpw # "none" /\ userpw' = "none" /\ history' = [history EXCEPT !.sent = @ + 1]
      BY <2>2 DEF KbStoredPassword, PasswordStored, SendStored, HasPassword, WipePassword,
                  PasswordDone
    <3>2. history.sent = 0 /\ history'.sent = history.sent + 1
      BY <3>1 DEF SentInv, MethodsOK
    <3> QED
      BY <2>1, <3>1, <3>2 DEF SentInv
  <2>3. CASE ~(KbStoredPassword \/ PasswordStored)
    <3>1. userpw' \in {userpw, "none"}
      BY <1>3, <2>3 DEF TargetAuth, Dispatch, Returned,
                        susshi_target_auth_load_chef_context_identities,
                        susshi_target_auth_pubkey, susshi_target_auth_pubkey_pre_sshagent,
                        KbInit, KbEmptyInfo, KbStoredPassword, KbNoPassword, KbDialog,
                        KbStart, KbWait, KbAnswer, PasswordStored, PasswordMissing,
                        PasswordDialog, FirstPassword, NextPassword, TryPassword,
                        WipePassword, PasswordDone
    <3>2. history'.sent = history.sent
      <4>1. history' = history \/ history' = [history EXCEPT !.pollError = TRUE]
        BY <1>3, <2>3 DEF TargetAuth, Dispatch, Returned,
                          susshi_target_auth_load_chef_context_identities,
                          susshi_target_auth_pubkey, susshi_target_auth_pubkey_pre_sshagent,
                          KbInit, KbEmptyInfo, KbStoredPassword, KbNoPassword, KbDialog,
                          KbStart, KbWait, KbAnswer, PasswordStored, PasswordMissing,
                          PasswordDialog, FirstPassword, NextPassword
      <4> QED
        BY <4>1 DEF MethodsOK
    <3> QED
      BY <2>1, <3>1, <3>2 DEF SentInv
  <2> QED
    BY <2>2, <2>3
<1>4. CASE UNCHANGED vars
  BY <1>4 DEF vars, SentInv
<1> QED
  BY <1>1, <1>2, <1>3, <1>4, StepCases

\* A stored or extracted password is sent to the target once, whichever of
\* keyboard-interactive and password sends it, in whichever order they are
\* tried and however often the loop comes back to them.
THEOREM PasswordSentOnce == Spec => []StoredPasswordOnce
<1>1. Init => MethodsOK /\ SentInv
  BY GrantedInit DEF Granted, Init, SentInv
<1>2. SentInv => StoredPasswordOnce
  BY DEF SentInv, StoredPasswordOnce
<1> QED
  BY <1>1, <1>2, MethodsStep, SentStep, PTL DEF Spec

-----------------------------------------------------------------------------
(***************************************************************************)
(* The login begins only at a target whose host key is trusted.            *)
(***************************************************************************)

\* The addresses are numbered.
Addresses ==
  \E n \in Nat : \E family : ips \in [1..n -> [family : family, used : BOOLEAN]]

Used == {i \in DOMAIN ips : ips[i].used}

\* Before an address is tried, nothing is known.
KnowsNothing ==
  pc \in {"login", "resolve", "proxy", "proxyKey", "proxyNone", "proxyProbe", "proxySigned",
          "clientAuth"} =>
    learning = "none" /\ entry = "none" /\ uploaded = "none"

\* Between two addresses, the mode is the one of an address already tried.
AtConnect ==
  pc = "connect" =>
    /\ uploaded = "none"
    /\ proxy.use => learning = "none"
    /\ learning # "none" => Cardinality(Used) > 0

\* The mode is the entry's own, or one of an address tried before.
AtHostkey ==
  pc = "hostkey" =>
    /\ uploaded = "none" /\ entry \in Learning
    /\ entry # "none" => learning = entry
    /\ entry = "none" /\ learning # "none" => Cardinality(Used) > 1

\* The user is asked only about keys that Chef does not know.
AtPrompt ==
  pc \in {"promptFinish", "promptWait", "promptAnswer"} =>
    uploaded = "none" /\ key # "OK" /\ entry \in {"prompt", "none"}

HostInv == Addresses /\ KnowsNothing /\ AtConnect /\ AtHostkey /\ AtPrompt /\ HostkeyTrusted

\* The positions that were used are finitely many.
LEMMA UsedFinite ==
  ASSUME Addresses
  PROVE  IsFiniteSet(Used) /\ Cardinality(Used) \in Nat /\ DOMAIN ips \subseteq Nat
<1>1. PICK n \in Nat : DOMAIN ips = 1..n
  BY DEF Addresses
<1>2. IsFiniteSet(1..n)
  BY FS_Interval
<1>3. Used \in SUBSET (1..n)
  BY <1>1 DEF Used
<1>4. IsFiniteSet(Used)
  BY <1>2, <1>3, FS_Subset
<1>5. Cardinality(Used) \in Nat
  BY <1>4, FS_CardinalityType
<1>6. DOMAIN ips \subseteq Nat
  BY <1>1
<1> QED
  BY <1>4, <1>5, <1>6

\* The address that is tried next is one that was not tried.
LEMMA NextUnused ==
  ASSUME Addresses, Unused # {}
  PROVE  NextIp \in Unused
<1> DEFINE from == IF Preferred # {} THEN Preferred ELSE Unused
<1>1. from \subseteq Unused /\ from # {}
  BY DEF Preferred
<1>2. Unused \subseteq Nat
  BY UsedFinite DEF Unused
<1> HIDE DEF from
<1>3. \E i \in from : \A j \in from : i <= j
  BY <1>1, <1>2, LeastPosition
<1>4. (CHOOSE i \in from : \A j \in from : i <= j) \in from
  BY <1>3
<1>5. NextIp = CHOOSE i \in from : \A j \in from : i <= j
  BY DEF NextIp, from
<1> QED
  BY <1>1, <1>4, <1>5

\* One more address is used.
LEMMA MarkCounts ==
  ASSUME Addresses, Unused # {}, MarkUsed(NextIp)
  PROVE  Addresses' /\ Cardinality(Used') = Cardinality(Used) + 1
<1>1. NextIp \in DOMAIN ips /\ ~ips[NextIp].used
  BY NextUnused DEF Unused
<1>2. PICK n \in Nat : \E family : ips \in [1..n -> [family : family, used : BOOLEAN]]
  BY DEF Addresses
<1>3. PICK family : ips \in [1..n -> [family : family, used : BOOLEAN]]
  BY <1>2
<1> DEFINE k == NextIp
<1>4. k \in 1..n /\ ips' = [ips EXCEPT ![k].used = TRUE]
  BY <1>1, <1>3 DEF MarkUsed
<1>5. ~ips[k].used
  BY <1>1
<1> HIDE DEF k
<1>6. ips' \in [1..n -> [family : family, used : BOOLEAN]]
  BY <1>3, <1>4
<1>7. Used' = Used \cup {k} /\ k \notin Used
  BY <1>3, <1>4, <1>5, <1>6 DEF Used
<1>8. IsFiniteSet(Used) /\ Cardinality(Used) \in Nat
  BY UsedFinite
<1>9. Cardinality(Used') = Cardinality(Used) + 1
  BY <1>7, <1>8, FS_AddElement
<1> QED
  BY <1>6, <1>9 DEF Addresses

\* What is resolved is numbered, and unused.
LEMMA ResolvedAddresses ==
  ASSUME NEW S, NEW dns \in SeqOf(S, MaxDns), ips' = Resolved(dns).ips
  PROVE  Addresses'
<1>1. Len(dns) \in Nat /\ DOMAIN dns = 1..Len(dns)
  BY BoundedSequence, LoginAssumption
<1>2. IsFiniteSet(1..Len(dns)) /\ Fit(dns) \in SUBSET (1..Len(dns))
  BY <1>1, FS_Interval DEF Fit
<1>3. Cardinality(Fit(dns)) \in Nat
  BY <1>2, FS_Subset, FS_CardinalityType
<1> DEFINE n == IF Cardinality(Fit(dns)) >= MaxIps THEN MaxIps ELSE Cardinality(Fit(dns))
           family == {dns[Nth(i, Fit(dns))] : i \in 1..n}
<1>4. n \in Nat
  BY <1>3, LoginAssumption
<1>5. ips' = [i \in 1..n |-> [family |-> dns[Nth(i, Fit(dns))], used |-> FALSE]]
  BY DEF Resolved
<1> HIDE DEF n
<1>6. ips' \in [1..n -> [family : family, used : BOOLEAN]]
  BY <1>5
<1> QED
  BY <1>4, <1>6 DEF Addresses

\* The initial states satisfy the invariant.
LEMMA HostInit == Init => HostInv
<1> SUFFICES ASSUME Init PROVE HostInv
  OBVIOUS
<1>1. ips \in [1..0 -> [family : {}, used : BOOLEAN]]
  BY DEF Init
<1>2. Addresses
  BY <1>1 DEF Addresses
<1> QED
  BY <1>2 DEF Init, HostInv, KnowsNothing, AtConnect, AtHostkey, AtPrompt, HostkeyTrusted

\* Steps that learn nothing about the target.
LEMMA HostUnlearned ==
  ASSUME HostInv, Addresses',
         UNCHANGED <<entry, learning, uploaded>>,
         pc \in {"login", "resolve", "proxy", "proxyKey", "proxyNone", "proxyProbe",
                 "proxySigned", "clientAuth"},
         pc' \in {"done", "resolve", "proxy", "proxyKey", "proxyNone", "proxyProbe",
                  "proxySigned", "clientAuth", "connect"}
  PROVE  HostInv'
BY DEF HostInv, KnowsNothing, AtConnect, AtHostkey, AtPrompt, HostkeyTrusted

\* An address is tried directly.
LEMMA HostDirect == HostInv /\ ConnectDirectly => HostInv'
<1> SUFFICES ASSUME HostInv, ConnectDirectly PROVE HostInv'
  OBVIOUS
<1>0. /\ pc = "connect" /\ ~proxy.use /\ UNCHANGED <<proxy, uploaded>>
      /\ pc' \in {"done", "hostkey", "connect"}
      /\ uploaded = "none" /\ (learning # "none" => Cardinality(Used) > 0)
      /\ Addresses
  BY DEF ConnectDirectly, HostInv, AtConnect
<1>1. CASE Unused = {}
  BY <1>0, <1>1 DEF ConnectDirectly, HostInv, Addresses, KnowsNothing, AtConnect, AtHostkey,
                    AtPrompt, HostkeyTrusted
<1>2. CASE Unused # {}
  <2>1. Addresses' /\ Cardinality(Used') = Cardinality(Used) + 1 /\ Cardinality(Used) \in Nat
    BY <1>0, <1>2, MarkCounts, UsedFinite DEF ConnectDirectly
  <2>2. \/ \E e \in Entries : susshi_chef_session_context_for_target(e)
        \/ UNCHANGED learning /\ pc' = "connect"
    BY <1>0, <1>2 DEF ConnectDirectly
  <2>3. Cardinality(Used') > 0 /\ (Cardinality(Used) > 0 => Cardinality(Used') > 1)
    BY <2>1
  <2>4. CASE UNCHANGED learning /\ pc' = "connect"
    BY <1>0, <2>1, <2>3, <2>4 DEF HostInv, KnowsNothing, AtConnect, AtHostkey, AtPrompt,
                                  HostkeyTrusted
  <2>5. ASSUME NEW e \in Entries, susshi_chef_session_context_for_target(e) PROVE HostInv'
    <3>1. e.learning \in Learning
      BY DEF Entries
    <3>2. entry' \in Learning /\ learning' = IF entry' = "none" THEN learning ELSE entry'
      BY <2>5, <3>1 DEF susshi_chef_session_context_for_target
    <3> QED
      BY <1>0, <2>1, <2>3, <3>2 DEF HostInv, KnowsNothing, AtConnect, AtHostkey, AtPrompt,
                                    HostkeyTrusted
  <2> QED
    BY <2>2, <2>4, <2>5
<1> QED
  BY <1>1, <1>2

\* The target is connected to through the proxy.
LEMMA HostProxy == HostInv /\ ConnectThroughProxy => HostInv'
<1> SUFFICES ASSUME HostInv, ConnectThroughProxy PROVE HostInv'
  OBVIOUS
<1>1. /\ pc = "connect" /\ proxy.use /\ UNCHANGED <<proxy, uploaded, ips>>
      /\ pc' \in {"done", "hostkey", "connect"}
      /\ uploaded = "none" /\ learning = "none"
      /\ Addresses'
  BY DEF ConnectThroughProxy, HostInv, AtConnect, Addresses
<1>2. \/ \E e \in Entries : susshi_chef_session_context_for_target(e)
      \/ UNCHANGED learning /\ (pc' = "connect" \/ entry' = "none")
  BY <1>1 DEF ConnectThroughProxy
<1>3. CASE UNCHANGED learning /\ (pc' = "connect" \/ entry' = "none")
  BY <1>1, <1>3 DEF HostInv, KnowsNothing, AtConnect, AtHostkey, AtPrompt, HostkeyTrusted,
                    Learning
<1>4. ASSUME NEW e \in Entries, susshi_chef_session_context_for_target(e) PROVE HostInv'
  <2>1. e.learning \in Learning
    BY DEF Entries
  <2>2. entry' \in Learning /\ learning' = entry'
    BY <1>1, <1>4, <2>1 DEF susshi_chef_session_context_for_target
  <2>3. pc' # "connect"
    BY <1>1, <2>2 DEF ConnectThroughProxy, End, Goto, Learning
  <2> QED
    BY <1>1, <2>2, <2>3 DEF HostInv, KnowsNothing, AtConnect, AtHostkey, AtPrompt,
                            HostkeyTrusted
<1> QED
  BY <1>2, <1>3, <1>4

\* The key is verified, without the user.
LEMMA HostVerify ==
  HostInv /\ (susshi_target_verify_hostkey \/ susshi_target_verify_bastion_hostkey) => HostInv'
<1> SUFFICES ASSUME HostInv, susshi_target_verify_hostkey \/ susshi_target_verify_bastion_hostkey
             PROVE  HostInv'
  OBVIOUS
<1>1. /\ pc = "hostkey" /\ UNCHANGED <<ips, entry, learning>> /\ Used' = Used
      /\ Addresses' /\ AtHostkey /\ pc' \in {"done", "authNone", "promptFinish"}
  BY DEF susshi_target_verify_hostkey, susshi_target_verify_bastion_hostkey, HostInv,
         Addresses, Used, susshi_chef_verify_target_hostkey
<1>2. CASE susshi_target_verify_bastion_hostkey
  BY <1>1, <1>2 DEF susshi_target_verify_bastion_hostkey, HostInv, KnowsNothing, AtConnect,
                    AtHostkey, AtPrompt, HostkeyTrusted
<1>3. CASE susshi_target_verify_hostkey
  <2>1. CASE pc' = "done"
    BY <1>1, <2>1 DEF HostInv, KnowsNothing, AtConnect, AtHostkey, AtPrompt, HostkeyTrusted
  <2>2. CASE pc' # "done"
    <3> DEFINE said(known) == susshi_chef_verify_target_hostkey(known)
    <3>codes. \A known : said(known) \in {"OK", "CHANGED", "NEW"}
      BY DEF susshi_chef_verify_target_hostkey
    <3>step. PICK known \in SUBSET {"same", "other", "defective"} :
            /\ key' = said(known)
            /\ CASE said(known) = "OK" \/ ~Accepted(said(known)) -> uploaded' = "none"
                 [] Accepted(said(known)) /\ said(known) = "CHANGED" ->
                      susshi_chef_upload_target_hostkey("UPDATE")
                 [] Accepted(said(known)) /\ said(known) = "NEW" ->
                      susshi_chef_upload_target_hostkey("CREATE")
            /\ CASE Accepted(said(known)) -> Goto("authNone")
                 [] ~Accepted(said(known)) /\ learning = "prompt" -> Goto("promptFinish")
                 [] OTHER -> End("hostkey failed")
      BY <1>3, <2>2 DEF susshi_target_verify_hostkey
    <3> HIDE DEF said
    <3>1. PICK k \in {"OK", "CHANGED", "NEW"} :
            /\ key' = k
            /\ CASE k = "OK" \/ ~Accepted(k) -> uploaded' = "none"
                 [] Accepted(k) /\ k = "CHANGED" -> susshi_chef_upload_target_hostkey("UPDATE")
                 [] Accepted(k) /\ k = "NEW" -> susshi_chef_upload_target_hostkey("CREATE")
            /\ CASE Accepted(k) -> Goto("authNone")
                 [] ~Accepted(k) /\ learning = "prompt" -> Goto("promptFinish")
                 [] OTHER -> End("hostkey failed")
      BY <3>step, <3>codes
    <3>2. CASE Accepted(k)
      <4>1. /\ pc' = "authNone" /\ (k = "OK" <=> uploaded' = "none")
            /\ k # "OK" => learning # "none" /\ (k = "CHANGED" => learning = "update")
                                          /\ (k = "NEW" => learning \in {"update", "ifunknown"})
        <5>1. pc' = "authNone"
          BY <3>1, <3>2
        <5>2. CASE k = "OK"
          BY <3>1, <5>1, <5>2
        <5>3. CASE k = "CHANGED"
          <6>1. uploaded' \in {"UPDATE", "lost"}
            BY <3>1, <3>2, <5>3 DEF susshi_chef_upload_target_hostkey
          <6> QED
            BY <3>2, <5>1, <5>3, <6>1 DEF Accepted
        <5>4. CASE k = "NEW"
          <6>1. uploaded' \in {"CREATE", "lost"}
            BY <3>1, <3>2, <5>4 DEF susshi_chef_upload_target_hostkey
          <6> QED
            BY <3>2, <5>1, <5>4, <6>1 DEF Accepted
        <5> QED
          BY <5>2, <5>3, <5>4
      <4>2. HostkeyTrusted'
        BY <1>1, <3>1, <4>1 DEF AtHostkey, HostkeyTrusted, Used
      <4> QED
        BY <1>1, <4>1, <4>2 DEF HostInv, KnowsNothing, AtConnect, AtHostkey, AtPrompt
    <3>3. CASE ~Accepted(k)
      <4>1. pc' = "promptFinish" /\ learning = "prompt" /\ uploaded' = "none" /\ k # "OK"
        BY <2>2, <3>1, <3>3 DEF Accepted
      <4> QED
        BY <1>1, <3>1, <4>1 DEF HostInv, KnowsNothing, AtConnect, AtHostkey, AtPrompt,
                                HostkeyTrusted
    <3> QED
      BY <3>2, <3>3
  <2> QED
    BY <2>1, <2>2
<1> QED
  BY <1>2, <1>3

\* The user is asked.
LEMMA HostPrompt ==
  /\ HostInv
  /\ HostkeyPromptFinish \/ HostkeyPromptWait \/ HostkeyPromptAnswer \/ HostkeyPromptGone
  => HostInv'
<1> SUFFICES ASSUME HostInv, HostkeyPromptFinish \/ HostkeyPromptWait \/ HostkeyPromptAnswer
                             \/ HostkeyPromptGone
             PROVE  HostInv'
  OBVIOUS
<1>1. Addresses' /\ UNCHANGED <<entry, key>> /\ AtPrompt
  BY DEF HostkeyPromptFinish, HostkeyPromptWait, HostkeyPromptAnswer, HostkeyPromptGone,
         HostInv, Addresses
<1>2. CASE HostkeyPromptFinish \/ HostkeyPromptWait \/ HostkeyPromptGone
  BY <1>1, <1>2 DEF HostkeyPromptFinish, HostkeyPromptWait, HostkeyPromptGone, HostInv,
                    KnowsNothing, AtConnect, AtHostkey, AtPrompt, HostkeyTrusted
<1>3. CASE HostkeyPromptAnswer
  <2>1. \/ pc' = "authNone" /\ consent' = "yes" /\ uploaded' # "none"
        \/ pc' \in {"done", "promptAnswer"} /\ uploaded' = "none"
    BY <1>3 DEF HostkeyPromptAnswer, susshi_chef_upload_target_hostkey
  <2> QED
    BY <1>1, <1>3, <2>1 DEF HostkeyPromptAnswer, HostInv, KnowsNothing, AtConnect, AtHostkey,
                            AtPrompt, HostkeyTrusted
<1> QED
  BY <1>2, <1>3

\* Every step keeps the invariant.
LEMMA HostStep == MethodsOK /\ HostInv /\ [Next]_vars => HostInv'
<1> SUFFICES ASSUME MethodsOK, HostInv, [Next]_vars PROVE HostInv'
  OBVIOUS
<1>1. CASE store_target_address_into_session \/ resolve_proxy_ips
  <2>1. Addresses'
    BY <1>1, ResolvedAddresses DEF store_target_address_into_session, resolve_proxy_ips
  <2> QED
    BY <1>1, <2>1, HostUnlearned DEF store_target_address_into_session, resolve_proxy_ips
<1>2. CASE susshi_proxy_connect_phase1
  <2>1. Addresses'
    BY <1>2, MarkCounts DEF susshi_proxy_connect_phase1, HostInv, Addresses
  <2> QED
    BY <1>2, <2>1, HostUnlearned DEF susshi_proxy_connect_phase1
<1>3. CASE \/ store_splitted_loginstring_into_session \/ susshi_proxy_verify_hostkey
           \/ susshi_proxy_auth_phase1 \/ susshi_proxy_auth_pubkey_phase1
           \/ susshi_proxy_connect_phase2 \/ ProxyTimeout \/ ClientAuthenticated
  <2>1. Addresses'
    BY <1>3 DEF store_splitted_loginstring_into_session, susshi_proxy_verify_hostkey,
                susshi_proxy_auth_phase1, susshi_proxy_auth_pubkey_phase1,
                susshi_proxy_connect_phase2, ProxyTimeout, ClientAuthenticated, HostInv,
                Addresses
  <2> QED
    BY <1>3, <2>1, HostUnlearned DEF store_splitted_loginstring_into_session,
                                     susshi_proxy_verify_hostkey, susshi_proxy_auth_phase1,
                                     susshi_proxy_auth_pubkey_phase1,
                                     susshi_proxy_connect_phase2, ProxyTimeout,
                                     ClientAuthenticated, susshi_proxy_debug_message_callback
<1>4. CASE BeginAuth
  <2>1. pc' \in {"done", "dispatch"} /\ ips' = <<>>
    BY <1>4 DEF BeginAuth, AuthNone
  <2>2. ips' \in [1..0 -> [family : {}, used : BOOLEAN]]
    BY <2>1
  <2>3. Addresses'
    BY <2>2 DEF Addresses
  <2> QED
    BY <2>1, <2>3 DEF HostInv, KnowsNothing, AtConnect, AtHostkey, AtPrompt, HostkeyTrusted
<1>5. CASE TargetAuth /\ UNCHANGED login
  <2>1. pc' \notin Before
    BY <1>5, AuthStays
  <2> QED
    BY <1>5, <2>1 DEF Before, HostInv, Addresses, KnowsNothing, AtConnect, AtHostkey,
                      AtPrompt, HostkeyTrusted
<1>6. CASE UNCHANGED vars
  BY <1>6 DEF vars, HostInv, Addresses, Used, KnowsNothing, AtConnect, AtHostkey, AtPrompt,
              HostkeyTrusted
<1> QED
  BY <1>1, <1>2, <1>3, <1>4, <1>5, <1>6, HostDirect, HostProxy, HostVerify, HostPrompt,
       StepCases DEF BeforeStep

\* The login begins only at a target whose host key is trusted, and Chef is told
\* of exactly the keys it does not have (susshi_target_verify_hostkey(),
\* susshi_target_hostkey_prompt_user()), for any number of addresses.
THEOREM HostkeyVerified == Spec => []HostkeyTrusted
<1>1. Init => MethodsOK /\ HostInv
  BY GrantedInit, HostInit DEF Granted
<1>2. HostInv => HostkeyTrusted
  BY DEF HostInv
<1> QED
  BY <1>1, <1>2, MethodsStep, HostStep, PTL DEF Spec
=============================================================================
