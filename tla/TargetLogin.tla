------------------------------ MODULE TargetLogin ------------------------------
(***************************************************************************)
(* From the login string to the authenticated target: the target (or the   *)
(* target proxy) is resolved (session.c, connect-proxy.c), the proxy is    *)
(* logged in to in two phases (connect-proxy.c, auth-proxy.c), the         *)
(* addresses are tried in turn, each with the settings of its own entry in *)
(* Chef's answer, the host key of the one that answers is verified         *)
(* (connect-target.c, chef.c), and TargetAuth logs in.                     *)
(***************************************************************************)
EXTENDS TargetAuth, SequencesExt

CONSTANTS
  MaxIps,     \* SUSSHI_MAX_TARGET_IPS
  MaxDns      \* addresses in an answer of the resolver

ASSUME LoginAssumption == MaxIps \in Nat \ {0} /\ MaxDns \in Nat

Families == {"inet", "inet6"}

VARIABLES
  mode,       \* operation_mode: "gateway" or "bastion"
  proxy,      \* use_target_proxy, and target_proxy_phase
  ips,        \* target_ips (with a proxy: the proxy's) and which were used
  entry,      \* the mode in Chef's entry for the address that is tried, if
              \* it has one, or that there is no entry
  learning,   \* target_hostkey_learning
  key,        \* the target's host key, to Chef: OK, CHANGED, NEW or ERROR
  consent,    \* did the user accept the host key?
  uploaded    \* how Chef was told of the key: "none", "UPDATE", "CREATE" or,
              \* if it was not reached, "lost"

login == <<mode, proxy, ips, entry, learning, key, consent, uploaded>>
vars == <<pc, exit, auth, login>>

\* Chef's entries for an address.  A mode that is missing is "none".
Learning == {"none", "update", "ifunknown", "prompt"}
Entries == [learning : Learning, source : {"dialog", "stored"}, password : BOOLEAN, continue : BOOLEAN]

(***************************************************************************)
(* Addresses.  An answer of the resolver is a sequence of addresses, some  *)
(* of which are skipped: the gateway has no interface of their family, or  *)
(* they are denied.  The others are kept in order until the table is full. *)
(* What the last one looked at came to is what the function returns.       *)
(***************************************************************************)
Fit(dns) == {i \in DOMAIN dns : dns[i] \in Families}

\* The n-th smallest member of a set of positions.
Nth(n, S) == CHOOSE i \in S : Cardinality({j \in S : j <= i}) = n

Resolved(dns) ==
  LET fit == Fit(dns)
      full == Cardinality(fit) >= MaxIps
  IN  [ips |-> [n \in 1..(IF full THEN MaxIps ELSE Cardinality(fit)) |->
                  [family |-> dns[Nth(n, fit)], used |-> FALSE]],
       rc |-> IF full \/ Len(dns) \in fit THEN "OK"
              ELSE IF Len(dns) = 0 THEN "failed" ELSE dns[Len(dns)]]

\* The login string names a target, a target behind a proxy, or a bastion, or
\* is refused.
store_splitted_loginstring_into_session ==
  /\ pc = "login"
  /\ \/ /\ mode' \in {"gateway", "bastion"}
        /\ \E use \in BOOLEAN :
             proxy' = [proxy EXCEPT !.use = use \/ mode' = "bastion"]
        /\ Goto("resolve")
     \/ End("refused") /\ UNCHANGED <<mode, proxy>>
  /\ UNCHANGED <<auth, ips, entry, learning, key, consent, uploaded>>

store_target_address_into_session ==
  /\ pc = "resolve" /\ ~proxy.use
  /\ \E dns \in SeqOf(Families \cup {"wrong family", "denied"}, MaxDns) :
       LET found == Resolved(dns)
       IN  /\ ips' = found.ips
           /\ IF found.rc = "OK" THEN Goto("clientAuth") ELSE End(found.rc)
  /\ UNCHANGED <<auth, mode, proxy, entry, learning, key, consent,
                 uploaded>>

resolve_proxy_ips ==
  /\ pc = "resolve" /\ proxy.use
  /\ \E dns \in SeqOf(Families \cup {"wrong family"}, MaxDns) :
       LET found == Resolved(dns)
       IN  /\ ips' = found.ips
           /\ IF found.rc = "OK" THEN Goto("proxy") ELSE End("proxy failed")
  /\ UNCHANGED <<auth, mode, proxy, entry, learning, key, consent,
                 uploaded>>


\* The address is not tried again.
MarkUsed(i) == ips' = [ips EXCEPT ![i].used = TRUE]

\* susshi_select_next_target_ip(), select_next_proxy_ip(): the preferred family
\* (here inet6) first.
Unused == {i \in DOMAIN ips : ~ips[i].used}
Preferred == {i \in Unused : ips[i].family = "inet6"}
NextIp ==
  LET from == IF Preferred # {} THEN Preferred ELSE Unused
  IN  CHOOSE i \in from : \A j \in from : i <= j

(***************************************************************************)
(* The target proxy.                                                       *)
(***************************************************************************)

\* susshi_proxy_connect_phase1(): the proxy's addresses are tried until one can
\* be connected to.  What answers there must be a proxy of a fit version.
ProxyPhase(phase) == proxy' = [proxy EXCEPT !.phase = phase]

susshi_proxy_connect_phase1 ==
  /\ pc = "proxy"
  /\ IF Unused = {} THEN End("proxy failed") /\ UNCHANGED <<ips, proxy>>
     ELSE /\ MarkUsed(NextIp)
          /\ \/ UNCHANGED <<pc, exit>> /\ ProxyPhase("none")
             \/ Goto("proxyKey") /\ ProxyPhase("connected")
             \/ End("protocol error") /\ ProxyPhase("kex")
             \/ mode = "bastion" /\ End("no bastion") /\ ProxyPhase("kex")
  /\ UNCHANGED <<auth, mode, entry, learning, key, consent, uploaded>>

\* The proxy's host key must be one of the gateway's own.
susshi_proxy_verify_hostkey ==
  /\ pc = "proxyKey"
  /\ \/ Goto("proxyNone") \/ End("protocol error")
  /\ UNCHANGED <<auth, login>>

\* A message of the proxy comes with its answer: the addresses it resolved, or
\* an error, which ends the session.
susshi_proxy_debug_message_callback(errors, place) ==
  \E error \in errors \cup {"none"} :
    IF error = "none" THEN Goto(place) ELSE End(error)

\* susshi_proxy_auth_phase1(): no method yet.
susshi_proxy_auth_phase1 ==
  /\ pc = "proxyNone" /\ ProxyPhase("auth")
  /\ \/ susshi_proxy_debug_message_callback({"target unresolved", "protocol error"}, "proxyProbe")
     \/ End("proxy login failed")
  /\ UNCHANGED <<auth, mode, ips, entry, learning, key, consent, uploaded>>

\* The gateway's keys are probed for one the proxy accepts.
susshi_proxy_auth_pubkey_phase1 ==
  /\ pc = "proxyProbe"
  /\ \/ ProxyPhase("probed") /\ Goto("proxySigned")
     \/ UNCHANGED proxy /\ End("proxy login failed")
  /\ UNCHANGED <<auth, mode, ips, entry, learning, key, consent, uploaded>>

\* susshi_proxy_connect_phase2(): once Chef's answer is there the key is used,
\* whereupon the proxy connects to the target and names the address.
susshi_proxy_connect_phase2 ==
  /\ pc = "proxySigned" /\ proxy.phase = "probed"
  /\ \/ ProxyPhase("authenticated") /\ Goto("clientAuth")
     \/ ProxyPhase("auth") /\ \E why \in {"protocol error", "connect failed"} : End(why)
  /\ UNCHANGED <<auth, mode, ips, entry, learning, key, consent, uploaded>>

\* SIGALRM while the proxy is logged in to.
ProxyTimeout ==
  /\ pc \in {"proxy", "proxyKey", "proxyNone", "proxyProbe", "proxySigned"}
  /\ End("timeout") /\ UNCHANGED <<auth, login>>

\* The client is authenticated (ClientAuth): its last request is open if it was
\* an answer to a prompt, and its password may hold one for the target.
ClientAuthenticated ==
  /\ pc = "clientAuth"
  /\ message' \in {"none", "open"}
  /\ extracted' \in BOOLEAN /\ userpw' = IF extracted' THEN "user" ELSE "none"
  /\ \E left \in BOOLEAN : client' = [client EXCEPT !.dialog = left]
  /\ Goto("connect")
  /\ UNCHANGED <<target, finish, methods, source, continue, attempts, rc,
                 history, login>>

(***************************************************************************)
(* The addresses of the target.                                            *)
(***************************************************************************)

\* Chef's answer for the address is applied: of the learning mode and the
\* password only if it has them.
susshi_chef_session_context_for_target(e) ==
  /\ entry' = e.learning
  /\ source' = e.source /\ continue' = e.continue
  /\ learning' = IF e.learning = "none" THEN learning ELSE e.learning
  /\ userpw' = CASE e.password -> "own" [] ~e.password /\ userpw = "own" -> "stale"
                 [] OTHER -> userpw

\* Chef's answer must have an entry for the address or for the name; a bastion
\* needs none.
susshi_chef_session_check_context_contains_target(byIp, byName) ==
  mode = "bastion" \/ byIp \/ byName

\* susshi_target_login(): the next address, which Chef may not know, whose
\* entry may be broken, and which may not answer.
ConnectDirectly ==
  /\ pc = "connect" /\ ~proxy.use
  /\ IF Unused = {}
     THEN /\ End("connect failed")
          /\ UNCHANGED <<ips, entry, source, continue, learning, userpw>>
     ELSE /\ MarkUsed(NextIp)
          /\ \E byIp, byName \in BOOLEAN :
               IF susshi_chef_session_check_context_contains_target(byIp, byName)
               THEN /\ \E e \in Entries : susshi_chef_session_context_for_target(e)
                    /\ \/ End("internal error") \/ Goto("hostkey")
                       \/ UNCHANGED <<pc, exit>>
               ELSE /\ entry' = "missing"
                    /\ UNCHANGED <<pc, exit, source, continue, learning, userpw>>
  /\ UNCHANGED <<target, talk, methods, extracted, attempts, rc, history, mode,
                 proxy, key, consent, uploaded>>

\* The same through the proxy, which has one connection: no other address is
\* tried, and nothing may be left over in the proxy's session.
ConnectThroughProxy ==
  /\ pc = "connect" /\ proxy.use
  /\ \E byIp, byName \in BOOLEAN :
       IF susshi_chef_session_check_context_contains_target(byIp, byName)
       THEN /\ IF mode = "bastion"
               THEN entry' = "none" /\ UNCHANGED <<source, continue, learning, userpw>>
               ELSE \E e \in Entries : susshi_chef_session_context_for_target(e)
            /\ \/ \E why \in {"internal error", "leftover data", "connect failed"} : End(why)
               \/ Goto("hostkey")
       ELSE /\ entry' = "missing"
            /\ UNCHANGED <<pc, exit, source, continue, learning, userpw>>
  /\ UNCHANGED <<target, talk, methods, extracted, attempts, rc, history, mode,
                 proxy, ips, key, consent, uploaded>>

(***************************************************************************)
(* The host key.                                                           *)
(***************************************************************************)

\* Mutant: a key that was not known before and one that changed are alike.
AcceptedIfUnknown(k) ==
  \/ k = "OK"
  \/ k \in {"CHANGED", "NEW"} /\ learning \in {"update", "ifunknown"}

\* Without asking.
Accepted(k) ==
  \/ k = "OK"
  \/ k = "CHANGED" /\ learning = "update"
  \/ k = "NEW" /\ learning \in {"update", "ifunknown"}

\* What Chef's keys of the type say of the key: it is among them, only others
\* are, or none that can be read.
susshi_chef_verify_target_hostkey(known) ==
  CASE "same" \in known -> "OK"
    [] "same" \notin known /\ "other" \in known -> "CHANGED"
    [] OTHER -> "NEW"

\* The key goes to Chef, or does not get there; nobody looks at the result.
susshi_chef_upload_target_hostkey(method) == uploaded' \in {method, "lost"}

susshi_target_verify_hostkey ==
  /\ pc = "hostkey" /\ mode = "gateway"
  /\ \/ \E known \in SUBSET {"same", "other", "defective"} :
          LET k == susshi_chef_verify_target_hostkey(known)
          IN  /\ key' = k
              /\ CASE k = "OK" \/ ~Accepted(k) -> uploaded' = "none"
                   [] Accepted(k) /\ k = "CHANGED" ->
                        susshi_chef_upload_target_hostkey("UPDATE")
                   [] Accepted(k) /\ k = "NEW" ->
                        susshi_chef_upload_target_hostkey("CREATE")
              /\ CASE Accepted(k) -> Goto("authNone")
                   [] ~Accepted(k) /\ learning = "prompt" -> Goto("promptFinish")
                   [] OTHER -> End("hostkey failed")
     \/ key' = "ERROR" /\ End("hostkey failed") /\ UNCHANGED uploaded
  /\ UNCHANGED <<auth, mode, proxy, ips, entry, learning, consent>>

\* The bastion's host key must be one of the gateway's own.
susshi_target_verify_bastion_hostkey ==
  /\ pc = "hostkey" /\ mode = "bastion"
  /\ \/ key' = "OK" /\ Goto("authNone")
     \/ key' = "ERROR" /\ End("hostkey failed")
  /\ UNCHANGED <<auth, mode, proxy, ips, entry, learning, consent, uploaded>>

\* susshi_target_hostkey_prompt_user(): the client's own authentication ends in
\* part, and its next request is waited for.
HostkeyPromptFinish ==
  /\ pc = "promptFinish"
  /\ susshi_client_auth_enable_method
  /\ susshi_client_auth_finish /\ Goto("promptWait")
  /\ UNCHANGED <<target, message, methods, stored, attempts, rc, history, login>>

HostkeyPromptWait ==
  /\ pc = "promptWait"
  /\ \/ /\ ClientSays("useful") /\ message' = "answered" /\ Goto("promptAnswer")
     \/ /\ \E none \in {"timeout", "closed"} : ClientSays(none)
        /\ message' = "none" /\ End("hostkey failed")
  /\ UNCHANGED <<target, finish, methods, stored, attempts, rc, history, login>>

\* The answer; anything but yes and no is asked for again.
HostkeyPromptAnswer ==
  /\ pc = "promptAnswer"
  /\ \E answer \in {"yes", "no", "else"} :
       /\ ClientSays(IF answer = "else" THEN "useless" ELSE "useful")
       /\ consent' = answer
       /\ IF answer = "yes" THEN susshi_chef_upload_target_hostkey("CREATE")
          ELSE uploaded' = "none"
       /\ IF answer = "yes" THEN message' = "open" /\ Goto("authNone")
          ELSE IF answer = "else" THEN UNCHANGED <<message, pc, exit>>
          ELSE message' = "open" /\ End("hostkey failed")
  /\ UNCHANGED <<target, finish, methods, stored, attempts, rc, history, mode,
                 proxy, ips, entry, learning, key>>

\* There is none.
HostkeyPromptGone ==
  /\ pc = "promptAnswer"
  /\ \E none \in {"timeout", "closed"} : ClientSays(none)
  /\ message' = "none" /\ End("hostkey failed")
  /\ UNCHANGED <<target, finish, methods, stored, attempts, rc, history, login>>

\* Nothing looks at the addresses and the host key once the login at the target
\* begins: the model drops them there.
BeginAuth ==
  /\ AuthNone
  /\ mode' = "gateway" /\ proxy' = [use |-> FALSE, phase |-> "none"] /\ ips' = <<>>
  /\ entry' = "none" /\ learning' = "none" /\ key' = "none" /\ consent' = "none"
  /\ uploaded' = "none"

Init ==
  /\ pc = "login" /\ exit = "none"
  /\ mode = "gateway" /\ proxy = [use |-> FALSE, phase |-> "none"]
  /\ ips = <<>> /\ entry = "none" /\ learning = "none" /\ key = "none"
  /\ consent = "none" /\ uploaded = "none"
  /\ target = [up |-> TRUE, granted |-> FALSE, allowed |-> {}]
  /\ client = [up |-> TRUE, dialog |-> FALSE]
  /\ preferred \in Preferences /\ enabled = Methods /\ active = "none"
  /\ source = "dialog" /\ userpw = "none" /\ extracted = FALSE /\ continue = TRUE
  /\ message = "none" /\ finish = "open" /\ attempts = 0 /\ rc = "ERROR"
  /\ history = [sent |-> 0, pollError |-> FALSE]

Next ==
  \/ store_splitted_loginstring_into_session
  \/ store_target_address_into_session \/ resolve_proxy_ips
  \/ susshi_proxy_connect_phase1 \/ susshi_proxy_verify_hostkey
  \/ susshi_proxy_auth_phase1 \/ susshi_proxy_auth_pubkey_phase1
  \/ susshi_proxy_connect_phase2 \/ ProxyTimeout
  \/ ClientAuthenticated \/ ConnectDirectly \/ ConnectThroughProxy
  \/ susshi_target_verify_hostkey \/ susshi_target_verify_bastion_hostkey
  \/ HostkeyPromptFinish \/ HostkeyPromptWait
  \/ HostkeyPromptAnswer \/ HostkeyPromptGone
  \/ BeginAuth
  \/ TargetAuth /\ UNCHANGED login

\* Every call of the process returns: the resolver, the connections and the
\* waits for messages have time limits.
Spec == Init /\ [][Next]_vars /\ WF_vars(Next)

(***************************************************************************)
(* Properties.                                                             *)
(***************************************************************************)

\* A login that succeeds was granted by the target.  The wait for the client's
\* agent is the exception: when poll() fails there, its false is taken for
\* SSH_AUTH_SUCCESS.
GrantedByTarget == exit = "success" => target.granted \/ history.pollError

\* A stored password, and one that was extracted from the gateway's, is sent
\* once, by whatever methods it could be sent: a wrong one does not lock the
\* account at the target.
StoredPasswordOnce == history.sent <= 1

\* A login begins only at a target whose host key Chef knows, whose key the mode
\* of its own entry lets the gateway learn, or whose key the user accepted by
\* "yes".  An entry without a mode inherits the one of an address tried before.
\* Chef is told of the key exactly if it did not have it.
HostkeyTrusted ==
  /\ pc = "authNone" => (key = "OK" <=> uploaded = "none")
  /\ pc = "authNone" /\ key # "OK" =>
    \/ consent = "yes" /\ (entry = "prompt" \/ entry = "none")
    \/ key = "NEW" /\ entry \in {"update", "ifunknown"}
    \/ key = "CHANGED" /\ entry = "update"
    \/ entry = "none" /\ Cardinality({i \in DOMAIN ips : ips[i].used}) > 1

\* Where the gateway passes on what it is asked and told without a limit: the
\* keyboard-interactive exchange between the target and the client, the prompt
\* for the host key, and messages that hold no password.
Exchanges ==
  {"kbInit", "kbInfo", "kbStart", "kbWait", "kbAnswer", "kbAgain", "promptAnswer", "pwNext"}


=============================================================================
