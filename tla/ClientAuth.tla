----------------------------- MODULE ClientAuth -----------------------------
(***************************************************************************)
(* The authentication of the client (src/susshid/auth-client.c), together  *)
(* with the session context of Chef that says which methods are offered    *)
(* and which are required (src/susshid/chef.c).                            *)
(*                                                                         *)
(* A loop takes one request after the other, until the client has proved   *)
(* everything that is required, runs out of methods or out of time.        *)
(* OpenID Connect is no SSH method: when it is all that is left, the       *)
(* process waits for a SIGIO, which the Chef remote command "grant" sends. *)
(***************************************************************************)
EXTENDS Integers, FiniteSets

CONSTANTS
  Locals,     \* PreferredAuthentications of the daemon, one set of methods each
  Contexts,   \* the session contexts Chef may answer with
  Grace,      \* susshi_cfg.login_grace_time
  MsgWait,    \* susshi_cfg.embryonic_grace_time: libssh's timeout at first
  LongWait,   \* its timeout once a password was asked for (300 seconds)
  Horizon     \* bound: the clock stops at this second

Password == "password"
Interactive == "keyboard-interactive"
PublicKey == "publickey"
OpenId == "openid-connect"

\* The methods of allowed_auth_methods, and the names Chef and the
\* configuration use: "interactive" stands for everything with a password.
Methods == {Password, Interactive, PublicKey, OpenId}
Names == Methods \cup {"interactive"}

\* The names susshi_client_auth_add_required_method() knows.
PolicyNames == {PublicKey, "interactive", OpenId}

\* A list that is not part of Chef's answer.
Absent == {"absent"}

ASSUME ClientAuthAssumption ==
  /\ Locals \subseteq SUBSET Methods
  /\ Contexts \subseteq [preferred : (SUBSET Names) \cup {Absent},
                         required  : SUBSET PolicyNames,
                         config    : (SUBSET Names) \cup {Absent}]
  /\ Grace \in Nat /\ MsgWait \in Nat /\ LongWait \in Nat
  /\ Horizon \in Nat

VARIABLES
  phase,      \* where susshi_client_auth_dispatch() is
  mode,       \* susshi_session.operation_mode, once the login string is split
  titled,     \* the context is here and the process title names the session
  allowed,    \* int_store.allowed_auth_methods
  required,   \* int_store.required_auth_methods
  succeeded,  \* int_store.succeeded_auth_methods
  wrong,      \* pw_auth_tries
  patience,   \* libssh's timeout for the client
  now,        \* time(NULL), counted from login_starttime
  since,      \* when the wait for the client or for SIGIO began
  policy,     \* history: ClientAuthsRequired of the context
  proved,     \* history: what Chef or libssh confirmed
  takenAt     \* history: when the last request or grant was taken

methodVars == <<allowed, required, succeeded, wrong, proved>>
loginVars == <<mode, titled, policy>>
vars == <<phase, mode, titled, allowed, required, succeeded, wrong, patience,
          now, since, policy, proved, takenAt>>

Active == {"loop", "wait", "handling", "oidcStart", "oidcWait"}
Ended == {"authenticated", "failed", "disconnected", "killed"}
Modes == {"gateway", "bastion", "shell", "chef-remote"}

\* Wrong passwords after which the interactive methods are withdrawn.
MaxTries == 3

TypeOK ==
  /\ phase \in Active \cup Ended
  /\ mode \in Modes \cup {"unknown"}
  /\ titled \in BOOLEAN
  /\ allowed \subseteq Methods
  /\ required \subseteq Methods \ {Password}
  /\ succeeded \subseteq Methods \ {Password}
  /\ wrong \in 0..MaxTries
  /\ patience \in {MsgWait, LongWait}
  /\ now \in Nat
  /\ since \in 0..now
  /\ policy \subseteq PolicyNames
  /\ proved \subseteq Methods \ {Password}
  /\ takenAt \in 0..now

-----------------------------------------------------------------------------
(***************************************************************************)
(* What Chef's answer does to the methods.                                 *)
(***************************************************************************)

\* susshi_client_auth_add_preferred_method() for every name of a list.
MethodsNamed(names) ==
  {m \in Methods : m \in names \/ (m \in {Password, Interactive} /\ "interactive" \in names)}

\* susshi_client_auth_add_required_method() for every name of a list.
MethodsRequired(names) ==
  {m \in Methods : \/ m \in names \cap {PublicKey, OpenId}
                   \/ m = Interactive /\ "interactive" \in names}

\* A list replaces what was allowed before, unless it is absent.
Replaced(before, names) == IF names = Absent THEN before ELSE MethodsNamed(names)

\* The allowed methods after susshi_chef_get_session_context(): required
\* methods replace the preferred ones, and a PreferredAuthentications among
\* the session's own configuration replaces both.
AllowedBy(c) ==
  LET preferred == Replaced(allowed, c.preferred)
      demanded == IF c.required = {} THEN preferred ELSE MethodsNamed(c.required)
  IN  Replaced(demanded, c.config)

Init ==
  /\ phase = "loop"
  /\ mode = "unknown"
  /\ titled = FALSE
  /\ \E l \in Locals :
       allowed = IF l = {} THEN {Password, PublicKey, Interactive} ELSE l
  /\ required = {}
  /\ succeeded = {}
  /\ wrong = 0
  /\ patience = MsgWait
  /\ now = 0
  /\ since = 0
  /\ policy = {}
  /\ proved = {}
  /\ takenAt = 0

-----------------------------------------------------------------------------
(***************************************************************************)
(* The top of the loop and the wait for the client.                        *)
(***************************************************************************)

\* "Authentication phase expired": the only test of the login grace time.
GraceOver ==
  /\ phase = "loop" /\ now > Grace
  /\ phase' = "failed"
  /\ UNCHANGED <<loginVars, methodVars, patience, now, since, takenAt>>

\* Mutant of AwaitMessage: the login grace time is not tested.
AwaitMessageForever ==
  /\ phase = "loop" /\ allowed # {OpenId}
  /\ phase' = "wait"
  /\ since' = now
  /\ UNCHANGED <<loginVars, methodVars, patience, now, takenAt>>

\* ssh_message_get() is called.
AwaitMessage ==
  /\ phase = "loop" /\ now <= Grace /\ allowed # {OpenId}
  /\ phase' = "wait"
  /\ since' = now
  /\ UNCHANGED <<loginVars, methodVars, patience, now, takenAt>>

\* Nothing came before libssh's timeout, or a message that is no request for
\* authentication: `continue', and `reply_default'.
NothingToHandle ==
  /\ phase = "wait"
  /\ phase' = "loop"
  /\ UNCHANGED <<loginVars, methodVars, patience, now, since, takenAt>>

\* "Received disconnect from client during authentication."
ClientGone ==
  /\ phase = "wait"
  /\ phase' = "failed"
  /\ UNCHANGED <<loginVars, methodVars, patience, now, since, takenAt>>

\* The login string of the first request is not accepted, the proxy cannot be
\* reached, or Chef refuses the session.
LoginRefused ==
  /\ phase = "wait" /\ mode = "unknown"
  /\ phase' = "disconnected"
  /\ UNCHANGED <<loginVars, methodVars, patience, now, since, takenAt>>

\* The first request of a session with a target: the login string is split,
\* and Chef's answer sets the methods.
TakeLogin(c) ==
  /\ phase = "wait" /\ mode = "unknown"
  /\ phase' = "handling"
  /\ mode' \in {"gateway", "bastion"}
  /\ allowed' = AllowedBy(c)
  /\ required' = required \cup MethodsRequired(c.required)
  /\ titled' = TRUE
  /\ policy' = c.required
  /\ takenAt' = now
  /\ UNCHANGED <<succeeded, wrong, proved, patience, now, since>>

\* The first request of a login to the gateway itself: of Chef's answer, only
\* the configuration is read.
TakeShellLogin(c) ==
  /\ phase = "wait" /\ mode = "unknown"
  /\ phase' = "handling"
  /\ mode' = "shell"
  /\ allowed' = Replaced(allowed, c.config)
  /\ titled' = TRUE
  /\ policy' = c.required
  /\ takenAt' = now
  /\ UNCHANGED <<required, succeeded, wrong, proved, patience, now, since>>

\* A request of Chef itself: no context, and public keys only, every time.
TakeChefRequest ==
  /\ phase = "wait" /\ mode \in {"unknown", "chef-remote"}
  /\ phase' = "handling"
  /\ mode' = "chef-remote"
  /\ allowed' = {PublicKey}
  /\ takenAt' = now
  /\ UNCHANGED <<titled, policy, required, succeeded, wrong, proved, patience, now, since>>

\* A further request: login string and context are those of the first one.
TakeRequest ==
  /\ phase = "wait" /\ titled
  /\ phase' = "handling"
  /\ takenAt' = now
  /\ UNCHANGED <<loginVars, methodVars, patience, now, since>>

-----------------------------------------------------------------------------
(***************************************************************************)
(* The methods.  The allowed ones are what the client is told; no handler  *)
(* looks at them.                                                          *)
(***************************************************************************)

\* Mutant of GoOn: the test for methods that are left is missing.
GoOnRegardless == phase' = "loop"

\* After a request that did not authenticate the client: without a method
\* left the client is disconnected, except if it is Chef.
GoOn ==
  phase' = IF allowed' = {} /\ mode # "chef-remote" THEN "disconnected" ELSE "loop"

\* Mutant of Satisfied: one method is enough.
SatisfiedByOne == required \cap succeeded' # {} \/ required = {}

\* What susshi_client_auth_process_method_response() tests.
Satisfied == required \subseteq succeeded'

\* A method succeeded: it is not offered again, and the client is
\* authenticated if nothing is missing.
Succeeds(method, offered) ==
  /\ succeeded' = succeeded \cup {method}
  /\ allowed' = allowed \ offered
  /\ IF Satisfied THEN phase' = "authenticated" ELSE GoOn

\* Chef accepts the password, which counts for both of its methods.
PasswordRight ==
  /\ Succeeds(Interactive, {Password, Interactive})
  /\ proved' = proved \cup {Interactive}
  /\ UNCHANGED wrong

\* Chef answers 406.
TooManyFailures ==
  /\ phase' = "disconnected"
  /\ allowed' = allowed \ {Password, Interactive}
  /\ UNCHANGED <<succeeded, wrong, proved>>

\* Any other answer: a failure, and an error from the third time on.
PasswordWrong ==
  /\ wrong' = IF wrong < MaxTries THEN wrong + 1 ELSE wrong
  /\ allowed' = IF wrong + 1 < MaxTries THEN allowed ELSE allowed \ {Password, Interactive}
  /\ GoOn
  /\ UNCHANGED <<succeeded, proved>>

\* susshi_client_auth_password().
PasswordMethod ==
  /\ phase = "handling" /\ mode # "chef-remote"
  /\ patience' = LongWait
  /\ PasswordRight \/ TooManyFailures \/ PasswordWrong
  /\ UNCHANGED <<loginVars, required, now, since, takenAt>>

\* The same with an empty password, about which Chef is not asked.
EmptyPassword ==
  /\ phase = "handling" /\ mode # "chef-remote"
  /\ patience' = LongWait
  /\ allowed' = allowed \ {Password}
  /\ GoOn
  /\ UNCHANGED <<loginVars, required, succeeded, wrong, proved, now, since, takenAt>>

\* susshi_client_auth_interactive(): the request for a prompt.
InteractivePrompt ==
  /\ phase = "handling" /\ mode # "chef-remote"
  /\ patience' = LongWait
  /\ allowed' = allowed
  /\ GoOn
  /\ UNCHANGED <<loginVars, required, succeeded, wrong, proved, now, since, takenAt>>

\* The response to the prompt, with one answer or with another number of them.
InteractiveAnswer ==
  /\ phase = "handling" /\ mode # "chef-remote"
  /\ patience' = LongWait
  /\ \/ PasswordRight
     \/ TooManyFailures
     \/ PasswordWrong
     \/ phase' = "disconnected" /\ UNCHANGED <<allowed, succeeded, wrong, proved>>
  /\ UNCHANGED <<loginVars, required, now, since, takenAt>>

\* susshi_client_auth_publickey() with a signature that libssh found valid and
\* a key that Chef knows.
SignedKey ==
  /\ phase = "handling"
  /\ Succeeds(PublicKey, {PublicKey})
  /\ proved' = proved \cup {PublicKey}
  /\ UNCHANGED <<loginVars, required, wrong, patience, now, since, takenAt>>

\* The test of a key, an unknown key or a wrong signature.  The test of a key
\* without a signature algorithm ends the connection, if algorithms are
\* restricted, which they are not for Chef.
KeyNotSigned ==
  /\ phase = "handling"
  /\ allowed' = allowed
  /\ GoOn \/ (mode # "chef-remote" /\ phase' = "disconnected")
  /\ UNCHANGED <<loginVars, required, succeeded, wrong, proved, patience, now, since, takenAt>>

\* The method "none", any other one, and in a request of Chef everything that
\* is no public key.
OtherMethod ==
  /\ phase = "handling"
  /\ allowed' = allowed
  /\ GoOn
  /\ UNCHANGED <<loginVars, required, succeeded, wrong, proved, patience, now, since, takenAt>>

-----------------------------------------------------------------------------
(***************************************************************************)
(* OpenID Connect.                                                         *)
(***************************************************************************)

\* susshi_client_auth_openid_connect_start(): banners are sent, and then one
\* message of the client is awaited.
StartOpenId ==
  /\ phase = "loop" /\ now <= Grace /\ allowed = {OpenId}
  /\ phase' = "oidcStart"
  /\ since' = now
  /\ UNCHANGED <<loginVars, methodVars, patience, now, takenAt>>

\* The message, the timeout or the disconnect is ignored.  SIGIO is blocked
\* and awaited.
AwaitGrant ==
  /\ phase = "oidcStart"
  /\ phase' = "oidcWait"
  /\ since' = now
  /\ UNCHANGED <<loginVars, methodVars, patience, now, takenAt>>

\* SIGIO arrives.  Whatever comes of it, the loop ends.
Granted ==
  /\ phase = "oidcWait" /\ titled
  /\ succeeded' = succeeded \cup {OpenId}
  /\ proved' = proved \cup {OpenId}
  /\ takenAt' = now
  /\ phase' = IF Satisfied THEN "authenticated" ELSE "failed"
  /\ UNCHANGED <<loginVars, allowed, required, wrong, patience, now, since>>

\* "OpenID Connect authentication took longer than %d seconds."
GrantTimesOut ==
  /\ phase = "oidcWait" /\ now = since + Grace
  /\ phase' = "disconnected"
  /\ UNCHANGED <<loginVars, methodVars, patience, now, since, takenAt>>

\* execute_cmd_auth_grant() finds the process by its title, which names the
\* session from its first request on; SIGIO ends a process that neither
\* handles nor blocks it.  Only sessions that offer OpenID Connect are granted.
GrantedEarly ==
  /\ phase \in {"loop", "wait", "handling", "oidcStart"} /\ titled
  /\ OpenId \in allowed
  /\ phase' = "killed"
  /\ UNCHANGED <<loginVars, methodVars, patience, now, since, takenAt>>

-----------------------------------------------------------------------------
\* A second passes.  libssh gives up after its timeout, sigtimedwait() after
\* the login grace time; Chef may take any time to answer.
Tick ==
  /\ phase \in Active
  /\ phase \in {"wait", "oidcStart"} => now < since + patience
  /\ phase = "oidcWait" => now < since + Grace
  /\ now < Horizon
  /\ now' = now + 1
  /\ UNCHANGED <<phase, loginVars, methodVars, patience, since, takenAt>>

Top == GraceOver \/ AwaitMessage \/ StartOpenId

Take ==
  \/ LoginRefused \/ TakeChefRequest \/ TakeRequest
  \/ \E c \in Contexts : TakeLogin(c) \/ TakeShellLogin(c)

Handle ==
  \/ PasswordMethod \/ EmptyPassword \/ InteractivePrompt \/ InteractiveAnswer
  \/ SignedKey \/ KeyNotSigned \/ OtherMethod

Next ==
  \/ Top \/ NothingToHandle \/ ClientGone \/ Take \/ Handle
  \/ AwaitGrant \/ Granted \/ GrantTimesOut \/ GrantedEarly
  \/ Tick

Spec == Init /\ [][Next]_vars

\* libssh returns from every wait, Chef answers, and time passes; the client
\* and the users of OpenID Connect owe nothing.
FairSpec ==
  /\ Spec
  /\ WF_vars(Top) /\ WF_vars(NothingToHandle) /\ WF_vars(Handle)
  /\ WF_vars(AwaitGrant) /\ WF_vars(GrantTimesOut) /\ WF_vars(Tick)

-----------------------------------------------------------------------------
(***************************************************************************)
(* Properties.                                                             *)
(***************************************************************************)

\* However requests, failures and grants interleave, an authenticated client
\* has proved every method that Chef requires of a session with a target, at
\* least one method in any case, and its key if it says it is Chef.
ChefPolicyMet ==
  phase = "authenticated" =>
    /\ proved # {}
    /\ mode \in {"gateway", "bastion"} => MethodsRequired(policy) \subseteq proved
    /\ mode = "chef-remote" => PublicKey \in proved

\* A required method that is offered stays on offer until it has succeeded; only
\* the third wrong password, or Chef's verdict to stop, withdraws one.
RequiredStaysOnOffer ==
  [][titled =>
       \A m \in required \cap allowed :
         \/ m \in allowed' \cup succeeded'
         \/ m = Interactive /\ wrong' = MaxTries
         \/ phase' = "disconnected"]_vars

\* Once Chef's context is known, the process never waits for a request that it
\* has left the client no method for.
NeverWaitsInVain ==
  phase = "wait" /\ titled => allowed \notin {{}, {OpenId}}

\* The longest of libssh's timeouts.
Longest == IF MsgWait < LongWait THEN LongWait ELSE MsgWait

\* How late a request or a grant can still authenticate: the login grace time
\* is tested before a wait only, which may then last for libssh's timeout, and
\* a wait for a grant may last for a second login grace time.
LateBound ==
  phase = "authenticated" =>
    takenAt <= Grace + Longest + (IF OpenId \in succeeded THEN Grace ELSE 0)

\* The authentication ends, whatever the client and Chef's users do.
AuthEnds == <>(phase \in Ended)

=============================================================================
