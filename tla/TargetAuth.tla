------------------------------ MODULE TargetAuth ------------------------------
(***************************************************************************)
(* Authentication at the target on behalf of the client, as done by        *)
(* susshid/auth-target.c: a loop over the methods the profile prefers and  *)
(* the target still offers.  Where the target wants a password, either one *)
(* that is stored for it is sent, or the client is asked, for which its    *)
(* own authentication is kept open (susshi_client_auth_finish()).          *)
(* TargetLogin adds what comes before.                                     *)
(***************************************************************************)
EXTENDS Naturals, Sequences, FiniteSets

CONSTANT Preferences   \* orders in which profiles prefer the methods

Methods == {"publickey", "agent", "keyboard-interactive", "password"}
Protocols == {"publickey", "keyboard-interactive", "password"}

ASSUME AuthAssumption == Preferences \subseteq Seq(Methods)

VARIABLES
  pc,          \* where the session process stands
  target,      \* the target: up, granted, methods it offers
  client,      \* the client: up, and may it still use keyboard-interactive or
               \* password
  preferred,   \* target_preferred_authentications
  enabled,     \* methods of target_auth_methods that are enabled
  active,      \* int_store.active_method
  source,      \* target_password_source: user dialog, or a stored password
  userpw,      \* whose password target_userpw holds: "none", "user" (it was
               \* extracted from the gateway password), "own" (Chef has it
               \* for this address) or "stale" (for an address tried before)
  extracted,   \* use_extracted_password
  continue,    \* target_password_continue
  message,     \* client_message: "none", "open" or "answered"
  finish,      \* what the client was told: "open", "partial" or "success"
  attempts,    \* attempts of susshi_client_auth_kbdint_or_password()
  rc,          \* what the method that runs last returned
  history,     \* stored passwords sent, and was the poll error met
  exit         \* how the login ended

stored == <<source, userpw, extracted, continue>>
talk == <<client, message, finish>>
methods == <<preferred, enabled, active>>
auth == <<target, talk, methods, stored, attempts, rc, history>>

Protocol(m) == IF m = "agent" THEN "publickey" ELSE m
Answers == {"SUCCESS", "DENIED", "PARTIAL", "INFO", "AGAIN", "ERROR"}

End(reason) == pc' = "done" /\ exit' = reason
Goto(place) == pc' = place /\ UNCHANGED exit

\* A request to the target and its answer.  The target may be gone with an
\* error.  It names the methods it offers in its first answer, and others after
\* a partial success.
TargetSays(answer) ==
  /\ target.up \/ answer = "ERROR"
  /\ \E next \in IF pc = "authNone" \/ answer = "PARTIAL" THEN SUBSET Protocols
                 ELSE {target.allowed},
        up \in IF answer = "ERROR" THEN {FALSE, target.up} ELSE {TRUE} :
       target' = [up |-> up, allowed |-> next,
                  granted |-> target.granted \/ answer = "SUCCESS"]
  /\ rc' = answer

\* ssh_message_get(): something to use, something else, nothing within the
\* time limit, or the end of the connection.  A client whose own request is
\* not answered yet says nothing.
ClientSays(answer) ==
  /\ answer \in {"useful", "useless"} => message # "open"
  /\ client' = [client EXCEPT !.up = answer # "closed"]

\* susshi_client_auth_finish(false): a client that has no exchange open is
\* told, once, that its authentication succeeded in part.
susshi_client_auth_finish ==
  finish' = IF message = "none" /\ finish = "open" THEN "partial" ELSE finish

\* A prompt to the client.
Prompt == message' = "answered"

(***************************************************************************)
(* The loop over the methods.                                              *)
(***************************************************************************)

\* susshi_target_auth(): the target may be satisfied with no method at all.
AuthNone ==
  /\ pc = "authNone"
  /\ \E answer \in {"SUCCESS", "DENIED", "ERROR"} :
       /\ TargetSays(answer)
       /\ CASE answer = "SUCCESS" -> End("success")
            [] answer = "ERROR" -> End("auth failed")
            [] answer = "DENIED" -> Goto("dispatch")
  /\ UNCHANGED <<talk, methods, stored, attempts, history>>

\* A method goes on as long as it is enabled and offered; else the first
\* preferred one is taken that is.
Usable(m) == m \in enabled /\ Protocol(m) \in target.allowed

Selected ==
  IF active # "none" /\ Usable(active) THEN active
  ELSE IF \E i \in DOMAIN preferred : Usable(preferred[i])
       THEN preferred[CHOOSE i \in DOMAIN preferred :
                        /\ Usable(preferred[i])
                        /\ \A j \in 1..(i - 1) : ~Usable(preferred[j])]
       ELSE "none"

\* The client may use keyboard-interactive from here on.
susshi_client_auth_enable_method == client' = [client EXCEPT !.dialog = TRUE]

Dispatch ==
  /\ pc = "dispatch"
  /\ active' = Selected
  /\ IF target.allowed = {} \/ Selected = "none" THEN End("auth failed")
     ELSE Goto(IF Selected = "keyboard-interactive" THEN "kbInit" ELSE Selected)
  /\ IF Selected = "keyboard-interactive" THEN susshi_client_auth_enable_method
     ELSE UNCHANGED client
  /\ rc' = "ERROR"
  /\ UNCHANGED <<target, message, finish, preferred, enabled, stored, attempts, history>>

\* Mutant: the result of the method is not looked at.
ReturnedIgnored ==
  /\ pc = "returned"
  /\ IF target.up /\ client.up THEN End("success") ELSE End("auth failed")
  /\ UNCHANGED auth

\* What the loop makes of the result of a method.
Returned ==
  /\ pc = "returned"
  /\ CASE rc = "SUCCESS" -> End("success")
       [] rc \in {"DENIED", "ERROR", "PARTIAL"} /\ target.up /\ client.up ->
            Goto("dispatch")
       [] OTHER -> End("auth failed")
  /\ UNCHANGED auth

(***************************************************************************)
(* Keys of the gateway, or of the user from Chef: the result of the probes *)
(* and of the signed request, taken together, or no key could be read.     *)
(***************************************************************************)

\* Too many keys of the user in Chef's context, or one that is no key.
susshi_target_auth_load_chef_context_identities ==
  pc = "publickey" /\ End("fatal") /\ UNCHANGED auth

susshi_target_auth_pubkey ==
  /\ pc = "publickey"
  /\ \/ \E answer \in {"SUCCESS", "DENIED", "PARTIAL", "ERROR"} : TargetSays(answer)
     \/ rc' = "ERROR" /\ UNCHANGED target
  /\ enabled' = enabled \ {active} /\ Goto("returned")
  /\ UNCHANGED <<talk, preferred, active, stored, attempts, history>>

\* The agent needs a session with the client: its authentication is over, and
\* no method is left that could ask it.
AllDisabled == {}

\* The agent's keys (PubkeyAgent).  Its wait for the client's channel returns
\* false, which is SSH_AUTH_SUCCESS, when poll fails.
susshi_target_auth_pubkey_pre_sshagent ==
  /\ pc = "agent"
  /\ finish' = "success"
  /\ \/ /\ \E answer \in {"SUCCESS", "DENIED", "ERROR"} : TargetSays(answer)
        /\ UNCHANGED history
     \/ /\ rc' = "SUCCESS" /\ history' = [history EXCEPT !.pollError = TRUE]
        /\ UNCHANGED target
  /\ \E up \in {client.up, FALSE} : client' = [client EXCEPT !.up = up]
  /\ enabled' = AllDisabled /\ Goto("returned")
  /\ UNCHANGED <<message, preferred, active, stored, attempts>>

(***************************************************************************)
(* Stored passwords.                                                       *)
(***************************************************************************)
HasPassword == userpw # "none"
Dialogs == {"keyboard-interactive", "password"}

\* A profile that does not continue with a dialog takes both methods away that
\* could lead to one.
susshi_target_auth_continue_or_abort_interactive(answer) ==
  IF answer # "SUCCESS" /\ ~continue THEN enabled \ Dialogs ELSE enabled

\* Mutant: the password stays in memory, and the source stays what it was.
KeepPassword == UNCHANGED <<source, userpw>>

WipePassword == source' = "dialog" /\ userpw' = "none"

\* The stored password goes to the target.
SendStored(answer) ==
  /\ TargetSays(answer)
  /\ history' = [history EXCEPT !.sent = @ + 1]

(***************************************************************************)
(* keyboard-interactive: the states of susshi_target_auth_interactive().   *)
(* Its loop ends with an answer of the target that is final, or when one   *)
(* side is gone.                                                           *)
(***************************************************************************)
KbGoto(state) ==
  Goto(IF rc' \in {"SUCCESS", "DENIED"} \/ ~target'.up \/ ~client.up
       THEN "returned" ELSE state)

\* Where an answer of the target leads.
KbAfter(answer, state) ==
  CASE answer = "INFO" -> "kbInfo" [] answer = "ERROR" -> "kbInit"
    [] answer = "AGAIN" -> "kbAgain" [] OTHER -> state

\* S_INIT
KbInit ==
  /\ pc = "kbInit"
  /\ \E answer \in Answers :
       /\ TargetSays(answer)
       /\ enabled' = IF answer = "DENIED" THEN enabled \ {active} ELSE enabled
       /\ IF answer = "ERROR" THEN Goto("returned")
          ELSE KbGoto(IF answer = "INFO" THEN "kbInfo" ELSE "kbInit")
  /\ UNCHANGED <<talk, preferred, active, stored, attempts, history>>

\* S_TARGET_INFO without a prompt.
KbEmptyInfo ==
  /\ pc = "kbInfo"
  /\ \E answer \in Answers : TargetSays(answer)
  /\ KbGoto("kbInfo")
  /\ UNCHANGED <<talk, methods, stored, attempts, history>>

\* S_TARGET_INFO with one prompt for a password, and there is one to send.
KbStoredPassword ==
  /\ pc = "kbInfo" /\ HasPassword /\ (source = "stored" \/ extracted)
  /\ \E answer \in Answers :
       /\ SendStored(answer)
       /\ enabled' = susshi_target_auth_continue_or_abort_interactive(answer)
       /\ KbGoto(KbAfter(answer, "kbInfo"))
  /\ extracted' = (extracted /\ source = "stored") /\ WipePassword
  /\ UNCHANGED <<talk, preferred, active, continue, attempts>>

\* S_TARGET_INFO, but nothing stored fits the prompts.
KbNoPassword ==
  /\ pc = "kbInfo" /\ source = "stored"
  /\ rc' = "ERROR"
  /\ enabled' = susshi_target_auth_continue_or_abort_interactive("ERROR")
  /\ WipePassword /\ Goto("kbInit")
  /\ UNCHANGED <<target, talk, preferred, active, extracted, continue, attempts,
                 history>>

\* S_TARGET_INFO for the client.
KbDialog ==
  /\ pc = "kbInfo" /\ source = "dialog"
  /\ Goto("kbStart")
  /\ UNCHANGED auth

\* S_CLIENT_START: the prompts answer the client's open request, or its next
\* one.  Without any the process dereferences a null pointer.
KbStart ==
  /\ pc = "kbStart" /\ susshi_client_auth_finish
  /\ IF message # "none" THEN Prompt /\ Goto("kbWait") /\ UNCHANGED client
     ELSE \/ ClientSays("useful") /\ Prompt /\ Goto("kbWait")
          \/ ClientSays("closed") /\ End("auth failed") /\ UNCHANGED message
          \/ ClientSays("timeout") /\ End("crashed") /\ UNCHANGED message
  /\ UNCHANGED <<target, methods, stored, attempts, rc, history>>

\* S_CLIENT_WAIT, and S_CLIENT_ANSWER as far as it looks for answers.
KbWait ==
  /\ pc = "kbWait"
  /\ \/ ClientSays("useful") /\ message' = "open" /\ Goto("kbAnswer") /\ UNCHANGED rc
     \/ ClientSays("useless") /\ UNCHANGED <<message, rc, pc, exit>>
     \/ /\ \E none \in {"timeout", "closed"} : ClientSays(none)
        /\ message' = "none" /\ rc' = "DENIED" /\ Goto("returned")
  /\ UNCHANGED <<target, finish, methods, stored, attempts, history>>

\* S_CLIENT_ANSWER, and S_TARGET_AGAIN which goes on there.
KbAnswer ==
  /\ pc \in {"kbAnswer", "kbAgain"}
  /\ \E answer \in Answers :
       TargetSays(answer) /\ KbGoto(KbAfter(answer, pc))
  /\ UNCHANGED <<talk, methods, stored, attempts, history>>

(***************************************************************************)
(* password                                                                *)
(***************************************************************************)

\* The end of susshi_target_auth_password().
PasswordDone(answer) ==
  /\ enabled' = susshi_target_auth_continue_or_abort_interactive(answer)
  /\ WipePassword

PasswordStored ==
  /\ pc = "password" /\ HasPassword /\ (source = "stored" \/ extracted)
  /\ \E answer \in {"SUCCESS", "DENIED", "PARTIAL", "ERROR"} :
       SendStored(answer) /\ PasswordDone(answer)
  /\ extracted' = (extracted /\ source = "stored") /\ Goto("returned")
  /\ UNCHANGED <<talk, preferred, active, continue, attempts>>

PasswordMissing ==
  /\ pc = "password" /\ source = "stored" /\ ~HasPassword
  /\ rc' = "DENIED" /\ PasswordDone("DENIED") /\ Goto("returned")
  /\ UNCHANGED <<target, talk, preferred, active, extracted, continue, attempts,
                 history>>

\* The client must be told that it is half way before keyboard-interactive is
\* enabled for it: without a method to go on with it is disconnected.
PasswordDialog ==
  /\ pc = "password" /\ source = "dialog" /\ ~(HasPassword /\ extracted)
  /\ IF message = "none" /\ finish = "open" /\ ~client.dialog
     THEN End("kbdint missing") /\ UNCHANGED <<client, finish, attempts>>
     ELSE /\ susshi_client_auth_finish /\ susshi_client_auth_enable_method
          /\ attempts' = 0 /\ Goto("pwFirst")
  /\ UNCHANGED <<target, message, methods, stored, rc, history>>

\* A password of the client is tried.  The dialog ends with success or with
\* the third attempt; the method is not used again.
TryPassword(answer, unless) ==
  /\ TargetSays(answer) /\ attempts' = attempts + 1
  /\ IF answer = "SUCCESS" \/ attempts' = 3
     THEN /\ WipePassword /\ Goto("returned")
          /\ enabled' = susshi_target_auth_continue_or_abort_interactive(answer)
                        \ {active}
     ELSE Goto(unless) /\ UNCHANGED <<enabled, source, userpw>>

\* susshi_client_auth_kbdint_or_password() before it has prompted.
FirstPassword ==
  /\ pc = "pwFirst"
  /\ \/ /\ message # "none" /\ Prompt /\ Goto("pwNext")
        /\ UNCHANGED <<target, client, enabled, source, userpw, attempts, rc>>
     \/ /\ message = "none" /\ ClientSays("useful")
        /\ Prompt /\ Goto("pwNext")
        /\ UNCHANGED <<target, enabled, source, userpw, attempts, rc>>
     \/ /\ message = "none" /\ ClientSays("useful")
        /\ \E answer \in {"SUCCESS", "DENIED", "PARTIAL", "ERROR"} :
             /\ TryPassword(answer, "pwFirst")
             /\ message' = IF answer = "SUCCESS" THEN "open" ELSE "none"
     \/ /\ message = "none" /\ \E gone \in {"timeout", "closed"} :
             /\ ClientSays(gone)
             /\ End(IF gone = "closed" THEN "auth failed" ELSE "crashed")
        /\ UNCHANGED <<target, message, enabled, source, userpw, attempts, rc>>
  /\ UNCHANGED <<finish, preferred, active, extracted, continue, history>>

\* The same, once it has.
NextPassword ==
  /\ pc = "pwNext"
  /\ \/ /\ ClientSays("useful")
        /\ \E answer \in {"SUCCESS", "DENIED", "PARTIAL", "ERROR"} :
             /\ TryPassword(answer, "pwNext")
             /\ IF answer = "SUCCESS" THEN message' = "open" ELSE Prompt
     \/ /\ ClientSays("useless") /\ message' = "answered"
        /\ UNCHANGED <<pc, exit, target, enabled, source, userpw, attempts, rc>>
     \/ /\ \E none \in {"timeout", "closed"} : ClientSays(none)
        /\ message' = "none" /\ End("auth failed")
        /\ UNCHANGED <<target, enabled, source, userpw, attempts, rc>>
  /\ UNCHANGED <<finish, preferred, active, extracted, continue, history>>

TargetAuth ==
  \/ Dispatch \/ Returned
  \/ susshi_target_auth_load_chef_context_identities
  \/ susshi_target_auth_pubkey \/ susshi_target_auth_pubkey_pre_sshagent
  \/ KbInit \/ KbEmptyInfo \/ KbStoredPassword \/ KbNoPassword \/ KbDialog
  \/ KbStart \/ KbWait \/ KbAnswer
  \/ PasswordStored \/ PasswordMissing \/ PasswordDialog
  \/ FirstPassword \/ NextPassword
=============================================================================
