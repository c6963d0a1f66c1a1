----------------------------- MODULE PubkeyAgent -----------------------------
(***************************************************************************)
(* Login to the target with the keys of the client's SSH agent, as done by *)
(* susshid/auth-pubkey-agent.c.  The gateway plays the server for the      *)
(* client's session channel, records what the client asks for, uses the    *)
(* agent channel to list keys and to sign, and, once the target is         *)
(* authenticated, replays the recorded session setup to the target.        *)
(*                                                                         *)
(* Packets of the client are handled by callbacks, inside every libssh     *)
(* call that reads from the client: the position pc is one of ClientIO     *)
(* then.  The state machine int_store.state is written by the callbacks    *)
(* and by the main loop; no callback looks at it first.                    *)
(***************************************************************************)
EXTENDS Naturals, Sequences, FiniteSets

CONSTANTS
  MaxKeys,        \* bound on the keys the agent holds
  MAX_ENVS,       \* environment variables the gateway can record
  MAX_REMOTETCP,  \* remote forwards the gateway can record
  MaxData,        \* bound on the pieces of data the client sends early
  MaxRecorded,    \* bound on what is recorded besides agent and service
  MaxSessions,    \* bound on the session channels the client opens
  MaxServices,    \* bound on its requests for a service
  MayHangUp       \* may the client drop the connection?

ASSUME AgentAssumption ==
  /\ MaxKeys \in Nat /\ MaxData \in Nat /\ MaxRecorded \in Nat
  /\ MaxSessions \in Nat /\ MaxServices \in Nat
  /\ MAX_ENVS \in Nat \ {0} /\ MAX_REMOTETCP \in Nat \ {0}
  /\ MayHangUp \in BOOLEAN

VARIABLES
  pc,         \* where susshi_pubkey_agent_client_ready() stands
  state,      \* int_store.state
  polls,      \* session_ready_timeout
  sessions,   \* session channels the client opened; int_store.session_channel
              \* is the last of them, or NULL
  hooked,     \* the one that got the callbacks, or 0
  hungUp,     \* those the client closed
  services,   \* number of the client's requests for a service
  awaited,    \* agent channels whose CLOSE by the client is waited for
  hidden,     \* history: a request has overwritten the state COMPLETE
  setup,      \* what the callbacks recorded in int_store
  asked,      \* what the client asked for (history)
  keys,       \* the keys of the agent, what each of them is good for
  pos,        \* strings already taken from identities_buffer
  round,      \* k, the keys the loop has gone through
  target,     \* the target: authenticated, and what it received
  exit        \* how the login ended

sessionVars == <<sessions, hooked, hungUp>>

vars == <<pc, state, polls, sessionVars, setup, asked, services, hidden, keys, pos,
          round, awaited, target, exit>>

Services == {"shell", "exec", "subsystem"}
KeyKinds == {"foreign", "refused", "unsigned", "accepted"}

\* The positions where callbacks of the client's session may run.
ClientIO == {"waitChannel", "poll", "openAgent", "askIds", "askSign", "flush"}

NothingAsked == [pty |-> FALSE, x11 |-> FALSE, agent |-> FALSE, envs |-> 0,
                 forwards |-> 0, service |-> "none", data |-> 0, eof |-> FALSE]

SetupType ==
  [pty : BOOLEAN, x11 : BOOLEAN, agent : BOOLEAN, envs : 0..(MAX_ENVS + 1),
   forwards : 0..MAX_REMOTETCP, service : {"none"} \cup Services,
   data : 0..MaxData, eof : BOOLEAN]

SessionsOK ==
  /\ sessions \in 0..MaxSessions /\ hooked \in 0..sessions
  /\ hungUp \subseteq 1..sessions
  /\ services \in 0..MaxServices /\ awaited \in Nat /\ hidden \in BOOLEAN

\* A correct record of everything the gateway handles, in all positions.
TypeOK ==
  /\ pc \in ClientIO \cup {"probe", "sendSig", "replay", "replayData", "replayEof",
                            "spin", "done"}
  /\ state \in {"START", "AVAILABLE", "READY", "CHANNEL_OPEN", "IDS_RECEIVED",
                "SEND_CLOSE", "ATOM_ACTION", "CLOSE_SENT", "COMPLETE", "ERROR"}
  /\ polls \in 0..4
  /\ SessionsOK
  /\ setup \in SetupType /\ asked \in SetupType
  /\ setup.envs <= MAX_ENVS
  /\ keys \in UNION {[1..n -> KeyKinds] : n \in 0..MaxKeys}
  /\ pos \in 0..(2 * MaxKeys) /\ round \in 0..MaxKeys
  /\ target \in [auth : BOOLEAN, closed : BOOLEAN, replayed : BOOLEAN, got : SetupType]
  /\ exit \in {"none", "success", "error", "SESSION_MISSING", "AGENT_MISSING",
               "NO_IDENTITIES", "SIGNATURE_INVALID", "SHELL_DENIED",
               "EXEC_DENIED", "SUBS_DENIED", "PROTOCOL_ERROR"}

Init ==
  /\ pc = "waitChannel" /\ state = "START" /\ polls = 0
  /\ sessions = 0 /\ hooked = 0 /\ hungUp = {} /\ services = 0 /\ awaited = 0
  /\ hidden = FALSE
  /\ setup = NothingAsked /\ asked = NothingAsked
  /\ keys \in UNION {[1..n -> KeyKinds] : n \in 0..MaxKeys}
  /\ pos = 0 /\ round = 0
  /\ target = [auth |-> FALSE, closed |-> FALSE, replayed |-> FALSE,
               got |-> NothingAsked]
  /\ exit = "none"

\* susshi_disconnect_standard() ends the process.
Disconnect(reason) == pc' = "done" /\ exit' = reason

Return(rc) == pc' = "done" /\ exit' = rc

(***************************************************************************)
(* Callbacks.                                                              *)
(***************************************************************************)
loop == <<polls, keys, pos, round, target>>

\* Bound: the client asks for no more than MaxRecorded things to be recorded.
Recordable ==
  Cardinality({f \in {"pty", "x11", "eof"} : setup[f]})
    + setup.forwards + asked.envs + setup.data < MaxRecorded

\* Remote forwards may be asked for before there is a session channel.  Those
\* that are denied or do not fit are dropped without an answer.
ccb_global_request ==
  /\ pc \in ClientIO /\ Recordable /\ setup.forwards < MAX_REMOTETCP
  /\ setup' = [setup EXCEPT !.forwards = @ + 1]
  /\ UNCHANGED <<loop, pc, state, sessionVars, asked, services, hidden, awaited, exit>>

\* Every open is accepted, and the new channel replaces the stored one.
ccb_channel_open_request ==
  /\ pc \in ClientIO /\ sessions < MaxSessions
  /\ sessions' = sessions + 1
  /\ UNCHANGED <<loop, pc, state, hooked, hungUp, setup, asked, services, hidden,
                 awaited, exit>>

\* Data and EOF are only recorded; a client sends no data behind its EOF.
ccb_session_data ==
  /\ Recordable /\ asked.data < MaxData /\ ~asked.eof
  /\ asked' = [asked EXCEPT !.data = @ + 1]
  /\ setup' = [setup EXCEPT !.data = @ + 1]
  /\ UNCHANGED <<state, services, hidden, exit, pc>>

ccb_session_eof ==
  /\ Recordable
  /\ asked' = [asked EXCEPT !.eof = TRUE]
  /\ setup' = [setup EXCEPT !.eof = TRUE]
  /\ UNCHANGED <<state, services, hidden, exit, pc>>

\* The window size is recorded too, which makes no difference here.
ccb_session_pty_request ==
  /\ Recordable
  /\ asked' = [asked EXCEPT !.pty = TRUE]
  /\ setup' = [setup EXCEPT !.pty = TRUE]
  /\ UNCHANGED <<state, services, hidden, exit, pc>>

ccb_session_env_request ==
  /\ Recordable /\ asked.envs <= MAX_ENVS
  /\ asked' = [asked EXCEPT !.envs = @ + 1]
  /\ setup' = IF setup.envs < MAX_ENVS THEN [setup EXCEPT !.envs = @ + 1] ELSE setup
  /\ UNCHANGED <<state, services, hidden, exit, pc>>

\* A request that is denied is dropped without an answer.
ccb_session_x11_request ==
  /\ Recordable
  /\ setup' = [setup EXCEPT !.x11 = TRUE]
  /\ UNCHANGED <<state, asked, services, hidden, exit, pc>>

\* At any time, and again, whatever the main loop is doing.
ccb_session_auth_agent_request ==
  /\ asked' = [asked EXCEPT !.agent = TRUE]
  /\ setup' = [setup EXCEPT !.agent = TRUE]
  /\ state' = "AVAILABLE" /\ hidden' = (hidden \/ state = "COMPLETE")
  /\ UNCHANGED <<services, exit, pc>>

\* At any time, and again, too.  Only the shell is checked here, the other
\* services are checked in the replay.
ccb_session_service_request ==
  \E s \in Services, allowed \in BOOLEAN :
    /\ services < MaxServices
    /\ services' = services + 1
    /\ asked' = [asked EXCEPT !.service = s]
    /\ IF s = "shell" /\ ~allowed
       THEN Disconnect("SHELL_DENIED") /\ UNCHANGED <<state, setup, hidden>>
       ELSE /\ setup' = [setup EXCEPT !.service = s]
            /\ state' = "READY" /\ hidden' = (hidden \/ state = "COMPLETE")
            /\ UNCHANGED <<pc, exit>>

\* The channel with the callbacks, registered after the first loop.
Hooked == pc \in ClientIO /\ hooked # 0 /\ hooked \notin hungUp

SessionCallback ==
  /\ Hooked
  /\ \/ ccb_session_data \/ ccb_session_eof \/ ccb_session_pty_request
     \/ ccb_session_env_request \/ ccb_session_x11_request
     \/ ccb_session_auth_agent_request \/ ccb_session_service_request
  /\ UNCHANGED <<loop, sessionVars, awaited>>

SessionClosed ==
  /\ pc \in ClientIO /\ MayHangUp
  /\ \E c \in (1..sessions) \ hungUp : hungUp' = hungUp \cup {c}
  /\ UNCHANGED <<loop, pc, state, sessions, hooked, setup, asked, services, hidden,
                 awaited, exit>>


\* The agent channel's close callback is set when its CLOSE is sent.
cbc_agentchannel_session_close_function ==
  /\ pc \in ClientIO /\ awaited > 0
  /\ awaited' = awaited - 1
  /\ state' = "COMPLETE"
  /\ UNCHANGED <<loop, pc, sessionVars, setup, asked, services, hidden, exit>>

(***************************************************************************)
(* susshi_pubkey_agent_client_ready()                                      *)
(***************************************************************************)

client == <<sessionVars, setup, asked, services, hidden>>

\* One poll of the first loop: the limit is tested before the channel is.  The
\* channel stored by then gets the callbacks, and the count is not used again.
WaitForChannel ==
  /\ pc = "waitChannel"
  /\ polls' = IF sessions = 0 THEN polls + 1 ELSE 0
  /\ IF polls + 1 > 3 THEN Disconnect("SESSION_MISSING") /\ UNCHANGED hooked
     ELSE /\ pc' = IF sessions = 0 THEN "waitChannel" ELSE "poll"
          /\ hooked' = sessions
          /\ UNCHANGED exit
  /\ UNCHANGED <<state, sessions, hungUp, setup, asked, services, hidden, keys, pos,
                 round, awaited, target>>

\* The error of the poll is returned as false, which is SSH_AUTH_SUCCESS.
WaitForChannelFails ==
  /\ pc = "waitChannel" /\ MayHangUp
  /\ Return("success")
  /\ UNCHANGED <<loop, state, client, awaited>>

\* After the main loop, unless the state is COMPLETE.
GiveUp ==
  IF setup.agent THEN Return("error") ELSE Disconnect("AGENT_MISSING")

\* The test at the end of the main loop, reached with state s.
LoopTest(s) ==
  /\ state' = s
  /\ CASE s = "COMPLETE" -> pc' = "replay" /\ UNCHANGED exit
       [] s = "ERROR" -> GiveUp
       [] OTHER -> pc' = "poll" /\ UNCHANGED exit

\* Inside the poll of the main loop, or between its end and the next one.
Polled(s) == pc = "poll" /\ sessions \notin hungUp /\ state = s

\* The poll failed or the session channel is gone.
LoopFails ==
  /\ pc = "poll" /\ sessions \in hungUp /\ LoopTest("ERROR")
  /\ UNCHANGED <<loop, client, awaited>>

LoopCompletes ==
  /\ Polled("COMPLETE") /\ LoopTest("COMPLETE")
  /\ UNCHANGED <<loop, client, awaited>>

\* Case SUSSHI_AGENT_READY, until libssh waits for the client's confirmation.
RequestChannel ==
  /\ Polled("READY")
  /\ IF setup.agent THEN state' = "ERROR" /\ pc' = "openAgent" /\ UNCHANGED exit
     ELSE LoopTest("ERROR")
  /\ UNCHANGED <<loop, client, awaited>>

\* The client confirms the agent channel, or does not.
AgentChannelAnswer ==
  /\ pc = "openAgent"
  /\ LoopTest("CHANNEL_OPEN") \/ LoopTest(state)
  /\ UNCHANGED <<loop, client, awaited>>

RequestIdentities ==
  /\ Polled("CHANNEL_OPEN")
  /\ state' = "ERROR" /\ pc' = "askIds"
  /\ UNCHANGED <<loop, client, awaited, exit>>

\* An agent channel at its end gives agent_atomicio() nothing to read and no
\* error either: it calls ssh_channel_read() over and over.
ReadsForever == pc' = "spin" /\ UNCHANGED <<state, exit>>

\* The exchange with the agent failed: the state is left as it is.
TalkFails == LoopTest(state)

\* Too many identities, an unknown type or a short answer leave the state alone.
IdentitiesAnswer ==
  /\ pc = "askIds"
  /\ \/ keys = <<>> /\ Disconnect("NO_IDENTITIES") /\ UNCHANGED <<state, pos, round>>
     \/ keys # <<>> /\ LoopTest("IDS_RECEIVED") /\ pos' = 0 /\ round' = 0
     \/ TalkFails /\ UNCHANGED <<pos, round>>
     \/ ReadsForever /\ UNCHANGED <<pos, round>>
  /\ UNCHANGED <<polls, keys, target, client, awaited>>

StartAuthentication ==
  /\ Polled("IDS_RECEIVED")
  /\ state' = "ERROR" /\ pc' = "probe"
  /\ UNCHANGED <<loop, client, awaited, exit>>

\* What the next string of the buffer is as a key: comments are none, and a
\* target that has accepted a signature takes no other key.
KindAt(p) ==
  IF p % 2 = 1 THEN "foreign"
  ELSE IF target.auth /\ keys[p \div 2 + 1] # "foreign" THEN "refused"
  ELSE keys[p \div 2 + 1]

\* One turn of the loop over the keys.  The comment is taken from the buffer
\* only after the key could be imported.
Probe ==
  /\ pc = "probe"
  /\ IF round = Len(keys)
     THEN LoopTest(state) /\ UNCHANGED <<round, pos>>
     ELSE LET kind == KindAt(pos) IN
          /\ round' = round + 1
          /\ pos' = IF kind = "foreign" THEN pos + 1 ELSE pos + 2
          /\ pc' = IF kind \in {"unsigned", "accepted"} THEN "askSign" ELSE "probe"
          /\ UNCHANGED <<state, exit>>
  /\ UNCHANGED <<polls, client, keys, awaited, target>>

\* The agent signs with the key of the last turn, or refuses to.
SignatureAnswer ==
  /\ pc = "askSign"
  /\ \/ pc' = "sendSig" /\ UNCHANGED exit
     \/ Disconnect("SIGNATURE_INVALID")
     \/ ReadsForever
  /\ UNCHANGED <<loop, state, client, awaited>>

SignedKey == keys[(pos - 2) \div 2 + 1]

\* External: what a target makes of the signature.  One that goes away accepts
\* no other key either.
TargetSays ==
  IF SignedKey = "accepted" THEN {"SUCCESS"}
  ELSE {answer \in {"FAILED", "PARTIAL", "closed"} :
          answer = "closed" =>
            \A k \in (round + 1)..Len(keys) : keys[k] \in {"foreign", "refused"}}

\* Only SUCCESS and FAILED end the wait: a target that is satisfied in part is
\* waited for until the time limit.
ssh_userauth_get_response(answer) ==
  CASE answer = "SUCCESS" -> "SUCCESS"
    [] answer = "FAILED" -> "DENIED"
    [] answer = "closed" -> "ERROR"
    [] OTHER -> "AGAIN"

\* Mutant of TargetAnswer: the result of the signature is not looked at.
TargetAnswerIgnored ==
  /\ pc = "sendSig"
  /\ \E answer \in TargetSays :
       /\ target' = [target EXCEPT !.auth = answer = "SUCCESS"]
       /\ LoopTest("SEND_CLOSE")
  /\ UNCHANGED <<polls, client, keys, pos, round, awaited>>

\* The loop over the keys ends with the first signature that is accepted.
TargetAnswer ==
  /\ pc = "sendSig"
  /\ \E answer \in TargetSays :
       /\ target' = [target EXCEPT !.auth = answer = "SUCCESS"]
       /\ IF ssh_userauth_get_response(answer) = "SUCCESS" THEN LoopTest("SEND_CLOSE")
          ELSE pc' = "probe" /\ UNCHANGED <<state, exit>>
  /\ UNCHANGED <<polls, client, keys, pos, round, awaited>>

\* Case SUSSHI_AGENT_SEND_CLOSE: the callback is set and the CLOSE is sent.
CloseAgentChannel ==
  /\ Polled("SEND_CLOSE")
  /\ state' = "ATOM_ACTION" /\ pc' = "flush"
  /\ awaited' = awaited + 1
  /\ UNCHANGED <<loop, client, exit>>

\* Flushing may already have handled the client's CLOSE, and other packets.
CloseSent ==
  /\ pc = "flush"
  /\ LoopTest(IF state = "COMPLETE" THEN "COMPLETE" ELSE "CLOSE_SENT")
  /\ UNCHANGED <<loop, client, awaited>>

(***************************************************************************)
(* susshi_pubkey_agent_replay_to_target()                                  *)
(***************************************************************************)

\* What the target has been asked for when the service is requested.  X11 and
\* the agent are checked again, environment and terminal are not, the agent is
\* asked for whatever the client asked, but not for a subsystem.
Replayed(x11, agent) ==
  [setup EXCEPT !.x11 = @ /\ x11, !.agent = agent /\ setup.service # "subsystem",
                !.data = 0, !.eof = FALSE]

\* Commands and subsystems meet their ACL only now.
ServiceDenied ==
  \/ setup.service = "exec" /\ Disconnect("EXEC_DENIED")
  \/ setup.service = "subsystem" /\ Disconnect("SUBS_DENIED")

\* A channel is opened and everything up to the service is asked for.  The
\* target may close the channel while it is waited for.
ReplayToTarget ==
  /\ pc = "replay"
  /\ \/ Disconnect("PROTOCOL_ERROR") /\ UNCHANGED target
     \/ ServiceDenied /\ UNCHANGED target
     \/ \E x11, agent, closed \in BOOLEAN :
          /\ target' = [target EXCEPT !.got = Replayed(x11, agent), !.closed = closed]
          /\ pc' = "replayData" /\ UNCHANGED exit
  /\ UNCHANGED <<polls, state, client, keys, pos, round, awaited>>

\* The recorded data, if the channel is open.  The result of the write, which
\* ends early when the target closes the channel, is ignored.
ReplayData ==
  /\ pc = "replayData" /\ pc' = "replayEof"
  /\ \/ target.closed /\ UNCHANGED target
     \/ \E n \in 0..setup.data, closed \in BOOLEAN :
          /\ ~target.closed
          /\ n < setup.data => closed
          /\ target' = [target EXCEPT !.got.data = n, !.closed = closed]
  /\ UNCHANGED <<polls, state, client, keys, pos, round, awaited, exit>>

\* Mutant of ReplayEof: whether the channel is open is not tested.
ReplayEofUntested ==
  /\ pc = "replayEof"
  /\ target' = [target EXCEPT !.got.eof = setup.eof, !.replayed = TRUE]
  /\ Return("success")
  /\ UNCHANGED <<polls, state, client, keys, pos, round, awaited>>

\* EOF, if the channel is open, and the remote forwards.
ReplayEof ==
  /\ pc = "replayEof"
  /\ target' = [target EXCEPT !.got.eof = setup.eof /\ ~target.closed, !.replayed = TRUE]
  /\ Return("success")
  /\ UNCHANGED <<polls, state, client, keys, pos, round, awaited>>

Callback ==
  \/ ccb_global_request \/ ccb_channel_open_request \/ SessionCallback
  \/ SessionClosed \/ cbc_agentchannel_session_close_function

\* What waits for nobody but the target, with a time limit.
Gateway ==
  \/ WaitForChannel \/ WaitForChannelFails \/ LoopFails \/ LoopCompletes
  \/ RequestChannel \/ RequestIdentities \/ StartAuthentication \/ Probe
  \/ TargetAnswer \/ CloseAgentChannel \/ CloseSent
  \/ ReplayToTarget \/ ReplayData \/ ReplayEof

\* What the client and its agent say when they are asked.
ClientAnswers == AgentChannelAnswer \/ IdentitiesAnswer \/ SignatureAnswer

\* The cases with nothing to do, the endless read and the end of the login.
Idle ==
  /\ \/ pc \in {"done", "spin"}
     \/ pc = "poll" /\ state \in {"START", "AVAILABLE", "CLOSE_SENT"}
  /\ UNCHANGED vars

Next == Callback \/ Gateway \/ ClientAnswers \/ Idle

\* The session process runs; nothing is assumed of the client.
Spec == Init /\ [][Next]_vars /\ WF_vars(Gateway)

(***************************************************************************)
(* Properties.                                                             *)
(***************************************************************************)

\* The target sees nothing of the client's session before it has accepted a
\* signature of the agent, although requests of the client set the state back
\* at any time, rounds are repeated, and the CLOSE of an agent channel of an
\* earlier round sets it to COMPLETE in the middle of a later one.
ReplayOnlyAfterLogin ==
  target.replayed \/ pc \in {"replay", "replayData", "replayEof"} => target.auth

\* The replay hands over everything the client was allowed to send on its
\* session channel while the gateway played the server: terminal and service,
\* of the environment what fits in the table, and, unless the target closes the
\* channel meanwhile, all early data and EOF; EOF never follows incomplete data.
\* Excepted is a client that has opened another session channel since: what was
\* recorded for the first is then replayed for the last.
ReplayFaithful ==
  target.replayed /\ sessions = hooked =>
    /\ target.got.pty = asked.pty /\ target.got.service = asked.service
    /\ asked.envs <= MAX_ENVS => target.got.envs = asked.envs
    /\ ~target.closed => target.got.data = asked.data /\ target.got.eof = asked.eof
    /\ target.got.eof => target.got.data = asked.data

\* A client that asks for a service, answers what the gateway asks and closes
\* the agent channel in turn.  The code waits for each of these without limit.
ClientCooperates ==
  /\ WF_vars(SessionCallback /\ services = 0 /\ ccb_session_service_request)
  /\ WF_vars(ClientAnswers)
  /\ WF_vars(cbc_agentchannel_session_close_function)

\* Where the loop waits for something that does not come: its state was set
\* back by an agent request behind the service request, the CLOSE came first and
\* such a request hid it, the channel with the callbacks was closed behind the
\* open of another one, or agent_atomicio() reads from a channel at its end.
Stuck ==
  \/ pc = "spin"
  \/ pc = "poll" /\ services > 0 /\ state = "AVAILABLE"
  \/ pc = "poll" /\ state = "CLOSE_SENT" /\ awaited = 0 /\ hidden
  \/ pc = "poll" /\ hooked \in hungUp /\ hooked # sessions


=============================================================================
