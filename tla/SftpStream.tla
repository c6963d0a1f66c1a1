------------------------------ MODULE SftpStream ------------------------------
(***************************************************************************)
(* How susshi_inspect_sftp_packet() of susshid/inspect-sftp.c puts SFTP    *)
(* messages together again that arrive cut at any place into SSH packets.  *)
(* One direction of an SFTP channel is modelled, the client's from INIT on *)
(* and the target's from VERSION on; every turn of the loop                *)
(* "state_changed" is a step.  A byte is the number of its message and its *)
(* place in there.                                                         *)
(***************************************************************************)
EXTENDS Integers, Sequences, FiniteSets, SequencesExt

CONSTANTS
  HeaderSize,   \* bytes of length and type in front of a message: 5
  PrefixSize,   \* what is kept of a WRITE (272) or a DATA (8) message
  Width,        \* values of an unsigned integer
  Lengths,      \* lengths a message may have behind its header
  MaxMessages,  \* bound on the messages of the stream
  MaxBytes      \* bound on its bytes

ASSUME StreamAssumption ==
  /\ HeaderSize \in Nat \ {0} /\ PrefixSize \in Nat \ {0} /\ Width \in Nat
  /\ Lengths \subseteq Nat /\ MaxMessages \in Nat
  /\ \A len \in Lengths : len < Width

\* WRITE and DATA are "bulk", all other messages are kept as a whole.
MessageTypes == {"bulk", "whole"}
Message == [type : MessageTypes, len : Lengths]
Junk == <<0, 0>>     \* a byte that was never sent: memory behind the packet
Least(a, b) == IF a < b THEN a ELSE b

VARIABLES
  side,           \* who sends this stream
  messages,       \* the messages of the stream
  todo,           \* the bytes of the stream that have not arrived yet
  cuts,           \* the bytes an SSH packet ended with (history)
  early,          \* did the client not wait for VERSION? (history)
  sftp_session,   \* did the client's first packet come?
  target_version, \* is the server's version known?
  running,        \* the handler: "idle", "busy", or the process ended
  chunk,          \* buffer_copy: the unread bytes of the SSH packet
  datalen,        \* length of the SSH packet
  msg,            \* the SftpMessage being received
  inspected       \* what the inspection was called with (history)

input == <<side, messages, todo, cuts, early, sftp_session, target_version>>
streamVars == <<input, running, chunk, datalen, msg, inspected>>

Bytes(i) == [o \in 1..(HeaderSize + messages[i].len) |-> <<i, o>>]
Payload(i) == SubSeq(Bytes(i), HeaderSize + 1, HeaderSize + messages[i].len)
Fresh == [state |-> "INIT", header |-> <<>>, buffer |-> <<>>, type |-> "whole",
          length |-> 0, received |-> 0]

\* Every message but INIT and VERSION, with which the two streams begin.
Inspectable == 2..Len(messages)

StreamInit ==
  /\ side \in {"CLIENT", "TARGET"}
  /\ messages \in BoundedSeq(Message, MaxMessages) \ {<<>>}
  /\ messages[1].type = "whole" /\ messages[1].len > 0
  /\ todo = FlattenSeq([i \in 1..Len(messages) |-> Bytes(i)])
  /\ Len(todo) <= MaxBytes
  /\ cuts = {} /\ early = FALSE
  /\ sftp_session = (side = "TARGET") /\ target_version = FALSE
  /\ running = "idle" /\ chunk = <<>> /\ datalen = 0
  /\ msg = Fresh /\ inspected = <<>>

\* An SSH packet with n bytes of the stream arrives.  A server is silent behind
\* its VERSION until it is asked something; a client should be behind its INIT.
Arrives(n) ==
  /\ running = "idle"
  /\ side = "TARGET" /\ ~target_version => n <= HeaderSize + messages[1].len
  /\ todo' = SubSeq(todo, n + 1, Len(todo)) /\ cuts' = cuts \cup {todo[n]}
  /\ early' = (early \/ (side = "CLIENT" /\ ~target_version /\ todo[n][1] > 1))
  /\ UNCHANGED <<side, messages, msg, inspected>>

\* susshi_new_sftp_session(): the client's first packet is taken for INIT, of
\* which the version must be there; whatever else it holds is passed over.
NewSession(n) ==
  /\ ~sftp_session /\ Arrives(n)
  /\ IF n < HeaderSize + 1
     THEN running' = "fatal" /\ UNCHANGED sftp_session
     ELSE sftp_session' = TRUE /\ UNCHANGED running
  /\ UNCHANGED <<target_version, chunk, datalen>>

\* Until the server's version is known a packet is taken for VERSION, whoever
\* sent it.  What begins within a message may happen to look like one.
LooksLikeVersion(n) ==
  /\ n >= HeaderSize + 1
  /\ side = "TARGET" \/ todo[1][2] # 1

FirstAnswer(n) ==
  /\ sftp_session /\ ~target_version /\ Arrives(n)
  /\ \/ LooksLikeVersion(n) /\ target_version' = TRUE /\ UNCHANGED running
     \/ /\ ~(side = "TARGET" /\ LooksLikeVersion(n))
        /\ running' = "fatal" /\ UNCHANGED target_version
  /\ UNCHANGED <<sftp_session, chunk, datalen>>

\* The server's VERSION, in the client's stream.
VersionKnown ==
  /\ side = "CLIENT" /\ running = "idle" /\ sftp_session /\ ~target_version
  /\ \A k \in 1..Len(todo) : todo[k][1] # 1
  /\ target_version' = TRUE
  /\ UNCHANGED <<side, messages, todo, cuts, early, sftp_session, running, chunk, datalen,
                 msg, inspected>>

\* Every other packet is put into the loop.
Packet(n) ==
  /\ sftp_session /\ target_version /\ Arrives(n)
  /\ running' = "busy" /\ chunk' = SubSeq(todo, 1, n) /\ datalen' = n
  /\ UNCHANGED <<sftp_session, target_version>>

In(state) == running = "busy" /\ msg.state = state
Pass(n) == chunk' = SubSeq(chunk, n + 1, Len(chunk))

\* The bytes a copy of n bytes from the packet gets.
Copy(n) == [i \in 1..n |-> IF i <= Len(chunk) THEN chunk[i] ELSE Junk]

\* Mutant: a header is always taken from one packet.
TakeHeaderAtOnce ==
  LET n == Least(Len(chunk), HeaderSize)
  IN  /\ In("INIT") /\ Pass(n)
      /\ msg' = [msg EXCEPT !.header = Copy(n), !.state = "NEW"]
      /\ UNCHANGED <<input, running, datalen, inspected>>

\* Mutant: the loop goes on until the header is complete.
TakeHeaderBusy ==
  LET n == Least(Len(chunk), HeaderSize - Len(msg.header))
      header == msg.header \o Copy(n)
  IN  /\ In("INIT") /\ Pass(n)
      /\ msg' = [msg EXCEPT !.header = header,
                   !.state = IF Len(header) = HeaderSize THEN "NEW" ELSE "INIT"]
      /\ UNCHANGED <<input, running, datalen, inspected>>

\* Case INIT: the header may arrive in pieces.
TakeHeader ==
  LET n == Least(Len(chunk), HeaderSize - Len(msg.header))
      header == msg.header \o Copy(n)
  IN  /\ In("INIT") /\ Pass(n)
      /\ IF Len(header) = HeaderSize
         THEN /\ msg' = [msg EXCEPT !.header = header, !.state = "NEW"]
              /\ UNCHANGED running
         ELSE /\ msg' = [msg EXCEPT !.header = header]
              /\ running' = "idle"
      /\ UNCHANGED <<input, datalen, inspected>>

\* What the header says: the type, and the length with the type counted in.
\* Bytes that are no header say anything.
Headers(bytes) ==
  LET own == {messages[i] : i \in {j \in DOMAIN messages :
                                     bytes = SubSeq(Bytes(j), 1, HeaderSize)}}
  IN  IF own = {} THEN [type : MessageTypes, field : {0} \cup {len + 1 : len \in Lengths}]
      ELSE {[type |-> m.type, field |-> m.len + 1] : m \in own}

\* Unsigned: a length of zero becomes the largest number.
LengthOf(field) == IF field = 0 THEN Width - 1 ELSE field - 1

\* How much of n bytes is kept of a message of this type.
Kept(type, n) == IF type = "bulk" THEN Least(n, PrefixSize) ELSE n

Received(new) ==
  IF new.received = new.length
  THEN msg' = [new EXCEPT !.state = "COMPLETE"] /\ UNCHANGED running
  ELSE msg' = [new EXCEPT !.state = "INCOMPLETE"] /\ running' = "idle"

\* Case NEW.
ReadHeader ==
  /\ In("NEW")
  /\ \E h \in Headers(msg.header) :
       LET len == LengthOf(h.field)
           n   == Least(Len(chunk), len)
       IN  /\ Received([msg EXCEPT !.type = h.type, !.length = len,
                                   !.received = @ + n,
                                   !.buffer = @ \o Copy(Kept(h.type, n))])
           /\ Pass(n)
  /\ datalen' = (datalen - HeaderSize) % Width
  /\ UNCHANGED <<input, inspected>>

\* Mutant: nothing more is kept of a prefix that came in two pieces.
MoreBytesOfWhole(n) == IF msg.type = "bulk" THEN <<>> ELSE Copy(n)

\* Bytes copied to the buffer in case INCOMPLETE: a prefix is filled up with
\* this one copy, whether or not the packet holds that many bytes.
MoreBytes(n) ==
  IF msg.type = "bulk" THEN Copy(PrefixSize - Len(msg.buffer)) ELSE Copy(n)

\* Case INCOMPLETE, with which only a fresh packet begins.
TakeMore ==
  LET n == Least(msg.length - msg.received, datalen)
  IN  /\ In("INCOMPLETE")
      /\ Received([msg EXCEPT !.received = @ + n,
                              !.buffer = @ \o MoreBytes(n)])
      /\ Pass(n)
      /\ UNCHANGED <<input, datalen, inspected>>

\* Case COMPLETE: inspect the message, and go on with the rest of the packet.
Deliver ==
  /\ In("COMPLETE")
  /\ inspected' = Append(inspected, [header |-> msg.header, type |-> msg.type,
                                     buffer |-> msg.buffer])
  /\ msg' = Fresh
  /\ running' = IF Len(chunk) > 0 THEN "busy" ELSE "idle"
  /\ UNCHANGED <<input, chunk, datalen>>

Handler == TakeHeader \/ ReadHeader \/ TakeMore \/ Deliver
StreamNext ==
  \/ Handler
  \/ VersionKnown
  \/ \E n \in 1..Len(todo) : NewSession(n) \/ FirstAnswer(n) \/ Packet(n)

\* The handler runs to its end before the next packet is read.
StreamSpec == StreamInit /\ [][StreamNext]_streamVars /\ WF_streamVars(Handler)

(***************************************************************************)
(* Properties.                                                             *)
(***************************************************************************)

\* INIT or VERSION came in more than one packet.
OpeningCut == \E o \in 1..(HeaderSize + messages[1].len - 1) : <<1, o>> \in cuts

Arrived == {i \in Inspectable :
              \A k \in 1..Len(todo) : todo[k][1] # i}

\* However the stream is cut into packets, every message is inspected exactly
\* once, in order, under its own header, as soon as it has arrived, a message
\* that is kept as a whole is inspected as it was sent, and the process does
\* not end.  There are two exceptions: INIT or VERSION in two packets, whose
\* rest is taken for something else, and a client that does not wait for the
\* VERSION, whose packet is passed over or taken for it.
MessagesIntact ==
  ~OpeningCut /\ ~early =>
    /\ running # "fatal"
    /\ running = "idle" =>
         /\ Len(inspected) = Cardinality(Arrived)
         /\ \A k \in 1..Len(inspected) :
              /\ inspected[k].header = SubSeq(Bytes(k + 1), 1, HeaderSize)
              /\ inspected[k].type = messages[k + 1].type
              /\ messages[k + 1].type = "whole" => inspected[k].buffer = Payload(k + 1)

\* Where a packet ended within the part of a bulk message that is kept.
PrefixCuts(i) ==
  {o \in 0..(Least(PrefixSize, messages[i].len) - 1) :
     <<i, HeaderSize + o>> \in cuts}

\* The part of a bulk message that is kept for inspection is what was sent,
\* unless packets ended at two or more places in it: then bytes from behind the
\* packet are in the place of those that came with the third packet.
PrefixIntact ==
  ~OpeningCut /\ ~early =>
    \A k \in 1..Len(inspected) :
      LET i == k + 1
      IN  messages[i].type = "bulk" /\ Cardinality(PrefixCuts(i)) < 2 =>
            IsPrefix(SubSeq(Payload(i), 1, Least(PrefixSize, messages[i].len)),
                     inspected[k].buffer)

\* The handler gets through every packet, whatever it holds: the loop over its
\* messages ends.
HandlerReturns == running = "busy" ~> running # "busy"
=============================================================================
