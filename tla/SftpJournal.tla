----------------------------- MODULE SftpJournal -----------------------------
(***************************************************************************)
(* The journal of an SFTP channel: susshid/inspect-sftp.c keeps a table of *)
(* the requests that wait for their answer and a table of the files and    *)
(* directories that are open, to log what was read from and written to     *)
(* each of them.  A request is inspected before the server gets it, an     *)
(* answer before the client gets it; the server answers in any order.      *)
(***************************************************************************)
EXTENDS Naturals, FiniteSets, FiniteSetsExt, Functions

CONSTANTS
  HandleNames,   \* what the server calls open files; it uses names again
  LongNames,     \* those of more than 252 bytes, of the 256 there may be
  RequestSlots,  \* size of sftp_requests before the session is given up
  HandleSlots,   \* size of sftp_handles
  MaxRequests    \* bound on the requests the client sends

ASSUME JournalAssumption ==
  /\ RequestSlots \in Nat \ {0} /\ HandleSlots \in Nat \ {0}
  /\ MaxRequests \in Nat /\ LongNames \subseteq HandleNames

Ids == 1..MaxRequests
Requests == 0..(RequestSlots - 1)
Handles == 0..(HandleSlots - 1)
None == "none"

VARIABLES
  requests,  \* sftp_requests: type, id, handle slot and path of a request
  handles,   \* sftp_handles: name, path and bytes moved of an open file
  state,     \* "up", "fatal" or "crashed"
  next,      \* the client's next request id
  pending,   \* requests the server has not answered: what the client meant
  open,      \* the client's open files: the name of each
  moved,     \* bytes moved for each open file, counted by the client, but for
             \* those written under a long name (history)
  ended,     \* files the client closed or whose end a READ met (history)
  late,      \* was one of them read after all? (history)
  short      \* requests whose answer could not be decoded (history)

vars == <<requests, handles, state, next, pending, open, moved, ended, late,
          short>>
journal == <<requests, handles>>

\* A free slot.  Files opened by the client are told apart by the id of the
\* OPEN request, which stands for their path as well.
NoRequest == [type |-> None, id |-> 0, hid |-> 0, path |-> 0]
NoHandle == [name |-> None, path |-> 0, size |-> 0]

Init ==
  /\ requests = [r \in Requests |-> NoRequest] /\ handles = [h \in Handles |-> NoHandle]
  /\ state = "up" /\ next = 1 /\ pending = {} /\ open = <<>>
  /\ moved = [i \in Ids |-> 0] /\ ended = {} /\ late = FALSE /\ short = {}

(***************************************************************************)
(* The tables.                                                             *)
(***************************************************************************)
UsedRequests == {r \in Requests : requests[r] # NoRequest}
UsedHandles == {h \in Handles : handles[h] # NoHandle}
FreeRequests == Requests \ UsedRequests
FreeHandles == Handles \ UsedHandles

First(slots) == IF slots = {} THEN {} ELSE {Min(slots)}

\* The slot searched for, if there is one.
susshi_find_sftphandle(name) ==
  First({h \in UsedHandles : handles[h].name = name})
susshi_find_sftprequest(id) ==
  First({r \in UsedRequests : requests[r].id = id})

susshi_free_sftphandle(h) == handles' = [handles EXCEPT ![h] = NoHandle]
susshi_free_sftprequest(r) == requests' = [requests EXCEPT ![r] = NoRequest]

\* The first free slot; without one the session ends.
susshi_alloc_new_sftprequest(request) ==
  requests' = [requests EXCEPT ![Min(FreeRequests)] = request]

susshi_alloc_new_sftphandle(handle) ==
  handles' = [handles EXCEPT ![Min(FreeHandles)] = handle]

(***************************************************************************)
(* Requests.  The client uses a handle from its answer until it closes it. *)
(***************************************************************************)
Request(type, hid, path) ==
  susshi_alloc_new_sftprequest([type |-> type, id |-> next, hid |-> hid,
                                path |-> path])

\* The request goes on to the server.
Sent(type, file) ==
  /\ pending' = pending \cup
       {[type |-> type, id |-> next, file |-> file,
         name |-> IF file \in DOMAIN open THEN open[file] ELSE None]}
  /\ next' = next + 1
  /\ UNCHANGED <<state, short>>

CanRequest == state = "up" /\ next <= MaxRequests /\ FreeRequests # {}

TableFull ==
  /\ state = "up" /\ next <= MaxRequests /\ FreeRequests = {}
  /\ state' = "fatal"
  /\ UNCHANGED <<journal, next, pending, open, moved, ended, late, short>>

\* OPEN and OPENDIR keep the path for the answer.
RequestOpen ==
  /\ CanRequest /\ Request("OPEN", 0, next) /\ Sent("OPEN", next)
  /\ UNCHANGED <<handles, open, moved, ended, late>>

\* REMOVE, MKDIR, RMDIR, RENAME, READLINK, SYMLINK, STAT, LSTAT: the paths are
\* logged and no more.
RequestPath ==
  /\ CanRequest /\ Request("OTHER", 0, 0) /\ Sent("OTHER", 0)
  /\ UNCHANGED <<handles, open, moved, ended, late>>

\* FSTAT, FSETSTAT: the file is looked up for its path, but stays in the table
\* and is not noted in the request.
RequestHandle(f) ==
  /\ CanRequest /\ Request("OTHER", 0, 0) /\ Sent("OTHER", f)
  /\ UNCHANGED <<handles, open, moved, ended, late>>

\* EXTENDED, with paths or with a handle: logged in the same way.
RequestExtended ==
  \/ RequestPath
  \/ \E f \in DOMAIN open : RequestHandle(f)

\* LINK with its paths, and BLOCK and UNBLOCK with their handle, of version 6.
RequestVersion6 ==
  \/ RequestPath
  \/ \E f \in DOMAIN open : RequestHandle(f)

\* Mutant: the request does not note the slot.
SlotNotNoted(f) == 0

\* The slot of the file's handle, or 0 if the handle is not known.
SlotOf(f) ==
  LET found == susshi_find_sftphandle(open[f])
  IN  IF found = {} THEN 0 ELSE CHOOSE h \in found : TRUE

RequestRead(f) ==
  /\ CanRequest /\ Request("READ", SlotOf(f), 0) /\ Sent("READ", f)
  /\ late' = (late \/ f \in ended)
  /\ UNCHANGED <<handles, open, moved, ended>>

\* What is written counts when it is asked for.
RequestWrite(f) ==
  LET found == susshi_find_sftphandle(open[f])
  IN  /\ open[f] \notin LongNames
      /\ CanRequest /\ Request("WRITE", SlotOf(f), 0) /\ Sent("WRITE", f)
      /\ handles' = [h \in Handles |->
                       IF h \in found THEN [handles[h] EXCEPT !.size = @ + 1]
                       ELSE handles[h]]
      /\ moved' = [moved EXCEPT ![f] = @ + 1]
      /\ UNCHANGED <<open, ended, late>>

\* Of a WRITE 272 bytes are kept, in which the count is not found behind a long
\* name: a buffer underrun, and what is written is not counted.
RequestWriteLong(f) ==
  /\ open[f] \in LongNames
  /\ CanRequest /\ Request("WRITE", 0, 0) /\ Sent("WRITE", f)
  /\ UNCHANGED <<handles, open, moved, ended, late>>

\* Mutant: CLOSE leaves the handle in the table.
RequestCloseKept(f) ==
  /\ CanRequest /\ Request("CLOSE", 0, 0) /\ Sent("CLOSE", f)
  /\ open' = Restrict(open, DOMAIN open \ {f}) /\ ended' = ended \cup {f}
  /\ UNCHANGED <<handles, moved, late>>

\* The handle is forgotten with the request, not with its answer.
RequestClose(f) ==
  LET found == susshi_find_sftphandle(open[f])
  IN  /\ CanRequest /\ Request("CLOSE", 0, 0) /\ Sent("CLOSE", f)
      /\ handles' = [h \in Handles |-> IF h \in found THEN NoHandle ELSE handles[h]]
      /\ open' = Restrict(open, DOMAIN open \ {f}) /\ ended' = ended \cup {f}
      /\ UNCHANGED <<moved, late>>

(***************************************************************************)
(* Answers.                                                                *)
(***************************************************************************)

\* Names the server cannot give to a file: it forgets a name with its answer
\* to CLOSE.
Taken == {open[f] : f \in DOMAIN open} \cup {p.name : p \in pending}

Answered(p) == pending' = pending \ {p}

\* Mutant: an answered request stays in the table.
AnswerKeepsRequest(p) ==
  /\ state = "up" /\ Answered(p)
  /\ UNCHANGED <<requests, next, short>>

\* An answer is inspected if its request is found, and then forgotten.
Answer(p) ==
  /\ state = "up" /\ Answered(p)
  /\ \E r \in susshi_find_sftprequest(p.id) : susshi_free_sftprequest(r)
  /\ UNCHANGED <<next, short>>

\* HANDLE.
AnswerHandle(p, name) ==
  /\ p.type = "OPEN" /\ name \notin Taken /\ Answer(p)
  /\ \E r \in susshi_find_sftprequest(p.id) :
       /\ requests[r].path # 0
       /\ IF FreeHandles = {}
          THEN state' = "fatal" /\ UNCHANGED handles
          ELSE /\ susshi_alloc_new_sftphandle(
                    [name |-> name, path |-> requests[r].path, size |-> 0])
               /\ UNCHANGED state
  /\ open' = [f \in DOMAIN open \cup {p.file} |->
                IF f = p.file THEN name ELSE open[f]]
  /\ UNCHANGED <<moved, ended, late>>

\* Slot h was given to another file since the request was inspected.
Stale(p, h) == h \in UsedHandles /\ handles[h].path # p.file

\* DATA is accounted to the slot the request has noted.
AnswerData(p) ==
  /\ p.type = "READ" /\ Answer(p)
  /\ \E r \in susshi_find_sftprequest(p.id) :
       LET h == requests[r].hid
       IN  IF h \in FreeHandles
           THEN state' = "crashed" /\ UNCHANGED handles
           ELSE /\ handles' = [handles EXCEPT ![h].size = @ + 1]
                /\ UNCHANGED state
  /\ moved' = [moved EXCEPT ![p.file] = @ + 1]
  /\ late' = (late \/ p.file \in ended)
  /\ UNCHANGED <<open, ended>>

\* STATUS, to any request.  A READ that gets no data ends the account.
AnswerStatus(p) ==
  /\ Answer(p)
  /\ \E r \in susshi_find_sftprequest(p.id) :
       LET h == requests[r].hid
       IN  /\ IF p.type = "READ" /\ h \in UsedHandles /\ handles[h].size > 0
              THEN susshi_free_sftphandle(h)
              ELSE UNCHANGED handles
           /\ late' = (late \/ (p.type = "READ" /\ Stale(p, h)))
  /\ ended' = IF p.type = "READ" THEN ended \cup {p.file} ELSE ended
  /\ UNCHANGED <<state, open, moved>>

\* NAME, ATTRS, EXTENDED_REPLY: logged and no more.
AnswerOther(p) ==
  /\ p.type = "OTHER" /\ Answer(p)
  /\ UNCHANGED <<handles, state, open, moved, ended, late>>

\* An answer that ends before all its fields leaves its request in the table.
AnswerShort(p) ==
  /\ state = "up" /\ Answered(p)
  /\ short' = short \cup {p.id}
  /\ UNCHANGED <<journal, state, next, open, moved, ended, late>>

Next ==
  \/ TableFull \/ RequestOpen \/ RequestPath \/ RequestExtended
  \/ RequestVersion6
  \/ \E f \in DOMAIN open : \/ RequestHandle(f) \/ RequestRead(f)
                          \/ RequestWrite(f) \/ RequestWriteLong(f)
                          \/ RequestClose(f)
  \/ \E p \in pending : \/ AnswerData(p) \/ AnswerStatus(p) \/ AnswerOther(p)
                        \/ AnswerShort(p)
                        \/ \E name \in HandleNames : AnswerHandle(p, name)

Spec == Init /\ [][Next]_vars

(***************************************************************************)
(* Properties.                                                             *)
(***************************************************************************)

\* The table of requests holds exactly those that wait for an answer, and
\* those whose answer could not be decoded: whatever order the answers come
\* in, none is forgotten early and none stays, and the session is only given
\* up when that many are under way or were left behind.
RequestsExact ==
  LET waiting == {p.id : p \in pending} \cup short
  IN  /\ state # "crashed" =>
           {requests[r].id : r \in UsedRequests} = waiting
      /\ state = "fatal" =>
           \/ Cardinality(waiting) >= RequestSlots
           \/ FreeHandles = {}

\* As long as no file is read after it was closed or after a READ met its end,
\* the journal never touches a handle that is not there, and knows every other
\* open file under its own path with exactly the bytes that were moved, those
\* written under a long name left out.
JournalExact ==
  ~late =>
    /\ state # "crashed"
    /\ state = "up" => \A f \in DOMAIN open \ ended : \E h \in UsedHandles :
         handles[h] = [name |-> open[f], path |-> f, size |-> moved[f]]

\* A handle in the table is that of a file the client has open: a name the
\* server uses again never finds the entry of the file that had it before.
HandlesOpen ==
  state # "crashed" =>
    \A h \in UsedHandles :
      /\ handles[h].path \in DOMAIN open
      /\ handles[h].name = open[handles[h].path]
=============================================================================
