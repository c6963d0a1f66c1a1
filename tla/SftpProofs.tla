------------------------------ MODULE SftpProofs ------------------------------
(***************************************************************************)
(* Proofs about the inspection of an SFTP channel.                         *)
(*                                                                         *)
(* The journal, for tables of any size and any number of requests,         *)
(* whatever order the server answers in: the table of requests holds those *)
(* that wait for an answer, the table of handles only open files, and the  *)
(* bytes of a file are exact as long as it is not read after its end.      *)
(*                                                                         *)
(* The stream, for messages of any number and length, however they are cut *)
(* into packets: unless INIT or VERSION was cut or the client did not wait *)
(* for the VERSION, every message is inspected once, in order and as it    *)
(* was sent, and so is what is kept of a WRITE or DATA message, unless     *)
(* packets ended at two places in it.                                      *)
(***************************************************************************)
EXTENDS SftpJournal, SftpStream, SequenceTheorems, FiniteSetTheorems, WellFoundedInduction,
        TLAPS

-----------------------------------------------------------------------------
(***************************************************************************)
(* Types.                                                                  *)
(***************************************************************************)
Types == {"OPEN", "READ", "WRITE", "CLOSE", "OTHER"}
RequestRec == [type : Types \cup {None}, id : Nat, hid : Handles, path : Nat]
HandleRec == [name : HandleNames \cup {None}, path : Nat, size : Nat]
PendingRec == [type : Types, id : Ids, file : Nat, name : HandleNames \cup {None}]

\* The two tables of the journal.
TablesTyped ==
  requests \in [Requests -> RequestRec] /\ handles \in [Handles -> HandleRec]

\* The client's requests and files.
ClientTyped ==
  /\ next \in 1..(MaxRequests + 1)
  /\ pending \subseteq PendingRec
  /\ DOMAIN open \subseteq Ids /\ \A f \in DOMAIN open : open[f] \in HandleNames
  /\ moved \in [Ids -> Nat] /\ ended \subseteq Ids /\ short \subseteq Ids

Typed ==
  TablesTyped /\ ClientTyped /\ state \in {"up", "fatal", "crashed"} /\ late \in BOOLEAN

-----------------------------------------------------------------------------
(***************************************************************************)
(* The table of requests.                                                  *)
(***************************************************************************)
Waiting == {p.id : p \in pending} \cup short

\* An id is given to one request: in the table, and among those that wait.
IdsApart ==
  /\ \A r \in UsedRequests : requests[r].id \in 1..(next - 1)
  /\ \A r, s \in UsedRequests : requests[r].id = requests[s].id => r = s
  /\ \A p \in pending : p.id \in 1..(next - 1) /\ p.id \notin short
  /\ \A p, q \in pending : p.id = q.id => p = q
  /\ short \subseteq 1..(next - 1)

\* The ids in the table.
IdsKnown == {requests[r].id : r \in UsedRequests} = Waiting

\* The session is given up when one of the tables is full.
GivenUpFull == state = "fatal" => FreeRequests = {} \/ FreeHandles = {}

RequestsInv == IdsApart /\ IdsKnown /\ GivenUpFull

\* A set of slots has a first one, which Min and First find.
LEMMA FirstSlot ==
  ASSUME NEW S, S \subseteq Nat, S # {}
  PROVE  Min(S) \in S /\ First(S) = {Min(S)}
<1>1. PICK i \in S : \A j \in S : ~(<<j, i>> \in OpToRel(<, Nat))
  BY NatLessThanWellFounded, WFMin
<1>2. \A j \in S : ~(j < i)
  BY <1>1 DEF OpToRel
<1>3. \E k \in S : \A j \in S : k <= j
  BY <1>2
<1> QED
  BY <1>3 DEF Min, First

\* Slots are numbers, and there is at least one of each table.
LEMMA Slots ==
  Requests \subseteq Nat /\ Handles \subseteq Nat /\ 0 \in Handles
BY JournalAssumption DEF Requests, Handles

\* A request is put into the table and sent on.
Requested(type, hid, path, file) ==
  CanRequest /\ Request(type, hid, path) /\ Sent(type, file)

\* What a request does to the tables.
NewRequest(type, hid, path, file) ==
  /\ next \in Ids /\ next' = next + 1 /\ state = "up" /\ UNCHANGED <<state, short>>
  /\ \E k \in FreeRequests :
       /\ requests' \in [Requests -> RequestRec]
       /\ UsedRequests' = UsedRequests \cup {k}
       /\ \A r \in UsedRequests : requests'[r] = requests[r]
       /\ requests'[k].id = next /\ requests'[k].hid = hid /\ requests'[k].path = path
  /\ \E w \in PendingRec :
       /\ w.type = type /\ w.id = next /\ w.file = file
       /\ pending' = pending \cup {w}

\* It takes a free slot, with the next id, and waits for its answer.
LEMMA RequestEffect ==
  ASSUME Typed, NEW type \in Types, NEW hid \in Handles, NEW path \in Nat, NEW file \in Nat,
         Requested(type, hid, path, file)
  PROVE  NewRequest(type, hid, path, file)
<1>1. state = "up" /\ next \in Ids /\ FreeRequests # {}
  BY JournalAssumption DEF Requested, CanRequest, Typed, ClientTyped, Ids
<1>2. next' = next + 1 /\ UNCHANGED <<state, short>>
  BY DEF Requested, Sent
<1>3. \E w \in PendingRec :
        /\ w.type = type /\ w.id = next /\ w.file = file
        /\ pending' = pending \cup {w}
  <2> DEFINE w == [type |-> type, id |-> next, file |-> file,
                   name |-> IF file \in DOMAIN open THEN open[file] ELSE None]
  <2>1. pending' = pending \cup {w}
    BY DEF Requested, Sent
  <2>2. w \in PendingRec
    BY <1>1 DEF PendingRec, Typed, ClientTyped
  <2> QED
    BY <2>1, <2>2
<1>4. \E k \in FreeRequests :
        /\ requests' \in [Requests -> RequestRec]
        /\ UsedRequests' = UsedRequests \cup {k}
        /\ \A r \in UsedRequests : requests'[r] = requests[r]
        /\ requests'[k].id = next /\ requests'[k].hid = hid /\ requests'[k].path = path
  <2> DEFINE k == Min(FreeRequests)
  <2> DEFINE q == [type |-> type, id |-> next, hid |-> hid, path |-> path]
  <2>1. FreeRequests \subseteq Nat
    BY Slots DEF FreeRequests
  <2>2. k \in FreeRequests
    BY <1>1, <2>1, FirstSlot
  <2>3. k \in Requests /\ k \notin UsedRequests
    BY <2>2 DEF FreeRequests
  <2>4. requests' = [requests EXCEPT ![k] = q]
    BY DEF Requested, Request, susshi_alloc_new_sftprequest
  <2>5. q \in RequestRec /\ q.id = next /\ q.hid = hid /\ q.path = path
    BY <1>1 DEF RequestRec, Ids
  <2>6. q # NoRequest
    BY <1>1 DEF NoRequest, Ids
  <2>7. requests \in [Requests -> RequestRec]
    BY DEF Typed, TablesTyped
  <2> HIDE DEF k, q
  <2>8. requests' \in [Requests -> RequestRec] /\ requests'[k] = q
    BY <2>3, <2>4, <2>5, <2>7
  <2>9. \A r \in Requests : r # k => requests'[r] = requests[r]
    BY <2>4, <2>7
  <2>10. UsedRequests' = UsedRequests \cup {k}
    BY <2>3, <2>6, <2>8, <2>9 DEF UsedRequests
  <2>11. \A r \in UsedRequests : requests'[r] = requests[r]
    BY <2>3, <2>9 DEF UsedRequests
  <2> QED
    BY <2>2, <2>5, <2>8, <2>10, <2>11
<1> QED
  BY <1>1, <1>2, <1>3, <1>4 DEF NewRequest

\* An answer finds the one request it belongs to, which leaves the table.
LEMMA AnswerEffect ==
  ASSUME Typed, RequestsInv, NEW p \in pending, Answer(p)
  PROVE  /\ state = "up" /\ pending' = pending \ {p} /\ UNCHANGED <<next, short>>
         /\ \E r \in UsedRequests :
              /\ requests[r].id = p.id /\ susshi_find_sftprequest(p.id) = {r}
              /\ requests' \in [Requests -> RequestRec]
              /\ UsedRequests' = UsedRequests \ {r}
              /\ \A t \in UsedRequests \ {r} : requests'[t] = requests[t]
<1>1. state = "up" /\ pending' = pending \ {p} /\ UNCHANGED <<next, short>>
  BY DEF Answer, Answered
<1>2. PICK r \in UsedRequests : requests[r].id = p.id
  BY DEF RequestsInv, IdsKnown, Waiting
<1>3. {t \in UsedRequests : requests[t].id = p.id} = {r}
  BY <1>2 DEF RequestsInv, IdsApart
<1>4. r \in Requests /\ r \in Nat
  BY Slots DEF UsedRequests
<1>5. susshi_find_sftprequest(p.id) = {r}
  <2>1. First({r}) = {Min({r})} /\ Min({r}) \in {r}
    BY <1>4, FirstSlot
  <2> QED
    BY <1>3, <2>1 DEF susshi_find_sftprequest
<1>6. requests' = [requests EXCEPT ![r] = NoRequest]
  BY <1>5 DEF Answer, susshi_free_sftprequest
<1>7. requests \in [Requests -> RequestRec]
  BY DEF Typed, TablesTyped
<1>8. NoRequest \in RequestRec
  BY Slots DEF NoRequest, RequestRec
<1>9. requests' \in [Requests -> RequestRec] /\ requests'[r] = NoRequest
  BY <1>4, <1>6, <1>7, <1>8
<1>10. \A t \in Requests : t # r => requests'[t] = requests[t]
  BY <1>6, <1>7
<1>11. UsedRequests' = UsedRequests \ {r}
  BY <1>4, <1>9, <1>10 DEF UsedRequests
<1>12. \A t \in UsedRequests \ {r} : requests'[t] = requests[t]
  BY <1>10 DEF UsedRequests
<1> QED
  BY <1>1, <1>2, <1>5, <1>9, <1>11, <1>12

\* A request keeps the ids apart and known.
LEMMA RequestKeeps ==
  ASSUME Typed, RequestsInv, NEW type \in Types, NEW hid \in Handles, NEW path \in Nat,
         NEW file \in Nat, Requested(type, hid, path, file)
  PROVE  RequestsInv'
<1>0. NewRequest(type, hid, path, file)
  BY RequestEffect
<1>1. /\ next \in Ids /\ next' = next + 1 /\ state = "up" /\ UNCHANGED <<state, short>>
  BY <1>0 DEF NewRequest
<1>2. PICK k \in FreeRequests :
        /\ UsedRequests' = UsedRequests \cup {k}
        /\ \A r \in UsedRequests : requests'[r] = requests[r]
        /\ requests'[k].id = next
  BY <1>0 DEF NewRequest
<1>3. PICK w \in PendingRec : w.id = next /\ pending' = pending \cup {w}
  BY <1>0 DEF NewRequest
<1>4. next \in Nat \ {0} /\ next' \in Nat /\ 1..(next' - 1) = 1..(next - 1) \cup {next}
      /\ next \notin 1..(next - 1)
  BY <1>1 DEF Ids
<1>5. \A r \in UsedRequests' : IF r = k THEN requests'[r].id = next
                               ELSE r \in UsedRequests /\ requests'[r].id = requests[r].id
  BY <1>2
<1>6. IdsApart'
  <2>1. \A r \in UsedRequests' : requests'[r].id \in 1..(next' - 1)
    BY <1>4, <1>5 DEF RequestsInv, IdsApart
  <2>2. \A r, t \in UsedRequests' : requests'[r].id = requests'[t].id => r = t
    BY <1>4, <1>5 DEF RequestsInv, IdsApart
  <2>3. \A p \in pending' : p.id \in 1..(next' - 1) /\ p.id \notin short'
    BY <1>1, <1>3, <1>4 DEF RequestsInv, IdsApart
  <2>4. \A p, q \in pending' : p.id = q.id => p = q
    BY <1>3, <1>4 DEF RequestsInv, IdsApart
  <2>5. short' \subseteq 1..(next' - 1)
    BY <1>1, <1>4 DEF RequestsInv, IdsApart
  <2> QED
    BY <2>1, <2>2, <2>3, <2>4, <2>5 DEF IdsApart
<1>7. IdsKnown'
  <2>1. {requests'[r].id : r \in UsedRequests'} = {requests[r].id : r \in UsedRequests} \cup {next}
    BY <1>2
  <2>2. {p.id : p \in pending'} = {p.id : p \in pending} \cup {next}
    BY <1>3
  <2> QED
    BY <1>1, <2>1, <2>2 DEF RequestsInv, IdsKnown, Waiting
<1>8. GivenUpFull'
  BY <1>1 DEF GivenUpFull
<1> QED
  BY <1>6, <1>7, <1>8 DEF RequestsInv

\* So does an answer.
LEMMA AnswerKeeps ==
  ASSUME Typed, RequestsInv, NEW p \in pending, Answer(p)
  PROVE  IdsApart' /\ IdsKnown'
<1>1. pending' = pending \ {p} /\ UNCHANGED <<next, short>>
  BY AnswerEffect
<1>2. PICK r \in UsedRequests :
        /\ requests[r].id = p.id
        /\ UsedRequests' = UsedRequests \ {r}
        /\ \A t \in UsedRequests \ {r} : requests'[t] = requests[t]
  BY AnswerEffect
<1>3. IdsApart'
  BY <1>1, <1>2 DEF RequestsInv, IdsApart
<1>4. {requests'[t].id : t \in UsedRequests'} = {requests[t].id : t \in UsedRequests} \ {p.id}
  BY <1>2 DEF RequestsInv, IdsApart
<1>5. {q.id : q \in pending'} = {q.id : q \in pending} \ {p.id}
  BY <1>1 DEF RequestsInv, IdsApart
<1>6. p.id \notin short
  BY DEF RequestsInv, IdsApart
<1> QED
  BY <1>1, <1>3, <1>4, <1>5, <1>6 DEF RequestsInv, IdsKnown, Waiting

\* After a request: the requests that wait, with their entries in the table, are
\* those that waited before, and the new one.
NewPairs(type, hid, path, file) ==
  /\ \A p \in pending' :
       p \in pending \/ (p.type = type /\ p.id = next /\ p.file = file)
  /\ \A p \in pending', r \in UsedRequests' : requests'[r].id = p.id =>
       \/ /\ p \in pending /\ r \in UsedRequests
          /\ requests'[r] = requests[r] /\ requests[r].id = p.id
       \/ /\ p.type = type /\ p.id = next /\ p.file = file
          /\ requests'[r].hid = hid /\ requests'[r].path = path

\* They are.
LEMMA RequestPairs ==
  ASSUME Typed, RequestsInv, NEW type \in Types, NEW hid \in Handles, NEW path \in Nat,
         NEW file \in Nat, Requested(type, hid, path, file)
  PROVE  NewPairs(type, hid, path, file)
<1>0. NewRequest(type, hid, path, file)
  BY RequestEffect
<1>1. PICK k \in FreeRequests :
        /\ requests' \in [Requests -> RequestRec]
        /\ UsedRequests' = UsedRequests \cup {k}
        /\ \A r \in UsedRequests : requests'[r] = requests[r]
        /\ requests'[k].id = next /\ requests'[k].hid = hid /\ requests'[k].path = path
  BY <1>0 DEF NewRequest
<1>2. PICK w \in PendingRec : /\ w.type = type /\ w.id = next /\ w.file = file
                              /\ pending' = pending \cup {w}
  BY <1>0 DEF NewRequest
<1>3. next \in Nat /\ next \notin 1..(next - 1)
  BY DEF Typed, ClientTyped
<1>4. /\ \A p \in pending : p.id # next
      /\ \A r \in UsedRequests : requests[r].id # next
  BY <1>3 DEF RequestsInv, IdsApart
<1> QED
  BY <1>1, <1>2, <1>4 DEF NewPairs

\* After an answer they are those of the other requests.
LEMMA AnswerPairs ==
  ASSUME Typed, RequestsInv, NEW p \in pending, Answer(p)
  PROVE  /\ \A q \in pending' : q \in pending /\ q # p /\ q.id # p.id
         /\ \A r \in UsedRequests' : r \in UsedRequests /\ requests'[r] = requests[r]
<1>1. PICK r \in UsedRequests :
        /\ UsedRequests' = UsedRequests \ {r}
        /\ \A t \in UsedRequests \ {r} : requests'[t] = requests[t]
  BY AnswerEffect
<1>2. pending' = pending \ {p}
  BY AnswerEffect
<1> QED
  BY <1>1, <1>2 DEF RequestsInv, IdsApart

-----------------------------------------------------------------------------
(***************************************************************************)
(* The table of handles.                                                   *)
(***************************************************************************)

\* Files that are open at the same time have different names.
NamesApart == \A f, g \in DOMAIN open : open[f] = open[g] => f = g

\* A file that is being opened is new, one that is read was opened, and of
\* files that are still to come nothing was moved.
FilesBegin ==
  /\ DOMAIN open \cup ended \subseteq 1..(next - 1)
  /\ \A p \in pending :
       /\ p.type = "OPEN" => /\ p.file = p.id /\ moved[p.file] = 0
                             /\ p.file \notin DOMAIN open \cup ended
       /\ p.type = "READ" => p.file \in DOMAIN open \cup ended
  /\ \A i \in Ids : i >= next => moved[i] = 0

\* The table knows the path of a file that is being opened.
PathNoted ==
  \A p \in pending, r \in UsedRequests :
    p.type = "OPEN" /\ requests[r].id = p.id => requests[r].path = p.file

\* Every handle is that of an open file, under the file's name, and a file has
\* one handle.
HandlesKnown ==
  /\ \A h \in UsedHandles :
       /\ handles[h].path \in DOMAIN open
       /\ handles[h].name = open[handles[h].path]
  /\ \A h, k \in UsedHandles : handles[h].path = handles[k].path => h = k

FilesInv == NamesApart /\ FilesBegin /\ PathNoted /\ HandlesKnown

\* A handle in the table has a path, and a type.
LEMMA UsedHandle ==
  ASSUME Typed, FilesInv, NEW h \in UsedHandles
  PROVE  /\ h \in Handles /\ handles[h] \in HandleRec
         /\ handles[h].path \in Ids /\ handles[h].path # 0 /\ handles[h].size \in Nat
<1>1. h \in Handles /\ handles[h] \in HandleRec
  BY DEF UsedHandles, Typed, TablesTyped
<1>2. handles[h].path \in Ids
  BY DEF FilesInv, HandlesKnown, Typed, ClientTyped
<1> QED
  BY <1>1, <1>2 DEF HandleRec, Ids

\* The lookup of an open file finds its handle, if there is one, and no other.
LEMMA FindHandle ==
  ASSUME Typed, FilesInv, NEW f \in DOMAIN open
  PROVE  /\ \A h \in susshi_find_sftphandle(open[f]) : h \in UsedHandles /\ handles[h].path = f
         /\ \A h \in UsedHandles : handles[h].path = f => susshi_find_sftphandle(open[f]) = {h}
         /\ \A h \in UsedHandles : handles[h].path = f => SlotOf(f) = h
         /\ SlotOf(f) \in Handles
         /\ \/ susshi_find_sftphandle(open[f]) = {}
            \/ \E h \in UsedHandles : susshi_find_sftphandle(open[f]) = {h}
<1> DEFINE S == {h \in UsedHandles : handles[h].name = open[f]}
<1>1. \A h \in S : handles[h].path = f
  BY DEF FilesInv, HandlesKnown, NamesApart
<1>2. \A h \in UsedHandles : handles[h].path = f => h \in S
  BY DEF FilesInv, HandlesKnown
<1>3. \A h, k \in S : h = k
  BY <1>1 DEF FilesInv, HandlesKnown
<1>4. S \subseteq Nat /\ S \subseteq UsedHandles /\ UsedHandles \subseteq Handles
  BY Slots DEF UsedHandles
<1>5. susshi_find_sftphandle(open[f]) = First(S)
  BY DEF susshi_find_sftphandle
<1> HIDE DEF S
<1>6. CASE S = {}
  <2>1. First(S) = {} /\ SlotOf(f) = 0
    BY <1>5, <1>6 DEF First, SlotOf
  <2> QED
    BY <1>2, <1>5, <1>6, <2>1, Slots
<1>7. CASE S # {}
  <2>1. PICK h \in S : First(S) = {h}
    BY <1>4, <1>7, FirstSlot
  <2>2. \A k \in S : k = h
    BY <1>3
  <2>3. SlotOf(f) = h
    BY <1>5, <2>1 DEF SlotOf
  <2> QED
    BY <1>1, <1>2, <1>4, <1>5, <2>1, <2>2, <2>3
<1> QED
  BY <1>6, <1>7

\* The handles after a step: the table keeps its type, those that are left keep
\* name and path.
HandlesLeft(used) ==
  /\ handles' \in [Handles -> HandleRec]
  /\ UsedHandles' = used /\ used \subseteq UsedHandles
  /\ \A h \in used : handles'[h].name = handles[h].name /\ handles'[h].path = handles[h].path

\* Nothing is done to the handles.
LEMMA SameHandles ==
  ASSUME Typed, UNCHANGED handles
  PROVE  HandlesLeft(UsedHandles) /\ \A h \in UsedHandles : handles'[h] = handles[h]
BY DEF HandlesLeft, UsedHandles, Typed, TablesTyped

\* A byte is counted.
LEMMA CountByte ==
  ASSUME Typed, FilesInv, NEW h \in UsedHandles, handles' = [handles EXCEPT ![h].size = @ + 1]
  PROVE  /\ HandlesLeft(UsedHandles)
         /\ \A k \in UsedHandles \ {h} : handles'[k] = handles[k]
         /\ handles'[h] = [handles[h] EXCEPT !.size = @ + 1]
<1> DEFINE x == [handles[h] EXCEPT !.size = @ + 1]
<1>1. h \in Handles /\ handles[h] \in HandleRec /\ handles[h].path # 0 /\ handles[h].size \in Nat
  BY UsedHandle
<1>2. x \in HandleRec /\ x.path = handles[h].path /\ x.name = handles[h].name
  BY <1>1 DEF HandleRec
<1>3. x # NoHandle
  BY <1>1, <1>2 DEF NoHandle
<1>4. handles \in [Handles -> HandleRec]
  BY DEF Typed, TablesTyped
<1>5. handles' = [handles EXCEPT ![h] = x]
  OBVIOUS
<1> HIDE DEF x
<1>6. /\ handles' \in [Handles -> HandleRec] /\ handles'[h] = x
      /\ \A k \in Handles \ {h} : handles'[k] = handles[k]
  BY <1>1, <1>2, <1>4, <1>5
<1>7. UsedHandles' = UsedHandles
  BY <1>3, <1>6 DEF UsedHandles
<1>8. \A k \in UsedHandles \ {h} : handles'[k] = handles[k]
  BY <1>6 DEF UsedHandles
<1>9. HandlesLeft(UsedHandles)
  BY <1>2, <1>6, <1>7, <1>8 DEF HandlesLeft
<1> QED
  BY <1>6, <1>8, <1>9 DEF x

\* A handle is forgotten.
LEMMA ForgetHandle ==
  ASSUME Typed, NEW h \in UsedHandles, handles' = [handles EXCEPT ![h] = NoHandle]
  PROVE  /\ HandlesLeft(UsedHandles \ {h})
         /\ \A k \in UsedHandles \ {h} : handles'[k] = handles[k]
<1>1. NoHandle \in HandleRec /\ handles \in [Handles -> HandleRec] /\ h \in Handles
  BY DEF NoHandle, HandleRec, Typed, TablesTyped, UsedHandles
<1>2. /\ handles' \in [Handles -> HandleRec] /\ handles'[h] = NoHandle
      /\ \A k \in Handles \ {h} : handles'[k] = handles[k]
  BY <1>1
<1>3. UsedHandles' = UsedHandles \ {h}
  BY <1>2 DEF UsedHandles
<1>4. \A k \in UsedHandles \ {h} : handles'[k] = handles[k]
  BY <1>2 DEF UsedHandles
<1> QED
  BY <1>2, <1>3, <1>4 DEF HandlesLeft

\* A handle is entered.
LEMMA EnterHandle ==
  ASSUME Typed, FreeHandles # {}, NEW x \in HandleRec, x.path # 0,
         susshi_alloc_new_sftphandle(x)
  PROVE  /\ handles' \in [Handles -> HandleRec]
         /\ \E k \in FreeHandles :
              UsedHandles' = UsedHandles \cup {k} /\ handles'[k] = x
         /\ \A h \in UsedHandles : handles'[h] = handles[h]
<1> DEFINE k == Min(FreeHandles)
<1>1. FreeHandles \subseteq Nat
  BY Slots DEF FreeHandles
<1>2. k \in FreeHandles
  BY <1>1, FirstSlot
<1>3. k \in Handles /\ k \notin UsedHandles
  BY <1>2 DEF FreeHandles
<1>4. handles' = [handles EXCEPT ![k] = x] /\ handles \in [Handles -> HandleRec]
  BY DEF susshi_alloc_new_sftphandle, Typed, TablesTyped
<1>5. x # NoHandle
  BY DEF NoHandle
<1> HIDE DEF k
<1>6. /\ handles' \in [Handles -> HandleRec] /\ handles'[k] = x
      /\ \A h \in Handles \ {k} : handles'[h] = handles[h]
  BY <1>3, <1>4
<1>7. UsedHandles' = UsedHandles \cup {k}
  BY <1>3, <1>5, <1>6 DEF UsedHandles
<1>8. \A h \in UsedHandles : handles'[h] = handles[h]
  BY <1>3, <1>6 DEF UsedHandles
<1> QED
  BY <1>2, <1>6, <1>7, <1>8

\* Handles that are left are known if their files stay open.
LEMMA LeftKnown ==
  ASSUME FilesInv, NEW used, HandlesLeft(used),
         \A h \in used : /\ handles[h].path \in DOMAIN open'
                         /\ open'[handles[h].path] = open[handles[h].path]
  PROVE  HandlesKnown'
BY DEF FilesInv, HandlesKnown, HandlesLeft

\* No file begins, and nothing is moved for one that has not begun.
FilesStay ==
  /\ DOMAIN open' \cup ended' = DOMAIN open \cup ended
  /\ \A i \in Ids \ (DOMAIN open \cup ended) : moved'[i] = moved[i]

\* A request keeps the files' beginnings.
LEMMA RequestFiles ==
  ASSUME Typed, RequestsInv, FilesInv, NEW type \in Types, NEW hid \in Handles,
         NEW path \in Nat, NEW file \in Nat, Requested(type, hid, path, file), FilesStay,
         type = "OPEN" => path = next /\ file = next,
         type = "READ" => file \in DOMAIN open
  PROVE  FilesBegin' /\ PathNoted'
<1>1. next \in Ids /\ next' = next + 1 /\ next \in Nat
  <2>1. NewRequest(type, hid, path, file)
    BY RequestEffect
  <2> QED
    BY <2>1 DEF NewRequest, Ids
<1>2. /\ \A p \in pending' :
           p \in pending \/ (p.type = type /\ p.id = next /\ p.file = file)
      /\ \A p \in pending', r \in UsedRequests' : requests'[r].id = p.id =>
           \/ /\ p \in pending /\ r \in UsedRequests
              /\ requests'[r] = requests[r] /\ requests[r].id = p.id
           \/ /\ p.type = type /\ p.id = next /\ p.file = file
              /\ requests'[r].hid = hid /\ requests'[r].path = path
  <2>1. NewPairs(type, hid, path, file)
    BY RequestPairs
  <2> QED
    BY <2>1 DEF NewPairs
<1>3. next \notin DOMAIN open \cup ended /\ moved[next] = 0
      /\ \A i \in 1..(next - 1) : i \in 1..(next' - 1)
  BY <1>1 DEF FilesInv, FilesBegin
<1>4. DOMAIN open' \cup ended' \subseteq 1..(next' - 1)
  BY <1>3 DEF FilesInv, FilesBegin, FilesStay
<1>5. ASSUME NEW p \in pending'
      PROVE  /\ p.type = "OPEN" => /\ p.file = p.id /\ moved'[p.file] = 0
                                   /\ p.file \notin DOMAIN open' \cup ended'
             /\ p.type = "READ" => p.file \in DOMAIN open' \cup ended'
  <2>1. CASE p \in pending
    <3>1. p.id \in Ids
      BY <2>1 DEF Typed, ClientTyped, PendingRec
    <3> QED
      BY <2>1, <3>1 DEF FilesInv, FilesBegin, FilesStay
  <2>2. CASE p.type = type /\ p.id = next /\ p.file = file
    BY <1>1, <1>3, <2>2 DEF FilesStay
  <2> QED
    BY <1>2, <2>1, <2>2
<1>6. \A i \in Ids : i >= next' => moved'[i] = 0
  <2> SUFFICES ASSUME NEW i \in Ids, i >= next' PROVE moved'[i] = 0
    OBVIOUS
  <2>1. i >= next /\ i \notin 1..(next - 1)
    BY <1>1 DEF Ids
  <2> QED
    BY <2>1 DEF FilesInv, FilesBegin, FilesStay
<1>7. FilesBegin'
  BY <1>4, <1>5, <1>6 DEF FilesBegin
<1>8. PathNoted'
  BY <1>2 DEF FilesInv, PathNoted
<1> QED
  BY <1>7, <1>8

\* So does an answer, but that to an OPEN, of which the file begins.
LEMMA AnswerFiles ==
  ASSUME Typed, FilesInv, FilesStay, UNCHANGED next,
         \A q \in pending' : q \in pending,
         \A r \in UsedRequests' : r \in UsedRequests /\ requests'[r] = requests[r]
  PROVE  FilesBegin' /\ PathNoted'
<1>1. \A q \in pending : q.id \in Ids
  BY DEF Typed, ClientTyped, PendingRec
<1>2. DOMAIN open' \cup ended' \subseteq 1..(next' - 1)
  BY DEF FilesInv, FilesBegin, FilesStay
<1>3. \A q \in pending' :
        /\ q.type = "OPEN" => /\ q.file = q.id /\ moved'[q.file] = 0
                              /\ q.file \notin DOMAIN open' \cup ended'
        /\ q.type = "READ" => q.file \in DOMAIN open' \cup ended'
  BY <1>1 DEF FilesInv, FilesBegin, FilesStay
<1>4. \A i \in Ids : i >= next' => moved'[i] = 0
  <2> SUFFICES ASSUME NEW i \in Ids, i >= next' PROVE moved'[i] = 0
    OBVIOUS
  <2>1. i \notin 1..(next - 1)
    BY DEF Ids, Typed, ClientTyped
  <2> QED
    BY <2>1 DEF FilesInv, FilesBegin, FilesStay
<1>5. PathNoted'
  BY DEF FilesInv, PathNoted
<1> QED
  BY <1>2, <1>3, <1>4, <1>5 DEF FilesBegin

-----------------------------------------------------------------------------
(***************************************************************************)
(* The bytes.                                                              *)
(***************************************************************************)

\* The slot a READ has noted is still that of its file, unless the file's end
\* was met or the client closed it.
SlotFresh ==
  ~late => \A p \in pending, r \in UsedRequests :
    p.type = "READ" /\ requests[r].id = p.id /\ p.file \notin ended =>
      requests[r].hid \in UsedHandles /\ handles[requests[r].hid].path = p.file

BytesInv == SlotFresh /\ JournalExact

Inv == Typed /\ RequestsInv /\ FilesInv /\ BytesInv

\* The client's types after a request.
LEMMA RequestTyped ==
  ASSUME Typed, NEW type \in Types, NEW hid \in Handles, NEW path \in Nat, NEW file \in Nat,
         Requested(type, hid, path, file)
  PROVE  /\ requests' \in [Requests -> RequestRec] /\ state' \in {"up", "fatal", "crashed"}
         /\ next' \in 1..(MaxRequests + 1) /\ pending' \subseteq PendingRec /\ short' \subseteq Ids
<1>0. NewRequest(type, hid, path, file)
  BY RequestEffect
<1>1. next \in Ids /\ next' = next + 1 /\ UNCHANGED <<state, short>>
  BY <1>0 DEF NewRequest
<1>2. next' \in 1..(MaxRequests + 1)
  BY <1>1, JournalAssumption DEF Ids
<1>3. requests' \in [Requests -> RequestRec]
  BY <1>0 DEF NewRequest
<1>4. pending' \subseteq PendingRec
  BY <1>0 DEF NewRequest, Typed, ClientTyped
<1> QED
  BY <1>1, <1>2, <1>3, <1>4 DEF Typed, ClientTyped

\* A request that does nothing to the files: OPEN, READ and those of which only
\* paths are logged.
LEMMA QuietRequest ==
  ASSUME Inv, NEW type \in Types, NEW hid \in Handles, NEW path \in Nat, NEW file \in Nat,
         Requested(type, hid, path, file),
         UNCHANGED <<handles, open, moved, ended>>, late' \in BOOLEAN, late => late',
         type = "OPEN" => path = next /\ file = next,
         type = "READ" => file \in DOMAIN open,
         type = "READ" /\ ~late' /\ file \notin ended =>
           hid \in UsedHandles /\ handles[hid].path = file
  PROVE  Inv'
<1> USE DEF Inv
<1>1. Typed'
  BY RequestTyped DEF Typed, TablesTyped, ClientTyped
<1>2. RequestsInv'
  BY RequestKeeps
<1>3. UsedHandles' = UsedHandles
  BY DEF UsedHandles
<1>4. FilesStay
  BY DEF FilesStay
<1>5. FilesBegin' /\ PathNoted'
  BY <1>4, RequestFiles
<1>6. NamesApart' /\ HandlesKnown'
  BY <1>3 DEF FilesInv, NamesApart, HandlesKnown
<1>7. SlotFresh'
  <2>1. \A p \in pending', r \in UsedRequests' : requests'[r].id = p.id =>
          \/ /\ p \in pending /\ r \in UsedRequests
             /\ requests'[r] = requests[r] /\ requests[r].id = p.id
          \/ p.type = type /\ p.file = file /\ requests'[r].hid = hid
    <3>1. NewPairs(type, hid, path, file)
      BY RequestPairs
    <3> QED
      BY <3>1 DEF NewPairs
  <2> QED
    BY <1>3, <2>1 DEF BytesInv, SlotFresh
<1>8. JournalExact'
  <2>1. UNCHANGED state
    <3>1. NewRequest(type, hid, path, file)
      BY RequestEffect
    <3> QED
      BY <3>1 DEF NewRequest
  <2> QED
    BY <1>3, <2>1 DEF BytesInv, JournalExact
<1> QED
  BY <1>1, <1>2, <1>5, <1>6, <1>7, <1>8 DEF FilesInv, BytesInv

\* OPEN keeps the path for the answer.
LEMMA OpenRequest == Inv /\ RequestOpen => Inv'
<1> SUFFICES ASSUME Inv, RequestOpen PROVE Inv'
  OBVIOUS
<1>1. Requested("OPEN", 0, next, next) /\ UNCHANGED <<handles, open, moved, ended, late>>
  BY DEF RequestOpen, Requested
<1>2. next \in Nat /\ late' \in BOOLEAN /\ "OPEN" \in Types
  BY <1>1 DEF Inv, Typed, ClientTyped, Types
<1> QED
  BY <1>1, <1>2, QuietRequest, Slots

\* The requests that are only logged.
LEMMA LoggedRequest ==
  Inv /\ (RequestPath \/ \E f \in DOMAIN open : RequestHandle(f)) => Inv'
<1> SUFFICES ASSUME Inv, RequestPath \/ \E f \in DOMAIN open : RequestHandle(f) PROVE Inv'
  OBVIOUS
<1>1. PICK f \in DOMAIN open \cup {0} :
        Requested("OTHER", 0, 0, f) /\ UNCHANGED <<handles, open, moved, ended, late>>
  BY DEF RequestPath, RequestHandle, Requested
<1>2. f \in Nat /\ late' \in BOOLEAN /\ "OTHER" \in Types
  BY <1>1 DEF Inv, Typed, ClientTyped, Types, Ids
<1> QED
  BY <1>1, <1>2, QuietRequest, Slots

\* READ notes the slot of the file.
LEMMA ReadRequest == Inv /\ (\E f \in DOMAIN open : RequestRead(f)) => Inv'
<1> SUFFICES ASSUME Inv, NEW f \in DOMAIN open, RequestRead(f) PROVE Inv'
  OBVIOUS
<1>1. /\ Requested("READ", SlotOf(f), 0, f) /\ UNCHANGED <<handles, open, moved, ended>>
      /\ late' = (late \/ f \in ended)
  BY DEF RequestRead, Requested
<1>2. f \in Nat /\ late \in BOOLEAN /\ "READ" \in Types /\ SlotOf(f) \in Handles
  BY FindHandle DEF Inv, Typed, ClientTyped, Types, Ids
<1>3. state = "up"
  BY DEF RequestRead, CanRequest
<1>4. ASSUME ~late', f \notin ended PROVE SlotOf(f) \in UsedHandles /\ handles[SlotOf(f)].path = f
  <2>1. ~late
    BY <1>1, <1>2, <1>4
  <2>2. PICK h \in UsedHandles : handles[h] = [name |-> open[f], path |-> f, size |-> moved[f]]
    BY <1>3, <1>4, <2>1 DEF Inv, BytesInv, JournalExact
  <2>3. handles[h].path = f
    BY <2>2
  <2> QED
    BY <2>3, FindHandle DEF Inv
<1>5. late' \in BOOLEAN /\ (late => late')
  BY <1>1, <1>2
<1> QED
  BY <1>1, <1>2, <1>4, <1>5, QuietRequest

\* The bytes of a WRITE under a long name are not counted.
LEMMA WriteLongRequest == Inv /\ (\E f \in DOMAIN open : RequestWriteLong(f)) => Inv'
<1> SUFFICES ASSUME Inv, NEW f \in DOMAIN open, RequestWriteLong(f) PROVE Inv'
  OBVIOUS
<1>1. Requested("WRITE", 0, 0, f) /\ UNCHANGED <<handles, open, moved, ended, late>>
  BY DEF RequestWriteLong, Requested
<1>2. f \in Nat /\ late' \in BOOLEAN /\ "WRITE" \in Types
  BY <1>1 DEF Inv, Typed, ClientTyped, Types, Ids
<1> QED
  BY <1>1, <1>2, QuietRequest, Slots

\* The bytes of any other WRITE are counted with its request.
LEMMA WriteRequest == Inv /\ (\E f \in DOMAIN open : RequestWrite(f)) => Inv'
<1> SUFFICES ASSUME Inv, NEW f \in DOMAIN open, RequestWrite(f) PROVE Inv'
  OBVIOUS
<1> USE DEF Inv
<1> DEFINE found == susshi_find_sftphandle(open[f])
<1>1. /\ Requested("WRITE", SlotOf(f), 0, f) /\ UNCHANGED <<open, ended, late>>
      /\ moved' = [moved EXCEPT ![f] = @ + 1]
      /\ handles' = [h \in Handles |-> IF h \in found THEN [handles[h] EXCEPT !.size = @ + 1]
                                       ELSE handles[h]]
  BY DEF RequestWrite, Requested
<1>2. /\ f \in Ids /\ f \in Nat /\ "WRITE" \in Types /\ SlotOf(f) \in Handles
      /\ moved \in [Ids -> Nat] /\ handles \in [Handles -> HandleRec]
  BY FindHandle DEF Typed, TablesTyped, ClientTyped, Types, Ids
<1>3. moved' \in [Ids -> Nat] /\ moved'[f] = moved[f] + 1 /\ \A i \in Ids \ {f} : moved'[i] = moved[i]
  BY <1>1, <1>2
<1>4. /\ HandlesLeft(UsedHandles)
      /\ \A h \in UsedHandles \ found : handles'[h] = handles[h]
      /\ \A h \in UsedHandles \cap found : handles'[h] = [handles[h] EXCEPT !.size = @ + 1]
  <2>1. CASE found = {}
    <3>1. handles' = handles
      BY <1>1, <1>2, <2>1
    <3> QED
      BY <2>1, <3>1, SameHandles
  <2>2. ASSUME NEW h \in UsedHandles, found = {h}
        PROVE  /\ HandlesLeft(UsedHandles)
               /\ \A k \in UsedHandles \ found : handles'[k] = handles[k]
               /\ \A k \in UsedHandles \cap found : handles'[k] = [handles[k] EXCEPT !.size = @ + 1]
    <3>1. handles' = [handles EXCEPT ![h].size = @ + 1]
      BY <1>1, <1>2, <2>2
    <3> QED
      BY <2>2, <3>1, CountByte
  <2> QED
    BY <2>1, <2>2, FindHandle
<1>5. Typed'
  BY <1>1, <1>2, <1>3, <1>4, RequestTyped DEF Typed, TablesTyped, ClientTyped, HandlesLeft
<1>6. RequestsInv'
  BY <1>1, <1>2, RequestKeeps
<1>7. FilesStay
  BY <1>1, <1>3 DEF FilesStay
<1>8. FilesBegin' /\ PathNoted'
  BY <1>1, <1>2, <1>7, RequestFiles
<1>9. NamesApart' /\ HandlesKnown'
  <2>1. \A h \in UsedHandles : handles[h].path \in DOMAIN open
    BY DEF FilesInv, HandlesKnown
  <2> QED
    BY <1>1, <1>4, <2>1, LeftKnown DEF FilesInv, NamesApart
<1>10. SlotFresh'
  <2>1. \A p \in pending', r \in UsedRequests' : requests'[r].id = p.id =>
          \/ /\ p \in pending /\ r \in UsedRequests
             /\ requests'[r] = requests[r] /\ requests[r].id = p.id
          \/ p.type = "WRITE"
    <3>1. Requested("WRITE", SlotOf(f), 0, f)
      BY <1>1
    <3>2. "WRITE" \in Types /\ SlotOf(f) \in Handles /\ 0 \in Nat /\ f \in Nat
      BY <1>2
    <3>3. NewPairs("WRITE", SlotOf(f), 0, f)
      BY <3>1, <3>2, RequestPairs
    <3> QED
      BY <3>3 DEF NewPairs
  <2> QED
    BY <1>1, <1>4, <2>1 DEF BytesInv, SlotFresh, HandlesLeft
<1>11. JournalExact'
  <2>1. UNCHANGED <<state, late>> /\ state = "up"
    <3>1. NewRequest("WRITE", SlotOf(f), 0, f)
      BY <1>1, <1>2, RequestEffect
    <3> QED
      BY <1>1, <3>1 DEF NewRequest
  <2>2. ASSUME ~late, NEW g \in DOMAIN open \ ended
        PROVE  \E h \in UsedHandles :
                 handles'[h] = [name |-> open[g], path |-> g, size |-> moved'[g]]
    <3>1. PICK h \in UsedHandles : handles[h] = [name |-> open[g], path |-> g, size |-> moved[g]]
      BY <2>1, <2>2 DEF BytesInv, JournalExact
    <3>2. handles[h].path = g /\ g \in Ids
      BY <3>1 DEF Typed, ClientTyped
    <3>3. CASE g = f
      <4>1. found = {h}
        BY <3>2, <3>3, FindHandle
      <4>2. handles'[h] = [name |-> open[f], path |-> f, size |-> moved[f] + 1]
        BY <1>4, <3>1, <3>3, <4>1
      <4> QED
        BY <1>3, <3>3, <4>2
    <3>4. CASE g # f
      <4>1. h \notin found
        BY <3>2, <3>4, FindHandle
      <4> QED
        BY <1>3, <1>4, <3>1, <3>2, <3>4, <4>1
    <3> QED
      BY <3>3, <3>4
  <2>3. UsedHandles' = UsedHandles /\ UNCHANGED <<open, ended, late, state>> /\ state = "up"
    BY <1>1, <1>4, <2>1 DEF HandlesLeft
  <2> QED
    BY <2>2, <2>3 DEF JournalExact
<1> QED
  BY <1>5, <1>6, <1>8, <1>9, <1>10, <1>11 DEF FilesInv, BytesInv

\* CLOSE forgets the handle of its file and no other.
LEMMA CloseRequest == Inv /\ (\E f \in DOMAIN open : RequestClose(f)) => Inv'
<1> SUFFICES ASSUME Inv, NEW f \in DOMAIN open, RequestClose(f) PROVE Inv'
  OBVIOUS
<1> USE DEF Inv
<1> DEFINE found == susshi_find_sftphandle(open[f])
<1>1. /\ Requested("CLOSE", 0, 0, f) /\ UNCHANGED <<moved, late>>
      /\ handles' = [h \in Handles |-> IF h \in found THEN NoHandle ELSE handles[h]]
      /\ open' = Restrict(open, DOMAIN open \ {f}) /\ ended' = ended \cup {f}
  BY DEF RequestClose, Requested
<1>2. /\ f \in Ids /\ f \in Nat /\ "CLOSE" \in Types /\ 0 \in Handles /\ 0 \in Nat
      /\ handles \in [Handles -> HandleRec]
  BY Slots DEF Typed, TablesTyped, ClientTyped, Types, Ids
<1>3. DOMAIN open' = DOMAIN open \ {f} /\ \A g \in DOMAIN open \ {f} : open'[g] = open[g]
  BY <1>1 DEF Restrict
<1>4. /\ HandlesLeft(UsedHandles \ found)
      /\ \A h \in UsedHandles \ found : handles'[h] = handles[h]
  <2>1. CASE found = {}
    <3>1. handles' = handles /\ UsedHandles \ found = UsedHandles
      BY <1>1, <1>2, <2>1
    <3> QED
      BY <2>1, <3>1, SameHandles
  <2>2. ASSUME NEW h \in UsedHandles, found = {h}
        PROVE  /\ HandlesLeft(UsedHandles \ found)
               /\ \A k \in UsedHandles \ found : handles'[k] = handles[k]
    <3>1. handles' = [handles EXCEPT ![h] = NoHandle]
      BY <1>1, <1>2, <2>2
    <3> QED
      BY <2>2, <3>1, ForgetHandle
  <2> QED
    BY <2>1, <2>2, FindHandle
<1>5. Typed'
  BY <1>1, <1>2, <1>3, <1>4, RequestTyped DEF Typed, TablesTyped, ClientTyped, HandlesLeft
<1>6. RequestsInv'
  BY <1>1, <1>2, RequestKeeps
<1>7. FilesStay
  BY <1>1, <1>3 DEF FilesStay
<1>8. FilesBegin' /\ PathNoted'
  BY <1>1, <1>2, <1>7, RequestFiles
<1>9. \A h \in UsedHandles \ found : handles[h].path \in DOMAIN open \ {f}
  BY FindHandle DEF FilesInv, HandlesKnown
<1>10. NamesApart' /\ HandlesKnown'
  BY <1>3, <1>4, <1>9, LeftKnown DEF FilesInv, NamesApart
<1>11. \A h \in UsedHandles : handles[h].path # f => h \notin found
  BY FindHandle
<1>12. SlotFresh'
  <2>1. \A p \in pending', r \in UsedRequests' : requests'[r].id = p.id =>
          \/ /\ p \in pending /\ r \in UsedRequests
             /\ requests'[r] = requests[r] /\ requests[r].id = p.id
          \/ p.type = "CLOSE"
    <3>1. NewPairs("CLOSE", 0, 0, f)
      BY <1>1, <1>2, RequestPairs
    <3> QED
      BY <3>1 DEF NewPairs
  <2> QED
    BY <1>1, <1>4, <1>11, <2>1 DEF BytesInv, SlotFresh, HandlesLeft
<1>13. JournalExact'
  <2>1. UNCHANGED <<state, late, moved>> /\ state = "up"
    <3>1. NewRequest("CLOSE", 0, 0, f)
      BY <1>1, <1>2, RequestEffect
    <3> QED
      BY <1>1, <3>1 DEF NewRequest
  <2>2. ASSUME ~late, NEW g \in DOMAIN open \ ended, g # f
        PROVE  \E h \in UsedHandles' :
                 handles'[h] = [name |-> open'[g], path |-> g, size |-> moved[g]]
    <3>1. PICK h \in UsedHandles : handles[h] = [name |-> open[g], path |-> g, size |-> moved[g]]
      BY <2>1, <2>2 DEF BytesInv, JournalExact
    <3>2. h \in UsedHandles \ found
      BY <1>11, <2>2, <3>1
    <3> QED
      BY <1>3, <1>4, <2>2, <3>1, <3>2 DEF HandlesLeft
  <2>3. /\ UNCHANGED <<moved, late, state>> /\ state = "up"
        /\ \A g \in DOMAIN open' \ ended' : g \in DOMAIN open \ ended /\ g # f
    BY <1>1, <1>3, <2>1
  <2> QED
    BY <2>2, <2>3 DEF JournalExact
<1> QED
  BY <1>5, <1>6, <1>8, <1>10, <1>12, <1>13 DEF FilesInv, BytesInv

\* Requests leave the table or not, and nothing is done to the files.
LEMMA QuietStep ==
  ASSUME Inv, requests' \in [Requests -> RequestRec], pending' \subseteq pending,
         \A r \in UsedRequests' : r \in UsedRequests /\ requests'[r] = requests[r],
         short' \subseteq Ids, state' = state \/ state' = "fatal",
         UNCHANGED <<handles, next, open, moved, ended, late>>
  PROVE  Typed' /\ FilesInv' /\ BytesInv'
<1> USE DEF Inv
<1>1. Typed'
  BY DEF Typed, TablesTyped, ClientTyped
<1>2. UsedHandles' = UsedHandles
  BY DEF UsedHandles
<1>3. FilesBegin' /\ PathNoted'
  <2>1. FilesStay
    BY DEF FilesStay
  <2> QED
    BY <2>1, AnswerFiles
<1>4. NamesApart' /\ HandlesKnown'
  BY <1>2 DEF FilesInv, NamesApart, HandlesKnown
<1>5. SlotFresh' /\ JournalExact'
  BY <1>2 DEF BytesInv, SlotFresh, JournalExact
<1> QED
  BY <1>1, <1>3, <1>4, <1>5 DEF FilesInv, BytesInv

\* The table of requests is full, or nothing happens.
LEMMA FullStep == Inv /\ (TableFull \/ UNCHANGED vars) => Inv'
<1> SUFFICES ASSUME Inv, TableFull \/ UNCHANGED vars PROVE Inv'
  OBVIOUS
<1>1. UNCHANGED <<requests, handles, next, pending, open, moved, ended, late, short>>
  BY DEF TableFull, vars, journal
<1>2. state' = state \/ (state' = "fatal" /\ FreeRequests = {})
  BY DEF TableFull, vars
<1>3. UNCHANGED <<UsedRequests, UsedHandles, FreeRequests, FreeHandles>>
  BY <1>1 DEF UsedRequests, UsedHandles, FreeRequests, FreeHandles
<1>4. RequestsInv'
  BY <1>1, <1>2, <1>3 DEF Inv, RequestsInv, IdsApart, IdsKnown, Waiting, GivenUpFull
<1>5. requests' \in [Requests -> RequestRec] /\ short' \subseteq Ids
  BY <1>1 DEF Inv, Typed, TablesTyped, ClientTyped
<1>6. Typed' /\ FilesInv' /\ BytesInv'
  BY <1>1, <1>2, <1>3, <1>5, QuietStep
<1> QED
  BY <1>4, <1>6 DEF Inv

\* An answer that cannot be decoded leaves its request in the table.
LEMMA ShortAnswer == Inv /\ (\E p \in pending : AnswerShort(p)) => Inv'
<1> SUFFICES ASSUME Inv, NEW p \in pending, AnswerShort(p) PROVE Inv'
  OBVIOUS
<1>1. /\ UNCHANGED <<requests, handles, state, next, open, moved, ended, late>>
      /\ state = "up" /\ pending' = pending \ {p} /\ short' = short \cup {p.id}
  BY DEF AnswerShort, Answered, journal
<1>2. UsedRequests' = UsedRequests
  BY <1>1 DEF UsedRequests
<1>3. IdsApart'
  <2>1. IdsApart
    BY DEF Inv, RequestsInv
  <2>2. \A r \in UsedRequests' : requests'[r].id \in 1..(next' - 1)
    BY <1>1, <1>2, <2>1 DEF IdsApart
  <2>3. \A r, s \in UsedRequests' : requests'[r].id = requests'[s].id => r = s
    BY <1>1, <1>2, <2>1 DEF IdsApart
  <2>4. \A q \in pending' : q \in pending /\ q.id # p.id
    BY <1>1, <2>1 DEF IdsApart
  <2>5. \A q \in pending' : q.id \in 1..(next' - 1) /\ q.id \notin short'
    BY <1>1, <2>1, <2>4 DEF IdsApart
  <2>6. \A q, t \in pending' : q.id = t.id => q = t
    BY <2>1, <2>4 DEF IdsApart
  <2>7. short' \subseteq 1..(next' - 1)
    <3>1. short \subseteq 1..(next - 1) /\ p.id \in 1..(next - 1)
      BY <2>1 DEF IdsApart
    <3>2. short' = short \cup {p.id} /\ next' = next
      BY <1>1
    <3> QED
      BY <3>1, <3>2
  <2> QED
    BY <2>2, <2>3, <2>5, <2>6, <2>7 DEF IdsApart
<1>4. Waiting' = Waiting
  BY <1>1 DEF Inv, RequestsInv, IdsApart, Waiting
<1>5. RequestsInv'
  BY <1>1, <1>2, <1>3, <1>4 DEF Inv, RequestsInv, IdsKnown, GivenUpFull
<1>6. requests' \in [Requests -> RequestRec] /\ short' \subseteq Ids
  BY <1>1 DEF Inv, Typed, TablesTyped, ClientTyped, PendingRec
<1>7. Typed' /\ FilesInv' /\ BytesInv'
  BY <1>1, <1>2, <1>6, QuietStep
<1> QED
  BY <1>5, <1>7 DEF Inv

\* NAME, ATTRS and the others that are only logged, and a STATUS for anything
\* but a READ.
LEMMA LoggedAnswer ==
  Inv /\ (\E p \in pending : AnswerOther(p) \/ (AnswerStatus(p) /\ p.type # "READ")) => Inv'
<1> SUFFICES ASSUME Inv, NEW p \in pending, AnswerOther(p) \/ (AnswerStatus(p) /\ p.type # "READ")
             PROVE  Inv'
  OBVIOUS
<1> USE DEF Inv
<1>1. Answer(p) /\ UNCHANGED <<state, open, moved, ended>>
  BY DEF AnswerOther, AnswerStatus
<1>2. state = "up" /\ UNCHANGED <<next, short>> /\ requests' \in [Requests -> RequestRec]
  BY <1>1, AnswerEffect
<1>3. UNCHANGED <<handles, late>>
  <2>1. late \in BOOLEAN
    BY DEF Typed
  <2> QED
    BY <2>1 DEF AnswerOther, AnswerStatus
<1>4. /\ pending' \subseteq pending
      /\ \A r \in UsedRequests' : r \in UsedRequests /\ requests'[r] = requests[r]
  BY <1>1, AnswerPairs
<1>5. RequestsInv'
  BY <1>1, <1>2, AnswerKeeps DEF RequestsInv, GivenUpFull
<1>6. short' \subseteq Ids
  BY <1>2 DEF Typed, ClientTyped
<1>7. Typed' /\ FilesInv' /\ BytesInv'
  BY <1>1, <1>2, <1>3, <1>4, <1>6, QuietStep
<1> QED
  BY <1>5, <1>7

\* A READ is answered: its request r leaves the table, the other requests stay.
LEMMA ReadAnswered ==
  ASSUME Inv, NEW p \in pending, p.type = "READ", Answer(p)
  PROVE  /\ state = "up" /\ UNCHANGED <<next, short>>
         /\ p.file \in DOMAIN open \cup ended /\ p.file \in Ids
         /\ requests' \in [Requests -> RequestRec] /\ pending' \subseteq pending
         /\ \A r \in UsedRequests' : r \in UsedRequests /\ requests'[r] = requests[r]
         /\ \E r \in UsedRequests :
              /\ susshi_find_sftprequest(p.id) = {r} /\ requests[r].hid \in Handles
              /\ ~late /\ p.file \notin ended =>
                   requests[r].hid \in UsedHandles /\ handles[requests[r].hid].path = p.file
<1> USE DEF Inv
<1>1. PICK r \in UsedRequests : requests[r].id = p.id /\ susshi_find_sftprequest(p.id) = {r}
  BY AnswerEffect
<1>2. requests[r].hid \in Handles
  BY DEF UsedRequests, Typed, TablesTyped, RequestRec
<1>3. ~late /\ p.file \notin ended =>
        requests[r].hid \in UsedHandles /\ handles[requests[r].hid].path = p.file
  BY <1>1 DEF BytesInv, SlotFresh
<1>4. p.file \in DOMAIN open \cup ended
  BY DEF FilesInv, FilesBegin
<1>5. p.file \in Ids
  BY <1>4 DEF Typed, ClientTyped
<1>6. state = "up" /\ UNCHANGED <<next, short>> /\ requests' \in [Requests -> RequestRec]
  BY AnswerEffect
<1>7. /\ pending' \subseteq pending
      /\ \A t \in UsedRequests' : t \in UsedRequests /\ requests'[t] = requests[t]
  BY AnswerPairs
<1> QED
  BY <1>1, <1>2, <1>3, <1>4, <1>5, <1>6, <1>7

\* DATA is counted for the handle in the slot the request has noted.
LEMMA DataAnswer == Inv /\ (\E p \in pending : AnswerData(p)) => Inv'
<1> SUFFICES ASSUME Inv, NEW p \in pending, AnswerData(p) PROVE Inv'
  OBVIOUS
<1> USE DEF Inv
<1>1. /\ p.type = "READ" /\ Answer(p) /\ UNCHANGED <<open, ended>>
      /\ moved' = [moved EXCEPT ![p.file] = @ + 1]
      /\ late' = (late \/ p.file \in ended)
  BY DEF AnswerData
<1>2. /\ state = "up" /\ UNCHANGED <<next, short>>
      /\ p.file \in DOMAIN open \cup ended /\ p.file \in Ids
      /\ requests' \in [Requests -> RequestRec] /\ pending' \subseteq pending
      /\ \A r \in UsedRequests' : r \in UsedRequests /\ requests'[r] = requests[r]
  BY <1>1, ReadAnswered
<1>3. PICK r \in UsedRequests :
        /\ susshi_find_sftprequest(p.id) = {r} /\ requests[r].hid \in Handles
        /\ ~late /\ p.file \notin ended =>
             requests[r].hid \in UsedHandles /\ handles[requests[r].hid].path = p.file
  BY <1>1, ReadAnswered
<1> DEFINE h == requests[r].hid
<1>4. IF h \in FreeHandles THEN state' = "crashed" /\ UNCHANGED handles
      ELSE handles' = [handles EXCEPT ![h].size = @ + 1] /\ UNCHANGED state
  BY <1>3 DEF AnswerData
<1>5. h \in FreeHandles \/ h \in UsedHandles
  BY <1>3 DEF FreeHandles
<1>6. ~late' => ~late /\ p.file \notin ended
  BY <1>1 DEF Typed
<1>7. moved' \in [Ids -> Nat] /\ moved'[p.file] = moved[p.file] + 1
      /\ \A i \in Ids \ {p.file} : moved'[i] = moved[i]
  BY <1>1, <1>2 DEF Typed, ClientTyped
<1> HIDE DEF h
<1>8. HandlesLeft(UsedHandles)
  BY <1>4, <1>5, SameHandles, CountByte
<1>9. state' \in {"up", "crashed"}
  BY <1>2, <1>4
<1>10. Typed'
  <2>1. late' \in BOOLEAN
    BY <1>1 DEF Typed
  <2> QED
    BY <1>1, <1>2, <1>7, <1>8, <1>9, <2>1 DEF Typed, TablesTyped, ClientTyped, HandlesLeft
<1>11. RequestsInv'
  BY <1>1, <1>9, AnswerKeeps DEF RequestsInv, GivenUpFull
<1>12. FilesBegin' /\ PathNoted'
  <2>1. FilesStay
    BY <1>1, <1>2, <1>7 DEF FilesStay
  <2> QED
    BY <1>2, <2>1, AnswerFiles
<1>13. NamesApart' /\ HandlesKnown'
  <2>1. \A k \in UsedHandles : handles[k].path \in DOMAIN open
    BY DEF FilesInv, HandlesKnown
  <2> QED
    BY <1>1, <1>8, <2>1, LeftKnown DEF FilesInv, NamesApart
<1>14. SlotFresh'
  BY <1>1, <1>2, <1>6, <1>8 DEF BytesInv, SlotFresh, HandlesLeft
<1>15. ASSUME ~late' PROVE state' # "crashed" /\ h \in UsedHandles /\ handles[h].path = p.file
  <2>1. h \in UsedHandles /\ handles[h].path = p.file
    BY <1>3, <1>6, <1>15 DEF h
  <2>2. h \notin FreeHandles
    BY <2>1 DEF FreeHandles
  <2> QED
    BY <1>2, <1>4, <2>1, <2>2
<1>16. ASSUME ~late', NEW g \in DOMAIN open \ ended
       PROVE  \E k \in UsedHandles :
                handles'[k] = [name |-> open[g], path |-> g, size |-> moved'[g]]
  <2>1. PICK k \in UsedHandles : handles[k] = [name |-> open[g], path |-> g, size |-> moved[g]]
    BY <1>2, <1>6, <1>16 DEF BytesInv, JournalExact
  <2>2. handles[k].path = g /\ g \in Ids
    BY <2>1 DEF Typed, ClientTyped
  <2>3. h \in UsedHandles /\ handles[h].path = p.file /\ h \notin FreeHandles
    BY <1>15, <1>16 DEF FreeHandles
  <2>4. /\ \A x \in UsedHandles \ {h} : handles'[x] = handles[x]
        /\ handles'[h] = [handles[h] EXCEPT !.size = @ + 1]
    BY <1>4, <2>3, CountByte
  <2>5. CASE g = p.file
    <3>1. k = h
      BY <2>2, <2>3, <2>5 DEF FilesInv, HandlesKnown
    <3>2. handles'[h] = [name |-> open[g], path |-> g, size |-> moved[g] + 1]
      BY <2>1, <2>4, <3>1
    <3> QED
      BY <1>7, <2>3, <2>5, <3>2
  <2>6. CASE g # p.file
    <3>1. k # h
      BY <2>2, <2>3, <2>6
    <3> QED
      BY <1>7, <2>1, <2>2, <2>4, <2>6, <3>1
  <2> QED
    BY <2>5, <2>6
<1>17. JournalExact'
  <2>1. UsedHandles' = UsedHandles /\ UNCHANGED <<open, ended>>
    BY <1>1, <1>8 DEF HandlesLeft
  <2> QED
    BY <1>15, <1>16, <2>1 DEF JournalExact
<1> QED
  BY <1>10, <1>11, <1>12, <1>13, <1>14, <1>17 DEF FilesInv, BytesInv

\* A READ that gets no data ends the account of the slot it has noted, which is
\* that of its file unless a file was read after its end.
LEMMA EndAnswer == Inv /\ (\E p \in pending : AnswerStatus(p) /\ p.type = "READ") => Inv'
<1> SUFFICES ASSUME Inv, NEW p \in pending, AnswerStatus(p), p.type = "READ" PROVE Inv'
  OBVIOUS
<1> USE DEF Inv
<1>1. /\ Answer(p) /\ UNCHANGED <<state, open, moved>> /\ ended' = ended \cup {p.file}
  BY DEF AnswerStatus
<1>2. /\ state = "up" /\ UNCHANGED <<next, short>>
      /\ p.file \in DOMAIN open \cup ended /\ p.file \in Ids
      /\ requests' \in [Requests -> RequestRec] /\ pending' \subseteq pending
      /\ \A r \in UsedRequests' : r \in UsedRequests /\ requests'[r] = requests[r]
  BY <1>1, ReadAnswered
<1>3. PICK r \in UsedRequests :
        susshi_find_sftprequest(p.id) = {r} /\ requests[r].hid \in Handles
  BY <1>1, ReadAnswered
<1> DEFINE h == requests[r].hid
<1>4. /\ \/ h \in UsedHandles /\ susshi_free_sftphandle(h)
         \/ UNCHANGED handles
      /\ late' = (late \/ Stale(p, h))
  BY <1>3 DEF AnswerStatus
<1>5. late' \in BOOLEAN /\ (~late' => ~late)
      /\ (~late' /\ h \in UsedHandles => handles[h].path = p.file)
  BY <1>4 DEF Stale, Typed
<1> HIDE DEF h
<1>6. PICK used \in {UsedHandles, UsedHandles \ {h}} :
        /\ HandlesLeft(used) /\ \A k \in used : handles'[k] = handles[k]
        /\ h \in UsedHandles \/ used = UsedHandles
  <2>1. CASE UNCHANGED handles
    BY <2>1, SameHandles
  <2>2. CASE h \in UsedHandles /\ susshi_free_sftphandle(h)
    BY <2>2, ForgetHandle DEF susshi_free_sftphandle
  <2> QED
    BY <1>4, <2>1, <2>2
<1>7. ASSUME ~late', NEW k \in UsedHandles, handles[k].path # p.file PROVE k \in used
  BY <1>5, <1>6, <1>7
<1>8. Typed'
  BY <1>1, <1>2, <1>5, <1>6 DEF Typed, TablesTyped, ClientTyped, HandlesLeft
<1>9. RequestsInv'
  BY <1>1, <1>2, AnswerKeeps DEF RequestsInv, GivenUpFull
<1>10. FilesBegin' /\ PathNoted'
  <2>1. FilesStay
    BY <1>1, <1>2 DEF FilesStay
  <2> QED
    BY <1>2, <2>1, AnswerFiles
<1>11. NamesApart' /\ HandlesKnown'
  <2>1. \A k \in used : handles[k].path \in DOMAIN open
    BY <1>6 DEF FilesInv, HandlesKnown
  <2> QED
    BY <1>1, <1>6, <2>1, LeftKnown DEF FilesInv, NamesApart
<1>12. SlotFresh'
  BY <1>1, <1>2, <1>5, <1>6, <1>7 DEF BytesInv, SlotFresh, HandlesLeft
<1>13. ASSUME ~late', NEW g \in DOMAIN open \ ended, g # p.file
       PROVE  \E k \in used : handles'[k] = [name |-> open[g], path |-> g, size |-> moved[g]]
  <2>1. PICK k \in UsedHandles : handles[k] = [name |-> open[g], path |-> g, size |-> moved[g]]
    BY <1>2, <1>5, <1>13 DEF BytesInv, JournalExact
  <2>2. handles[k].path # p.file
    BY <1>13, <2>1
  <2>3. k \in used
    BY <1>7, <1>13, <2>2
  <2> QED
    BY <1>6, <2>1, <2>3
<1>14. JournalExact'
  <2>1. UsedHandles' = used /\ UNCHANGED <<open, moved, state>> /\ ended' = ended \cup {p.file}
    BY <1>1, <1>6 DEF HandlesLeft
  <2> QED
    BY <1>2, <1>13, <2>1 DEF JournalExact
<1> QED
  BY <1>8, <1>9, <1>10, <1>11, <1>12, <1>14 DEF FilesInv, BytesInv

\* HANDLE enters the file that was opened, under the path its request has kept.
LEMMA HandleAnswer ==
  Inv /\ (\E p \in pending, name \in HandleNames : AnswerHandle(p, name)) => Inv'
<1> SUFFICES ASSUME Inv, NEW p \in pending, NEW name \in HandleNames, AnswerHandle(p, name)
             PROVE  Inv'
  OBVIOUS
<1> USE DEF Inv
<1>1. /\ p.type = "OPEN" /\ name \notin Taken /\ Answer(p) /\ UNCHANGED <<moved, ended, late>>
      /\ open' = [f \in DOMAIN open \cup {p.file} |-> IF f = p.file THEN name ELSE open[f]]
  BY DEF AnswerHandle
<1>2. state = "up" /\ UNCHANGED <<next, short>> /\ requests' \in [Requests -> RequestRec]
  BY <1>1, AnswerEffect
<1>3. /\ \A q \in pending' : q \in pending /\ q.id # p.id
      /\ \A r \in UsedRequests' : r \in UsedRequests /\ requests'[r] = requests[r]
  BY <1>1, AnswerPairs
<1>4. /\ p.file = p.id /\ p.file \in Ids /\ p.file # 0 /\ p.file \in 1..(next - 1)
      /\ p.file \notin DOMAIN open \cup ended /\ moved[p.file] = 0
  BY <1>1 DEF FilesInv, FilesBegin, RequestsInv, IdsApart, Typed, ClientTyped, PendingRec, Ids
<1>5. PICK r \in UsedRequests : requests[r].id = p.id /\ susshi_find_sftprequest(p.id) = {r}
  BY <1>1, AnswerEffect
<1>6. requests[r].path = p.file
  BY <1>1, <1>5 DEF FilesInv, PathNoted
<1> DEFINE x == [name |-> name, path |-> p.file, size |-> 0]
<1>7. IF FreeHandles = {} THEN state' = "fatal" /\ UNCHANGED handles
      ELSE susshi_alloc_new_sftphandle(x) /\ UNCHANGED state
  BY <1>5, <1>6 DEF AnswerHandle
<1>8. x \in HandleRec /\ x.path = p.file /\ x.name = name
  BY <1>4 DEF HandleRec, Ids
<1>9. DOMAIN open' = DOMAIN open \cup {p.file} /\ open'[p.file] = name
      /\ \A f \in DOMAIN open : open'[f] = open[f] /\ open[f] # name
  BY <1>1, <1>4 DEF Taken
<1> HIDE DEF x
<1>10. /\ handles' \in [Handles -> HandleRec]
       /\ \A h \in UsedHandles : handles'[h] = handles[h] /\ h \in UsedHandles'
       /\ \A h \in UsedHandles' : h \in UsedHandles \/ handles'[h] = x
       /\ \A h, k \in UsedHandles' : h \in UsedHandles \/ k \in UsedHandles \/ h = k
       /\ \/ state' = "fatal" /\ FreeHandles' = {}
          \/ state' = "up" /\ \E k \in UsedHandles' : handles'[k] = x
  <2>1. CASE FreeHandles = {}
    <3>1. UNCHANGED <<UsedHandles, FreeHandles>> /\ handles' \in [Handles -> HandleRec]
      BY <1>7, <2>1 DEF UsedHandles, FreeHandles, Typed, TablesTyped
    <3> QED
      BY <1>7, <2>1, <3>1
  <2>2. CASE FreeHandles # {}
    <3>1. PICK k \in FreeHandles : UsedHandles' = UsedHandles \cup {k} /\ handles'[k] = x
      BY <1>4, <1>7, <1>8, <2>2, EnterHandle
    <3>2. /\ handles' \in [Handles -> HandleRec]
          /\ \A h \in UsedHandles : handles'[h] = handles[h]
      BY <1>4, <1>7, <1>8, <2>2, EnterHandle
    <3> QED
      BY <1>2, <1>7, <2>2, <3>1, <3>2
  <2> QED
    BY <2>1, <2>2
<1>11. Typed'
  <2>1. ClientTyped'
    BY <1>1, <1>2, <1>3, <1>4, <1>9 DEF Typed, ClientTyped
  <2> QED
    BY <1>1, <1>2, <1>10, <2>1 DEF Typed, TablesTyped
<1>12. RequestsInv'
  BY <1>1, <1>10, AnswerKeeps DEF RequestsInv, GivenUpFull
<1>13. FilesBegin'
  <2>1. DOMAIN open' \cup ended' \subseteq 1..(next' - 1)
    BY <1>1, <1>2, <1>4, <1>9 DEF FilesInv, FilesBegin
  <2>2. \A q \in pending' :
          /\ q.type = "OPEN" => /\ q.file = q.id /\ moved'[q.file] = 0
                                /\ q.file \notin DOMAIN open' \cup ended'
          /\ q.type = "READ" => q.file \in DOMAIN open' \cup ended'
    BY <1>1, <1>3, <1>4, <1>9 DEF FilesInv, FilesBegin
  <2>3. \A i \in Ids : i >= next' => moved'[i] = 0
    BY <1>1, <1>2 DEF FilesInv, FilesBegin
  <2> QED
    BY <2>1, <2>2, <2>3 DEF FilesBegin
<1>14. PathNoted'
  BY <1>3 DEF FilesInv, PathNoted
<1>15. NamesApart'
  BY <1>9 DEF FilesInv, NamesApart
<1>16. HandlesKnown'
  <2>1. \A h \in UsedHandles : /\ handles[h].path \in DOMAIN open /\ handles[h].path # p.file
                               /\ handles[h].name = open[handles[h].path]
    BY <1>4 DEF FilesInv, HandlesKnown
  <2>2. \A h \in UsedHandles' : /\ handles'[h].path \in DOMAIN open'
                                /\ handles'[h].name = open'[handles'[h].path]
    BY <1>8, <1>9, <1>10, <2>1
  <2>3. \A h, k \in UsedHandles' : handles'[h].path = handles'[k].path => h = k
    BY <1>8, <1>10, <2>1 DEF FilesInv, HandlesKnown
  <2> QED
    BY <2>2, <2>3 DEF HandlesKnown
<1>17. SlotFresh'
  BY <1>1, <1>3, <1>10 DEF BytesInv, SlotFresh
<1>18. ASSUME ~late, state' = "up", NEW g \in DOMAIN open' \ ended
       PROVE  \E k \in UsedHandles' :
                handles'[k] = [name |-> open'[g], path |-> g, size |-> moved[g]]
  <2>1. CASE g = p.file
    BY <1>4, <1>9, <1>10, <1>18, <2>1 DEF x
  <2>2. CASE g # p.file
    <3>1. g \in DOMAIN open \ ended
      BY <1>9, <2>2
    <3>2. PICK k \in UsedHandles : handles[k] = [name |-> open[g], path |-> g, size |-> moved[g]]
      BY <1>2, <1>18, <3>1 DEF BytesInv, JournalExact
    <3> QED
      BY <1>9, <1>10, <3>1, <3>2
  <2> QED
    BY <2>1, <2>2
<1>19. JournalExact'
  <2>1. state' # "crashed"
    BY <1>10
  <2>2. UNCHANGED <<late, ended, moved>>
    BY <1>1
  <2>3. ~late /\ state' = "up" => \A g \in DOMAIN open' \ ended : \E k \in UsedHandles' :
          handles'[k] = [name |-> open'[g], path |-> g, size |-> moved[g]]
    BY <1>18
  <2> QED
    BY <2>1, <2>2, <2>3 DEF JournalExact
<1> QED
  BY <1>11, <1>12, <1>13, <1>14, <1>15, <1>16, <1>17, <1>19 DEF FilesInv, BytesInv

\* The invariant holds when the channel becomes an SFTP channel.
LEMMA InvInit == Init => Inv
<1> SUFFICES ASSUME Init PROVE Inv
  OBVIOUS
<1>1. UsedRequests = {} /\ UsedHandles = {} /\ DOMAIN open = {}
  BY DEF Init, UsedRequests, UsedHandles
<1>2. NoRequest \in RequestRec /\ NoHandle \in HandleRec
  BY Slots DEF NoRequest, NoHandle, RequestRec, HandleRec
<1>3. TablesTyped
  BY <1>2 DEF Init, TablesTyped
<1>4. Typed
  <2>1. next \in 1..(MaxRequests + 1)
    BY JournalAssumption DEF Init
  <2>2. moved \in [Ids -> Nat]
    BY DEF Init
  <2>3. pending \subseteq PendingRec /\ ended \subseteq Ids /\ short \subseteq Ids
    BY DEF Init
  <2>4. ClientTyped
    BY <1>1, <2>1, <2>2, <2>3 DEF ClientTyped
  <2> QED
    BY <1>3, <2>4 DEF Init, Typed
<1>5. RequestsInv
  BY <1>1 DEF Init, RequestsInv, IdsApart, IdsKnown, Waiting, GivenUpFull
<1>6. FilesInv
  BY <1>1 DEF Init, FilesInv, NamesApart, FilesBegin, PathNoted, HandlesKnown
<1>7. BytesInv
  BY <1>1 DEF Init, BytesInv, SlotFresh, JournalExact
<1> QED
  BY <1>4, <1>5, <1>6, <1>7 DEF Inv

\* Every packet of either side keeps it.
LEMMA InvNext == Inv /\ [Next]_vars => Inv'
BY OpenRequest, LoggedRequest, ReadRequest, WriteRequest, WriteLongRequest, CloseRequest, FullStep, ShortAnswer,
   LoggedAnswer, DataAnswer, EndAnswer, HandleAnswer
   DEF Next, RequestExtended, RequestVersion6

\* It holds in every state.
LEMMA Invariance == Spec => []Inv
BY InvInit, InvNext, PTL DEF Spec

-----------------------------------------------------------------------------
(***************************************************************************)
(* The theorems.                                                           *)
(***************************************************************************)

\* As many requests wait as a full table holds.
LEMMA FullTable ==
  ASSUME Typed, RequestsInv, FreeRequests = {}
  PROVE  Cardinality(Waiting) >= RequestSlots
<1>1. UsedRequests = Requests
  BY DEF FreeRequests, UsedRequests
<1> DEFINE ids == [r \in Requests |-> requests[r].id]
<1>2. ids \in [Requests -> Waiting] /\ \A r, t \in Requests : ids[r] = ids[t] => r = t
  <2>1. \A r \in Requests : requests[r].id \in Waiting
    BY <1>1 DEF RequestsInv, IdsKnown
  <2>2. \A r, t \in Requests : requests[r].id = requests[t].id => r = t
    BY <1>1 DEF RequestsInv, IdsApart
  <2> QED
    BY <2>1, <2>2
<1>3. ids \in Injection(Requests, Waiting)
  BY <1>2 DEF Injection, IsInjective
<1>4. IsFiniteSet(Waiting)
  <2>1. next - 1 \in Int /\ 1 \in Int
    BY DEF Typed, ClientTyped
  <2>2. IsFiniteSet(1..(next - 1))
    BY <2>1, FS_Interval
  <2>3. Waiting \subseteq 1..(next - 1)
    BY DEF RequestsInv, IdsApart, Waiting
  <2> QED
    BY <2>2, <2>3, FS_Subset
<1> HIDE DEF ids
<1>5. Cardinality(Requests) <= Cardinality(Waiting)
  BY <1>3, <1>4, FS_Injection
<1>6. Cardinality(Requests) = RequestSlots
  <2>1. RequestSlots - 1 \in Int /\ 0 \in Int /\ RequestSlots \in Nat /\ ~(0 > RequestSlots - 1)
    BY JournalAssumption
  <2> QED
    BY <2>1, FS_Interval DEF Requests
<1>7. Cardinality(Waiting) \in Nat
  BY <1>4, FS_CardinalityType
<1> QED
  BY <1>5, <1>6, <1>7, JournalAssumption

\* sftp_requests holds exactly the requests that wait for an answer and those
\* whose answer could not be decoded, in whatever order the server answers, and
\* the session is given up only when one of the tables is really full.
THEOREM RequestsAccounted == Spec => []RequestsExact
<1>1. ASSUME Inv PROVE RequestsExact
  <2>1. {requests[r].id : r \in UsedRequests} = Waiting
    BY <1>1 DEF Inv, RequestsInv, IdsKnown
  <2>2. state = "fatal" => Cardinality(Waiting) >= RequestSlots \/ FreeHandles = {}
    BY <1>1, FullTable DEF Inv, RequestsInv, GivenUpFull
  <2> QED
    BY <2>1, <2>2 DEF RequestsExact, Waiting
<1> QED
  BY <1>1, Invariance, PTL

\* A handle in sftp_handles is that of a file the client has open, under its own
\* path, although the server uses the names of closed files again.
THEOREM HandlesAreOpen == Spec => []HandlesOpen
<1>1. Inv => HandlesOpen
  BY DEF Inv, FilesInv, HandlesKnown, HandlesOpen
<1> QED
  BY <1>1, Invariance, PTL

\* The bytes the journal logs for an open file are those that were moved, what
\* was written under a long name left out, and a handle that is not there is
\* never touched, as long as no file is read after it was closed or a READ met
\* its end.
THEOREM BytesExact == Spec => []JournalExact
<1>1. Inv => JournalExact
  BY DEF Inv, BytesInv
<1> QED
  BY <1>1, Invariance, PTL

-----------------------------------------------------------------------------
(***************************************************************************)
(* The stream: where the bytes of a message are in it.                     *)
(***************************************************************************)

\* A set of numbers has a least one.
LEMMA LeastNumber ==
  ASSUME NEW S, S \subseteq Nat, S # {}
  PROVE  \E i \in S : \A j \in S : i <= j
<1>1. PICK i \in S : \A j \in S : ~(<<j, i>> \in OpToRel(<, Nat))
  BY NatLessThanWellFounded, WFMin
<1>2. \A j \in S : ~(j < i)
  BY <1>1 DEF OpToRel
<1> QED
  BY <1>2

\* A byte is the number of its message and its place in there.
Byte == Nat \X Nat

\* The size of message i with its header, its bytes, and all bytes.
Size(ms, i) == HeaderSize + ms[i].len
BytesOf(ms, i) == [o \in 1..Size(ms, i) |-> <<i, o>>]
StreamOf(ms) == FlattenSeq([i \in 1..Len(ms) |-> BytesOf(ms, i)])

\* Every message has its header at least.
LEMMA Sizes ==
  ASSUME NEW ms \in Seq(Message), NEW i \in 1..Len(ms)
  PROVE  /\ ms[i].len \in Nat /\ ms[i].type \in MessageTypes /\ Size(ms, i) \in Nat
         /\ Size(ms, i) = HeaderSize + ms[i].len /\ HeaderSize \in Nat \ {0}
<1>1. ms[i] \in Message
  BY ElementOfSeq
<1>2. ms[i].len \in Nat /\ ms[i].type \in MessageTypes
  BY <1>1, StreamAssumption DEF Message
<1> QED
  BY <1>2, StreamAssumption DEF Size

\* Where the elements of a concatenation come from.
Joins(f, b) ==
  /\ f \o b \in Seq(Byte) /\ Len(f \o b) = Len(f) + Len(b)
  /\ Len(f) \in Nat /\ Len(b) \in Nat
  /\ \A k \in 1..Len(f) : (f \o b)[k] = f[k]
  /\ \A k \in 1..Len(b) : (f \o b)[Len(f) + k] = b[k]

\* They come from the two.
LEMMA ConcatElements ==
  ASSUME NEW f \in Seq(Byte), NEW b \in Seq(Byte)
  PROVE  Joins(f, b)
BY DEF Joins

\* f[i] is the stream up to message i.
Flattens(f, n, ms) == f = [i \in 1..n |-> IF i = 1 THEN BytesOf(ms, i) ELSE f[i-1] \o BytesOf(ms, i)]

\* There is such a stream: the recursion of FlattenSeq is well-defined.
LEMMA FlattenExists ==
  ASSUME NEW ms, NEW n \in Nat
  PROVE  \E f : Flattens(f, n, ms)
<1> DEFINE T == {k \in Nat : ~\E f : Flattens(f, k, ms)}
<1> SUFFICES ASSUME T # {} PROVE FALSE
  OBVIOUS
<1>1. PICK k \in T : \A j \in T : k <= j
  BY LeastNumber
<1>2. CASE k = 0
  <2>1. Flattens(<<>>, 0, ms)
    BY DEF Flattens
  <2> QED
    BY <1>2, <2>1
<1>3. CASE k # 0
  <2>1. k \in Nat /\ k - 1 \in Nat /\ ~(k <= k - 1)
    BY <1>3
  <2>2. PICK f : Flattens(f, k - 1, ms)
    BY <1>1, <2>1
  <2> DEFINE g == [i \in 1..k |-> IF i = k THEN IF i = 1 THEN BytesOf(ms, i) ELSE f[i-1] \o BytesOf(ms, i)
                                          ELSE f[i]]
  <2>3. \A i \in 1..k : g[i] = IF i = 1 THEN BytesOf(ms, i) ELSE g[i-1] \o BytesOf(ms, i)
    <3> TAKE i \in 1..k
    <3>1. CASE i = k
      BY <2>1, <3>1
    <3>2. CASE i # k
      <4>1. i \in 1..(k - 1)
        BY <2>1, <3>2
      <4>2. f[i] = IF i = 1 THEN BytesOf(ms, i) ELSE f[i-1] \o BytesOf(ms, i)
        BY <2>2, <4>1, Zenon DEF Flattens
      <4>3. g[i] = f[i]
        BY <3>2
      <4>4. i # 1 => g[i-1] = f[i-1]
        BY <2>1, <4>1
      <4> QED
        BY <4>2, <4>3, <4>4, Zenon
    <3> QED
      BY <3>1, <3>2
  <2>4. g = [i \in 1..k |-> g[i]]
    OBVIOUS
  <2> HIDE DEF g
  <2>5. g = [i \in 1..k |-> IF i = 1 THEN BytesOf(ms, i) ELSE g[i-1] \o BytesOf(ms, i)]
    BY <2>3, <2>4
  <2>6. Flattens(g, k, ms)
    BY <2>5 DEF Flattens
  <2> QED
    BY <2>6
<1> QED
  BY <1>2, <1>3

\* The stream is what such a function says.
LEMMA StreamUnfolds ==
  ASSUME NEW ms, Len(ms) \in Nat \ {0}
  PROVE  \E f : Flattens(f, Len(ms), ms) /\ StreamOf(ms) = f[Len(ms)]
<1> DEFINE n == Len(ms)
           seqs == [i \in 1..n |-> BytesOf(ms, i)]
           P(f) == Flattens(f, n, ms)
           f == CHOOSE f : P(f)
<1>1. P(f)
  <2>1. \E g : P(g)
    BY FlattenExists
  <2> HIDE DEF P
  <2> QED
    BY <2>1, Zenon
<1>2. Len(seqs) = n
  OBVIOUS
<1>3. StreamOf(ms) = f[n]
  BY <1>2 DEF StreamOf, FlattenSeq, Flattens
<1> QED
  BY <1>1, <1>3

\* off[i] is where message i begins in the stream s, off[n + 1] where it ends.
Offsets(ms, off) ==
  /\ off \in [1..(Len(ms) + 1) -> Nat] /\ off[1] = 0
  /\ \A i \in 1..Len(ms) : off[i+1] = off[i] + Size(ms, i)

Layout(ms, off) ==
  /\ Offsets(ms, off)
  /\ \A i, j \in 1..(Len(ms) + 1) : i <= j => off[i] <= off[j]
  /\ StreamOf(ms) \in Seq(Byte) /\ Len(StreamOf(ms)) = off[Len(ms) + 1]
  /\ \A i \in 1..Len(ms) : \A o \in 1..Size(ms, i) : StreamOf(ms)[off[i] + o] = <<i, o>>
  /\ \A k \in 1..Len(StreamOf(ms)) : \E i \in 1..Len(ms) : \E o \in 1..Size(ms, i) : k = off[i] + o

\* A later message begins later.
LEMMA OffsetsGrow ==
  ASSUME NEW ms \in Seq(Message), NEW off, Offsets(ms, off),
         NEW i \in 1..(Len(ms) + 1), NEW j \in 1..(Len(ms) + 1), i <= j
  PROVE  off[i] <= off[j]
<1> DEFINE T == {k \in 1..(Len(ms) + 1) : i <= k /\ ~(off[i] <= off[k])}
<1>0. Len(ms) \in Nat /\ \A x \in 1..(Len(ms) + 1) : off[x] \in Nat
  BY DEF Offsets
<1> SUFFICES ASSUME T # {} PROVE FALSE
  OBVIOUS
<1>1. PICK k \in T : \A x \in T : k <= x
  <2>1. T \subseteq Nat
    BY <1>0
  <2> HIDE DEF T
  <2> QED
    BY <2>1, LeastNumber, Zenon
<1>2. k # i /\ k \in 1..(Len(ms) + 1) /\ i <= k /\ ~(off[i] <= off[k])
  BY <1>0, <1>1
<1>3. k - 1 \in 1..(Len(ms) + 1) /\ i <= k - 1 /\ k - 1 \in 1..Len(ms) /\ ~(k <= k - 1) /\ (k - 1) + 1 = k
  BY <1>0, <1>2
<1>4. off[i] <= off[k - 1]
  BY <1>1, <1>3
<1>5. off[k] = off[k - 1] + Size(ms, k - 1)
  BY <1>3 DEF Offsets
<1>6. Size(ms, k - 1) \in Nat
  BY <1>3, Sizes
<1> QED
  BY <1>0, <1>2, <1>3, <1>4, <1>5, <1>6

\* A prefix of the stream, f, of i messages.
Laid(ms, off, f, i) ==
  /\ f \in Seq(Byte) /\ Len(f) = off[i + 1]
  /\ \A j \in 1..i : \A o \in 1..Size(ms, j) : f[off[j] + o] = <<j, o>>
  /\ \A k \in 1..Len(f) : \E j \in 1..i : \E o \in 1..Size(ms, j) : k = off[j] + o

\* A further message is laid behind it.
LEMMA LaidOn ==
  ASSUME NEW ms \in Seq(Message), NEW off, Offsets(ms, off), NEW f, NEW i \in 1..Len(ms),
         Laid(ms, off, f, i - 1)
  PROVE  Laid(ms, off, f \o BytesOf(ms, i), i)
<1> DEFINE n == Size(ms, i)
           b == BytesOf(ms, i)
           g == f \o b
<1>1. n \in Nat /\ Len(ms) \in Nat /\ i \in Nat
  BY Sizes
<1>2. b \in Seq(Byte) /\ Len(b) = n /\ \A o \in 1..n : b[o] = <<i, o>>
  <2>1. b = [o \in 1..n |-> <<i, o>>]
    BY DEF BytesOf
  <2> HIDE DEF b, n
  <2>2. \A o \in 1..n : <<i, o>> \in Byte
    BY <1>1 DEF Byte
  <2> QED
    BY <1>1, <2>1, <2>2
<1>3. f \in Seq(Byte) /\ Len(f) = off[i] /\ off[i] \in Nat /\ off[i + 1] = off[i] + n
  BY <1>1 DEF Laid, Offsets
<1> HIDE DEF b, n
<1>4. /\ g \in Seq(Byte) /\ Len(g) = off[i + 1]
      /\ \A k \in 1..off[i] : g[k] = f[k]
      /\ \A o \in 1..n : g[off[i] + o] = b[o]
  <2>1. /\ g \in Seq(Byte) /\ Len(g) = Len(f) + Len(b)
        /\ \A k \in 1..Len(f) : g[k] = f[k]
        /\ \A k \in 1..Len(b) : g[Len(f) + k] = b[k]
    <3>1. f \in Seq(Byte) /\ b \in Seq(Byte)
      BY <1>2, <1>3
    <3> QED
      BY <3>1, ConcatElements DEF Joins
  <2> HIDE DEF g
  <2> QED
    BY <1>2, <1>3, <2>1
<1> HIDE DEF g
<1>5. ASSUME NEW j \in 1..i, NEW o \in 1..Size(ms, j)
      PROVE  g[off[j] + o] = <<j, o>>
  <2>1. CASE j = i
    BY <1>2, <1>4, <2>1 DEF n
  <2>2. CASE j # i
    <3>1. j \in 1..(i - 1) /\ j \in 1..Len(ms) /\ j + 1 \in 1..(Len(ms) + 1) /\ i \in 1..(Len(ms) + 1) /\ j + 1 <= i
      BY <1>1, <2>2
    <3>2. off[j + 1] <= off[i]
      BY <3>1, OffsetsGrow
    <3>3. off[j + 1] = off[j] + Size(ms, j) /\ off[j] \in Nat /\ Size(ms, j) \in Nat
      <4>1. Size(ms, j) \in Nat
        BY <3>1, Sizes
      <4>2. j \in 1..(Len(ms) + 1)
        BY <1>1, <3>1
      <4> QED
        BY <3>1, <4>1, <4>2 DEF Offsets
    <3>4. off[j] + o \in 1..off[i]
      <4> DEFINE x == off[j]
                 y == off[i]
                 z == Size(ms, j)
      <4>1. x \in Nat /\ y \in Nat /\ z \in Nat /\ x + z <= y
        BY <1>3, <3>2, <3>3
      <4>2. o \in 1..z
        OBVIOUS
      <4> HIDE DEF x, y, z
      <4>3. x + o \in 1..y
        BY <4>1, <4>2
      <4> QED
        BY <4>3 DEF x, y
    <3>5. f[off[j] + o] = <<j, o>>
      BY <3>1 DEF Laid
    <3> QED
      BY <1>4, <3>4, <3>5
  <2> QED
    BY <2>1, <2>2
<1>6. ASSUME NEW k \in 1..Len(g)
      PROVE  \E j \in 1..i : \E o \in 1..Size(ms, j) : k = off[j] + o
  <2>1. CASE k <= Len(f)
    <3>1. \E j \in 1..(i - 1) : \E o \in 1..Size(ms, j) : k = off[j] + o
      <4>1. k \in 1..Len(f)
        BY <1>3, <2>1
      <4> QED
        BY <4>1, Zenon DEF Laid
    <3> QED
      BY <1>1, <3>1
  <2>2. CASE ~(k <= Len(f))
    <3>1. k - off[i] \in 1..n /\ k = off[i] + (k - off[i])
      BY <1>1, <1>3, <1>4, <2>2
    <3> QED
      BY <1>1, <3>1 DEF n
  <2> QED
    BY <2>1, <2>2
<1> QED
  BY <1>4, <1>5, <1>6 DEF Laid, g, b

\* Every stream has its layout.
LEMMA StreamLaid ==
  ASSUME NEW ms \in Seq(Message), ms # <<>>
  PROVE  \E off : Layout(ms, off)
<1> DEFINE n == Len(ms)
<1>1. n \in Nat \ {0}
  BY EmptySeq
<1>2. PICK f : Flattens(f, n, ms) /\ StreamOf(ms) = f[n]
  BY <1>1, StreamUnfolds
<1>3. \A i \in 1..n : f[i] = IF i = 1 THEN BytesOf(ms, i) ELSE f[i-1] \o BytesOf(ms, i)
  BY <1>2, Zenon DEF Flattens
<1> DEFINE off == [i \in 1..(n + 1) |-> IF i = 1 THEN 0 ELSE Len(f[i-1])]
           T == {i \in 1..n : ~(f[i] \in Seq(Byte))}
<1> HIDE DEF n
<1>4. \A i \in 1..n : BytesOf(ms, i) \in Seq(Byte) /\ Len(BytesOf(ms, i)) = Size(ms, i)
                        /\ Size(ms, i) \in Nat
  <2> TAKE i \in 1..n
  <2>1. Size(ms, i) \in Nat
    BY Sizes DEF n
  <2> QED
    BY <1>1, <2>1 DEF BytesOf, Byte
<1>5. \A i \in 1..n : f[i] \in Seq(Byte)
  <2> SUFFICES ASSUME T # {} PROVE FALSE
    OBVIOUS
  <2>1. PICK i \in T : \A x \in T : i <= x
    <3>1. T \subseteq Nat
      BY <1>1
    <3> HIDE DEF T
    <3> QED
      BY <3>1, LeastNumber, Zenon
  <2>2. i # 1
    BY <1>1, <1>3, <1>4
  <2>3. i - 1 \in 1..n /\ ~(i <= i - 1)
    BY <1>1, <2>2
  <2>4. f[i-1] \in Seq(Byte)
    BY <2>1, <2>3
  <2>5. f[i] = f[i-1] \o BytesOf(ms, i)
    BY <1>3, <2>2
  <2> QED
    BY <1>4, <2>4, <2>5, ConcatProperties
<1>6. \A i \in 1..n : Len(f[i]) = (IF i = 1 THEN 0 ELSE Len(f[i-1])) + Size(ms, i)
  <2> TAKE i \in 1..n
  <2>1. CASE i = 1
    BY <1>3, <1>4, <2>1
  <2>2. CASE i # 1
    <3>1. i - 1 \in 1..n
      BY <1>1, <2>2
    <3>2. f[i] = f[i-1] \o BytesOf(ms, i) /\ f[i-1] \in Seq(Byte)
      BY <1>3, <1>5, <2>2, <3>1
    <3>3. Len(f[i]) = Len(f[i-1]) + Len(BytesOf(ms, i))
      BY <1>4, <3>2, ConcatElements DEF Joins
    <3> QED
      BY <1>4, <2>2, <3>3
  <2> QED
    BY <2>1, <2>2
<1>7. Offsets(ms, off)
  <2>1. off \in [1..(n + 1) -> Nat] /\ off[1] = 0
    <3>1. \A i \in 1..(n + 1) : i # 1 => i - 1 \in 1..n
      BY <1>1
    <3>2. \A i \in 1..(n + 1) : i # 1 => Len(f[i-1]) \in Nat
      BY <1>5, <3>1, LenProperties
    <3>3. 1 \in 1..(n + 1)
      BY <1>1
    <3> QED
      BY <3>2, <3>3
  <2>2. ASSUME NEW i \in 1..n PROVE off[i+1] = off[i] + Size(ms, i)
    <3>1. off[i] = IF i = 1 THEN 0 ELSE Len(f[i-1])
      BY <1>1
    <3>2. off[i+1] = Len(f[i])
      BY <1>1
    <3> QED
      BY <1>6, <3>1, <3>2
  <2> QED
    BY <2>1, <2>2 DEF Offsets, n
<1>8. \A i \in 1..n : Laid(ms, off, f[i], i)
  <2> DEFINE U == {i \in 1..n : ~Laid(ms, off, f[i], i)}
  <2> SUFFICES ASSUME U # {} PROVE FALSE
    OBVIOUS
  <2>1. PICK i \in U : \A x \in U : i <= x
    <3>1. U \subseteq Nat
      BY <1>1
    <3> HIDE DEF U
    <3> QED
      BY <3>1, LeastNumber, Zenon
  <2>2. CASE i = 1
    <3>1. Laid(ms, off, <<>>, 0)
      BY <1>7 DEF Laid, Offsets
    <3>2. Laid(ms, off, <<>> \o BytesOf(ms, 1), 1)
      <4>1. 1 \in 1..Len(ms) /\ 1 - 1 = 0
        BY <1>1 DEF n
      <4> HIDE DEF off
      <4> QED
        BY <1>7, <3>1, <4>1, LaidOn
    <3>3. <<>> \o BytesOf(ms, 1) = f[1]
      BY <1>1, <1>3, <1>4, ConcatEmptySeq
    <3> QED
      BY <2>2, <3>2, <3>3
  <2>3. CASE i # 1
    <3>1. i \in 1..n /\ i - 1 \in 1..n /\ ~(i <= i - 1)
      BY <1>1, <2>3
    <3>2. Laid(ms, off, f[i-1], i - 1)
      BY <2>1, <3>1
    <3>3. Laid(ms, off, f[i-1] \o BytesOf(ms, i), i)
      BY <1>7, <3>1, <3>2, LaidOn DEF n
    <3>4. f[i-1] \o BytesOf(ms, i) = f[i]
      BY <1>3, <2>3
    <3> QED
      BY <3>3, <3>4
  <2> QED
    BY <2>2, <2>3
<1>9. n \in 1..n
  BY <1>1
<1> HIDE DEF off
<1>10. Laid(ms, off, StreamOf(ms), n)
  BY <1>2, <1>8, <1>9
<1>11. \A i, j \in 1..(Len(ms) + 1) : i <= j => off[i] <= off[j]
  BY <1>7, OffsetsGrow
<1> QED
  BY <1>7, <1>10, <1>11 DEF Layout, Laid, n

-----------------------------------------------------------------------------
(***************************************************************************)
(* The invariant.  Unless INIT or VERSION was cut or the client did not    *)
(* wait for the VERSION, the handler knows where in the stream it is: what *)
(* it has taken is the messages inspected so far and, in its state for the *)
(* next one, the first bytes of that.                                      *)
(***************************************************************************)

\* What never changes.
StreamGiven ==
  /\ side \in {"CLIENT", "TARGET"} /\ messages \in Seq(Message) /\ messages # <<>>
  /\ messages[1].len > 0

\* How many bytes have arrived, and how many of them the handler has taken.
arrived == Len(StreamOf(messages)) - Len(todo)
taken == arrived - Len(chunk)

\* The bytes to come and those of the packet are the stream's; the last byte
\* that arrived was the last one of a packet.
Input ==
  /\ todo \in Seq(Byte) /\ Len(todo) <= Len(StreamOf(messages))
  /\ \A k \in 1..Len(todo) : todo[k] = StreamOf(messages)[arrived + k]
  /\ chunk \in Seq(Byte) /\ Len(chunk) <= arrived
  /\ \A k \in 1..Len(chunk) : chunk[k] = StreamOf(messages)[taken + k]
  /\ arrived > 0 => StreamOf(messages)[arrived] \in cuts

\* The first message to be inspected, the one behind INIT or VERSION, and the
\* one being received.
first == 2
current == Len(inspected) + first

\* n bytes of message i behind its first at ones.
Part(s, i, at, n) == s \in Seq(Byte) /\ Len(s) = n /\ \A k \in 1..n : s[k] = <<i, at + k>>

\* What is to be kept of a bulk message, and where a packet ended in there.
PrefixOf(ms, i) == Least(PrefixSize, ms[i].len)
CutsOf(ms, cs, i) == {o \in 0..(PrefixOf(ms, i) - 1) : <<i, HeaderSize + o>> \in cs}
TwoCuts(ms, cs, i) == \E o, p \in CutsOf(ms, cs, i) : o # p

\* What is kept of the r bytes received of message i.  A prefix that is not
\* complete was cut where it ends.
KeptOf(ms, cs, i, b, r) ==
  /\ b \in Seq(Byte)
  /\ ms[i].type = "whole" => Part(b, i, HeaderSize, r)
  /\ ms[i].type = "bulk" =>
       /\ Len(b) <= PrefixSize
       /\ \/ TwoCuts(ms, cs, i)
          \/ r < PrefixOf(ms, i) /\ Part(b, i, HeaderSize, r) /\ r \in CutsOf(ms, cs, i)
          \/ /\ r >= PrefixOf(ms, i) /\ Len(b) >= PrefixOf(ms, i)
             /\ \A k \in 1..PrefixOf(ms, i) : b[k] = <<i, HeaderSize + k>>

\* The messages inspected so far, of which the first has number f.
Entry == [header : Seq(Byte), type : MessageTypes, buffer : Seq(Byte)]
Entered(ms, cs, e, i) ==
  /\ Part(e.header, i, 0, HeaderSize) /\ e.type = ms[i].type
  /\ KeptOf(ms, cs, i, e.buffer, ms[i].len)
PastOf(ms, cs, f, seen) ==
  /\ seen \in Seq(Entry)
  /\ \A k \in 1..Len(seen) : Entered(ms, cs, seen[k], k + f - 1)
Past == PastOf(messages, cuts, first, inspected)

\* The three places within the message being received.
SftpMessage == [state : {"INIT", "NEW", "INCOMPLETE", "COMPLETE"}, header : Seq(Byte),
                buffer : Seq(Byte), type : MessageTypes, length : Nat, received : Nat]

InHeader(off) ==
  /\ msg.state = "INIT" /\ current \in 1..(Len(messages) + 1)
  /\ Len(msg.header) < HeaderSize /\ Part(msg.header, current, 0, Len(msg.header))
  /\ taken = off[current] + Len(msg.header)
  /\ msg.buffer = <<>> /\ msg.received = 0

BehindHeader(off) ==
  /\ msg.state = "NEW" /\ running = "busy" /\ current \in 1..Len(messages)
  /\ Part(msg.header, current, 0, HeaderSize) /\ taken = off[current] + HeaderSize
  /\ msg.buffer = <<>> /\ msg.received = 0

InBody(off) ==
  /\ msg.state \in {"INCOMPLETE", "COMPLETE"} /\ current \in 1..Len(messages)
  /\ Part(msg.header, current, 0, HeaderSize)
  /\ msg.type = messages[current].type /\ msg.length = messages[current].len
  /\ msg.received <= msg.length /\ taken = off[current] + HeaderSize + msg.received
  /\ KeptOf(messages, cuts, current, msg.buffer, msg.received)
  /\ msg.state = "COMPLETE" <=> msg.received = msg.length
  /\ msg.state = "COMPLETE" => running = "busy"
  /\ msg.state = "INCOMPLETE" /\ running = "busy" => datalen = Len(chunk) /\ Len(chunk) > 0

\* Before the server's VERSION message, when nothing has arrived but the
\* client's INIT, and after it.
Before(off) ==
  /\ ~target_version /\ running = "idle" /\ chunk = <<>> /\ msg = Fresh /\ inspected = <<>>
  /\ \/ arrived = 0 /\ (sftp_session <=> side = "TARGET")
     \/ arrived = off[2] /\ sftp_session /\ side = "CLIENT"

After(off) ==
  /\ target_version /\ sftp_session /\ running \in {"idle", "busy"} /\ (running = "idle" => chunk = <<>>)
  /\ msg \in SftpMessage /\ Past
  /\ InHeader(off) \/ BehindHeader(off) \/ InBody(off)

Follows(off) == Layout(messages, off) /\ Input /\ (Before(off) \/ After(off))
StreamInv == StreamGiven /\ (OpeningCut \/ early \/ \E off : Follows(off))

\* The invariant in plain numbers.
Counts(off) ==
  /\ Len(messages) \in Nat \ {0} /\ Len(todo) \in Nat /\ Len(chunk) \in Nat
  /\ arrived \in Nat /\ taken \in Nat /\ arrived = taken + Len(chunk)
  /\ arrived + Len(todo) = off[Len(messages) + 1]
  /\ off[Len(messages) + 1] = Len(StreamOf(messages))
Places(off) ==
  /\ HeaderSize \in Nat \ {0} /\ PrefixSize \in Nat \ {0} /\ off[1] = 0
  /\ \A i \in 1..(Len(messages) + 1) : off[i] \in Nat
  /\ \A i \in 1..Len(messages) :
       off[i + 1] = off[i] + (HeaderSize + messages[i].len) /\ messages[i].len \in Nat
  /\ \A i, j \in 1..(Len(messages) + 1) : i <= j => off[i] <= off[j]

\* They follow from it.
LEMMA Numbers ==
  ASSUME StreamGiven, NEW off, Layout(messages, off), Input
  PROVE  Counts(off) /\ Places(off)
<1> DEFINE n == Len(StreamOf(messages))
<1>1. Len(messages) \in Nat \ {0} /\ Len(todo) \in Nat /\ Len(chunk) \in Nat
  BY EmptySeq, LenProperties DEF StreamGiven, Input
<1>2. n = off[Len(messages) + 1] /\ off \in [1..(Len(messages) + 1) -> Nat] /\ off[1] = 0
  BY DEF Layout, Offsets
<1>3. n \in Nat /\ arrived = n - Len(todo) /\ Len(todo) <= n /\ taken = arrived - Len(chunk)
        /\ Len(chunk) <= arrived
  BY <1>1, <1>2 DEF Input, arrived, taken
<1>4. ASSUME NEW i \in 1..Len(messages)
      PROVE  off[i + 1] = off[i] + (HeaderSize + messages[i].len) /\ messages[i].len \in Nat
  <2>1. Size(messages, i) = HeaderSize + messages[i].len /\ messages[i].len \in Nat
    BY Sizes DEF StreamGiven
  <2>2. off[i + 1] = off[i] + Size(messages, i)
    BY DEF Layout, Offsets
  <2> QED
    BY <2>1, <2>2
<1>5. Counts(off)
  <2> HIDE DEF n
  <2>1. arrived \in Nat /\ taken \in Nat /\ arrived = taken + Len(chunk) /\ arrived + Len(todo) = n
    BY <1>1, <1>3
  <2> QED
    BY <1>1, <1>2, <2>1 DEF Counts, n
<1>6. \A i, j \in 1..(Len(messages) + 1) : i <= j => off[i] <= off[j]
  BY DEF Layout
<1>7. \A i \in 1..(Len(messages) + 1) : off[i] \in Nat
  BY <1>2
<1>8. HeaderSize \in Nat \ {0} /\ PrefixSize \in Nat \ {0} /\ off[1] = 0
  BY <1>2, StreamAssumption
<1>9. Places(off)
  BY <1>4, <1>6, <1>7, <1>8, Zenon DEF Places
<1> QED
  BY <1>5, <1>9

\* The byte at a place of the stream.
LEMMA ByteAt ==
  ASSUME StreamGiven, NEW off, Layout(messages, off), NEW i \in 1..Len(messages),
         NEW o \in 1..(HeaderSize + messages[i].len)
  PROVE  StreamOf(messages)[off[i] + o] = <<i, o>>
BY Sizes DEF Layout, StreamGiven, Size

\* At the end of a packet, the messages of which nothing is to come are those
\* that were inspected.
LEMMA ArrivedCurrent ==
  ASSUME StreamGiven, NEW off, Layout(messages, off), Input, NEW c \in first..(Len(messages) + 1),
         c > first => off[c] <= arrived,
         c <= Len(messages) => arrived < off[c + 1]
  PROVE  Arrived = first..(c - 1)
<1> DEFINE m == Len(messages)
<1>0. first \in {1, 2} /\ Counts(off) /\ Places(off)
  BY Numbers DEF first
<1>1. /\ m \in Nat /\ arrived \in Nat /\ Len(todo) \in Nat /\ arrived + Len(todo) = off[m + 1]
      /\ off[m + 1] = Len(StreamOf(messages))
  BY <1>0 DEF Counts
<1>2. /\ \A i \in 1..(m + 1) : off[i] \in Nat
      /\ \A i \in 1..m : off[i + 1] = off[i] + (HeaderSize + messages[i].len) /\ messages[i].len \in Nat
      /\ \A i, j \in 1..(m + 1) : i <= j => off[i] <= off[j]
      /\ HeaderSize \in Nat \ {0}
  BY <1>0, Zenon DEF Places
<1>3. Inspectable = first..m
  BY DEF Inspectable, first
<1>4. c \in first..(m + 1) /\ (c <= m => arrived < off[c + 1]) /\ (c > first => off[c] <= arrived)
  OBVIOUS
<1> HIDE DEF m
<1>5. ASSUME NEW i \in Inspectable, i < c, NEW k \in 1..Len(todo) PROVE todo[k][1] # i
  <2>1. i \in 1..m /\ i + 1 \in 1..(m + 1) /\ i + 1 <= c /\ c \in 1..(m + 1)
    BY <1>0, <1>1, <1>3, <1>4, <1>5
  <2>2. off[i + 1] <= off[c] /\ off[c] \in Nat /\ off[i] \in Nat
    BY <1>1, <1>2, <2>1
  <2>3. arrived + k \in 1..Len(StreamOf(messages))
    BY <1>1
  <2>4. PICK j \in 1..Len(messages) : \E o \in 1..Size(messages, j) : arrived + k = off[j] + o
    BY <2>3, Zenon DEF Layout
  <2>5. PICK o \in 1..Size(messages, j) : arrived + k = off[j] + o
    BY <2>4
  <2>6. o \in 1..(HeaderSize + messages[j].len)
    BY DEF Size
  <2>7. StreamOf(messages)[off[j] + o] = <<j, o>>
    BY <2>6, ByteAt
  <2>8. todo[k] = StreamOf(messages)[arrived + k]
    BY Zenon DEF Input
  <2>9. todo[k] = <<j, o>>
    BY <2>5, <2>7, <2>8, Zenon
  <2>10. ASSUME j = i PROVE FALSE
    <3>1. off[i + 1] = off[i] + (HeaderSize + messages[i].len) /\ messages[i].len \in Nat
      BY <1>2, <2>1, Zenon
    <3>2. o <= HeaderSize + messages[i].len /\ o \in Nat
      BY <1>2, <2>6, <2>10, <3>1
    <3> DEFINE a == off[i]
               b == off[i + 1]
               d == off[c]
               z == HeaderSize + messages[i].len
    <3>3. a \in Nat /\ d \in Nat /\ z \in Nat
      <4>1. HeaderSize \in Nat
        BY <1>2
      <4> DEFINE l == messages[i].len
      <4>2. l \in Nat
        BY <3>1
      <4> HIDE DEF l
      <4>3. HeaderSize + l \in Nat
        BY <4>1, <4>2
      <4> QED
        BY <2>2, <4>3, Zenon DEF l
    <3>4. o \in Nat /\ o <= z /\ b = a + z
      BY <3>1, <3>2
    <3>5. b <= d /\ arrived + k = a + o
      BY <2>2, <2>5, <2>10, Zenon
    <3>6. d <= arrived
      <4>1. c > first
        BY <1>0, <1>1, <1>3, <1>4, <1>5
      <4> QED
        BY <1>4, <4>1
    <3>7. arrived \in Nat /\ k \in Nat /\ k > 0
      BY <1>1
    <3> HIDE DEF a, b, d, z
    <3> QED
      BY <3>3, <3>4, <3>5, <3>6, <3>7
  <2> QED
    BY <2>9, <2>10
<1>6. ASSUME NEW i \in Inspectable, ~(i < c) PROVE \E k \in 1..Len(todo) : todo[k][1] = i
  <2>1. /\ i \in 1..m /\ i + 1 \in 1..(m + 1) /\ c + 1 <= i + 1 /\ i + 1 <= m + 1
        /\ c + 1 \in 1..(m + 1) /\ m + 1 \in 1..(m + 1) /\ c <= m /\ i \in 1..(m + 1)
    BY <1>0, <1>1, <1>3, <1>4, <1>6
  <2>2. off[c + 1] <= off[i + 1] /\ off[i + 1] <= off[m + 1]
    BY <1>2, <2>1, Zenon
  <2> DEFINE o == HeaderSize + messages[i].len
             k == off[i + 1] - arrived
  <2>4. off[i] \in Nat /\ off[i + 1] \in Nat /\ off[c + 1] \in Nat /\ off[m + 1] \in Nat
    BY <1>2, <2>1, Zenon
  <2>5. off[i + 1] = off[i] + o /\ o \in Nat \ {0}
    <3>1. off[i + 1] = off[i] + (HeaderSize + messages[i].len) /\ messages[i].len \in Nat
      BY <1>2, <2>1, Zenon
    <3> QED
      BY <1>2, <3>1
  <2>6. o \in 1..o
    BY <2>5
  <2>7. StreamOf(messages)[off[i] + o] = <<i, o>>
    BY <2>1, <2>6, ByteAt DEF m
  <2> HIDE DEF o
  <2>8. k \in 1..Len(todo) /\ arrived + k = off[i] + o
    <3> DEFINE a == off[i]
               b == off[i + 1]
               d == off[c + 1]
               e == off[m + 1]
               t == Len(todo)
    <3>1. /\ a \in Nat /\ b \in Nat /\ d \in Nat /\ e \in Nat /\ b = a + o /\ o \in Nat
          /\ d <= b /\ b <= e /\ arrived < d /\ arrived \in Nat /\ t \in Nat /\ arrived + t = e
      BY <1>1, <1>4, <2>1, <2>2, <2>4, <2>5
    <3>2. k = b - arrived
      OBVIOUS
    <3> HIDE DEF a, b, d, e, t, k
    <3>3. k \in 1..t /\ arrived + k = a + o
      BY <3>1, <3>2
    <3> QED
      BY <3>3 DEF a, t
  <2> HIDE DEF k
  <2>9. todo[k] = <<i, o>>
    <3>1. todo[k] = StreamOf(messages)[arrived + k]
      BY <2>8, Zenon DEF Input
    <3> QED
      BY <2>7, <2>8, <3>1, Zenon
  <2> QED
    BY <2>8, <2>9
<1>7. ASSUME NEW i PROVE i \in Arrived <=> i \in first..(c - 1)
  <2>1. CASE i \in Inspectable
    <3>1. i \in Arrived <=> i < c
      BY <1>5, <1>6, <2>1 DEF Arrived
    <3> QED
      BY <1>0, <1>1, <1>3, <1>4, <2>1, <3>1
  <2>2. CASE i \notin Inspectable
    BY <1>0, <1>1, <1>3, <1>4, <2>2 DEF Arrived
  <2> QED
    BY <2>1, <2>2
<1> QED
  BY <1>7

\* Two sequences of the same bytes of a message are the same.
LEMMA PartUnique ==
  ASSUME NEW s, NEW t, NEW i, NEW at, NEW n, Part(s, i, at, n), Part(t, i, at, n)
  PROVE  s = t
<1>1. s \in Seq(Byte) /\ t \in Seq(Byte) /\ Len(s) = n /\ Len(t) = n
        /\ \A k \in 1..n : s[k] = <<i, at + k>> /\ t[k] = <<i, at + k>>
  BY DEF Part
<1>2. \A k \in 1..Len(s) : s[k] = t[k]
  BY <1>1
<1> QED
  BY <1>1, <1>2, SeqEqual

\* A piece of the bytes of a message, and its payload.
LEMMA PartOfBytes ==
  ASSUME StreamGiven, NEW i \in 1..Len(messages), NEW at \in Nat, NEW n \in Nat,
         at + n <= HeaderSize + messages[i].len
  PROVE  Part(SubSeq(Bytes(i), at + 1, at + n), i, at, n)
<1> DEFINE z == HeaderSize + messages[i].len
           b == Bytes(i)
           s == SubSeq(b, at + 1, at + n)
<1>1. z \in Nat /\ i \in Nat /\ at + n <= z
  BY Sizes DEF StreamGiven
<1>2. b = [o \in 1..z |-> <<i, o>>]
  BY DEF Bytes
<1> HIDE DEF z, b
<1>3. \A k \in (at + 1)..(at + n) : b[k] \in Byte
  BY <1>1, <1>2 DEF Byte
<1>4. s \in Seq(Byte) /\ Len(s) = (IF at + 1 <= at + n THEN (at + n) - (at + 1) + 1 ELSE 0)
        /\ \A k \in 1..((at + n) - (at + 1) + 1) : s[k] = b[(at + 1) + k - 1]
  <2>1. at + 1 \in Int /\ at + n \in Int
    OBVIOUS
  <2> QED
    BY <1>3, <2>1, SubSeqProperties
<1> HIDE DEF s
<1>5. Len(s) = n /\ (at + n) - (at + 1) + 1 = n
  BY <1>4
<1>6. ASSUME NEW k \in 1..n PROVE s[k] = <<i, at + k>>
  <2>1. (at + 1) + k - 1 = at + k /\ at + k \in 1..z
    BY <1>1
  <2>2. b[at + k] = <<i, at + k>>
    BY <1>2, <2>1
  <2> QED
    BY <1>4, <1>5, <2>1, <2>2
<1>7. Part(s, i, at, n)
  BY <1>4, <1>5, <1>6 DEF Part
<1> QED
  BY <1>7 DEF s, b

\* A header, and a payload.
LEMMA HeaderIs ==
  ASSUME StreamGiven, NEW i \in 1..Len(messages), NEW s, Part(s, i, 0, HeaderSize)
  PROVE  s = SubSeq(Bytes(i), 1, HeaderSize)
<1>1. HeaderSize \in Nat /\ messages[i].len \in Nat
  BY Sizes DEF StreamGiven
<1>2. 0 + HeaderSize <= HeaderSize + messages[i].len /\ 0 \in Nat
  BY <1>1
<1>3. Part(SubSeq(Bytes(i), 0 + 1, 0 + HeaderSize), i, 0, HeaderSize)
  BY <1>1, <1>2, PartOfBytes
<1>4. 0 + 1 = 1 /\ 0 + HeaderSize = HeaderSize
  BY <1>1
<1> QED
  BY <1>3, <1>4, PartUnique

\* The payload of a message is the part of its bytes behind the header.
LEMMA PayloadIs ==
  ASSUME StreamGiven, NEW i \in 1..Len(messages)
  PROVE  Part(Payload(i), i, HeaderSize, messages[i].len)
<1>1. HeaderSize \in Nat /\ messages[i].len \in Nat
  BY Sizes DEF StreamGiven
<1>2. HeaderSize + messages[i].len <= HeaderSize + messages[i].len
  BY <1>1
<1> QED
  BY <1>1, <1>2, PartOfBytes DEF Payload

\* What a bulk message's inspection got begins with the prefix.
LEMMA PrefixIs ==
  ASSUME StreamGiven, NEW i \in 1..Len(messages), NEW b \in Seq(Byte), Len(b) >= PrefixOf(messages, i),
         \A k \in 1..PrefixOf(messages, i) : b[k] = <<i, HeaderSize + k>>
  PROVE  IsPrefix(SubSeq(Payload(i), 1, Least(PrefixSize, messages[i].len)), b)
<1> DEFINE n == PrefixOf(messages, i)
           y == Payload(i)
           l == messages[i].len
           s == SubSeq(y, 1, n)
<1>1. l \in Nat /\ PrefixSize \in Nat
  BY Sizes, StreamAssumption DEF StreamGiven
<1>2. n = Least(PrefixSize, l) /\ n \in Nat /\ n <= l
  BY <1>1 DEF PrefixOf, Least
<1>3. y \in Seq(Byte) /\ Len(y) = l /\ \A k \in 1..l : y[k] = <<i, HeaderSize + k>>
  BY PayloadIs DEF Part
<1>4. Len(b) >= n /\ \A k \in 1..n : b[k] = <<i, HeaderSize + k>>
  OBVIOUS
<1> HIDE DEF n, y, l
<1>5. \A k \in 1..n : y[k] \in Byte
  BY <1>1, <1>2, <1>3
<1>6. s \in Seq(Byte) /\ Len(s) = n /\ \A k \in 1..n : s[k] = y[k]
  BY <1>2, <1>5, SubSeqProperties
<1> HIDE DEF s
<1>7. SubSeq(s, 1, n) = SubSeq(b, 1, n)
  <2> DEFINE u == SubSeq(s, 1, n)
             v == SubSeq(b, 1, n)
  <2>1. n \in Int /\ Len(b) \in Nat /\ n <= Len(b) /\ (\A k \in 1..n : b[k] \in Byte /\ s[k] = b[k] /\ s[k] \in Byte)
    <3>1. n \in Int /\ Len(b) \in Nat /\ n <= Len(b)
      BY <1>2, <1>4, LenProperties
    <3>2. ASSUME NEW k \in 1..n PROVE b[k] \in Byte /\ s[k] = b[k] /\ s[k] \in Byte
      <4>1. k \in 1..l
        BY <1>1, <1>2
      <4> QED
        BY <1>3, <1>4, <1>5, <1>6, <4>1, Zenon
    <3> QED
      BY <3>1, <3>2, Zenon
  <2>2. u \in Seq(Byte) /\ Len(u) = n /\ \A k \in 1..n : u[k] = s[k]
    BY <1>2, <2>1, SubSeqProperties
  <2>3. v \in Seq(Byte) /\ Len(v) = n /\ \A k \in 1..n : v[k] = b[k]
    BY <1>2, <2>1, SubSeqProperties
  <2> HIDE DEF u, v
  <2>4. u = v
    BY <2>1, <2>2, <2>3, SeqEqual
  <2> QED
    BY <2>4 DEF u, v
<1> QED
  BY <1>2, <1>4, <1>6, <1>7 DEF IsPrefix, s, n, y, l

\* Packets that ended at two places are two packets.
LEMMA CutsCounted ==
  ASSUME StreamGiven, NEW i \in 1..Len(messages), TwoCuts(messages, cuts, i)
  PROVE  ~(Cardinality(PrefixCuts(i)) < 2)
<1>1. messages[i].len \in Nat /\ PrefixSize \in Nat
  BY Sizes, StreamAssumption DEF StreamGiven
<1>2. Least(PrefixSize, messages[i].len) - 1 \in Int
  BY <1>1 DEF Least
<1>3. IsFiniteSet(PrefixCuts(i)) /\ Cardinality(PrefixCuts(i)) \in Nat
  <2>1. IsFiniteSet(0..(Least(PrefixSize, messages[i].len) - 1))
    BY <1>2, FS_Interval
  <2> QED
    BY <2>1, FS_Subset, FS_CardinalityType DEF PrefixCuts
<1>4. PICK o \in PrefixCuts(i), p \in PrefixCuts(i) : o # p
  BY DEF TwoCuts, CutsOf, PrefixOf, PrefixCuts
<1>5. IsFiniteSet({o} \cup {p}) /\ Cardinality({o} \cup {p}) = 2
  <2>1. IsFiniteSet({o}) /\ Cardinality({o}) = 1 /\ p \notin {o}
    BY <1>4, FS_Singleton
  <2>2. Cardinality({o} \cup {p}) = Cardinality({o}) + 1 /\ IsFiniteSet({o} \cup {p})
    BY <2>1, FS_AddElement
  <2>3. Cardinality({o} \cup {p}) = 1 + 1
    BY <2>1, <2>2, Zenon
  <2> DEFINE z == Cardinality({o} \cup {p})
  <2>4. z = 1 + 1
    BY <2>3
  <2> HIDE DEF z
  <2>5. z = 2
    BY <2>4
  <2> QED
    BY <2>2, <2>5 DEF z
<1>6. Cardinality({o} \cup {p}) <= Cardinality(PrefixCuts(i))
  <2>1. {o} \cup {p} \in SUBSET PrefixCuts(i)
    BY <1>4
  <2> QED
    BY <1>3, <2>1, FS_Subset
<1> DEFINE z == Cardinality(PrefixCuts(i))
<1>7. z \in Nat /\ 2 <= z
  BY <1>3, <1>5, <1>6, Zenon
<1> HIDE DEF z
<1>8. ~(z < 2)
  BY <1>7
<1> QED
  BY <1>8 DEF z

\* The message the handler is in, and those behind it.
LEMMA Places1 ==
  ASSUME NEW off, After(off)
  PROVE  /\ Len(inspected) \in Nat /\ first \in {1, 2} /\ current = Len(inspected) + first
         /\ current \in 1..(Len(messages) + 1)
         /\ \A k \in 1..Len(inspected) :
              /\ k + first - 1 \in 1..Len(messages)
              /\ k + first - 1 = k + 1
              /\ Entered(messages, cuts, inspected[k], k + first - 1)
<1>1. inspected \in Seq(Entry) /\ Len(inspected) \in Nat
  BY LenProperties DEF After, Past, PastOf
<1>2. first \in {1, 2} /\ current = Len(inspected) + first
  BY DEF first, current
<1>3. current \in 1..(Len(messages) + 1) /\ (current \in 1..Len(messages) \/ current = Len(messages) + 1)
  <2>1. CASE InHeader(off)
    BY <1>1, <1>2, <2>1 DEF InHeader
  <2>2. CASE BehindHeader(off)
    BY <1>1, <1>2, <2>2 DEF BehindHeader
  <2>3. CASE InBody(off)
    BY <1>1, <1>2, <2>3 DEF InBody
  <2> QED
    BY <2>1, <2>2, <2>3, Zenon DEF After
<1>4. ASSUME NEW k \in 1..Len(inspected)
      PROVE  /\ k + first - 1 \in 1..Len(messages)
             /\ k + first - 1 = k + 1
  BY <1>1, <1>2, <1>3 DEF first
<1>5. \A k \in 1..Len(inspected) : Entered(messages, cuts, inspected[k], k + first - 1)
  BY Zenon DEF After, Past, PastOf
<1> QED
  BY <1>1, <1>2, <1>3, <1>4, <1>5

\* When the handler is idle, it waits for the message that has not arrived.
LEMMA IdleWaits ==
  ASSUME StreamGiven, NEW off, Layout(messages, off), Input, After(off), running = "idle"
  PROVE  off[current] <= arrived /\ (current <= Len(messages) => arrived < off[current + 1])
<1>0. Counts(off) /\ Places(off)
  BY Numbers
<1>1. taken = arrived /\ arrived \in Nat
  <2>1. chunk = <<>>
    BY DEF After
  <2> QED
    BY <1>0, <2>1 DEF Counts
<1>2. current \in 1..(Len(messages) + 1) /\ off[current] \in Nat
  BY <1>0, Places1 DEF Places
<1>3. ASSUME current <= Len(messages)
      PROVE  /\ off[current + 1] = off[current] + (HeaderSize + messages[current].len)
             /\ messages[current].len \in Nat /\ HeaderSize \in Nat
  BY <1>0, <1>2, <1>3 DEF Places, Counts
<1> DEFINE a == off[current]
           b == off[current + 1]
           l == messages[current].len
<1>4. a \in Nat /\ (current <= Len(messages) => b = a + (HeaderSize + l) /\ l \in Nat)
  BY <1>2, <1>3
<1>5. HeaderSize \in Nat
  BY StreamAssumption
<1>6. CASE InHeader(off)
  <2>1. taken = a + Len(msg.header) /\ Len(msg.header) < HeaderSize /\ Len(msg.header) \in Nat
    BY <1>6, LenProperties DEF InHeader, Part
  <2> HIDE DEF a, b, l
  <2>2. a <= arrived /\ (current <= Len(messages) => arrived < b)
    BY <1>1, <1>4, <1>5, <2>1
  <2> QED
    BY <2>2 DEF a, b
<1>7. CASE InBody(off)
  <2>1. /\ taken = a + HeaderSize + msg.received /\ msg.received <= l
        /\ msg.received \in Nat /\ msg.state # "COMPLETE" /\ (msg.received # l) /\ current <= Len(messages)
    <3>1. msg.received \in Nat
      BY DEF After, SftpMessage
    <3>2. current <= Len(messages)
      BY <1>0, <1>7 DEF InBody, Counts
    <3> QED
      BY <1>7, <3>1, <3>2 DEF InBody
  <2> HIDE DEF a, b, l
  <2>2. a <= arrived /\ (current <= Len(messages) => arrived < b)
    BY <1>1, <1>4, <1>5, <2>1
  <2> QED
    BY <2>2 DEF a, b
<1>8. ~BehindHeader(off)
  BY DEF BehindHeader
<1> QED
  BY <1>6, <1>7, <1>8 DEF After

\* The invariant implies what it is for.
LEMMA IntactFromInv ==
  ASSUME StreamInv
  PROVE  MessagesIntact
<1> DEFINE Right(k, i) ==
             /\ inspected[k].header = SubSeq(Bytes(i), 1, HeaderSize)
             /\ inspected[k].type = messages[i].type
             /\ messages[i].type = "whole" => inspected[k].buffer = Payload(i)
<1> SUFFICES ASSUME ~OpeningCut, ~early
             PROVE  /\ running # "fatal"
                    /\ running = "idle" => /\ Len(inspected) = Cardinality(Arrived)
                                          /\ \A k \in 1..Len(inspected) : Right(k, k + 1)
  BY Zenon DEF MessagesIntact
<1>0. StreamGiven
  BY DEF StreamInv
<1>1. PICK off : Follows(off)
  BY DEF StreamInv
<1>1a. running # "fatal"
  BY <1>1 DEF Follows, Before, After
<1> SUFFICES ASSUME running = "idle"
             PROVE  /\ Len(inspected) = Cardinality(Arrived)
                    /\ \A k \in 1..Len(inspected) : Right(k, k + 1)
  BY <1>1a
<1>2. Layout(messages, off) /\ Input /\ Counts(off) /\ Places(off)
  BY <1>0, <1>1, Numbers DEF Follows
<1>3. CASE Before(off)
  <2>1. first = 2 /\ (arrived = 0 \/ arrived = off[2]) /\ inspected = <<>>
    BY <1>3 DEF Before, first
  <2>2. Len(messages) \in Nat \ {0}
    BY <1>2 DEF Counts
  <2>3. ASSUME first <= Len(messages) PROVE arrived < off[first + 1]
    <3>1. 2 \in 1..Len(messages) /\ 2 \in 1..(Len(messages) + 1) /\ 2 + 1 = 3
      BY <2>1, <2>2, <2>3
    <3>2. off[3] = off[2] + (HeaderSize + messages[2].len) /\ messages[2].len \in Nat /\ off[2] \in Nat
            /\ HeaderSize \in Nat \ {0}
      BY <1>2, <3>1 DEF Places
    <3> DEFINE a == off[2]
               b == off[3]
               l == messages[2].len
    <3>3. b = a + (HeaderSize + l) /\ l \in Nat /\ a \in Nat /\ HeaderSize \in Nat \ {0}
      BY <3>2
    <3>4. arrived = 0 \/ arrived = a
      BY <2>1
    <3> HIDE DEF a, b, l
    <3>5. arrived < b
      BY <3>3, <3>4
    <3> QED
      BY <2>1, <3>1, <3>5 DEF b
  <2>4. first \in first..(Len(messages) + 1) /\ ~(first > first) /\ 2 - 1 = 1
    BY <2>1, <2>2
  <2>5. Arrived = first..(first - 1)
    BY <1>0, <1>2, <2>3, <2>4, ArrivedCurrent
  <2>6. Arrived = {}
    BY <2>1, <2>5
  <2> QED
    BY <2>1, <2>6, FS_EmptySet
<1>4. CASE After(off)
  <2>1. /\ Len(inspected) \in Nat /\ first \in {1, 2} /\ current = Len(inspected) + first
        /\ current \in 1..(Len(messages) + 1)
    BY <1>4, Places1
  <2>2. off[current] <= arrived /\ (current <= Len(messages) => arrived < off[current + 1])
    BY <1>0, <1>2, <1>4, IdleWaits
  <2>3. Len(messages) \in Nat /\ current \in first..(Len(messages) + 1)
    BY <1>2, <2>1 DEF Counts
  <2>4. Arrived = first..(current - 1)
    BY <1>0, <1>2, <2>2, <2>3, ArrivedCurrent
  <2>5. Cardinality(Arrived) = Len(inspected)
    <3>1. first \in Int /\ current - 1 \in Int
      BY <2>1
    <3>2. Cardinality(first..(current - 1)) = IF first > current - 1 THEN 0 ELSE (current - 1) - first + 1
      BY <3>1, FS_Interval
    <3>3. (IF first > current - 1 THEN 0 ELSE (current - 1) - first + 1) = Len(inspected)
      BY <2>1
    <3> QED
      BY <2>4, <3>2, <3>3
  <2>6. ASSUME NEW k \in 1..Len(inspected), NEW i, i = k + 1
        PROVE  Right(k, i)
    <3>1. i \in 1..Len(messages) /\ Entered(messages, cuts, inspected[k], i)
      BY <1>4, <2>6, Places1
    <3>2. Part(inspected[k].header, i, 0, HeaderSize) /\ inspected[k].type = messages[i].type
            /\ KeptOf(messages, cuts, i, inspected[k].buffer, messages[i].len)
      BY <3>1 DEF Entered
    <3>3. inspected[k].header = SubSeq(Bytes(i), 1, HeaderSize)
      BY <1>0, <3>1, <3>2, HeaderIs
    <3>4. messages[i].type = "whole" => Part(inspected[k].buffer, i, HeaderSize, messages[i].len)
      BY <3>2 DEF KeptOf
    <3>5. messages[i].type = "whole" => inspected[k].buffer = Payload(i)
      BY <1>0, <3>1, <3>4, PayloadIs, PartUnique
    <3> QED
      BY <3>2, <3>3, <3>5
  <2> QED
    BY <2>5, <2>6
<1> QED
  BY <1>1, <1>3, <1>4 DEF Follows

\* The invariant keeps the prefix of bulk messages.
LEMMA PrefixFromInv ==
  ASSUME StreamInv
  PROVE  PrefixIntact
<1> SUFFICES ASSUME ~OpeningCut, ~early, NEW k \in 1..Len(inspected), NEW i, i = k + 1,
                    messages[i].type = "bulk", Cardinality(PrefixCuts(i)) < 2
             PROVE  IsPrefix(SubSeq(Payload(i), 1, Least(PrefixSize, messages[i].len)),
                             inspected[k].buffer)
  BY DEF PrefixIntact
<1>0. StreamGiven
  BY DEF StreamInv
<1>1. PICK off : Follows(off)
  BY DEF StreamInv
<1>2. CASE Before(off)
  BY <1>2 DEF Before
<1>3. CASE After(off)
  <2>1. i \in 1..Len(messages) /\ Entered(messages, cuts, inspected[k], i)
    BY <1>3, Places1
  <2>2. KeptOf(messages, cuts, i, inspected[k].buffer, messages[i].len) /\ inspected[k].buffer \in Seq(Byte)
    BY <2>1 DEF Entered, KeptOf
  <2>3. ~TwoCuts(messages, cuts, i)
    BY <1>0, <2>1, CutsCounted
  <2>4. ~(messages[i].len < PrefixOf(messages, i))
    <3>1. messages[i].len \in Nat /\ PrefixSize \in Nat
      BY <1>0, <2>1, Sizes, StreamAssumption DEF StreamGiven
    <3> QED
      BY <3>1 DEF PrefixOf, Least
  <2>5. Len(inspected[k].buffer) >= PrefixOf(messages, i)
          /\ \A x \in 1..PrefixOf(messages, i) : inspected[k].buffer[x] = <<i, HeaderSize + x>>
    BY <2>2, <2>3, <2>4, Zenon DEF KeptOf
  <2> QED
    BY <1>0, <2>1, <2>2, <2>5, PrefixIs
<1> QED
  BY <1>1, <1>2, <1>3 DEF Follows

-----------------------------------------------------------------------------
(***************************************************************************)
(* The invariant holds at the start.                                       *)
(***************************************************************************)
LEMMA StreamStarts ==
  ASSUME StreamInit
  PROVE  StreamInv
<1>1. messages \in Seq(Message) /\ messages # <<>>
  <2>1. PICK m \in 0..MaxMessages : messages \in [1..m -> Message]
    BY DEF StreamInit, BoundedSeq, SeqOf
  <2>2. m \in Nat
    BY <2>1, StreamAssumption
  <2> QED
    BY <2>1, <2>2 DEF StreamInit
<1>2. StreamGiven
  BY <1>1 DEF StreamInit, StreamGiven
<1>3. PICK off : Layout(messages, off)
  BY <1>1, StreamLaid
<1>4. todo = StreamOf(messages) /\ todo \in Seq(Byte) /\ Len(todo) \in Nat
  <2>1. todo = StreamOf(messages)
    BY Zenon DEF StreamInit, StreamOf, Bytes, BytesOf, Size
  <2>2. StreamOf(messages) \in Seq(Byte)
    BY <1>3 DEF Layout
  <2> QED
    BY <2>1, <2>2, LenProperties
<1>5. arrived = 0 /\ chunk = <<>> /\ Len(chunk) = 0 /\ taken = 0
  BY <1>4 DEF StreamInit, arrived, taken
<1>6. Input
  <2>1. \A k \in 1..Len(todo) : todo[k] = StreamOf(messages)[arrived + k]
    BY <1>4, <1>5
  <2>2. Len(todo) <= Len(StreamOf(messages)) /\ Len(chunk) <= arrived /\ ~(arrived > 0)
    BY <1>4, <1>5
  <2>3. chunk \in Seq(Byte) /\ \A k \in 1..Len(chunk) : chunk[k] = StreamOf(messages)[taken + k]
    BY <1>5
  <2> QED
    BY <1>4, <2>1, <2>2, <2>3, Zenon DEF Input
<1>7. Before(off)
  BY <1>5 DEF StreamInit, Before
<1> QED
  BY <1>2, <1>3, <1>6, <1>7 DEF StreamInv, Follows

-----------------------------------------------------------------------------
(***************************************************************************)
(* What the handler takes from the packet.                                 *)
(***************************************************************************)

\* The numbers of one message.
LEMMA PlaceOf ==
  ASSUME StreamGiven, NEW off, Layout(messages, off), Input, NEW i \in 1..Len(messages)
  PROVE  /\ off[i] \in Nat /\ messages[i].len \in Nat /\ HeaderSize \in Nat \ {0}
         /\ HeaderSize + messages[i].len \in Nat
         /\ off[i + 1] = off[i] + (HeaderSize + messages[i].len)
         /\ Len(messages) \in Nat /\ i \in 1..(Len(messages) + 1) /\ i + 1 \in 1..(Len(messages) + 1)
         /\ Len(chunk) \in Nat /\ arrived \in Nat /\ taken \in Nat /\ arrived = taken + Len(chunk)
<1>0. Counts(off) /\ Places(off)
  BY Numbers
<1>1. /\ Len(messages) \in Nat /\ Len(chunk) \in Nat /\ arrived \in Nat /\ taken \in Nat
      /\ arrived = taken + Len(chunk)
  BY <1>0 DEF Counts
<1>2. i \in 1..(Len(messages) + 1) /\ i + 1 \in 1..(Len(messages) + 1)
  BY <1>1
<1>3. /\ off[i] \in Nat /\ messages[i].len \in Nat /\ HeaderSize \in Nat \ {0}
      /\ off[i + 1] = off[i] + (HeaderSize + messages[i].len)
  BY <1>0, <1>2, Zenon DEF Places
<1>4. HeaderSize + messages[i].len \in Nat
  BY <1>3
<1> QED
  BY <1>1, <1>2, <1>3, <1>4, Zenon

\* Bytes of a message, and those behind them.
LEMMA Joined ==
  ASSUME NEW s, NEW t, NEW i, NEW at \in Nat, NEW n \in Nat, NEW k \in Nat,
         Part(s, i, at, n), Part(t, i, at + n, k)
  PROVE  Part(s \o t, i, at, n + k)
<1>1. s \in Seq(Byte) /\ Len(s) = n /\ t \in Seq(Byte) /\ Len(t) = k
  BY DEF Part
<1>2. /\ s \o t \in Seq(Byte) /\ Len(s \o t) = n + k
      /\ \A x \in 1..n : (s \o t)[x] = s[x]
      /\ \A x \in 1..k : (s \o t)[n + x] = t[x]
  <2>1. /\ s \o t \in Seq(Byte) /\ Len(s \o t) = Len(s) + Len(t)
        /\ \A x \in 1..Len(s) : (s \o t)[x] = s[x]
        /\ \A x \in 1..Len(t) : (s \o t)[Len(s) + x] = t[x]
    <3>1. s \in Seq(Byte) /\ t \in Seq(Byte)
      BY <1>1
    <3> QED
      BY <3>1, ConcatElements, Zenon DEF Joins
  <2> QED
    BY <1>1, <2>1, Zenon
<1> DEFINE u == s \o t
<1> HIDE DEF u
<1>3. ASSUME NEW x \in 1..(n + k) PROVE u[x] = <<i, at + x>>
  <2>1. CASE x <= n
    <3>1. x \in 1..n
      BY <2>1
    <3> QED
      BY <1>2, <3>1 DEF Part, u
  <2>2. CASE ~(x <= n)
    <3>1. x - n \in 1..k /\ n + (x - n) = x /\ (at + n) + (x - n) = at + x
      BY <2>2
    <3>2. u[n + (x - n)] = t[x - n]
      BY <1>2, <3>1, Zenon DEF u
    <3>3. t[x - n] = <<i, (at + n) + (x - n)>>
      BY <3>1, Zenon DEF Part
    <3> QED
      BY <3>1, <3>2, <3>3
  <2> QED
    BY <2>1, <2>2
<1> QED
  BY <1>2, <1>3 DEF Part, u

\* A copy, of as many bytes as the packet has or more.
LEMMA CopyIs ==
  ASSUME Input, NEW n \in Nat
  PROVE  /\ Copy(n) \in Seq(Byte) /\ Len(Copy(n)) = n
         /\ \A k \in 1..n : k <= Len(chunk) => Copy(n)[k] = chunk[k]
<1>1. chunk \in Seq(Byte) /\ Len(chunk) \in Nat
  BY LenProperties DEF Input
<1>2. Junk \in Byte
  BY DEF Junk, Byte
<1>3. \A k \in 1..Len(chunk) : chunk[k] \in Byte
  BY <1>1
<1>4. \A k \in 1..n : (IF k <= Len(chunk) THEN chunk[k] ELSE Junk) \in Byte
  BY <1>1, <1>2, <1>3
<1>5. Copy(n) = [k \in 1..n |-> IF k <= Len(chunk) THEN chunk[k] ELSE Junk]
  BY DEF Copy
<1> QED
  BY <1>4, <1>5

\* The bytes of the packet, where the handler knows at which place they begin.
LEMMA ChunkAt ==
  ASSUME StreamGiven, NEW off, Layout(messages, off), Input, NEW i \in 1..Len(messages), NEW at \in Nat,
         taken = off[i] + at, NEW k \in 1..Len(chunk), at + k <= HeaderSize + messages[i].len
  PROVE  chunk[k] = <<i, at + k>>
<1>1. off[i] \in Nat /\ HeaderSize + messages[i].len \in Nat
  BY PlaceOf
<1> DEFINE a == off[i]
           z == HeaderSize + messages[i].len
<1>2. a \in Nat /\ z \in Nat /\ at + k <= z
  BY <1>1
<1>3. chunk[k] = StreamOf(messages)[taken + k]
  BY Zenon DEF Input
<1>4. taken + k = a + (at + k) /\ at + k \in 1..z
  <2>1. taken = a + at
    OBVIOUS
  <2> HIDE DEF a, z
  <2> QED
    BY <1>2, <2>1
<1>5. StreamOf(messages)[a + (at + k)] = <<i, at + k>>
  BY <1>4, ByteAt
<1> QED
  BY <1>3, <1>4, <1>5, Zenon

\* Such a copy is a part of the message.
LEMMA Copied ==
  ASSUME StreamGiven, NEW off, Layout(messages, off), Input, NEW i \in 1..Len(messages), NEW at \in Nat,
         taken = off[i] + at, NEW n \in 0..Len(chunk), at + n <= HeaderSize + messages[i].len
  PROVE  Part(Copy(n), i, at, n)
<1>1. n \in Nat /\ Len(chunk) \in Nat /\ HeaderSize + messages[i].len \in Nat
  BY PlaceOf
<1>2. Copy(n) \in Seq(Byte) /\ Len(Copy(n)) = n
  BY <1>1, CopyIs
<1>3. ASSUME NEW k \in 1..n PROVE Copy(n)[k] = <<i, at + k>>
  <2>1. k \in 1..Len(chunk) /\ k <= Len(chunk) /\ at + k <= HeaderSize + messages[i].len
    BY <1>1
  <2>2. Copy(n)[k] = chunk[k]
    BY <1>1, <2>1, CopyIs
  <2> QED
    BY <2>1, <2>2, ChunkAt
<1> QED
  BY <1>2, <1>3 DEF Part

\* The handler has read n more bytes.
LEMMA Passed ==
  ASSUME StreamGiven, NEW off, Layout(messages, off), Input, NEW n \in 0..Len(chunk), Pass(n), UNCHANGED input
  PROVE  /\ Input' /\ taken' = taken + n /\ arrived' = arrived
         /\ Len(chunk)' = Len(chunk) - n /\ (n = Len(chunk) => chunk' = <<>>)
<1> DEFINE s == StreamOf(messages)
<1>0. Counts(off)
  BY Numbers
<1>1. todo' = todo /\ messages' = messages /\ cuts' = cuts /\ arrived' = arrived /\ s' = s
  BY DEF input, arrived
<1>2. Len(chunk) \in Nat /\ arrived \in Nat /\ taken \in Nat /\ arrived = taken + Len(chunk) /\ n \in Nat
  BY <1>0 DEF Counts
<1>3. chunk' = SubSeq(chunk, n + 1, Len(chunk)) /\ chunk \in Seq(Byte)
  BY DEF Pass, Input
<1>4. chunk' \in Seq(Byte) /\ Len(chunk') = Len(chunk) - n /\ \A k \in 1..(Len(chunk) - n) : chunk'[k] = chunk[n + k]
  <2>1. \A k \in (n + 1)..Len(chunk) : chunk[k] \in Byte
    BY <1>2, <1>3
  <2>2. n + 1 \in Int /\ Len(chunk) \in Int
    BY <1>2
  <2>3. /\ chunk' \in Seq(Byte) /\ Len(chunk') = (IF n + 1 <= Len(chunk) THEN Len(chunk) - (n + 1) + 1 ELSE 0)
        /\ \A k \in 1..(Len(chunk) - (n + 1) + 1) : chunk'[k] = chunk[(n + 1) + k - 1]
    BY <1>3, <2>1, <2>2, SubSeqProperties
  <2>4. Len(chunk) - (n + 1) + 1 = Len(chunk) - n /\ Len(chunk') = Len(chunk) - n
    BY <1>2, <2>3
  <2>5. \A k \in 1..(Len(chunk) - n) : (n + 1) + k - 1 = n + k
    BY <1>2
  <2> QED
    BY <2>3, <2>4, <2>5
<1>5. taken' = taken + n
  BY <1>1, <1>2, <1>4 DEF taken
<1>6. \A k \in 1..Len(chunk') : chunk'[k] = s[taken' + k]
  <2> TAKE k \in 1..Len(chunk')
  <2>1. n + k \in 1..Len(chunk) /\ k \in 1..(Len(chunk) - n) /\ taken + (n + k) = taken' + k
    BY <1>2, <1>4, <1>5
  <2>2. chunk[n + k] = s[taken + (n + k)]
    BY <2>1, Zenon DEF Input
  <2> QED
    BY <1>4, <2>1, <2>2
<1>7. Len(chunk') <= arrived
  BY <1>2, <1>4
<1>8. Input'
  <2>1. /\ todo' \in Seq(Byte) /\ Len(todo') <= Len(s')
        /\ \A k \in 1..Len(todo') : todo'[k] = s'[arrived' + k]
        /\ arrived' > 0 => s'[arrived'] \in cuts'
    BY <1>1, Zenon DEF Input
  <2>2. chunk' \in Seq(Byte) /\ Len(chunk') <= arrived' /\ \A k \in 1..Len(chunk') : chunk'[k] = s'[taken' + k]
    BY <1>1, <1>4, <1>6, <1>7, Zenon
  <2> QED
    BY <2>1, <2>2, Zenon DEF Input
<1>9. n = Len(chunk) => chunk' = <<>>
  BY <1>2, <1>4, EmptySeq
<1> QED
  BY <1>1, <1>4, <1>5, <1>8, <1>9

\* What was kept stays right when further packets end.
LEMMA KeptOn ==
  ASSUME NEW ms, NEW cs, NEW ds, cs \subseteq ds, NEW i, NEW b, NEW r, KeptOf(ms, cs, i, b, r)
  PROVE  KeptOf(ms, ds, i, b, r)
<1>1. CutsOf(ms, cs, i) \subseteq CutsOf(ms, ds, i)
  BY DEF CutsOf
<1>2. TwoCuts(ms, cs, i) => TwoCuts(ms, ds, i)
  BY <1>1 DEF TwoCuts
<1> QED
  BY <1>1, <1>2, Zenon DEF KeptOf

\* What was delivered stays right when more cuts are known.
LEMMA PastOn ==
  ASSUME NEW ms, NEW cs, NEW ds, cs \subseteq ds, NEW f, NEW seen, PastOf(ms, cs, f, seen)
  PROVE  PastOf(ms, ds, f, seen)
<1>1. ASSUME NEW k \in 1..Len(seen) PROVE Entered(ms, ds, seen[k], k + f - 1)
  <2>1. Entered(ms, cs, seen[k], k + f - 1)
    BY DEF PastOf
  <2> QED
    BY <2>1, KeptOn DEF Entered
<1> QED
  BY <1>1 DEF PastOf

-----------------------------------------------------------------------------
(***************************************************************************)
(* The steps of the handler.                                               *)
(***************************************************************************)

\* What a step of the handler leaves alone.
LEMMA HandlerKeeps ==
  ASSUME StreamGiven, NEW off, Layout(messages, off), After(off), UNCHANGED input
  PROVE  /\ StreamGiven' /\ Layout(messages, off)' /\ first' = first
         /\ target_version' /\ sftp_session'
         /\ messages' = messages /\ cuts' = cuts
         /\ inspected' = inspected => Past' /\ current' = current
<1>1. /\ side' = side /\ messages' = messages /\ cuts' = cuts /\ target_version' = target_version
      /\ sftp_session' = sftp_session
  BY DEF input
<1>2. StreamGiven' /\ Layout(messages, off)' /\ first' = first /\ target_version' /\ sftp_session'
  BY <1>1 DEF StreamGiven, first, After
<1>3. ASSUME inspected' = inspected PROVE Past' /\ current' = current
  BY <1>1, <1>2, <1>3 DEF Past, current, After
<1> QED
  BY <1>1, <1>2, <1>3

\* Bytes of a header are taken.
LEMMA TakeHeaderKeeps ==
  ASSUME StreamGiven, NEW off, Layout(messages, off), Input, After(off), TakeHeader
  PROVE  StreamGiven' /\ Follows(off)'
<1> DEFINE h == Len(msg.header)
           n == Least(Len(chunk), HeaderSize - h)
           header == msg.header \o Copy(n)
           c == current
<1>0. Counts(off) /\ Places(off)
  BY Numbers
<1>1. In("INIT") /\ Pass(n) /\ UNCHANGED <<input, datalen, inspected>>
  BY DEF TakeHeader
<1>2. InHeader(off) /\ running = "busy" /\ msg.state = "INIT"
  BY <1>1 DEF After, BehindHeader, InBody, In
<1>3. /\ h \in Nat /\ h < HeaderSize /\ Part(msg.header, c, 0, h) /\ taken = off[c] + h
      /\ c \in 1..(Len(messages) + 1) /\ msg.header \in Seq(Byte) /\ msg.buffer = <<>> /\ msg.received = 0
  BY <1>2, LenProperties DEF InHeader, Part
<1>4. Len(chunk) \in Nat /\ HeaderSize \in Nat \ {0} /\ arrived \in Nat /\ taken \in Nat /\ Len(messages) \in Nat
        /\ Len(todo) \in Nat
        /\ arrived = taken + Len(chunk) /\ arrived + Len(todo) = off[Len(messages) + 1]
  BY <1>0 DEF Counts, Places
<1> HIDE DEF h
<1>4a. h \in Nat /\ h < HeaderSize /\ HeaderSize \in Nat /\ Len(chunk) \in Nat
  BY <1>3, <1>4
<1>4b. arrived \in Nat /\ taken \in Nat /\ Len(todo) \in Nat /\ arrived = taken + Len(chunk)
  BY <1>4
<1>4c. c \in 1..(Len(messages) + 1) /\ Len(messages) \in Nat
  BY <1>3, <1>4
<1>5. n \in 0..Len(chunk) /\ n <= HeaderSize - h /\ n \in Nat /\ (n = Len(chunk) \/ n = HeaderSize - h)
  BY <1>4a DEF Least
<1> HIDE DEF n, c
<1>5a. c \in 1..Len(messages) \/ c = Len(messages) + 1
  BY <1>4c
<1>5b. c = Len(messages) + 1 => h = 0 /\ n = 0
  <2> SUFFICES ASSUME c = Len(messages) + 1 PROVE h = 0 /\ n = 0
    OBVIOUS
  <2> DEFINE e == off[Len(messages) + 1]
  <2>1. e \in Nat
    <3>1. c \in 1..(Len(messages) + 1) => off[c] \in Nat
      BY <1>0 DEF Places
    <3> QED
      BY <1>4c, <3>1
  <2>2. taken = e + h /\ arrived + Len(todo) = e
    BY <1>3, <1>4
  <2> HIDE DEF e
  <2> QED
    BY <1>4a, <1>4b, <1>5, <2>1, <2>2
<1>6. Input' /\ taken' = taken + n /\ Len(chunk)' = Len(chunk) - n /\ (n = Len(chunk) => chunk' = <<>>)
  BY <1>1, <1>5, Passed
<1>7. Part(header, c, 0, h + n)
  <2>1. CASE c \in 1..Len(messages)
    <3>1. h + n <= HeaderSize + messages[c].len
      <4> DEFINE l == messages[c].len
      <4>1. l \in Nat
        BY <2>1, PlaceOf
      <4> HIDE DEF l
      <4>2. h + n <= HeaderSize + l
        BY <1>4a, <1>5, <4>1
      <4> QED
        BY <4>2 DEF l
    <3>2. Part(Copy(n), c, h, n)
      BY <1>3, <1>5, <2>1, <3>1, Copied
    <3>3. 0 + h = h
      BY <1>3
    <3>4. 0 \in Nat /\ h \in Nat /\ n \in Nat /\ Part(msg.header, c, 0, h) /\ Part(Copy(n), c, 0 + h, n)
      BY <1>3, <1>5, <3>2, <3>3
    <3> QED
      BY <3>4, Joined
  <2>2. CASE c = Len(messages) + 1
    <3>2. h = 0 /\ n = 0
      BY <1>5b, <2>2
    <3>3. msg.header = <<>>
      BY <1>3, <3>2, EmptySeq DEF h
    <3>4. Copy(n) = <<>>
      BY <3>2, CopyIs, EmptySeq
    <3>5. header = <<>> /\ h + n = 0
      BY <3>2, <3>3, <3>4
    <3>6. Part(<<>>, c, 0, 0)
      BY DEF Part
    <3> QED
      BY <3>5, <3>6
  <2> QED
    BY <1>5a, <2>1, <2>2
<1>8. header \in Seq(Byte) /\ Len(header) = h + n
  BY <1>7 DEF Part
<1>9. /\ StreamGiven' /\ Layout(messages, off)' /\ target_version' /\ sftp_session' /\ messages' = messages
      /\ Past' /\ current' = c
  BY <1>1, HandlerKeeps DEF c
<1>10. msg \in SftpMessage
  BY DEF After
<1>11. CASE Len(header) = HeaderSize
  <2>1. msg' = [msg EXCEPT !.header = header, !.state = "NEW"] /\ running' = running
    BY <1>11 DEF TakeHeader, n, h
  <2> HIDE DEF header
  <2>2. /\ msg' \in SftpMessage /\ msg'.header = header /\ msg'.state = "NEW"
        /\ msg'.buffer = msg.buffer /\ msg'.received = msg.received
    BY <1>8, <1>10, <2>1 DEF SftpMessage
  <2>3. h + n = HeaderSize
    BY <1>8, <1>11
  <2>4. c \in 1..Len(messages)
    <3>1. ~(h = 0 /\ n = 0)
      BY <1>4a, <2>3
    <3> QED
      BY <1>5a, <1>5b, <3>1
  <2>5. taken' = off[c] + HeaderSize
    <3>1. off[c] \in Nat
      BY <2>4, PlaceOf
    <3> DEFINE a == off[c]
    <3>2. a \in Nat /\ taken = a + h
      BY <1>3, <3>1
    <3> HIDE DEF a
    <3>3. taken' = a + HeaderSize
      BY <1>4a, <1>5, <1>6, <2>3, <3>2
    <3> QED
      BY <3>3 DEF a
  <2>6. BehindHeader(off)'
    <3>1. Part(msg'.header, current', 0, HeaderSize)
      BY <1>7, <1>9, <2>2, <2>3
    <3> QED
      BY <1>2, <1>3, <1>9, <2>1, <2>2, <2>4, <2>5, <3>1 DEF BehindHeader
  <2>7. After(off)'
    BY <1>2, <1>9, <2>1, <2>2, <2>6 DEF After
  <2> QED
    BY <1>6, <1>9, <2>7 DEF Follows
<1>12. CASE Len(header) # HeaderSize
  <2>1. msg' = [msg EXCEPT !.header = header] /\ running' = "idle"
    BY <1>12 DEF TakeHeader, n, h
  <2> HIDE DEF header
  <2>2. /\ msg' \in SftpMessage /\ msg'.header = header /\ msg'.state = "INIT"
        /\ msg'.buffer = msg.buffer /\ msg'.received = msg.received
    BY <1>2, <1>8, <1>10, <2>1 DEF SftpMessage
  <2>3. h + n < HeaderSize /\ n = Len(chunk)
    BY <1>4a, <1>5, <1>8, <1>12
  <2>4. taken' = off[c] + (h + n)
    <3>1. off[c] \in Nat
      BY <1>0, <1>3 DEF Places
    <3> DEFINE a == off[c]
    <3>2. a \in Nat /\ taken = a + h
      BY <1>3, <3>1
    <3> HIDE DEF a
    <3>3. taken' = a + (h + n)
      BY <1>4a, <1>5, <1>6, <3>2
    <3> QED
      BY <3>3 DEF a
  <2>5. InHeader(off)'
    <3>1. Len(msg'.header) = h + n
      BY <1>8, <2>2
    <3>2. Part(msg'.header, current', 0, Len(msg'.header))
      BY <1>7, <1>9, <2>2, <3>1
    <3> QED
      BY <1>3, <1>9, <2>2, <2>3, <2>4, <3>1, <3>2 DEF InHeader
  <2>6. After(off)'
    BY <1>6, <1>9, <2>1, <2>2, <2>3, <2>5 DEF After
  <2> QED
    BY <1>6, <1>9, <2>6 DEF Follows
<1> QED
  BY <1>11, <1>12

\* What is kept of the bytes the first packet of a body has.
LEMMA FirstKept ==
  ASSUME StreamGiven, NEW off, Layout(messages, off), Input, NEW i \in 1..Len(messages),
         taken = off[i] + HeaderSize, NEW n, n = Least(Len(chunk), messages[i].len)
  PROVE  KeptOf(messages, cuts, i, Copy(Kept(messages[i].type, n)), n)
<1> DEFINE l == messages[i].len
           q == Kept(messages[i].type, n)
           x == PrefixOf(messages, i)
<1>1. /\ l \in Nat /\ HeaderSize \in Nat \ {0} /\ Len(chunk) \in Nat /\ off[i] \in Nat
      /\ arrived = taken + Len(chunk) /\ arrived \in Nat
  BY PlaceOf
<1>2. PrefixSize \in Nat \ {0} /\ messages[i].type \in MessageTypes
  BY Sizes, StreamAssumption DEF StreamGiven
<1>3. n = Least(Len(chunk), l) /\ x = Least(PrefixSize, l)
        /\ (messages[i].type = "bulk" => q = Least(n, PrefixSize)) /\ (messages[i].type = "whole" => q = n)
  BY DEF PrefixOf, Kept
<1> HIDE DEF l, q, x
<1>3a. l \in Nat /\ Len(chunk) \in Nat /\ PrefixSize \in Nat /\ HeaderSize \in Nat /\ HeaderSize > 0
  BY <1>1, <1>2
<1>4. n \in 0..Len(chunk) /\ n <= l /\ n \in Nat /\ x \in Nat /\ x <= l /\ x <= PrefixSize /\ (n < l => n = Len(chunk))
  BY <1>3, <1>3a DEF Least
<1>5. q \in 0..Len(chunk) /\ q <= n /\ (messages[i].type = "bulk" => q <= PrefixSize /\ (q < n => q = PrefixSize))
        /\ (messages[i].type = "whole" => q = n) /\ q \in Nat
  <2>1. CASE messages[i].type = "bulk"
    <3>1. q = Least(n, PrefixSize) /\ messages[i].type # "whole"
      BY <1>3, <2>1
    <3>2. q \in 0..Len(chunk) /\ q <= n /\ q <= PrefixSize /\ (q < n => q = PrefixSize) /\ q \in Nat
      BY <1>3a, <1>4, <3>1 DEF Least
    <3> QED
      BY <3>1, <3>2
  <2>2. CASE messages[i].type = "whole"
    <3>1. q = n /\ messages[i].type # "bulk" /\ n <= n
      BY <1>3, <1>4, <2>2
    <3> QED
      BY <1>4, <3>1
  <2> QED
    BY <1>2, <2>1, <2>2 DEF MessageTypes
<1>6. Part(Copy(q), i, HeaderSize, q)
  <2>1. HeaderSize + q <= HeaderSize + messages[i].len
    <3>1. HeaderSize + q <= HeaderSize + l
      BY <1>1, <1>4, <1>5
    <3> QED
      BY <3>1 DEF l
  <2> QED
    BY <1>1, <1>5, <2>1, Copied
<1>7. Copy(q) \in Seq(Byte) /\ Len(Copy(q)) = q /\ \A k \in 1..q : Copy(q)[k] = <<i, HeaderSize + k>>
  BY <1>6 DEF Part
<1>8. ASSUME messages[i].type = "bulk", n < x
      PROVE  q = n /\ n \in CutsOf(messages, cuts, i)
  <2>1. n = Len(chunk) /\ q = n
    BY <1>1, <1>2, <1>4, <1>5, <1>8
  <2>2. <<i, HeaderSize + n>> \in cuts
    <3> DEFINE a == off[i]
    <3>1. a \in Nat /\ taken = a + HeaderSize
      BY <1>1
    <3> HIDE DEF a
    <3>1a. arrived = taken + n /\ n \in Nat
      BY <1>1, <1>4, <2>1
    <3>2. arrived = a + (HeaderSize + n) /\ arrived > 0
      BY <1>3a, <3>1, <3>1a
    <3>3. HeaderSize + n \in 1..(HeaderSize + messages[i].len)
      <4>1. HeaderSize + n \in 1..(HeaderSize + l)
        BY <1>3a, <1>4
      <4> QED
        BY <4>1 DEF l
    <3>4. StreamOf(messages)[a + (HeaderSize + n)] = <<i, HeaderSize + n>>
      BY <3>3, ByteAt DEF a
    <3>5. StreamOf(messages)[arrived] \in cuts
      BY <3>2 DEF Input
    <3> QED
      BY <3>2, <3>4, <3>5, Zenon
  <2>3. n \in 0..(x - 1)
    BY <1>4, <1>8
  <2> QED
    BY <2>1, <2>2, <2>3 DEF CutsOf, x
<1>9. ASSUME messages[i].type = "bulk", ~(n < x)
      PROVE  n >= x /\ q >= x /\ \A k \in 1..x : Copy(q)[k] = <<i, HeaderSize + k>>
  <2>1. n >= x /\ q >= x
    BY <1>2, <1>4, <1>5, <1>9
  <2>2. \A k \in 1..x : k \in 1..q
    BY <1>4, <1>5, <2>1
  <2> QED
    BY <1>7, <2>1, <2>2
<1>10. KeptOf(messages, cuts, i, Copy(q), n)
  <2>1. CASE messages[i].type = "bulk"
    <3>1. messages[i].type # "whole" /\ Len(Copy(q)) <= PrefixSize
      BY <1>5, <1>7, <2>1
    <3>2. CASE n < x
      <4>1. n < PrefixOf(messages, i) /\ Part(Copy(q), i, HeaderSize, n) /\ n \in CutsOf(messages, cuts, i)
        BY <1>6, <1>8, <2>1, <3>2 DEF x
      <4> QED
        BY <1>7, <3>1, <4>1, Zenon DEF KeptOf
    <3>3. CASE ~(n < x)
      <4>1. n >= x /\ Len(Copy(q)) >= x /\ \A k \in 1..x : Copy(q)[k] = <<i, HeaderSize + k>>
        BY <1>7, <1>9, <2>1, <3>3, Zenon
      <4> QED
        BY <1>7, <3>1, <4>1, Zenon DEF KeptOf, x
    <3> QED
      BY <3>2, <3>3
  <2>2. CASE messages[i].type = "whole"
    <3>1. Part(Copy(q), i, HeaderSize, n) /\ messages[i].type # "bulk"
      BY <1>5, <1>6, <2>2
    <3> QED
      BY <1>7, <3>1, Zenon DEF KeptOf
  <2> QED
    BY <1>2, <2>1, <2>2 DEF MessageTypes
<1> QED
  BY <1>10 DEF q

\* The end of the cases NEW and INCOMPLETE.
LEMMA ReceivedKeeps ==
  ASSUME StreamGiven, NEW off, Layout(messages, off), After(off), running = "busy", UNCHANGED <<input, inspected>>,
         current \in 1..Len(messages), NEW new \in SftpMessage, Received(new),
         Part(new.header, current, 0, HeaderSize), new.type = messages[current].type,
         new.length = messages[current].len, new.received <= new.length,
         KeptOf(messages, cuts, current, new.buffer, new.received),
         Input', taken' = off[current] + HeaderSize + new.received,
         new.received # new.length => chunk' = <<>>
  PROVE  StreamGiven' /\ Follows(off)'
<1>1. /\ StreamGiven' /\ Layout(messages, off)' /\ target_version' /\ sftp_session' /\ messages' = messages /\ cuts' = cuts
      /\ Past' /\ current' = current
  BY HandlerKeeps
<1>2. CASE new.received = new.length
  <2>1. msg' = [new EXCEPT !.state = "COMPLETE"] /\ running' = "busy"
    BY <1>2 DEF Received
  <2>2. /\ msg' \in SftpMessage /\ msg'.state = "COMPLETE" /\ msg'.header = new.header /\ msg'.type = new.type
        /\ msg'.length = new.length /\ msg'.received = new.received /\ msg'.buffer = new.buffer
    BY <2>1 DEF SftpMessage
  <2>3. InBody(off)'
    BY <1>1, <1>2, <2>1, <2>2 DEF InBody
  <2>4. After(off)'
    BY <1>1, <2>1, <2>2, <2>3 DEF After
  <2> QED
    BY <1>1, <2>4 DEF Follows
<1>3. CASE new.received # new.length
  <2>1. msg' = [new EXCEPT !.state = "INCOMPLETE"] /\ running' = "idle" /\ chunk' = <<>>
    BY <1>3 DEF Received
  <2>2. /\ msg' \in SftpMessage /\ msg'.state = "INCOMPLETE" /\ msg'.header = new.header /\ msg'.type = new.type
        /\ msg'.length = new.length /\ msg'.received = new.received /\ msg'.buffer = new.buffer
    BY <2>1 DEF SftpMessage
  <2>3. InBody(off)'
    BY <1>1, <1>3, <2>1, <2>2 DEF InBody
  <2>4. After(off)'
    BY <1>1, <2>1, <2>2, <2>3 DEF After
  <2> QED
    BY <1>1, <2>4 DEF Follows
<1> QED
  BY <1>2, <1>3

\* A whole header is the one of its message and of no other one.
LEMMA HeaderSays ==
  ASSUME StreamGiven, NEW i \in 1..Len(messages), NEW s, Part(s, i, 0, HeaderSize)
  PROVE  Headers(s) = {[type |-> messages[i].type, field |-> messages[i].len + 1]}
<1> DEFINE J == {j \in DOMAIN messages : s = SubSeq(Bytes(j), 1, HeaderSize)}
<1>1. DOMAIN messages = 1..Len(messages)
  BY DEF StreamGiven
<1>2. HeaderSize \in Nat \ {0}
  BY StreamAssumption
<1>3. i \in J
  BY <1>1, HeaderIs
<1>4. ASSUME NEW j \in J PROVE j = i
  <2>1. j \in 1..Len(messages) /\ s = SubSeq(Bytes(j), 1, HeaderSize)
    BY <1>1
  <2>2. messages[j].len \in Nat
    BY <2>1, Sizes DEF StreamGiven
  <2>3. 0 + HeaderSize <= HeaderSize + messages[j].len /\ 0 + 1 = 1 /\ 0 + HeaderSize = HeaderSize
    BY <1>2, <2>2
  <2>4. Part(SubSeq(Bytes(j), 0 + 1, 0 + HeaderSize), j, 0, HeaderSize)
    BY <1>2, <2>1, <2>3, PartOfBytes
  <2>5. Part(s, j, 0, HeaderSize)
    BY <2>1, <2>3, <2>4
  <2>6. 1 \in 1..HeaderSize
    BY <1>2
  <2>7. s[1] = <<j, 0 + 1>> /\ s[1] = <<i, 0 + 1>>
    BY <2>5, <2>6, Zenon DEF Part
  <2> QED
    BY <2>7
<1>5. J = {i}
  BY <1>3, <1>4
<1> DEFINE own == {messages[j] : j \in J}
           says == {[type |-> m.type, field |-> m.len + 1] : m \in own}
<1>6. own = {messages[i]}
  BY <1>5
<1> HIDE DEF J
<1>7. Headers(s) = says
  BY <1>6 DEF Headers, J
<1> HIDE DEF own
<1>8. says = {[type |-> messages[i].type, field |-> messages[i].len + 1]}
  BY <1>6
<1> QED
  BY <1>7, <1>8

\* A complete header is read, and the first bytes of its payload taken.
LEMMA ReadHeaderKeeps ==
  ASSUME StreamGiven, NEW off, Layout(messages, off), Input, After(off), ReadHeader
  PROVE  StreamGiven' /\ Follows(off)'
<1> DEFINE c == current
           l == messages[c].len
           n == Least(Len(chunk), l)
           q == Kept(messages[c].type, n)
           new == [msg EXCEPT !.type = messages[c].type, !.length = l, !.received = @ + n,
                              !.buffer = @ \o Copy(q)]
<1>1. BehindHeader(off) /\ running = "busy" /\ msg.state = "NEW"
  BY DEF ReadHeader, After, InHeader, InBody, In
<1>2. /\ c \in 1..Len(messages) /\ Part(msg.header, c, 0, HeaderSize) /\ taken = off[c] + HeaderSize
      /\ msg.buffer = <<>> /\ msg.received = 0
  BY <1>1 DEF BehindHeader
<1>3. Headers(msg.header) = {[type |-> messages[c].type, field |-> l + 1]}
  BY <1>2, HeaderSays
<1>5. l \in Nat /\ messages[c].type \in MessageTypes
  BY <1>2, Sizes DEF StreamGiven
<1>5a. LengthOf(l + 1) = l
  <2> HIDE DEF l
  <2> QED
    BY <1>5 DEF LengthOf
<1>4. Received(new) /\ Pass(n) /\ UNCHANGED <<input, inspected>>
  <2> DEFINE h == [type |-> messages[c].type, field |-> l + 1]
  <2>1. h \in Headers(msg.header) /\ \A g \in Headers(msg.header) : g = h
    BY <1>3
  <2>2. h.type = messages[c].type /\ LengthOf(h.field) = l
    BY <1>5a
  <2> HIDE DEF h, l
  <2> QED
    BY <2>1, <2>2 DEF ReadHeader
<1>6. Len(chunk) \in Nat /\ off[c] \in Nat /\ HeaderSize \in Nat
  BY <1>2, PlaceOf
<1>7. n \in 0..Len(chunk) /\ n \in Nat /\ n <= l /\ (n # l => n = Len(chunk))
  <2> HIDE DEF l
  <2> QED
    BY <1>5, <1>6 DEF Least
<1>8. KeptOf(messages, cuts, c, Copy(q), n) /\ Copy(q) \in Seq(Byte)
  <2>1. KeptOf(messages, cuts, c, Copy(q), n)
    BY <1>2, FirstKept
  <2> QED
    BY <2>1 DEF KeptOf
<1> HIDE DEF n, q, l, c
<1>9. msg \in SftpMessage
  BY DEF After
<1>10. /\ new \in SftpMessage /\ new.header = msg.header /\ new.type = messages[c].type
       /\ new.length = l /\ new.received = n /\ new.buffer = Copy(q)
  <2>1. <<>> \o Copy(q) = Copy(q) /\ 0 + n = n
    BY <1>7, <1>8, ConcatEmptySeq
  <2>2. new = [msg EXCEPT !.type = messages[c].type, !.length = l, !.received = n, !.buffer = Copy(q)]
    BY <1>2, <1>9, <2>1 DEF SftpMessage
  <2> HIDE DEF new
  <2> QED
    BY <1>5, <1>7, <1>8, <1>9, <2>2 DEF SftpMessage
<1> HIDE DEF new
<1>11. Input' /\ taken' = taken + n /\ (n = Len(chunk) => chunk' = <<>>)
  <2>1. UNCHANGED input
    BY <1>4
  <2> QED
    BY <1>4, <1>7, <2>1, Passed
<1>12. taken' = off[c] + HeaderSize + new.received
  BY <1>2, <1>10, <1>11
<1>13. new.received <= new.length /\ (new.received # new.length => chunk' = <<>>)
  BY <1>7, <1>10, <1>11
<1>14. c = current /\ l = messages[c].len
  BY DEF c, l
<1> QED
  BY <1>1, <1>2, <1>4, <1>8, <1>10, <1>11, <1>12, <1>13, <1>14, ReceivedKeeps

\* A packet that ends within the part that is kept has cut it.
LEMMA CutHere ==
  ASSUME StreamGiven, NEW off, Layout(messages, off), Input, NEW i \in 1..Len(messages), NEW r \in Nat,
         arrived = off[i] + HeaderSize + r, r < PrefixOf(messages, i)
  PROVE  r \in CutsOf(messages, cuts, i)
<1> DEFINE l == messages[i].len
           x == PrefixOf(messages, i)
           a == off[i]
<1>1. l \in Nat /\ HeaderSize \in Nat \ {0} /\ a \in Nat
  BY PlaceOf
<1>2. x = Least(PrefixSize, l) /\ PrefixSize \in Nat /\ r < x /\ arrived = a + HeaderSize + r
  BY StreamAssumption DEF PrefixOf
<1> HIDE DEF l, x, a
<1>3. x <= l /\ x \in Nat /\ arrived = a + (HeaderSize + r) /\ arrived > 0 /\ r \in 0..(x - 1)
  BY <1>1, <1>2 DEF Least
<1>4. HeaderSize + r \in 1..(HeaderSize + l)
  BY <1>1, <1>2, <1>3
<1>5. StreamOf(messages)[a + (HeaderSize + r)] = <<i, HeaderSize + r>>
  BY <1>4, ByteAt DEF a, l
<1>6. StreamOf(messages)[arrived] \in cuts
  BY <1>3 DEF Input
<1>7. <<i, HeaderSize + r>> \in cuts
  BY <1>3, <1>5, <1>6, Zenon
<1> QED
  BY <1>3, <1>7 DEF CutsOf, x

\* A prefix that is filled up with one copy: it is right, if the packet has all
\* that was missing, and was cut twice otherwise.
LEMMA PrefixFilled ==
  ASSUME StreamGiven, NEW off, Layout(messages, off), Input, NEW i \in 1..Len(messages),
         messages[i].type = "bulk", NEW b, NEW r \in Nat, KeptOf(messages, cuts, i, b, r),
         taken = off[i] + HeaderSize + r, NEW n \in 1..Len(chunk), r + n <= messages[i].len,
         r + n < messages[i].len => n = Len(chunk)
  PROVE  KeptOf(messages, cuts, i, b \o Copy(PrefixSize - Len(b)), r + n)
<1> DEFINE l == messages[i].len
           x == PrefixOf(messages, i)
           d == PrefixSize - Len(b)
           e == b \o Copy(d)
<1>1. /\ l \in Nat /\ HeaderSize \in Nat \ {0} /\ Len(chunk) \in Nat /\ off[i] \in Nat
      /\ arrived = taken + Len(chunk) /\ arrived \in Nat
  BY PlaceOf
<1>2. x = Least(PrefixSize, l) /\ PrefixSize \in Nat
  BY StreamAssumption DEF PrefixOf
<1>3. b \in Seq(Byte) /\ Len(b) <= PrefixSize /\ Len(b) \in Nat
  BY LenProperties DEF KeptOf
<1>4. \/ TwoCuts(messages, cuts, i)
      \/ r < x /\ Part(b, i, HeaderSize, r) /\ r \in CutsOf(messages, cuts, i)
      \/ r >= x /\ Len(b) >= x /\ \A k \in 1..x : b[k] = <<i, HeaderSize + k>>
  BY Zenon DEF KeptOf
<1>5. r + n <= l /\ (r + n < l => n = Len(chunk)) /\ n \in Nat /\ n > 0 /\ n <= Len(chunk)
  BY <1>1
<1> HIDE DEF l, x, d
<1>6. d \in Nat /\ Len(b) + d = PrefixSize /\ x \in Nat /\ x <= PrefixSize /\ x <= l
  BY <1>1, <1>2, <1>3 DEF d, Least
<1>7. Copy(d) \in Seq(Byte) /\ Len(Copy(d)) = d /\ \A k \in 1..d : k <= Len(chunk) => Copy(d)[k] = chunk[k]
  BY <1>6, CopyIs
<1>8. /\ e \in Seq(Byte) /\ Len(e) = PrefixSize /\ \A k \in 1..Len(b) : e[k] = b[k]
      /\ \A k \in 1..d : e[Len(b) + k] = Copy(d)[k]
  <2>1. /\ e \in Seq(Byte) /\ Len(e) = Len(b) + Len(Copy(d)) /\ \A k \in 1..Len(b) : e[k] = b[k]
        /\ \A k \in 1..Len(Copy(d)) : e[Len(b) + k] = Copy(d)[k]
    <3> DEFINE y == Copy(d)
    <3>1. b \in Seq(Byte) /\ y \in Seq(Byte)
      BY <1>3, <1>7
    <3> HIDE DEF y
    <3>2. Joins(b, y)
      BY <3>1, ConcatElements
    <3>3. /\ b \o y \in Seq(Byte) /\ Len(b \o y) = Len(b) + Len(y)
          /\ \A k \in 1..Len(b) : (b \o y)[k] = b[k]
          /\ \A k \in 1..Len(y) : (b \o y)[Len(b) + k] = y[k]
      BY <3>2, Zenon DEF Joins
    <3> QED
      BY <3>3, Zenon DEF y
  <2> HIDE DEF e
  <2>2. Len(e) = PrefixSize
    BY <1>6, <1>7, <2>1
  <2> QED
    BY <1>7, <2>1, <2>2, Zenon
<1> HIDE DEF e
<1>9. CASE TwoCuts(messages, cuts, i)
  <2>1. Len(e) <= PrefixSize /\ messages[i].type # "whole"
    BY <1>2, <1>8
  <2> QED
    BY <1>8, <1>9, <2>1, Zenon DEF KeptOf, e, d
<1>10. CASE r < x /\ Part(b, i, HeaderSize, r) /\ r \in CutsOf(messages, cuts, i)
  <2>1. Len(b) = r /\ \A k \in 1..r : b[k] = <<i, HeaderSize + k>>
    BY <1>10 DEF Part
  <2>2. CASE r + n < x
    <3>1. arrived = off[i] + HeaderSize + (r + n)
      <4> DEFINE a == off[i]
      <4>1. a \in Nat /\ taken = a + HeaderSize + r
        BY <1>1
      <4> HIDE DEF a
      <4>2. arrived = a + HeaderSize + (r + n)
        BY <1>1, <1>5, <1>6, <2>2, <4>1
      <4> QED
        BY <4>2 DEF a
    <3>2. r + n \in CutsOf(messages, cuts, i)
      BY <1>5, <2>2, <3>1, CutHere DEF x
    <3>3. r # r + n
      BY <1>5
    <3>4. TwoCuts(messages, cuts, i)
      BY <1>10, <3>2, <3>3 DEF TwoCuts
    <3> QED
      BY <1>9, <3>4
  <2>3. CASE ~(r + n < x)
    <3>1. r + n >= x /\ Len(e) >= x /\ Len(e) <= PrefixSize /\ messages[i].type # "whole"
      BY <1>2, <1>5, <1>6, <1>8, <2>3
    <3>2. ASSUME NEW k \in 1..x PROVE e[k] = <<i, HeaderSize + k>>
      <4>1. CASE k <= r
        <5>1. k \in 1..Len(b) /\ k \in 1..r
          BY <1>6, <2>1, <4>1
        <5> QED
          BY <1>8, <2>1, <5>1
      <4>2. CASE ~(k <= r)
        <5>1. k - r \in 1..d /\ k - r <= Len(chunk) /\ k - r \in 1..Len(chunk) /\ Len(b) + (k - r) = k
          BY <1>1, <1>5, <1>6, <2>1, <2>3, <4>2
        <5>2. e[k] = chunk[k - r]
          <6>1. e[Len(b) + (k - r)] = Copy(d)[k - r]
            BY <1>8, <5>1, Zenon
          <6>2. Copy(d)[k - r] = chunk[k - r]
            BY <1>7, <5>1, Zenon
          <6> QED
            BY <5>1, <6>1, <6>2
        <5>3. HeaderSize + r \in Nat /\ (HeaderSize + r) + (k - r) = HeaderSize + k
          <6>1. HeaderSize \in Nat /\ k \in Nat /\ r \in Nat
            BY <1>1, <1>6
          <6> QED
            BY <6>1
        <5>4. (HeaderSize + r) + (k - r) <= HeaderSize + messages[i].len
          <6>1. HeaderSize + k <= HeaderSize + l
            BY <1>1, <1>6
          <6> QED
            BY <5>3, <6>1 DEF l
        <5>5. taken = off[i] + (HeaderSize + r)
          <6> DEFINE a == off[i]
          <6>1. a \in Nat /\ taken = a + HeaderSize + r
            BY <1>1
          <6> HIDE DEF a
          <6>2. taken = a + (HeaderSize + r)
            BY <1>1, <6>1
          <6> QED
            BY <6>2 DEF a
        <5>6. chunk[k - r] = <<i, (HeaderSize + r) + (k - r)>>
          BY <5>1, <5>3, <5>4, <5>5, ChunkAt
        <5> QED
          BY <5>2, <5>3, <5>6
      <4> QED
        BY <4>1, <4>2
    <3> QED
      BY <1>8, <3>1, <3>2, Zenon DEF KeptOf, e, d, x
  <2> QED
    BY <2>2, <2>3
<1>11. CASE r >= x /\ Len(b) >= x /\ \A k \in 1..x : b[k] = <<i, HeaderSize + k>>
  <2>1. r + n >= x /\ Len(e) >= x /\ Len(e) <= PrefixSize /\ messages[i].type # "whole"
    BY <1>2, <1>5, <1>6, <1>8, <1>11
  <2>2. ASSUME NEW k \in 1..x PROVE e[k] = <<i, HeaderSize + k>>
    <3>1. k \in 1..Len(b)
      BY <1>3, <1>6, <1>11
    <3> QED
      BY <1>8, <1>11, <3>1
  <2> QED
    BY <1>8, <2>1, <2>2, Zenon DEF KeptOf, e, d, x
<1> QED
  BY <1>4, <1>9, <1>10, <1>11

\* More bytes of a payload are taken.
LEMMA TakeMoreKeeps ==
  ASSUME StreamGiven, NEW off, Layout(messages, off), Input, After(off), TakeMore
  PROVE  StreamGiven' /\ Follows(off)'
<1> DEFINE c == current
           l == messages[c].len
           r == msg.received
           n == Least(msg.length - r, datalen)
           b == msg.buffer \o MoreBytes(n)
           new == [msg EXCEPT !.received = @ + n, !.buffer = @ \o MoreBytes(n)]
<1>0. msg \in SftpMessage
  BY DEF After
<1>1. InBody(off) /\ running = "busy" /\ msg.state = "INCOMPLETE"
  BY DEF TakeMore, After, InHeader, BehindHeader, In
<1>2. /\ c \in 1..Len(messages) /\ Part(msg.header, c, 0, HeaderSize) /\ taken = off[c] + HeaderSize + r
      /\ msg.type = messages[c].type /\ msg.length = l /\ r <= l /\ KeptOf(messages, cuts, c, msg.buffer, r)
      /\ r # l /\ datalen = Len(chunk) /\ Len(chunk) > 0
  BY <1>1 DEF InBody
<1>3. Received(new) /\ Pass(n) /\ UNCHANGED <<input, inspected>>
  BY DEF TakeMore
<1>4. l \in Nat /\ messages[c].type \in MessageTypes /\ r \in Nat /\ msg.buffer \in Seq(Byte)
  BY <1>0, <1>2, Sizes DEF StreamGiven, SftpMessage
<1>5. Len(chunk) \in Nat /\ off[c] \in Nat /\ HeaderSize \in Nat
  BY <1>2, PlaceOf
<1> HIDE DEF l, r, c
<1>6. /\ n \in 1..Len(chunk) /\ n \in Nat /\ r + n <= l /\ (r + n < l => n = Len(chunk))
      /\ (r + n # l => n = Len(chunk)) /\ n \in 0..Len(chunk)
  BY <1>2, <1>4, <1>5 DEF Least
<1> HIDE DEF n
<1>7. KeptOf(messages, cuts, c, b, r + n)
  <2>1. r + n <= messages[c].len /\ (r + n < messages[c].len => n = Len(chunk))
    BY <1>6 DEF l
  <2>2. CASE msg.type = "bulk"
    <3>1. b = msg.buffer \o Copy(PrefixSize - Len(msg.buffer))
      BY <2>2 DEF MoreBytes
    <3>2. messages[c].type = "bulk"
      BY <1>2, <2>2
    <3> QED
      BY <1>2, <1>4, <1>6, <2>1, <3>1, <3>2, PrefixFilled
  <2>3. CASE msg.type = "whole"
    <3>1. b = msg.buffer \o Copy(n) /\ messages[c].type = "whole" /\ messages[c].type # "bulk"
      BY <1>2, <2>3 DEF MoreBytes
    <3>2. Part(msg.buffer, c, HeaderSize, r)
      BY <1>2, <3>1 DEF KeptOf
    <3>3. Part(Copy(n), c, HeaderSize + r, n)
      <4>1. HeaderSize + r \in Nat /\ taken = off[c] + (HeaderSize + r)
        <5> DEFINE a == off[c]
        <5>1. a \in Nat /\ taken = a + HeaderSize + r
          BY <1>2, <1>5
        <5> HIDE DEF a
        <5>2. HeaderSize + r \in Nat /\ taken = a + (HeaderSize + r)
          BY <1>4, <1>5, <5>1
        <5> QED
          BY <5>2 DEF a
      <4>2. (HeaderSize + r) + n <= HeaderSize + messages[c].len
        <5>1. (HeaderSize + r) + n <= HeaderSize + l
          BY <1>4, <1>5, <1>6
        <5> QED
          BY <5>1 DEF l
      <4> QED
        BY <1>2, <1>6, <4>1, <4>2, Copied
    <3>4. Part(b, c, HeaderSize, r + n)
      BY <1>4, <1>5, <1>6, <3>1, <3>2, <3>3, Joined
    <3>5. b \in Seq(Byte)
      BY <3>4 DEF Part
    <3> QED
      BY <3>1, <3>4, <3>5, Zenon DEF KeptOf
  <2> QED
    BY <1>2, <1>4, <2>2, <2>3 DEF MessageTypes
<1>8. b \in Seq(Byte)
  BY <1>7 DEF KeptOf
<1>9. /\ new \in SftpMessage /\ new.header = msg.header /\ new.type = msg.type
      /\ new.length = msg.length /\ new.received = r + n /\ new.buffer = b
  <2> DEFINE z == r + n
  <2>1. new = [msg EXCEPT !.received = z, !.buffer = b]
    BY <1>0 DEF SftpMessage, r
  <2>2. z \in Nat
    BY <1>4, <1>6
  <2> HIDE DEF new, b, z
  <2>3. /\ new \in SftpMessage /\ new.header = msg.header /\ new.type = msg.type
        /\ new.length = msg.length /\ new.received = z /\ new.buffer = b
    BY <1>0, <1>8, <2>1, <2>2 DEF SftpMessage
  <2> QED
    BY <2>3 DEF z
<1> HIDE DEF new, b
<1>10. Input' /\ taken' = taken + n /\ (n = Len(chunk) => chunk' = <<>>)
  <2>1. UNCHANGED input
    BY <1>3
  <2> QED
    BY <1>3, <1>6, <2>1, Passed
<1>11. taken' = off[c] + HeaderSize + new.received
  <2> DEFINE a == off[c]
  <2>1. a \in Nat /\ taken = a + HeaderSize + r
    BY <1>2, <1>5
  <2> HIDE DEF a
  <2>2. taken' = a + HeaderSize + (r + n)
    BY <1>4, <1>5, <1>6, <1>10, <2>1
  <2> QED
    BY <1>9, <2>2 DEF a
<1>12. new.received <= new.length /\ (new.received # new.length => chunk' = <<>>)
  BY <1>2, <1>6, <1>9, <1>10
<1>13. c = current /\ l = messages[c].len
  BY DEF c, l
<1> QED
  BY <1>1, <1>2, <1>3, <1>7, <1>9, <1>10, <1>11, <1>12, <1>13, ReceivedKeeps

\* A complete message is handed to the inspection.
LEMMA DeliverKeeps ==
  ASSUME StreamGiven, NEW off, Layout(messages, off), Input, After(off), Deliver
  PROVE  StreamGiven' /\ Follows(off)'
<1> DEFINE c == current
           e == [header |-> msg.header, type |-> msg.type, buffer |-> msg.buffer]
<1>0. msg \in SftpMessage
  BY DEF After
<1>1. InBody(off) /\ running = "busy" /\ msg.state = "COMPLETE"
  BY DEF Deliver, After, InHeader, BehindHeader, In
<1>2. /\ c \in 1..Len(messages) /\ Part(msg.header, c, 0, HeaderSize)
      /\ taken = off[c] + HeaderSize + msg.received /\ msg.received = messages[c].len
      /\ msg.type = messages[c].type /\ KeptOf(messages, cuts, c, msg.buffer, msg.received)
  BY <1>1 DEF InBody
<1>3. /\ inspected' = Append(inspected, e) /\ msg' = Fresh /\ running' \in {"idle", "busy"}
      /\ (running' = "idle" => ~(Len(chunk) > 0)) /\ UNCHANGED <<input, chunk, datalen>>
  BY DEF Deliver
<1>4. /\ StreamGiven' /\ Layout(messages, off)' /\ target_version' /\ sftp_session' /\ messages' = messages /\ cuts' = cuts
      /\ first' = first
  BY <1>3, HandlerKeeps
<1>5. Len(inspected) \in Nat /\ first \in {1, 2} /\ c = Len(inspected) + first /\ inspected \in Seq(Entry)
  BY Places1 DEF After, Past, PastOf
<1>6. e \in Entry /\ Entered(messages, cuts, e, c)
  <2>1. e \in Entry
    BY <1>0 DEF SftpMessage, Entry
  <2> QED
    BY <1>2, <2>1 DEF Entered
<1> HIDE DEF e
<1>7. /\ inspected' \in Seq(Entry) /\ Len(inspected') = Len(inspected) + 1
      /\ \A k \in 1..Len(inspected) : inspected'[k] = inspected[k]
      /\ inspected'[Len(inspected) + 1] = e
  BY <1>3, <1>5, <1>6, AppendProperties
<1>8. current' = c + 1
  BY <1>4, <1>5, <1>7 DEF current
<1>9. Past'
  <2>1. ASSUME NEW k \in 1..Len(inspected') PROVE Entered(messages, cuts, inspected'[k], k + first - 1)
    <3>1. CASE k = Len(inspected) + 1
      <4>1. k + first - 1 = c
        BY <1>5, <3>1
      <4> QED
        BY <1>6, <1>7, <3>1, <4>1
    <3>2. CASE k # Len(inspected) + 1
      <4>1. k \in 1..Len(inspected)
        BY <1>5, <1>7, <3>2
      <4>2. Entered(messages, cuts, inspected[k], k + first - 1)
        BY <4>1, Places1
      <4> QED
        BY <1>7, <4>1, <4>2
    <3> QED
      BY <3>1, <3>2
  <2>2. PastOf(messages, cuts, first, inspected')
    BY <1>7, <2>1 DEF PastOf
  <2> QED
    BY <1>4, <2>2 DEF Past
<1>10. /\ arrived' = arrived /\ taken' = taken /\ Input' /\ chunk' = chunk
       /\ (running' = "idle" => chunk' = <<>>)
  <2>1. todo' = todo /\ messages' = messages /\ cuts' = cuts /\ chunk' = chunk
    BY <1>3 DEF input
  <2>2. arrived' = arrived /\ taken' = taken
    BY <2>1 DEF arrived, taken
  <2>3. Input'
    BY <2>1, <2>2, Zenon DEF Input
  <2>4. chunk \in Seq(Byte) /\ Len(chunk) \in Nat
    BY LenProperties DEF Input
  <2>5. ~(Len(chunk) > 0) => chunk = <<>>
    BY <2>4, EmptySeq
  <2> QED
    BY <1>3, <2>1, <2>2, <2>3, <2>5
<1>11. msg' \in SftpMessage /\ msg'.state = "INIT" /\ msg'.header = <<>> /\ msg'.buffer = <<>> /\ msg'.received = 0
  BY <1>3 DEF Fresh, SftpMessage, MessageTypes
<1>12. InHeader(off)'
  <2> DEFINE l == messages[c].len
             a == off[c]
             d == off[c + 1]
  <2>1. /\ a \in Nat /\ l \in Nat /\ HeaderSize \in Nat \ {0} /\ d = a + (HeaderSize + l)
        /\ c + 1 \in 1..(Len(messages) + 1)
    BY <1>2, PlaceOf
  <2>2. taken = a + HeaderSize + l
    BY <1>2
  <2> HIDE DEF a, d, l, c
  <2>3. taken' = d + 0 /\ 0 < HeaderSize
    BY <1>10, <2>1, <2>2
  <2>4. taken' = off[current'] + 0
    BY <1>8, <2>3 DEF d
  <2>5. Len(msg'.header) = 0 /\ Part(msg'.header, current', 0, 0)
    BY <1>11 DEF Part
  <2> QED
    BY <1>4, <1>8, <1>11, <2>1, <2>3, <2>4, <2>5 DEF InHeader
<1>13. After(off)'
  BY <1>3, <1>4, <1>9, <1>10, <1>11, <1>12 DEF After
<1> QED
  BY <1>4, <1>10, <1>13 DEF Follows

-----------------------------------------------------------------------------
(***************************************************************************)
(* The next packet.                                                        *)
(***************************************************************************)

\* Its bytes are the next ones of the stream.
LEMMA PacketBytes ==
  ASSUME StreamGiven, NEW off, Layout(messages, off), Input, NEW n \in 1..Len(todo), Arrives(n)
  PROVE  /\ StreamGiven' /\ Layout(messages, off)' /\ messages' = messages /\ cuts \subseteq cuts'
         /\ first' = first /\ arrived' = arrived + n /\ todo[n] \in cuts'
         /\ todo[n] = StreamOf(messages)[arrived + n]
         /\ todo' \in Seq(Byte) /\ Len(todo') <= Len(StreamOf(messages))
         /\ \A k \in 1..Len(todo') : todo'[k] = StreamOf(messages)[arrived' + k]
<1> DEFINE s == StreamOf(messages)
<1>0. Counts(off)
  BY Numbers
<1>1. messages' = messages /\ side' = side /\ cuts' = cuts \cup {todo[n]} /\ todo' = SubSeq(todo, n + 1, Len(todo))
  BY DEF Arrives
<1>2. Len(todo) \in Nat /\ arrived \in Nat /\ n \in Nat /\ todo \in Seq(Byte) /\ Len(s) \in Nat
        /\ arrived = Len(s) - Len(todo)
  BY <1>0 DEF Counts, Input, arrived
<1>3. /\ todo' \in Seq(Byte) /\ Len(todo') = Len(todo) - n
      /\ \A k \in 1..(Len(todo) - n) : todo'[k] = todo[n + k]
  <2>1. \A k \in (n + 1)..Len(todo) : todo[k] \in Byte
    BY <1>2
  <2>2. n + 1 \in Int /\ Len(todo) \in Int
    BY <1>2
  <2>3. /\ todo' \in Seq(Byte) /\ Len(todo') = (IF n + 1 <= Len(todo) THEN Len(todo) - (n + 1) + 1 ELSE 0)
        /\ \A k \in 1..(Len(todo) - (n + 1) + 1) : todo'[k] = todo[(n + 1) + k - 1]
    BY <1>1, <2>1, <2>2, SubSeqProperties
  <2>4. Len(todo) - (n + 1) + 1 = Len(todo) - n /\ Len(todo') = Len(todo) - n
    BY <1>2, <2>3
  <2>5. \A k \in 1..(Len(todo) - n) : (n + 1) + k - 1 = n + k
    BY <1>2
  <2> QED
    BY <2>3, <2>4, <2>5
<1>4. arrived' = arrived + n /\ s' = s
  <2>1. arrived' = Len(s) - Len(todo')
    BY <1>1 DEF arrived
  <2> HIDE DEF s
  <2>2. arrived' = arrived + n
    BY <1>2, <1>3, <2>1
  <2> QED
    BY <1>1, <2>2 DEF s
<1>5. ASSUME NEW k \in 1..Len(todo') PROVE todo'[k] = s[arrived' + k]
  <2>1. n + k \in 1..Len(todo) /\ k \in 1..(Len(todo) - n) /\ arrived + (n + k) = arrived' + k
    BY <1>2, <1>3, <1>4
  <2>2. todo[n + k] = s[arrived + (n + k)]
    BY <2>1, Zenon DEF Input
  <2> QED
    BY <1>3, <2>1, <2>2
<1>6. todo[n] = s[arrived + n]
  BY Zenon DEF Input
<1>7. Len(todo') <= Len(s)
  <2>1. Len(todo) <= Len(s)
    BY DEF Input
  <2> HIDE DEF s
  <2> QED
    BY <1>2, <1>3, <2>1
<1>8. StreamGiven' /\ Layout(messages, off)' /\ first' = first
  BY <1>1 DEF StreamGiven, first
<1> QED
  BY <1>1, <1>3, <1>4, <1>5, <1>6, <1>7, <1>8

\* The numbers of the first message.
LEMMA FirstPlace ==
  ASSUME StreamGiven, NEW off, Layout(messages, off), Input
  PROVE  /\ 1 \in 1..Len(messages) /\ Len(messages) \in Nat /\ off[1] = 0
         /\ messages[1].len \in Nat /\ messages[1].len > 0 /\ HeaderSize \in Nat \ {0}
         /\ off[2] = HeaderSize + messages[1].len /\ 2 \in 1..(Len(messages) + 1)
<1>0. Counts(off) /\ Places(off)
  BY Numbers
<1>1. 1 \in 1..Len(messages) /\ Len(messages) \in Nat /\ 1 + 1 = 2
  BY <1>0 DEF Counts
<1>2. /\ off[1] = 0 /\ off[2] = off[1] + (HeaderSize + messages[1].len) /\ messages[1].len \in Nat
      /\ HeaderSize \in Nat \ {0}
  BY <1>0, <1>1 DEF Places
<1>3. messages[1].len > 0
  BY DEF StreamGiven
<1>4. off[2] = HeaderSize + messages[1].len
  BY <1>2
<1>5. 2 \in 1..(Len(messages) + 1)
  BY <1>1
<1> QED
  BY <1>1, <1>2, <1>3, <1>4, <1>5

\* A byte behind the first message is one of a later message.
LEMMA BehindFirst ==
  ASSUME StreamGiven, NEW off, Layout(messages, off), Input, NEW n \in 1..Len(todo),
         arrived + n > off[2]
  PROVE  todo[n][1] > 1
<1>1. /\ 1 \in 1..Len(messages) /\ Len(messages) \in Nat /\ off[1] = 0
      /\ messages[1].len \in Nat /\ HeaderSize \in Nat \ {0} /\ off[2] = HeaderSize + messages[1].len
  BY FirstPlace
<1>2. /\ arrived \in Nat /\ Len(todo) \in Nat /\ arrived + Len(todo) = off[Len(messages) + 1]
      /\ off[Len(messages) + 1] = Len(StreamOf(messages))
  BY Numbers DEF Counts
<1>3. arrived + n \in 1..Len(StreamOf(messages))
  BY <1>2
<1>4. PICK j \in 1..Len(messages) : \E o \in 1..Size(messages, j) : arrived + n = off[j] + o
  BY <1>3, Zenon DEF Layout
<1>5. PICK o \in 1..Size(messages, j) : arrived + n = off[j] + o
  BY <1>4
<1>6. o \in 1..(HeaderSize + messages[j].len)
  BY DEF Size
<1>7. todo[n] = <<j, o>>
  <2>1. StreamOf(messages)[off[j] + o] = <<j, o>>
    BY <1>6, ByteAt
  <2>2. todo[n] = StreamOf(messages)[arrived + n]
    BY Zenon DEF Input
  <2> QED
    BY <1>5, <2>1, <2>2, Zenon
<1>8. ASSUME j = 1 PROVE FALSE
  <2> DEFINE z == HeaderSize + messages[1].len
  <2>1. o \in 1..z /\ arrived + n = off[1] + o /\ arrived + n > z
    BY <1>1, <1>5, <1>6, <1>8, Zenon
  <2>2. z \in Nat
    BY <1>1
  <2> HIDE DEF z
  <2>3. arrived + n = 0 + o
    BY <1>1, <2>1
  <2> QED
    BY <1>2, <2>1, <2>2, <2>3
<1>9. j > 1
  BY <1>1, <1>8
<1> QED
  BY <1>7, <1>9

\* The input when the first message has arrived as one packet.
LEMMA FirstArrived ==
  ASSUME StreamGiven, NEW off, Layout(messages, off), Input, arrived = 0, NEW n \in 1..Len(todo), Arrives(n),
         chunk = <<>>, chunk' = chunk
  PROVE  /\ n < off[2] => OpeningCut'
         /\ n = off[2] => Input' /\ arrived' = off[2] /\ taken' = off[2]
         /\ n > off[2] /\ side = "CLIENT" /\ ~target_version => early'
<1> DEFINE l == messages[1].len
<1>2. /\ messages' = messages /\ arrived' = arrived + n
      /\ todo[n] \in cuts' /\ todo[n] = StreamOf(messages)[arrived + n]
      /\ todo' \in Seq(Byte) /\ Len(todo') <= Len(StreamOf(messages))
      /\ \A k \in 1..Len(todo') : todo'[k] = StreamOf(messages)[arrived' + k]
  BY PacketBytes
<1>3. /\ 1 \in 1..Len(messages) /\ off[1] = 0 /\ l \in Nat /\ HeaderSize \in Nat \ {0} /\ off[2] = HeaderSize + l
  BY FirstPlace
<1>4. n \in Nat /\ n > 0
  BY LenProperties DEF Input
<1> HIDE DEF l
<1>5. arrived' = n /\ arrived + n = n /\ off[1] + n = n
  BY <1>2, <1>3, <1>4
<1>6. ASSUME ~(n > off[2]) PROVE todo[n] = <<1, n>>
  <2>1. n \in 1..(HeaderSize + l)
    BY <1>3, <1>4, <1>6
  <2>2. StreamOf(messages)[off[1] + n] = <<1, n>>
    BY <1>3, <2>1, ByteAt DEF l
  <2> QED
    BY <1>2, <1>5, <2>2
<1>7. ASSUME n < off[2] PROVE OpeningCut'
  <2>1. n \in 1..(HeaderSize + l - 1) /\ ~(n > off[2])
    BY <1>3, <1>4, <1>7
  <2>2. n \in 1..(HeaderSize + messages'[1].len - 1)
    BY <1>2, <2>1 DEF l
  <2>3. <<1, n>> \in cuts'
    BY <1>2, <1>6, <2>1
  <2> QED
    BY <2>2, <2>3 DEF OpeningCut
<1>8. ASSUME n = off[2] PROVE Input' /\ arrived' = off[2] /\ taken' = off[2]
  <2>1. Len(chunk') = 0 /\ \A k \in 1..Len(chunk') : FALSE
    OBVIOUS
  <2>2. taken' = n
    <3>1. taken' = arrived' - Len(chunk')
      BY DEF taken
    <3> QED
      BY <1>4, <1>5, <2>1, <3>1
  <2>3. Len(chunk') <= arrived' /\ chunk' \in Seq(Byte) /\ StreamOf(messages)[arrived'] \in cuts'
    BY <1>2, <1>4, <1>5, <2>1
  <2>4. \A k \in 1..Len(chunk') : chunk'[k] = StreamOf(messages)[taken' + k]
    BY <2>1, Zenon
  <2>5. Input'
    BY <1>2, <2>3, <2>4, Zenon DEF Input
  <2> QED
    BY <1>5, <1>8, <2>2, <2>5
<1>9. ASSUME n > off[2], side = "CLIENT", ~target_version PROVE early'
  <2>1. arrived + n > off[2]
    BY <1>5, <1>9
  <2>2. todo[n][1] > 1
    BY <2>1, BehindFirst
  <2> QED
    BY <1>9, <2>2 DEF Arrives
<1> QED
  BY <1>7, <1>8, <1>9

\* The version is known when all that has arrived is the first message.
LEMMA VersionStarts ==
  ASSUME StreamGiven, NEW off, Layout(messages, off), Input, StreamGiven', Layout(messages, off)',
         messages' = messages, Input', taken' = off[2], target_version', sftp_session',
         running' = "idle", chunk' = <<>>, msg' = Fresh, inspected' = <<>>
  PROVE  Follows(off)'
<1>3. Len(messages) \in Nat /\ HeaderSize \in Nat \ {0} /\ off[2] \in Nat /\ 2 \in 1..(Len(messages) + 1)
  <2>1. off[2] = HeaderSize + messages[1].len /\ messages[1].len \in Nat /\ HeaderSize \in Nat \ {0}
          /\ Len(messages) \in Nat /\ 2 \in 1..(Len(messages) + 1)
    BY FirstPlace
  <2>2. HeaderSize + messages[1].len \in Nat
    BY <2>1
  <2> QED
    BY <2>1, <2>2
<1>5. Len(inspected') = 0 /\ current' = 2
  BY DEF current, first
<1>6. Past'
  BY <1>5 DEF Past, PastOf
<1>7. msg' \in SftpMessage /\ msg'.state = "INIT" /\ msg'.header = <<>> /\ msg'.buffer = <<>> /\ msg'.received = 0
  BY DEF Fresh, SftpMessage, MessageTypes
<1>8. InHeader(off)'
  <2>1. Len(msg'.header) = 0 /\ Part(msg'.header, current', 0, 0)
    BY <1>7 DEF Part
  <2>2. taken' = off[current'] + 0 /\ 0 < HeaderSize
    BY <1>3, <1>5
  <2> QED
    BY <1>3, <1>5, <1>7, <2>1, <2>2 DEF InHeader
<1>9. After(off)'
  BY <1>6, <1>7, <1>8 DEF After
<1> QED
  BY <1>9 DEF Follows

\* The client's first packet.
LEMMA NewSessionKeeps ==
  ASSUME StreamGiven, NEW off, Layout(messages, off), Input, Before(off), NEW n \in 1..Len(todo), NewSession(n)
  PROVE  StreamGiven' /\ (OpeningCut' \/ early' \/ Follows(off)')
<1>1. ~sftp_session /\ Arrives(n) /\ UNCHANGED <<target_version, chunk, datalen>>
  BY DEF NewSession
<1>2. /\ ~target_version /\ side = "CLIENT" /\ arrived = 0 /\ running = "idle" /\ chunk = <<>> /\ msg = Fresh
      /\ inspected = <<>>
  BY <1>1 DEF Before, StreamGiven
<1>3. StreamGiven' /\ Layout(messages, off)' /\ messages' = messages
  BY <1>1, PacketBytes
<1>4. /\ n < off[2] => OpeningCut'
      /\ n = off[2] => Input' /\ arrived' = off[2] /\ taken' = off[2]
      /\ n > off[2] => early'
  BY <1>1, <1>2, FirstArrived
<1>5. n < off[2] \/ n = off[2] \/ n > off[2]
  <2>1. off[2] = HeaderSize + messages[1].len /\ messages[1].len \in Nat /\ HeaderSize \in Nat \ {0}
    BY FirstPlace
  <2> DEFINE l == messages[1].len
  <2>2. off[2] = HeaderSize + l /\ l \in Nat
    BY <2>1
  <2> HIDE DEF l
  <2> QED
    BY <2>1, <2>2
<1>6. CASE n = off[2]
  <2>1. ~(n < HeaderSize + 1)
    <3>1. off[2] = HeaderSize + messages[1].len /\ messages[1].len \in Nat /\ messages[1].len > 0
            /\ HeaderSize \in Nat \ {0}
      BY FirstPlace
    <3> DEFINE l == messages[1].len
    <3>2. n = HeaderSize + l /\ l \in Nat /\ l > 0
      BY <1>6, <3>1
    <3> HIDE DEF l
    <3> QED
      BY <3>1, <3>2
  <2>2. sftp_session' /\ running' = running
    BY <2>1 DEF NewSession
  <2>3. side' = side /\ msg' = msg /\ inspected' = inspected
    BY <1>1 DEF Arrives
  <2>4. Before(off)'
    BY <1>1, <1>2, <1>4, <1>6, <2>2, <2>3 DEF Before, Fresh
  <2> QED
    BY <1>3, <1>4, <1>6, <2>4 DEF Follows
<1> QED
  BY <1>3, <1>4, <1>5, <1>6

\* The packet that is taken for the VERSION message.
LEMMA FirstAnswerKeeps ==
  ASSUME StreamGiven, NEW off, Layout(messages, off), Input, Before(off), NEW n \in 1..Len(todo), FirstAnswer(n)
  PROVE  StreamGiven' /\ (OpeningCut' \/ early' \/ Follows(off)')
<1>1. /\ sftp_session /\ ~target_version /\ Arrives(n) /\ UNCHANGED <<sftp_session, chunk, datalen>>
      /\ running = "idle" /\ chunk = <<>> /\ msg = Fresh /\ inspected = <<>>
  BY DEF FirstAnswer, Before
<1>2. side' = side /\ msg' = msg /\ inspected' = inspected
  BY <1>1 DEF Arrives
<1>3. StreamGiven' /\ Layout(messages, off)' /\ messages' = messages
  BY <1>1, PacketBytes
<1>4. off[2] = HeaderSize + messages[1].len /\ messages[1].len \in Nat /\ messages[1].len > 0
        /\ HeaderSize \in Nat \ {0}
  BY FirstPlace
<1> DEFINE l == messages[1].len
<1>5. off[2] = HeaderSize + l /\ l \in Nat /\ l > 0 /\ HeaderSize \in Nat \ {0} /\ n \in Nat /\ n > 0
  BY <1>4, LenProperties DEF Input
<1> HIDE DEF l
<1>6. CASE side = "TARGET"
  <2>1. arrived = 0
    BY <1>6 DEF Before
  <2>2. /\ n < off[2] => OpeningCut'
        /\ n = off[2] => Input' /\ arrived' = off[2] /\ taken' = off[2]
    BY <1>1, <2>1, FirstArrived
  <2>3. n <= HeaderSize + l
    BY <1>1, <1>6 DEF Arrives, l
  <2>4. CASE n = off[2]
    <3>1. n >= HeaderSize + 1
      BY <1>5, <2>4
    <3>2. LooksLikeVersion(n)
      BY <1>6, <3>1 DEF LooksLikeVersion
    <3>3. target_version' /\ running' = running
      BY <1>6, <3>2 DEF FirstAnswer
    <3>4. sftp_session' /\ chunk' = <<>> /\ msg' = Fresh /\ inspected' = <<>> /\ running' = "idle"
      BY <1>1, <1>2, <3>3
    <3> QED
      BY <1>3, <2>2, <2>4, <3>3, <3>4, VersionStarts
  <2>5. n < off[2] \/ n = off[2]
    BY <1>5, <2>3
  <2> QED
    BY <1>3, <2>2, <2>4, <2>5
<1>7. CASE side = "CLIENT"
  <2>1. arrived = off[2]
    BY <1>1, <1>7 DEF Before
  <2>2. arrived + n > off[2]
    BY <1>5, <2>1
  <2>3. todo[n][1] > 1
    BY <2>2, BehindFirst
  <2>4. early'
    BY <1>1, <1>7, <2>3 DEF Arrives
  <2> QED
    BY <1>3, <2>4
<1> QED
  BY <1>6, <1>7 DEF StreamGiven

\* The VERSION, in the client's stream.
LEMMA VersionKnownKeeps ==
  ASSUME StreamGiven, NEW off, Layout(messages, off), Input, Before(off), VersionKnown
  PROVE  StreamGiven' /\ Follows(off)'
<1>1. /\ side' = side /\ messages' = messages /\ todo' = todo /\ cuts' = cuts /\ sftp_session' = sftp_session
      /\ running' = running /\ chunk' = chunk /\ msg' = msg /\ inspected' = inspected /\ target_version'
  BY DEF VersionKnown
<1>2. /\ side = "CLIENT" /\ sftp_session /\ running = "idle" /\ chunk = <<>> /\ msg = Fresh
      /\ inspected = <<>> /\ arrived = off[2]
  BY DEF VersionKnown, Before
<1>3. StreamGiven' /\ Layout(messages, off)' /\ arrived' = arrived /\ taken' = taken
  BY <1>1 DEF StreamGiven, arrived, taken
<1>4. Input'
  BY <1>1, <1>3, Zenon DEF Input
<1>5. taken = off[2]
  <2>1. taken = arrived - 0 /\ arrived \in Nat
    BY <1>2, Numbers DEF taken, Counts
  <2> QED
    BY <1>2, <2>1
<1>6. /\ sftp_session' /\ running' = "idle" /\ chunk' = <<>> /\ msg' = Fresh /\ inspected' = <<>>
      /\ taken' = off[2]
  BY <1>1, <1>2, <1>3, <1>5
<1> QED
  BY <1>1, <1>3, <1>4, <1>6, VersionStarts

\* A packet that is given to the handler.
LEMMA PacketKeeps ==
  ASSUME StreamGiven, NEW off, Layout(messages, off), Input, After(off), NEW n \in 1..Len(todo), Packet(n)
  PROVE  StreamGiven' /\ Follows(off)'
<1> DEFINE s == StreamOf(messages)
<1>0. Counts(off)
  BY Numbers
<1>0a. Arrives(n)
  BY DEF Packet
<1>1. running = "idle" /\ target_version /\ sftp_session /\ chunk = <<>> /\ msg \in SftpMessage
  BY DEF Packet, Arrives, After
<1>2. /\ running' = "busy" /\ chunk' = SubSeq(todo, 1, n) /\ datalen' = n /\ target_version' = target_version
      /\ sftp_session' = sftp_session /\ msg' = msg /\ inspected' = inspected
  BY <1>1 DEF Packet, Arrives
<1>3. /\ StreamGiven' /\ Layout(messages, off)' /\ messages' = messages /\ cuts \subseteq cuts' /\ first' = first
      /\ arrived' = arrived + n /\ todo[n] \in cuts' /\ todo[n] = s[arrived + n]
      /\ todo' \in Seq(Byte) /\ Len(todo') <= Len(s) /\ \A k \in 1..Len(todo') : todo'[k] = s[arrived' + k]
  BY <1>0a, PacketBytes
<1>4. Len(todo) \in Nat /\ arrived \in Nat /\ n \in Nat /\ n > 0 /\ n <= Len(todo) /\ todo \in Seq(Byte)
        /\ taken = arrived
  <2>1. Len(chunk) = 0
    BY <1>1
  <2> QED
    BY <1>0, <2>1 DEF Counts, Input
<1>5. chunk' \in Seq(Byte) /\ Len(chunk') = n /\ \A k \in 1..n : chunk'[k] = todo[k]
  <2>1. \A k \in 1..n : todo[k] \in Byte
    BY <1>4
  <2>2. 1 \in Int /\ n \in Int /\ n - 1 + 1 = n /\ 1 <= n
    BY <1>4
  <2>3. /\ chunk' \in Seq(Byte) /\ Len(chunk') = (IF 1 <= n THEN n - 1 + 1 ELSE 0)
        /\ \A k \in 1..(n - 1 + 1) : chunk'[k] = todo[1 + k - 1]
    BY <1>2, <2>1, <2>2, SubSeqProperties
  <2>4. \A k \in 1..n : 1 + k - 1 = k
    BY <1>4
  <2> QED
    BY <2>2, <2>3, <2>4
<1>6. taken' = taken
  <2>1. taken' = arrived' - Len(chunk')
    BY DEF taken
  <2> QED
    BY <1>3, <1>4, <1>5, <2>1
<1>7. Input'
  <2>1. ASSUME NEW k \in 1..Len(chunk') PROVE chunk'[k] = s[taken' + k]
    <3>1. k \in 1..n /\ k \in 1..Len(todo)
      BY <1>4, <1>5
    <3>2. todo[k] = s[arrived + k]
      BY <3>1, Zenon DEF Input
    <3> QED
      BY <1>4, <1>5, <1>6, <3>1, <3>2
  <2>2. Len(chunk') <= arrived' /\ s[arrived'] \in cuts' /\ s' = s
    BY <1>3, <1>4, <1>5
  <2> QED
    BY <1>3, <1>5, <2>1, <2>2, Zenon DEF Input
<1>8. current' = current
  BY <1>2, <1>3 DEF current
<1>9. Past'
  <2>1. PastOf(messages, cuts, first, inspected)
    BY DEF After, Past
  <2>2. PastOf(messages, cuts', first, inspected)
    BY <1>3, <2>1, PastOn
  <2> QED
    BY <1>2, <1>3, <2>2 DEF Past
<1>10. (InHeader(off) \/ InBody(off)) /\ ~BehindHeader(off)
  BY <1>1 DEF After, BehindHeader
<1>11. CASE InHeader(off)
  <2>1. InHeader(off)'
    BY <1>2, <1>3, <1>6, <1>8, <1>11 DEF InHeader
  <2>2. After(off)'
    BY <1>1, <1>2, <1>9, <2>1 DEF After
  <2> QED
    BY <1>3, <1>7, <2>2 DEF Follows
<1>12. CASE InBody(off)
  <2>1. KeptOf(messages, cuts', current, msg.buffer, msg.received)
    <3>1. KeptOf(messages, cuts, current, msg.buffer, msg.received)
      BY <1>12 DEF InBody
    <3> QED
      BY <1>3, <3>1, KeptOn
  <2>2. datalen' = Len(chunk') /\ Len(chunk') > 0
    BY <1>2, <1>4, <1>5
  <2>3. InBody(off)'
    BY <1>1, <1>2, <1>3, <1>6, <1>8, <1>12, <2>1, <2>2 DEF InBody
  <2>4. After(off)'
    BY <1>1, <1>2, <1>9, <2>3 DEF After
  <2> QED
    BY <1>3, <1>7, <2>4 DEF Follows
<1> QED
  BY <1>10, <1>11, <1>12

\* A cut stays where it is, and what was too early was.
LEMMA CutsStay ==
  ASSUME StreamGiven, [StreamNext]_streamVars
  PROVE  StreamGiven' /\ (OpeningCut => OpeningCut') /\ (early => early')
<1>1. side' = side /\ messages' = messages /\ cuts \subseteq cuts' /\ (early => early')
  <2>1. CASE Handler
    <3>1. UNCHANGED input
      BY <2>1, Zenon DEF Handler, TakeHeader, ReadHeader, TakeMore, Deliver
    <3>2. side' = side /\ messages' = messages /\ cuts' = cuts /\ early' = early
      BY <3>1 DEF input
    <3> QED
      BY <3>2
  <2>2. ASSUME NEW n \in 1..Len(todo), Arrives(n)
        PROVE  side' = side /\ messages' = messages /\ cuts \subseteq cuts' /\ (early => early')
    BY <2>2 DEF Arrives
  <2>3. CASE VersionKnown
    BY <2>3 DEF VersionKnown
  <2>4. CASE UNCHANGED streamVars
    BY <2>4 DEF streamVars, input
  <2> QED
    BY <2>1, <2>2, <2>3, <2>4, Zenon DEF StreamNext, NewSession, FirstAnswer, Packet
<1> QED
  BY <1>1 DEF StreamGiven, OpeningCut

\* Every step keeps the invariant.
LEMMA StreamGoesOn ==
  ASSUME StreamInv, [StreamNext]_streamVars
  PROVE  StreamInv'
<1>0. StreamGiven
  BY DEF StreamInv
<1>1. CASE OpeningCut \/ early
  BY <1>0, <1>1, CutsStay DEF StreamInv
<1>2. ASSUME NEW off, Follows(off) PROVE StreamInv'
  <2>0. Layout(messages, off) /\ Input
    BY <1>2 DEF Follows
  <2>1. CASE UNCHANGED streamVars
    <3>1. /\ side' = side /\ messages' = messages /\ todo' = todo /\ cuts' = cuts /\ running' = running
          /\ target_version' = target_version /\ chunk' = chunk /\ datalen' = datalen /\ msg' = msg
          /\ inspected' = inspected /\ sftp_session' = sftp_session
      BY <2>1 DEF streamVars, input
    <3>2. StreamGiven' /\ arrived' = arrived /\ taken' = taken /\ first' = first /\ current' = current
      BY <1>0, <3>1 DEF StreamGiven, arrived, taken, first, current
    <3>3. Input'
      BY <2>0, <3>1, <3>2, Zenon DEF Input
    <3>4. Before(off) => Before(off)'
      BY <3>1, <3>2 DEF Before, Fresh
    <3>5. After(off) => After(off)'
      <4>1. Past => Past'
        BY <3>1, <3>2 DEF Past
      <4>2. InHeader(off) => InHeader(off)'
        BY <3>1, <3>2 DEF InHeader
      <4>3. BehindHeader(off) => BehindHeader(off)'
        BY <3>1, <3>2 DEF BehindHeader
      <4>4. InBody(off) => InBody(off)'
        BY <3>1, <3>2 DEF InBody
      <4> QED
        BY <3>1, <4>1, <4>2, <4>3, <4>4 DEF After
    <3>6. Layout(messages, off)'
      BY <2>0, <3>1
    <3> QED
      BY <1>2, <3>2, <3>3, <3>4, <3>5, <3>6 DEF StreamInv, Follows
  <2>2. CASE Before(off)
    <3>1. ~Handler /\ \A n \in 1..Len(todo) : ~Packet(n)
      BY <2>2 DEF Before, Handler, TakeHeader, ReadHeader, TakeMore, Deliver, In, Packet
    <3>2. ASSUME NEW n \in 1..Len(todo), NewSession(n) PROVE StreamInv'
      BY <1>0, <2>0, <2>2, <3>2, NewSessionKeeps DEF StreamInv
    <3>3. ASSUME NEW n \in 1..Len(todo), FirstAnswer(n) PROVE StreamInv'
      BY <1>0, <2>0, <2>2, <3>3, FirstAnswerKeeps DEF StreamInv
    <3>4. CASE VersionKnown
      BY <1>0, <2>0, <2>2, <3>4, VersionKnownKeeps DEF StreamInv
    <3> QED
      BY <2>1, <3>1, <3>2, <3>3, <3>4 DEF StreamNext
  <2>3. CASE After(off)
    <3>0. ~VersionKnown /\ \A n \in 1..Len(todo) : ~NewSession(n) /\ ~FirstAnswer(n)
      BY <2>3 DEF After, VersionKnown, NewSession, FirstAnswer
    <3>1. CASE TakeHeader
      BY <1>0, <2>0, <2>3, <3>1, TakeHeaderKeeps DEF StreamInv
    <3>2. CASE ReadHeader
      BY <1>0, <2>0, <2>3, <3>2, ReadHeaderKeeps DEF StreamInv
    <3>3. CASE TakeMore
      BY <1>0, <2>0, <2>3, <3>3, TakeMoreKeeps DEF StreamInv
    <3>4. CASE Deliver
      BY <1>0, <2>0, <2>3, <3>4, DeliverKeeps DEF StreamInv
    <3>5. ASSUME NEW n \in 1..Len(todo), Packet(n) PROVE StreamInv'
      BY <1>0, <2>0, <2>3, <3>5, PacketKeeps DEF StreamInv
    <3> QED
      BY <2>1, <3>0, <3>1, <3>2, <3>3, <3>4, <3>5 DEF StreamNext, Handler
  <2> QED
    BY <1>2, <2>2, <2>3 DEF Follows
<1> QED
  BY <1>1, <1>2 DEF StreamInv

\* However the stream is cut into packets, susshi_inspect_sftp_packet() knows
\* at which byte of which message it is, unless INIT or VERSION was cut or the
\* client sent more before the VERSION.
THEOREM StreamFollowed == StreamSpec => []StreamInv
<1>1. StreamInit => StreamInv
  BY StreamStarts
<1>2. StreamInv /\ [StreamNext]_streamVars => StreamInv'
  BY StreamGoesOn
<1> QED
  BY <1>1, <1>2, PTL DEF StreamSpec

\* For streams of any length, every message that arrived is inspected once, in
\* order, under its own header and, unless it is a WRITE or DATA, as it was
\* sent, and the process does not end, unless INIT or VERSION was cut or the
\* client sent more before the VERSION.
THEOREM StreamIntact == StreamSpec => []MessagesIntact
<1>1. StreamInv => MessagesIntact
  BY IntactFromInv
<1> QED
  BY <1>1, StreamFollowed, PTL

\* What is kept of a WRITE or DATA message is what was sent, unless packets
\* ended at two places in it.
THEOREM KeptIntact == StreamSpec => []PrefixIntact
<1>1. StreamInv => PrefixIntact
  BY PrefixFromInv
<1> QED
  BY <1>1, StreamFollowed, PTL

=============================================================================
