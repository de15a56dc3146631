------------------------------ MODULE Provision ------------------------------
(***************************************************************************)
(* AddUser and AllocIp of db.c over the driver layer of mongo_sql.c: worker *)
(* threads that serve requests on the sockets of SocketPool, against a     *)
(* database whose calls may fail, in a server that may end at any step and *)
(* be started again.                                                       *)
(*                                                                         *)
(* What threads may have in common is written and read in steps of its own: *)
(* the table and the row of a socket, for AddUser releases its socket      *)
(* twice, and the static buffer of AllocIp, which is copied to and read    *)
(* byte by byte.  Addresses and group ids are sequences, whose members     *)
(* stand for bytes.  Calls of two threads to libmongoc on one socket take  *)
(* effect one after the other, or end the server.                          *)
(***************************************************************************)
EXTENDS Integers, Sequences, FiniteSets, Functions

CONSTANTS Threads, N, Up,  \* as in SocketPool
          Requests,        \* what clients may ask: records of a name and an id
          Group,           \* group_id of the configured group; <<>> if it has none
          Addresses,       \* the addresses of group_ip in the order a query finds them
          Faults,          \* how database calls may fail: some of the set below
          Width,           \* the size of the buffers for texts
          NoRow            \* a NULL nosql_row

Nul == "nul"
Junk == <<"junk">>  \* what is read from a row that another thread has freed

\* What the database and the requests have, and the texts made of it.
Parts == Range(Group) \cup (UNION {Range(a) : a \in Range(Addresses)})
                      \cup {q.id : q \in Requests} \cup {q.name : q \in Requests} \cup Range(Junk)
Texts == {x \in Seq(Parts) : Len(x) < Width}

ASSUME ProvisionAssumption ==
  /\ Faults \subseteq {"select_error",  \* nosql_select_query returns -1
                       "select_down",   \* it finds no database server: returns -2
                       "exec_error",    \* nosql_exec_direct returns -1 and writes nothing
                       "exec_applied",  \* it returns -1, its write was done all the same
                       "exec_down"}     \* it finds no database server: returns -2
  /\ \A q \in Requests : DOMAIN q = {"name", "id"}
  /\ IsFiniteSet(Threads) /\ N \in Nat /\ Up \subseteq 1..N
  /\ Group \in Seq(Range(Group))
  /\ Addresses \in Seq(Range(Addresses))
  /\ \A a \in Range(Addresses) : a \in Seq(Range(a))
  /\ NoRow \notin Texts /\ Nul \notin Parts
  /\ Width \in Nat \ {0, 1} /\ \A x \in Range(Addresses) \cup {Group} : Len(x) < Width

\* No two documents of group_ip have the same address.
ASSUME AddressesAssumption ==
  \A i, k \in DOMAIN Addresses : Addresses[i] = Addresses[k] => i = k

VARIABLES locked, connected, call, pc, cur, crashed,  \* as in SocketPool
          step,     \* thread -> what it does next of AddUser, AllocIp or deal_msg
          request,  \* thread -> the request it serves, or NoRequest
          text,     \* thread -> group_id in AddUser; in AllocIp what strcpy copies to
                    \* ipaddr, then what has been read from there
          done,     \* thread -> how many bytes strcpy has copied
          table,    \* socket -> table_name
          numfields,  \* socket -> for how many fields nosql_row has room, 0 or 1
          row,      \* socket -> nosql_row: NoRow, or the text of row[0], <<>> if NULL
          ipaddr,   \* the static buffer of AllocIp, byte by byte
          users,    \* table -> the users stored there: a function from names to
                    \* ids and groups
          marks,    \* the addresses that group_ip has with type 2
          answers,  \* history: which id was answered which address
          shared    \* history: whether two threads have been on one socket

Pool == INSTANCE SocketPool

poolVars == <<locked, connected, call, pc, cur, crashed>>
sockVars == <<table, numfields, row>>
locals == <<request, text, done>>
dbVars == <<users, marks, answers>>
vars == <<poolVars, step, locals, sockVars, ipaddr, dbVars, shared>>

NoRequest == [name |-> "none", id |-> "none"]

Tables == {"none", "groups", "users", "group_ip"}

\* The steps of AddUser up to "freed", of AllocIp up to "unmarked", the answer of
\* deal_msg, and an error path on its way to nosql_free_result and the release.
Steps == {"none", "groups", "group", "take", "users", "user", "check", "store", "stored",
          "free", "freed", "group_ip", "ip", "get", "copy", "read", "mark", "marked",
          "done", "answer", "drop", "fail"}

Init == /\ Pool!Init
        /\ step = [t \in Threads |-> "none"]
        /\ request = [t \in Threads |-> NoRequest]
        /\ text = [t \in Threads |-> <<>>]
        /\ done = [t \in Threads |-> 0]
        /\ table = [s \in 1..N |-> "none"]
        /\ numfields = [s \in 1..N |-> 0]
        /\ row = [s \in 1..N |-> NoRow]
        /\ ipaddr = [k \in 1..Width |-> Nul]
        /\ users = [b \in Tables |-> <<>>]
        /\ marks = {}
        /\ answers = {}
        /\ shared = FALSE

At(t, s) == step[t] = s /\ pc[t] = "use"
GoTo(t, s) == step' = [step EXCEPT ![t] = s]
SetRow(t, r) == row' = [row EXCEPT ![cur[t]] = r]
SetText(t, x) == text' = [text EXCEPT ![t] = x]

\* Whether t reads or writes the data of its socket, and whether others do so.
Touches(t) == pc[t] = "use" \/ step[t] = "free"
Company(t) == {o \in Threads \ {t} : Touches(o) /\ cur[o] = cur[t]}
Alone == \A t \in Threads : Touches(t) => Company(t) = {}
-----------------------------------------------------------------------------
(* mongo_sql.c *)

\* fetch_data writes a document's value over the one before with strncpy, and
\* no terminator: character k of the row is that of the last value with so many.
LastToReach(values, k) ==
  CHOOSE i \in DOMAIN values :
    /\ Len(values[i]) >= k
    /\ \A j \in DOMAIN values : Len(values[j]) >= k => j <= i

\* The loop of nosql_select_query: every document found goes to the same row.
Fetch(values) == [k \in UNION {DOMAIN values[i] : i \in DOMAIN values} |->
                    values[LastToReach(values, k)][k]]

\* How nosql_select_query may return on t's socket when the query finds values.
\* If numfields is 0 nothing is fetched, and what row[0] is nobody knows.
Select(t, values) ==
  {[ret |-> 0, row |-> x] : x \in IF numfields[cur[t]] = 1 THEN {Fetch(values)} ELSE {<<>>, Junk}}
    \cup {[ret |-> -1, row |-> row[cur[t]]] : f \in Faults \cap {"select_error"}}
    \cup {[ret |-> -2, row |-> row[cur[t]]] : f \in Faults \cap {"select_down"}}

\* How nosql_exec_direct may return, and whether it did its write.
Exec == {[ret |-> 0, done |-> TRUE]}
          \cup {[ret |-> -1, done |-> FALSE] : f \in Faults \cap {"exec_error"}}
          \cup {[ret |-> -1, done |-> TRUE] : f \in Faults \cap {"exec_applied"}}
          \cup {[ret |-> -2, done |-> FALSE] : f \in Faults \cap {"exec_down"}}
-----------------------------------------------------------------------------
(* AddUser and AllocIp *)

\* strncpy to table_name, and numfields, before each query.
WriteTable(t) ==
  /\ \E b \in {"groups", "users", "group_ip"} :
       /\ At(t, b)
       /\ table' = [table EXCEPT ![cur[t]] = b]
       /\ numfields' = [numfields EXCEPT ![cur[t]] = 1]
       /\ GoTo(t, [groups |-> "group", users |-> "user", group_ip |-> "ip"][b])
  /\ UNCHANGED <<poolVars, locals, row, ipaddr, dbVars>>

\* The callers take every return of a query but -1 for a success, and go on to s.
Query(t, values, s) ==
  /\ \E r \in Select(t, values) : /\ SetRow(t, r.row)
                                  /\ GoTo(t, IF r.ret = -1 THEN "drop" ELSE s)
  /\ UNCHANGED <<poolVars, locals, table, numfields, ipaddr, dbVars>>

\* They look at whether the row has a text, and then copy it; of a row that
\* another thread has freed they may get anything.
Found(t) == row[cur[t]] \notin {NoRow, <<>>}
RowText(t) == {row[cur[t]]} \cup {Junk : o \in Company(t)}

\* nosql_free_result, before the release of an error path, or after a success.
FreeResult(t) ==
  /\ SetRow(t, NoRow)
  /\ numfields' = [numfields EXCEPT ![cur[t]] = IF row[cur[t]] = NoRow THEN @ ELSE 0]

\* Mutant of FreeRow: the row outlives an AllocIp that succeeds.
FreeRowForgets(t) ==
  /\ \/ At(t, "drop") /\ GoTo(t, "fail") /\ FreeResult(t)
     \/ At(t, "marked") /\ GoTo(t, "done") /\ UNCHANGED <<row, numfields>>
     \/ step[t] = "free" /\ GoTo(t, "freed") /\ FreeResult(t)
  /\ UNCHANGED <<poolVars, locals, table, ipaddr, dbVars>>

FreeRow(t) ==
  /\ \/ At(t, "drop") /\ GoTo(t, "fail")
     \/ At(t, "marked") /\ GoTo(t, "done")
     \/ step[t] = "free" /\ GoTo(t, "freed")
  /\ FreeResult(t)
  /\ UNCHANGED <<poolVars, locals, table, ipaddr, dbVars>>

\* Step 1 of AddUser: the group_id of the configured group.
QueryGroup(t) ==
  /\ At(t, "group")
  /\ Query(t, IF table[cur[t]] = "groups" /\ Group # <<>> THEN <<Group>> ELSE <<>>, "take")

TakeGroup(t) ==
  /\ At(t, "take")
  /\ \/ Found(t) /\ GoTo(t, "users") /\ \E x \in RowText(t) : SetText(t, x)
     \/ ~Found(t) /\ GoTo(t, "drop") /\ UNCHANGED text
  /\ UNCHANGED <<poolVars, request, done, sockVars, ipaddr, dbVars>>

\* The users in a socket's table that have the mdn or calling_id of a request.
UsersWith(b, id) == {n \in DOMAIN users[b] : users[b][n].id = id}

\* Mutant of QueryUser: it asks for the name instead of the id.
QueryUserByName(t) ==
  /\ At(t, "user")
  /\ Query(t, IF request[t].name \in DOMAIN users[table[cur[t]]] THEN <<<<request[t].name>>>> ELSE <<>>,
           "check")

\* Step 2: the name of a user that has the id already, of several the one read last.
QueryUser(t) ==
  /\ At(t, "user")
  /\ LET found == UsersWith(table[cur[t]], request[t].id) IN
       \/ found = {} /\ Query(t, <<>>, "check")
       \/ \E n \in found : Query(t, <<<<n>>>>, "check")

CheckUser(t) ==
  /\ At(t, "check")
  /\ GoTo(t, IF Found(t) THEN "drop" ELSE "store")
  /\ UNCHANGED <<poolVars, locals, sockVars, ipaddr, dbVars>>

\* The user record that AddUser writes over the one with the same user_name, in
\* the table that the socket has by now.
Upsert(t) ==
  [users EXCEPT ![table[cur[t]]] =
     [n \in DOMAIN @ \cup {request[t].name} |->
        IF n = request[t].name THEN [id |-> request[t].id, group |-> text[t]] ELSE @[n]]]

\* Mutant of StoreUser: a failure goes unnoticed.
StoreUserUnchecked(t) ==
  /\ At(t, "store")
  /\ \E r \in Exec : users' = IF r.done THEN Upsert(t) ELSE users
  /\ GoTo(t, "stored")
  /\ SetText(t, <<>>)
  /\ UNCHANGED <<poolVars, request, done, sockVars, ipaddr, marks, answers>>

StoreUser(t) ==
  /\ At(t, "store")
  /\ \E r \in Exec : /\ users' = IF r.done THEN Upsert(t) ELSE users
                     /\ GoTo(t, IF r.ret = -1 THEN "fail" ELSE "stored")
  /\ SetText(t, <<>>)
  /\ UNCHANGED <<poolVars, request, done, sockVars, ipaddr, marks, answers>>

\* Released, its row freed, released again; deal_msg goes on with AllocIp.
LeaveAddUser(t) ==
  /\ \/ At(t, "stored") /\ Pool!AddUserRelease(t) /\ GoTo(t, "free")
     \/ step[t] = "freed" /\ Pool!AddUserReleaseAgain(t) /\ GoTo(t, "group_ip")
  /\ UNCHANGED <<locals, sockVars, ipaddr, dbVars>>

\* The documents of group_ip with type 1, in their order there.
FreeAddresses == Restrict(Addresses, {i \in DOMAIN Addresses : Addresses[i] \notin marks})

\* The free addresses are all read, each over the one before.
QueryIp(t) ==
  /\ At(t, "ip")
  /\ Query(t, IF table[cur[t]] = "group_ip" THEN FreeAddresses ELSE <<>>, "get")

\* Mutant of GetIp: a row is taken for a text.
GetIpUnchecked(t) ==
  /\ At(t, "get")
  /\ \/ row[cur[t]] # NoRow /\ GoTo(t, "copy") /\ \E x \in RowText(t) : SetText(t, x)
     \/ row[cur[t]] = NoRow /\ GoTo(t, "drop") /\ UNCHANGED text
  /\ UNCHANGED <<poolVars, request, done, sockVars, ipaddr, dbVars>>

GetIp(t) ==
  /\ At(t, "get")
  /\ \/ Found(t) /\ GoTo(t, "copy") /\ \E x \in RowText(t) : SetText(t, x)
     \/ ~Found(t) /\ GoTo(t, "drop") /\ UNCHANGED text
  /\ UNCHANGED <<poolVars, request, done, sockVars, ipaddr, dbVars>>

\* strcpy writes one byte more of the address into the buffer that all threads
\* share, or the end.
CopyIp(t) ==
  /\ At(t, "copy")
  /\ \/ /\ done[t] < Len(text[t])
        /\ ipaddr' = [ipaddr EXCEPT ![done[t] + 1] = text[t][done[t] + 1]]
        /\ done' = [done EXCEPT ![t] = @ + 1]
        /\ UNCHANGED <<step, text>>
     \/ /\ done[t] = Len(text[t])
        /\ ipaddr' = [ipaddr EXCEPT ![done[t] + 1] = Nul]
        /\ done' = [done EXCEPT ![t] = 0]
        /\ SetText(t, <<>>)
        /\ GoTo(t, "read")
  /\ UNCHANGED <<poolVars, request, sockVars, dbVars>>

\* The byte of the buffer that snprintf or sprintf reads next.
Byte(t) == ipaddr[Len(text[t]) + 1]

\* Mutant of ReadByte: the end is read as a byte of the text.
ReadByteAndEnd(t) == SetText(t, Append(text[t], Byte(t))) /\ UNCHANGED step

ReadByte(t) == Byte(t) # Nul /\ SetText(t, Append(text[t], Byte(t))) /\ UNCHANGED step

\* The query for the update is made of what the buffer has by now.
ReadIp(t) ==
  /\ At(t, "read")
  /\ ReadByte(t) \/ (Byte(t) = Nul /\ GoTo(t, "mark") /\ UNCHANGED text)
  /\ UNCHANGED <<poolVars, request, done, sockVars, ipaddr, dbVars>>

\* Mutant of MarkIp: a failure goes unnoticed.
MarkIpUnchecked(t) ==
  /\ At(t, "mark")
  /\ \E r \in Exec :
       marks' = IF r.done /\ table[cur[t]] = "group_ip" THEN marks \cup {text[t]} ELSE marks
  /\ GoTo(t, "marked")
  /\ UNCHANGED <<poolVars, locals, sockVars, ipaddr, users, answers>>

\* A document of group_ip that has the address gets type 2, or a new one with it.
\* (In another table the new one is none that a query finds.)
MarkIp(t) ==
  /\ At(t, "mark")
  /\ \E r \in Exec :
       /\ marks' = IF r.done /\ table[cur[t]] = "group_ip" THEN marks \cup {text[t]} ELSE marks
       /\ GoTo(t, IF r.ret = -1 THEN "fail" ELSE "marked")
  /\ UNCHANGED <<poolVars, locals, sockVars, ipaddr, users, answers>>
-----------------------------------------------------------------------------
(* deal_msg and main *)

\* A datagram with three fields comes to a worker.
Deal(t) == /\ step[t] = "none"
           /\ Pool!DealMsg(t)
           /\ \E q \in Requests : request' = [request EXCEPT ![t] = q]
           /\ GoTo(t, "groups")
           /\ UNCHANGED <<text, done, sockVars, ipaddr, dbVars>>

\* nosql_get_socket
GetSocket(t) == /\ \/ Pool!Busy(t) \/ Pool!Grab(t) \/ Pool!ConnectOk(t)
                   \/ Pool!ConnectFails(t) \/ Pool!NoHandle(t)
                /\ UNCHANGED <<step, locals, sockVars, ipaddr, dbVars>>

\* Mutant of LastRelease: the answer of a failed AllocIp is the old address.
LastReleaseAnswers(t) == /\ At(t, "fail") \/ At(t, "done")
                         /\ Pool!Release(t)
                         /\ GoTo(t, IF call[t] = "AllocIp" THEN "answer" ELSE "none")
                         /\ SetText(t, <<>>)
                         /\ UNCHANGED <<request, done, sockVars, ipaddr, dbVars>>

\* Mutant of LastRelease: the error paths forget the release.
LastReleaseForgets(t) == /\ At(t, "fail") \/ At(t, "done")
                         /\ IF step[t] = "fail"
                              THEN Pool!Leave(t) /\ UNCHANGED <<locked, connected, crashed>>
                              ELSE Pool!Release(t)
                         /\ GoTo(t, IF step[t] = "done" THEN "answer" ELSE "none")
                         /\ SetText(t, <<>>)
                         /\ UNCHANGED <<request, done, sockVars, ipaddr, dbVars>>

\* After a failure the answer is "-1", of which nothing is recorded.
LastRelease(t) == /\ At(t, "fail") \/ At(t, "done")
                  /\ Pool!Release(t)
                  /\ GoTo(t, IF step[t] = "done" THEN "answer" ELSE "none")
                  /\ SetText(t, <<>>)
                  /\ UNCHANGED <<request, done, sockVars, ipaddr, dbVars>>

\* deal_msg answers what the buffer has by now.
Answer(t) ==
  /\ step[t] = "answer"
  /\ \/ ReadByte(t) /\ UNCHANGED answers
     \/ /\ Byte(t) = Nul
        /\ answers' = answers \cup {[id |-> request[t].id, ip |-> text[t]]}
        /\ SetText(t, <<>>)
        /\ GoTo(t, "none")
  /\ UNCHANGED <<poolVars, request, done, sockVars, ipaddr, users, marks>>

\* The server ends, be it by a signal, by the exit(0) of deal_msg for a datagram
\* without three fields or by what two threads do to one socket, and is started
\* again.
Restart == /\ locked' = [s \in 1..N |-> FALSE]
           /\ connected' = [s \in 1..N |-> s \in Up]
           /\ call' = [t \in Threads |-> "none"]
           /\ pc' = [t \in Threads |-> "idle"]
           /\ cur' = [t \in Threads |-> 0]
           /\ crashed' = FALSE
           /\ step' = [t \in Threads |-> "none"]
           /\ request' = [t \in Threads |-> NoRequest]
           /\ text' = [t \in Threads |-> <<>>]
           /\ done' = [t \in Threads |-> 0]
           /\ table' = [s \in 1..N |-> "none"]
           /\ numfields' = [s \in 1..N |-> 0]
           /\ row' = [s \in 1..N |-> NoRow]
           /\ ipaddr' = [k \in 1..Width |-> Nul]
           /\ UNCHANGED dbVars

Worker(t) == \/ Deal(t) \/ GetSocket(t) \/ WriteTable(t) \/ FreeRow(t)
             \/ QueryGroup(t) \/ TakeGroup(t) \/ QueryUser(t) \/ CheckUser(t)
             \/ StoreUser(t) \/ LeaveAddUser(t)
             \/ QueryIp(t) \/ GetIp(t) \/ CopyIp(t) \/ ReadIp(t) \/ MarkIp(t)
             \/ LastRelease(t) \/ Answer(t)

Next == /\ Restart \/ (~crashed /\ \E t \in Threads : Worker(t))
        /\ shared' = (shared \/ ~Alone')

Spec == Init /\ [][Next]_vars
-----------------------------------------------------------------------------
(* Properties *)

Ids == {q.id : q \in Requests}
Names == {q.name : q \in Requests}

\* The users that count: AddUser's table.
Users == users["users"]

\* The buffer has the text x, and its end.
Holds(x) == (\A k \in 1..Len(x) : ipaddr[k] = x[k]) /\ ipaddr[Len(x) + 1] = Nul

ProvTypeOK == /\ Pool!TypeOK
              /\ step \in [Threads -> Steps]
              /\ request \in [Threads -> Requests \cup {NoRequest}]
              /\ text \in [Threads -> Texts]
              /\ done \in [Threads -> 0..Width]
              /\ table \in [1..N -> Tables]
              /\ numfields \in [1..N -> {0, 1}]
              /\ row \in [1..N -> Texts \cup {NoRow}]
              /\ ipaddr \in [1..Width -> Parts \cup {Nul}]
              /\ DOMAIN users = Tables
              /\ \A b \in Tables : /\ DOMAIN users[b] \subseteq Names
                                   /\ \A n \in DOMAIN users[b] :
                                        users[b][n] \in [id : Ids, group : Texts]
              /\ marks \subseteq Texts
              /\ answers \subseteq [id : Ids, ip : Texts]
              /\ shared \in BOOLEAN

\* With one worker thread no mdn or calling_id has two users, whatever fails or
\* ends the server between the query for the id and the update that creates the
\* user, which goes by the user_name.
OneUserPerId ==
  Cardinality(Threads) = 1 =>
    \A m, n \in DOMAIN Users : Users[m].id = Users[n].id => m = n

\* With one worker thread, and addresses of equal length, the address that is
\* about to be answered was never answered before, by this run of the server or
\* by one that was killed anywhere in AllocIp.
AddressOnce ==
  Cardinality(Threads) = 1 =>
    \A t \in Threads : step[t] = "answer" => \A a \in answers : ~Holds(a.ip)

\* With one worker thread, and clients that each use user_names of their own, a
\* client that repeats its request, under whichever of them, gets no second
\* address.
OneAddressPerId ==
  Cardinality(Threads) = 1 => \A a, b \in answers : a.id = b.id => a = b

\* With one worker thread, and clients that each use user_names of their own,
\* every answered address is marked as taken in group_ip and its client has a
\* user, whichever call fails with -1 and wherever the server ends.
AnswerHolds ==
  Cardinality(Threads) = 1 =>
    \A a \in answers : a.ip \in marks /\ \E n \in DOMAIN Users : Users[n].id = a.id

\* As long as no two of any number of threads have been on one socket, every user
\* has the group of the configuration: no row of an earlier call on the socket,
\* for an address or a user, gets into AddUser's group_id.
GroupRight == ~shared => \A n \in DOMAIN Users : Users[n].group = Group

\* With one worker thread AllocIp and deal_msg lease addresses as AddressLease
\* says: an address of group_ip is taken once, by whichever process, and only
\* then answered, once, to a client that has none.
Lease == INSTANCE AddressLease WITH Stock <- Range(Addresses), taken <- marks, leases <- answers
ImplementsLease == Lease!Spec

\* The pool keeps its promises to AddUser and AllocIp on all their paths, however
\* queries and updates fail, and in a server that was started again: no socket is
\* lost locked, none is connected under the feet of its user, and the scan finds
\* one where there is one for each thread.
PoolSafe == Pool!NoNullWhenEnough /\ Pool!ConnectAlone /\ Pool!LockedIsInUse

\* AddUser puts the user into the table users before it reports success, as long
\* as no two threads have been on one socket.
UserStored ==
  ~shared => \A t \in Threads : call[t] = "AllocIp" => request[t].name \in DOMAIN Users

\* With one worker thread a query gives what a document has: an answer is one of
\* the addresses.
AnswerIsAddress ==
  Cardinality(Threads) = 1 => \A a \in answers : a.ip \in Range(Addresses)

\* Threads that copy addresses into the static buffer while others read it may
\* answer a mixture: but with addresses of equal length, and as long as no two
\* threads have been on one socket, never a shorter one, a longer one or one with
\* bytes that no address has in their place.
AnswerOfAddresses ==
  ~shared => \A a \in answers :
    /\ \A b \in Range(Addresses) : Len(a.ip) = Len(b)
    /\ \A k \in DOMAIN a.ip : \E b \in Range(Addresses) : a.ip[k] = b[k]
=============================================================================
