--------------------------- MODULE ProvisionProofs ---------------------------
(***************************************************************************)
(* Proofs about Provision, for any sockets, requests, group and addresses: *)
(* with any threads their types, the socket pool, and what holds until two *)
(* of them are on one socket; with one thread what it promises of users and *)
(* addresses.                                                              *)
(***************************************************************************)
EXTENDS Provision, NumberSets, FiniteSetTheorems, TLAPS
-----------------------------------------------------------------------------
(* Rows *)

\* The value whose character is in the row is one that has so many.
LEMMA LastReaches ==
  ASSUME NEW S, NEW n \in Nat, NEW D \in SUBSET (1..n), NEW v \in [D -> Seq(S)],
         NEW k \in Nat, NEW i \in D, Len(v[i]) >= k
  PROVE  /\ LastToReach(v, k) \in D
         /\ Len(v[LastToReach(v, k)]) >= k
         /\ \A j \in D : Len(v[j]) >= k => j <= LastToReach(v, k)
<1> DEFINE Reach == {j \in D : Len(v[j]) >= k}
<1>1. IsFiniteSet(1..n)
  BY FS_Interval
<1>2. Reach \subseteq 1..n /\ Reach # {}
  OBVIOUS
<1>3. IsFiniteSet(Reach)
  BY <1>1, <1>2, FS_Subset
<1>4. \E m \in Reach : \A j \in Reach : j <= m
  <2> DEFINE f == [j \in Reach |-> j]
  <2>1. f \in [Reach -> Nat]
    BY <1>2
  <2>2. \E m \in Reach : \A j \in Reach : f[j] <= f[m]
    <3> HIDE DEF Reach, f
    <3> QED
      BY <1>2, <1>3, <2>1, Greatest
  <2> QED
    BY <2>2
<1> QED
  BY <1>4 DEF LastToReach

\* What a query leaves in the row is a text.
LEMMA FetchType ==
  ASSUME NEW n \in Nat, NEW D \in SUBSET (1..n), NEW v \in [D -> Texts]
  PROVE  Fetch(v) \in Texts
<1>1. CASE D = {}
  <2>1. DOMAIN Fetch(v) = 1..0
    BY <1>1 DEF Fetch
  <2>2. Fetch(v) \in [1..0 -> Parts]
    BY <2>1 DEF Fetch
  <2>3. Fetch(v) \in Seq(Parts) /\ Len(Fetch(v)) = 0
    BY <2>2
  <2> QED
    BY <2>3, ProvisionAssumption DEF Texts
<1>2. CASE D # {}
  <2> DEFINE f == [j \in D |-> Len(v[j])]
  <2>1. IsFiniteSet(1..n)
    BY FS_Interval
  <2>2. IsFiniteSet(D)
    BY <2>1, FS_Subset
  <2>3. \E i \in D : \A j \in D : Len(v[j]) <= Len(v[i])
    <3>1. f \in [D -> Nat]
      BY DEF Texts
    <3>2. \E i \in D : \A j \in D : f[j] <= f[i]
      <4> HIDE DEF f
      <4> QED
        BY <1>2, <2>2, <3>1, Greatest
    <3> QED
      BY <3>2
  <2>4. PICK i \in D : \A j \in D : Len(v[j]) <= Len(v[i])
    BY <2>3
  <2>5. v \in [D -> Seq(Parts)] /\ Len(v[i]) \in Nat /\ Len(v[i]) < Width
    BY DEF Texts
  <2>6. UNION {DOMAIN v[j] : j \in D} = 1..Len(v[i])
    BY <2>4, <2>5
  <2>7. ASSUME NEW k \in 1..Len(v[i])
        PROVE  v[LastToReach(v, k)][k] \in Parts
    <3>1. LastToReach(v, k) \in D /\ Len(v[LastToReach(v, k)]) >= k
      <4>1. Len(v[i]) >= k /\ k \in Nat
        OBVIOUS
      <4> QED
        BY <2>5, <4>1, LastReaches
    <3>2. PICK m \in D : m = LastToReach(v, k) /\ Len(v[m]) >= k
      BY <3>1
    <3>3. v[m] \in Seq(Parts) /\ Len(v[m]) \in Nat
      BY <2>5
    <3>4. k \in 1..Len(v[m])
      BY <2>5, <3>2, <3>3
    <3> QED
      BY <3>2, <3>3, <3>4
  <2>8. Fetch(v) = [k \in 1..Len(v[i]) |-> v[LastToReach(v, k)][k]]
    BY <2>5, <2>6 DEF Fetch
  <2>9. Fetch(v) \in [1..Len(v[i]) -> Parts]
    BY <2>7, <2>8
  <2>10. Fetch(v) \in Seq(Parts) /\ Len(Fetch(v)) = Len(v[i])
    BY <2>5, <2>9
  <2> QED
    BY <2>5, <2>10 DEF Texts
<1> QED
  BY <1>1, <1>2

\* Of one document found the row has the value.
LEMMA FetchOne ==
  ASSUME NEW S, NEW x \in Seq(S)
  PROVE  Fetch(<<x>>) = x
<1> DEFINE v == <<x>>
<1>1. v \in [{1} -> Seq(S)] /\ DOMAIN v = {1} /\ v[1] = x
  OBVIOUS
<1>2. UNION {DOMAIN v[i] : i \in {1}} = 1..Len(x)
  BY <1>1
<1>3. ASSUME NEW k \in 1..Len(x)
      PROVE  LastToReach(v, k) = 1
  BY <1>1 DEF LastToReach
<1>4. Fetch(v) = [k \in 1..Len(x) |-> x[k]]
  BY <1>1, <1>2, <1>3 DEF Fetch
<1> QED
  BY <1>4

\* Of none it has nothing.
LEMMA FetchNone == Fetch(<<>>) = <<>>
<1>1. DOMAIN <<>> = {}
  OBVIOUS
<1>2. DOMAIN Fetch(<<>>) = {}
  BY <1>1 DEF Fetch
<1>3. Fetch(<<>>) = [k \in {} |-> k]
  BY <1>1 DEF Fetch
<1> QED
  BY <1>3
-----------------------------------------------------------------------------
(* Types, with any number of threads *)

\* Where a thread is in nosql_get_socket and where it is in its function, how far
\* it has copied, and the last byte of the buffer, which no text reaches.
Where ==
  /\ \A t \in Threads :
       /\ pc[t] \in {"connect", "use", "again"} => cur[t] \in 1..N
       /\ pc[t] = "scan" => cur[t] \in 1..(N + 1)
       /\ pc[t] = "idle" <=> step[t] \in {"none", "answer"}
       /\ pc[t] = "again" <=> step[t] \in {"free", "freed"}
       /\ pc[t] \in {"scan", "connect"} => step[t] \in {"groups", "group_ip"}
       /\ step[t] # "none" => request[t] \in Requests
       /\ IF step[t] = "copy" THEN done[t] <= Len(text[t]) ELSE done[t] = 0
  /\ ipaddr[Width] = Nul

TypeInv == ProvTypeOK /\ Where

\* What it is to be a text.
LEMMA TextFacts ==
  ASSUME NEW x \in Texts
  PROVE  /\ x \in Seq(Parts) /\ Len(x) \in Nat /\ Len(x) < Width
         /\ DOMAIN x = 1..Len(x) /\ \A k \in 1..Len(x) : x[k] \in Parts
         /\ \A y \in Parts : Len(x) + 1 < Width => Append(x, y) \in Texts
BY DEF Texts

\* The texts of the database are texts of the model.
LEMMA TextsOfData ==
  /\ <<>> \in Texts /\ Junk \in Texts /\ Group \in Texts
  /\ \A i \in 1..Len(Addresses) : Addresses[i] \in Texts
  /\ \A n \in Names : <<n>> \in Texts
  /\ \A q \in Requests : q.name \in Names /\ q.id \in Ids
  /\ Len(Addresses) \in Nat /\ Nul \notin Parts
<1> USE ProvisionAssumption DEF Texts
<1>1. Group \in Texts
  <2>1. Range(Group) \subseteq Parts
    BY DEF Parts
  <2> QED
    BY <2>1
<1>2. ASSUME NEW i \in 1..Len(Addresses)
      PROVE  Addresses[i] \in Texts
  <2>1. Addresses[i] \in Range(Addresses)
    BY DEF Range
  <2>2. Range(Addresses[i]) \subseteq Parts
    BY <2>1 DEF Parts
  <2>3. Addresses[i] \in Seq(Range(Addresses[i])) /\ Len(Addresses[i]) < Width
    BY <2>1
  <2> QED
    BY <2>2, <2>3
<1>3. \A n \in Names \cup Range(Junk) : n \in Parts
  BY DEF Parts, Names
<1>4. \A n \in Parts : <<n>> \in Texts
  OBVIOUS
<1>5. Junk \in Texts
  <2>1. Junk[1] \in Range(Junk) /\ Junk = <<Junk[1]>>
    BY DEF Junk, Range
  <2> QED
    BY <1>3, <1>4, <2>1
<1> QED
  BY <1>1, <1>2, <1>3, <1>4, <1>5 DEF Names, Ids

\* However a query returns, there is a text or nothing in the row.
LEMMA SelectType ==
  ASSUME TypeInv, NEW t \in Threads, cur[t] \in 1..N,
         NEW n \in Nat, NEW D \in SUBSET (1..n), NEW v \in [D -> Texts],
         NEW r \in Select(t, v)
  PROVE  r.row \in Texts \cup {NoRow} /\ r.ret \in {0, -1, -2}
<1>1. Fetch(v) \in Texts
  BY FetchType
<1>2. row[cur[t]] \in Texts \cup {NoRow}
  BY DEF TypeInv, ProvTypeOK
<1> QED
  BY <1>1, <1>2, TextsOfData DEF Select

\* One document or none.
LEMMA FewType ==
  /\ <<>> \in [{} -> Texts] /\ {} \in SUBSET (1..1)
  /\ \A x \in Texts : <<x>> \in [1..1 -> Texts]
OBVIOUS

\* The free addresses.
LEMMA FreeType == \E D \in SUBSET (1..Len(Addresses)) : FreeAddresses \in [D -> Texts]
<1> DEFINE D == {i \in DOMAIN Addresses : Addresses[i] \notin marks}
<1>1. DOMAIN Addresses = 1..Len(Addresses)
  BY ProvisionAssumption
<1>2. D \in SUBSET (1..Len(Addresses))
  BY <1>1
<1>3. FreeAddresses \in [D -> Texts]
  BY <1>1, TextsOfData DEF FreeAddresses, Restrict
<1> QED
  BY <1>2, <1>3

\* A query keeps the types.
LEMMA QueryType ==
  ASSUME TypeInv, NEW t \in Threads, At(t, "group") \/ At(t, "user") \/ At(t, "ip"),
         NEW s \in {"take", "check", "get"},
         NEW n \in Nat, NEW D \in SUBSET (1..n), NEW v \in [D -> Texts], Query(t, v, s),
         shared' \in BOOLEAN
  PROVE  TypeInv'
<1>1. cur[t] \in 1..N /\ pc[t] = "use" /\ done[t] = 0
  BY DEF TypeInv, Where, At
<1>2. PICK r \in Select(t, v) : SetRow(t, r.row) /\ GoTo(t, IF r.ret = -1 THEN "drop" ELSE s)
  BY DEF Query
<1>3. r.row \in Texts \cup {NoRow}
  BY <1>1, SelectType
<1>4. UNCHANGED <<poolVars, locals, table, numfields, ipaddr, users, marks, answers>>
  BY DEF Query, dbVars
<1>5. /\ row' \in [1..N -> Texts \cup {NoRow}]
      /\ step' \in [Threads -> Steps]
      /\ \A o \in Threads \ {t} : step'[o] = step[o]
      /\ step'[t] \in {"drop", "take", "check", "get"}
  BY <1>2, <1>3 DEF SetRow, GoTo, TypeInv, ProvTypeOK, Steps
<1>6. ProvTypeOK'
  BY <1>4, <1>5 DEF TypeInv, ProvTypeOK, Pool!TypeOK, poolVars, locals
<1>7. Where'
  BY <1>1, <1>4, <1>5 DEF TypeInv, Where, poolVars, locals, At
<1> QED
  BY <1>6, <1>7 DEF TypeInv
\* A pool that begins has its types.
LEMMA PoolBeginsTyped ==
  ASSUME NEW L, NEW C, L = [s \in 1..N |-> FALSE], C = [s \in 1..N |-> s \in Up]
  PROVE  L \in [1..N -> BOOLEAN] /\ C \in [1..N -> BOOLEAN]
<1>1. \A s \in 1..N : (s \in Up) \in BOOLEAN
  OBVIOUS
<1> QED
  BY <1>1

\* The initial state has the types.
LEMMA InitType == Init => TypeInv
<1> SUFFICES ASSUME Init PROVE TypeInv
  OBVIOUS
<1> USE ProvisionAssumption, TextsOfData DEF Init, Pool!Init, Pool!Sockets
<1>1. Pool!TypeOK
  <2>1. 0 \in 0..(N + 1)
    OBVIOUS
  <2> QED
    BY <2>1, PoolBeginsTyped DEF Pool!TypeOK, Pool!Calls, Pool!PCs
<1>2. DOMAIN <<>> = {}
  OBVIOUS
<1>3. ProvTypeOK
  <2>1. /\ DOMAIN users = Tables
        /\ \A b \in Tables : /\ DOMAIN users[b] \subseteq Names
                             /\ \A n \in DOMAIN users[b] : users[b][n] \in [id : Ids, group : Texts]
    BY <1>2
  <2>2. /\ step \in [Threads -> Steps] /\ request \in [Threads -> Requests \cup {NoRequest}]
        /\ text \in [Threads -> Texts] /\ done \in [Threads -> 0..Width]
        /\ table \in [1..N -> Tables] /\ numfields \in [1..N -> {0, 1}]
        /\ row \in [1..N -> Texts \cup {NoRow}] /\ ipaddr \in [1..Width -> Parts \cup {Nul}]
        /\ marks \subseteq Texts /\ answers \subseteq [id : Ids, ip : Texts]
        /\ shared \in BOOLEAN
    <3>1. "none" \in Steps /\ "none" \in Tables /\ 0 \in 0..Width
      BY DEF Steps, Tables
    <3>2. marks \subseteq Texts /\ answers \subseteq [id : Ids, ip : Texts] /\ shared \in BOOLEAN
      OBVIOUS
    <3> QED
      BY <3>1, <3>2
  <2> QED
    BY <1>1, <2>1, <2>2 DEF ProvTypeOK
<1>4. Where
  BY DEF Where
<1> QED
  BY <1>3, <1>4 DEF TypeInv

\* A server that is started again has the types.
LEMMA RestartType == TypeInv /\ Restart /\ shared' \in BOOLEAN => TypeInv'
<1> SUFFICES ASSUME TypeInv, Restart, shared' \in BOOLEAN PROVE TypeInv'
  OBVIOUS
<1> USE ProvisionAssumption, TextsOfData DEF Restart
<1>1. Pool!TypeOK'
  <2>1. 0 \in 0..(N + 1)
    OBVIOUS
  <2> QED
    BY <2>1, PoolBeginsTyped DEF Pool!TypeOK, Pool!Calls, Pool!PCs, Pool!Sockets
<1>2. ProvTypeOK'
  BY <1>1 DEF TypeInv, ProvTypeOK, Steps, Tables, dbVars
<1>3. Where'
  BY DEF Where
<1> QED
  BY <1>2, <1>3 DEF TypeInv

\* A step that changes nothing keeps the types.
LEMMA StutterType == TypeInv /\ UNCHANGED vars => TypeInv'
BY DEF TypeInv, ProvTypeOK, Where, Pool!TypeOK, vars, poolVars, locals, sockVars, dbVars

\* Every step of a thread keeps the types.
LEMMA WorkerType ==
  ASSUME TypeInv, NEW t \in Threads, Worker(t), shared' \in BOOLEAN
  PROVE  TypeInv'
<1> USE DEF TypeInv, ProvTypeOK, Where, Pool!TypeOK, Pool!Sockets, Pool!Calls, Pool!PCs,
            Steps, At, GoTo, SetRow, SetText, locals, sockVars, dbVars
<1>0. N \in Nat /\ Width \in Nat \ {0, 1} /\ <<>> \in Texts /\ NoRow \notin Texts
  BY ProvisionAssumption, TextsOfData
<1>1. CASE Deal(t)
  BY <1>0, <1>1 DEF Deal, Pool!DealMsg, Pool!Enter
<1>2. CASE GetSocket(t)
  <2>1. CASE Pool!Busy(t)
    BY <1>0, <1>2, <2>1 DEF GetSocket, Pool!Busy
  <2>2. CASE Pool!Grab(t)
    BY <1>0, <1>2, <2>2 DEF GetSocket, Pool!Grab
  <2>3. CASE Pool!ConnectOk(t)
    BY <1>0, <1>2, <2>3 DEF GetSocket, Pool!ConnectOk
  <2>4. CASE Pool!ConnectFails(t)
    BY <1>0, <1>2, <2>4 DEF GetSocket, Pool!ConnectFails, Pool!Unlock
  <2>5. CASE Pool!NoHandle(t)
    BY <1>0, <1>2, <2>5 DEF GetSocket, Pool!NoHandle
  <2> QED
    BY <1>2, <2>1, <2>2, <2>3, <2>4, <2>5 DEF GetSocket
<1>3. CASE WriteTable(t)
  <2>1. PICK b \in {"groups", "users", "group_ip"} :
          /\ At(t, b)
          /\ table' = [table EXCEPT ![cur[t]] = b]
          /\ numfields' = [numfields EXCEPT ![cur[t]] = 1]
          /\ GoTo(t, [groups |-> "group", users |-> "user", group_ip |-> "ip"][b])
    BY <1>3 DEF WriteTable
  <2>2. [groups |-> "group", users |-> "user", group_ip |-> "ip"][b] \in {"group", "user", "ip"}
    OBVIOUS
  <2>3. b \in Tables
    BY DEF Tables
  <2> QED
    BY <1>3, <2>1, <2>2, <2>3 DEF WriteTable, poolVars
<1>4. CASE FreeRow(t)
  <2>1. UNCHANGED <<poolVars, locals, table, ipaddr, dbVars>>
    BY <1>4 DEF FreeRow
  <2>2. /\ row' \in [1..N -> Texts \cup {NoRow}] /\ numfields' \in [1..N -> {0, 1}]
        /\ \A o \in Threads \ {t} : step'[o] = step[o]
        /\ step' \in [Threads -> Steps]
        /\ \/ step[t] \in {"drop", "marked"} /\ pc[t] = "use" /\ step'[t] \in {"fail", "done"}
           \/ step[t] = "free" /\ step'[t] = "freed"
    BY <1>4 DEF FreeRow, FreeResult
  <2>3. ProvTypeOK'
    BY <2>1, <2>2 DEF poolVars
  <2>4. Where'
    BY <2>1, <2>2 DEF poolVars
  <2> QED
    BY <2>3, <2>4
<1>5. CASE QueryGroup(t)
  <2>1. At(t, "group") /\ Query(t, IF table[cur[t]] = "groups" /\ Group # <<>> THEN <<Group>> ELSE <<>>, "take")
    BY <1>5 DEF QueryGroup
  <2> HIDE DEF TypeInv, At
  <2>2. CASE table[cur[t]] = "groups" /\ Group # <<>>
    BY <2>1, <2>2, QueryType, TextsOfData, FewType
  <2>3. CASE ~(table[cur[t]] = "groups" /\ Group # <<>>)
    BY <2>1, <2>3, QueryType, FewType
  <2> QED
    BY <2>2, <2>3
<1>6. CASE TakeGroup(t)
  <2>1. At(t, "take") /\ UNCHANGED <<poolVars, request, done, sockVars, ipaddr, dbVars>>
    BY <1>6 DEF TakeGroup
  <2>2. \/ GoTo(t, "users") /\ \E x \in Texts : SetText(t, x)
        \/ GoTo(t, "drop") /\ UNCHANGED text
    BY <1>6, TextsOfData DEF TakeGroup, Found, RowText
  <2>3. text' \in [Threads -> Texts] /\ \A o \in Threads \ {t} : text'[o] = text[o]
    <3>1. CASE GoTo(t, "users") /\ \E x \in Texts : SetText(t, x)
      BY <3>1
    <3>2. CASE GoTo(t, "drop") /\ UNCHANGED text
      BY <3>2
    <3> QED
      BY <2>2, <3>1, <3>2
  <2>4. ProvTypeOK'
    BY <2>1, <2>2, <2>3 DEF poolVars
  <2>5. Where'
    BY <2>1, <2>2, <2>3 DEF poolVars
  <2> QED
    BY <2>4, <2>5
<1>7. CASE QueryUser(t)
  <2>1. At(t, "user")
    BY <1>7 DEF QueryUser
  <2>2. CASE Query(t, <<>>, "check")
    <3> HIDE DEF TypeInv, At
    <3> QED
      BY <2>1, <2>2, QueryType, FewType
  <2>3. ASSUME NEW n \in UsersWith(table[cur[t]], request[t].id), Query(t, <<<<n>>>>, "check")
        PROVE  TypeInv'
    <3>1. table[cur[t]] \in Tables
      BY <2>1
    <3>2. n \in Names
      BY <3>1, <2>3 DEF UsersWith
    <3> HIDE DEF TypeInv, At
    <3>3. <<<<n>>>> \in [1..1 -> Texts]
      BY <3>2, TextsOfData, FewType
    <3> QED
      BY <2>1, <2>3, <3>3, QueryType
  <2> QED
    BY <1>7, <2>2, <2>3 DEF QueryUser
<1>8. CASE CheckUser(t)
  BY <1>8 DEF CheckUser, poolVars
<1>9. CASE StoreUser(t)
  <2>1. request[t] \in Requests /\ step[t] = "store" /\ pc[t] = "use" /\ text[t] \in Texts
    BY <1>9 DEF StoreUser
  <2>2. users' = Upsert(t) \/ users' = users
    BY <1>9 DEF StoreUser
  <2>3. /\ DOMAIN users' = Tables
        /\ \A b \in Tables : /\ DOMAIN users'[b] \subseteq Names
                             /\ \A n \in DOMAIN users'[b] : users'[b][n] \in [id : Ids, group : Texts]
    <3>1. CASE users' = Upsert(t)
      <4> DEFINE u == [id |-> request[t].id, group |-> text[t]]
                 f == [n \in DOMAIN users[table[cur[t]]] \cup {request[t].name} |->
                         IF n = request[t].name THEN u ELSE users[table[cur[t]]][n]]
      <4>1. u \in [id : Ids, group : Texts] /\ request[t].name \in Names
        BY <2>1, TextsOfData
      <4>2. table[cur[t]] \in Tables
        BY <2>1
      <4>3. \A b \in DOMAIN users : users'[b] = IF b = table[cur[t]] THEN f ELSE users[b]
        BY <3>1 DEF Upsert
      <4>4. DOMAIN f = DOMAIN users[table[cur[t]]] \cup {request[t].name}
        OBVIOUS
      <4>5. \A n \in DOMAIN f : f[n] = u \/ (n \in DOMAIN users[table[cur[t]]] /\ f[n] = users[table[cur[t]]][n])
        OBVIOUS
      <4> HIDE DEF u, f
      <4>6. DOMAIN f \subseteq Names /\ \A n \in DOMAIN f : f[n] \in [id : Ids, group : Texts]
        BY <4>1, <4>2, <4>4, <4>5
      <4>7. DOMAIN users' = Tables
        BY <3>1 DEF Upsert
      <4> HIDE DEF Where, Pool!TypeOK
      <4> QED
        BY <4>3, <4>6, <4>7
    <3> QED
      BY <2>2, <3>1
  <2>4. /\ UNCHANGED <<poolVars, request, done, sockVars, ipaddr, marks, answers>>
        /\ GoTo(t, "fail") \/ GoTo(t, "stored")
        /\ SetText(t, <<>>)
    BY <1>9 DEF StoreUser
  <2>5. ProvTypeOK'
    BY <1>0, <2>1, <2>3, <2>4 DEF poolVars
  <2>6. Where'
    BY <2>1, <2>4 DEF poolVars
  <2> QED
    BY <2>5, <2>6
<1>10. CASE LeaveAddUser(t)
  <2>1. UNCHANGED <<locals, sockVars, ipaddr, dbVars>>
    BY <1>10 DEF LeaveAddUser
  <2>2. CASE At(t, "stored") /\ Pool!AddUserRelease(t) /\ GoTo(t, "free")
    BY <1>0, <2>1, <2>2 DEF Pool!AddUserRelease, Pool!Unlock
  <2>3. CASE step[t] = "freed" /\ Pool!AddUserReleaseAgain(t) /\ GoTo(t, "group_ip")
    BY <1>0, <2>1, <2>3 DEF Pool!AddUserReleaseAgain, Pool!Unlock, Pool!Enter
  <2> QED
    BY <1>10, <2>2, <2>3 DEF LeaveAddUser
<1>11. CASE QueryIp(t)
  <2>1. At(t, "ip") /\ Query(t, IF table[cur[t]] = "group_ip" THEN FreeAddresses ELSE <<>>, "get")
    BY <1>11 DEF QueryIp
  <2> HIDE DEF TypeInv, At
  <2>2. CASE table[cur[t]] = "group_ip"
    BY <2>1, <2>2, QueryType, TextsOfData, FreeType
  <2>3. CASE table[cur[t]] # "group_ip"
    BY <2>1, <2>3, QueryType, FewType
  <2> QED
    BY <2>2, <2>3
<1>12. CASE GetIp(t)
  <2>1. At(t, "get") /\ UNCHANGED <<poolVars, request, done, sockVars, ipaddr, dbVars>>
    BY <1>12 DEF GetIp
  <2>2. \/ GoTo(t, "copy") /\ \E x \in Texts : SetText(t, x)
        \/ GoTo(t, "drop") /\ UNCHANGED text
    BY <1>12, TextsOfData DEF GetIp, Found, RowText
  <2>3. text' \in [Threads -> Texts] /\ \A o \in Threads \ {t} : text'[o] = text[o]
    <3>1. CASE GoTo(t, "copy") /\ \E x \in Texts : SetText(t, x)
      BY <3>1
    <3>2. CASE GoTo(t, "drop") /\ UNCHANGED text
      BY <3>2
    <3> QED
      BY <2>2, <3>1, <3>2
  <2>4. 0 <= Len(text'[t])
    BY <2>3, TextFacts
  <2>5. ProvTypeOK'
    BY <2>1, <2>2, <2>3 DEF poolVars
  <2>6. Where'
    BY <2>1, <2>2, <2>3, <2>4 DEF poolVars
  <2> QED
    BY <2>5, <2>6
<1>13. CASE CopyIp(t)
  <2>1. At(t, "copy") /\ UNCHANGED <<poolVars, request, sockVars, dbVars>>
    BY <1>13 DEF CopyIp
  <2>2. PICK x \in Texts : x = text[t]
    OBVIOUS
  <2>3. Len(x) \in Nat /\ Len(x) < Width /\ done[t] <= Len(x) /\ done[t] \in Nat
    BY <2>1, <2>2, TextFacts
  <2>4. CASE /\ done[t] < Len(text[t])
             /\ ipaddr' = [ipaddr EXCEPT ![done[t] + 1] = text[t][done[t] + 1]]
             /\ done' = [done EXCEPT ![t] = @ + 1]
             /\ UNCHANGED <<step, text>>
    <3>1. x[done[t] + 1] \in Parts /\ done[t] + 1 # Width
      BY <1>0, <2>2, <2>3, <2>4, TextFacts
    <3> QED
      BY <1>0, <2>1, <2>2, <2>3, <2>4, <3>1 DEF poolVars
  <2>5. CASE /\ done[t] = Len(text[t])
             /\ ipaddr' = [ipaddr EXCEPT ![done[t] + 1] = Nul]
             /\ done' = [done EXCEPT ![t] = 0]
             /\ SetText(t, <<>>)
             /\ GoTo(t, "read")
    BY <1>0, <2>1, <2>3, <2>5 DEF poolVars
  <2> QED
    BY <1>13, <2>4, <2>5 DEF CopyIp
<1>14. ASSUME ReadByte(t), step[t] # "copy" PROVE text' \in [Threads -> Texts]
  <2>1. PICK x \in Texts : x = text[t]
    OBVIOUS
  <2>2. Len(x) \in Nat /\ Len(x) < Width
    BY <2>1, TextFacts
  <2>3. Byte(t) # Nul /\ Byte(t) = ipaddr[Len(x) + 1]
    BY <1>14, <2>1 DEF ReadByte, Byte
  <2>4. Byte(t) \in Parts /\ Len(x) + 1 < Width
    BY <1>0, <2>2, <2>3
  <2>5. Append(x, Byte(t)) \in Texts
    BY <2>4, TextFacts
  <2> QED
    BY <1>14, <2>1, <2>5 DEF ReadByte
<1>15. CASE ReadIp(t)
  <2>1. At(t, "read") /\ UNCHANGED <<poolVars, request, done, sockVars, ipaddr, dbVars>>
    BY <1>15 DEF ReadIp
  <2>2. CASE ReadByte(t)
    <3>1. text' \in [Threads -> Texts] /\ UNCHANGED step
      BY <1>14, <2>1, <2>2 DEF ReadByte
    <3>2. \A o \in Threads : step[o] = "copy" => text'[o] = text[o]
      BY <2>1, <2>2 DEF ReadByte
    <3>3. ProvTypeOK'
      BY <2>1, <3>1 DEF poolVars
    <3>4. Where'
      BY <2>1, <3>1, <3>2 DEF poolVars
    <3> QED
      BY <3>3, <3>4
  <2>3. CASE GoTo(t, "mark") /\ UNCHANGED text
    BY <2>1, <2>3 DEF poolVars
  <2> QED
    BY <1>15, <2>2, <2>3 DEF ReadIp
<1>16. CASE MarkIp(t)
  <2>1. /\ UNCHANGED <<poolVars, locals, sockVars, ipaddr, users, answers>>
        /\ marks' \subseteq Texts /\ At(t, "mark")
        /\ GoTo(t, "fail") \/ GoTo(t, "marked")
    <3>1. marks' = marks \cup {text[t]} \/ marks' = marks
      BY <1>16 DEF MarkIp
    <3>2. text[t] \in Texts
      OBVIOUS
    <3> QED
      BY <1>16, <3>1, <3>2 DEF MarkIp
  <2>2. ProvTypeOK'
    BY <2>1 DEF poolVars
  <2>3. Where'
    BY <2>1 DEF poolVars
  <2> QED
    BY <2>2, <2>3
<1>17. CASE LastRelease(t)
  BY <1>0, <1>17 DEF LastRelease, Pool!Release, Pool!Leave, Pool!Unlock
<1>18. CASE Answer(t)
  <2>1. step[t] = "answer" /\ UNCHANGED <<poolVars, request, done, sockVars, ipaddr, users, marks>>
    BY <1>18 DEF Answer
  <2>2. CASE ReadByte(t) /\ UNCHANGED answers
    <3>1. text' \in [Threads -> Texts] /\ UNCHANGED step
      BY <1>14, <2>1, <2>2 DEF ReadByte
    <3>2. \A o \in Threads : step[o] = "copy" => text'[o] = text[o]
      BY <2>1, <2>2 DEF ReadByte
    <3>3. ProvTypeOK'
      BY <2>1, <2>2, <3>1 DEF poolVars
    <3>4. Where'
      BY <2>1, <3>1, <3>2 DEF poolVars
    <3> QED
      BY <3>3, <3>4
  <2>3. CASE /\ answers' = answers \cup {[id |-> request[t].id, ip |-> text[t]]}
             /\ SetText(t, <<>>)
             /\ GoTo(t, "none")
    <3>1. [id |-> request[t].id, ip |-> text[t]] \in [id : Ids, ip : Texts]
      BY <2>1, TextsOfData
    <3>2. answers' \subseteq [id : Ids, ip : Texts]
      BY <2>3, <3>1
    <3> QED
      BY <1>0, <2>1, <2>3, <3>2 DEF poolVars
  <2> QED
    BY <1>18, <2>2, <2>3 DEF Answer
<1> QED
  BY <1>1, <1>2, <1>3, <1>4, <1>5, <1>6, <1>7, <1>8, <1>9, <1>10, <1>11, <1>12, <1>13,
     <1>15, <1>16, <1>17, <1>18 DEF Worker

\* Every step keeps the types.
LEMMA StepType == TypeInv /\ [Next]_vars => TypeInv'
BY WorkerType, RestartType, StutterType DEF Next

\* Type correctness of the service, for any threads, sockets and requests,
\* however calls fail, and whatever threads do to a socket they share.
THEOREM TypeCorrect == Spec => []ProvTypeOK
<1>1. TypeInv => ProvTypeOK
  BY DEF TypeInv
<1> QED
  BY InitType, StepType, <1>1, PTL DEF Spec
-----------------------------------------------------------------------------
(* What one thread leaves to another *)

\* A step does nothing to the thread o, or to the data of the socket s.
Still(o) == /\ pc'[o] = pc[o] /\ cur'[o] = cur[o] /\ call'[o] = call[o]
            /\ step'[o] = step[o] /\ request'[o] = request[o]
            /\ text'[o] = text[o] /\ done'[o] = done[o]
StillSocket(s) == table'[s] = table[s] /\ numfields'[s] = numfields[s] /\ row'[s] = row[s]

\* A step of t leaves the other threads, and the data of all sockets but the one
\* it uses.
LEMMA OthersKeep ==
  ASSUME TypeInv, NEW t \in Threads, Worker(t)
  PROVE  /\ \A o \in Threads \ {t} : Still(o)
         /\ \A s \in 1..N : s # cur[t] \/ ~Touches(t) => StillSocket(s)
<1>a. /\ pc \in [Threads -> Pool!PCs] /\ cur \in [Threads -> 0..(N + 1)]
      /\ call \in [Threads -> Pool!Calls] /\ step \in [Threads -> Steps]
      /\ request \in [Threads -> Requests \cup {NoRequest}]
      /\ text \in [Threads -> Texts] /\ done \in [Threads -> 0..Width]
      /\ table \in [1..N -> Tables] /\ numfields \in [1..N -> {0, 1}]
      /\ row \in [1..N -> Texts \cup {NoRow}]
  BY DEF TypeInv, ProvTypeOK, Pool!TypeOK, Pool!Sockets
<1>b. step[t] \in {"drop", "marked", "free"} /\ FreeRow(t) => Touches(t)
  BY DEF FreeRow, Touches, At
<1> USE DEF Still, At, GoTo, SetRow, SetText, poolVars, locals, sockVars, dbVars
<1>1. CASE Deal(t)
  BY <1>a, <1>1 DEF Deal, Pool!DealMsg, Pool!Enter, StillSocket
<1>2. CASE GetSocket(t)
  BY <1>a, <1>2 DEF GetSocket, Pool!Busy, Pool!Grab, Pool!ConnectOk, Pool!ConnectFails, Pool!NoHandle,
                    StillSocket
<1>3. CASE WriteTable(t)
  BY <1>a, <1>3 DEF WriteTable, Touches, StillSocket
<1>4. CASE FreeRow(t)
  BY <1>a, <1>4 DEF FreeRow, FreeResult, Touches, StillSocket
<1>5. CASE QueryGroup(t) \/ QueryUser(t) \/ QueryIp(t)
  <2>1. PICK v, s : Query(t, v, s)
    BY <1>5 DEF QueryGroup, QueryUser, QueryIp
  <2>2. Touches(t)
    BY <1>5 DEF QueryGroup, QueryUser, QueryIp, Touches
  <2> QED
    BY <1>a, <2>1, <2>2 DEF Query, StillSocket
<1>6. CASE TakeGroup(t) \/ GetIp(t)
  BY <1>a, <1>6 DEF TakeGroup, GetIp, StillSocket
<1>7. CASE CheckUser(t) \/ StoreUser(t) \/ MarkIp(t)
  BY <1>a, <1>7 DEF CheckUser, StoreUser, MarkIp, StillSocket
<1>8. CASE LeaveAddUser(t)
  BY <1>a, <1>8 DEF LeaveAddUser, Pool!AddUserRelease, Pool!AddUserReleaseAgain, Pool!Enter, StillSocket
<1>9. CASE CopyIp(t) \/ ReadIp(t) \/ Answer(t)
  BY <1>a, <1>9 DEF CopyIp, ReadIp, Answer, ReadByte, StillSocket
<1>10. CASE LastRelease(t)
  BY <1>a, <1>10 DEF LastRelease, Pool!Release, Pool!Leave, StillSocket
<1> QED
  BY <1>1, <1>2, <1>3, <1>4, <1>5, <1>6, <1>7, <1>8, <1>9, <1>10 DEF Worker

\* As long as each thread has its socket to itself, its data too.
LEMMA SocketKept ==
  ASSUME TypeInv, Alone, NEW t \in Threads, Worker(t), NEW o \in Threads \ {t}, Touches(o)
  PROVE  Still(o) /\ StillSocket(cur[o]) /\ cur[o] \in 1..N
<1>1. cur[o] \in 1..N
  BY DEF TypeInv, Where, Touches
<1>2. cur[o] = cur[t] => ~Touches(t)
  BY DEF Alone, Company
<1> QED
  BY <1>1, <1>2, OthersKeep

(***************************************************************************)
(* Until two threads have been on one socket each has in it the table it   *)
(* wrote there, and for its query the room it set.                         *)
(***************************************************************************)
OnTable(t) ==
  /\ step[t] = "group" => table[cur[t]] = "groups"
  /\ step[t] \in {"user", "check", "store"} => table[cur[t]] = "users"
  /\ step[t] \in {"ip", "get", "copy", "read", "mark"} => table[cur[t]] = "group_ip"
  /\ step[t] \in {"group", "user", "ip"} => numfields[cur[t]] = 1

Quiet == Alone /\ \A t \in Threads : OnTable(t)
QuietInv == TypeInv /\ (~shared => Quiet)

\* The steps on which a thread needs its table have the socket.
LEMMA UsesSocket ==
  ASSUME TypeInv, NEW t \in Threads,
         step[t] \notin {"none", "answer", "groups", "group_ip", "freed"}
  PROVE  Touches(t) /\ cur[t] \in 1..N
BY DEF TypeInv, ProvTypeOK, Pool!TypeOK, Pool!PCs, Where, Touches

\* What a query leaves in the socket, and where it goes on.
LEMMA QueryEffect ==
  ASSUME TypeInv, NEW t \in Threads, OnTable(t), step[t] \in {"group", "user", "ip"},
         NEW v, NEW s, Query(t, v, s)
  PROVE  /\ UNCHANGED <<poolVars, locals, table, numfields, ipaddr, dbVars>>
         /\ cur[t] \in 1..N /\ \A o \in 1..N : o # cur[t] => row'[o] = row[o]
         /\ \/ step'[t] = s /\ row'[cur[t]] = Fetch(v)
            \/ step'[t] \in {s, "drop"} /\ row'[cur[t]] = row[cur[t]]
<1>1. numfields[cur[t]] = 1 /\ cur[t] \in 1..N
  BY UsesSocket DEF OnTable
<1>2. PICK r \in Select(t, v) : SetRow(t, r.row) /\ GoTo(t, IF r.ret = -1 THEN "drop" ELSE s)
  BY DEF Query
<1>3. (r.ret = 0 /\ r.row = Fetch(v)) \/ r.row = row[cur[t]]
  BY <1>1 DEF Select
<1>4. /\ row'[cur[t]] = r.row /\ \A o \in 1..N : o # cur[t] => row'[o] = row[o]
      /\ step'[t] = IF r.ret = -1 THEN "drop" ELSE s
  BY <1>1, <1>2 DEF SetRow, GoTo, TypeInv, ProvTypeOK
<1> QED
  BY <1>1, <1>3, <1>4 DEF Query

\* A thread keeps its table.
LEMMA WorkerTable ==
  ASSUME TypeInv, Quiet, NEW t \in Threads, Worker(t), NEW o \in Threads
  PROVE  OnTable(o)'
<1>1. CASE o # t
  <2>1. CASE step[o] \in {"none", "answer", "groups", "group_ip", "freed"}
    BY <1>1, <2>1, OthersKeep DEF OnTable, Still
  <2>2. CASE step[o] \notin {"none", "answer", "groups", "group_ip", "freed"}
    <3>1. Touches(o)
      BY <2>2, UsesSocket
    <3> QED
      BY <1>1, <3>1, SocketKept DEF OnTable, Still, StillSocket, Quiet
  <2> QED
    BY <2>1, <2>2
<1> SUFFICES ASSUME o = t PROVE OnTable(t)'
  BY <1>1
<1>a. step \in [Threads -> Steps] /\ OnTable(t)
  BY DEF TypeInv, ProvTypeOK, Quiet
<1> USE DEF At, GoTo, poolVars, locals, sockVars
<1>2. CASE Deal(t) \/ FreeRow(t) \/ LeaveAddUser(t) \/ LastRelease(t) \/ Answer(t)
  <2>1. step'[t] \notin {"group", "user", "check", "store", "ip", "get", "copy", "read", "mark"}
    BY <1>a, <1>2 DEF Deal, FreeRow, LeaveAddUser, LastRelease, Answer, ReadByte
  <2> QED
    BY <2>1 DEF OnTable
<1>3. CASE GetSocket(t)
  <2>1. step' = step /\ step[t] \in {"groups", "group_ip"}
    BY <1>3 DEF GetSocket, Pool!Busy, Pool!Grab, Pool!ConnectOk, Pool!ConnectFails, Pool!NoHandle,
                TypeInv, Where
  <2> QED
    BY <2>1 DEF OnTable
<1>4. CASE WriteTable(t)
  <2>1. PICK b \in {"groups", "users", "group_ip"} :
          /\ At(t, b)
          /\ table' = [table EXCEPT ![cur[t]] = b]
          /\ numfields' = [numfields EXCEPT ![cur[t]] = 1]
          /\ GoTo(t, [groups |-> "group", users |-> "user", group_ip |-> "ip"][b])
    BY <1>4 DEF WriteTable
  <2>2. /\ cur[t] \in 1..N /\ cur' = cur
        /\ table \in [1..N -> Tables] /\ numfields \in [1..N -> {0, 1}]
    BY <1>4, <2>1, <1>4 DEF WriteTable, TypeInv, Where, ProvTypeOK
  <2>3. table'[cur'[t]] = b /\ numfields'[cur'[t]] = 1
    BY <2>1, <2>2
  <2>4. /\ b = "groups" => step'[t] = "group"
        /\ b = "users" => step'[t] = "user"
        /\ b = "group_ip" => step'[t] = "ip"
    BY <1>a, <2>1
  <2> QED
    BY <2>1, <2>3, <2>4 DEF OnTable
<1>5. ASSUME NEW v, NEW s, Query(t, v, s),
             \/ At(t, "group") /\ s = "take"
             \/ At(t, "user") /\ s = "check"
             \/ At(t, "ip") /\ s = "get"
      PROVE  OnTable(t)'
  <2>1. UNCHANGED <<cur, table, numfields>> /\ step'[t] \in {s, "drop"}
    BY <1>a, <1>5, QueryEffect
  <2> QED
    BY <1>a, <1>5, <2>1 DEF OnTable
<1>6. CASE QueryGroup(t) \/ QueryUser(t) \/ QueryIp(t)
  BY <1>5, <1>6 DEF QueryGroup, QueryUser, QueryIp
<1>7. CASE TakeGroup(t) \/ CheckUser(t) \/ GetIp(t) \/ CopyIp(t) \/ ReadIp(t)
  BY <1>a, <1>7 DEF TakeGroup, CheckUser, GetIp, CopyIp, ReadIp, ReadByte, OnTable
<1>8. CASE StoreUser(t) \/ MarkIp(t)
  <2>1. step'[t] \in {"stored", "fail", "marked"}
    BY <1>a, <1>8 DEF StoreUser, MarkIp
  <2> QED
    BY <2>1 DEF OnTable
<1> QED
  BY <1>2, <1>3, <1>4, <1>6, <1>7, <1>8 DEF Worker

\* What a step of the program is.
LEMMA StepCases ==
  ASSUME [Next]_vars
  PROVE  \/ Restart /\ shared' = (shared \/ ~Alone')
         \/ (\E t \in Threads : Worker(t)) /\ shared' = (shared \/ ~Alone')
         \/ UNCHANGED vars
BY DEF Next

\* Each thread keeps its table, until two have been on one socket.
LEMMA StepQuiet == QuietInv /\ [Next]_vars => QuietInv'
<1> SUFFICES ASSUME QuietInv, [Next]_vars, ~shared' PROVE Quiet'
  BY StepType DEF QuietInv
<1>1. CASE UNCHANGED vars
  BY <1>1 DEF QuietInv, Quiet, Alone, Company, Touches, OnTable, vars, poolVars, sockVars
<1>2. CASE ~UNCHANGED vars
  <2>1. Alone' /\ ~shared /\ (Restart \/ \E t \in Threads : Worker(t))
    BY <1>2, StepCases
  <2>2. CASE Restart
    BY <2>1, <2>2 DEF Quiet, OnTable, Restart
  <2>3. CASE \E t \in Threads : Worker(t)
    BY <2>1, <2>3, WorkerTable DEF QuietInv, Quiet
  <2> QED
    BY <2>1, <2>2, <2>3
<1> QED
  BY <1>1, <1>2

\* At the beginning no thread is on a socket.
LEMMA InitQuiet == Init => QuietInv
BY InitType DEF Init, Pool!Init, QuietInv, Quiet, Alone, Touches, OnTable
-----------------------------------------------------------------------------
(* The group of the users *)

(***************************************************************************)
(* While updates do not return -1, a row is there only as long as a thread *)
(* is between the query that wrote it and the release that frees it.  So   *)
(* the query of another call, which has the socket to itself, starts with  *)
(* no row, and a row it finds afterwards is its own.                       *)
(***************************************************************************)
HoldsRow == {"take", "users", "user", "check", "store", "stored", "free",
             "get", "copy", "read", "mark", "marked", "drop"}

RowInv == \A s \in 1..N : row[s] # NoRow => \E t \in Threads : cur[t] = s /\ step[t] \in HoldsRow

GroupOf(t) == /\ step[t] = "take" /\ Found(t) => row[cur[t]] = Group
              /\ step[t] \in {"users", "user", "check", "store"} => text[t] = Group

GroupInv == RowInv /\ (\A t \in Threads : GroupOf(t)) /\ \A n \in DOMAIN Users : Users[n].group = Group

GroupIInv == QuietInv /\ (~shared => GroupInv)

\* A step of t keeps RowInv if it leaves t with its row, or had none, or frees it.
LEMMA RowStep ==
  ASSUME TypeInv, RowInv, NEW t \in Threads, Worker(t),
         \/ cur'[t] = cur[t] /\ step'[t] \in HoldsRow
         \/ step[t] \notin HoldsRow /\ UNCHANGED row
         \/ cur[t] \in 1..N /\ row'[cur[t]] = NoRow
  PROVE  RowInv'
<1>1. \A o \in Threads \ {t} : cur'[o] = cur[o] /\ step'[o] = step[o]
  BY OthersKeep DEF Still
<1>2. \A s \in 1..N : s # cur[t] => row'[s] = row[s]
  BY OthersKeep DEF StillSocket
<1> QED
  BY <1>1, <1>2 DEF RowInv

\* A query begins without a row.
LEMMA NoRowBefore ==
  ASSUME QuietInv, ~shared, RowInv, NEW t \in Threads, step[t] = "group"
  PROVE  row[cur[t]] = NoRow
<1>1. cur[t] \in 1..N /\ Touches(t)
  BY UsesSocket DEF QuietInv
<1>2. ASSUME NEW o \in Threads, cur[o] = cur[t], step[o] \in HoldsRow
      PROVE  FALSE
  <2>1. Touches(o) /\ o # t
    BY <1>2, UsesSocket DEF HoldsRow, QuietInv
  <2> QED
    BY <1>1, <1>2, <2>1 DEF QuietInv, Quiet, Alone, Company
<1> QED
  BY <1>1, <1>2 DEF RowInv

\* A row of which another thread has none is read as it is.
LEMMA RowIsRead ==
  ASSUME Alone, NEW t \in Threads, Touches(t)
  PROVE  RowText(t) = {row[cur[t]]}
BY DEF Alone, RowText

\* Every step of a thread keeps the invariant.
LEMMA WorkerGroup ==
  ASSUME QuietInv, ~shared, GroupInv, Faults \cap {"exec_error", "exec_applied"} = {},
         NEW t \in Threads, Worker(t)
  PROVE  GroupInv'
<1>a. /\ step \in [Threads -> Steps] /\ text \in [Threads -> Texts]
      /\ row \in [1..N -> Texts \cup {NoRow}]
      /\ cur \in [Threads -> 0..(N + 1)]
      /\ TypeInv /\ Quiet /\ RowInv /\ Alone
  BY DEF QuietInv, GroupInv, Quiet, TypeInv, ProvTypeOK, Pool!TypeOK
<1>b. \A r \in Exec : r.ret # -1
  BY DEF Exec
<1>c. ASSUME NEW o \in Threads \ {t} PROVE GroupOf(o)'
  <2>1. Still(o)
    BY <1>a, OthersKeep
  <2>2. step[o] = "take" => StillSocket(cur[o])
    BY <1>a, UsesSocket, SocketKept
  <2> QED
    BY <2>1, <2>2 DEF GroupInv, GroupOf, Found, Still, StillSocket
<1> SUFFICES RowInv' /\ GroupOf(t)' /\ (UNCHANGED users \/ \A n \in DOMAIN Users' : Users'[n].group = Group)
  BY <1>c DEF GroupInv, Users
<1> USE DEF At, GoTo, SetRow, SetText, poolVars, locals, sockVars, dbVars
<1>1. CASE Deal(t) \/ Answer(t)
  <2>1. /\ UNCHANGED <<users, row>> /\ step[t] \in {"none", "answer"}
        /\ step'[t] \in {"groups", "none", "answer"}
    BY <1>a, <1>1 DEF Deal, Answer, ReadByte
  <2>2. RowInv'
    BY <1>a, <2>1, RowStep DEF HoldsRow
  <2> QED
    BY <2>1, <2>2 DEF GroupOf
<1>2. CASE GetSocket(t)
  <2>1. UNCHANGED <<step, row, users>> /\ step[t] \in {"groups", "group_ip"}
    BY <1>a, <1>2 DEF GetSocket, TypeInv, Where, Pool!Busy, Pool!Grab, Pool!ConnectOk,
                      Pool!ConnectFails, Pool!NoHandle
  <2>2. RowInv'
    BY <1>a, <2>1, RowStep DEF HoldsRow
  <2> QED
    BY <2>1, <2>2 DEF GroupOf
<1>3. CASE WriteTable(t)
  <2>1. PICK b \in {"groups", "users", "group_ip"} :
          At(t, b) /\ step'[t] = [groups |-> "group", users |-> "user", group_ip |-> "ip"][b]
    BY <1>a, <1>3 DEF WriteTable
  <2>2. UNCHANGED <<poolVars, text, row, users>>
    BY <1>3 DEF WriteTable
  <2>3. \/ step[t] = "users" /\ step'[t] = "user"
        \/ step[t] \in {"groups", "group_ip"} /\ step'[t] \in {"group", "ip"}
    <3>1. CASE b = "groups"
      BY <2>1, <3>1
    <3>2. CASE b = "users"
      BY <2>1, <3>2
    <3>3. CASE b = "group_ip"
      BY <2>1, <3>3
    <3> QED
      BY <3>1, <3>2, <3>3
  <2>4. RowInv'
    BY <1>a, <2>2, <2>3, RowStep DEF HoldsRow
  <2> QED
    BY <2>2, <2>3, <2>4 DEF GroupOf, GroupInv
<1>4. CASE FreeRow(t)
  <2>1. /\ UNCHANGED users /\ step'[t] \in {"fail", "done", "freed"}
        /\ step[t] \in {"drop", "marked", "free"} /\ row' = [row EXCEPT ![cur[t]] = NoRow]
    BY <1>a, <1>4 DEF FreeRow, FreeResult
  <2>2. cur[t] \in 1..N
    BY <1>a, <2>1, UsesSocket
  <2>3. RowInv'
    BY <1>a, <2>1, <2>2, RowStep
  <2> QED
    BY <2>1, <2>3 DEF GroupOf
<1>5. CASE QueryGroup(t)
  <2>1. PICK v : v \in {<<>>, <<Group>>} /\ At(t, "group") /\ Query(t, v, "take")
    BY <1>5 DEF QueryGroup
  <2>2. /\ UNCHANGED <<poolVars, users>>
        /\ cur[t] \in 1..N /\ step'[t] \in {"take", "drop"}
        /\ row'[cur[t]] \in {Fetch(v), row[cur[t]]}
    BY <1>a, <2>1, QueryEffect DEF Quiet
  <2>3. Fetch(v) = Group \/ Fetch(v) = <<>>
    BY <2>1, FetchOne, FetchNone, ProvisionAssumption
  <2>4. row[cur[t]] = NoRow
    BY <1>a, <2>1, NoRowBefore
  <2>5. RowInv'
    BY <1>a, <2>2, RowStep DEF HoldsRow
  <2> QED
    BY <2>2, <2>3, <2>4, <2>5 DEF GroupOf, Found
<1>6. CASE TakeGroup(t)
  <2>1. /\ UNCHANGED <<poolVars, row, users>> /\ step[t] = "take" /\ step'[t] \in {"users", "drop"}
        /\ step'[t] = "users" => Found(t) /\ text'[t] \in RowText(t)
    BY <1>a, <1>6 DEF TakeGroup
  <2>2. RowText(t) = {row[cur[t]]}
    BY <1>a, <2>1, UsesSocket, RowIsRead
  <2>3. RowInv'
    BY <1>a, <2>1, RowStep DEF HoldsRow
  <2> QED
    BY <2>1, <2>2, <2>3 DEF GroupOf, GroupInv
<1>7. CASE QueryUser(t)
  <2>1. PICK v : At(t, "user") /\ Query(t, v, "check")
    BY <1>7 DEF QueryUser
  <2>2. UNCHANGED <<poolVars, text, users>> /\ step'[t] \in {"check", "drop"}
    BY <1>a, <2>1, QueryEffect DEF Quiet
  <2>3. RowInv'
    BY <1>a, <2>2, RowStep DEF HoldsRow
  <2> QED
    BY <2>1, <2>2, <2>3 DEF GroupOf, GroupInv
<1>8. CASE CheckUser(t)
  <2>1. UNCHANGED <<poolVars, text, users>> /\ step[t] = "check" /\ step'[t] \in {"store", "drop"}
    BY <1>a, <1>8 DEF CheckUser
  <2>2. RowInv'
    BY <1>a, <2>1, RowStep DEF HoldsRow
  <2> QED
    BY <2>1, <2>2 DEF GroupOf, GroupInv
<1>9. CASE StoreUser(t)
  <2>1. /\ UNCHANGED <<poolVars, row>> /\ step[t] = "store" /\ step'[t] = "stored"
        /\ users' = Upsert(t) \/ users' = users
    BY <1>a, <1>b, <1>9 DEF StoreUser
  <2>2. RowInv'
    BY <1>a, <2>1, RowStep DEF HoldsRow
  <2>3. ASSUME users' = Upsert(t), NEW n \in DOMAIN Users' PROVE Users'[n].group = Group
    <3>1. text[t] = Group /\ DOMAIN users = Tables
      BY <2>1 DEF GroupInv, GroupOf, QuietInv, TypeInv, ProvTypeOK
    <3>2. Users' = users["users"] \/ Users' = [m \in DOMAIN users["users"] \cup {request[t].name} |->
                     IF m = request[t].name THEN [id |-> request[t].id, group |-> Group]
                                            ELSE users["users"][m]]
      BY <2>3, <3>1 DEF Users, Upsert, Tables
    <3>3. \A m \in DOMAIN users["users"] : users["users"][m].group = Group
      BY DEF GroupInv, Users
    <3> QED
      BY <2>3, <3>2, <3>3
  <2> QED
    BY <2>1, <2>2, <2>3 DEF GroupOf
<1>10. CASE LeaveAddUser(t)
  <2>1. UNCHANGED <<row, users>>
    BY <1>10 DEF LeaveAddUser
  <2>2. \/ step[t] = "stored" /\ step'[t] = "free" /\ cur' = cur
        \/ step[t] = "freed" /\ step'[t] = "group_ip"
    BY <1>a, <1>10 DEF LeaveAddUser, Pool!AddUserRelease
  <2>3. RowInv'
    BY <1>a, <2>1, <2>2, RowStep DEF HoldsRow
  <2> QED
    BY <2>1, <2>2, <2>3 DEF GroupOf
<1>11. CASE QueryIp(t)
  <2>1. PICK v : At(t, "ip") /\ Query(t, v, "get")
    BY <1>11 DEF QueryIp
  <2>2. UNCHANGED <<poolVars, users>> /\ step'[t] \in {"get", "drop"}
    BY <1>a, <2>1, QueryEffect DEF Quiet
  <2>3. RowInv'
    BY <1>a, <2>2, RowStep DEF HoldsRow
  <2> QED
    BY <2>2, <2>3 DEF GroupOf
<1>12. CASE GetIp(t) \/ CopyIp(t) \/ ReadIp(t) \/ MarkIp(t)
  <2>1. /\ UNCHANGED <<poolVars, users>>
        /\ step'[t] \in {"drop", "copy", "read", "mark", "marked"}
    BY <1>a, <1>b, <1>12 DEF GetIp, CopyIp, ReadIp, ReadByte, MarkIp
  <2>2. RowInv'
    BY <1>a, <2>1, RowStep DEF HoldsRow
  <2> QED
    BY <2>1, <2>2 DEF GroupOf
<1>13. CASE LastRelease(t)
  <2>1. UNCHANGED <<row, users>> /\ step[t] \in {"fail", "done"} /\ step'[t] \in {"none", "answer"}
    BY <1>a, <1>13 DEF LastRelease
  <2>2. RowInv'
    BY <1>a, <2>1, RowStep DEF HoldsRow
  <2> QED
    BY <2>1, <2>2 DEF GroupOf
<1> QED
  BY <1>1, <1>2, <1>3, <1>4, <1>5, <1>6, <1>7, <1>8, <1>9, <1>10, <1>11, <1>12, <1>13 DEF Worker

\* Every user has the configured group as long as no two threads have been on one
\* socket, and no update returns -1.
THEOREM RightGroup ==
  ASSUME Faults \cap {"exec_error", "exec_applied"} = {}
  PROVE  Spec => []GroupRight
<1>1. Init => GroupIInv
  <2> SUFFICES ASSUME Init PROVE GroupInv
    BY InitQuiet DEF GroupIInv
  <2>1. DOMAIN <<>> = {} /\ DOMAIN Users = {}
    BY DEF Init, Users, Tables
  <2> QED
    BY <2>1 DEF Init, GroupInv, RowInv, GroupOf
<1>2. GroupIInv /\ [Next]_vars => GroupIInv'
  <2> SUFFICES ASSUME GroupIInv, [Next]_vars, ~shared' PROVE GroupInv'
    BY StepQuiet DEF GroupIInv
  <2>1. CASE UNCHANGED vars
    BY <2>1 DEF vars, poolVars, locals, sockVars, dbVars, GroupIInv, GroupInv, RowInv, GroupOf, Found, Users
  <2>2. CASE Restart /\ shared' = (shared \/ ~Alone')
    BY <2>2 DEF Restart, dbVars, GroupIInv, GroupInv, RowInv, GroupOf, Users
  <2>3. CASE (\E t \in Threads : Worker(t)) /\ shared' = (shared \/ ~Alone')
    BY <2>3, WorkerGroup DEF GroupIInv
  <2> QED
    BY <2>1, <2>2, <2>3, StepCases
<1>3. GroupIInv => GroupRight
  BY DEF GroupIInv, GroupInv, GroupRight
<1> QED
  BY <1>1, <1>2, <1>3, PTL DEF Spec
-----------------------------------------------------------------------------
(* The user *)

\* AllocIp is only called for a user that is stored.
UserIn(t) == step[t] \in {"stored", "free", "freed"} \/ call[t] = "AllocIp" =>
               request[t].name \in DOMAIN Users

UserIInv == QuietInv /\ (~shared => \A t \in Threads : UserIn(t))

\* Every step of a thread keeps the invariant.
LEMMA WorkerUserIn ==
  ASSUME QuietInv, ~shared, \A o \in Threads : UserIn(o), "exec_down" \notin Faults,
         NEW t \in Threads, Worker(t)
  PROVE  \A o \in Threads : UserIn(o)'
<1>a. /\ step \in [Threads -> Steps] /\ request \in [Threads -> Requests \cup {NoRequest}]
      /\ call \in [Threads -> Pool!Calls] /\ TypeInv /\ Quiet /\ DOMAIN users = Tables
  BY DEF QuietInv, TypeInv, ProvTypeOK, Pool!TypeOK
<1> USE DEF At, GoTo, poolVars, locals, dbVars
<1>1. CASE StoreUser(t)
  <2>1. \A r \in Exec : r.ret # -1 => r.done
    BY DEF Exec
  <2>2. /\ UNCHANGED <<call, request>> /\ step[t] = "store" /\ step'[t] \in {"fail", "stored"}
        /\ users' = Upsert(t) \/ users' = users
        /\ step'[t] = "stored" => users' = Upsert(t)
        /\ \A o \in Threads \ {t} : step'[o] = step[o]
    BY <1>a, <1>1, <2>1 DEF StoreUser
  <2>3. table[cur[t]] = "users" /\ "users" \in Tables
    BY <1>a, <2>2 DEF Quiet, OnTable, Tables
  <2>4. users' = Upsert(t) => DOMAIN Users' = DOMAIN Users \cup {request[t].name}
    BY <1>a, <2>3 DEF Users, Upsert
  <2> QED
    BY <2>2, <2>4 DEF UserIn, Users
<1>2. CASE ~StoreUser(t)
  <2>1. UNCHANGED users
    BY <1>2 DEF Worker, Deal, GetSocket, WriteTable, FreeRow, QueryGroup, QueryUser, Query, TakeGroup,
                CheckUser, LeaveAddUser, QueryIp, GetIp, CopyIp, ReadIp, MarkIp, LastRelease, Answer
  <2>2. \A o \in Threads \ {t} : UserIn(o)'
    BY <1>a, <2>1, OthersKeep DEF UserIn, Still, Users
  <2>3. CASE Deal(t)
    BY <1>a, <2>2, <2>3 DEF Deal, Pool!DealMsg, Pool!Enter, UserIn
  <2>4. CASE GetSocket(t)
    BY <2>1, <2>4 DEF GetSocket, Pool!Busy, Pool!Grab, Pool!ConnectOk, Pool!ConnectFails,
                      Pool!NoHandle, UserIn, Users
  <2>5. CASE LeaveAddUser(t)
    <3>1. UNCHANGED <<request, users>> /\ step[t] \in {"stored", "freed"}
      BY <2>5 DEF LeaveAddUser
    <3> QED
      BY <2>2, <3>1 DEF UserIn, Users
  <2>6. CASE LastRelease(t)
    BY <1>a, <2>2, <2>6 DEF LastRelease, Pool!Release, Pool!Leave, UserIn
  <2>7. CASE FreeRow(t)
    <3>1. UNCHANGED <<call, request, users>> /\ (step'[t] = "freed" => step[t] = "free")
          /\ step'[t] \in {"fail", "done", "freed"}
      BY <1>a, <2>7 DEF FreeRow
    <3> QED
      BY <2>2, <3>1 DEF UserIn, Users
  <2>8. CASE \/ WriteTable(t) \/ QueryGroup(t) \/ QueryUser(t) \/ QueryIp(t)
             \/ TakeGroup(t) \/ CheckUser(t) \/ GetIp(t) \/ CopyIp(t) \/ ReadIp(t) \/ MarkIp(t)
             \/ Answer(t)
    <3>1. UNCHANGED <<call, request, users>>
      BY <2>8 DEF WriteTable, QueryGroup, QueryUser, QueryIp, Query, TakeGroup, CheckUser, GetIp,
                  CopyIp, ReadIp, MarkIp, Answer
    <3>2. step'[t] \notin {"stored", "free", "freed"}
      <4>1. CASE WriteTable(t)
        BY <1>a, <4>1 DEF WriteTable
      <4>2. ASSUME NEW v, NEW s \in {"take", "check", "get"}, Query(t, v, s)
            PROVE  step'[t] \notin {"stored", "free", "freed"}
        BY <1>a, <4>2 DEF Query
      <4>3. CASE QueryGroup(t) \/ QueryUser(t) \/ QueryIp(t)
        BY <4>2, <4>3 DEF QueryGroup, QueryUser, QueryIp
      <4>4. CASE TakeGroup(t) \/ CheckUser(t) \/ GetIp(t) \/ CopyIp(t) \/ ReadIp(t) \/ MarkIp(t) \/ Answer(t)
        BY <1>a, <4>4 DEF TakeGroup, CheckUser, GetIp, CopyIp, ReadIp, ReadByte, MarkIp, Answer
      <4> QED
        BY <2>8, <4>1, <4>3, <4>4
    <3> QED
      BY <2>2, <3>1, <3>2 DEF UserIn, Users
  <2> QED
    BY <1>2, <2>2, <2>3, <2>4, <2>5, <2>6, <2>7, <2>8 DEF Worker
<1> QED
  BY <1>1, <1>2

\* AllocIp never runs for a user that is not in the table users, however calls
\* fail and however many threads store users, as long as no two have been on one
\* socket, and no update returns -2.
THEOREM StoredBeforeAlloc ==
  ASSUME "exec_down" \notin Faults
  PROVE  Spec => []UserStored
<1>1. Init => UserIInv
  BY InitQuiet DEF Init, Pool!Init, UserIInv, UserIn
<1>2. UserIInv /\ [Next]_vars => UserIInv'
  <2> SUFFICES ASSUME UserIInv, [Next]_vars, ~shared', NEW o \in Threads PROVE UserIn(o)'
    BY StepQuiet DEF UserIInv
  <2>1. CASE UNCHANGED vars
    BY <2>1 DEF vars, poolVars, locals, dbVars, UserIInv, UserIn, Users
  <2>2. CASE Restart /\ shared' = (shared \/ ~Alone')
    BY <2>2 DEF Restart, UserIn
  <2>3. CASE (\E t \in Threads : Worker(t)) /\ shared' = (shared \/ ~Alone')
    BY <2>3, WorkerUserIn DEF UserIInv
  <2> QED
    BY <2>1, <2>2, <2>3, StepCases
<1>3. UserIInv => UserStored
  BY DEF UserIInv, UserIn, UserStored
<1> QED
  BY <1>1, <1>2, <1>3, PTL DEF Spec
-----------------------------------------------------------------------------
(* Answers, with any number of threads *)

\* Addresses of which none leaves a rest of another in the row.
EqualLengths == \A a, b \in Range(Addresses) : Len(a) = Len(b)

\* Addresses are texts.
LEMMA AddressIsText == \A a \in Range(Addresses) : a \in Texts
BY TextsOfData, ProvisionAssumption DEF Range

\* The free addresses are read one over the other, and leave the last one.
LEMMA FetchFree ==
  ASSUME EqualLengths, Fetch(FreeAddresses) # <<>>
  PROVE  Fetch(FreeAddresses) \in Range(Addresses) \ marks
<1> DEFINE v == FreeAddresses
           D == {i \in DOMAIN Addresses : Addresses[i] \notin marks}
<1>1. DOMAIN Addresses = 1..Len(Addresses) /\ Len(Addresses) \in Nat
  BY ProvisionAssumption
<1>2. /\ D \in SUBSET (1..Len(Addresses)) /\ v \in [D -> Texts]
      /\ \A i \in D : v[i] = Addresses[i] /\ v[i] \in Range(Addresses) \ marks
  BY <1>1, TextsOfData DEF FreeAddresses, Restrict, Range
<1>3. D # {}
  <2>1. SUFFICES ASSUME D = {} PROVE FALSE
    OBVIOUS
  <2>2. DOMAIN v = {}
    BY <1>2, <2>1
  <2>3. DOMAIN Fetch(v) = {} /\ Fetch(v) = [k \in {} |-> k]
    BY <2>2 DEF Fetch
  <2>4. Fetch(v) = <<>>
    BY <2>3
  <2> QED
    BY <2>4
<1> HIDE DEF v, D
<1>4. PICK i \in D : TRUE
  BY <1>3
<1>5. \A j \in D : Len(v[j]) = Len(v[i])
  BY <1>2, <1>4 DEF EqualLengths
<1>6. \A j \in D : v[j] \in Texts
  BY <1>2
<1>7. \A j \in D : DOMAIN v[j] = 1..Len(v[i])
  BY <1>5, <1>6 DEF Texts
<1>8. UNION {DOMAIN v[j] : j \in D} = 1..Len(v[i])
  BY <1>4, <1>7
<1> DEFINE m == LastToReach(v, 0)
<1>9. Len(v[i]) \in Nat
  BY <1>4, <1>6 DEF Texts
<1>10. m \in D /\ \A j \in D : j <= m
  <2>1. v \in [D -> Seq(Parts)]
    BY <1>2 DEF Texts
  <2>2. \A j \in D : Len(v[j]) >= 0
    BY <1>5, <1>9
  <2>3. Len(v[i]) >= 0 /\ 0 \in Nat
    BY <1>9
  <2> QED
    BY <1>1, <1>2, <1>4, <2>1, <2>2, <2>3, LastReaches
<1>11. ASSUME NEW k \in 1..Len(v[i])
       PROVE  LastToReach(v, k) = m
  <2>1. v \in [D -> Seq(Parts)]
    BY <1>2 DEF Texts
  <2>2. k \in Nat /\ Len(v[i]) >= k
    BY <1>9
  <2>3. LastToReach(v, k) \in D /\ \A j \in D : Len(v[j]) >= k => j <= LastToReach(v, k)
    BY <1>1, <1>2, <1>4, <2>1, <2>2, LastReaches
  <2>4. m <= LastToReach(v, k) /\ LastToReach(v, k) <= m
    BY <1>5, <1>10, <2>2, <2>3
  <2>5. m \in Int /\ LastToReach(v, k) \in Int
    BY <1>1, <1>2, <1>10, <2>3
  <2> QED
    BY <2>4, <2>5
<1> HIDE DEF m
<1>12. Fetch(v) = [k \in 1..Len(v[i]) |-> v[m][k]]
  <2>1. DOMAIN v = D
    BY <1>2
  <2> QED
    BY <1>8, <1>11, <2>1 DEF Fetch
<1>13. v[m] = [k \in 1..Len(v[i]) |-> v[m][k]]
  BY <1>6, <1>7, <1>10 DEF Texts
<1> QED
  BY <1>2, <1>10, <1>12, <1>13 DEF v

(***************************************************************************)
(* A row that is not freed where it should be is one of AllocIp, and thus  *)
(* an address: the text that AddUser reads is gone, or freed, before       *)
(* AddUser gives its socket back.                                          *)
(***************************************************************************)
Plain == {NoRow, <<>>} \cup Range(Addresses)
Named == {"take", "users", "user", "check", "drop"}

LeftInv == \A s \in 1..N : row[s] \in Plain \/ \E t \in Threads : cur[t] = s /\ step[t] \in Named

\* A thread that is not in AddUser's queries finds an address or nothing.
LEMMA LeftIsPlain ==
  ASSUME TypeInv, Alone, LeftInv, NEW t \in Threads, Touches(t), cur[t] \in 1..N, step[t] \notin Named
  PROVE  row[cur[t]] \in Plain
<1>1. ASSUME NEW o \in Threads, cur[o] = cur[t], step[o] \in Named PROVE FALSE
  <2>1. Touches(o)
    BY <1>1, UsesSocket DEF Named
  <2> QED
    BY <1>1, <2>1 DEF Alone, Company
<1> QED
  BY <1>1 DEF LeftInv

\* A step of t keeps LeftInv if it leaves the row, or leaves no text or an address
\* there, or stays in AddUser's queries.
LEMMA LeftStep ==
  ASSUME TypeInv, LeftInv, NEW t \in Threads, Worker(t),
         \/ step[t] \notin Named /\ UNCHANGED row
         \/ cur[t] \in 1..N /\ row'[cur[t]] \in Plain
         \/ cur'[t] = cur[t] /\ step'[t] \in Named
  PROVE  LeftInv'
<1>1. \A o \in Threads \ {t} : cur'[o] = cur[o] /\ step'[o] = step[o]
  BY OthersKeep DEF Still
<1>2. \A s \in 1..N : s # cur[t] => row'[s] = row[s]
  BY OthersKeep DEF StillSocket
<1> QED
  BY <1>1, <1>2 DEF LeftInv, Plain

\* Every step of a thread leaves rows so.
LEMMA WorkerLeft ==
  ASSUME QuietInv, ~shared, LeftInv, EqualLengths, NEW t \in Threads, Worker(t)
  PROVE  LeftInv'
<1>a. /\ step \in [Threads -> Steps] /\ row \in [1..N -> Texts \cup {NoRow}]
      /\ TypeInv /\ Quiet /\ Alone
  BY DEF QuietInv, Quiet, TypeInv, ProvTypeOK
<1> USE DEF At, GoTo, SetRow, poolVars, sockVars
<1>1. CASE \/ Deal(t) \/ StoreUser(t) \/ LeaveAddUser(t) \/ GetIp(t) \/ CopyIp(t) \/ ReadIp(t)
           \/ MarkIp(t) \/ LastRelease(t) \/ Answer(t)
  <2>1. UNCHANGED row
    BY <1>1 DEF Deal, StoreUser, LeaveAddUser, GetIp, CopyIp, ReadIp, MarkIp, LastRelease, Answer
  <2>2. step[t] \notin Named
    BY <1>1 DEF Deal, StoreUser, LeaveAddUser, GetIp, CopyIp, ReadIp, MarkIp, LastRelease, Answer, Named
  <2> QED
    BY <1>a, <2>1, <2>2, LeftStep
<1>2. CASE GetSocket(t)
  <2>1. UNCHANGED row /\ pc[t] \in {"scan", "connect"}
    BY <1>2 DEF GetSocket, Pool!Busy, Pool!Grab, Pool!ConnectOk, Pool!ConnectFails, Pool!NoHandle
  <2>2. step[t] \notin Named
    BY <1>a, <2>1 DEF TypeInv, Where, Named
  <2> QED
    BY <1>a, <2>1, <2>2, LeftStep
<1>3. CASE WriteTable(t)
  <2>1. PICK b \in {"groups", "users", "group_ip"} :
          At(t, b) /\ step'[t] = [groups |-> "group", users |-> "user", group_ip |-> "ip"][b]
    BY <1>a, <1>3 DEF WriteTable
  <2>2. UNCHANGED <<cur, row>>
    BY <1>3 DEF WriteTable
  <2>3. CASE b = "users"
    BY <1>a, <1>3, <2>1, <2>2, <2>3, LeftStep DEF Named
  <2>4. CASE b # "users"
    BY <1>a, <1>3, <2>1, <2>2, <2>4, LeftStep DEF Named
  <2> QED
    BY <2>3, <2>4
<1>4. CASE FreeRow(t)
  <2>1. step[t] \in {"drop", "marked", "free"} /\ row' = [row EXCEPT ![cur[t]] = NoRow]
    BY <1>4 DEF FreeRow, FreeResult
  <2>2. cur[t] \in 1..N
    BY <1>a, <2>1, UsesSocket
  <2> QED
    BY <1>a, <1>4, <2>1, <2>2, LeftStep DEF Plain
<1>5. CASE QueryGroup(t) \/ QueryUser(t)
  <2>1. PICK v, s : Query(t, v, s) /\ step[t] \in {"group", "user"} /\ s \in {"take", "check"}
    BY <1>5 DEF QueryGroup, QueryUser
  <2>2. UNCHANGED cur /\ step'[t] \in {s, "drop"}
    BY <1>a, <2>1, QueryEffect DEF Quiet
  <2> QED
    BY <1>a, <1>5, <2>1, <2>2, LeftStep DEF Named
<1>6. CASE TakeGroup(t)
  <2>1. UNCHANGED <<cur, row>> /\ step'[t] \in {"users", "drop"}
    BY <1>a, <1>6 DEF TakeGroup
  <2> QED
    BY <1>a, <1>6, <2>1, LeftStep DEF Named
<1>7. CASE CheckUser(t)
  <2>1. UNCHANGED <<cur, row>> /\ step[t] = "check"
    BY <1>7 DEF CheckUser
  <2>2. cur[t] \in 1..N
    BY <1>a, <2>1, UsesSocket
  <2>3. CASE Found(t)
    BY <1>a, <1>7, <2>1, <2>3, LeftStep DEF CheckUser, Named
  <2>4. CASE ~Found(t)
    BY <1>a, <1>7, <2>1, <2>2, <2>4, LeftStep DEF Found, Plain
  <2> QED
    BY <2>3, <2>4
<1>8. CASE QueryIp(t)
  <2>1. PICK v : v \in {FreeAddresses, <<>>} /\ Query(t, v, "get") /\ step[t] = "ip"
    BY <1>8 DEF QueryIp
  <2>2. /\ cur[t] \in 1..N
        /\ row'[cur[t]] \in {Fetch(v), row[cur[t]]}
    BY <1>a, <2>1, QueryEffect DEF Quiet
  <2>3. Fetch(v) \in Plain
    BY <2>1, FetchFree, FetchNone DEF Plain
  <2>4. row[cur[t]] \in Plain
    BY <1>a, <2>1, UsesSocket, LeftIsPlain DEF Named
  <2> QED
    BY <1>a, <1>8, <2>2, <2>3, <2>4, LeftStep
<1> QED
  BY <1>1, <1>2, <1>3, <1>4, <1>5, <1>6, <1>7, <1>8 DEF Worker

\* What GetIp copies is an address, until two threads have been on one socket.
LEMMA GetsAddress ==
  ASSUME QuietInv, ~shared, LeftInv, NEW t \in Threads, GetIp(t)
  PROVE  step'[t] = "copy" => text'[t] \in Range(Addresses)
<1>1. step[t] = "get" /\ Touches(t) /\ cur[t] \in 1..N
  BY UsesSocket DEF GetIp, At, QuietInv
<1>2. row[cur[t]] \in Plain
  BY <1>1, LeftIsPlain DEF QuietInv, Quiet, Named
<1>3. RowText(t) = {row[cur[t]]}
  BY <1>1, RowIsRead DEF QuietInv, Quiet
<1>4. step \in [Threads -> Steps] /\ text \in [Threads -> Texts]
  BY DEF QuietInv, TypeInv, ProvTypeOK
<1> QED
  BY <1>2, <1>3, <1>4 DEF GetIp, GoTo, SetText, Found, Plain

(***************************************************************************)
(* The buffer, which threads write while others read: a byte in it is that *)
(* of some address in its place, and those of a whole address stay bytes   *)
(* from when they have been written once.                                  *)
(***************************************************************************)
ByteOf(k, x) == \E b \in Range(Addresses) : k \in DOMAIN b /\ b[k] = x

BufferInv == \A k \in 1..Width : ipaddr[k] = Nul \/ ByteOf(k, ipaddr[k])

Written == \A b \in Range(Addresses) : \A k \in DOMAIN b : ipaddr[k] # Nul

Progress(t) ==
  /\ step[t] = "copy" => text[t] \in Range(Addresses) /\ \A k \in 1..done[t] : ipaddr[k] # Nul
  /\ step[t] \in {"read", "mark", "marked", "done", "answer"} => Written
  /\ step[t] \in {"read", "answer"} => \A k \in DOMAIN text[t] : ByteOf(k, text[t][k])

MixOf(x) == /\ \A b \in Range(Addresses) : Len(x) = Len(b)
            /\ \A k \in DOMAIN x : \E b \in Range(Addresses) : x[k] = b[k]

MixInv == /\ LeftInv /\ BufferInv /\ \A t \in Threads : Progress(t)
          /\ \A a \in answers : MixOf(a.ip)

MixIInv == QuietInv /\ (~shared => MixInv)

\* A byte that is read is of an address.
LEMMA ReadMix ==
  ASSUME TypeInv, BufferInv, NEW t \in Threads, Progress(t), step[t] \in {"read", "answer"}, ReadByte(t)
  PROVE  \A k \in DOMAIN text'[t] : ByteOf(k, text'[t][k])
<1>1. PICK x \in Texts : x = text[t]
  BY DEF TypeInv, ProvTypeOK
<1>2. Len(x) \in Nat /\ Len(x) < Width /\ DOMAIN x = 1..Len(x) /\ x \in Seq(Parts)
  BY <1>1, TextFacts
<1>3. Len(x) + 1 \in 1..Width
  BY <1>2, ProvisionAssumption
<1>4. Byte(t) # Nul /\ Byte(t) = ipaddr[Len(x) + 1]
  BY <1>1 DEF ReadByte, Byte
<1>5. ByteOf(Len(x) + 1, Byte(t))
  BY <1>3, <1>4 DEF BufferInv
<1>6. text'[t] = Append(x, Byte(t))
  BY <1>1 DEF ReadByte, SetText, TypeInv, ProvTypeOK
<1>7. PICK y : y = Byte(t)
  OBVIOUS
<1>8. DOMAIN Append(x, y) = 1..(Len(x) + 1)
  BY <1>2
<1>9. \A k \in 1..(Len(x) + 1) : Append(x, y)[k] = IF k = Len(x) + 1 THEN y ELSE x[k]
  BY <1>2
<1>10. \A k \in 1..Len(x) : ByteOf(k, x[k])
  BY <1>1, <1>2 DEF Progress
<1>11. ASSUME NEW k \in 1..(Len(x) + 1) PROVE ByteOf(k, Append(x, y)[k])
  <2>1. CASE k = Len(x) + 1
    BY <1>5, <1>7, <1>9, <2>1
  <2>2. CASE k # Len(x) + 1
    <3>1. k \in 1..Len(x)
      BY <1>2, <2>2
    <3> QED
      BY <1>9, <1>10, <2>2, <3>1
  <2> QED
    BY <2>1, <2>2
<1> QED
  BY <1>6, <1>7, <1>8, <1>11

\* What is answered at the end of the buffer's text is a mixture of addresses.
LEMMA AnswerMix ==
  ASSUME TypeInv, EqualLengths, NEW t \in Threads, Progress(t), step[t] = "answer", Byte(t) = Nul
  PROVE  MixOf(text[t])
<1>1. PICK x \in Texts : x = text[t]
  BY DEF TypeInv, ProvTypeOK
<1>2. Len(x) \in Nat /\ Len(x) < Width /\ DOMAIN x = 1..Len(x)
  BY <1>1, TextFacts
<1>3. \A k \in 1..Len(x) : ByteOf(k, x[k])
  BY <1>1, <1>2 DEF Progress
<1>4. ASSUME NEW b \in Range(Addresses) PROVE Len(x) = Len(b)
  <2>1. Len(b) \in Nat /\ DOMAIN b = 1..Len(b)
    BY AddressIsText, TextFacts
  <2>2. ~(Len(x) < Len(b))
    <3> SUFFICES ASSUME Len(x) < Len(b) PROVE FALSE
      OBVIOUS
    <3>1. Len(x) + 1 \in DOMAIN b
      BY <1>2, <2>1
    <3> QED
      BY <1>1, <3>1 DEF Progress, Written, Byte
  <2>3. ~(Len(b) < Len(x))
    <3> SUFFICES ASSUME Len(b) < Len(x) PROVE FALSE
      OBVIOUS
    <3>1. ByteOf(Len(x), x[Len(x)])
      BY <1>2, <1>3, <2>1
    <3>2. PICK c \in Range(Addresses) : Len(x) \in DOMAIN c
      BY <3>1 DEF ByteOf
    <3>3. DOMAIN c = 1..Len(c) /\ Len(c) = Len(b)
      BY AddressIsText, TextFacts DEF EqualLengths
    <3> QED
      BY <1>2, <2>1, <3>2, <3>3
  <2>4. Len(x) \in Nat /\ Len(b) \in Nat
    BY <1>2, <2>1
  <2> QED
    BY <2>2, <2>3, <2>4
<1> QED
  BY <1>1, <1>2, <1>3, <1>4 DEF MixOf, ByteOf

\* A step of the copy keeps what is known of the buffer.
LEMMA CopyMix ==
  ASSUME TypeInv, EqualLengths, BufferInv, \A o \in Threads : Progress(o),
         NEW t \in Threads, CopyIp(t)
  PROVE  BufferInv' /\ \A o \in Threads : Progress(o)'
<1>1. PICK x \in Texts : x = text[t]
  BY DEF TypeInv, ProvTypeOK
<1>2. /\ Len(x) \in Nat /\ Len(x) < Width /\ DOMAIN x = 1..Len(x)
      /\ \A k \in 1..Len(x) : x[k] # Nul
  BY <1>1, TextFacts, TextsOfData
<1>3. /\ step[t] = "copy" /\ x \in Range(Addresses) /\ \A k \in 1..done[t] : ipaddr[k] # Nul
      /\ UNCHANGED <<poolVars, request, sockVars, dbVars>>
  BY <1>1 DEF CopyIp, At, Progress
<1>4. /\ ipaddr \in [1..Width -> Parts \cup {Nul}] /\ Width \in Nat
      /\ step \in [Threads -> Steps] /\ text \in [Threads -> Texts] /\ done \in [Threads -> 0..Width]
  BY ProvisionAssumption DEF TypeInv, ProvTypeOK
<1>5. \A b \in Range(Addresses) : DOMAIN b = 1..Len(x) /\ Len(b) = Len(x)
  BY <1>3, AddressIsText, TextFacts DEF EqualLengths
<1>6. \A o \in Threads : step[o] = "copy" => done[o] <= Len(x)
  BY <1>5 DEF Progress, TypeInv, Where
<1>7. CASE /\ done[t] < Len(x)
           /\ ipaddr' = [ipaddr EXCEPT ![done[t] + 1] = x[done[t] + 1]]
           /\ done' = [done EXCEPT ![t] = @ + 1]
           /\ UNCHANGED <<step, text>>
  <2>1. done[t] + 1 \in 1..Len(x) /\ done[t] + 1 \in 1..Width
    BY <1>2, <1>4, <1>7
  <2>2. \A k \in 1..Width : ipaddr'[k] = IF k = done[t] + 1 THEN x[k] ELSE ipaddr[k]
    BY <1>4, <1>7
  <2>3. ByteOf(done[t] + 1, x[done[t] + 1])
    BY <1>2, <1>3, <2>1 DEF ByteOf
  <2>4. BufferInv'
    BY <2>2, <2>3 DEF BufferInv, ByteOf
  <2>5. \A k \in 1..Width : ipaddr[k] # Nul => ipaddr'[k] # Nul
    BY <1>2, <2>1, <2>2
  <2>6. \A k \in 1..done'[t] : ipaddr'[k] # Nul
    <3>1. done'[t] = done[t] + 1 /\ done[t] \in Nat
      BY <1>4, <1>7
    <3>2. ipaddr'[done[t] + 1] # Nul
      BY <1>2, <2>1, <2>2
    <3>3. \A k \in 1..done[t] : ipaddr'[k] # Nul
      BY <1>2, <1>3, <1>4, <2>1, <2>5
    <3> QED
      BY <3>1, <3>2, <3>3
  <2>7. Written => Written'
    BY <1>2, <1>4, <1>5, <2>5 DEF Written
  <2>8. ASSUME NEW o \in Threads PROVE Progress(o)'
    <3>1. CASE o = t
      BY <1>1, <1>3, <1>7, <2>6, <3>1 DEF Progress
    <3>2. CASE o # t
      <4>1. step'[o] = step[o] /\ text'[o] = text[o] /\ done'[o] = done[o]
        BY <1>4, <1>7, <3>2
      <4>2. \A k \in 1..done[o] : ipaddr[k] # Nul => ipaddr'[k] # Nul
        BY <1>4, <2>5
      <4>3. Progress(o)
        OBVIOUS
      <4> QED
        BY <2>7, <4>1, <4>2, <4>3 DEF Progress, ByteOf
    <3> QED
      BY <3>1, <3>2
  <2> QED
    BY <2>4, <2>8
<1>8. CASE /\ done[t] = Len(x)
           /\ ipaddr' = [ipaddr EXCEPT ![done[t] + 1] = Nul]
           /\ done' = [done EXCEPT ![t] = 0]
           /\ SetText(t, <<>>)
           /\ GoTo(t, "read")
  <2>1. \A k \in 1..Width : ipaddr'[k] = IF k = Len(x) + 1 THEN Nul ELSE ipaddr[k]
    BY <1>2, <1>4, <1>8
  <2>2. BufferInv'
    BY <2>1 DEF BufferInv, ByteOf
  <2>3. \A k \in 1..Len(x) : ipaddr'[k] = ipaddr[k]
    BY <1>2, <1>4, <2>1
  <2>4. Written /\ Written'
    BY <1>3, <1>5, <1>8, <2>3 DEF Written
  <2>5. ASSUME NEW o \in Threads PROVE Progress(o)'
    <3>1. CASE o = t
      <4>1. step'[t] = "read" /\ text'[t] = <<>> /\ DOMAIN <<>> = {}
        BY <1>4, <1>8 DEF GoTo, SetText
      <4> QED
        BY <2>4, <3>1, <4>1 DEF Progress
    <3>2. CASE o # t
      <4>1. step'[o] = step[o] /\ text'[o] = text[o] /\ done'[o] = done[o]
        BY <1>4, <1>8, <3>2 DEF GoTo, SetText
      <4>2. Progress(o) /\ (step[o] = "copy" => done[o] <= Len(x))
        BY <1>6
      <4>3. step[o] = "copy" => \A k \in 1..done[o] : ipaddr'[k] = ipaddr[k]
        <5>1. done[o] \in Nat
          BY <1>4
        <5> QED
          BY <1>2, <2>3, <4>2, <5>1
      <4> QED
        BY <2>4, <4>1, <4>2, <4>3 DEF Progress, ByteOf
    <3> QED
      BY <3>1, <3>2
  <2> QED
    BY <2>2, <2>5
<1> QED
  BY <1>1, <1>7, <1>8 DEF CopyIp

\* Every step of a thread keeps the invariant.
LEMMA WorkerMix ==
  ASSUME QuietInv, ~shared, MixInv, EqualLengths, NEW t \in Threads, Worker(t)
  PROVE  MixInv'
<1>a. /\ step \in [Threads -> Steps] /\ text \in [Threads -> Texts] /\ TypeInv
      /\ LeftInv /\ BufferInv /\ \A o \in Threads : Progress(o)
      /\ \A a \in answers : MixOf(a.ip)
  BY DEF QuietInv, MixInv, TypeInv, ProvTypeOK
<1>b. LeftInv'
  BY <1>a, WorkerLeft
<1>c. ASSUME UNCHANGED ipaddr
      PROVE  /\ BufferInv' /\ Written' = Written
             /\ \A o \in Threads \ {t} : Progress(o)'
  <2>1. BufferInv' /\ Written' = Written
    BY <1>a, <1>c DEF BufferInv, Written, ByteOf
  <2>2. ASSUME NEW o \in Threads \ {t} PROVE Progress(o)'
    BY <1>a, <1>c, <2>1, OthersKeep DEF Still, Progress, ByteOf
  <2> QED
    BY <2>1, <2>2
<1>d. ASSUME UNCHANGED <<ipaddr, answers>>, Progress(t)' PROVE MixInv'
  BY <1>a, <1>b, <1>c, <1>d DEF MixInv, MixOf
<1> USE DEF At, GoTo, SetText, poolVars, locals, dbVars
<1>1. CASE GetSocket(t)
  <2>1. UNCHANGED <<step, ipaddr, answers>> /\ step[t] \in {"groups", "group_ip"}
    BY <1>a, <1>1 DEF GetSocket, TypeInv, Where, Pool!Busy, Pool!Grab, Pool!ConnectOk,
                      Pool!ConnectFails, Pool!NoHandle
  <2> QED
    BY <1>d, <2>1 DEF Progress
<1>2. CASE \/ Deal(t) \/ WriteTable(t) \/ QueryGroup(t) \/ TakeGroup(t) \/ QueryUser(t)
           \/ CheckUser(t) \/ StoreUser(t) \/ LeaveAddUser(t) \/ QueryIp(t)
  <2>1. UNCHANGED <<ipaddr, answers>>
    BY <1>2 DEF Deal, WriteTable, QueryGroup, TakeGroup, QueryUser, CheckUser, StoreUser,
                LeaveAddUser, QueryIp, Query
  <2>2. step'[t] \notin {"copy", "read", "mark", "marked", "done", "answer"}
    <3>1. CASE Deal(t) \/ TakeGroup(t) \/ CheckUser(t) \/ StoreUser(t) \/ LeaveAddUser(t)
      BY <1>a, <3>1 DEF Deal, TakeGroup, CheckUser, StoreUser, LeaveAddUser
    <3>2. CASE WriteTable(t)
      BY <1>a, <3>2 DEF WriteTable
    <3>3. ASSUME NEW v, NEW s \in {"take", "check", "get"}, Query(t, v, s)
          PROVE  step'[t] \in {s, "drop"}
      BY <1>a, <3>3 DEF Query
    <3>4. CASE QueryGroup(t) \/ QueryUser(t) \/ QueryIp(t)
      BY <3>3, <3>4 DEF QueryGroup, QueryUser, QueryIp
    <3> QED
      BY <1>2, <3>1, <3>2, <3>4
  <2> QED
    BY <1>d, <2>1, <2>2 DEF Progress
<1>3. CASE FreeRow(t)
  <2>1. UNCHANGED <<ipaddr, answers>>
    BY <1>3 DEF FreeRow
  <2>2. \/ step[t] = "marked" /\ step'[t] = "done"
        \/ step'[t] \in {"fail", "freed"}
    BY <1>a, <1>3 DEF FreeRow
  <2> QED
    BY <1>a, <1>c, <1>d, <2>1, <2>2 DEF Progress
<1>4. CASE GetIp(t)
  <2>1. UNCHANGED <<ipaddr, answers, done>> /\ step[t] = "get" /\ step'[t] \in {"copy", "drop"}
    BY <1>a, <1>4 DEF GetIp
  <2>2. done[t] = 0
    BY <1>a, <2>1 DEF TypeInv, Where
  <2>3. step'[t] = "copy" => text'[t] \in Range(Addresses)
    BY <1>a, <1>4, GetsAddress
  <2> QED
    BY <1>d, <2>1, <2>2, <2>3 DEF Progress
<1>5. CASE CopyIp(t)
  <2>1. BufferInv' /\ \A o \in Threads : Progress(o)'
    BY <1>a, <1>5, CopyMix
  <2> QED
    BY <1>a, <1>b, <1>5, <2>1 DEF CopyIp, MixInv, MixOf
<1>6. CASE ReadIp(t)
  <2>1. UNCHANGED <<ipaddr, answers>> /\ step[t] = "read"
    BY <1>6 DEF ReadIp
  <2>2. CASE ReadByte(t)
    <3>1. \A k \in DOMAIN text'[t] : ByteOf(k, text'[t][k])
      BY <1>a, <2>1, <2>2, ReadMix
    <3>2. step'[t] = step[t] /\ Written'
      BY <1>a, <1>c, <2>1, <2>2 DEF ReadByte, Progress
    <3>3. Progress(t)'
      BY <2>1, <3>1, <3>2 DEF Progress, ByteOf
    <3> QED
      BY <1>d, <2>1, <2>2, <3>3
  <2>3. CASE step'[t] = "mark"
    BY <1>a, <1>c, <1>d, <2>1, <2>3 DEF Progress
  <2> QED
    BY <1>a, <1>6, <2>2, <2>3 DEF ReadIp
<1>7. CASE MarkIp(t)
  <2>1. UNCHANGED <<ipaddr, answers>> /\ step[t] = "mark" /\ step'[t] \in {"fail", "marked"}
    BY <1>a, <1>7 DEF MarkIp
  <2> QED
    BY <1>a, <1>c, <1>d, <2>1 DEF Progress
<1>8. CASE LastRelease(t)
  <2>1. UNCHANGED <<ipaddr, answers>> /\ text'[t] = <<>> /\ DOMAIN <<>> = {}
    BY <1>a, <1>8 DEF LastRelease
  <2>2. \/ step'[t] = "none"
        \/ step[t] = "done" /\ step'[t] = "answer"
    BY <1>a, <1>8 DEF LastRelease
  <2> QED
    BY <1>a, <1>c, <1>d, <2>1, <2>2 DEF Progress
<1>9. CASE Answer(t)
  <2>1. UNCHANGED ipaddr /\ step[t] = "answer"
    BY <1>9 DEF Answer
  <2>2. CASE ReadByte(t) /\ UNCHANGED answers
    <3>1. \A k \in DOMAIN text'[t] : ByteOf(k, text'[t][k])
      BY <1>a, <2>1, <2>2, ReadMix
    <3>2. step'[t] = step[t] /\ Written'
      BY <1>a, <1>c, <2>1, <2>2 DEF ReadByte, Progress
    <3>3. Progress(t)'
      BY <2>1, <3>1, <3>2 DEF Progress, ByteOf
    <3> QED
      BY <1>d, <2>1, <2>2, <3>3
  <2>3. CASE /\ Byte(t) = Nul /\ step'[t] = "none"
             /\ answers' = answers \cup {[id |-> request[t].id, ip |-> text[t]]}
    <3>1. MixOf(text[t])
      BY <1>a, <2>1, <2>3, AnswerMix
    <3>2. \A a \in answers' : MixOf(a.ip)
      BY <1>a, <2>3, <3>1
    <3>3. Progress(t)'
      BY <2>3 DEF Progress
    <3> QED
      BY <1>b, <1>c, <2>1, <3>2, <3>3 DEF MixInv, MixOf
  <2> QED
    BY <1>a, <1>9, <2>2, <2>3 DEF Answer
<1> QED
  BY <1>1, <1>2, <1>3, <1>4, <1>5, <1>6, <1>7, <1>8, <1>9 DEF Worker

\* With addresses of equal length, and as long as no two threads have been on one
\* socket, what threads copy to the buffer while others read it is answered as a
\* mixture of addresses at worst, whichever calls fail, with whichever return, and
\* in whatever rows they leave behind.
THEOREM MixturesOfAddresses ==
  ASSUME EqualLengths
  PROVE  Spec => []AnswerOfAddresses
<1>1. Init => MixIInv
  <2> SUFFICES ASSUME Init PROVE MixInv
    BY InitQuiet DEF MixIInv
  <2> QED
    BY DEF Init, MixInv, LeftInv, Plain, BufferInv, Progress
<1>2. MixIInv /\ [Next]_vars => MixIInv'
  <2> SUFFICES ASSUME MixIInv, [Next]_vars, ~shared' PROVE MixInv'
    BY StepQuiet DEF MixIInv
  <2>1. CASE UNCHANGED vars
    BY <2>1 DEF vars, poolVars, locals, sockVars, dbVars, MixIInv, MixInv, LeftInv, Plain, BufferInv,
                Progress, Written, ByteOf, MixOf
  <2>2. CASE Restart /\ shared' = (shared \/ ~Alone')
    BY <2>2 DEF Restart, dbVars, MixIInv, MixInv, LeftInv, Plain, BufferInv, Progress, MixOf
  <2>3. CASE (\E t \in Threads : Worker(t)) /\ shared' = (shared \/ ~Alone')
    BY <2>3, WorkerMix DEF MixIInv
  <2> QED
    BY <2>1, <2>2, <2>3, StepCases
<1>3. MixIInv => AnswerOfAddresses
  BY DEF MixIInv, MixInv, MixOf, AnswerOfAddresses
<1> QED
  BY <1>1, <1>2, <1>3, PTL DEF Spec
-----------------------------------------------------------------------------
(* The sockets, with any number of threads *)

PoolProofs == INSTANCE SocketPoolProofs

\* Each step of a thread is one of the pool, or leaves the pool alone.
LEMMA WorkerPool ==
  ASSUME TypeInv, ~crashed, NEW t \in Threads, Worker(t)
  PROVE  [PoolProofs!Next]_poolVars
<1>1. Pool!Next \/ UNCHANGED poolVars
  BY DEF Worker, Deal, GetSocket, WriteTable, FreeRow, QueryGroup, QueryUser, Query, TakeGroup,
         CheckUser, StoreUser, LeaveAddUser, QueryIp, GetIp, CopyIp, ReadIp, MarkIp, LastRelease,
         Answer, Pool!Next, Pool!Thread
<1>2. Pool!Next => PoolProofs!Next
  BY DEF Pool!Next, PoolProofs!Next, Pool!Thread, PoolProofs!Thread,
         Pool!DealMsg, PoolProofs!DealMsg, Pool!Enter, PoolProofs!Enter,
         Pool!Leave, PoolProofs!Leave, Pool!Unlock, PoolProofs!Unlock,
         Pool!Sockets, PoolProofs!Sockets,
         Pool!Busy, PoolProofs!Busy, Pool!Grab, PoolProofs!Grab,
         Pool!ConnectOk, PoolProofs!ConnectOk, Pool!ConnectFails, PoolProofs!ConnectFails,
         Pool!NoHandle, PoolProofs!NoHandle, Pool!Release, PoolProofs!Release,
         Pool!AddUserRelease, PoolProofs!AddUserRelease,
         Pool!AddUserReleaseAgain, PoolProofs!AddUserReleaseAgain
<1> QED
  BY <1>1, <1>2

\* What SocketPoolProofs assumes is given.
LEMMA PoolAssumptions == PoolProofs!PoolAssumption
BY ProvisionAssumption DEF PoolProofs!PoolAssumption, IsFiniteSet, PoolProofs!IsFiniteSet

\* A server that begins, again or for the first time, has the pool as DBInit
\* makes it.
LEMMA PoolBegins == (Init => PoolProofs!Init) /\ (Restart => PoolProofs!Init')
BY DEF Init, Restart, Pool!Init, PoolProofs!Init, Pool!Sockets, PoolProofs!Sockets

\* Whatever fails in a query or an update, and in a server that was killed and
\* started again any number of times, what is proved of the pool holds of it as
\* AddUser and AllocIp use it: its inductive invariant holds at a start, and every
\* step here is one of the pool or none.
THEOREM SafePool == Spec => []PoolSafe
<1>0. PoolProofs!PoolAssumption
  BY PoolAssumptions
<1>1. PoolProofs!Init => PoolProofs!IInv
  BY <1>0, PoolProofs!InitIInv
<1>2. PoolProofs!Init' => PoolProofs!IInv'
  BY <1>1, PTL
<1>3. TypeInv /\ PoolProofs!IInv /\ [Next]_vars => PoolProofs!IInv'
  <2> SUFFICES ASSUME TypeInv, PoolProofs!IInv, [Next]_vars PROVE PoolProofs!IInv'
    OBVIOUS
  <2>1. CASE Restart
    BY <1>2, <2>1, PoolBegins
  <2>2. CASE ~Restart
    <3>1. [PoolProofs!Next]_(PoolProofs!vars)
      <4>1. [PoolProofs!Next]_poolVars
        <5>1. CASE UNCHANGED vars
          BY <5>1 DEF vars
        <5>2. CASE Next
          BY <2>2, <5>2, WorkerPool DEF Next
        <5> QED
          BY <5>1, <5>2
      <4> QED
        BY <4>1 DEF poolVars, PoolProofs!vars
    <3> QED
      BY <1>0, <3>1, PoolProofs!StepIInv
  <2> QED
    BY <2>1, <2>2
<1>4. PoolProofs!IInv => PoolSafe
  BY DEF PoolProofs!IInv, PoolSafe,
         Pool!NoNullWhenEnough, PoolProofs!NoNullWhenEnough,
         Pool!ConnectAlone, PoolProofs!ConnectAlone,
         Pool!LockedIsInUse, PoolProofs!LockedIsInUse, Pool!Sockets, PoolProofs!Sockets,
         Pool!Cardinality, PoolProofs!Cardinality
<1> QED
  BY <1>1, <1>3, <1>4, StepType, InitType, PoolBegins, PTL DEF Spec
-----------------------------------------------------------------------------
(* One user per id, with one thread *)

\* A single thread is the only one.
LEMMA SingleThread ==
  ASSUME Cardinality(Threads) = 1
  PROVE  \E w : Threads = {w}
BY FS_Singleton, ProvisionAssumption

\* It shares no socket.
OneInv == QuietInv /\ ~shared

\* One thread shares no socket at the beginning.
LEMMA InitOne == Init => OneInv
BY InitQuiet DEF Init, OneInv

\* No step of one thread makes a socket shared.
LEMMA StepOne ==
  ASSUME NEW w, Threads = {w}, OneInv, [Next]_vars
  PROVE  OneInv'
<1>1. Alone'
  BY DEF Alone, Company
<1>2. CASE UNCHANGED vars
  BY <1>2, StepQuiet DEF OneInv, vars
<1>3. CASE shared' = (shared \/ ~Alone')
  <2>1. ~shared'
    BY <1>1, <1>3 DEF OneInv
  <2> QED
    BY <2>1, StepQuiet DEF OneInv
<1> QED
  BY <1>2, <1>3, StepCases

(***************************************************************************)
(* When QueryUser asks, the row has the group still, which a query that    *)
(* returns -2 leaves there, to be taken for a user: so it is only when no  *)
(* user has the id that AddUser goes on to store one.                      *)
(***************************************************************************)
UserInv(w) ==
  /\ step[w] \in {"users", "user"} => Found(w)
  /\ (step[w] = "check" /\ ~Found(w)) \/ step[w] = "store" =>
       \A n \in DOMAIN Users : Users[n].id # request[w].id
  /\ \A m, n \in DOMAIN Users : Users[m].id = Users[n].id => m = n

\* Types in the form the steps below use.
LEMMA OneThreadTypes ==
  ASSUME OneInv, NEW w, Threads = {w}
  PROVE  /\ step \in [{w} -> Steps] /\ pc \in [{w} -> Pool!PCs] /\ cur \in [{w} -> 0..(N + 1)]
         /\ request \in [{w} -> Requests \cup {NoRequest}]
         /\ text \in [{w} -> Texts] /\ done \in [{w} -> 0..Width]
         /\ row \in [1..N -> Texts \cup {NoRow}]
         /\ locked \in [1..N -> BOOLEAN] /\ connected \in [1..N -> BOOLEAN]
         /\ N \in Nat /\ Where /\ TypeInv /\ Quiet /\ Alone /\ OnTable(w) /\ ~shared /\ QuietInv
         /\ DOMAIN users = Tables
BY ProvisionAssumption DEF OneInv, QuietInv, Quiet, TypeInv, ProvTypeOK, Pool!TypeOK, Pool!Sockets

\* What the update of a user makes of the table users.
LEMMA UsersAfter ==
  ASSUME NEW w, DOMAIN users = Tables, table[cur[w]] = "users", users' = Upsert(w)
  PROVE  /\ DOMAIN Users' = DOMAIN Users \cup {request[w].name}
         /\ \A n \in DOMAIN Users' :
              Users'[n] = IF n = request[w].name THEN [id |-> request[w].id, group |-> text[w]]
                                                 ELSE Users[n]
<1>1. "users" \in DOMAIN users
  BY DEF Tables
<1>2. Users' = [n \in DOMAIN Users \cup {request[w].name} |->
                  IF n = request[w].name THEN [id |-> request[w].id, group |-> text[w]] ELSE Users[n]]
  BY <1>1 DEF Upsert, Users
<1> QED
  BY <1>2

\* Every step of the one thread keeps the invariant.
LEMMA WorkerUser ==
  ASSUME OneInv, NEW w, Threads = {w}, UserInv(w), Worker(w)
  PROVE  UserInv(w)'
<1>a. /\ step \in [{w} -> Steps] /\ text \in [{w} -> Texts]
      /\ row \in [1..N -> Texts \cup {NoRow}] /\ cur \in [{w} -> 0..(N + 1)]
      /\ request \in [{w} -> Requests \cup {NoRequest}]
      /\ TypeInv /\ OnTable(w) /\ DOMAIN users = Tables
  BY OneThreadTypes
<1>b. ASSUME UNCHANGED <<request, users>>, step'[w] \notin {"users", "user", "check", "store"}
      PROVE  UserInv(w)'
  BY <1>b DEF UserInv, Users
<1> USE DEF At, GoTo, SetRow, poolVars, locals, sockVars, dbVars
<1>1. CASE Deal(w)
  BY <1>a, <1>1 DEF Deal, UserInv, Users
<1>2. CASE GetSocket(w)
  <2>1. UNCHANGED <<step, request, users>> /\ step[w] \in {"groups", "group_ip"}
    BY <1>a, <1>2 DEF GetSocket, TypeInv, Where, Pool!Busy, Pool!Grab, Pool!ConnectOk,
                      Pool!ConnectFails, Pool!NoHandle
  <2> QED
    BY <1>b, <2>1
<1>3. CASE WriteTable(w)
  <2>1. PICK b \in {"groups", "users", "group_ip"} :
          At(w, b) /\ step'[w] = [groups |-> "group", users |-> "user", group_ip |-> "ip"][b]
    BY <1>a, <1>3 DEF WriteTable
  <2>2. UNCHANGED <<cur, row, request, users>>
    BY <1>3 DEF WriteTable
  <2>3. CASE b = "users"
    BY <2>1, <2>2, <2>3 DEF UserInv, Users, Found
  <2>4. CASE b # "users"
    BY <1>b, <2>1, <2>2, <2>4
  <2> QED
    BY <2>3, <2>4
<1>4. CASE QueryGroup(w)
  <2>1. PICK v : At(w, "group") /\ Query(w, v, "take")
    BY <1>4 DEF QueryGroup
  <2>2. UNCHANGED <<request, users>> /\ step'[w] \in {"take", "drop"}
    BY <1>a, <2>1, QueryEffect
  <2> QED
    BY <1>b, <2>2
<1>5. CASE TakeGroup(w)
  <2>1. /\ UNCHANGED <<cur, row, request, users>> /\ step'[w] \in {"users", "drop"}
        /\ step'[w] = "users" => Found(w)
    BY <1>a, <1>5 DEF TakeGroup
  <2> QED
    BY <2>1 DEF UserInv, Users, Found
<1>6. CASE QueryUser(w)
  <2> DEFINE found == UsersWith("users", request[w].id)
  <2>1. table[cur[w]] = "users" /\ step[w] = "user"
    BY <1>a, <1>6 DEF QueryUser, OnTable
  <2>2. PICK v : /\ Query(w, v, "check")
                 /\ (found = {} /\ v = <<>>) \/ \E n \in found : v = <<<<n>>>>
    BY <1>6, <2>1 DEF QueryUser
  <2>3. /\ UNCHANGED <<cur, request, users>> /\ cur[w] \in 1..N
        /\ \/ step'[w] = "check" /\ row'[cur[w]] = Fetch(v)
           \/ step'[w] \in {"check", "drop"} /\ row'[cur[w]] = row[cur[w]]
    BY <1>a, <2>1, <2>2, QueryEffect
  <2>4. Found(w)
    BY <2>1 DEF UserInv
  <2>5. ASSUME NEW n \in found, v = <<<<n>>>> PROVE Fetch(v) \notin {NoRow, <<>>}
    <3>1. n \in Names
      BY <1>a, <2>5 DEF UsersWith, TypeInv, ProvTypeOK, Tables
    <3>2. <<n>> \in Texts
      BY <3>1, TextsOfData
    <3>3. <<n>> \in Seq({n})
      OBVIOUS
    <3>4. Fetch(v) = <<n>>
      BY <2>5, <3>3, FetchOne
    <3> QED
      BY <3>2, <3>4, ProvisionAssumption
  <2>6. step'[w] = "check" /\ ~Found(w)' => found = {}
    BY <2>2, <2>3, <2>4, <2>5 DEF Found
  <2>7. found = {} => \A n \in DOMAIN Users : Users[n].id # request[w].id
    BY DEF UsersWith, Users
  <2> QED
    BY <2>3, <2>6, <2>7 DEF UserInv, Users
<1>7. CASE CheckUser(w)
  <2>1. /\ UNCHANGED <<cur, row, request, users>> /\ step[w] = "check" /\ step'[w] \in {"drop", "store"}
        /\ step'[w] = "store" => ~Found(w)
    BY <1>a, <1>7 DEF CheckUser
  <2> QED
    BY <2>1 DEF UserInv, Users, Found
<1>8. CASE StoreUser(w)
  <2>1. /\ step[w] = "store" /\ step'[w] \in {"fail", "stored"} /\ UNCHANGED request
        /\ users' = Upsert(w) \/ users' = users
    BY <1>a, <1>8 DEF StoreUser
  <2>2. table[cur[w]] = "users"
    BY <1>a, <2>1 DEF OnTable
  <2>3. \A n \in DOMAIN Users : Users[n].id # request[w].id
    BY <2>1 DEF UserInv
  <2>4. CASE users' = Upsert(w)
    <3>1. /\ DOMAIN Users' = DOMAIN Users \cup {request[w].name}
          /\ \A n \in DOMAIN Users' :
               Users'[n] = IF n = request[w].name THEN [id |-> request[w].id, group |-> text[w]]
                                                  ELSE Users[n]
      BY <1>a, <2>2, <2>4, UsersAfter
    <3>2. \A n \in DOMAIN Users' :
            Users'[n].id = IF n = request[w].name THEN request[w].id ELSE Users[n].id
      BY <3>1
    <3>3. \A m, n \in DOMAIN Users' : Users'[m].id = Users'[n].id => m = n
      BY <2>3, <3>1, <3>2 DEF UserInv
    <3> QED
      BY <2>1, <3>3 DEF UserInv
  <2>5. CASE users' = users
    BY <1>b, <2>1, <2>5
  <2> QED
    BY <2>1, <2>4, <2>5
<1>9. CASE QueryIp(w)
  <2>1. PICK v : At(w, "ip") /\ Query(w, v, "get")
    BY <1>9 DEF QueryIp
  <2>2. UNCHANGED <<request, users>> /\ step'[w] \in {"get", "drop"}
    BY <1>a, <2>1, QueryEffect
  <2> QED
    BY <1>b, <2>2
<1>10. CASE \/ FreeRow(w) \/ LeaveAddUser(w) \/ GetIp(w) \/ CopyIp(w) \/ ReadIp(w) \/ MarkIp(w)
            \/ LastRelease(w) \/ Answer(w)
  <2>1. UNCHANGED <<request, users>>
    BY <1>10 DEF FreeRow, LeaveAddUser, GetIp, CopyIp, ReadIp, MarkIp, LastRelease, Answer
  <2>2. step'[w] \notin {"users", "user", "check", "store"}
    BY <1>a, <1>10 DEF FreeRow, LeaveAddUser, GetIp, CopyIp, ReadIp, ReadByte, MarkIp, LastRelease, Answer
  <2> QED
    BY <1>b, <2>1, <2>2
<1> QED
  BY <1>1, <1>2, <1>3, <1>4, <1>5, <1>6, <1>7, <1>8, <1>9, <1>10 DEF Worker

\* UserInv is an invariant.
LEMMA UserHolds ==
  ASSUME NEW w, Threads = {w}
  PROVE  /\ Init => UserInv(w)
         /\ OneInv /\ UserInv(w) /\ [Next]_vars => UserInv(w)'
<1>1. ASSUME Init PROVE UserInv(w)
  <2>1. DOMAIN <<>> = {} /\ DOMAIN Users = {}
    BY <1>1 DEF Init, Users, Tables
  <2> QED
    BY <1>1, <2>1 DEF Init, UserInv
<1>2. ASSUME OneInv, UserInv(w), [Next]_vars PROVE UserInv(w)'
  <2>1. CASE UNCHANGED vars
    BY <1>2, <2>1 DEF UserInv, Users, Found, vars, poolVars, locals, sockVars, dbVars
  <2>2. CASE Restart
    BY <1>2, <2>2 DEF Restart, dbVars, UserInv, Users
  <2>3. CASE \E t \in Threads : Worker(t)
    BY <1>2, <2>3, WorkerUser
  <2> QED
    BY <1>2, <2>1, <2>2, <2>3, StepCases
<1> QED
  BY <1>1, <1>2

\* One thread stores no second user for an id, whichever call fails, with
\* whichever return, and wherever the server ends.
THEOREM UserPerId == Spec => []OneUserPerId
<1>1. CASE Cardinality(Threads) # 1
  <2>1. OneUserPerId
    BY <1>1 DEF OneUserPerId
  <2> QED
    BY <2>1, PTL
<1>2. CASE Cardinality(Threads) = 1
  <2>1. PICK w : Threads = {w}
    BY <1>2, SingleThread
  <2>2. Init => OneInv /\ UserInv(w)
    BY <2>1, InitOne, UserHolds
  <2>3. OneInv /\ UserInv(w) /\ [Next]_vars => (OneInv /\ UserInv(w))'
    BY <2>1, StepOne, UserHolds
  <2>4. UserInv(w) => OneUserPerId
    BY DEF UserInv, OneUserPerId
  <2> QED
    BY <2>2, <2>3, <2>4, PTL DEF Spec
<1> QED
  BY <1>1, <1>2
-----------------------------------------------------------------------------
(* Answers, with one thread *)

\* x is the beginning of a.
Begins(x, a) == Len(x) <= Len(a) /\ \A k \in 1..Len(x) : x[k] = a[k]

(***************************************************************************)
(* The buffer, which the one thread alone writes and reads: it has an      *)
(* address from the end of the copy to the answer, and what has been read  *)
(* of it is the beginning of that one.                                     *)
(***************************************************************************)
IpInv(w) ==
  /\ step[w] = "copy" => text[w] \in Range(Addresses) /\ \A k \in 1..done[w] : ipaddr[k] = text[w][k]
  /\ step[w] \in {"read", "mark", "marked", "done", "answer"} =>
       \E b \in Range(Addresses) :
         /\ Holds(b)
         /\ step[w] \in {"read", "answer"} => Begins(text[w], b)
         /\ step[w] = "mark" => text[w] = b

IpIInv(w) == OneInv /\ LeftInv /\ IpInv(w) /\ \A a \in answers : a.ip \in Range(Addresses)

\* A buffer has one text at a time.
LEMMA HoldsOne ==
  ASSUME NEW x \in Texts, NEW y \in Texts, NEW buf,
         \A k \in 1..Len(x) : buf[k] = x[k], buf[Len(x) + 1] = Nul,
         \A k \in 1..Len(y) : buf[k] = y[k], buf[Len(y) + 1] = Nul
  PROVE  x = y
<1>1. /\ x \in Seq(Parts) /\ Len(x) \in Nat /\ DOMAIN x = 1..Len(x)
      /\ y \in Seq(Parts) /\ Len(y) \in Nat /\ DOMAIN y = 1..Len(y)
      /\ \A k \in 1..Len(x) : x[k] # Nul
      /\ \A k \in 1..Len(y) : y[k] # Nul
  BY TextFacts, TextsOfData
<1>2. ~(Len(x) < Len(y))
  <2> SUFFICES ASSUME Len(x) < Len(y) PROVE FALSE
    OBVIOUS
  <2>1. Len(x) + 1 \in 1..Len(y)
    BY <1>1
  <2> QED
    BY <1>1, <2>1
<1>3. ~(Len(y) < Len(x))
  <2> SUFFICES ASSUME Len(y) < Len(x) PROVE FALSE
    OBVIOUS
  <2>1. Len(y) + 1 \in 1..Len(x)
    BY <1>1
  <2> QED
    BY <1>1, <2>1
<1>4. Len(x) = Len(y)
  <2>1. Len(x) \in Nat /\ Len(y) \in Nat
    BY <1>1
  <2> QED
    BY <1>2, <1>3, <2>1
<1>5. \A k \in 1..Len(x) : x[k] = y[k]
  BY <1>4
<1> QED
  BY <1>1, <1>4, <1>5

\* What is read next of a text that the buffer has is its next byte, or at its end
\* there is none.
LEMMA ReadHeld ==
  ASSUME NEW b \in Texts, Holds(b), NEW t \in Threads, text[t] \in Texts, Begins(text[t], b)
  PROVE  /\ Byte(t) # Nul => Begins(Append(text[t], Byte(t)), b)
         /\ Byte(t) = Nul => text[t] = b
<1>1. PICK x \in Texts : x = text[t]
  OBVIOUS
<1>2. /\ x \in Seq(Parts) /\ Len(x) \in Nat /\ DOMAIN x = 1..Len(x)
      /\ b \in Seq(Parts) /\ Len(b) \in Nat /\ DOMAIN b = 1..Len(b)
      /\ \A k \in 1..Len(b) : b[k] # Nul
      /\ Begins(x, b) /\ Byte(t) = ipaddr[Len(x) + 1]
  BY <1>1, TextFacts, TextsOfData DEF Byte
<1>3. CASE Len(x) = Len(b)
  <2>1. Byte(t) = Nul
    BY <1>2, <1>3 DEF Holds
  <2>2. \A k \in 1..Len(x) : x[k] = b[k]
    BY <1>2 DEF Begins
  <2> QED
    BY <1>1, <1>2, <1>3, <2>1, <2>2
<1>4. CASE Len(x) < Len(b)
  <2>1. Len(x) + 1 \in 1..Len(b)
    BY <1>2, <1>4
  <2>2. Byte(t) = b[Len(x) + 1] /\ Byte(t) # Nul
    BY <1>2, <2>1 DEF Holds
  <2>3. PICK y : y = Byte(t)
    OBVIOUS
  <2>4. /\ Len(Append(x, y)) = Len(x) + 1
        /\ \A k \in 1..(Len(x) + 1) : Append(x, y)[k] = IF k = Len(x) + 1 THEN y ELSE x[k]
    BY <1>2
  <2>5. \A k \in 1..(Len(x) + 1) : Append(x, y)[k] = b[k]
    BY <1>2, <2>2, <2>3, <2>4 DEF Begins
  <2> QED
    BY <1>1, <2>1, <2>2, <2>3, <2>4, <2>5 DEF Begins
<1>5. Len(x) <= Len(b) /\ Len(x) \in Nat /\ Len(b) \in Nat
  BY <1>2 DEF Begins
<1> QED
  BY <1>3, <1>4, <1>5

\* A step of the copy, and what it leaves in the buffer at its end.
LEMMA CopyHeld ==
  ASSUME OneInv, NEW w, Threads = {w}, IpInv(w), CopyIp(w)
  PROVE  /\ UNCHANGED <<poolVars, request, sockVars, dbVars>>
         /\ \/ step'[w] = "copy" /\ text'[w] = text[w] /\ IpInv(w)'
            \/ /\ step'[w] = "read" /\ text'[w] = <<>>
               /\ \E x \in Range(Addresses) : x = text[w] /\ Holds(x)'
<1>1. /\ step \in [{w} -> Steps] /\ text \in [{w} -> Texts] /\ done \in [{w} -> 0..Width]
      /\ ipaddr \in [1..Width -> Parts \cup {Nul}] /\ Width \in Nat
  BY OneThreadTypes, ProvisionAssumption DEF OneInv, QuietInv, TypeInv, ProvTypeOK
<1>2. PICK x \in Texts : x = text[w]
  BY <1>1
<1>3. Len(x) \in Nat /\ Len(x) < Width /\ DOMAIN x = 1..Len(x)
  BY TextFacts
<1>4. /\ step[w] = "copy" /\ x \in Range(Addresses) /\ \A k \in 1..done[w] : ipaddr[k] = x[k]
      /\ UNCHANGED <<poolVars, request, sockVars, dbVars>>
  BY <1>2 DEF CopyIp, At, IpInv
<1>5. CASE /\ done[w] < Len(x)
           /\ ipaddr' = [ipaddr EXCEPT ![done[w] + 1] = x[done[w] + 1]]
           /\ done' = [done EXCEPT ![w] = @ + 1]
           /\ UNCHANGED <<step, text>>
  <2>1. done[w] \in Nat /\ done[w] + 1 \in 1..Width /\ done'[w] = done[w] + 1
    BY <1>1, <1>3, <1>5
  <2>2. \A k \in 1..Width : ipaddr'[k] = IF k = done[w] + 1 THEN x[k] ELSE ipaddr[k]
    BY <1>1, <1>5
  <2>3. \A k \in 1..(done[w] + 1) : ipaddr'[k] = x[k]
    BY <1>1, <1>4, <2>1, <2>2
  <2> QED
    BY <1>2, <1>4, <1>5, <2>1, <2>3 DEF IpInv
<1>6. CASE /\ done[w] = Len(x)
           /\ ipaddr' = [ipaddr EXCEPT ![done[w] + 1] = Nul]
           /\ SetText(w, <<>>)
           /\ GoTo(w, "read")
  <2>1. \A k \in 1..Width : ipaddr'[k] = IF k = Len(x) + 1 THEN Nul ELSE ipaddr[k]
    BY <1>1, <1>6
  <2>2. (\A k \in 1..Len(x) : ipaddr'[k] = x[k]) /\ ipaddr'[Len(x) + 1] = Nul
    <3>1. Len(x) + 1 \in 1..Width /\ \A k \in 1..Len(x) : k \in 1..Width /\ k # Len(x) + 1
      BY <1>1, <1>3
    <3>2. \A k \in 1..Len(x) : ipaddr[k] = x[k]
      BY <1>4, <1>6
    <3> QED
      BY <2>1, <3>1, <3>2
  <2>3. step'[w] = "read" /\ text'[w] = <<>>
    BY <1>1, <1>6 DEF GoTo, SetText
  <2>4. Holds(x)'
    BY <2>2 DEF Holds
  <2> QED
    BY <1>2, <1>4, <2>3, <2>4
<1> QED
  BY <1>2, <1>5, <1>6 DEF CopyIp

\* Every step of the one thread keeps the invariant.
LEMMA WorkerIp ==
  ASSUME EqualLengths, NEW w, Threads = {w}, IpIInv(w), Worker(w)
  PROVE  LeftInv' /\ IpInv(w)' /\ \A a \in answers' : a.ip \in Range(Addresses)
<1>a. /\ step \in [{w} -> Steps] /\ text \in [{w} -> Texts] /\ TypeInv /\ Where
      /\ QuietInv /\ ~shared /\ OneInv /\ LeftInv /\ IpInv(w) /\ w \in Threads
      /\ \A a \in answers : a.ip \in Range(Addresses)
  BY OneThreadTypes DEF IpIInv
<1>b. LeftInv'
  BY <1>a, WorkerLeft
<1>c. ASSUME UNCHANGED ipaddr
      PROVE  \A b \in Range(Addresses) : Holds(b) => Holds(b)'
  BY <1>c DEF Holds
<1>d. ASSUME UNCHANGED answers
      PROVE  \A a \in answers' : a.ip \in Range(Addresses)
  BY <1>a, <1>d
<1>e. \A b \in Range(Addresses) : b \in Texts
  BY AddressIsText
<1> USE DEF At, GoTo, SetText, poolVars, locals, dbVars
<1>1. CASE GetSocket(w)
  <2>1. UNCHANGED <<step, answers>> /\ step[w] \in {"groups", "group_ip"}
    BY <1>a, <1>1 DEF GetSocket, Where, Pool!Busy, Pool!Grab, Pool!ConnectOk,
                      Pool!ConnectFails, Pool!NoHandle
  <2> QED
    BY <1>b, <1>d, <2>1 DEF IpInv
<1>2. CASE \/ Deal(w) \/ WriteTable(w) \/ QueryGroup(w) \/ TakeGroup(w) \/ QueryUser(w)
           \/ CheckUser(w) \/ StoreUser(w) \/ LeaveAddUser(w) \/ QueryIp(w)
  <2>1. UNCHANGED answers
    BY <1>2 DEF Deal, WriteTable, QueryGroup, TakeGroup, QueryUser, CheckUser, StoreUser,
                LeaveAddUser, QueryIp, Query
  <2>2. step'[w] \notin {"copy", "read", "mark", "marked", "done", "answer"}
    <3>1. CASE Deal(w) \/ TakeGroup(w) \/ CheckUser(w) \/ StoreUser(w) \/ LeaveAddUser(w)
      BY <1>a, <3>1 DEF Deal, TakeGroup, CheckUser, StoreUser, LeaveAddUser
    <3>2. CASE WriteTable(w)
      BY <1>a, <3>2 DEF WriteTable
    <3>3. ASSUME NEW v, NEW s \in {"take", "check", "get"}, Query(w, v, s)
          PROVE  step'[w] \in {s, "drop"}
      BY <1>a, <3>3 DEF Query
    <3>4. CASE QueryGroup(w) \/ QueryUser(w) \/ QueryIp(w)
      BY <3>3, <3>4 DEF QueryGroup, QueryUser, QueryIp
    <3> QED
      BY <1>2, <3>1, <3>2, <3>4
  <2> QED
    BY <1>b, <1>d, <2>1, <2>2 DEF IpInv
<1>3. CASE FreeRow(w)
  <2>1. UNCHANGED <<ipaddr, answers>>
    BY <1>3 DEF FreeRow
  <2>2. \/ step[w] = "marked" /\ step'[w] = "done"
        \/ step'[w] \in {"fail", "freed"}
    BY <1>a, <1>3 DEF FreeRow
  <2> QED
    BY <1>a, <1>b, <1>c, <1>d, <2>1, <2>2 DEF IpInv
<1>4. CASE GetIp(w)
  <2>1. UNCHANGED <<ipaddr, answers, done>> /\ step[w] = "get" /\ step'[w] \in {"copy", "drop"}
    BY <1>a, <1>4 DEF GetIp
  <2>2. done[w] = 0
    BY <1>a, <2>1 DEF Where
  <2>3. step'[w] = "copy" => text'[w] \in Range(Addresses)
    BY <1>a, <1>4, GetsAddress
  <2> QED
    BY <1>b, <1>d, <2>1, <2>2, <2>3 DEF IpInv
<1>5. CASE CopyIp(w)
  <2>1. /\ UNCHANGED answers
        /\ \/ step'[w] = "copy" /\ text'[w] = text[w] /\ IpInv(w)'
           \/ /\ step'[w] = "read" /\ text'[w] = <<>>
              /\ \E x \in Range(Addresses) : x = text[w] /\ Holds(x)'
    BY <1>a, <1>5, CopyHeld
  <2>2. \A x \in Range(Addresses) : Begins(<<>>, x)
    BY <1>e, TextFacts DEF Begins
  <2>3. IpInv(w)'
    BY <2>1, <2>2 DEF IpInv
  <2> QED
    BY <1>b, <1>d, <2>1, <2>3
<1>6. CASE ReadIp(w)
  <2>1. UNCHANGED <<ipaddr, answers>> /\ step[w] = "read"
    BY <1>6 DEF ReadIp
  <2>2. PICK b \in Range(Addresses) : Holds(b) /\ Begins(text[w], b)
    BY <1>a, <2>1 DEF IpInv
  <2>3. /\ Byte(w) # Nul => Begins(Append(text[w], Byte(w)), b)
        /\ Byte(w) = Nul => text[w] = b
    BY <1>a, <1>e, <2>2, ReadHeld
  <2>4. Holds(b)'
    BY <1>c, <2>1, <2>2
  <2>5. CASE ReadByte(w)
    <3>1. step'[w] = "read" /\ Begins(text'[w], b)
      BY <1>a, <2>1, <2>3, <2>5 DEF ReadByte
    <3> QED
      BY <1>b, <1>d, <2>1, <2>4, <3>1 DEF IpInv
  <2>6. CASE Byte(w) = Nul /\ step'[w] = "mark" /\ UNCHANGED text
    BY <1>b, <1>d, <2>1, <2>3, <2>4, <2>6 DEF IpInv
  <2> QED
    BY <1>a, <1>6, <2>5, <2>6 DEF ReadIp
<1>7. CASE MarkIp(w)
  <2>1. UNCHANGED <<ipaddr, answers>> /\ step[w] = "mark" /\ step'[w] \in {"fail", "marked"}
    BY <1>a, <1>7 DEF MarkIp
  <2> QED
    BY <1>a, <1>b, <1>c, <1>d, <2>1 DEF IpInv
<1>8. CASE LastRelease(w)
  <2>1. UNCHANGED <<ipaddr, answers>> /\ text'[w] = <<>>
    BY <1>a, <1>8 DEF LastRelease
  <2>2. \/ step'[w] = "none"
        \/ step[w] = "done" /\ step'[w] = "answer"
    BY <1>a, <1>8 DEF LastRelease
  <2>3. \A x \in Range(Addresses) : Begins(<<>>, x)
    BY <1>e, TextFacts DEF Begins
  <2> QED
    BY <1>a, <1>b, <1>c, <1>d, <2>1, <2>2, <2>3 DEF IpInv
<1>9. CASE Answer(w)
  <2>1. UNCHANGED ipaddr /\ step[w] = "answer"
    BY <1>9 DEF Answer
  <2>2. PICK b \in Range(Addresses) : Holds(b) /\ Begins(text[w], b)
    BY <1>a, <2>1 DEF IpInv
  <2>3. /\ Byte(w) # Nul => Begins(Append(text[w], Byte(w)), b)
        /\ Byte(w) = Nul => text[w] = b
    BY <1>a, <1>e, <2>2, ReadHeld
  <2>4. Holds(b)'
    BY <1>c, <2>1, <2>2
  <2>5. CASE ReadByte(w) /\ UNCHANGED answers
    <3>1. step'[w] = "answer" /\ Begins(text'[w], b)
      BY <1>a, <2>1, <2>3, <2>5 DEF ReadByte
    <3> QED
      BY <1>b, <1>d, <2>4, <2>5, <3>1 DEF IpInv
  <2>6. CASE /\ Byte(w) = Nul /\ step'[w] = "none"
             /\ answers' = answers \cup {[id |-> request[w].id, ip |-> text[w]]}
    <3>1. \A a \in answers' : a.ip \in Range(Addresses)
      BY <1>a, <2>2, <2>3, <2>6
    <3> QED
      BY <1>b, <2>6, <3>1 DEF IpInv
  <2> QED
    BY <1>a, <1>9, <2>5, <2>6 DEF Answer
<1> QED
  BY <1>1, <1>2, <1>3, <1>4, <1>5, <1>6, <1>7, <1>8, <1>9 DEF Worker

\* IpIInv is an invariant.
LEMMA IpHolds ==
  ASSUME EqualLengths, NEW w, Threads = {w}
  PROVE  /\ Init => IpIInv(w)
         /\ IpIInv(w) /\ [Next]_vars => IpIInv(w)'
<1>1. ASSUME Init PROVE IpIInv(w)
  <2>1. LeftInv /\ IpInv(w) /\ answers = {}
    BY <1>1 DEF Init, LeftInv, Plain, IpInv
  <2> QED
    BY <1>1, <2>1, InitOne DEF IpIInv
<1>2. ASSUME IpIInv(w), [Next]_vars PROVE IpIInv(w)'
  <2>1. OneInv'
    BY <1>2, StepOne DEF IpIInv
  <2>2. CASE UNCHANGED vars
    BY <1>2, <2>1, <2>2 DEF IpIInv, LeftInv, IpInv, Holds, vars, poolVars, locals, sockVars, dbVars
  <2>3. CASE Restart
    BY <1>2, <2>1, <2>3 DEF Restart, dbVars, IpIInv, LeftInv, Plain, IpInv
  <2>4. CASE \E t \in Threads : Worker(t)
    BY <1>2, <2>1, <2>4, WorkerIp DEF IpIInv
  <2> QED
    BY <1>2, <2>2, <2>3, <2>4, StepCases
<1> QED
  BY <1>1, <1>2

\* With addresses of equal length one thread answers addresses of group_ip,
\* whichever calls fail, with whichever return, and in whatever rows they leave
\* behind.
THEOREM AddressAnswered ==
  ASSUME EqualLengths
  PROVE  Spec => []AnswerIsAddress
<1>1. CASE Cardinality(Threads) # 1
  <2>1. AnswerIsAddress
    BY <1>1 DEF AnswerIsAddress
  <2> QED
    BY <2>1, PTL
<1>2. CASE Cardinality(Threads) = 1
  <2>1. PICK w : Threads = {w}
    BY <1>2, SingleThread
  <2>2. Init => IpIInv(w)
    BY <2>1, IpHolds
  <2>3. IpIInv(w) /\ [Next]_vars => IpIInv(w)'
    BY <2>1, IpHolds
  <2>4. IpIInv(w) => AnswerIsAddress
    BY DEF IpIInv, AnswerIsAddress
  <2> QED
    BY <2>2, <2>3, <2>4, PTL DEF Spec
<1> QED
  BY <1>1, <1>2
-----------------------------------------------------------------------------
(* Leases, with one thread *)

\* What they rest on: no update finds the database gone, clients have names of
\* their own, and addresses are of equal length.
LeaseAssumption ==
  /\ "exec_down" \notin Faults
  /\ \A p, q \in Requests : p.name = q.name => p.id = q.id
  /\ EqualLengths

(***************************************************************************)
(* The sockets as the one thread finds them: it holds the only lock there  *)
(* is, gets past a socket only when it cannot connect it, and so comes in  *)
(* AllocIp to the socket of AddUser, the row of which AddUser has freed,   *)
(* or to one that was never connected before and never had a row.          *)
(***************************************************************************)
SocketInv(w) ==
  /\ \A s \in 1..N : locked[s] => cur[w] = s /\ pc[w] \in {"connect", "use"}
  /\ \A s \in 1..N : ~connected[s] => row[s] = NoRow
  /\ pc[w] \in {"use", "again"} => connected[cur[w]]
  /\ pc[w] = "connect" => ~connected[cur[w]]
  /\ pc[w] # "idle" => \A s \in 1..N : s < cur[w] => ~connected[s]
  /\ step[w] = "freed" => row[cur[w]] = NoRow
  /\ step[w] \in {"group_ip", "ip"} =>
       \E m \in 1..N : /\ cur[w] <= m /\ connected[m] /\ row[m] = NoRow
                       /\ \A s \in 1..N : s < m => row[s] = NoRow

\* The user of the request is stored.
Stored == {"stored", "free", "freed", "group_ip", "ip", "get", "copy", "read", "mark", "marked",
           "done", "answer"}

(***************************************************************************)
(* The data: a request that comes as far as "store" has no answer yet and  *)
(* no user, and from then on has a user; the address on its way to the     *)
(* answer is free until it is marked, and is in no answer.                 *)
(***************************************************************************)
UserData(w) ==
  /\ \A n \in DOMAIN Users : \A q \in Requests : q.name = n => Users[n].id = q.id
  /\ \A a \in answers : a.ip \in marks /\ \E n \in DOMAIN Users : Users[n].id = a.id
  /\ \A a, b \in answers : a.id = b.id => a = b
  /\ step[w] \in Stored => request[w].name \in DOMAIN Users
  /\ step[w] \in Stored \cup {"store"} => \A a \in answers : a.id # request[w].id

AddressData(w) ==
  /\ step[w] = "get" /\ Found(w) => row[cur[w]] \notin marks
  /\ step[w] = "copy" => text[w] \notin marks
  /\ step[w] \in {"read", "mark"} => \A b \in Range(Addresses) : Holds(b) => b \notin marks
  /\ step[w] \in {"marked", "done", "answer"} =>
       \A b \in Range(Addresses) : Holds(b) => b \in marks /\ \A a \in answers : a.ip # b

LeaseInv(w) == IpIInv(w) /\ UserInv(w) /\ SocketInv(w) /\ UserData(w) /\ AddressData(w)

\* Every step of the thread keeps what is known of the sockets.
LEMMA WorkerSocket ==
  ASSUME OneInv, NEW w, Threads = {w}, SocketInv(w), Worker(w)
  PROVE  SocketInv(w)'
<1>a. /\ step \in [{w} -> Steps] /\ pc \in [{w} -> Pool!PCs] /\ cur \in [{w} -> 0..(N + 1)]
      /\ row \in [1..N -> Texts \cup {NoRow}]
      /\ locked \in [1..N -> BOOLEAN] /\ connected \in [1..N -> BOOLEAN]
      /\ N \in Nat /\ Where /\ TypeInv /\ OnTable(w)
  BY OneThreadTypes
<1> USE DEF At, GoTo, SetRow
<1>b. ASSUME UNCHANGED poolVars, step'[w] \notin {"freed", "group_ip", "ip"}, pc[w] = "use",
             \A s \in 1..N : s # cur[w] => row'[s] = row[s]
      PROVE  SocketInv(w)'
  BY <1>a, <1>b DEF poolVars, SocketInv
<1>1. CASE Deal(w)
  BY <1>a, <1>1 DEF Deal, Pool!DealMsg, Pool!Enter, sockVars, SocketInv, Where
<1>2. CASE GetSocket(w)
  <2> USE DEF SocketInv, Where
  <2>1. UNCHANGED <<step, row>>
    BY <1>2 DEF GetSocket, sockVars
  <2>2. CASE Pool!Busy(w)
    BY <1>a, <2>1, <2>2 DEF Pool!Busy, Pool!Sockets
  <2>3. CASE Pool!Grab(w)
    BY <1>a, <2>1, <2>3 DEF Pool!Grab, Pool!Sockets
  <2>4. CASE Pool!ConnectOk(w)
    BY <1>a, <2>1, <2>4 DEF Pool!ConnectOk
  <2>5. CASE Pool!ConnectFails(w)
    <3>1. /\ pc[w] = "connect" /\ pc'[w] = "scan" /\ cur'[w] = cur[w] + 1
          /\ cur[w] \in 1..N /\ UNCHANGED <<step, row, connected>>
          /\ locked' = [locked EXCEPT ![cur[w]] = FALSE]
      BY <1>a, <2>1, <2>5 DEF Pool!ConnectFails, Pool!Unlock
    <3>2. \A s \in 1..N : ~locked'[s]
      BY <1>a, <3>1
    <3>3. \A s \in 1..N : s < cur'[w] => ~connected[s]
      BY <1>a, <3>1
    <3>4. step[w] \in {"group_ip", "ip"} =>
            \E m \in 1..N : /\ cur'[w] <= m /\ connected[m] /\ row[m] = NoRow
                            /\ \A s \in 1..N : s < m => row[s] = NoRow
      <4>1. \A m \in 1..N : cur[w] <= m /\ connected[m] => cur[w] + 1 <= m
        BY <1>a, <3>1
      <4> QED
        BY <3>1, <4>1
    <3> QED
      BY <1>a, <3>1, <3>2, <3>3, <3>4
  <2>6. CASE Pool!NoHandle(w)
    BY <1>a, <2>1, <2>6 DEF Pool!NoHandle
  <2> QED
    BY <1>2, <2>2, <2>3, <2>4, <2>5, <2>6 DEF GetSocket
<1>3. CASE WriteTable(w)
  <2>1. PICK b \in {"groups", "users", "group_ip"} :
          At(w, b) /\ step'[w] = [groups |-> "group", users |-> "user", group_ip |-> "ip"][b]
    BY <1>a, <1>3 DEF WriteTable
  <2>2. UNCHANGED <<poolVars, row>>
    BY <1>3 DEF WriteTable
  <2>3. CASE b = "group_ip"
    BY <1>a, <2>1, <2>2, <2>3 DEF SocketInv, poolVars
  <2>4. CASE b # "group_ip"
    BY <1>b, <2>1, <2>2, <2>4
  <2> QED
    BY <2>3, <2>4
<1>4. CASE QueryGroup(w) \/ QueryUser(w) \/ QueryIp(w)
  <2>1. PICK v, s : Query(w, v, s) /\ At(w, step[w]) /\ step[w] \in {"group", "user", "ip"}
                      /\ s \in {"take", "check", "get"}
    BY <1>4 DEF QueryGroup, QueryUser, QueryIp
  <2>2. /\ UNCHANGED poolVars /\ step'[w] \in {s, "drop"}
        /\ \A o \in 1..N : o # cur[w] => row'[o] = row[o]
    BY <1>a, <2>1, QueryEffect
  <2> QED
    BY <1>b, <2>1, <2>2
<1>5. CASE TakeGroup(w) \/ CheckUser(w) \/ StoreUser(w) \/ GetIp(w) \/ CopyIp(w) \/ ReadIp(w) \/ MarkIp(w)
  <2>1. UNCHANGED <<poolVars, row>> /\ pc[w] = "use"
    BY <1>5 DEF TakeGroup, CheckUser, StoreUser, GetIp, CopyIp, ReadIp, MarkIp, sockVars
  <2>2. step'[w] \notin {"freed", "group_ip", "ip"}
    BY <1>a, <1>5 DEF TakeGroup, CheckUser, StoreUser, GetIp, CopyIp, ReadIp, ReadByte, MarkIp
  <2> QED
    BY <1>b, <2>1, <2>2
<1>6. CASE FreeRow(w)
  <2>1. /\ UNCHANGED poolVars /\ row' = [row EXCEPT ![cur[w]] = NoRow]
        /\ \/ pc[w] = "use" /\ step'[w] \in {"fail", "done"}
           \/ step[w] = "free" /\ step'[w] = "freed"
    BY <1>a, <1>6 DEF FreeRow, FreeResult
  <2>2. CASE pc[w] = "use" /\ step'[w] \in {"fail", "done"}
    BY <1>a, <1>b, <2>1, <2>2
  <2>3. CASE step[w] = "free" /\ step'[w] = "freed"
    BY <1>a, <2>1, <2>3 DEF SocketInv, Where, poolVars
  <2> QED
    BY <2>1, <2>2, <2>3
<1>7. CASE LeaveAddUser(w)
  <2>1. CASE At(w, "stored") /\ Pool!AddUserRelease(w) /\ GoTo(w, "free") /\ UNCHANGED row
    BY <1>a, <2>1 DEF Pool!AddUserRelease, Pool!Unlock, SocketInv, Where
  <2>2. CASE step[w] = "freed" /\ Pool!AddUserReleaseAgain(w) /\ GoTo(w, "group_ip") /\ UNCHANGED row
    BY <1>a, <2>2 DEF Pool!AddUserReleaseAgain, Pool!Unlock, Pool!Enter, SocketInv, Where
  <2> QED
    BY <1>7, <2>1, <2>2 DEF LeaveAddUser, sockVars
<1>8. CASE LastRelease(w)
  BY <1>a, <1>8 DEF LastRelease, Pool!Release, Pool!Unlock, Pool!Leave, sockVars, SocketInv, Where
<1>9. CASE Answer(w)
  <2>1. UNCHANGED <<poolVars, row>> /\ pc[w] = "idle" /\ step'[w] \in {"answer", "none"}
    BY <1>a, <1>9 DEF Answer, ReadByte, sockVars, Where
  <2> QED
    BY <1>a, <2>1 DEF SocketInv, poolVars
<1> QED
  BY <1>1, <1>2, <1>3, <1>4, <1>5, <1>6, <1>7, <1>8, <1>9 DEF Worker

\* Every step of the thread keeps what is known of users and answers.
LEMMA WorkerUserData ==
  ASSUME LeaseAssumption, NEW w, Threads = {w}, LeaseInv(w), UserInv(w)', Worker(w)
  PROVE  UserData(w)'
<1>a. /\ step \in [{w} -> Steps] /\ text \in [{w} -> Texts]
      /\ request \in [{w} -> Requests \cup {NoRequest}]
      /\ TypeInv /\ Where /\ OnTable(w) /\ OneInv /\ IpInv(w) /\ DOMAIN users = Tables
      /\ UserData(w) /\ UserInv(w) /\ AddressData(w)
  BY OneThreadTypes DEF LeaseInv, IpIInv
<1>b. \A r \in Exec : r.ret # -1 => r.done
  BY DEF Exec, LeaseAssumption
<1>c. ASSUME UNCHANGED <<request, users, answers>>, marks \subseteq marks',
             step'[w] \in Stored => step[w] \in Stored, step'[w] = "store" => step[w] = "store"
      PROVE  UserData(w)'
  BY <1>a, <1>c DEF UserData, Users, Stored
<1> USE DEF At, GoTo, poolVars, locals, dbVars
<1>1. CASE GetSocket(w)
  BY <1>c, <1>1 DEF GetSocket
<1>2. CASE Deal(w)
  BY <1>a, <1>2 DEF Deal, UserData, Users, Stored
<1>3. CASE WriteTable(w)
  <2>1. PICK b \in {"groups", "users", "group_ip"} :
          At(w, b) /\ step'[w] = [groups |-> "group", users |-> "user", group_ip |-> "ip"][b]
    BY <1>a, <1>3 DEF WriteTable
  <2>2. UNCHANGED <<request, users, marks, answers>>
    BY <1>3 DEF WriteTable
  <2>3. step'[w] \in {"group", "user"} \/ (step[w] = "group_ip" /\ step'[w] = "ip")
    BY <2>1
  <2> QED
    BY <1>c, <2>2, <2>3 DEF Stored
<1>4. CASE QueryGroup(w) \/ QueryUser(w) \/ QueryIp(w)
  <2>1. PICK v, s : Query(w, v, s) /\ \/ step[w] = "ip" /\ s = "get"
                                      \/ step[w] \in {"group", "user"} /\ s \in {"take", "check"}
    BY <1>4 DEF QueryGroup, QueryUser, QueryIp
  <2>2. UNCHANGED <<request, users, marks, answers>> /\ step'[w] \in {s, "drop"}
    BY <1>a, <2>1, QueryEffect
  <2> QED
    BY <1>c, <2>1, <2>2 DEF Stored
<1>5. CASE TakeGroup(w) \/ FreeRow(w) \/ LeaveAddUser(w) \/ GetIp(w) \/ CopyIp(w) \/ ReadIp(w) \/ LastRelease(w)
  <2>1. UNCHANGED <<request, users, marks, answers>>
    BY <1>5 DEF TakeGroup, FreeRow, LeaveAddUser, GetIp, CopyIp, ReadIp, LastRelease
  <2>2. step'[w] \in Stored => step[w] \in Stored
    BY <1>a, <1>5 DEF TakeGroup, FreeRow, LeaveAddUser, GetIp, CopyIp, ReadIp, ReadByte, LastRelease, Stored
  <2>3. step'[w] # "store"
    BY <1>a, <1>5 DEF TakeGroup, FreeRow, LeaveAddUser, GetIp, CopyIp, ReadIp, ReadByte, LastRelease
  <2> QED
    BY <1>c, <2>1, <2>2, <2>3
<1>6. CASE CheckUser(w)
  <2>1. /\ UNCHANGED <<request, users, marks, answers>> /\ step'[w] \in {"drop", "store"}
    BY <1>a, <1>6 DEF CheckUser
  <2>2. step'[w] = "store" => \A n \in DOMAIN Users : Users[n].id # request[w].id
    BY <2>1 DEF UserInv, Users
  <2> QED
    BY <1>a, <2>1, <2>2 DEF UserData, Users, Stored
<1>7. CASE StoreUser(w)
  <2>1. /\ UNCHANGED <<request, marks, answers>> /\ step[w] = "store"
        /\ step'[w] \in {"stored", "fail"}
        /\ users' = Upsert(w) \/ users' = users
        /\ step'[w] = "stored" => users' = Upsert(w)
    BY <1>a, <1>b, <1>7 DEF StoreUser
  <2>2. request[w] \in Requests /\ table[cur[w]] = "users"
    BY <1>a, <2>1 DEF Where, OnTable
  <2>3. CASE users' = users /\ step'[w] = "fail"
    BY <1>a, <2>1, <2>3 DEF UserData, Users, Stored
  <2>4. CASE users' = Upsert(w)
    <3>1. /\ DOMAIN Users' = DOMAIN Users \cup {request[w].name}
          /\ \A n \in DOMAIN Users' :
               Users'[n] = IF n = request[w].name THEN [id |-> request[w].id, group |-> text[w]]
                                                  ELSE Users[n]
      BY <1>a, <2>2, <2>4, UsersAfter
    <3>2. \A n \in DOMAIN Users' :
            Users'[n].id = IF n = request[w].name THEN request[w].id ELSE Users[n].id
      BY <3>1
    <3>3. \A n \in DOMAIN Users' : \A q \in Requests : q.name = n => Users'[n].id = q.id
      BY <1>a, <2>2, <3>1, <3>2 DEF LeaseAssumption, UserData
    <3>4. \A n \in DOMAIN Users : n \in DOMAIN Users' /\ Users'[n].id = Users[n].id
      BY <1>a, <2>2, <3>1, <3>2 DEF UserData
    <3>5. \A a \in answers : a.ip \in marks /\ \E n \in DOMAIN Users' : Users'[n].id = a.id
      BY <1>a, <3>4 DEF UserData
    <3>6. /\ \A a, b \in answers : a.id = b.id => a = b
          /\ \A a \in answers : a.id # request[w].id
      BY <1>a, <2>1 DEF UserData
    <3> QED
      BY <2>1, <3>1, <3>3, <3>5, <3>6 DEF UserData
  <2> QED
    BY <2>1, <2>3, <2>4
<1>8. CASE MarkIp(w)
  <2>1. /\ UNCHANGED <<request, users, answers>> /\ step[w] = "mark"
        /\ step'[w] \in {"marked", "fail"} /\ marks \subseteq marks'
    BY <1>a, <1>8 DEF MarkIp
  <2> QED
    BY <1>c, <2>1 DEF Stored
<1>9. CASE Answer(w)
  <2>1. UNCHANGED <<request, users, marks>> /\ step[w] = "answer"
    BY <1>9 DEF Answer
  <2>2. CASE ReadByte(w) /\ UNCHANGED answers
    BY <1>c, <2>1, <2>2 DEF ReadByte
  <2>3. CASE /\ Byte(w) = Nul /\ step'[w] = "none"
             /\ answers' = answers \cup {[id |-> request[w].id, ip |-> text[w]]}
    <3>1. PICK b \in Range(Addresses) : Holds(b) /\ Begins(text[w], b)
      BY <1>a, <2>1 DEF IpInv
    <3>2. text[w] = b
      BY <1>a, <2>3, <3>1, AddressIsText, ReadHeld
    <3>3. text[w] \in marks
      BY <1>a, <2>1, <3>1, <3>2 DEF AddressData
    <3>4. request[w] \in Requests /\ request[w].name \in DOMAIN Users
      BY <1>a, <2>1 DEF Where, UserData, Stored
    <3>5. Users[request[w].name].id = request[w].id
      BY <1>a, <3>4 DEF UserData
    <3>6. \A a \in answers : a.id # request[w].id
      BY <1>a, <2>1 DEF UserData, Stored
    <3>7. \A a \in answers' : a.ip \in marks /\ \E n \in DOMAIN Users : Users[n].id = a.id
      BY <1>a, <2>3, <3>3, <3>4, <3>5 DEF UserData
    <3>8. \A a, b2 \in answers' : a.id = b2.id => a = b2
      BY <1>a, <2>3, <3>6 DEF UserData
    <3> QED
      BY <1>a, <2>1, <2>3, <3>7, <3>8 DEF UserData, Users, Stored
  <2> QED
    BY <1>a, <1>9, <2>2, <2>3 DEF Answer
<1> QED
  BY <1>1, <1>2, <1>3, <1>4, <1>5, <1>6, <1>7, <1>8, <1>9 DEF Worker

\* Every step of the thread keeps what is known of the address on its way.
LEMMA WorkerAddressData ==
  ASSUME LeaseAssumption, NEW w, Threads = {w}, LeaseInv(w), Worker(w)
  PROVE  AddressData(w)'
<1>a. /\ step \in [{w} -> Steps] /\ text \in [{w} -> Texts] /\ cur \in [{w} -> 0..(N + 1)]
      /\ row \in [1..N -> Texts \cup {NoRow}]
      /\ TypeInv /\ Where /\ OnTable(w) /\ OneInv /\ IpInv(w) /\ LeftInv
      /\ UserData(w) /\ SocketInv(w) /\ AddressData(w) /\ QuietInv /\ ~shared /\ w \in Threads
      /\ EqualLengths
  BY OneThreadTypes DEF LeaseInv, IpIInv, LeaseAssumption
<1>b. \A r \in Exec : r.ret # -1 => r.done
  BY DEF Exec, LeaseAssumption
<1>c. ASSUME step'[w] \notin {"get", "copy", "read", "mark", "marked", "done", "answer"}
      PROVE  AddressData(w)'
  BY <1>c DEF AddressData
<1>d. \A b \in Range(Addresses) : b \in Texts
  BY AddressIsText
<1> USE DEF At, GoTo, SetText, poolVars, locals, sockVars, dbVars
<1>1. CASE GetSocket(w)
  <2>1. UNCHANGED step /\ step[w] \in {"groups", "group_ip"}
    BY <1>a, <1>1 DEF GetSocket, Where, Pool!Busy, Pool!Grab, Pool!ConnectOk,
                      Pool!ConnectFails, Pool!NoHandle
  <2> QED
    BY <1>c, <2>1
<1>2. CASE \/ Deal(w) \/ WriteTable(w) \/ QueryGroup(w) \/ TakeGroup(w) \/ QueryUser(w)
           \/ CheckUser(w) \/ StoreUser(w) \/ LeaveAddUser(w)
  <2>1. CASE Deal(w) \/ TakeGroup(w) \/ CheckUser(w) \/ StoreUser(w) \/ LeaveAddUser(w)
    BY <1>a, <1>c, <2>1 DEF Deal, TakeGroup, CheckUser, StoreUser, LeaveAddUser
  <2>2. CASE WriteTable(w)
    BY <1>a, <1>c, <2>2 DEF WriteTable
  <2>3. ASSUME NEW v, NEW s \in {"take", "check"}, Query(w, v, s)
        PROVE  step'[w] \in {s, "drop"}
    BY <1>a, <2>3 DEF Query
  <2>4. CASE QueryGroup(w) \/ QueryUser(w)
    BY <1>c, <2>3, <2>4 DEF QueryGroup, QueryUser
  <2> QED
    BY <1>2, <2>1, <2>2, <2>4
<1>3. CASE QueryIp(w)
  <2>1. PICK v : v \in {FreeAddresses, <<>>} /\ Query(w, v, "get") /\ step[w] = "ip"
                   /\ (table[cur[w]] = "group_ip" => v = FreeAddresses)
    BY <1>3 DEF QueryIp
  <2>2. /\ UNCHANGED <<cur, marks>> /\ cur[w] \in 1..N
        /\ step'[w] \in {"get", "drop"}
        /\ row'[cur[w]] \in {Fetch(v), row[cur[w]]}
    BY <1>a, <2>1, QueryEffect
  <2>3. row[cur[w]] = NoRow
    <3>1. PICK m \in 1..N : /\ cur[w] <= m /\ row[m] = NoRow
                            /\ \A s \in 1..N : s < m => row[s] = NoRow
      BY <1>a, <2>1 DEF SocketInv
    <3> QED
      BY <2>2, <3>1
  <2>4. Fetch(v) # <<>> => Fetch(v) \notin marks
    BY <1>a, <2>1, FetchFree, FetchNone
  <2>5. Found(w)' => row'[cur[w]] \notin marks
    BY <2>2, <2>3, <2>4 DEF Found
  <2> QED
    BY <2>2, <2>5 DEF AddressData
<1>4. CASE FreeRow(w)
  <2>1. UNCHANGED <<ipaddr, marks, answers>>
    BY <1>4 DEF FreeRow
  <2>2. \/ step[w] = "marked" /\ step'[w] = "done"
        \/ step'[w] \in {"fail", "freed"}
    BY <1>a, <1>4 DEF FreeRow
  <2> QED
    BY <1>a, <1>c, <2>1, <2>2 DEF AddressData, Holds
<1>5. CASE GetIp(w)
  <2>1. UNCHANGED marks /\ step[w] = "get" /\ step'[w] \in {"copy", "drop"}
    BY <1>a, <1>5 DEF GetIp
  <2>2. step'[w] = "copy" => Found(w) /\ text'[w] \in RowText(w)
    BY <1>a, <1>5 DEF GetIp
  <2>3. RowText(w) = {row[cur[w]]}
    BY <1>a DEF RowText, Company
  <2> QED
    BY <1>a, <2>1, <2>2, <2>3 DEF AddressData
<1>6. CASE CopyIp(w)
  <2>1. /\ UNCHANGED marks /\ step[w] = "copy"
        /\ \/ step'[w] = "copy" /\ text'[w] = text[w]
           \/ /\ step'[w] = "read" /\ text'[w] = <<>>
              /\ \E x \in Range(Addresses) : x = text[w] /\ Holds(x)'
    BY <1>a, <1>6, CopyHeld DEF CopyIp
  <2>2. CASE step'[w] = "copy" /\ text'[w] = text[w]
    BY <1>a, <2>1, <2>2 DEF AddressData
  <2>3. CASE step'[w] = "read" /\ \E x \in Range(Addresses) : x = text[w] /\ Holds(x)'
    <3>1. PICK x \in Range(Addresses) : x = text[w] /\ Holds(x)'
      BY <2>3
    <3>2. x \notin marks
      BY <1>a, <2>1, <3>1 DEF AddressData
    <3>3. ASSUME NEW b \in Range(Addresses), Holds(b)' PROVE b = x
      BY <1>d, <3>1, <3>3, HoldsOne DEF Holds
    <3> QED
      BY <2>1, <2>3, <3>2, <3>3 DEF AddressData
  <2> QED
    BY <2>1, <2>2, <2>3
<1>7. CASE ReadIp(w)
  <2>1. /\ UNCHANGED <<ipaddr, marks>> /\ step[w] = "read" /\ step'[w] \in {"read", "mark"}
    BY <1>a, <1>7 DEF ReadIp, ReadByte
  <2> QED
    BY <1>a, <2>1 DEF AddressData, Holds
<1>8. CASE MarkIp(w)
  <2>1. /\ UNCHANGED <<ipaddr, answers>> /\ step[w] = "mark" /\ step'[w] \in {"marked", "fail"}
        /\ step'[w] = "marked" => marks' = marks \cup {text[w]}
    BY <1>a, <1>b, <1>8 DEF MarkIp, OnTable
  <2>2. PICK x \in Range(Addresses) : Holds(x) /\ text[w] = x
    BY <1>a, <2>1 DEF IpInv
  <2>3. x \notin marks
    BY <1>a, <2>1, <2>2 DEF AddressData
  <2>4. \A a \in answers : a.ip # x
    BY <1>a, <2>3 DEF UserData
  <2>5. ASSUME NEW b \in Range(Addresses), Holds(b) PROVE b = x
    BY <1>d, <2>2, <2>5, HoldsOne DEF Holds
  <2>6. \A b \in Range(Addresses) : Holds(b)' => b = x
    BY <2>1, <2>5 DEF Holds
  <2> QED
    BY <2>1, <2>2, <2>4, <2>6 DEF AddressData
<1>9. CASE LastRelease(w)
  <2>1. UNCHANGED <<ipaddr, marks, answers>>
    BY <1>9 DEF LastRelease
  <2>2. \/ step'[w] = "none"
        \/ step[w] = "done" /\ step'[w] = "answer"
    BY <1>a, <1>9 DEF LastRelease
  <2> QED
    BY <1>a, <1>c, <2>1, <2>2 DEF AddressData, Holds
<1>10. CASE Answer(w)
  <2>1. UNCHANGED <<ipaddr, marks>> /\ step[w] = "answer"
    BY <1>10 DEF Answer
  <2>2. \/ step'[w] = "none"
        \/ step'[w] = "answer" /\ UNCHANGED answers
    BY <1>a, <1>10, <2>1 DEF Answer, ReadByte
  <2> QED
    BY <1>a, <1>c, <2>1, <2>2 DEF AddressData, Holds
<1> QED
  BY <1>1, <1>2, <1>3, <1>4, <1>5, <1>6, <1>7, <1>8, <1>9, <1>10 DEF Worker

\* LeaseInv is an invariant.
LEMMA LeaseHolds ==
  ASSUME LeaseAssumption, NEW w, Threads = {w}
  PROVE  /\ Init => LeaseInv(w)
         /\ LeaseInv(w) /\ [Next]_vars => LeaseInv(w)'
<1>a. EqualLengths
  BY DEF LeaseAssumption
<1>1. ASSUME Init PROVE LeaseInv(w)
  <2>1. IpIInv(w) /\ UserInv(w)
    BY <1>a, <1>1, IpHolds, UserHolds
  <2>2. SocketInv(w)
    BY <1>1, ProvisionAssumption DEF Init, Pool!Init, Pool!Sockets, SocketInv
  <2>3. UserData(w) /\ AddressData(w)
    <3>1. DOMAIN <<>> = {} /\ DOMAIN Users = {}
      BY <1>1 DEF Init, Users, Tables
    <3> QED
      BY <1>1, <3>1 DEF Init, UserData, AddressData, Stored
  <2> QED
    BY <2>1, <2>2, <2>3 DEF LeaseInv
<1>2. ASSUME LeaseInv(w), [Next]_vars PROVE LeaseInv(w)'
  <2>1. IpIInv(w)' /\ UserInv(w)'
    BY <1>a, <1>2, IpHolds, UserHolds DEF LeaseInv, IpIInv
  <2>2. CASE UNCHANGED vars
    <3> USE DEF vars, poolVars, locals, sockVars, dbVars
    <3>1. SocketInv(w)'
      BY <1>2, <2>2 DEF LeaseInv, SocketInv
    <3>2. UserData(w)'
      BY <1>2, <2>2 DEF LeaseInv, UserData, Users, Stored
    <3>3. AddressData(w)'
      BY <1>2, <2>2 DEF LeaseInv, AddressData, Found, Holds
    <3> QED
      BY <2>1, <3>1, <3>2, <3>3 DEF LeaseInv
  <2>3. CASE Restart
    <3> USE DEF Restart, dbVars
    <3>1. SocketInv(w)'
      BY <2>3 DEF SocketInv
    <3>2. UserData(w)'
      BY <1>2, <2>3 DEF LeaseInv, UserData, Users, Stored
    <3>3. AddressData(w)'
      BY <2>3 DEF AddressData
    <3> QED
      BY <2>1, <3>1, <3>2, <3>3 DEF LeaseInv
  <2>4. CASE \E t \in Threads : Worker(t)
    <3>1. Worker(w)
      BY <2>4
    <3>2. SocketInv(w)'
      BY <1>2, <3>1, WorkerSocket DEF LeaseInv, IpIInv
    <3>3. UserData(w)' /\ AddressData(w)'
      BY <1>2, <2>1, <3>1, WorkerUserData, WorkerAddressData
    <3> QED
      BY <2>1, <3>2, <3>3 DEF LeaseInv
  <2> QED
    BY <1>2, <2>2, <2>3, <2>4, StepCases
<1> QED
  BY <1>1, <1>2

\* What one thread gives in LeaseInv, said of any threads by the properties.
LEMMA LeaseProperties ==
  ASSUME NEW w, Threads = {w}, LeaseInv(w)
  PROVE  AddressOnce /\ OneAddressPerId /\ AnswerHolds
<1>1. AddressOnce
  BY DEF LeaseInv, IpIInv, AddressData, AddressOnce
<1>2. OneAddressPerId /\ AnswerHolds
  BY DEF LeaseInv, UserData, OneAddressPerId, AnswerHolds
<1> QED
  BY <1>1, <1>2

\* The three properties are invariants: by LeaseInv with one thread, and for any
\* other number they say nothing.
LEMMA LeaseInvariants ==
  ASSUME LeaseAssumption
  PROVE  Spec => [](AddressOnce /\ OneAddressPerId /\ AnswerHolds)
<1>1. CASE Cardinality(Threads) # 1
  <2>1. AddressOnce /\ OneAddressPerId /\ AnswerHolds
    BY <1>1 DEF AddressOnce, OneAddressPerId, AnswerHolds
  <2> QED
    BY <2>1, PTL
<1>2. CASE Cardinality(Threads) = 1
  <2>1. PICK w : Threads = {w}
    BY <1>2, SingleThread
  <2>2. Init => LeaseInv(w)
    BY <2>1, LeaseHolds
  <2>3. LeaseInv(w) /\ [Next]_vars => LeaseInv(w)'
    BY <2>1, LeaseHolds
  <2>4. LeaseInv(w) => AddressOnce /\ OneAddressPerId /\ AnswerHolds
    BY <2>1, LeaseProperties
  <2> QED
    BY <2>2, <2>3, <2>4, PTL DEF Spec
<1> QED
  BY <1>1, <1>2

\* With one thread an address that is about to be answered was never answered
\* before, by this process or by one that ended anywhere.
THEOREM NoAddressTwice ==
  ASSUME LeaseAssumption
  PROVE  Spec => []AddressOnce
BY LeaseInvariants, PTL

\* With one thread a client that asks again gets no second address.
THEOREM NoSecondAddress ==
  ASSUME LeaseAssumption
  PROVE  Spec => []OneAddressPerId
BY LeaseInvariants, PTL

\* With one thread what is answered is in the database: the address is marked,
\* and the client has a user.
THEOREM AnswersAreStored ==
  ASSUME LeaseAssumption
  PROVE  Spec => []AnswerHolds
BY LeaseInvariants, PTL

\* A step of the service takes an address, or grants one, or does neither.
LEMMA StepLeases ==
  ASSUME LeaseAssumption, NEW w, Threads = {w}, LeaseInv(w), [Next]_vars
  PROVE  [Lease!Next]_(Lease!vars)
<1>a. /\ IpInv(w) /\ UserData(w) /\ AddressData(w) /\ Where /\ text \in [{w} -> Texts]
  BY OneThreadTypes DEF LeaseInv, IpIInv
<1>1. ASSUME UNCHANGED <<marks, answers>> PROVE [Lease!Next]_(Lease!vars)
  BY <1>1 DEF Lease!vars
<1>2. CASE Restart \/ UNCHANGED vars
  BY <1>1, <1>2 DEF Restart, vars, dbVars
<1>3. CASE Worker(w)
  <2>1. CASE MarkIp(w)
    <3>1. /\ step[w] = "mark" /\ UNCHANGED answers
          /\ marks' = marks \cup {text[w]} \/ marks' = marks
      BY <2>1 DEF MarkIp, At
    <3>2. PICK b \in Range(Addresses) : Holds(b) /\ text[w] = b
      BY <1>a, <3>1 DEF IpInv
    <3>3. b \notin marks
      BY <1>a, <3>1, <3>2 DEF AddressData
    <3>4. CASE marks' = marks \cup {text[w]}
      <4>1. Lease!Take(b)
        BY <3>1, <3>2, <3>3, <3>4 DEF Lease!Take
      <4> QED
        BY <4>1 DEF Lease!Next
    <3> QED
      BY <1>1, <3>1, <3>4
  <2>2. CASE Answer(w)
    <3>1. UNCHANGED marks /\ step[w] = "answer"
      BY <2>2 DEF Answer, dbVars
    <3>2. CASE UNCHANGED answers
      BY <1>1, <3>1, <3>2
    <3>3. CASE /\ Byte(w) = Nul
               /\ answers' = answers \cup {[id |-> request[w].id, ip |-> text[w]]}
      <4>1. PICK b \in Range(Addresses) : Holds(b) /\ Begins(text[w], b)
        BY <1>a, <3>1 DEF IpInv
      <4>2. text[w] = b
        BY <1>a, <3>3, <4>1, AddressIsText, ReadHeld
      <4>3. b \in marks /\ \A a \in answers : a.ip # b /\ a.id # request[w].id
        BY <1>a, <3>1, <4>1 DEF AddressData, UserData, Stored
      <4>4. Lease!Grant(request[w].id, b)
        BY <3>1, <3>3, <4>2, <4>3 DEF Lease!Grant
      <4>5. request[w].id \in Ids
        BY <1>a, <3>1 DEF Where, Ids
      <4> QED
        BY <4>4, <4>5 DEF Lease!Next
    <3> QED
      BY <2>2, <3>2, <3>3 DEF Answer
  <2>3. CASE \/ Deal(w) \/ GetSocket(w) \/ WriteTable(w) \/ FreeRow(w) \/ QueryGroup(w) \/ TakeGroup(w)
             \/ QueryUser(w) \/ CheckUser(w) \/ StoreUser(w) \/ LeaveAddUser(w)
             \/ QueryIp(w) \/ GetIp(w) \/ CopyIp(w) \/ ReadIp(w) \/ LastRelease(w)
    <3>1. UNCHANGED <<marks, answers>>
      BY <2>3 DEF Deal, GetSocket, WriteTable, FreeRow, QueryGroup, TakeGroup, QueryUser, CheckUser,
                  StoreUser, LeaveAddUser, QueryIp, Query, GetIp, CopyIp, ReadIp, LastRelease, dbVars
    <3> QED
      BY <1>1, <3>1
  <2> QED
    BY <1>3, <2>1, <2>2, <2>3 DEF Worker
<1> QED
  BY <1>2, <1>3, StepCases

\* With one thread the service implements the leases of AddressLease, whichever
\* calls fail with -1, done or not, and wherever the server ends.
THEOREM ServiceLeases ==
  ASSUME LeaseAssumption, Cardinality(Threads) = 1
  PROVE  Spec => ImplementsLease
<1>1. PICK w : Threads = {w}
  BY SingleThread
<1>2. Init => LeaseInv(w)
  BY <1>1, LeaseHolds
<1>3. LeaseInv(w) /\ [Next]_vars => LeaseInv(w)'
  BY <1>1, LeaseHolds
<1>4. Init => Lease!Init
  BY DEF Init, Lease!Init
<1>5. LeaseInv(w) /\ [Next]_vars => [Lease!Next]_(Lease!vars)
  BY <1>1, StepLeases
<1> QED
  BY <1>2, <1>3, <1>4, <1>5, PTL DEF Spec, ImplementsLease, Lease!Spec
=============================================================================
