--------------------------- MODULE UdpServerProofs ---------------------------
(***************************************************************************)
(* Proofs about UdpServer, for any clients, workers and jobs, and with     *)
(* datagrams lost and repeated at will.                                    *)
(***************************************************************************)
EXTENDS UdpServer, NumberSets, SequenceTheorems, TLAPS

IInv == NetworkTypeOK /\ PoolTypeOK /\ NothingVanishes

\* The jobs the server has.
Held == Range(stack) \cup Range(running)
-----------------------------------------------------------------------------
\* What one step of the pool does to the jobs the server has, and to its types.

\* A new job is there afterwards, and no job is gone.
LEMMA SubmitHolds ==
  ASSUME PoolTypeOK, NEW c \in Clients \cup {None}, Submit(c)
  PROVE  /\ PoolTypeOK'
         /\ \A k \in Held : k \in Held' /\ sender'[k] = sender[k]
         /\ \E j \in Held' : j # NoJob /\ sender'[j] = c
<1> USE DEF PoolTypeOK
<1> DEFINE j == CHOOSE k \in Jobs : k \notin Pool!Accepted
<1>1. Pool!Accepted \subseteq Jobs
  BY DEF Pool!Accepted, Pool!Range
<1>2. j \in Jobs /\ j \notin Pool!Accepted
  BY <1>1 DEF Submit
<1>3. /\ stack' = <<j>> \o stack
      /\ sender' = [sender EXCEPT ![j] = c]
      /\ UNCHANGED <<running, finished, dropped>>
  BY DEF Submit, Pool!Submit
<1> HIDE DEF j
<1>4. stack' \in Seq(Jobs)
  BY <1>2, <1>3
<1>5. PoolTypeOK'
  BY <1>2, <1>3, <1>4
<1>6. Range(stack') = {j} \cup Range(stack)
  <2>1. Len(stack') = Len(stack) + 1 /\ stack'[1] = j
    BY <1>2, <1>3
  <2>2. \A i \in 1..Len(stack) : stack'[i + 1] = stack[i]
    BY <1>2, <1>3
  <2>3. \A i \in 2..Len(stack') : i - 1 \in 1..Len(stack) /\ stack'[i] = stack[i - 1]
    BY <2>1, <2>2
  <2>4. \A i \in 1..Len(stack) : i + 1 \in 1..Len(stack')
    BY <2>1
  <2>5. /\ Range(stack) = {stack[i] : i \in 1..Len(stack)}
        /\ Range(stack') = {stack'[i] : i \in 1..Len(stack')}
    BY <1>4 DEF Range
  <2>6. \A x \in Range(stack') : x = j \/ x \in Range(stack)
    <3> TAKE x \in Range(stack')
    <3>1. PICK i \in 1..Len(stack') : x = stack'[i]
      BY <2>5
    <3>2. CASE i = 1
      BY <3>1, <3>2, <2>1
    <3>3. CASE i # 1
      BY <3>1, <3>3, <2>3, <2>5
    <3> QED
      BY <3>2, <3>3
  <2>7. \A x \in Range(stack) : x \in Range(stack')
    BY <2>2, <2>4, <2>5
  <2>8. j \in Range(stack')
    BY <2>1, <2>5
  <2> QED
    BY <2>6, <2>7, <2>8
<1>7. NoJob # j
  BY <1>2, UdpAssumption
<1>8. \A k \in Held : k # j
  BY <1>2, <1>7 DEF Held, Pool!Accepted, Pool!Range, Range
<1>9. Range(running') = Range(running)
  BY <1>3
<1>10. \A k \in Held : k \in Held' /\ sender'[k] = sender[k]
  BY <1>3, <1>6, <1>8, <1>9 DEF Held
<1>11. j \in Held' /\ sender'[j] = c
  BY <1>2, <1>3, <1>6 DEF Held
<1> QED
  BY <1>5, <1>7, <1>10, <1>11

\* A worker has the job that was on top, and no job is gone.
LEMMA StartHolds ==
  ASSUME PoolTypeOK, NEW w \in Workers, Pool!Start(w), UNCHANGED sender
  PROVE  PoolTypeOK' /\ \A k \in Held : k # NoJob => k \in Held'
<1> USE DEF PoolTypeOK
<1>1. /\ running[w] = NoJob /\ stack # <<>>
      /\ running' = [running EXCEPT ![w] = Head(stack)]
      /\ stack' = Tail(stack)
      /\ UNCHANGED <<finished, dropped>>
  BY DEF Pool!Start
<1>2. Head(stack) \in Jobs /\ stack' \in Seq(Jobs)
  BY <1>1
<1>3. PoolTypeOK'
  BY <1>1, <1>2
<1>4. \A k \in Range(stack) : k = Head(stack) \/ k \in Range(stack')
  <2>1. /\ Range(stack) = {stack[i] : i \in 1..Len(stack)}
        /\ Range(stack') = {stack'[i] : i \in 1..Len(stack')}
    BY <1>2 DEF Range
  <2>2. \A i \in 2..Len(stack) : i - 1 \in 1..Len(stack') /\ stack'[i - 1] = stack[i]
    BY <1>1
  <2> TAKE k \in Range(stack)
  <2>3. PICK i \in 1..Len(stack) : k = stack[i]
    BY <2>1
  <2>4. CASE i = 1
    BY <2>3, <2>4
  <2>5. CASE i # 1
    BY <2>1, <2>2, <2>3, <2>5
  <2> QED
    BY <2>4, <2>5
<1>5. Head(stack) \in Range(running')
  <2>1. running'[w] = Head(stack) /\ w \in DOMAIN running'
    BY <1>1
  <2> QED
    BY <2>1 DEF Range
<1>6. \A k \in Range(running) : k # NoJob => k \in Range(running')
  <2>1. \A v \in Workers : v # w => running'[v] = running[v]
    BY <1>1
  <2>2. DOMAIN running = Workers /\ DOMAIN running' = Workers
    BY <1>1
  <2> QED
    BY <1>1, <2>1, <2>2 DEF Range
<1> QED
  BY <1>3, <1>4, <1>5, <1>6 DEF Held

\* One job is gone, and no other.
LEMMA FreeHolds ==
  ASSUME PoolTypeOK, NEW w \in Workers, Free(w)
  PROVE  /\ PoolTypeOK'
         /\ running[w] \in Jobs
         /\ \A k \in Held : k # running[w] => k \in Held' /\ sender'[k] = sender[k]
<1> USE DEF PoolTypeOK
<1>1. /\ running[w] # NoJob
      /\ finished' = finished \cup {running[w]}
      /\ running' = [running EXCEPT ![w] = NoJob]
      /\ UNCHANGED <<stack, dropped>>
      /\ sender' = [sender EXCEPT ![running[w]] = None]
  BY DEF Free, Pool!Finish
<1>2. running[w] \in Jobs
  BY <1>1
<1>3. PoolTypeOK'
  BY <1>1, <1>2
<1>4. \A k \in Range(running) : k # running[w] => k \in Range(running')
  <2>1. \A v \in Workers : v # w => running'[v] = running[v]
    BY <1>1
  <2>2. DOMAIN running = Workers /\ DOMAIN running' = Workers
    BY <1>1
  <2> QED
    BY <2>1, <2>2 DEF Range
<1>5. \A k \in Held : k # running[w] => k \in Held'
  BY <1>1, <1>4 DEF Held
<1>6. \A k : k # running[w] => sender'[k] = sender[k]
  BY <1>1
<1> QED
  BY <1>2, <1>3, <1>5, <1>6

\* When the server ends, a client that had a job or a datagram there is in `lost'.
LEMMA RestartHolds ==
  ASSUME IInv, Restart
  PROVE  IInv'
<1> USE DEF IInv
<1>1. /\ stack' = <<>>
      /\ running' = [w \in Workers |-> NoJob]
      /\ dropped' = dropped \cup (Held \ {NoJob})
      /\ requests' \subseteq requests
      /\ lost' = lost \cup (requests \ requests') \cup ({sender[j] : j \in Held \ {NoJob}} \ {None})
      /\ sender' = [j \in Jobs |-> None]
      /\ UNCHANGED <<client, replies, finished>>
  <2>1. NoJob \notin Range(stack)
    BY UdpAssumption DEF PoolTypeOK, Range
  <2>2. Range(stack) \cup (Range(running) \ {NoJob}) = Held \ {NoJob}
    BY <2>1 DEF Held
  <2> QED
    BY <2>2 DEF Restart
<1>2. Held \ {NoJob} \subseteq Jobs
  BY DEF PoolTypeOK, Held, Range
<1>3. PoolTypeOK'
  BY <1>1, <1>2 DEF PoolTypeOK
<1>4. NetworkTypeOK'
  BY <1>1, <1>2 DEF NetworkTypeOK, PoolTypeOK
<1>5. NothingVanishes'
  <2> SUFFICES ASSUME NEW c \in Clients, client[c] = "waiting"
               PROVE  c \in requests' \cup lost' \/ replies[c] > 0
    BY <1>1 DEF NothingVanishes
  <2>1. CASE \E j \in Held : j # NoJob /\ sender[j] = c
    BY <2>1, <1>1, UdpAssumption
  <2> QED
    BY <2>1, <1>1 DEF NothingVanishes, Held
<1> QED
  BY <1>3, <1>4, <1>5
-----------------------------------------------------------------------------
\* The initial state satisfies the inductive invariant.
LEMMA InitIInv == Init => IInv
  BY DEF Init, IInv, NetworkTypeOK, PoolTypeOK, NothingVanishes

\* Every step preserves it.
LEMMA NextIInv == IInv /\ [Next]_vars => IInv'
<1> SUFFICES ASSUME IInv, [Next]_vars PROVE IInv'
  OBVIOUS
<1>0. NetworkTypeOK /\ PoolTypeOK /\ NothingVanishes
  BY DEF IInv
<1>1. CASE UNCHANGED <<network, pool>>
  BY <1>0, <1>1 DEF IInv, network, pool, NetworkTypeOK, PoolTypeOK, NothingVanishes
<1>2. ASSUME NEW c \in Clients, Send(c)
      PROVE  IInv'
  <2>1. /\ client' = [client EXCEPT ![c] = "waiting"]
        /\ requests' = requests \cup {c}
        /\ UNCHANGED <<replies, lost, stack, running, finished, dropped, sender>>
    BY <1>2 DEF Send, pool
  <2>2. NetworkTypeOK' /\ PoolTypeOK'
    BY <1>0, <2>1 DEF NetworkTypeOK, PoolTypeOK
  <2>3. NothingVanishes'
    BY <1>0, <2>1 DEF NetworkTypeOK, NothingVanishes
  <2> QED
    BY <2>2, <2>3 DEF IInv
<1>3. ASSUME NEW c \in Clients, ClientReceive(c)
      PROVE  IInv'
  <2>1. /\ replies[c] > 0
        /\ replies' = [replies EXCEPT ![c] = @ - 1]
        /\ client' = [client EXCEPT ![c] = "idle"]
        /\ UNCHANGED <<requests, lost, stack, running, finished, dropped, sender>>
    BY <1>3 DEF ClientReceive, pool
  <2>2. NetworkTypeOK' /\ PoolTypeOK'
    BY <1>0, <2>1 DEF NetworkTypeOK, PoolTypeOK
  <2>3. NothingVanishes'
    BY <1>0, <2>1 DEF NetworkTypeOK, NothingVanishes
  <2> QED
    BY <2>2, <2>3 DEF IInv
<1>4. ASSUME Lose
      PROVE  IInv'
  <2>1. UNCHANGED <<client, stack, running, finished, dropped, sender>>
    BY <1>4 DEF Lose, pool
  <2>2. PICK c \in Clients : /\ lost' = lost \cup {c}
                             /\ \/ requests' = requests \ {c} /\ UNCHANGED replies
                                \/ /\ replies[c] > 0
                                   /\ replies' = [replies EXCEPT ![c] = @ - 1]
                                   /\ UNCHANGED requests
    BY <1>0, <1>4 DEF Lose, NetworkTypeOK
  <2>3. NetworkTypeOK' /\ PoolTypeOK'
    BY <1>0, <2>1, <2>2 DEF NetworkTypeOK, PoolTypeOK
  <2>4. NothingVanishes'
    BY <1>0, <2>1, <2>2 DEF NetworkTypeOK, NothingVanishes
  <2> QED
    BY <2>3, <2>4 DEF IInv
<1>5. ASSUME NEW c \in Clients, Receive(c)
      PROVE  IInv'
  <2>1. /\ requests' \subseteq requests /\ requests \subseteq requests' \cup {c}
        /\ Submit(c)
        /\ UNCHANGED <<client, replies, lost>>
    BY <1>5 DEF Receive
  <2>2. /\ PoolTypeOK'
        /\ \A k \in Held : k \in Held' /\ sender'[k] = sender[k]
        /\ \E j \in Held' : j # NoJob /\ sender'[j] = c
    BY <1>0, <2>1, SubmitHolds
  <2>3. NetworkTypeOK'
    BY <1>0, <2>1 DEF NetworkTypeOK
  <2>4. NothingVanishes'
    BY <1>0, <2>1, <2>2 DEF NothingVanishes, Held
  <2> QED
    BY <2>2, <2>3, <2>4 DEF IInv
<1>6. ASSUME ReceiveFails
      PROVE  IInv'
  <2>1. Submit(None) /\ UNCHANGED <<client, requests, replies, lost>>
    BY <1>6 DEF ReceiveFails, network
  <2>2. PoolTypeOK' /\ \A k \in Held : k \in Held' /\ sender'[k] = sender[k]
    BY <1>0, <2>1, SubmitHolds
  <2>3. NetworkTypeOK'
    BY <1>0, <2>1 DEF NetworkTypeOK
  <2>4. NothingVanishes'
    BY <1>0, <2>1, <2>2 DEF NothingVanishes, Held
  <2> QED
    BY <2>2, <2>3, <2>4 DEF IInv
<1>7. ASSUME NEW w \in Workers, Take(w)
      PROVE  IInv'
  <2>1. Pool!Start(w) /\ UNCHANGED <<sender, client, requests, replies, lost>>
    BY <1>7 DEF Take, network
  <2>2. PoolTypeOK' /\ \A k \in Held : k # NoJob => k \in Held'
    BY <1>0, <2>1, StartHolds
  <2>3. NetworkTypeOK'
    BY <1>0, <2>1 DEF NetworkTypeOK
  <2>4. NothingVanishes'
    BY <1>0, <2>1, <2>2 DEF NothingVanishes, Held
  <2> QED
    BY <2>2, <2>3, <2>4 DEF IInv
<1>8. ASSUME NEW w \in Workers, CopyBytes(w) \/ Load(w) \/ Scan(w) \/ Store(w)
      PROVE  IInv'
  BY <1>1, <1>8, RestartHolds DEF CopyBytes, Load, Scan, Store
<1>9. ASSUME NEW w \in Workers, Check(w)
      PROVE  IInv'
  BY <1>1, <1>9, RestartHolds DEF Check
<1>10. ASSUME NEW w \in Workers, Answer(w)
       PROVE  IInv'
  <2>1. /\ replies' = [replies EXCEPT ![sender[running[w]]] = @ + 1]
        /\ Free(w)
        /\ UNCHANGED <<client, requests, lost>>
    BY <1>10 DEF Answer
  <2>2. /\ PoolTypeOK' /\ running[w] \in Jobs
        /\ \A k \in Held : k # running[w] => k \in Held' /\ sender'[k] = sender[k]
    BY <1>0, <2>1, FreeHolds
  <2>3. /\ replies' \in [Clients -> Nat]
        /\ \A c \in Clients : /\ replies[c] > 0 => replies'[c] > 0
                              /\ sender[running[w]] = c => replies'[c] > 0
    <3> DEFINE d == sender[running[w]]
    <3>1. replies \in [Clients -> Nat] /\ replies' = [replies EXCEPT ![d] = replies[d] + 1]
      BY <1>0, <2>1 DEF NetworkTypeOK
    <3> HIDE DEF d
    <3>2. \A c \in Clients : replies'[c] = IF c = d THEN replies[c] + 1 ELSE replies[c]
      BY <3>1
    <3>3. replies' \in [Clients -> Nat]
      <4>1. CASE d \in Clients
        BY <3>1, <4>1
      <4>2. CASE d \notin Clients
        BY <3>1, <4>2
      <4> QED
        BY <4>1, <4>2
    <3> QED
      BY <3>1, <3>2, <3>3 DEF d
  <2>4. NetworkTypeOK'
    BY <1>0, <2>1, <2>3 DEF NetworkTypeOK
  <2>5. NothingVanishes'
    <3> SUFFICES ASSUME NEW c \in Clients, client'[c] = "waiting"
                 PROVE  \/ c \in requests' \cup lost' \/ replies'[c] > 0
                        \/ \E j \in Held' : j # NoJob /\ sender'[j] = c
      BY DEF NothingVanishes, Held
    <3>1. CASE c \in requests \cup lost \/ replies[c] > 0
      BY <3>1, <2>1, <2>3
    <3>2. CASE \E j \in Held : j # NoJob /\ sender[j] = c
      BY <3>2, <2>2, <2>3
    <3> QED
      BY <1>0, <2>1, <3>1, <3>2 DEF NothingVanishes, Held
  <2> QED
    BY <2>2, <2>4, <2>5 DEF IInv
<1>11. ASSUME Die
       PROVE  IInv'
  BY <1>11, RestartHolds DEF Die
<1> QED
  <2>1. CASE Next
    BY <1>2, <1>3, <1>4, <1>5, <1>6, <1>7, <1>8, <1>9, <1>10, <1>11, <2>1 DEF Next, Worker
  <2>2. CASE UNCHANGED vars
    BY <1>1, <2>2 DEF vars
  <2> QED
    BY <2>1, <2>2

\* A client waits in vain only if a datagram of its own was lost or the server
\* ended, whatever the network repeats and however workers disturb each other in
\* split.
THEOREM NothingEverVanishes == Spec => []NothingVanishes
<1>1. IInv => NothingVanishes
  BY DEF IInv
<1> QED
  BY InitIInv, NextIInv, <1>1, PTL DEF Spec
-----------------------------------------------------------------------------
(***************************************************************************)
(* Types.  Workers write bytes into each other's buffers and point to any  *)
(* place in them, but a strtok that goes on from the static pointer finds  *)
(* that it was set, and no worker returns with bytes in its buffer.        *)
(***************************************************************************)
Token == [from : Nat, to : Nat, next : Nat]

\* What strtok has in its locals.
Place(w) == /\ pc[w] = "idle" => buf[w] = <<>>
            /\ pc[w] = "load" => saved \in Pointers
            /\ pc[w] \in {"scan", "store"} => at[w] \in Pointers
            /\ pc[w] = "store" => token[w].from > 0 /\ token[w].to > 0 /\ token[w].next > 0

SplitInv == /\ buf \in [Workers -> Seq(Bytes)]
            /\ pc \in [Workers -> {"idle", "copy", "load", "scan", "store", "check", "serve"}]
            /\ saved \in Pointers \cup {None}
            /\ at \in [Workers -> Pointers \cup {None}]
            /\ token \in [Workers -> Token]
            /\ revbuf \in [Workers -> Seq(Pointers)]
            /\ alone \in [Workers -> BOOLEAN]
            /\ \A w \in Workers : Place(w)

UdpIInv == IInv /\ SplitInv

\* A job is in one place only, and a worker in split that is alone there is.
JobInv == /\ \A w \in Workers : pc[w] = "idle" <=> running[w] = NoJob
          /\ \A i, k \in 1..Len(stack) : stack[i] = stack[k] => i = k
          /\ \A w \in Workers : \A i \in 1..Len(stack) : running[w] # stack[i]
          /\ \A v, w \in Workers : running[v] = running[w] => v = w \/ running[v] = NoJob

\* What a worker has of strtok stays as it is while others write to its buffer
\* and to the static pointer, unless it is not there.
LEMMA OthersStay ==
  ASSUME SplitInv, saved' = saved \/ saved' \in Pointers
  PROVE  \A v \in Workers :
           /\ pc'[v] = pc[v] /\ at'[v] = at[v] /\ token'[v] = token[v]
           /\ buf[v] = <<>> => buf'[v] = <<>>
           => Place(v)'
<1> SUFFICES ASSUME NEW v \in Workers,
                    pc'[v] = pc[v] /\ at'[v] = at[v] /\ token'[v] = token[v],
                    buf[v] = <<>> => buf'[v] = <<>>
             PROVE  Place(v)'
  OBVIOUS
<1>1. Place(v)
  BY DEF SplitInv
<1>2. Pointers' = Pointers
  BY DEF Pointers
<1> QED
  BY <1>1, <1>2 DEF Place

\* The initial state and a restart have no pointers.
LEMMA InitSplit == (Init => SplitInv) /\ (Restart => SplitInv')
<1>1. ASSUME Init PROVE SplitInv
  BY <1>1 DEF Init, SplitInv, Place, NoToken, Token
<1>2. ASSUME Restart PROVE SplitInv'
  BY <1>2 DEF Restart, SplitInv, Place, NoToken, Token
<1> QED
  BY <1>1, <1>2

\* A text and its NUL are bytes.
LEMMA TextBytes ==
  ASSUME NEW c \in Clients \cup {None}
  PROVE  TextOf(c) \in Seq(Bytes) /\ Append(TextOf(c), Nul) \in Seq(Bytes)
<1>1. TextOf(c) \in Seq(Bytes)
  <2>1. CASE c = None
    BY <2>1 DEF TextOf
  <2>2. CASE c # None
    <3>1. Text[c] \in Seq(STRING)
      BY <2>2, UdpAssumption
    <3>2. Text[c] \in Seq(Bytes)
      BY <3>1 DEF Bytes
    <3> QED
      BY <2>2, <3>2 DEF TextOf
  <2> QED
    BY <2>1, <2>2
<1>2. Nul \in Bytes
  BY DEF Bytes
<1> QED
  BY <1>1, <1>2, AppendProperties

\* A worker takes a job.
LEMMA TakeSplit ==
  ASSUME SplitInv, NEW w \in Workers, Take(w)
  PROVE  SplitInv'
<1>1. /\ pc' = [pc EXCEPT ![w] = "copy"]
      /\ alone' = [v \in Workers |-> IF v = w THEN Splitting = {} ELSE alone[v] /\ v \notin Splitting]
      /\ UNCHANGED <<buf, saved, at, token, revbuf>>
  BY DEF Take, GoTo
<1>2. Pointers' = Pointers
  BY DEF Pointers
<1>3. \A v \in Workers : Place(v)'
  BY <1>1, <1>2 DEF SplitInv, Place
<1> QED
  BY <1>1, <1>2, <1>3 DEF SplitInv

\* strcpy puts bytes into the buffer.
LEMMA CopySplit ==
  ASSUME UdpIInv, JobInv, NEW w \in Workers, CopyBytes(w)
  PROVE  SplitInv'
<1> DEFINE text == TextOf(sender[running[w]])
           all == Append(text, Nul)
<1>1. pc[w] = "copy" /\ UNCHANGED <<saved, token, revbuf, alone>>
  BY DEF CopyBytes
<1>2. PICK k \in {Len(buf[w]) + Chunk, Len(all)} :
        /\ k <= Len(all)
        /\ buf' = [buf EXCEPT ![w] = buf[w] \o SubSeq(all, Len(buf[w]) + 1, k)]
        /\ \/ UNCHANGED <<pc, at>>
           \/ pc' = [pc EXCEPT ![w] = "check"] /\ UNCHANGED at
           \/ pc' = [pc EXCEPT ![w] = "scan"] /\ at' = [at EXCEPT ![w] = [buf |-> w, pos |-> 1]]
  BY DEF CopyBytes, GoTo
<1>3. buf[w] \in Seq(Bytes) /\ Len(buf[w]) \in Nat /\ Chunk \in Nat
  BY UdpAssumption DEF UdpIInv, SplitInv
<1>4. all \in Seq(Bytes)
  <2> DEFINE c == sender[running[w]]
  <2>1. CASE c \in Clients \cup {None}
    BY <2>1, TextBytes
  <2>2. running[w] \in Jobs
    BY <1>1 DEF UdpIInv, IInv, PoolTypeOK, JobInv
  <2>3. c \in Clients \cup {None}
    BY <2>2 DEF UdpIInv, IInv, PoolTypeOK
  <2> QED
    BY <2>1, <2>3
<1> HIDE DEF all
<1>5. SubSeq(all, Len(buf[w]) + 1, k) \in Seq(Bytes)
  <2>1. Len(all) \in Nat /\ k \in Int /\ Len(buf[w]) + 1 \in Int
    BY <1>3, <1>4
  <2>2. \A i \in Len(buf[w]) + 1..k : all[i] \in Bytes
    BY <1>2, <1>3, <1>4, <2>1
  <2> QED
    BY <2>1, <2>2, SubSeqProperties
<1>6. buf[w] \o SubSeq(all, Len(buf[w]) + 1, k) \in Seq(Bytes)
  BY <1>3, <1>5, ConcatProperties
<1>7. PICK new \in Seq(Bytes) : buf' = [buf EXCEPT ![w] = new]
  BY <1>2, <1>6
<1>8. Pointers' = Pointers /\ [buf |-> w, pos |-> 1] \in Pointers
  BY DEF Pointers
<1>9. \A v \in Workers : Place(v)'
  <2>1. \A v \in Workers : v # w => Place(v)'
    BY <1>1, <1>2, <1>7, <1>8 DEF UdpIInv, SplitInv, Place
  <2>2. Place(w)'
    BY <1>1, <1>2, <1>8 DEF UdpIInv, SplitInv, Place
  <2> QED
    BY <2>1, <2>2
<1>10. buf' \in [Workers -> Seq(Bytes)]
  BY <1>7 DEF UdpIInv, SplitInv
<1>11. /\ pc' \in [Workers -> {"idle", "copy", "load", "scan", "store", "check", "serve"}]
       /\ at' \in [Workers -> Pointers \cup {None}]
  BY <1>2, <1>8 DEF UdpIInv, SplitInv
<1> QED
  BY <1>1, <1>8, <1>9, <1>10, <1>11 DEF UdpIInv, SplitInv

\* strtok(NULL) goes on from the static pointer.
LEMMA LoadSplit ==
  ASSUME SplitInv, NEW w \in Workers, Load(w)
  PROVE  SplitInv'
<1>1. /\ at' = [at EXCEPT ![w] = saved]
      /\ pc[w] = "load" /\ pc' = [pc EXCEPT ![w] = "scan"]
      /\ UNCHANGED <<buf, saved, token, revbuf, alone>>
  BY DEF Load, GoTo
<1>2. saved \in Pointers /\ Pointers' = Pointers
  BY <1>1 DEF SplitInv, Place, Pointers
<1>3. \A v \in Workers : Place(v)'
  BY <1>1, <1>2 DEF SplitInv, Place
<1> QED
  BY <1>1, <1>2, <1>3 DEF SplitInv

\* A token begins at the place where the scan begins, or further on.
LEMMA TokenAfter ==
  ASSUME NEW text \in Seq(Bytes), NEW i \in Nat \ {0}, NEW t \in Tokens(text, i)
  PROVE  t \in Token /\ t.from >= i /\ t.to >= i /\ t.next >= i
<1>1. Furthest(text) \in Nat
  BY UdpAssumption DEF Furthest
<1>2. /\ t \in [from : i..Furthest(text), to : i..Furthest(text), next : i..Furthest(text) + 1]
      /\ t.from <= t.to
  BY DEF Tokens
<1> QED
  BY <1>1, <1>2 DEF Token

\* The scan finds a token, or the server ends.
LEMMA ScanSplit ==
  ASSUME SplitInv, NEW w \in Workers, Scan(w)
  PROVE  SplitInv'
<1>1. CASE Restart
  BY <1>1, InitSplit
<1>2. CASE ~Restart
  <2>1. PICK t \in Tokens(buf[at[w].buf], at[w].pos) : token' = [token EXCEPT ![w] = t]
    BY <1>2 DEF Scan
  <2>2. /\ pc[w] = "scan" /\ pc' = [pc EXCEPT ![w] = "store"]
        /\ UNCHANGED <<buf, saved, at, revbuf, alone>>
    BY <1>2 DEF Scan, GoTo
  <2>3. at[w] \in Pointers /\ Pointers' = Pointers
    BY <2>2 DEF SplitInv, Place, Pointers
  <2>4. buf[at[w].buf] \in Seq(Bytes) /\ at[w].pos \in Nat \ {0}
    BY <2>3 DEF Pointers, SplitInv
  <2>5. t \in Token /\ t.from > 0 /\ t.to > 0 /\ t.next > 0
    BY <2>4, TokenAfter DEF Token
  <2>6. \A v \in Workers : Place(v)'
    BY <2>1, <2>2, <2>3, <2>5 DEF SplitInv, Place
  <2> QED
    BY <2>1, <2>2, <2>3, <2>5, <2>6 DEF SplitInv
<1> QED
  BY <1>1, <1>2

\* The buffers hold bytes after strtok has cut a token off, and empty ones stay
\* empty.
LEMMA CutBytes ==
  ASSUME SplitInv, NEW w \in Workers, pc[w] = "store"
  PROVE  /\ CutToken(w) \in [Workers -> Seq(Bytes)]
         /\ \A v \in Workers : buf[v] = <<>> => CutToken(w)[v] = <<>>
<1> DEFINE b == at[w].buf
           to == token[w].to
<1>1. b \in Workers /\ to \in Nat \ {0} /\ buf[b] \in Seq(Bytes)
  BY DEF SplitInv, Place, Pointers, Token
<1> HIDE DEF b, to
<1>2. CASE token[w].next # to /\ to <= Len(buf[b])
  <2> DEFINE new == [buf[b] EXCEPT ![to] = Nul]
  <2>1. CutToken(w) = [buf EXCEPT ![b] = new]
    BY <1>2 DEF CutToken, b, to
  <2>2. to \in 1..Len(buf[b]) /\ Nul \in Bytes
    BY <1>1, <1>2 DEF Bytes
  <2>3. new \in Seq(Bytes) /\ buf[b] # <<>>
    BY <1>1, <2>2, ExceptSeq
  <2> HIDE DEF new
  <2> QED
    BY <1>1, <2>1, <2>3 DEF SplitInv
<1>3. CASE ~(token[w].next # to /\ to <= Len(buf[b]))
  <2>1. CutToken(w) = buf
    BY <1>3 DEF CutToken, b, to
  <2> QED
    BY <2>1 DEF SplitInv
<1> QED
  BY <1>2, <1>3

\* The end of the token is written, and the pointer set, or the server ends.
LEMMA StoreSplit ==
  ASSUME SplitInv, NEW w \in Workers, Store(w)
  PROVE  SplitInv'
<1>1. CASE Restart
  BY <1>1, InitSplit
<1>2. CASE ~Restart
  <2> DEFINE p == [buf |-> at[w].buf, pos |-> token[w].from]
  <2>1. /\ pc[w] = "store"
        /\ saved' = [buf |-> at[w].buf, pos |-> token[w].next]
        /\ buf' = CutToken(w)
        /\ at' = [at EXCEPT ![w] = None]
        /\ token' = [token EXCEPT ![w] = NoToken]
        /\ UNCHANGED alone
        /\ \/ pc' = [pc EXCEPT ![w] = "check"] /\ UNCHANGED revbuf
           \/ /\ pc' = [pc EXCEPT ![w] = "load"]
              /\ revbuf' = [revbuf EXCEPT ![w] = Append(revbuf[w], p)]
    BY <1>2 DEF Store, Return, Collect, GoTo
  <2>2. /\ saved' \in Pointers /\ p \in Pointers /\ Pointers' = Pointers
        /\ NoToken \in Token
    BY <2>1 DEF SplitInv, Place, Pointers, Token, NoToken
  <2>3. /\ buf' \in [Workers -> Seq(Bytes)]
        /\ \A v \in Workers : buf[v] = <<>> => buf'[v] = <<>>
    BY <2>1, CutBytes
  <2> HIDE DEF p
  <2>4. ASSUME NEW v \in Workers PROVE Place(v)'
    <3>1. CASE v = w
      BY <2>1, <2>2, <3>1 DEF SplitInv, Place
    <3>2. CASE v # w
      <4>1. pc'[v] = pc[v] /\ at'[v] = at[v] /\ token'[v] = token[v]
        BY <2>1, <3>2 DEF SplitInv
      <4> QED
        BY <2>2, <2>3, <4>1, OthersStay
    <3> QED
      BY <3>1, <3>2
  <2>5. revbuf' \in [Workers -> Seq(Pointers)]
    <3>1. CASE revbuf' = [revbuf EXCEPT ![w] = Append(revbuf[w], p)]
      <4>1. Append(revbuf[w], p) \in Seq(Pointers)
        BY <2>2, AppendProperties DEF SplitInv
      <4> QED
        BY <3>1, <4>1 DEF SplitInv
    <3> QED
      BY <2>1, <3>1 DEF SplitInv
  <2>6. /\ pc' \in [Workers -> {"idle", "copy", "load", "scan", "store", "check", "serve"}]
        /\ at' \in [Workers -> Pointers \cup {None}]
        /\ token' \in [Workers -> Token]
        /\ alone' \in [Workers -> BOOLEAN]
    BY <2>1, <2>2 DEF SplitInv
  <2> QED
    BY <2>2, <2>3, <2>4, <2>5, <2>6 DEF SplitInv
<1> QED
  BY <1>1, <1>2

\* The rest of deal_msg sets no pointer, and ends with an empty buffer.
LEMMA ServeSplit ==
  ASSUME SplitInv, NEW w \in Workers, Check(w) \/ Answer(w)
  PROVE  SplitInv'
<1>0. Pointers' = Pointers /\ <<>> \in Seq(Pointers) /\ <<>> \in Seq(Bytes)
  BY DEF Pointers
<1>1. CASE Restart
  BY <1>1, InitSplit
<1>2. CASE Served(w, "serve") /\ UNCHANGED <<buf, saved, at, token>>
  <2>1. /\ pc' = [pc EXCEPT ![w] = "serve"]
        /\ revbuf' = [revbuf EXCEPT ![w] = <<>>] /\ alone' = [alone EXCEPT ![w] = TRUE]
    BY <1>2 DEF Served, GoTo
  <2>2. \A v \in Workers : Place(v)'
    BY <1>0, <1>2, <2>1 DEF SplitInv, Place
  <2> QED
    BY <1>0, <1>2, <2>1, <2>2 DEF SplitInv
<1>3. CASE Answer(w)
  <2>1. /\ pc' = [pc EXCEPT ![w] = "idle"]
        /\ buf' = [buf EXCEPT ![w] = <<>>]
        /\ UNCHANGED <<saved, at, token, revbuf, alone>>
    BY <1>3 DEF Answer, Leave, GoTo
  <2>2. \A v \in Workers : Place(v)'
    BY <1>0, <2>1 DEF SplitInv, Place
  <2> QED
    BY <1>0, <2>1, <2>2 DEF SplitInv
<1> QED
  BY <1>1, <1>2, <1>3 DEF Check

\* Every step preserves the types.
LEMMA NextSplit == UdpIInv /\ JobInv /\ [Next]_vars => SplitInv'
<1> SUFFICES ASSUME UdpIInv, JobInv, [Next]_vars PROVE SplitInv'
  OBVIOUS
<1>1. CASE UNCHANGED <<pc, locals>>
  BY <1>1 DEF UdpIInv, locals, SplitInv, Place, Pointers
<1>2. ASSUME NEW c \in Clients, Send(c) \/ ClientReceive(c) \/ Receive(c)
      PROVE  SplitInv'
  BY <1>1, <1>2 DEF Send, ClientReceive, Receive
<1>3. CASE ReceiveFails \/ Lose
  BY <1>1, <1>3 DEF ReceiveFails, Lose
<1>4. CASE Die
  BY <1>4, InitSplit DEF Die
<1>5. ASSUME NEW w \in Workers, Worker(w)
      PROVE  SplitInv'
  BY <1>5, TakeSplit, CopySplit, LoadSplit, ScanSplit, StoreSplit, ServeSplit DEF Worker, UdpIInv
<1>6. CASE UNCHANGED vars
  BY <1>1, <1>6 DEF vars
<1> QED
  BY <1>2, <1>3, <1>4, <1>5, <1>6 DEF Next

\* The job main submits is one the server does not have.
LEMMA SubmitIs ==
  ASSUME PoolTypeOK, NEW c, Submit(c)
  PROVE  \E j \in Jobs : /\ j \notin Held /\ j # NoJob
                         /\ stack' = <<j>> \o stack
                         /\ sender' = [sender EXCEPT ![j] = c]
                         /\ UNCHANGED running
<1> DEFINE j == CHOOSE k \in Jobs : k \notin Pool!Accepted
<1>1. Pool!Accepted \subseteq Jobs
  BY DEF Pool!Accepted, Pool!Range, PoolTypeOK
<1>2. j \in Jobs /\ j \notin Pool!Accepted
  BY <1>1 DEF Submit
<1>3. stack' = <<j>> \o stack /\ sender' = [sender EXCEPT ![j] = c] /\ UNCHANGED running
  BY DEF Submit, Pool!Submit
<1>4. j # NoJob
  BY <1>2, UdpAssumption
<1> HIDE DEF j
<1>5. j \notin Held
  BY <1>2, <1>4 DEF Held, Pool!Accepted, Pool!Range, Range
<1> QED
  BY <1>2, <1>3, <1>4, <1>5

\* A new job goes in front of the others.
LEMMA SubmitJob ==
  ASSUME PoolTypeOK, JobInv, NEW c, Submit(c), UNCHANGED pc
  PROVE  JobInv'
<1>1. PICK j \in Jobs : /\ j \notin Held /\ stack' = <<j>> \o stack /\ UNCHANGED running
  BY SubmitIs
<1>2. stack \in Seq(Jobs) /\ \A i \in 1..Len(stack) : stack[i] # j
  BY <1>1 DEF PoolTypeOK, Held, Range
<1>3. \A w \in Workers : running[w] # j
  BY <1>1 DEF PoolTypeOK, Held, Range
<1>4. /\ Len(stack') = Len(stack) + 1 /\ stack'[1] = j
      /\ \A i \in 2..Len(stack') : i - 1 \in 1..Len(stack) /\ stack'[i] = stack[i - 1]
  BY <1>1, <1>2
<1>5. ASSUME NEW i \in 1..Len(stack'), NEW k \in 1..Len(stack'), stack'[i] = stack'[k]
      PROVE  i = k
  <2>1. CASE i = 1 /\ k = 1
    BY <2>1
  <2>2. CASE i # 1 /\ k # 1
    <3>1. /\ i - 1 \in 1..Len(stack) /\ k - 1 \in 1..Len(stack)
          /\ stack[i - 1] = stack[k - 1]
      BY <1>4, <1>5, <2>2
    <3>2. i - 1 = k - 1
      BY <3>1 DEF JobInv
    <3> QED
      BY <3>2
  <2>3. CASE i = 1 /\ k # 1
    BY <1>2, <1>4, <1>5, <2>3
  <2>4. CASE i # 1 /\ k = 1
    BY <1>2, <1>4, <1>5, <2>4
  <2> QED
    BY <2>1, <2>2, <2>3, <2>4
<1>6. ASSUME NEW w \in Workers, NEW i \in 1..Len(stack')
      PROVE  running'[w] # stack'[i]
  <2>1. CASE i = 1
    BY <1>1, <1>3, <1>4, <2>1
  <2>2. CASE i # 1
    BY <1>1, <1>4, <2>2 DEF JobInv
  <2> QED
    BY <2>1, <2>2
<1> QED
  BY <1>1, <1>5, <1>6 DEF JobInv

\* The worker that takes the top job has it alone.
LEMMA TakeJob ==
  ASSUME UdpIInv, JobInv, NEW w \in Workers, Take(w)
  PROVE  JobInv'
<1>1. /\ running[w] = NoJob /\ stack # <<>>
      /\ running' = [running EXCEPT ![w] = Head(stack)]
      /\ stack' = Tail(stack)
      /\ stack \in Seq(Jobs)
      /\ running \in [Workers -> Jobs \cup {NoJob}]
  BY DEF Take, Pool!Start, UdpIInv, IInv, PoolTypeOK
<1>2. pc' = [pc EXCEPT ![w] = "copy"]
  BY DEF Take, GoTo
<1>3. /\ Head(stack) = stack[1] /\ stack[1] \in Jobs
      /\ 1 \in 1..Len(stack)
      /\ \A i \in 1..Len(stack') : i + 1 \in 1..Len(stack) /\ stack'[i] = stack[i + 1]
  BY <1>1
<1>4. ASSUME NEW i \in 1..Len(stack'), NEW k \in 1..Len(stack'), stack'[i] = stack'[k]
      PROVE  i = k
  <2>1. i + 1 = k + 1
    BY <1>3, <1>4 DEF JobInv
  <2> QED
    BY <2>1
<1>5. \A v \in Workers : \A i \in 1..Len(stack') : running'[v] # stack'[i]
  <2> TAKE v \in Workers
  <2> TAKE i \in 1..Len(stack')
  <2>1. CASE v = w
    <3>1. i + 1 # 1 /\ running'[v] = stack[1]
      BY <1>1, <1>3, <2>1
    <3> QED
      BY <1>3, <3>1 DEF JobInv
  <2>2. CASE v # w
    BY <1>1, <1>3, <2>2 DEF JobInv
  <2> QED
    BY <2>1, <2>2
<1>6. \A u, v \in Workers : running'[u] = running'[v] => u = v \/ running'[u] = NoJob
  BY <1>1, <1>3 DEF JobInv
<1>7. \A v \in Workers : pc'[v] = "idle" <=> running'[v] = NoJob
  BY <1>1, <1>2, <1>3, UdpAssumption DEF JobInv, UdpIInv, SplitInv
<1> QED
  BY <1>4, <1>5, <1>6, <1>7 DEF JobInv

\* Every step leaves a job in one place only.
LEMMA NextJob == UdpIInv /\ JobInv /\ [Next]_vars => JobInv'
<1> SUFFICES ASSUME UdpIInv, JobInv, [Next]_vars PROVE JobInv'
  OBVIOUS
<1>1. CASE UNCHANGED <<stack, running, pc>>
  BY <1>1 DEF JobInv
<1>2. ASSUME NEW c, Submit(c), UNCHANGED pc PROVE JobInv'
  BY <1>2, SubmitJob DEF UdpIInv, IInv
<1>3. CASE Restart
  BY <1>3 DEF Restart, JobInv
<1>4. ASSUME NEW w \in Workers, ~Restart, CopyBytes(w) \/ Load(w) \/ Scan(w) \/ Store(w) \/ Check(w)
      PROVE  JobInv'
  <2>1. /\ UNCHANGED <<stack, running>>
        /\ \/ pc' = [pc EXCEPT ![w] = "scan"] \/ pc' = [pc EXCEPT ![w] = "store"]
           \/ pc' = [pc EXCEPT ![w] = "check"] \/ pc' = [pc EXCEPT ![w] = "load"]
           \/ pc' = [pc EXCEPT ![w] = "serve"] \/ pc' = pc
        /\ pc[w] # "idle"
    BY <1>4 DEF CopyBytes, Load, Scan, Store, Check, Served, Collect, GoTo, pool
  <2>2. \A v \in Workers : pc'[v] = "idle" <=> pc[v] = "idle"
    BY <2>1 DEF UdpIInv, SplitInv
  <2> QED
    BY <2>1, <2>2 DEF JobInv
<1>5. ASSUME NEW w \in Workers, Answer(w) PROVE JobInv'
  <2>1. /\ running' = [running EXCEPT ![w] = NoJob]
        /\ UNCHANGED stack
        /\ pc' = [pc EXCEPT ![w] = "idle"]
        /\ stack \in Seq(Jobs) /\ running \in [Workers -> Jobs \cup {NoJob}]
    BY <1>5 DEF Answer, Leave, Free, GoTo, Pool!Finish, UdpIInv, IInv, PoolTypeOK
  <2>2. \A v \in Workers : pc'[v] = "idle" <=> running'[v] = NoJob
    BY <2>1 DEF JobInv, UdpIInv, SplitInv
  <2>3. \A i \in 1..Len(stack) : stack[i] # NoJob
    BY <2>1, UdpAssumption
  <2> QED
    BY <2>1, <2>2, <2>3 DEF JobInv
<1>6. ASSUME NEW c \in Clients, Send(c) \/ ClientReceive(c) PROVE JobInv'
  BY <1>1, <1>6 DEF Send, ClientReceive, pool
<1>7. ASSUME NEW c \in Clients, Receive(c) PROVE JobInv'
  BY <1>2, <1>7 DEF Receive
<1>8. CASE ReceiveFails
  BY <1>2, <1>8 DEF ReceiveFails
<1>9. CASE Lose
  BY <1>1, <1>9 DEF Lose, pool
<1>10. ASSUME NEW w \in Workers, Worker(w) PROVE JobInv'
  BY <1>3, <1>4, <1>5, <1>10, TakeJob DEF Worker
<1>11. CASE UNCHANGED vars
  BY <1>1, <1>11 DEF vars, pool
<1> QED
  BY <1>3, <1>6, <1>7, <1>8, <1>9, <1>10, <1>11 DEF Next, Die

\* Wherever the static pointer of strtok points when workers use it, and whatever
\* bytes they find there, strtok goes on from a pointer that was set, and each
\* worker has in its buffer what strcpy and strtok have put there, or nothing.
THEOREM TypeCorrect == Spec => []UdpTypeOK
<1>1. Init => UdpIInv /\ JobInv
  <2>1. Init => JobInv
    BY DEF Init, JobInv
  <2> QED
    BY <2>1, InitIInv, InitSplit DEF UdpIInv
<1>2. UdpIInv /\ JobInv /\ [Next]_vars => (UdpIInv /\ JobInv)'
  BY NextIInv, NextSplit, NextJob DEF UdpIInv
<1>3. UdpIInv /\ JobInv => UdpTypeOK
  BY DEF UdpIInv, IInv, SplitInv, Place, UdpTypeOK, Token
<1> QED
  BY <1>1, <1>2, <1>3, PTL DEF Spec
-----------------------------------------------------------------------------
(***************************************************************************)
(* What split finds when no other worker disturbs it.  In the text of the  *)
(* job there is a place up to which strtok has come, the beginning of a    *)
(* field or the end: the separators before it are cut in the buffer, those *)
(* after it are not, and the fields before it are the ones collected.      *)
(***************************************************************************)
Job(w) == TextOf(sender[running[w]])

\* Texts as TextAssumption has them.
Texts == {text \in Seq(Bytes) :
            /\ \A i \in DOMAIN text : text[i] # Nul
            /\ \A i \in DOMAIN text : text[i] = Comma => i \in 2..Len(text) - 1 /\ text[i + 1] # Comma}

Places(text) == Starts(text) \cup {Len(text) + 1}

\* The buffer of w when the separators of text before c are cut.
Cut(w, text, c) == /\ Len(buf[w]) >= Len(text) + 1
                   /\ buf[w][Len(text) + 1] = Nul
                   /\ \A k \in 1..Len(text) :
                        buf[w][k] = IF text[k] = Comma /\ k < c THEN Nul ELSE text[k]

\* The pointers to the fields before c.
Collected(w, text, c) ==
  /\ \A i \in DOMAIN revbuf[w] : /\ revbuf[w][i].buf = w
                                 /\ revbuf[w][i].pos \in Starts(text) \cap 1..c - 1
                                 /\ \A k \in 1..i - 1 : revbuf[w][k].pos < revbuf[w][i].pos
  /\ \A p \in Starts(text) : p < c => \E i \in DOMAIN revbuf[w] : revbuf[w][i].pos = p

\* e is the end of the field that begins at c, or c the end of the text.
Ends(text, c, e) == IF c = Len(text) + 1 THEN e = c
                    ELSE /\ e \in c + 1..Len(text) + 1
                         /\ e = Len(text) + 1 \/ text[e] = Comma
                         /\ \A m \in c..e - 1 : text[m] # Comma

\* What strtok has in hand at c.
Strtok(w, text, c) ==
  /\ pc[w] = "load" => saved = [buf |-> w, pos |-> c]
  /\ pc[w] \in {"scan", "store"} => at[w].buf = w
  /\ pc[w] = "scan" => at[w].pos = c
  /\ pc[w] = "store" => /\ token[w].from = c
                        /\ Ends(text, c, token[w].to)
                        /\ token[w].next = IF token[w].to = Len(text) + 1 THEN token[w].to ELSE token[w].to + 1
  /\ pc[w] = "check" => c = Len(text) + 1

Progress(w) == \E c \in Places(Job(w)) : /\ Cut(w, Job(w), c)
                                         /\ Collected(w, Job(w), c)
                                         /\ Strtok(w, Job(w), c)

\* The text is in the buffer as far as strcpy has come.
Copied(w) == /\ Len(buf[w]) <= Len(Job(w))
             /\ \A k \in 1..Len(buf[w]) : buf[w][k] = Job(w)[k]

Right(w) == IF pc[w] = "copy" THEN Copied(w) ELSE Progress(w)

FieldInv == /\ \A w \in Workers : pc[w] \in {"idle", "copy", "serve"} => revbuf[w] = <<>>
            /\ \A w \in Splitting : alone[w] => Splitting = {w} /\ Right(w)

FieldIInv == UdpIInv /\ JobInv /\ FieldInv

\* The text of a job is one that TextAssumption is about.
LEMMA JobText ==
  ASSUME NEW c \in Clients \cup {None}
  PROVE  TextOf(c) \in Texts
<1>1. CASE c = None
  BY <1>1 DEF TextOf, Texts
<1>2. CASE c # None
  <2>1. c \in Clients /\ TextOf(c) = Text[c]
    BY <1>2 DEF TextOf
  <2>2. Text[c] \in Seq(STRING) /\ Nul \notin Range(Text[c])
    BY <2>1, UdpAssumption
  <2>3. \A i \in DOMAIN Text[c] : Text[c][i] # Nul
    BY <2>2 DEF Range
  <2>4. Text[c] \in Seq(Bytes)
    BY <2>2 DEF Bytes
  <2>5. \A i \in DOMAIN Text[c] : Text[c][i] = Comma => i \in 2..Len(Text[c]) - 1 /\ Text[c][i + 1] # Comma
    BY <2>1, TextAssumption
  <2> QED
    BY <2>1, <2>3, <2>4, <2>5 DEF Texts
<1> QED
  BY <1>1, <1>2

\* After the field that begins at c comes another, or the end; none is left out.
LEMMA NextPlace ==
  ASSUME NEW text \in Texts, NEW c \in Starts(text), NEW e, Ends(text, c, e),
         NEW n, n = IF e = Len(text) + 1 THEN e ELSE e + 1
  PROVE  /\ n \in Places(text) /\ c < n
         /\ \A p \in Starts(text) : p < n <=> p < c \/ p = c
<1>1. /\ text \in Seq(Bytes) /\ c \in 1..Len(text) /\ text[c] # Comma
      /\ e \in c + 1..Len(text) + 1
      /\ e = Len(text) + 1 \/ text[e] = Comma
      /\ \A m \in c..e - 1 : text[m] # Comma
  BY DEF Ends, Texts, Starts
<1>2. ASSUME NEW p \in Starts(text), p < n
      PROVE  p < c \/ p = c
  <2>1. p \in 1..Len(text) /\ text[p] # Comma /\ (p = 1 \/ text[p - 1] = Comma)
    BY DEF Starts, Texts
  <2>2. p \in c + 1..e - 1 => FALSE
    <3> SUFFICES ASSUME p \in c + 1..e - 1 PROVE FALSE
      OBVIOUS
    <3>1. p - 1 \in c..e - 1 /\ p # 1
      BY <1>1
    <3> QED
      BY <1>1, <2>1, <3>1
  <2> QED
    BY <1>1, <1>2, <2>1, <2>2
<1>3. n \in Places(text)
  <2>1. CASE e = Len(text) + 1
    BY <2>1 DEF Places
  <2>2. CASE e # Len(text) + 1
    <3>1. e \in DOMAIN text /\ text[e] = Comma
      BY <1>1, <2>2
    <3>2. e + 1 \in DOMAIN text /\ text[e + 1] # Comma /\ text[(e + 1) - 1] = Comma
      BY <1>1, <3>1 DEF Texts
    <3> QED
      BY <2>2, <3>2 DEF Places, Starts
  <2> QED
    BY <2>1, <2>2
<1> QED
  BY <1>1, <1>2, <1>3 DEF Starts

\* Every field has an end.
LEMMA FieldEnds ==
  ASSUME NEW text \in Texts, NEW c \in Starts(text)
  PROVE  \E e \in c + 1..Len(text) + 1 : Ends(text, c, e)
<1>1. text \in Seq(Bytes) /\ Len(text) \in Nat /\ c \in 1..Len(text) /\ text[c] # Comma
  BY DEF Texts, Starts
<1> DEFINE Stops == {k \in c + 1..Len(text) + 1 : k = Len(text) + 1 \/ text[k] = Comma}
<1>2. Stops \in SUBSET (0..Len(text) + 1) /\ Len(text) + 1 \in Stops
  BY <1>1
<1>3. PICK e \in Stops : \A k \in Stops : e <= k
  <2> HIDE DEF Stops
  <2>1. Len(text) + 1 \in Nat /\ Stops # {}
    BY <1>1, <1>2
  <2> QED
    BY <1>2, <2>1, Least
<1>4. \A m \in c..e - 1 : text[m] # Comma
  BY <1>1, <1>3
<1> QED
  BY <1>1, <1>3, <1>4 DEF Ends

\* What w has in split stays when a step leaves its part of the state alone.
LEMMA RightStays ==
  ASSUME NEW w \in Workers, Right(w),
         pc'[w] = pc[w], buf'[w] = buf[w], revbuf'[w] = revbuf[w], saved' = saved,
         at'[w] = at[w], token'[w] = token[w],
         running'[w] = running[w], sender'[running[w]] = sender[running[w]]
  PROVE  Right(w)'
<1>1. Job(w)' = Job(w)
  BY DEF Job, TextOf
<1>0. SUFFICES ASSUME pc[w] # "copy" PROVE Progress(w)'
  BY <1>1 DEF Right, Copied
<1>2. PICK c \in Places(Job(w)) : Cut(w, Job(w), c) /\ Collected(w, Job(w), c) /\ Strtok(w, Job(w), c)
  BY <1>0 DEF Right, Progress
<1> DEFINE text == Job(w)
<1> HIDE DEF text
<1>3. Cut(w, text, c)' /\ Collected(w, text, c)' /\ Strtok(w, text, c)'
  <2>1. text' = text
    BY <1>1 DEF text
  <2>2. Cut(w, text, c) /\ Collected(w, text, c) /\ Strtok(w, text, c)
    BY <1>2 DEF text
  <2>3. Cut(w, text, c)'
    BY <2>1, <2>2 DEF Cut
  <2>4. Collected(w, text, c)'
    BY <2>1, <2>2 DEF Collected
  <2>5. Strtok(w, text, c)'
    BY <2>1, <2>2 DEF Strtok
  <2> QED
    BY <2>3, <2>4, <2>5
<1>4. (c \in Places(Job(w)))'
  BY <1>1
<1> QED
  BY <1>1, <1>3, <1>4 DEF Progress, text

\* A worker begins with an empty buffer.
LEMMA TakeField ==
  ASSUME FieldIInv, NEW w \in Workers, Take(w)
  PROVE  pc'[w] = "copy" /\ revbuf'[w] = <<>> /\ Right(w)'
<1>1. /\ running[w] = NoJob /\ stack # <<>>
      /\ running' = [running EXCEPT ![w] = Head(stack)]
      /\ pc' = [pc EXCEPT ![w] = "copy"]
      /\ UNCHANGED <<buf, revbuf, sender>>
  BY DEF Take, GoTo, Pool!Start
<1>2. pc'[w] = "copy" /\ pc[w] = "idle"
  BY <1>1 DEF FieldIInv, UdpIInv, SplitInv, JobInv
<1>3. buf'[w] = <<>> /\ revbuf'[w] = <<>>
  BY <1>1, <1>2 DEF FieldIInv, FieldInv, UdpIInv, SplitInv, Place
<1>4. (Job(w))' \in Texts
  <2>1. Head(stack) \in Jobs /\ running'[w] = Head(stack)
    BY <1>1 DEF FieldIInv, UdpIInv, IInv, PoolTypeOK
  <2>2. sender[Head(stack)] \in Clients \cup {None}
    BY <2>1 DEF FieldIInv, UdpIInv, IInv, PoolTypeOK
  <2>3. (Job(w))' = TextOf(sender[Head(stack)])
    BY <1>1, <2>1 DEF Job, TextOf
  <2> QED
    BY <2>2, <2>3, JobText
<1>5. 0 <= Len((Job(w))')
  BY <1>4 DEF Texts
<1> QED
  BY <1>2, <1>3, <1>5 DEF Right, Copied

\* c is a text with its NUL, or the first k bytes of that.
Spells(c, text, k) == /\ Len(c) = k
                      /\ \A i \in 1..k : c[i] = IF i <= Len(text) THEN text[i] ELSE Nul

\* With the next bytes of a text behind those it has, a buffer has the text that
\* far, or all of it and the NUL.
LEMMA MoreBytes ==
  ASSUME NEW text \in Texts, NEW b \in Seq(Bytes), Len(b) <= Len(text),
         \A i \in 1..Len(b) : b[i] = text[i],
         NEW k \in Nat, Len(b) < k, k <= Len(text) + 1,
         NEW c, c = b \o SubSeq(Append(text, Nul), Len(b) + 1, k)
  PROVE  Spells(c, text, k)
<1> DEFINE all == Append(text, Nul)
           more == SubSeq(all, Len(b) + 1, k)
<1>1. text \in Seq(Bytes) /\ Len(text) \in Nat /\ Len(b) \in Nat /\ Nul \in Bytes
  BY DEF Texts, Bytes
<1>2. /\ all \in Seq(Bytes) /\ Len(all) = Len(text) + 1
      /\ \A i \in 1..Len(text) : all[i] = text[i]
      /\ all[Len(text) + 1] = Nul
  BY <1>1, AppendProperties
<1> HIDE DEF all
<1>3. /\ more \in Seq(Bytes) /\ Len(more) = k - Len(b)
      /\ \A i \in 1..k - Len(b) : more[i] = all[Len(b) + i]
  <2>1. \A i \in Len(b) + 1..k : all[i] \in Bytes
    BY <1>1, <1>2
  <2>2. /\ more \in Seq(Bytes)
        /\ Len(more) = IF Len(b) + 1 <= k THEN k - (Len(b) + 1) + 1 ELSE 0
        /\ \A i \in 1..k - (Len(b) + 1) + 1 : more[i] = all[(Len(b) + 1) + i - 1]
    BY <1>1, <2>1, SubSeqProperties
  <2> QED
    BY <1>1, <2>2
<1>4. c = b \o more
  BY DEF all
<1> HIDE DEF more
<1>5. /\ Len(c) = k
      /\ \A i \in 1..k : c[i] = IF i <= Len(b) THEN b[i] ELSE more[i - Len(b)]
  <2>1. /\ Len(b \o more) = Len(b) + Len(more)
        /\ \A i \in 1..Len(b) + Len(more) : (b \o more)[i] = IF i <= Len(b) THEN b[i] ELSE more[i - Len(b)]
    BY <1>3, ConcatProperties
  <2>2. Len(b) + Len(more) = k
    BY <1>1, <1>3
  <2> QED
    BY <1>4, <2>1, <2>2
<1>6. ASSUME NEW i \in 1..k PROVE c[i] = IF i <= Len(text) THEN text[i] ELSE Nul
  <2>1. CASE i <= Len(b)
    BY <1>1, <1>5, <2>1
  <2>2. CASE i > Len(b)
    <3>1. i - Len(b) \in 1..k - Len(b) /\ Len(b) + (i - Len(b)) = i
      BY <1>1, <2>2
    <3>2. c[i] = all[i]
      <4>1. c[i] = more[i - Len(b)]
        <5>1. ~(i <= Len(b))
          BY <1>1, <2>2
        <5> QED
          BY <1>5, <5>1, Zenon
      <4>2. more[i - Len(b)] = all[Len(b) + (i - Len(b))]
        BY <1>3, <3>1
      <4> QED
        BY <3>1, <4>1, <4>2
    <3>3. i <= Len(text) \/ i = Len(text) + 1
      BY <1>1
    <3> QED
      BY <1>1, <1>2, <3>2, <3>3
  <2>3. i \in Nat /\ (i <= Len(b) \/ i > Len(b))
    BY <1>1
  <2> QED
    BY <2>1, <2>2, <2>3
<1> QED
  BY <1>5, <1>6 DEF Spells

\* A text begins with a field, or is empty.
LEMMA FirstPlace ==
  ASSUME NEW text \in Texts
  PROVE  1 \in Places(text) /\ (text = <<>> <=> 1 = Len(text) + 1)
<1>1. text \in Seq(Bytes) /\ Len(text) \in Nat
  BY DEF Texts
<1>2. CASE text = <<>>
  BY <1>2 DEF Places
<1>3. CASE text # <<>>
  <2>1. 1 \in DOMAIN text /\ Len(text) # 0
    BY <1>1, <1>3
  <2>2. text[1] = Comma => 1 \in 2..Len(text) - 1
    BY <2>1, Zenon DEF Texts
  <2>3. text[1] # Comma
    BY <1>1, <2>2
  <2> QED
    BY <1>1, <1>3, <2>1, <2>3 DEF Places, Starts
<1> QED
  BY <1>2, <1>3

\* strcpy brings the text into the buffer.
LEMMA CopyField ==
  ASSUME FieldIInv, NEW w \in Workers, CopyBytes(w), Right(w), NEW text \in Texts, text = Job(w)
  PROVE  Right(w)'
<1>1. /\ pc[w] = "copy"
      /\ UNCHANGED <<saved, token, revbuf, alone, running, sender>>
  BY DEF CopyBytes, pool
<1>2. (Job(w))' = text
  BY <1>1 DEF Job, TextOf
<1>3. /\ text \in Seq(Bytes) /\ Len(text) \in Nat
      /\ buf[w] \in Seq(Bytes) /\ Len(buf[w]) \in Nat
      /\ Chunk \in Nat \ {0}
      /\ Len(buf[w]) <= Len(text) /\ \A i \in 1..Len(buf[w]) : buf[w][i] = text[i]
  BY <1>1, UdpAssumption DEF FieldIInv, UdpIInv, SplitInv, Texts, Right, Copied
<1>4. Len(Append(text, Nul)) = Len(text) + 1
  BY <1>3
<1>5. PICK k \in {Len(buf[w]) + Chunk, Len(Append(text, Nul))} :
        /\ k <= Len(Append(text, Nul))
        /\ buf' = [buf EXCEPT ![w] = buf[w] \o SubSeq(Append(text, Nul), Len(buf[w]) + 1, k)]
        /\ \/ k < Len(Append(text, Nul)) /\ UNCHANGED pc
           \/ k = Len(Append(text, Nul)) /\ text = <<>> /\ pc' = [pc EXCEPT ![w] = "check"]
           \/ /\ k = Len(Append(text, Nul)) /\ text # <<>> /\ pc' = [pc EXCEPT ![w] = "scan"]
              /\ at' = [at EXCEPT ![w] = [buf |-> w, pos |-> 1]]
  BY DEF CopyBytes, GoTo, Job
<1>6. k \in Nat /\ Len(buf[w]) < k /\ k <= Len(text) + 1
  BY <1>3, <1>4, <1>5
<1>7. /\ Len(buf'[w]) = k
      /\ \A i \in 1..k : buf'[w][i] = IF i <= Len(text) THEN text[i] ELSE Nul
  <2>1. PICK c : c = buf[w] \o SubSeq(Append(text, Nul), Len(buf[w]) + 1, k)
    OBVIOUS
  <2>2. buf'[w] = c
    BY <1>5, <2>1 DEF FieldIInv, UdpIInv, SplitInv
  <2>3. Len(c) = k /\ \A i \in 1..k : c[i] = IF i <= Len(text) THEN text[i] ELSE Nul
    <3>1. PICK b \in Seq(Bytes) : b = buf[w]
      BY <1>3
    <3>2. /\ Len(b) <= Len(text) /\ \A i \in 1..Len(b) : b[i] = text[i]
          /\ Len(b) < k
      BY <1>3, <1>6, <3>1
    <3>3. c = b \o SubSeq(Append(text, Nul), Len(b) + 1, k)
      BY <2>1, <3>1
    <3>4. Spells(c, text, k)
      BY <1>6, <3>1, <3>2, <3>3, MoreBytes
    <3> QED
      BY <3>4 DEF Spells
  <2> QED
    BY <2>2, <2>3
<1>8. CASE k < Len(text) + 1
  <2>1. pc'[w] = "copy"
    BY <1>1, <1>3, <1>4, <1>5, <1>6, <1>8
  <2>2. k <= Len(text) /\ \A i \in 1..k : buf'[w][i] = text[i]
    BY <1>3, <1>6, <1>7, <1>8
  <2> QED
    BY <1>2, <1>7, <2>1, <2>2 DEF Right, Copied
<1>9. CASE k = Len(text) + 1
  <2>1. /\ pc'[w] = IF text = <<>> THEN "check" ELSE "scan"
        /\ text # <<>> => at'[w] = [buf |-> w, pos |-> 1]
    BY <1>3, <1>4, <1>5, <1>9 DEF FieldIInv, UdpIInv, SplitInv
  <2>2. /\ Len(buf'[w]) >= Len(text) + 1
        /\ buf'[w][Len(text) + 1] = Nul
        /\ \A i \in 1..Len(text) : buf'[w][i] = IF text[i] = Comma /\ i < 1 THEN Nul ELSE text[i]
    BY <1>3, <1>7, <1>9
  <2>3. revbuf'[w] = <<>>
    BY <1>1 DEF FieldIInv, FieldInv
  <2>4. /\ DOMAIN revbuf'[w] = {}
        /\ \A p \in Starts(text) : ~(p < 1)
    BY <1>3, <2>3 DEF Starts
  <2>5. 1 \in Places(text) /\ (text = <<>> <=> 1 = Len(text) + 1)
    BY FirstPlace
  <2>6. /\ pc'[w] = "load" => FALSE
        /\ pc'[w] = "store" => FALSE
        /\ pc'[w] \in {"scan", "store"} => at'[w].buf = w
        /\ pc'[w] = "scan" => at'[w].pos = 1
        /\ pc'[w] = "check" => 1 = Len(text) + 1
        /\ pc'[w] # "copy"
    BY <2>1, <2>5
  <2>7. Cut(w, text, 1)' /\ Collected(w, text, 1)' /\ Strtok(w, text, 1)'
    BY <2>2, <2>4, <2>6 DEF Cut, Collected, Strtok
  <2> QED
    BY <1>2, <2>5, <2>6, <2>7 DEF Right, Progress
<1> QED
  BY <1>3, <1>6, <1>8, <1>9

\* strtok goes on from where it has come to.
LEMMA LoadField ==
  ASSUME UdpIInv, NEW w \in Workers, Load(w), NEW text, NEW c,
         Cut(w, text, c), Collected(w, text, c), Strtok(w, text, c)
  PROVE  Cut(w, text, c)' /\ Collected(w, text, c)' /\ Strtok(w, text, c)'
<1>1. /\ pc[w] = "load" /\ pc'[w] = "scan"
      /\ at'[w] = saved
      /\ UNCHANGED <<buf, revbuf>>
  BY DEF Load, GoTo, UdpIInv, SplitInv
<1>2. at'[w] = [buf |-> w, pos |-> c]
  BY <1>1 DEF Strtok
<1>3. Cut(w, text, c)' /\ Collected(w, text, c)'
  BY <1>1 DEF Cut, Collected
<1>4. at'[w].buf = w /\ at'[w].pos = c
  BY <1>2
<1> QED
  BY <1>1, <1>3, <1>4 DEF Strtok

\* It finds the field that begins there, or the end.
LEMMA ScanField ==
  ASSUME UdpIInv, NEW w \in Workers, Scan(w), ~Restart, NEW text \in Texts, NEW c \in Places(text),
         Cut(w, text, c), Collected(w, text, c), Strtok(w, text, c)
  PROVE  Cut(w, text, c)' /\ Collected(w, text, c)' /\ Strtok(w, text, c)'
<1>1. /\ pc[w] = "scan" /\ pc'[w] = "store"
      /\ UNCHANGED <<buf, revbuf, at>>
  BY DEF Scan, GoTo, UdpIInv, SplitInv
<1>2. at[w].pos = c /\ at[w].buf = w
  BY <1>1 DEF Strtok
<1>3. PICK b : b = buf[w]
  OBVIOUS
<1>4. PICK t \in Tokens(b, c) : token'[w] = t
  BY <1>2, <1>3 DEF Scan, UdpIInv, SplitInv
<1>5. /\ text \in Seq(Bytes) /\ Len(text) \in Nat
      /\ b \in Seq(Bytes) /\ Len(b) \in Nat
      /\ Len(b) >= Len(text) + 1
      /\ b[Len(text) + 1] = Nul
      /\ \A k \in 1..Len(text) : b[k] = IF text[k] = Comma /\ k < c THEN Nul ELSE text[k]
  BY <1>3 DEF Cut, UdpIInv, SplitInv, Texts
<1>6. Nul # Comma
  BY DEF Nul, Comma
<1>7. c \in 1..Len(text) + 1
  BY <1>5 DEF Places, Starts
<1>8. b[c] # Comma
  <2>1. CASE c = Len(text) + 1
    BY <1>5, <1>6, <2>1
  <2>2. CASE c \in Starts(text)
    <3>1. c \in 1..Len(text) /\ text[c] # Comma
      BY <1>5, <2>2 DEF Starts
    <3> QED
      BY <1>5, <1>6, <3>1
  <2> QED
    BY <2>1, <2>2 DEF Places
<1>9. PICK e \in c..Len(text) + 1 : /\ Ends(text, c, e)
                                    /\ b[e] = IF e = Len(text) + 1 THEN Nul ELSE Comma
                                    /\ \A m \in c..e - 1 : b[m] \notin {Comma, Nul}
  <2>1. CASE c = Len(text) + 1
    <3>1. c \in c..Len(text) + 1 /\ \A m \in c..c - 1 : FALSE
      BY <1>5, <2>1
    <3> QED
      BY <1>5, <2>1, <3>1 DEF Ends
  <2>2. CASE c \in Starts(text)
    <3>1. PICK e \in c + 1..Len(text) + 1 : Ends(text, c, e)
      BY <2>2, FieldEnds
    <3>2. c \in 1..Len(text)
      BY <1>5, <2>2 DEF Starts
    <3>3. /\ e = Len(text) + 1 \/ text[e] = Comma
          /\ \A m \in c..e - 1 : text[m] # Comma
      BY <1>5, <3>1, <3>2 DEF Ends
    <3>4. b[e] = IF e = Len(text) + 1 THEN Nul ELSE Comma
      BY <1>5, <3>1, <3>2, <3>3
    <3>5. \A m \in c..e - 1 : b[m] \notin {Comma, Nul}
      <4> TAKE m \in c..e - 1
      <4>1. m \in 1..Len(text) /\ text[m] # Comma
        BY <1>5, <3>1, <3>2, <3>3
      <4>2. text[m] # Nul
        BY <1>5, <4>1 DEF Texts
      <4> QED
        BY <1>5, <4>1, <4>2
    <3> QED
      BY <3>1, <3>2, <3>4, <3>5
  <2> QED
    BY <2>1, <2>2 DEF Places
<1>10. /\ t.from \in Nat /\ t.to \in Nat /\ t.next \in Nat
       /\ c <= t.from /\ t.from <= t.to
       /\ t.next \in {t.to, t.to + 1}
       /\ \A m \in c..t.to :
            m <= Len(b) =>
              /\ m < t.from => b[m] = Comma
              /\ t.from <= m /\ m < t.to => b[m] \notin {Comma, Nul}
              /\ m = t.to => b[m] = IF t.next = t.to THEN Nul ELSE Comma
  <2>1. Furthest(b) \in Nat
    BY <1>5, UdpAssumption DEF Furthest
  <2>2. t \in [from : c..Furthest(b), to : c..Furthest(b), next : c..Furthest(b) + 1]
    BY DEF Tokens
  <2>3. t.from \in c..Furthest(b) /\ t.to \in c..Furthest(b) /\ t.next \in c..Furthest(b) + 1
    BY <2>2
  <2>4. /\ t.from <= t.to
        /\ t.next \in {t.to, t.to + 1}
        /\ \A m \in c..t.to :
            m <= Len(b) =>
              /\ m < t.from => b[m] = Comma
              /\ t.from <= m /\ m < t.to => b[m] \notin {Comma, Nul}
              /\ m = t.to => b[m] = IF t.next = t.to THEN Nul ELSE Comma
    BY DEF Tokens
  <2> QED
    BY <1>5, <1>7, <2>1, <2>3, <2>4
<1>11. t.from = c
  <2>1. c \in c..t.to /\ c <= Len(b)
    BY <1>5, <1>7, <1>10
  <2>2. ~(c < t.from)
    BY <1>8, <1>10, <2>1
  <2> QED
    BY <1>7, <1>10, <2>2
<1>12. t.to = e
  <2>1. ~(t.to < e)
    <3> SUFFICES ASSUME t.to < e PROVE FALSE
      OBVIOUS
    <3>1. t.to \in c..t.to /\ t.to <= Len(b) /\ t.to \in c..e - 1
      BY <1>5, <1>7, <1>9, <1>10
    <3> QED
      BY <1>9, <1>10, <3>1
  <2>2. ~(e < t.to)
    <3> SUFFICES ASSUME e < t.to PROVE FALSE
      OBVIOUS
    <3>1. e \in c..t.to /\ e <= Len(b) /\ t.from <= e
      BY <1>5, <1>7, <1>9, <1>10, <1>11
    <3> QED
      BY <1>9, <1>10, <3>1
  <2> QED
    BY <1>5, <1>7, <1>9, <1>10, <2>1, <2>2
<1>13. t.next = IF t.to = Len(text) + 1 THEN t.to ELSE t.to + 1
  <2>1. t.to \in c..t.to /\ t.to <= Len(b)
    BY <1>5, <1>7, <1>9, <1>10, <1>12
  <2>2. b[t.to] = IF t.next = t.to THEN Nul ELSE Comma
    BY <1>10, <2>1
  <2> QED
    BY <1>6, <1>9, <1>10, <1>12, <2>2
<1>14. Cut(w, text, c)' /\ Collected(w, text, c)'
  BY <1>1 DEF Cut, Collected
<1>15. /\ token'[w].from = c
       /\ Ends(text, c, token'[w].to)
       /\ token'[w].next = IF token'[w].to = Len(text) + 1 THEN token'[w].to ELSE token'[w].to + 1
  BY <1>4, <1>9, <1>11, <1>12, <1>13
<1> QED
  BY <1>1, <1>2, <1>14, <1>15 DEF Strtok, Ends

\* It cuts the separator off, split has one field more, and strtok has come to
\* the next; or there is none left.
LEMMA StoreField ==
  ASSUME UdpIInv, NEW w \in Workers, Store(w), ~Restart, NEW text \in Texts, NEW c \in Places(text),
         Cut(w, text, c), Collected(w, text, c), Strtok(w, text, c)
  PROVE  \E n \in Places(text) : Cut(w, text, n)' /\ Collected(w, text, n)' /\ Strtok(w, text, n)'
<1> DEFINE to == token[w].to
<1>1. /\ pc[w] = "store" /\ at[w].buf = w /\ token[w].from = c
      /\ Ends(text, c, to)
      /\ token[w].next = IF to = Len(text) + 1 THEN to ELSE to + 1
  BY DEF Store, Strtok
<1>2. /\ saved' = [buf |-> w, pos |-> token[w].next]
      /\ buf' = IF token[w].next # to /\ to <= Len(buf[w])
                  THEN [buf EXCEPT ![w] = [buf[w] EXCEPT ![to] = Nul]] ELSE buf
      /\ \/ c = to /\ pc' = [pc EXCEPT ![w] = "check"] /\ UNCHANGED revbuf
         \/ /\ c # to /\ pc' = [pc EXCEPT ![w] = "load"]
            /\ revbuf' = [revbuf EXCEPT ![w] = Append(revbuf[w], [buf |-> w, pos |-> c])]
  BY <1>1 DEF Store, Collect, GoTo, Found, CutToken
<1> HIDE DEF to
<1>3. /\ text \in Seq(Bytes) /\ Len(text) \in Nat
      /\ buf[w] \in Seq(Bytes) /\ Len(buf[w]) \in Nat
      /\ revbuf[w] \in Seq(Pointers)
      /\ w \in DOMAIN buf /\ w \in DOMAIN revbuf /\ w \in DOMAIN pc
  BY DEF UdpIInv, SplitInv, Texts
<1>4. CASE c = Len(text) + 1
  <2>1. c = to
    BY <1>1, <1>4 DEF Ends
  <2>2. pc'[w] = "check" /\ UNCHANGED <<buf, revbuf>>
    BY <1>1, <1>2, <1>3, <1>4, <2>1
  <2>3. Cut(w, text, c)' /\ Collected(w, text, c)'
    BY <2>2 DEF Cut, Collected
  <2>4. Strtok(w, text, c)'
    BY <1>4, <2>2 DEF Strtok
  <2> QED
    BY <2>3, <2>4
<1>5. CASE c \in Starts(text)
  <2> DEFINE p == [buf |-> w, pos |-> c]
             new == IF to = Len(text) + 1 THEN buf[w] ELSE [buf[w] EXCEPT ![to] = Nul]
  <2>0. PICK n : n = token[w].next
    OBVIOUS
  <2>1. n = IF to = Len(text) + 1 THEN to ELSE to + 1
    BY <1>1, <2>0
  <2>2. c \in 1..Len(text) /\ c # Len(text) + 1
    BY <1>3, <1>5 DEF Starts
  <2>3. /\ to \in c + 1..Len(text) + 1
        /\ to = Len(text) + 1 \/ text[to] = Comma
        /\ \A m \in c..to - 1 : text[m] # Comma
    BY <1>1, <2>2 DEF Ends
  <2>4. n \in Places(text) /\ c < n /\ \A q \in Starts(text) : q < n <=> q < c \/ q = c
    BY <1>1, <1>5, <2>1, NextPlace
  <2>5. /\ pc'[w] = "load" /\ saved' = [buf |-> w, pos |-> n]
        /\ revbuf'[w] = Append(revbuf[w], p)
    BY <1>2, <1>3, <2>0, <2>2, <2>3
  <2>10. buf'[w] = new
    <3>1. to <= Len(buf[w])
      BY <1>3, <2>2, <2>3 DEF Cut
    <3>2. token[w].next # to <=> to # Len(text) + 1
      BY <1>1, <1>3, <2>2, <2>3
    <3> QED
      BY <1>2, <1>3, <3>1, <3>2
  <2>6. /\ Len(new) = Len(buf[w])
        /\ \A k \in 1..Len(buf[w]) : new[k] = IF k = to /\ to # Len(text) + 1 THEN Nul ELSE buf[w][k]
    <3>1. Nul \in Bytes
      BY DEF Bytes
    <3>2. to \in 1..Len(buf[w])
      BY <1>3, <2>2, <2>3 DEF Cut
    <3>3. CASE to = Len(text) + 1
      BY <3>3
    <3>4. CASE to # Len(text) + 1
      BY <1>3, <3>1, <3>2, <3>4, ExceptSeq
    <3> QED
      BY <3>3, <3>4
  <2> HIDE DEF p, new
  <2>7. Cut(w, text, n)'
    <3>1. /\ Len(buf[w]) >= Len(text) + 1 /\ buf[w][Len(text) + 1] = Nul
          /\ \A k \in 1..Len(text) : buf[w][k] = IF text[k] = Comma /\ k < c THEN Nul ELSE text[k]
      BY DEF Cut
    <3>2. Len(new) >= Len(text) + 1 /\ new[Len(text) + 1] = Nul
      BY <1>3, <2>6, <3>1
    <3>3. ASSUME NEW k \in 1..Len(text)
          PROVE  new[k] = IF text[k] = Comma /\ k < n THEN Nul ELSE text[k]
      <4>1. CASE k = to
        <5>1. text[k] = Comma /\ k < n /\ to # Len(text) + 1
          BY <1>3, <2>1, <2>3, <3>3, <4>1
        <5> QED
          BY <1>3, <2>6, <3>1, <3>3, <4>1, <5>1
      <4>2. CASE k # to
        <5>1. text[k] = Comma => (k < n <=> k < c)
          BY <1>3, <2>1, <2>2, <2>3, <3>3, <4>2
        <5>2. new[k] = buf[w][k]
          BY <1>3, <2>6, <3>1, <3>3, <4>2
        <5>3. buf[w][k] = IF text[k] = Comma /\ k < c THEN Nul ELSE text[k]
          BY <3>1, <3>3
        <5> QED
          BY <5>1, <5>2, <5>3
      <4> QED
        BY <4>1, <4>2
    <3> QED
      BY <2>10, <3>2, <3>3 DEF Cut
  <2>8. Collected(w, text, n)'
    <3> DEFINE r == Append(revbuf[w], p)
    <3>1. /\ DOMAIN revbuf[w] = 1..Len(revbuf[w]) /\ Len(revbuf[w]) \in Nat
          /\ DOMAIN r = 1..Len(revbuf[w]) + 1
          /\ \A i \in 1..Len(revbuf[w]) : r[i] = revbuf[w][i]
          /\ r[Len(revbuf[w]) + 1] = p
      <4>1. p \in Pointers
        BY <1>1, <1>3, <2>2 DEF p, Pointers, Cut
      <4> QED
        BY <1>3, <4>1, AppendProperties
    <3>2. /\ \A i \in 1..Len(revbuf[w]) : /\ revbuf[w][i].buf = w
                                          /\ revbuf[w][i].pos \in Starts(text) \cap 1..c - 1
                                          /\ \A k \in 1..i - 1 : revbuf[w][k].pos < revbuf[w][i].pos
          /\ \A q \in Starts(text) : q < c => \E i \in 1..Len(revbuf[w]) : revbuf[w][i].pos = q
      BY <3>1 DEF Collected
    <3>3. p.buf = w /\ p.pos = c
      BY DEF p
    <3> HIDE DEF r
    <3>4. c \in Nat /\ n \in Nat /\ c < n
      BY <1>3, <2>1, <2>2, <2>3, <2>4
    <3>5. ASSUME NEW i \in 1..Len(revbuf[w]) + 1
          PROVE  /\ r[i].buf = w
                 /\ r[i].pos \in Starts(text) \cap 1..n - 1
                 /\ \A k \in 1..i - 1 : r[k].pos < r[i].pos
      <4>1. CASE i = Len(revbuf[w]) + 1
        <5>1. r[i] = p
          BY <3>1, <4>1
        <5>2. c \in 1..n - 1
          BY <2>2, <3>4
        <5>3. \A k \in 1..i - 1 : r[k].pos \in 1..c - 1
          BY <3>1, <3>2, <4>1
        <5>4. r[i].buf = w /\ r[i].pos = c
          BY <3>3, <5>1
        <5>5. \A k \in 1..i - 1 : r[k].pos < c
          BY <3>4, <5>3
        <5> QED
          BY <1>5, <5>2, <5>4, <5>5
      <4>2. CASE i # Len(revbuf[w]) + 1
        <5>1. i \in 1..Len(revbuf[w]) /\ r[i] = revbuf[w][i]
          BY <3>1, <4>2
        <5>2. \A k \in 1..i - 1 : k \in 1..Len(revbuf[w]) /\ r[k] = revbuf[w][k]
          BY <3>1, <5>1
        <5>3. revbuf[w][i].pos \in 1..n - 1
          BY <3>2, <3>4, <5>1
        <5> QED
          BY <3>2, <5>1, <5>2, <5>3
      <4> QED
        BY <4>1, <4>2
    <3>6. ASSUME NEW q \in Starts(text), q < n
          PROVE  \E i \in 1..Len(revbuf[w]) + 1 : r[i].pos = q
      <4>1. CASE q = c
        BY <3>1, <3>3, <4>1
      <4>2. CASE q < c
        <5>1. PICK i \in 1..Len(revbuf[w]) : revbuf[w][i].pos = q
          BY <3>2, <4>2
        <5> QED
          BY <3>1, <5>1
      <4> QED
        BY <2>4, <3>6, <4>1, <4>2
    <3>7. revbuf'[w] = r
      BY <2>5 DEF r
    <3> QED
      BY <3>1, <3>5, <3>6, <3>7 DEF Collected
  <2>9. Strtok(w, text, n)'
    BY <2>5 DEF Strtok
  <2> QED
    BY <2>4, <2>7, <2>8, <2>9
<1> QED
  BY <1>4, <1>5 DEF Places

\* The text of a worker in split is one that TextAssumption is about.
LEMMA SplittingText ==
  ASSUME UdpIInv, JobInv, NEW w \in Splitting
  PROVE  running[w] \in Held /\ running[w] # NoJob /\ Job(w) \in Texts
<1>1. w \in Workers /\ running[w] # NoJob
  BY DEF Splitting, JobInv
<1>2. running[w] \in Jobs /\ running[w] \in Held
  BY <1>1 DEF UdpIInv, IInv, PoolTypeOK, Held, Range
<1>3. sender[running[w]] \in Clients \cup {None}
  BY <1>2 DEF UdpIInv, IInv, PoolTypeOK
<1> QED
  BY <1>1, <1>2, <1>3, JobText DEF Job

\* A step of a worker that is alone in split brings it on.
LEMMA SplitField ==
  ASSUME FieldIInv, NEW w \in Workers, CopyBytes(w) \/ Load(w) \/ Scan(w) \/ Store(w), ~Restart
  PROVE  FieldInv'
<1>1. /\ \/ pc[w] \in {"load", "scan", "store"} /\ (Load(w) \/ Scan(w) \/ Store(w))
            /\ pc' \in {[pc EXCEPT ![w] = to] : to \in {"load", "scan", "store", "check"}}
         \/ pc[w] = "copy" /\ CopyBytes(w) /\ revbuf' = revbuf
            /\ pc' \in {[pc EXCEPT ![w] = to] : to \in {"copy", "scan", "check"}}
      /\ \A v \in Workers : v # w => revbuf'[v] = revbuf[v]
      /\ UNCHANGED <<running, sender, alone>>
  <2>1. CASE CopyBytes(w)
    <3>1. [pc EXCEPT ![w] = "copy"] = pc /\ pc[w] = "copy"
      BY <2>1 DEF CopyBytes, FieldIInv, UdpIInv, SplitInv
    <3> QED
      BY <2>1, <3>1 DEF CopyBytes, GoTo, pool
  <2>2. CASE Load(w)
    BY <2>2 DEF Load, GoTo, pool
  <2>3. CASE Scan(w)
    BY <2>3 DEF Scan, GoTo, pool
  <2>4. CASE Store(w)
    BY <2>4 DEF Store, Collect, GoTo, pool, FieldIInv, UdpIInv, SplitInv
  <2> QED
    BY <2>1, <2>2, <2>3, <2>4
<1>2. Splitting' = Splitting /\ w \in Splitting
  BY <1>1 DEF Splitting, FieldIInv, UdpIInv, SplitInv
<1>6. ASSUME alone[w], CopyBytes(w) PROVE Right(w)'
  <2>1. Right(w) /\ Job(w) \in Texts
    BY <1>2, <1>6, SplittingText DEF FieldIInv, FieldInv
  <2> QED
    BY <1>6, <2>1, CopyField
<1>3. ASSUME alone[w], ~CopyBytes(w) PROVE Right(w)'
  <2>1. Progress(w) /\ pc'[w] # "copy"
    BY <1>1, <1>2, <1>3 DEF FieldIInv, FieldInv, Right, UdpIInv, SplitInv
  <2> DEFINE text == Job(w)
  <2>2. PICK c \in Places(text) : Cut(w, text, c) /\ Collected(w, text, c) /\ Strtok(w, text, c)
    BY <2>1 DEF Progress
  <2>3. text \in Texts
    BY <1>2, SplittingText DEF FieldIInv
  <2>4. text' = text
    BY <1>1 DEF Job, TextOf
  <2>5. PICK t : t = text
    OBVIOUS
  <2> HIDE DEF text
  <2>6. t \in Texts /\ c \in Places(t) /\ Cut(w, t, c) /\ Collected(w, t, c) /\ Strtok(w, t, c)
    BY <2>2, <2>3, <2>5
  <2>7. \E n \in Places(t) : Cut(w, t, n)' /\ Collected(w, t, n)' /\ Strtok(w, t, n)'
    BY <1>3, <2>6, LoadField, ScanField, StoreField DEF FieldIInv
  <2>8. PICK n \in Places(t) : Cut(w, t, n)' /\ Collected(w, t, n)' /\ Strtok(w, t, n)'
    BY <2>7
  <2>9. (Job(w))' = t
    BY <2>4, <2>5 DEF text
  <2> QED
    BY <2>1, <2>8, <2>9 DEF Right, Progress
<1>4. ASSUME NEW v \in Splitting, alone[v] PROVE Splitting' = {v} /\ Right(v)'
  <2>1. Splitting = {v}
    BY <1>4 DEF FieldIInv, FieldInv
  <2>2. v = w
    BY <1>2, <2>1
  <2> QED
    BY <1>2, <1>3, <1>4, <1>6, <2>1, <2>2
<1>5. \A v \in Workers : pc'[v] \in {"idle", "copy", "serve"} => revbuf'[v] = <<>>
  <2> TAKE v \in Workers
  <2>1. CASE v = w
    BY <1>1, <2>1 DEF FieldIInv, FieldInv, UdpIInv, SplitInv
  <2>2. CASE v # w
    BY <1>1, <2>2 DEF FieldIInv, FieldInv, UdpIInv, SplitInv
  <2> QED
    BY <2>1, <2>2
<1> QED
  BY <1>1, <1>2, <1>4, <1>5 DEF FieldInv

\* What split has stays while the rest of the server goes on.
LEMMA OthersField ==
  ASSUME FieldIInv, NEW v,
         \A w \in Workers \ {v} : /\ pc'[w] = pc[w] /\ revbuf'[w] = revbuf[w] /\ alone'[w] = alone[w]
                                  /\ at'[w] = at[w] /\ token'[w] = token[w] /\ buf'[w] = buf[w],
         saved' = saved,
         v \in Workers => /\ pc[v] \in {"check", "serve"} /\ pc'[v] \in {"idle", "serve"}
                          /\ revbuf'[v] = <<>>,
         \A w \in Workers \ {v} :
           running[w] # NoJob => running'[w] = running[w] /\ sender'[running[w]] = sender[running[w]]
  PROVE  FieldInv'
<1>1. Splitting' = Splitting \ {v}
  BY DEF Splitting
<1>2. ASSUME NEW w \in Splitting', alone'[w] PROVE Splitting' = {w} /\ Right(w)'
  <2>1. w \in Splitting /\ w \in Workers \ {v}
    BY <1>1 DEF Splitting
  <2>2. Splitting = {w} /\ Right(w)
    BY <1>2, <2>1 DEF FieldIInv, FieldInv
  <2>3. running'[w] = running[w] /\ sender'[running[w]] = sender[running[w]]
    BY <2>1, SplittingText DEF FieldIInv
  <2>4. Right(w)'
    BY <2>1, <2>2, <2>3, RightStays
  <2> QED
    BY <1>1, <2>1, <2>2, <2>4
<1>3. \A w \in Workers : pc'[w] \in {"idle", "copy", "serve"} => revbuf'[w] = <<>>
  BY DEF FieldIInv, FieldInv
<1> QED
  BY <1>2, <1>3 DEF FieldInv

\* Every step leaves what a lone worker has in split right.
LEMMA NextField == FieldIInv /\ [Next]_vars => FieldInv'
<1> SUFFICES ASSUME FieldIInv, [Next]_vars PROVE FieldInv'
  OBVIOUS
<1>0. /\ pc \in [Workers -> {"idle", "copy", "load", "scan", "store", "check", "serve"}]
      /\ revbuf \in [Workers -> Seq(Pointers)]
      /\ alone \in [Workers -> BOOLEAN]
      /\ PoolTypeOK /\ NetworkTypeOK
  BY DEF FieldIInv, UdpIInv, IInv, SplitInv
<1>1. PICK nobody : nobody \notin Workers
  BY NoSetContainsEverything
<1>2. CASE UNCHANGED <<pc, locals, running>> /\ \A j \in Held : sender'[j] = sender[j]
  <2>1. \A w \in Workers : running[w] \in Held
    BY <1>0 DEF PoolTypeOK, Held, Range
  <2>2. /\ \A w \in Workers \ {nobody} :
             /\ pc'[w] = pc[w] /\ revbuf'[w] = revbuf[w] /\ alone'[w] = alone[w]
             /\ at'[w] = at[w] /\ token'[w] = token[w] /\ buf'[w] = buf[w]
        /\ saved' = saved
    BY <1>2 DEF locals
  <2> QED
    BY <1>1, <1>2, <2>1, <2>2, OthersField
<1>3. ASSUME NEW c \in Clients \cup {None}, Submit(c), UNCHANGED <<pc, locals>> PROVE FieldInv'
  <2>1. UNCHANGED running /\ \A j \in Held : sender'[j] = sender[j]
    BY <1>0, <1>3, SubmitHolds, SubmitIs
  <2> QED
    BY <1>2, <1>3, <2>1
<1>4. CASE Restart
  BY <1>4 DEF Restart, FieldInv, Splitting
<1>5. ASSUME NEW w \in Workers, Take(w) PROVE FieldInv'
  <2>1. /\ pc' = [pc EXCEPT ![w] = "copy"]
        /\ alone' = [v \in Workers |-> IF v = w THEN Splitting = {} ELSE alone[v] /\ v \notin Splitting]
        /\ running[w] = NoJob
        /\ UNCHANGED revbuf
    BY <1>5 DEF Take, GoTo, Pool!Start
  <2>2. Splitting' = Splitting \cup {w}
    BY <1>0, <2>1 DEF Splitting
  <2>3. ASSUME NEW v \in Splitting', alone'[v] PROVE Splitting' = {v} /\ Right(v)'
    <3>1. v \in Workers
      BY DEF Splitting
    <3>2. CASE v = w
      BY <1>5, <2>1, <2>2, <2>3, <3>2, TakeField
    <3>3. CASE v # w
      BY <2>1, <2>2, <2>3, <3>1, <3>3
    <3> QED
      BY <3>2, <3>3
  <2>4. \A v \in Workers : pc'[v] \in {"idle", "copy", "serve"} => revbuf'[v] = <<>>
    BY <1>0, <1>5, <2>1, TakeField DEF FieldIInv, FieldInv
  <2> QED
    BY <2>3, <2>4 DEF FieldInv
<1>6. ASSUME NEW w \in Workers, Check(w), ~Restart PROVE FieldInv'
  <2>1. /\ pc' = [pc EXCEPT ![w] = "serve"]
        /\ revbuf' = [revbuf EXCEPT ![w] = <<>>]
        /\ alone' = [alone EXCEPT ![w] = TRUE]
        /\ UNCHANGED <<buf, saved, at, token, running, sender>>
    BY <1>6 DEF Check, Served, GoTo, pool
  <2>2. /\ pc'[w] = "serve" /\ revbuf'[w] = <<>>
        /\ \A v \in Workers \ {w} : pc'[v] = pc[v] /\ revbuf'[v] = revbuf[v] /\ alone'[v] = alone[v]
    BY <1>0, <2>1
  <2>3. pc[w] = "check"
    BY <1>6 DEF Check
  <2> QED
    BY <2>1, <2>2, <2>3, OthersField
<1>7. ASSUME NEW w \in Workers, Answer(w) PROVE FieldInv'
  <2>1. /\ pc[w] = "serve" /\ pc' = [pc EXCEPT ![w] = "idle"]
        /\ buf' = [buf EXCEPT ![w] = <<>>]
        /\ UNCHANGED <<saved, at, token, revbuf, alone>>
        /\ running' = [running EXCEPT ![w] = NoJob]
        /\ sender' = [sender EXCEPT ![running[w]] = None]
    BY <1>7 DEF Answer, Leave, GoTo, Free, Pool!Finish
  <2>2. /\ pc'[w] = "idle" /\ revbuf'[w] = <<>>
        /\ \A v \in Workers \ {w} : pc'[v] = pc[v] /\ buf'[v] = buf[v]
    BY <1>0, <2>1 DEF FieldIInv, FieldInv
  <2>3. ASSUME NEW v \in Workers \ {w}, running[v] # NoJob
        PROVE  running'[v] = running[v] /\ sender'[running[v]] = sender[running[v]]
    <3>1. running[v] # running[w]
      BY <2>3 DEF FieldIInv, JobInv
    <3> QED
      BY <1>0, <2>1, <2>3, <3>1 DEF PoolTypeOK
  <2> QED
    BY <2>1, <2>2, <2>3, OthersField
<1>8. ASSUME NEW c \in Clients, Send(c) \/ ClientReceive(c) PROVE FieldInv'
  BY <1>2, <1>8 DEF Send, ClientReceive, pool
<1>9. ASSUME NEW c \in Clients, Receive(c) PROVE FieldInv'
  BY <1>3, <1>9 DEF Receive
<1>10. CASE ReceiveFails
  BY <1>3, <1>10 DEF ReceiveFails
<1>11. CASE Lose
  BY <1>2, <1>11 DEF Lose, pool
<1>12. ASSUME NEW w \in Workers, Worker(w) PROVE FieldInv'
  BY <1>4, <1>5, <1>6, <1>7, <1>12, SplitField DEF Worker
<1>13. CASE UNCHANGED vars
  BY <1>2, <1>13 DEF vars, pool
<1> QED
  BY <1>4, <1>8, <1>9, <1>10, <1>11, <1>12, <1>13 DEF Next, Die

\* The string at a pointer to a field that is cut off is the field.
LEMMA StringIs ==
  ASSUME NEW text \in Texts, NEW p \in Starts(text), NEW w, NEW r,
         buf[w] \in Seq(Bytes), Cut(w, text, Len(text) + 1), r.buf = w, r.pos = p
  PROVE  StringAt(r) = FieldAt(text, p)
<1> DEFINE b == buf[w]
           end == CHOOSE k \in p..Len(b) : b[k] = Nul /\ \A m \in p..k - 1 : b[m] # Nul
           stop == CHOOSE k \in p..Len(text) + 1 : /\ k = Len(text) + 1 \/ text[k] = Comma
                                                   /\ \A m \in p..k - 1 : text[m] # Comma
<1>1. StringAt(r) = SubSeq(b, p, end - 1) /\ FieldAt(text, p) = SubSeq(text, p, stop - 1)
  BY DEF StringAt, FieldAt
<1>2. /\ text \in Seq(Bytes) /\ Len(text) \in Nat /\ p \in 1..Len(text)
      /\ b \in Seq(Bytes) /\ Len(b) \in Nat /\ Len(b) >= Len(text) + 1
      /\ b[Len(text) + 1] = Nul
      /\ \A k \in 1..Len(text) : text[k] # Nul /\ b[k] = IF text[k] = Comma THEN Nul ELSE text[k]
  BY DEF Cut, Texts, Starts
<1>3. PICK e \in p + 1..Len(text) + 1 : /\ e = Len(text) + 1 \/ text[e] = Comma
                                        /\ \A m \in p..e - 1 : text[m] # Comma
  BY <1>2, FieldEnds DEF Ends
<1> HIDE DEF b
<1>4. stop = e
  <2>1. \A k \in p..Len(text) + 1 :
          ((k = Len(text) + 1 \/ text[k] = Comma) /\ \A m \in p..k - 1 : text[m] # Comma) <=> k = e
    <3> TAKE k \in p..Len(text) + 1
    <3>1. CASE k < e
      BY <1>2, <1>3, <3>1
    <3>2. CASE k = e
      BY <1>2, <1>3, <3>2
    <3>3. CASE k > e
      BY <1>2, <1>3, <3>3
    <3> QED
      BY <1>2, <1>3, <3>1, <3>2, <3>3
  <2> QED
    BY <1>2, <1>3, <2>1
<1>5. end = e
  <2>0. b[e] = Nul
    <3>1. CASE e = Len(text) + 1
      BY <1>2, <3>1
    <3>2. CASE e # Len(text) + 1
      BY <1>2, <1>3, <3>2
    <3> QED
      BY <3>1, <3>2
  <2>1. b[e] = Nul /\ \A m \in p..e - 1 : b[m] # Nul
    <3> SUFFICES ASSUME NEW m \in p..e - 1 PROVE b[m] # Nul
      BY <2>0
    <3>1. m \in 1..Len(text) /\ text[m] # Comma
      BY <1>2, <1>3
    <3> QED
      BY <1>2, <3>1
  <2>2. \A k \in p..Len(b) : (b[k] = Nul /\ \A m \in p..k - 1 : b[m] # Nul) <=> k = e
    <3> TAKE k \in p..Len(b)
    <3>1. CASE k < e
      BY <1>2, <1>3, <2>1, <3>1
    <3>2. CASE k = e
      BY <1>2, <1>3, <2>1, <3>2
    <3>3. CASE k > e
      BY <1>2, <1>3, <2>1, <3>3
    <3> QED
      BY <1>2, <1>3, <3>1, <3>2, <3>3
  <2>3. e \in p..Len(b)
    BY <1>2, <1>3
  <2> QED
    BY <2>2, <2>3
<1> HIDE DEF end, stop
<1>6. /\ SubSeq(b, p, e - 1) \in Seq(Bytes) /\ SubSeq(text, p, e - 1) \in Seq(Bytes)
      /\ Len(SubSeq(b, p, e - 1)) = e - p /\ Len(SubSeq(text, p, e - 1)) = e - p
      /\ \A i \in 1..e - p : /\ SubSeq(b, p, e - 1)[i] = b[p + i - 1]
                             /\ SubSeq(text, p, e - 1)[i] = text[p + i - 1]
  <2>1. p \in 1..Len(text) + 1 /\ e - 1 \in Nat /\ e - 1 <= Len(text)
    BY <1>2, <1>3
  <2> QED
    BY <1>2, <1>3, <2>1, SubSeqProperties
<1>7. \A i \in 1..e - p : b[p + i - 1] = text[p + i - 1]
  <2> TAKE i \in 1..e - p
  <2>1. p + i - 1 \in p..e - 1 /\ p + i - 1 \in 1..Len(text)
    BY <1>2, <1>3
  <2> QED
    BY <1>2, <1>3, <2>1
<1>8. SubSeq(b, p, e - 1) = SubSeq(text, p, e - 1)
  <2> DEFINE x == SubSeq(b, p, e - 1)
             y == SubSeq(text, p, e - 1)
  <2>1. x \in Seq(Bytes) /\ y \in Seq(Bytes) /\ Len(x) = Len(y)
    BY <1>6
  <2>2. \A i \in 1..Len(x) : x[i] = y[i]
    BY <1>6, <1>7
  <2> HIDE DEF x, y
  <2>3. x = y
    BY <2>1, <2>2, SeqEqual
  <2> QED
    BY <2>3 DEF x, y
<1> QED
  BY <1>1, <1>4, <1>5, <1>8

\* A worker that had split for itself has the fields of its datagram, whatever
\* earlier jobs left in the buffers and the static pointer, for any texts, any
\* number of workers and jobs, and through restarts of the server.
THEOREM SplitIsRight == Spec => []SplitGivesFields
<1>1. Init => FieldIInv
  <2>1. Init => JobInv /\ FieldInv
    BY DEF Init, JobInv, FieldInv, Splitting
  <2> QED
    BY <2>1, InitIInv, InitSplit DEF UdpIInv, FieldIInv
<1>2. FieldIInv /\ [Next]_vars => FieldIInv'
  BY NextIInv, NextSplit, NextJob, NextField DEF UdpIInv, FieldIInv
<1>3. FieldIInv => SplitGivesFields
  <2> SUFFICES ASSUME FieldIInv, NEW w \in Workers, pc[w] = "check", alone[w]
               PROVE  LET text == Job(w) IN
                      /\ {revbuf[w][i].pos : i \in DOMAIN revbuf[w]} = Starts(text)
                      /\ \A i \in DOMAIN revbuf[w] :
                           /\ revbuf[w][i].buf = w
                           /\ \A k \in 1..i - 1 : revbuf[w][k].pos < revbuf[w][i].pos
                           /\ StringAt(revbuf[w][i]) = FieldAt(text, revbuf[w][i].pos)
    BY DEF SplitGivesFields, Job
  <2> DEFINE text == Job(w)
  <2>1. w \in Splitting
    BY DEF Splitting
  <2>2. text \in Texts
    BY <2>1, SplittingText DEF FieldIInv
  <2>3. PICK c \in Places(text) : Cut(w, text, c) /\ Collected(w, text, c) /\ Strtok(w, text, c)
    BY <2>1 DEF FieldIInv, FieldInv, Right, Progress
  <2> HIDE DEF text
  <2>4. c = Len(text) + 1
    BY <2>3 DEF Strtok
  <2>5. \A p \in Starts(text) : p < c
    BY <2>2, <2>4 DEF Starts, Texts
  <2>6. {revbuf[w][i].pos : i \in DOMAIN revbuf[w]} = Starts(text)
    BY <2>3, <2>5 DEF Collected
  <2>7. buf[w] \in Seq(Bytes)
    BY DEF FieldIInv, UdpIInv, SplitInv
  <2>8. ASSUME NEW i \in DOMAIN revbuf[w]
        PROVE  /\ revbuf[w][i].buf = w
               /\ \A k \in 1..i - 1 : revbuf[w][k].pos < revbuf[w][i].pos
               /\ StringAt(revbuf[w][i]) = FieldAt(text, revbuf[w][i].pos)
    BY <2>2, <2>3, <2>4, <2>7, StringIs DEF Collected
  <2> QED
    BY <2>6, <2>8 DEF text
<1> QED
  BY <1>1, <1>2, <1>3, PTL DEF Spec
=============================================================================
