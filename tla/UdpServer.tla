------------------------------ MODULE UdpServer ------------------------------
(***************************************************************************)
(* The UDP server of main.c with its clients (client.c) and the network    *)
(* between them.  Main turns each datagram into a job; workers run         *)
(* deal_msg, which cuts the text into fields with strtok, and answer.  The *)
(* pool is the stack of jobs of JobDispatch, which ThreadPool implements;  *)
(* AddUser and AllocIp are those of Provision: here each of their outcomes *)
(* is a reply.                                                             *)
(*                                                                         *)
(* strtok keeps its place in a pointer that all threads share, and that    *)
(* may point into the buffer of another thread, be it copied to, read or   *)
(* no more.  A text is a sequence of bytes, a field being a byte or two, so *)
(* that a place is a position.  Where C defines nothing, strtok finds any  *)
(* bytes, or the server ends.                                              *)
(***************************************************************************)
EXTENDS Naturals, SequencesExt

CONSTANTS Clients,  \* who sends datagrams, each from an address of its own
          Text,     \* client -> the text it sends
          Workers, Jobs, NoJob,  \* as in JobDispatch; Jobs bounds what is received
          Faults,   \* what may go wrong: some of the set below
          Chunk,    \* how many bytes strcpy copies before others can see them
          Reach,    \* how far a strtok gets that is past all known bytes: a bound
          None      \* a NULL pointer, the sender of nothing

Comma == ","
Nul == "nul"
Slots == 8  \* of revbuf

ASSUME UdpAssumption ==
  /\ Faults \subseteq {"lose",        \* the network loses a datagram
                       "duplicate",   \* it delivers one again
                       "recv_error",  \* recvfrom fails, and main does not look
                       "die"}         \* the server ends at any point
  /\ \A c \in Clients : Text[c] \in Seq(STRING) /\ Nul \notin Range(Text[c])
  /\ Reach \in Nat /\ Chunk \in Nat \ {0}
  /\ None \notin Clients /\ NoJob \notin Jobs

\* No text has an empty field, which strtok would not give.
ASSUME TextAssumption ==
  \A c \in Clients : \A i \in DOMAIN Text[c] :
    Text[c][i] = Comma => i \in 2..Len(Text[c]) - 1 /\ Text[c][i + 1] # Comma

VARIABLES client,    \* client -> whether it waits in recvfrom
          requests,  \* the clients that have a datagram on its way to the server
          replies,   \* client -> how many replies are on their way to it
          lost,      \* history: the clients that lost a datagram, or a job
          stack, running, finished, dropped,  \* as in JobDispatch
          sender,    \* job -> whose datagram it is
          pc,        \* worker -> where it is in deal_msg
          buf,       \* worker -> the bytes strcpy has put into its local buf: what is
                     \* past them, or anywhere while it is not in deal_msg, can be anything
          saved,     \* the static pointer of strtok
          at,        \* worker -> where its strtok started from, and
          token,     \* what it has found there
          revbuf,    \* worker -> the pointers split has collected
          alone      \* history: worker -> whether split was its own all the time

network == <<client, requests, replies, lost>>
pool == <<stack, running, finished, dropped, sender>>
locals == <<buf, saved, at, token, revbuf, alone>>
vars == <<network, pool, pc, locals>>

Pool == INSTANCE JobDispatch

NoToken == [from |-> 0, to |-> 0, next |-> 0]

Init == /\ stack = <<>>
        /\ running = [w \in Workers |-> NoJob]
        /\ finished = {} /\ dropped = {}
        /\ sender = [j \in Jobs |-> None]
        /\ client = [c \in Clients |-> "idle"]
        /\ requests = {} /\ lost = {}
        /\ replies = [c \in Clients |-> 0]
        /\ pc = [w \in Workers |-> "idle"]
        /\ buf = [w \in Workers |-> <<>>]
        /\ saved = None
        /\ at = [w \in Workers |-> None]
        /\ token = [w \in Workers |-> NoToken]
        /\ revbuf = [w \in Workers |-> <<>>]
        /\ alone = [w \in Workers |-> TRUE]

TextOf(c) == IF c = None THEN <<>> ELSE Text[c]
GoTo(w, to) == pc' = [pc EXCEPT ![w] = to]
Splitting == {w \in Workers : pc[w] \in {"copy", "load", "scan", "store", "check"}}
-----------------------------------------------------------------------------
(* client.c and the network *)

\* sendto; the client then blocks in recvfrom, without a timeout.
Send(c) == /\ client[c] = "idle"
           /\ client' = [client EXCEPT ![c] = "waiting"]
           /\ requests' = requests \cup {c}
           /\ UNCHANGED <<replies, lost, pool, pc, locals>>

\* recvfrom returns the next datagram, whatever request it answers.
ClientReceive(c) ==
  /\ client[c] = "waiting"
  /\ replies[c] > 0
  /\ replies' = [replies EXCEPT ![c] = @ - 1]
  /\ client' = [client EXCEPT ![c] = "idle"]
  /\ UNCHANGED <<requests, lost, pool, pc, locals>>

Lose == /\ "lose" \in Faults
        /\ \/ \E c \in requests : /\ requests' = requests \ {c}
                                  /\ lost' = lost \cup {c}
                                  /\ UNCHANGED replies
           \/ \E c \in Clients : /\ replies[c] > 0
                                 /\ replies' = [replies EXCEPT ![c] = @ - 1]
                                 /\ lost' = lost \cup {c}
                                 /\ UNCHANGED requests
        /\ UNCHANGED <<client, pool, pc, locals>>
-----------------------------------------------------------------------------
(* main *)

\* malloc, and workqueue_add_job.  Which block malloc takes does not matter.
Submit(c) == LET j == CHOOSE k \in Jobs : k \notin Pool!Accepted IN
             /\ Pool!Accepted # Jobs
             /\ Pool!Submit(j)
             /\ sender' = [sender EXCEPT ![j] = c]

\* recvfrom, and a job with the text and the address goes to the pool.
Receive(c) == /\ c \in requests
              /\ requests' \in {requests \ {c}} \cup {requests : f \in Faults \cap {"duplicate"}}
              /\ Submit(c)
              /\ UNCHANGED <<client, replies, lost, pc, locals>>

\* recvfrom fails: the job has the empty text of the cleared buf.
ReceiveFails == /\ "recv_error" \in Faults
                /\ Submit(None)
                /\ UNCHANGED <<network, pc, locals>>

\* The server ends, with its jobs and any of the datagrams that have reached its
\* socket, and is started again.
Restart ==
  LET gone == Range(stack) \cup (Range(running) \ {NoJob}) IN
  /\ stack' = <<>>
  /\ running' = [w \in Workers |-> NoJob]
  /\ pc' = [w \in Workers |-> "idle"]
  /\ buf' = [w \in Workers |-> <<>>]
  /\ saved' = None
  /\ at' = [w \in Workers |-> None]
  /\ token' = [w \in Workers |-> NoToken]
  /\ revbuf' = [w \in Workers |-> <<>>]
  /\ alone' = [w \in Workers |-> TRUE]
  /\ dropped' = dropped \cup gone
  /\ requests' \in SUBSET requests
  /\ lost' = lost \cup (requests \ requests') \cup ({sender[j] : j \in gone} \ {None})
  /\ sender' = [j \in Jobs |-> None]
  /\ UNCHANGED <<client, replies, finished>>

Die == "die" \in Faults /\ Restart
-----------------------------------------------------------------------------
(* strtok *)

Furthest(text) == IF Len(text) > Reach THEN Len(text) ELSE Reach

\* The tokens strtok may find from place i of a text on: past separators, up to
\* a separator or the end of the text, with the place to go on from.
Tokens(text, i) ==
  {t \in [from : i..Furthest(text), to : i..Furthest(text), next : i..Furthest(text) + 1] :
     /\ t.from <= t.to
     /\ t.next \in {t.to, t.to + 1}
     /\ t.from = t.to => t.next = t.to
     /\ \A m \in i..t.to :
          m <= Len(text) =>
            /\ m < t.from => text[m] = Comma
            /\ t.from <= m /\ m < t.to => text[m] \notin {Comma, Nul}
            /\ m = t.to => text[m] = IF t.next = t.to THEN Nul ELSE Comma}

\* No end of the text at p is known: deal_msg has returned, strcpy is not done,
\* or p is past the text.
Stray(p) == \A k \in p.pos..Len(buf[p.buf]) : buf[p.buf][k] # Nul

\* strtok(NULL) starts from where the last call of any thread ended.
Load(w) == /\ pc[w] = "load"
           /\ at' = [at EXCEPT ![w] = saved]
           /\ GoTo(w, "scan")
           /\ UNCHANGED <<network, pool, buf, saved, token, revbuf, alone>>

Scan(w) ==
  /\ pc[w] = "scan"
  /\ \/ /\ \E t \in Tokens(buf[at[w].buf], at[w].pos) : token' = [token EXCEPT ![w] = t]
        /\ GoTo(w, "store")
        /\ UNCHANGED <<network, pool, buf, saved, at, revbuf, alone>>
     \/ Stray(at[w]) /\ Restart

\* The locals of strtok are gone once it has returned.
Return(w) == /\ at' = [at EXCEPT ![w] = None]
             /\ token' = [token EXCEPT ![w] = NoToken]

\* split has got the token, and calls strtok again.
Collect(w) == /\ revbuf' = [revbuf EXCEPT ![w] = Append(@, [buf |-> at[w].buf, pos |-> token[w].from])]
              /\ GoTo(w, "load")

Found(w) == token[w].from # token[w].to

\* The end of the token in the buffer it lies in: strtok writes it over a
\* separator, and it is kept where strcpy has been.
CutToken(w) ==
  IF token[w].next # token[w].to /\ token[w].to <= Len(buf[at[w].buf])
    THEN [buf EXCEPT ![at[w].buf][token[w].to] = Nul]
    ELSE buf

\* The end of the token, or a pointer to it, is written where it does not belong.
WritesAstray(w) == \/ token[w].next # token[w].to /\ token[w].to > Len(buf[at[w].buf])
                   \/ Found(w) /\ Len(revbuf[w]) >= Slots

\* Mutants of Store: no end is put to the token; at the end of a text the static
\* pointer becomes NULL.
StoreUncut(w) ==
  /\ pc[w] = "store"
  /\ saved' = [buf |-> at[w].buf, pos |-> token[w].next]
  /\ Return(w)
  /\ IF Found(w) THEN Collect(w) ELSE GoTo(w, "check") /\ UNCHANGED revbuf
  /\ UNCHANGED <<network, pool, buf, alone>>
StoreNull(w) ==
  /\ pc[w] = "store"
  /\ saved' = IF token[w].next # token[w].to THEN [buf |-> at[w].buf, pos |-> token[w].next] ELSE None
  /\ buf' = CutToken(w)
  /\ Return(w)
  /\ IF Found(w) THEN Collect(w) ELSE GoTo(w, "check") /\ UNCHANGED revbuf
  /\ UNCHANGED <<network, pool, alone>>

\* The token is cut off and the static pointer written.  Where there is none
\* strtok returns NULL, and split is done.
Store(w) ==
  /\ pc[w] = "store"
  /\ \/ /\ saved' = [buf |-> at[w].buf, pos |-> token[w].next]
        /\ buf' = CutToken(w)
        /\ Return(w)
        /\ IF Found(w) THEN Collect(w) ELSE GoTo(w, "check") /\ UNCHANGED revbuf
        /\ UNCHANGED <<network, pool, alone>>
     \/ WritesAstray(w) /\ Restart
-----------------------------------------------------------------------------
(* deal_msg *)

\* A worker takes the job on top, and begins to copy its text.
Take(w) ==
  /\ Pool!Start(w)
  /\ GoTo(w, "copy")
  /\ alone' = [v \in Workers |-> IF v = w THEN Splitting = {}
                                          ELSE alone[v] /\ v \notin Splitting]
  /\ UNCHANGED <<network, sender, buf, saved, at, token, revbuf>>

\* strcpy copies the next bytes, or all that are left with the NUL.  Then the
\* worker calls strtok with the text unless that is empty.
CopyBytes(w) ==
  LET text == TextOf(sender[running[w]])
      all == Append(text, Nul)
      done == Len(buf[w])
  IN  /\ pc[w] = "copy"
      /\ \E k \in {done + Chunk, Len(all)} :
           /\ k <= Len(all)
           /\ buf' = [buf EXCEPT ![w] = @ \o SubSeq(all, done + 1, k)]
           /\ \/ k < Len(all) /\ UNCHANGED <<pc, at>>
              \/ k = Len(all) /\ text = <<>> /\ GoTo(w, "check") /\ UNCHANGED at
              \/ /\ k = Len(all) /\ text # <<>> /\ GoTo(w, "scan")
                 /\ at' = [at EXCEPT ![w] = [buf |-> w, pos |-> 1]]
      /\ UNCHANGED <<network, pool, saved, token, revbuf, alone>>

\* The string at a pointer that is not stray.
StringAt(p) == LET text == buf[p.buf]
                   end == CHOOSE k \in p.pos..Len(text) :
                            /\ text[k] = Nul
                            /\ \A m \in p.pos..k - 1 : text[m] # Nul
               IN  SubSeq(text, p.pos, end - 1)

\* deal_msg has what it needs of split.
Served(w, to) == /\ GoTo(w, to)
                 /\ revbuf' = [revbuf EXCEPT ![w] = <<>>]
                 /\ alone' = [alone EXCEPT ![w] = TRUE]

\* The job is freed.
Free(w) == Pool!Finish(w) /\ sender' = [sender EXCEPT ![running[w]] = None]

\* deal_msg returns, and its buf is no more.
Leave(w) == /\ GoTo(w, "idle")
            /\ buf' = [buf EXCEPT ![w] = <<>>]
            /\ UNCHANGED <<saved, at, token, revbuf, alone>>

\* Mutant of Check: a bad format is ignored.
CheckIgnores(w) ==
  /\ pc[w] = "check"
  /\ \/ Len(revbuf[w]) = 3 /\ Served(w, "serve") /\ UNCHANGED <<network, pool, buf, saved, at, token>>
     \/ /\ Len(revbuf[w]) # 3
        /\ Served(w, "idle")
        /\ Free(w)
        /\ buf' = [buf EXCEPT ![w] = <<>>]
        /\ UNCHANGED <<network, saved, at, token>>

\* Three fields are copied from where they are by now, which ends the server if
\* nothing does; any other number of them is exit(0), for all workers.
Check(w) ==
  /\ pc[w] = "check"
  /\ \/ Len(revbuf[w]) = 3 /\ Served(w, "serve") /\ UNCHANGED <<network, pool, buf, saved, at, token>>
     \/ (Len(revbuf[w]) # 3 \/ \E r \in Range(revbuf[w]) : Stray(r)) /\ Restart

\* Mutant of Answer: no reply where AddUser or AllocIp failed.
AnswerSuccessOnly(w) ==
  /\ pc[w] = "serve"
  /\ replies' \in {replies, [replies EXCEPT ![sender[running[w]]] = @ + 1]}
  /\ Free(w)
  /\ Leave(w)
  /\ UNCHANGED <<client, requests, lost>>

\* AddUser, AllocIp, sendto to the address of the job with the id of its text,
\* and the job is freed.
Answer(w) ==
  /\ pc[w] = "serve"
  /\ replies' = [replies EXCEPT ![sender[running[w]]] = @ + 1]
  /\ Free(w)
  /\ Leave(w)
  /\ UNCHANGED <<client, requests, lost>>

Worker(w) == Take(w) \/ CopyBytes(w) \/ Load(w) \/ Scan(w) \/ Store(w) \/ Check(w) \/ Answer(w)

Next == \/ \E c \in Clients : Send(c) \/ ClientReceive(c) \/ Receive(c)
        \/ \E w \in Workers : Worker(w)
        \/ ReceiveFails \/ Lose \/ Die

Spec == Init /\ [][Next]_vars

\* Workers run, as in ThreadPool; main reads its socket for ever, in the order of
\* arrival, and a client reads its own.
Fairness == /\ \A w \in Workers : WF_vars(Worker(w))
            /\ \A c \in Clients : WF_vars(Receive(c)) /\ WF_vars(ClientReceive(c))

FairSpec == Spec /\ Fairness
-----------------------------------------------------------------------------
(* Properties *)

Pointers == [buf : Workers, pos : Nat \ {0}]

Bytes == STRING \cup {Nul}

NetworkTypeOK == /\ client \in [Clients -> {"idle", "waiting"}]
                 /\ requests \subseteq Clients
                 /\ replies \in [Clients -> Nat]
                 /\ lost \subseteq Clients

PoolTypeOK == /\ stack \in Seq(Jobs)
              /\ running \in [Workers -> Jobs \cup {NoJob}]
              /\ finished \subseteq Jobs /\ dropped \subseteq Jobs
              /\ sender \in [Jobs -> Clients \cup {None}]

UdpTypeOK == /\ NetworkTypeOK /\ PoolTypeOK
             /\ pc \in [Workers -> {"idle", "copy", "load", "scan", "store", "check", "serve"}]
             /\ \A w \in Workers : buf[w] \in Seq(Bytes) /\ revbuf[w] \in Seq(Pointers)
             /\ saved \in Pointers \cup {None}
             /\ at \in [Workers -> Pointers \cup {None}]
             /\ token \in [Workers -> [from : Nat, to : Nat, next : Nat]]
             /\ alone \in [Workers -> BOOLEAN]
             /\ \A w \in Workers :
                  /\ pc[w] = "idle" => buf[w] = <<>>
                  /\ pc[w] = "load" => saved \in Pointers
                  /\ pc[w] \in {"scan", "store"} => at[w] \in Pointers

\* Where the fields of a text begin, and the field that begins at i.
Starts(text) == {i \in DOMAIN text : text[i] # Comma /\ (i = 1 \/ text[i - 1] = Comma)}
FieldAt(text, i) ==
  LET end == CHOOSE k \in i..Len(text) + 1 : /\ k = Len(text) + 1 \/ text[k] = Comma
                                             /\ \A m \in i..k - 1 : text[m] # Comma
  IN  SubSeq(text, i, end - 1)

\* While no other worker is in split, whatever the static pointer and the buffers
\* of this worker and others have from earlier jobs: split finds the fields of
\* the text it was given, each of them once, in their order and in the worker's
\* own buffer, and the string at each pointer is that field, no more and no less
\* (main.c, split).
SplitGivesFields ==
  \A w \in Workers :
    pc[w] = "check" /\ alone[w] =>
      LET text == TextOf(sender[running[w]]) IN
      /\ {revbuf[w][i].pos : i \in DOMAIN revbuf[w]} = Starts(text)
      /\ \A i \in DOMAIN revbuf[w] :
           /\ revbuf[w][i].buf = w
           /\ \A k \in 1..i - 1 : revbuf[w][k].pos < revbuf[w][i].pos
           /\ StringAt(revbuf[w][i]) = FieldAt(text, revbuf[w][i].pos)

\* A client waits in vain only if a datagram of its own was lost or the server
\* ended: else its request is on the way or with the server, or there is a reply
\* for it, even where workers confuse the fields of two texts.
NothingVanishes ==
  \A c \in Clients :
    client[c] = "waiting" =>
      \/ c \in requests \cup lost
      \/ \E j \in Range(stack) \cup Range(running) : j # NoJob /\ sender[j] = c
      \/ replies[c] > 0

\* Every client that waits gets a reply, unless something of its own was lost, the
\* server ended, or its request is beyond the bound on what is received.
EveryClientAnswered ==
  \A c \in Clients :
    client[c] = "waiting" ~>
      client[c] = "idle" \/ c \in lost \/ (c \in requests /\ Pool!Accepted = Jobs)
=============================================================================
