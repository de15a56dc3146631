------------------------------ MODULE SocketPool ------------------------------
(***************************************************************************)
(* The pool of MongoDB sockets of db.c, as the worker threads use it.      *)
(* deal_msg calls AddUser and then, if it succeeded, AllocIp; each takes a *)
(* socket with nosql_get_socket, works on it and gives it back with        *)
(* nosql_release_socket.  A step is one trylock of the scan, one attempt   *)
(* to connect, or one unlock.                                              *)
(*                                                                         *)
(* nosql_sock_mutex is a default mutex of glibc: pthread_mutex_unlock      *)
(* frees it whoever holds it, and does nothing if nobody does.             *)
(***************************************************************************)
EXTENDS Naturals, FiniteSets

CONSTANTS Threads,  \* the worker threads
          N,        \* how many sockets DBInit made, numbered from the head of sql_pool
          Up        \* the sockets DBInit could connect

ASSUME PoolAssumption == /\ IsFiniteSet(Threads)
                         /\ N \in Nat
                         /\ Up \subseteq 1..N

VARIABLES locked,     \* socket -> whether its mutex is held
          connected,  \* socket -> whether its connected is 1 (else -1)
          call,       \* thread -> the function it is in
          pc,         \* thread -> where it is in that function
          cur,        \* thread -> the socket it scans, connects or uses, or 0
          crashed     \* whether the NULL of nosql_get_socket was dereferenced

vars == <<locked, connected, call, pc, cur, crashed>>

Sockets == 1..N
Calls == {"none", "AddUser", "AllocIp"}

\* "scan": in the loop of nosql_get_socket; "connect": in nosql_init_socket;
\* "use": from its return to nosql_release_socket; "again": between the two
\* calls of nosql_release_socket that AddUser makes when it succeeds.
PCs == {"idle", "scan", "connect", "use", "again"}

Init == /\ locked = [s \in Sockets |-> FALSE]
        /\ connected = [s \in Sockets |-> s \in Up]
        /\ call = [t \in Threads |-> "none"]
        /\ pc = [t \in Threads |-> "idle"]
        /\ cur = [t \in Threads |-> 0]
        /\ crashed = FALSE

Unlock(s) == locked' = [locked EXCEPT ![s] = FALSE]

\* The thread enters f, which calls nosql_get_socket first.
Enter(t, f) == /\ call' = [call EXCEPT ![t] = f]
               /\ pc' = [pc EXCEPT ![t] = "scan"]
               /\ cur' = [cur EXCEPT ![t] = 1]

\* deal_msg answers and frees the job.
Leave(t) == /\ call' = [call EXCEPT ![t] = "none"]
            /\ pc' = [pc EXCEPT ![t] = "idle"]
            /\ cur' = [cur EXCEPT ![t] = 0]

\* A worker runs a job.
DealMsg(t) == /\ pc[t] = "idle"
              /\ Enter(t, "AddUser")
              /\ UNCHANGED <<locked, connected, crashed>>

\* Mutants of Busy: the scan skips a socket, or tries the same one again.
BusySkips(t) == /\ pc[t] = "scan"
                /\ cur[t] \in Sockets
                /\ locked[cur[t]]
                /\ cur' = [cur EXCEPT ![t] = @ + 2]
                /\ UNCHANGED <<locked, connected, call, pc, crashed>>
BusyRetries(t) == /\ pc[t] = "scan"
                  /\ cur[t] \in Sockets
                  /\ locked[cur[t]]
                  /\ UNCHANGED vars

\* pthread_mutex_trylock fails, and the scan goes on.
Busy(t) == /\ pc[t] = "scan"
           /\ cur[t] \in Sockets
           /\ locked[cur[t]]
           /\ cur' = [cur EXCEPT ![t] = @ + 1]
           /\ UNCHANGED <<locked, connected, call, pc, crashed>>

\* pthread_mutex_trylock succeeds: the socket is returned, or connected first.
Grab(t) == /\ pc[t] = "scan"
           /\ cur[t] \in Sockets
           /\ ~locked[cur[t]]
           /\ locked' = [locked EXCEPT ![cur[t]] = TRUE]
           /\ pc' = [pc EXCEPT ![t] = IF connected[cur[t]] THEN "use" ELSE "connect"]
           /\ UNCHANGED <<connected, call, cur, crashed>>

\* nosql_init_socket returns 0.
ConnectOk(t) == /\ pc[t] = "connect"
                /\ connected' = [connected EXCEPT ![cur[t]] = TRUE]
                /\ pc' = [pc EXCEPT ![t] = "use"]
                /\ UNCHANGED <<locked, call, cur, crashed>>

\* Mutant of ConnectFails: without the unlock.
ConnectFailsKeepsLock(t) == /\ pc[t] = "connect"
                            /\ pc' = [pc EXCEPT ![t] = "scan"]
                            /\ cur' = [cur EXCEPT ![t] = @ + 1]
                            /\ UNCHANGED <<locked, connected, call, crashed>>

\* nosql_init_socket returns -1: unlock, and the scan goes on.
ConnectFails(t) == /\ pc[t] = "connect"
                   /\ Unlock(cur[t])
                   /\ pc' = [pc EXCEPT ![t] = "scan"]
                   /\ cur' = [cur EXCEPT ![t] = @ + 1]
                   /\ UNCHANGED <<connected, call, crashed>>

\* The scan is back at its start, or the list is empty: nosql_get_socket
\* returns NULL, and both its callers write to table_name through it.
NoHandle(t) == /\ pc[t] = "scan"
               /\ cur[t] \notin Sockets
               /\ crashed' = TRUE
               /\ UNCHANGED <<locked, connected, call, pc, cur>>

\* Mutants of Release: an error path that forgets it, and one that marks the
\* socket for a new connection, as db.c does nowhere.
ReleaseForgotten(t) == /\ pc[t] = "use"
                       /\ Unlock(cur[t]) \/ UNCHANGED locked
                       /\ Leave(t)
                       /\ UNCHANGED <<connected, crashed>>
ReleaseReconnects(t) == /\ pc[t] = "use"
                        /\ Unlock(cur[t])
                        /\ connected' = [connected EXCEPT ![cur[t]] = FALSE]
                        /\ Leave(t)
                        /\ UNCHANGED crashed

\* The release on each error path of AddUser, and the only one of AllocIp.
Release(t) == /\ pc[t] = "use"
              /\ Unlock(cur[t])
              /\ Leave(t)
              /\ UNCHANGED <<connected, crashed>>

\* AddUser has stored the user: it releases the socket in the else branch ...
AddUserRelease(t) == /\ pc[t] = "use"
                     /\ call[t] = "AddUser"
                     /\ Unlock(cur[t])
                     /\ pc' = [pc EXCEPT ![t] = "again"]
                     /\ UNCHANGED <<connected, call, cur, crashed>>

\* ... and once more at its end, and deal_msg goes on with AllocIp.
AddUserReleaseAgain(t) == /\ pc[t] = "again"
                          /\ Unlock(cur[t])
                          /\ Enter(t, "AllocIp")
                          /\ UNCHANGED <<connected, crashed>>

Thread(t) == \/ Busy(t) \/ Grab(t) \/ ConnectOk(t) \/ ConnectFails(t) \/ NoHandle(t)
             \/ Release(t) \/ AddUserRelease(t) \/ AddUserReleaseAgain(t)

Next == ~crashed /\ \E t \in Threads : DealMsg(t) \/ Thread(t)

Spec == Init /\ [][Next]_vars

\* Every call to the database driver returns (it has timeouts), and the
\* operating system runs every thread that can run: no step here blocks.
FairSpec == Spec /\ \A t \in Threads : WF_vars(~crashed /\ Thread(t))
-----------------------------------------------------------------------------
(* Properties *)

TypeOK == /\ locked \in [Sockets -> BOOLEAN]
          /\ connected \in [Sockets -> BOOLEAN]
          /\ call \in [Threads -> Calls]
          /\ pc \in [Threads -> PCs]
          /\ cur \in [Threads -> 0..(N + 1)]
          /\ crashed \in BOOLEAN

\* As long as DBInit connected a socket for each worker thread,
\* nosql_get_socket never returns NULL, although it looks at each socket once
\* only and others come and go behind it, and although AddUser releases twice.
NoNullWhenEnough == Cardinality(Threads) <= Cardinality(Up) => ~crashed

\* While nosql_init_socket works on a socket, which it destroys if it fails,
\* no other thread uses or connects that socket, and none is about to unlock it.
ConnectAlone ==
  \A t, o \in Threads :
    pc[t] = "connect" /\ cur[o] = cur[t] /\ o # t => pc[o] = "scan"

\* A locked socket has a thread in charge that will unlock it: no socket is
\* lost to the pool by a path that forgets it.
LockedIsInUse ==
  \A s \in Sockets : locked[s] =>
    \E t \in Threads : pc[t] \in {"connect", "use"} /\ cur[t] = s

\* Every call of deal_msg comes to its end, unless the server crashes.
EveryCallEnds == \A t \in Threads : pc[t] # "idle" ~> pc[t] = "idle" \/ crashed

\* A pool hands a connection to one thread at a time.
OneUserPerSocket ==
  \A t, o \in Threads : pc[t] = "use" /\ pc[o] = "use" /\ cur[t] = cur[o] => t = o
=============================================================================
