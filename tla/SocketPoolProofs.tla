--------------------------- MODULE SocketPoolProofs ---------------------------
(***************************************************************************)
(* Proofs about SocketPool, for any finite set of threads and any number   *)
(* of sockets.                                                             *)
(***************************************************************************)
EXTENDS SocketPool, FiniteSetTheorems, TLAPS

(***************************************************************************)
(* The inductive invariant.  Its heart is ScanInv: a thread gets past a    *)
(* socket of Up only while another thread holds that socket, so when a     *)
(* thread is past position k, at least as many others are not as there are *)
(* sockets of Up up to k.                                                  *)
(***************************************************************************)
Past(k) == {t \in Threads : cur[t] > k}
UpTo(k) == Up \cap (1..k)

PlaceInv == \A t \in Threads :
              /\ pc[t] \in {"connect", "use", "again"} => cur[t] \in Sockets
              /\ pc[t] = "scan" => cur[t] \in 1..(N + 1)
              /\ pc[t] \in {"use", "again"} => connected[cur[t]]
              /\ pc[t] = "connect" => ~connected[cur[t]] /\ locked[cur[t]]
              /\ pc[t] = "idle" <=> cur[t] = 0

UpStays == \A s \in Up : connected[s]

ScanInv == \A k \in 0..N : Past(k) # {} =>
             Cardinality(Past(k)) + Cardinality(UpTo(k)) <= Cardinality(Threads)

IInv == /\ TypeOK /\ PlaceInv /\ UpStays /\ ConnectAlone /\ LockedIsInUse
        /\ ScanInv /\ NoNullWhenEnough
-----------------------------------------------------------------------------
\* The sets that are counted are finite.
LEMMA Finite ==
  /\ Cardinality(Threads) \in Nat
  /\ \A k \in 0..N : /\ IsFiniteSet(UpTo(k)) /\ Cardinality(UpTo(k)) \in Nat
                     /\ IsFiniteSet(Past(k)) /\ Cardinality(Past(k)) \in Nat
                     /\ IsFiniteSet(Past(k)') /\ Cardinality(Past(k)') \in Nat
                     /\ Cardinality(Past(k)') <= Cardinality(Threads)
                     /\ Cardinality(Past(k)) <= Cardinality(Threads)
<1>1. IsFiniteSet(Up)
  <2>1. IsFiniteSet(1..N)
    BY PoolAssumption, FS_Interval
  <2> QED
    BY <2>1, PoolAssumption, FS_Subset
<1>2. ASSUME NEW k \in 0..N
      PROVE  UpTo(k) \subseteq Up /\ Past(k) \subseteq Threads /\ Past(k)' \subseteq Threads
  BY DEF UpTo, Past
<1> QED
  BY <1>1, <1>2, PoolAssumption, FS_Subset, FS_CardinalityType

\* The initial state satisfies the inductive invariant.
LEMMA InitIInv == Init => IInv
<1> SUFFICES ASSUME Init PROVE IInv
  OBVIOUS
<1> USE PoolAssumption DEF Init, Sockets
<1>1. TypeOK
  <2>1. connected \in [1..N -> BOOLEAN]
    <3>1. \A s \in 1..N : (s \in Up) \in BOOLEAN
      OBVIOUS
    <3>2. connected = [s \in 1..N |-> s \in Up]
      OBVIOUS
    <3> HIDE DEF Init
    <3> QED
      BY <3>1, <3>2, Zenon
  <2>2. /\ locked = [s \in 1..N |-> FALSE]
        /\ call = [t \in Threads |-> "none"]
        /\ pc = [t \in Threads |-> "idle"]
        /\ cur = [t \in Threads |-> 0]
        /\ crashed = FALSE
    OBVIOUS
  <2> HIDE DEF Init
  <2>3. locked \in [1..N -> BOOLEAN] /\ crashed \in BOOLEAN
    BY <2>2, Zenon
  <2>4. /\ call \in [Threads -> Calls]
        /\ pc \in [Threads -> PCs]
        /\ cur \in [Threads -> 0..(N + 1)]
    BY <2>2, SMT DEF Calls, PCs
  <2> QED
    BY <2>1, <2>3, <2>4, Zenon DEF TypeOK
<1>2. PlaceInv /\ UpStays /\ ConnectAlone /\ LockedIsInUse /\ NoNullWhenEnough
  BY DEF PlaceInv, UpStays, ConnectAlone, LockedIsInUse, NoNullWhenEnough
<1>3. ScanInv
  BY DEF ScanInv, Past
<1> QED
  BY <1>1, <1>2, <1>3 DEF IInv
-----------------------------------------------------------------------------
\* A step by which nobody gets past a socket keeps ScanInv.
LEMMA NobodyPasses ==
  ASSUME ScanInv, \A k \in 1..N : Past(k)' \subseteq Past(k)
  PROVE  ScanInv'
<1> SUFFICES ASSUME NEW k \in 0..N, Past(k)' # {}
             PROVE  Cardinality(Past(k)') + Cardinality(UpTo(k)) <= Cardinality(Threads)
  BY DEF ScanInv, UpTo
<1>1. CASE k = 0
  <2>1. Cardinality(UpTo(k)) = 0
    BY <1>1, FS_EmptySet DEF UpTo
  <2> QED
    BY <2>1, Finite
<1>2. CASE k # 0
  <2>1. Past(k)' \subseteq Past(k)
    BY <1>2, PoolAssumption
  <2>2. Cardinality(Past(k)') <= Cardinality(Past(k))
    BY <2>1, Finite, FS_Subset
  <2>3. Cardinality(Past(k)) + Cardinality(UpTo(k)) <= Cardinality(Threads)
    BY <2>1 DEF ScanInv
  <2> QED
    BY <2>2, <2>3, Finite
<1> QED
  BY <1>1, <1>2

\* A thread that gets past socket s keeps ScanInv if s is not in Up, or if
\* another thread is at s.
LEMMA OnePasses ==
  ASSUME TypeOK, ScanInv, NEW t \in Threads, NEW s \in Sockets, cur[t] = s,
         cur' = [cur EXCEPT ![t] = s + 1],
         \/ s \notin Up
         \/ \E o \in Threads : o # t /\ cur[o] = s
  PROVE  ScanInv'
<1>1. s \in 1..N /\ s - 1 \in 0..N /\ N \in Nat
  BY PoolAssumption DEF Sockets
<1>2. \A o \in Threads : cur[o] \in Nat
  BY <1>1 DEF TypeOK
<1> SUFFICES ASSUME NEW k \in 0..N, Past(k)' # {}
             PROVE  Cardinality(Past(k)') + Cardinality(UpTo(k)) <= Cardinality(Threads)
  BY DEF ScanInv, UpTo
<1>3. CASE k # s
  <2>1. Past(k)' \subseteq Past(k)
    BY <1>1, <1>2, <1>3 DEF Past, TypeOK
  <2>2. Cardinality(Past(k)') <= Cardinality(Past(k))
    BY <2>1, Finite, FS_Subset
  <2>3. Cardinality(Past(k)) + Cardinality(UpTo(k)) <= Cardinality(Threads)
    BY <2>1 DEF ScanInv
  <2> QED
    BY <2>2, <2>3, Finite
<1>4. CASE k = s
  <2>1. Past(s)' \subseteq Past(s - 1) /\ t \in Past(s - 1)
    BY <1>1, <1>2 DEF Past, TypeOK
  <2>2. Cardinality(Past(s - 1)) + Cardinality(UpTo(s - 1)) <= Cardinality(Threads)
    BY <1>1, <2>1 DEF ScanInv
  <2>3. CASE s \notin Up
    <3>1. UpTo(s) = UpTo(s - 1)
      BY <1>1, <2>3, PoolAssumption DEF UpTo
    <3>2. Cardinality(Past(s)') <= Cardinality(Past(s - 1))
      BY <1>1, <2>1, Finite, FS_Subset
    <3> QED
      BY <1>1, <1>4, <2>2, <3>1, <3>2, Finite
  <2>4. ASSUME s \in Up, NEW o \in Threads, o # t, cur[o] = s
        PROVE  Cardinality(Past(s)') + Cardinality(UpTo(s)) <= Cardinality(Threads)
    <3>1. s \notin UpTo(s - 1) /\ UpTo(s) = UpTo(s - 1) \cup {s}
      BY <1>1, <2>4, PoolAssumption DEF UpTo
    <3>2. Cardinality(UpTo(s)) = Cardinality(UpTo(s - 1)) + 1
      BY <1>1, <3>1, Finite, FS_AddElement
    <3>3. o \in Past(s - 1) /\ Past(s)' \subseteq Past(s - 1) \ {o}
      BY <1>1, <1>2, <2>1, <2>4 DEF Past, TypeOK
    <3>4. /\ IsFiniteSet(Past(s - 1) \ {o})
          /\ Cardinality(Past(s - 1) \ {o}) = Cardinality(Past(s - 1)) - 1
      BY <1>1, <3>3, Finite, FS_RemoveElement
    <3>5. Cardinality(Past(s)') <= Cardinality(Past(s - 1)) - 1
      BY <3>3, <3>4, FS_Subset
    <3> QED
      BY <1>1, <2>2, <3>2, <3>5, Finite
  <2> QED
    BY <1>4, <2>3, <2>4
<1> QED
  BY <1>3, <1>4
-----------------------------------------------------------------------------
\* Every step but the crash keeps ScanInv.
LEMMA StepScanInv == IInv /\ [Next]_vars => ScanInv'
<1> SUFFICES ASSUME IInv, [Next]_vars PROVE ScanInv'
  OBVIOUS
<1>t. /\ TypeOK /\ ScanInv /\ PlaceInv /\ LockedIsInUse /\ UpStays
      /\ N \in Nat /\ \A t \in Threads : cur[t] \in 0..(N + 1)
  BY PoolAssumption DEF IInv, TypeOK
<1>1. ASSUME NEW t \in Threads, Busy(t) PROVE ScanInv'
  <2>1. PICK o \in Threads : pc[o] \in {"connect", "use"} /\ cur[o] = cur[t]
    BY <1>1, <1>t DEF Busy, LockedIsInUse
  <2>2. o # t
    BY <1>1, <2>1 DEF Busy
  <2>3. PICK s \in Sockets : cur[t] = s
    BY <1>1 DEF Busy
  <2> QED
    BY <1>1, <1>t, <2>1, <2>2, <2>3, OnePasses DEF Busy
<1>2. ASSUME NEW t \in Threads, ConnectFails(t) PROVE ScanInv'
  <2>1. cur[t] \in Sockets /\ cur[t] \notin Up
    BY <1>2, <1>t DEF ConnectFails, PlaceInv, UpStays
  <2>2. PICK s \in Sockets : cur[t] = s
    BY <2>1
  <2> QED
    BY <1>2, <1>t, <2>1, <2>2, OnePasses DEF ConnectFails
<1>3. ASSUME NEW t \in Threads,
             \/ DealMsg(t) \/ Grab(t) \/ ConnectOk(t) \/ NoHandle(t)
             \/ Release(t) \/ AddUserRelease(t) \/ AddUserReleaseAgain(t)
      PROVE  ScanInv'
  <2>1. \/ cur' = cur
        \/ cur' = [cur EXCEPT ![t] = 0]
        \/ cur' = [cur EXCEPT ![t] = 1]
    BY <1>3 DEF DealMsg, Grab, ConnectOk, NoHandle, Release, AddUserRelease,
       AddUserReleaseAgain, Enter, Leave
  <2>2. \A k \in 1..N : Past(k)' \subseteq Past(k)
    BY <1>t, <2>1 DEF Past, TypeOK
  <2> QED
    BY <1>t, <2>2, NobodyPasses
<1>4. CASE UNCHANGED vars
  BY <1>4, <1>t, NobodyPasses DEF vars, Past
<1> QED
  BY <1>1, <1>2, <1>3, <1>4 DEF Next, Thread
-----------------------------------------------------------------------------
\* Every step preserves the inductive invariant.
LEMMA StepIInv == IInv /\ [Next]_vars => IInv'
<1> SUFFICES ASSUME IInv, [Next]_vars PROVE IInv'
  OBVIOUS
<1> USE DEF Sockets, PCs, Calls, Unlock, Enter, Leave
<1>t. /\ TypeOK /\ PlaceInv /\ UpStays /\ ConnectAlone /\ LockedIsInUse
      /\ NoNullWhenEnough /\ N \in Nat /\ Up \subseteq 1..N
  BY PoolAssumption DEF IInv
<1>s. ScanInv'
  BY StepScanInv
<1>1. ASSUME NEW t \in Threads, DealMsg(t) PROVE IInv'
  <2>1. TypeOK' /\ PlaceInv' /\ UpStays' /\ NoNullWhenEnough'
    BY <1>1, <1>t DEF DealMsg, TypeOK, PlaceInv, UpStays, NoNullWhenEnough
  <2>2. ConnectAlone' /\ LockedIsInUse'
    BY <1>1, <1>t DEF DealMsg, TypeOK, ConnectAlone, LockedIsInUse
  <2> QED
    BY <1>s, <2>1, <2>2 DEF IInv
<1>2. ASSUME NEW t \in Threads, Busy(t) PROVE IInv'
  <2>1. TypeOK' /\ PlaceInv' /\ UpStays' /\ NoNullWhenEnough'
    BY <1>2, <1>t DEF Busy, TypeOK, PlaceInv, UpStays, NoNullWhenEnough
  <2>2. ConnectAlone' /\ LockedIsInUse'
    BY <1>2, <1>t DEF Busy, TypeOK, ConnectAlone, LockedIsInUse
  <2> QED
    BY <1>s, <2>1, <2>2 DEF IInv
<1>3. ASSUME NEW t \in Threads, Grab(t) PROVE IInv'
  <2>1. TypeOK' /\ PlaceInv' /\ UpStays' /\ NoNullWhenEnough'
    BY <1>3, <1>t DEF Grab, TypeOK, PlaceInv, UpStays, NoNullWhenEnough
  <2>2. LockedIsInUse'
    BY <1>3, <1>t DEF Grab, TypeOK, LockedIsInUse
  <2>3. ASSUME ~connected[cur[t]], NEW o \in Threads, o # t, cur[o] = cur[t]
        PROVE  pc[o] = "scan"
    BY <1>3, <1>t, <2>3 DEF Grab, TypeOK, PlaceInv
  <2>4. ConnectAlone'
    BY <1>3, <1>t, <2>3 DEF Grab, TypeOK, PlaceInv, ConnectAlone
  <2> QED
    BY <1>s, <2>1, <2>2, <2>4 DEF IInv
<1>4. ASSUME NEW t \in Threads, ConnectOk(t) PROVE IInv'
  <2>1. TypeOK' /\ UpStays' /\ NoNullWhenEnough'
    BY <1>4, <1>t DEF ConnectOk, TypeOK, PlaceInv, UpStays, NoNullWhenEnough
  <2>2. PlaceInv'
    BY <1>4, <1>t DEF ConnectOk, TypeOK, PlaceInv, ConnectAlone
  <2>3. ConnectAlone' /\ LockedIsInUse'
    BY <1>4, <1>t DEF ConnectOk, TypeOK, ConnectAlone, LockedIsInUse
  <2> QED
    BY <1>s, <2>1, <2>2, <2>3 DEF IInv
<1>5. ASSUME NEW t \in Threads, ConnectFails(t) PROVE IInv'
  <2>1. TypeOK' /\ UpStays' /\ NoNullWhenEnough'
    BY <1>5, <1>t DEF ConnectFails, TypeOK, PlaceInv, UpStays, NoNullWhenEnough
  <2>2. PlaceInv'
    BY <1>5, <1>t DEF ConnectFails, TypeOK, PlaceInv, ConnectAlone
  <2>3. ConnectAlone' /\ LockedIsInUse'
    BY <1>5, <1>t DEF ConnectFails, TypeOK, PlaceInv, ConnectAlone, LockedIsInUse
  <2> QED
    BY <1>s, <2>1, <2>2, <2>3 DEF IInv
<1>6. ASSUME NEW t \in Threads, NoHandle(t) PROVE IInv'
  <2>1. cur[t] = N + 1
    BY <1>6, <1>t DEF NoHandle, PlaceInv
  <2>2. t \in Past(N) /\ UpTo(N) = Up
    <3>1. N + 1 > N
      BY <1>t
    <3>2. t \in Past(N)
      BY <2>1, <3>1 DEF Past
    <3>3. UpTo(N) = Up
      BY <1>t DEF UpTo
    <3> QED
      BY <3>2, <3>3
  <2>3. Cardinality(Past(N)) + Cardinality(Up) <= Cardinality(Threads)
    BY <1>t, <2>2 DEF ScanInv, IInv
  <2>4. Cardinality(Past(N)) # 0
    BY <1>t, <2>2, Finite, FS_EmptySet
  <2>5. NoNullWhenEnough'
    BY <1>t, <2>2, <2>3, <2>4, Finite DEF NoNullWhenEnough
  <2>6. TypeOK' /\ PlaceInv' /\ UpStays' /\ ConnectAlone' /\ LockedIsInUse'
    BY <1>6, <1>t DEF NoHandle, TypeOK, PlaceInv, UpStays, ConnectAlone, LockedIsInUse
  <2> QED
    BY <1>s, <2>5, <2>6 DEF IInv
<1>7. ASSUME NEW t \in Threads, Release(t) \/ AddUserRelease(t) \/ AddUserReleaseAgain(t)
      PROVE  IInv'
  <2>1. TypeOK' /\ UpStays' /\ NoNullWhenEnough'
    <3>1. CASE Release(t)
      BY <3>1, <1>t DEF Release, TypeOK, PlaceInv, UpStays, NoNullWhenEnough
    <3>2. CASE AddUserRelease(t)
      BY <3>2, <1>t DEF AddUserRelease, TypeOK, PlaceInv, UpStays, NoNullWhenEnough
    <3>3. CASE AddUserReleaseAgain(t)
      BY <3>3, <1>t DEF AddUserReleaseAgain, TypeOK, PlaceInv, UpStays, NoNullWhenEnough
    <3> QED
      BY <1>7, <3>1, <3>2, <3>3
  <2>2. connected[cur[t]] /\ cur[t] \in Sockets /\ locked' = [locked EXCEPT ![cur[t]] = FALSE]
    BY <1>7, <1>t DEF Release, AddUserRelease, AddUserReleaseAgain, PlaceInv
  <2>3. PlaceInv'
    BY <1>7, <1>t, <2>2 DEF Release, AddUserRelease, AddUserReleaseAgain, TypeOK, PlaceInv
  <2>4. ConnectAlone'
    BY <1>7, <1>t, <2>2 DEF Release, AddUserRelease, AddUserReleaseAgain, TypeOK,
       PlaceInv, ConnectAlone
  <2>5. LockedIsInUse'
    BY <1>7, <1>t, <2>2 DEF Release, AddUserRelease, AddUserReleaseAgain, TypeOK,
       LockedIsInUse
  <2> QED
    BY <1>s, <2>1, <2>3, <2>4, <2>5 DEF IInv
<1>8. CASE UNCHANGED vars
  BY <1>8, <1>s, <1>t DEF vars, IInv, TypeOK, PlaceInv, UpStays, ConnectAlone,
     LockedIsInUse, NoNullWhenEnough
<1> QED
  BY <1>1, <1>2, <1>3, <1>4, <1>5, <1>6, <1>7, <1>8 DEF Next, Thread

\* The inductive invariant holds throughout every behaviour.
LEMMA Inductive == Spec => []IInv
<1> QED
  BY InitIInv, StepIInv, PTL DEF Spec

\* Type correctness, for any number of threads and sockets.
THEOREM TypeCorrect == Spec => []TypeOK
<1>1. IInv => TypeOK
  BY DEF IInv
<1> QED
  BY <1>1, Inductive, PTL

\* With a connected socket for each thread the scan never comes back empty.
THEOREM EnoughSockets == Spec => []NoNullWhenEnough
<1>1. IInv => NoNullWhenEnough
  BY DEF IInv
<1> QED
  BY <1>1, Inductive, PTL

\* A socket is connected, or destroyed, by a thread that has it to itself.
THEOREM ConnectsAlone == Spec => []ConnectAlone
<1>1. IInv => ConnectAlone
  BY DEF IInv
<1> QED
  BY <1>1, Inductive, PTL

\* No path through AddUser or AllocIp forgets to unlock its socket.
THEOREM NoLostSocket == Spec => []LockedIsInUse
<1>1. IInv => LockedIsInUse
  BY DEF IInv
<1> QED
  BY <1>1, Inductive, PTL
=============================================================================
