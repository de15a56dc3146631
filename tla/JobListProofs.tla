---------------------------- MODULE JobListProofs ----------------------------
(***************************************************************************)
(* Proofs about JobList, for any set of blocks, finite or not.             *)
(***************************************************************************)
EXTENDS JobList, SequenceTheorems, TLAPS

\* LL_ADD clears the prev of a new head and never sets it again, and LL_REMOVE
\* hands the head's prev, NULL, to the job after it: no listed job has a prev.
NoPrev == \A j \in Jobs : block[j] = "listed" => prev[j] = NULL

IInv == TypeOK /\ ListIsStack /\ NoPrev
-----------------------------------------------------------------------------
\* The elements of a list with one more in front.
LEMMA Push ==
  ASSUME NEW S, NEW s \in Seq(S), NEW x \in S
  PROVE  /\ <<x>> \o s \in Seq(S)
         /\ Len(s) \in Nat
         /\ Len(<<x>> \o s) = Len(s) + 1
         /\ <<x>> \o s # <<>>
         /\ (<<x>> \o s)[1] = x
         /\ \A i \in 1..Len(s) : (<<x>> \o s)[i + 1] = s[i]
<1>1. <<x>> \in Seq(S) /\ Len(<<x>>) = 1 /\ <<x>>[1] = x
  OBVIOUS
<1>2. /\ <<x>> \o s \in Seq(S)
      /\ Len(<<x>> \o s) = 1 + Len(s)
      /\ \A i \in 1..(1 + Len(s)) :
           (<<x>> \o s)[i] = IF i <= 1 THEN <<x>>[i] ELSE s[i - 1]
  BY <1>1, ConcatProperties
<1>3. Len(s) \in Nat
  BY LenProperties
<1> QED
  BY <1>1, <1>2, <1>3, EmptySeq

\* The elements of a list without its first.
LEMMA Pop ==
  ASSUME NEW S, NEW s \in Seq(S), s # <<>>
  PROVE  /\ Len(s) \in Nat \ {0}
         /\ s[1] \in S
         /\ Tail(s) \in Seq(S)
         /\ Len(Tail(s)) = Len(s) - 1
         /\ \A i \in 1..(Len(s) - 1) : Tail(s)[i] = s[i + 1]
         /\ Tail(s) = <<>> <=> Len(s) = 1
<1>1. Len(s) \in Nat \ {0}
  BY EmptySeq, LenProperties
<1>2. s[1] \in S
  BY <1>1, ElementOfSeq
<1>3. /\ Tail(s) \in Seq(S)
      /\ Len(Tail(s)) = Len(s) - 1
      /\ \A i \in 1..Len(Tail(s)) : Tail(s)[i] = s[i + 1]
  BY HeadTailProperties
<1> QED
  BY <1>1, <1>2, <1>3, EmptySeq
-----------------------------------------------------------------------------
\* What the code of LL_REMOVE comes to on the head of the list.
LEMMA RemoveHead ==
  ASSUME IInv, Take
  PROVE  LET h == waiting_jobs IN
         /\ order # <<>> /\ h = order[1] /\ h \in Jobs /\ block[h] = "listed"
         /\ waiting_jobs' = next[h]
         /\ next' = [next EXCEPT ![h] = NULL]
         /\ prev' = prev
<1> DEFINE h == waiting_jobs
<1>1. order # <<>> /\ h = order[1] /\ h \in Jobs
  BY DEF Take, IInv, TypeOK, ListIsStack
<1>2. block[h] = "listed" /\ prev[h] = NULL
  <2>1. 1 \in 1..Len(order)
    BY <1>1, Pop DEF IInv, TypeOK
  <2> QED
    BY <1>1, <2>1 DEF IInv, ListIsStack, NoPrev
<1>3. next[h] # NULL => next[h] \in Jobs /\ block[next[h]] = "listed" /\ prev[next[h]] = NULL
  <2>1. next[h] # NULL => Len(order) # 1 /\ next[h] = order[2]
    BY <1>1, Pop DEF IInv, TypeOK, ListIsStack
  <2>2. next[h] # NULL => 2 \in 1..Len(order)
    BY <2>1, <1>1, Pop DEF IInv, TypeOK
  <2>3. next[h] # NULL => next[h] \in Jobs
    BY <1>1 DEF IInv, TypeOK
  <2> QED
    BY <2>1, <2>2, <2>3 DEF IInv, ListIsStack, NoPrev
<1>4. /\ waiting_jobs' = next[h]
      /\ next' = [next EXCEPT ![h] = NULL]
      /\ prev' = [IF next[h] = NULL THEN prev ELSE [prev EXCEPT ![next[h]] = NULL]
                  EXCEPT ![h] = NULL]
  BY <1>1, <1>2 DEF Take, LL_REMOVE
<1>5. prev' = prev
  BY <1>1, <1>2, <1>3, <1>4 DEF IInv, TypeOK
<1> QED
  BY <1>1, <1>2, <1>4, <1>5

\* The empty list satisfies the inductive invariant.
LEMMA InitIInv == Init => IInv
<1> SUFFICES ASSUME Init PROVE IInv
  OBVIOUS
<1>1. TypeOK /\ NoPrev
  BY EmptySeq DEF Init, TypeOK, NoPrev, BlockStates
<1>2. ListIsStack
  BY EmptySeq DEF Init, ListIsStack
<1> QED
  BY <1>1, <1>2 DEF IInv

\* Every operation on the list, and on the blocks, preserves it.
LEMMA StepIInv == IInv /\ [Next]_vars => IInv'
<1> SUFFICES ASSUME IInv, [Next]_vars PROVE IInv'
  OBVIOUS
<1> USE NullAssumption DEF BlockStates
<1>t. /\ TypeOK /\ ListIsStack /\ NoPrev
      /\ Len(order) \in Nat /\ order \in Seq(Jobs)
      /\ \A i \in 1..Len(order) : order[i] \in Jobs
  BY LenProperties, ElementOfSeq DEF IInv, TypeOK
<1>1. ASSUME NEW j \in Jobs, Malloc(j) PROVE IInv'
  <2>1. TypeOK'
    BY <1>1, <1>t DEF Malloc, TypeOK
  <2>2. \A i \in 1..Len(order) : order[i] # j
    BY <1>1, <1>t DEF Malloc, ListIsStack
  <2>3. ListIsStack' /\ NoPrev'
    BY <1>1, <1>t, <2>2 DEF Malloc, TypeOK, ListIsStack, NoPrev
  <2> QED
    BY <2>1, <2>3 DEF IInv
<1>2. ASSUME NEW j \in Jobs, Add(j) PROVE IInv'
  <2>1. /\ order' \in Seq(Jobs) /\ Len(order') = Len(order) + 1
        /\ order' # <<>> /\ order'[1] = j
        /\ \A i \in 1..Len(order) : order'[i + 1] = order[i]
    BY <1>2, <1>t, Push DEF Add
  <2>2. \A i \in 1..Len(order) : order[i] # j
    BY <1>2, <1>t DEF Add, ListIsStack
  <2>3. \A i \in 2..Len(order') : i - 1 \in 1..Len(order) /\ order'[i] = order[i - 1]
    BY <2>1, <1>t
  <2>4. /\ waiting_jobs' = j
        /\ next' = [next EXCEPT ![j] = waiting_jobs]
        /\ prev' = [prev EXCEPT ![j] = NULL]
        /\ block' = [block EXCEPT ![j] = "listed"]
    BY <1>2 DEF Add, LL_ADD
  <2>5. TypeOK' /\ NoPrev'
    BY <1>t, <2>1, <2>4 DEF TypeOK, NoPrev
  <2>6. ListIsStack'
    <3>1. next'[order'[1]] = IF 1 = Len(order') THEN NULL ELSE order'[2]
      <4>1. next'[order'[1]] = waiting_jobs
        BY <1>t, <2>1, <2>4 DEF TypeOK
      <4>2. CASE order = <<>>
        BY <4>1, <4>2, <1>t, <2>1, EmptySeq DEF ListIsStack
      <4>3. CASE order # <<>>
        BY <4>1, <4>3, <1>t, <2>1, Pop DEF ListIsStack
      <4> QED
        BY <4>2, <4>3
    <3>2. ASSUME NEW i \in 2..Len(order')
          PROVE  next'[order'[i]] = IF i = Len(order') THEN NULL ELSE order'[i + 1]
      BY <1>t, <2>1, <2>2, <2>3, <2>4 DEF TypeOK, ListIsStack
    <3>3. ASSUME NEW h \in 1..Len(order'), NEW i \in 1..Len(order'),
                 order'[h] = order'[i]
          PROVE  h = i
      <4>1. h = 1 \/ (h - 1 \in 1..Len(order) /\ order'[h] = order[h - 1])
        BY <1>t, <2>1, <2>3
      <4>2. i = 1 \/ (i - 1 \in 1..Len(order) /\ order'[i] = order[i - 1])
        BY <1>t, <2>1, <2>3
      <4>3. CASE h # 1 /\ i # 1
        <5>1. order[h - 1] = order[i - 1]
          BY <3>3, <4>1, <4>2, <4>3
        <5>2. h - 1 = i - 1
          BY <1>t, <4>1, <4>2, <4>3, <5>1 DEF ListIsStack
        <5> QED
          BY <5>2, <4>1, <4>2, <4>3
      <4>4. CASE h = 1 \/ i = 1
        BY <2>1, <2>2, <3>3, <4>1, <4>2, <4>4
      <4> QED
        BY <4>3, <4>4
    <3>4. ASSUME NEW k \in Jobs
          PROVE  block'[k] = "listed" <=> \E i \in 1..Len(order') : order'[i] = k
      <4>1. CASE k = j
        BY <4>1, <1>t, <2>1, <2>4 DEF TypeOK
      <4>2. CASE k # j
        <5>1. block'[k] = "listed" <=> \E i \in 1..Len(order) : order[i] = k
          BY <4>2, <1>t, <2>4 DEF TypeOK, ListIsStack
        <5>2. ASSUME NEW i \in 1..Len(order), order[i] = k
              PROVE  i + 1 \in 1..Len(order') /\ order'[i + 1] = k
          BY <5>2, <1>t, <2>1
        <5>3. ASSUME NEW i \in 1..Len(order'), order'[i] = k
              PROVE  i - 1 \in 1..Len(order) /\ order[i - 1] = k
          BY <5>3, <4>2, <1>t, <2>1, <2>3
        <5> QED
          BY <5>1, <5>2, <5>3
      <4> QED
        BY <4>1, <4>2
    <3> QED
      BY <1>t, <2>1, <2>4, <3>1, <3>2, <3>3, <3>4 DEF ListIsStack
  <2> QED
    BY <2>5, <2>6 DEF IInv
<1>3. ASSUME NEW j \in Jobs, Free(j) PROVE IInv'
  BY <1>3, <1>t DEF Free, IInv, TypeOK, ListIsStack, NoPrev
<1>4. CASE Take
  <2> DEFINE h == waiting_jobs
  <2>1. /\ order # <<>> /\ h = order[1] /\ h \in Jobs /\ block[h] = "listed"
        /\ waiting_jobs' = next[h] /\ next' = [next EXCEPT ![h] = NULL] /\ prev' = prev
        /\ order' = Tail(order) /\ block' = [block EXCEPT ![h] = "worker"]
    BY <1>4, RemoveHead DEF Take
  <2>2. /\ Len(order) \in Nat \ {0} /\ order' \in Seq(Jobs)
        /\ Len(order') = Len(order) - 1
        /\ \A i \in 1..Len(order') : i + 1 \in 1..Len(order) /\ order'[i] = order[i + 1]
        /\ order' = <<>> <=> Len(order) = 1
    BY <1>t, <2>1, Pop
  <2> HIDE DEF h
  <2>3. TypeOK' /\ NoPrev'
    BY <1>t, <2>1, <2>2 DEF TypeOK, NoPrev
  <2>4. \A i \in 1..Len(order') : order'[i] # h
    <3> SUFFICES ASSUME NEW i \in 1..Len(order'), order[i + 1] = order[1] PROVE FALSE
      BY <2>1, <2>2
    <3>1. i + 1 = 1
      BY <1>t, <2>2 DEF ListIsStack
    <3> QED
      BY <3>1, <2>2
  <2>5. waiting_jobs' = IF order' = <<>> THEN NULL ELSE order'[1]
    <3>1. next[order[1]] = IF 1 = Len(order) THEN NULL ELSE order[2]
      BY <1>t, <2>2 DEF ListIsStack
    <3>2. order' # <<>> => order'[1] = order[2]
      BY <2>2
    <3> QED
      BY <2>1, <2>2, <3>1, <3>2
  <2>6. ASSUME NEW i \in 1..Len(order')
        PROVE  next'[order'[i]] = IF i = Len(order') THEN NULL ELSE order'[i + 1]
    <3>1. next'[order'[i]] = next[order[i + 1]]
      BY <1>t, <2>1, <2>2, <2>4 DEF TypeOK
    <3>2. next[order[i + 1]] = IF i + 1 = Len(order) THEN NULL ELSE order[i + 2]
      BY <1>t, <2>2 DEF ListIsStack
    <3> QED
      BY <3>1, <3>2, <2>2
  <2>7. ASSUME NEW g \in 1..Len(order'), NEW i \in 1..Len(order'), order'[g] = order'[i]
        PROVE  g = i
    BY <1>t, <2>2, <2>7 DEF ListIsStack
  <2>8. ASSUME NEW k \in Jobs
        PROVE  block'[k] = "listed" <=> \E i \in 1..Len(order') : order'[i] = k
    <3>1. CASE k = h
      BY <3>1, <1>t, <2>1, <2>4 DEF TypeOK
    <3>2. CASE k # h
      <4>1. block'[k] = "listed" <=> \E i \in 1..Len(order) : order[i] = k
        BY <3>2, <1>t, <2>1 DEF TypeOK, ListIsStack
      <4>2. \A i \in 1..Len(order) : order[i] = k =>
              i - 1 \in 1..Len(order') /\ order'[i - 1] = k
        BY <3>2, <1>t, <2>1, <2>2
      <4> QED
        BY <4>1, <4>2, <2>2
    <3> QED
      BY <3>1, <3>2
  <2>9. ListIsStack'
    BY <2>5, <2>6, <2>7, <2>8 DEF ListIsStack
  <2> QED
    BY <2>3, <2>9 DEF IInv
<1>5. CASE Clear
  BY <1>5, <1>t, EmptySeq DEF Clear, IInv, TypeOK, ListIsStack, NoPrev
<1>6. CASE UNCHANGED vars
  BY <1>6, <1>t DEF vars, IInv, TypeOK, ListIsStack, NoPrev
<1> QED
  BY <1>1, <1>2, <1>3, <1>4, <1>5, <1>6 DEF Next

\* Type correctness: in particular no link ever leads outside the blocks.
THEOREM TypeCorrect == Spec => []TypeOK
<1>1. IInv => TypeOK
  BY DEF IInv
<1> QED
  BY <1>1, InitIInv, StepIInv, PTL DEF Spec

\* The pointers of the list always spell the stack of jobs.
THEOREM PointersSpellStack == Spec => []ListIsStack
<1>1. IInv => ListIsStack
  BY DEF IInv
<1> QED
  BY <1>1, InitIInv, StepIInv, PTL DEF Spec

\* LL_ADD and LL_REMOVE write no block that is free, running or forgotten.
THEOREM OnlyOwnWrites == Spec => NoStrayWrite
<1> DEFINE Quiet == \A j \in Jobs : /\ block[j] \in {"free", "worker", "lost"}
                                    /\ block'[j] = block[j]
                                    => prev'[j] = prev[j] /\ next'[j] = next[j]
<1>1. IInv /\ [Next]_vars => [Quiet]_vars
  <2> SUFFICES ASSUME IInv, Next PROVE Quiet
    OBVIOUS
  <2> USE DEF IInv, TypeOK
  <2>1. ASSUME NEW j \in Jobs, Malloc(j) \/ Add(j) \/ Free(j) PROVE Quiet
    BY <2>1 DEF Malloc, Add, LL_ADD, Free
  <2>2. CASE Take
    <3>1. LET h == waiting_jobs IN /\ h \in Jobs /\ block[h] = "listed"
                                   /\ next' = [next EXCEPT ![h] = NULL] /\ prev' = prev
      BY <2>2, RemoveHead
    <3> QED
      BY <3>1
  <2>3. CASE Clear
    BY <2>3 DEF Clear
  <2> QED
    BY <2>1, <2>2, <2>3 DEF Next
<1> QED
  BY <1>1, InitIInv, StepIInv, PTL DEF Spec, NoStrayWrite
=============================================================================
