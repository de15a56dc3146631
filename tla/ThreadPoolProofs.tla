-------------------------- MODULE ThreadPoolProofs --------------------------
(***************************************************************************)
(* Proofs about ThreadPool, for any finite set of workers and any jobs.    *)
(***************************************************************************)
EXTENDS ThreadPool, FiniteSetTheorems, SequenceTheorems, TLAPS

(***************************************************************************)
(* The inductive invariant.  LockInv ties the owner of jobs_mutex to the   *)
(* program counters; in it, an ended worker still owns the mutex.          *)
(***************************************************************************)
HoldsLock == {"loop", "term", "exited"}
MainHoldsLock == {"add_push", "add_signal", "add_unlock",
                  "sd_clear", "sd_broadcast", "sd_unlock"}

LockInv == /\ \A w \in Workers : wpc[w] \in HoldsLock <=> mutex = w
           /\ mpc \in MainHoldsLock <=> mutex = Main

\* What Main's locals hold at each point of its code.
MainInv == /\ mpc \in {"add_lock", "add_push"} <=> mjob # NoJob
           /\ mpc = "link" => made \in Workers
           /\ IF mpc \in {"sd_mark", "sd_next", "crashed"}
                THEN cur \in 1..Len(workers)
                ELSE cur = 0
           /\ mpc \in {"create", "link"} => \A w \in Workers : ~terminate[w]

WorkerInv == \A w \in Workers : /\ wpc[w] = "exec" <=> job[w] # NoJob
                                /\ wpc[w] = "exited" => terminate[w]

\* The job Main is about to push is nowhere else.
FreshInv == mjob # NoJob =>
              /\ mjob \notin Range(waiting_jobs) \cup finished \cup dropped
              /\ \A w \in Workers : job[w] # mjob

IInv == TypeOK /\ LockInv /\ MainInv /\ WorkerInv /\ FreshInv /\ JobAfterLoop
-----------------------------------------------------------------------------
\* What the head and the tail of a list of jobs are.
LEMMA HeadTail ==
  ASSUME NEW S, NEW s \in Seq(S), s # <<>>
  PROVE  /\ Head(s) \in S
         /\ Head(s) \in Range(s)
         /\ Tail(s) \in Seq(S)
         /\ Len(Tail(s)) = Len(s) - 1
         /\ Range(Tail(s)) \subseteq Range(s)
<1>1. Len(s) \in Nat \ {0} /\ DOMAIN s = 1..Len(s)
  BY EmptySeq, LenProperties
<1>2. Head(s) = s[1] /\ 1 \in DOMAIN s
  BY <1>1, HeadTailProperties
<1>3. /\ Tail(s) \in Seq(S)
      /\ Len(Tail(s)) = Len(s) - 1
      /\ \A i \in 1..Len(Tail(s)) : Tail(s)[i] = s[i+1]
  BY HeadTailProperties
<1>4. DOMAIN Tail(s) = 1..Len(Tail(s))
  BY <1>3, LenProperties
<1>5. Range(Tail(s)) \subseteq Range(s)
  BY <1>1, <1>3, <1>4 DEF Range
<1>6. Head(s) \in S
  BY <1>1, <1>2, ElementOfSeq
<1> QED
  BY <1>2, <1>3, <1>5, <1>6 DEF Range

\* Pushing an element on a list.
LEMMA Push ==
  ASSUME NEW S, NEW s \in Seq(S), NEW x \in S
  PROVE  /\ <<x>> \o s \in Seq(S)
         /\ Len(<<x>> \o s) = Len(s) + 1
         /\ <<x>> \o s # <<>>
<1>1. <<x>> \in Seq(S) /\ Len(<<x>>) = 1
  OBVIOUS
<1>2. <<x>> \o s \in Seq(S) /\ Len(<<x>> \o s) = Len(s) + 1
  BY <1>1, ConcatProperties, LenProperties
<1> QED
  BY <1>2, EmptySeq, LenProperties
-----------------------------------------------------------------------------
\* The initial state satisfies the inductive invariant.
LEMMA InitIInv == Init => IInv
<1> SUFFICES ASSUME Init PROVE IInv
  OBVIOUS
<1> USE ThreadsAssumption, JobsAssumption DEF Init
<1>1. TypeOK
  BY EmptySeq DEF TypeOK, WorkerPCs, MainPCs
<1>2. LockInv /\ WorkerInv
  BY DEF LockInv, WorkerInv, HoldsLock, MainHoldsLock
<1>3. MainInv /\ FreshInv /\ JobAfterLoop
  BY DEF MainInv, FreshInv, JobAfterLoop
<1> QED
  BY <1>1, <1>2, <1>3 DEF IInv

\* Every step of every thread, and a stuttering step, preserves it.
LEMMA StepIInv == IInv /\ [Next]_vars => IInv'
<1> SUFFICES ASSUME IInv, [Next]_vars PROVE IInv'
  OBVIOUS
<1> USE ThreadsAssumption, JobsAssumption
     DEF IInv, TypeOK, WorkerPCs, MainPCs, LockInv, HoldsLock, MainHoldsLock,
         MainInv, WorkerInv, FreshInv, JobAfterLoop,
         WGoto, Acquire, Release, mainVars, workerVars, lists, locals
<1>1. ASSUME NEW w \in Workers, Lock(w) PROVE IInv'
  BY <1>1 DEF Lock
<1>2. ASSUME NEW w \in Workers, CondWait(w) PROVE IInv'
  BY <1>2 DEF CondWait
<1>3. ASSUME NEW w \in Workers, LeaveLoop(w) PROVE IInv'
  BY <1>3 DEF LeaveLoop
<1>4. ASSUME NEW w \in Workers, TakeJob(w) PROVE IInv'
  <2>1. waiting_jobs # <<>>
    BY <1>4 DEF TakeJob
  <2>2. /\ Head(waiting_jobs) \in Jobs
        /\ Head(waiting_jobs) \in Range(waiting_jobs)
        /\ Tail(waiting_jobs) \in Seq(Jobs)
        /\ Range(Tail(waiting_jobs)) \subseteq Range(waiting_jobs)
    BY <2>1, HeadTail
  <2>3. /\ wpc' = [wpc EXCEPT ![w] = "exec"]
        /\ job' = [job EXCEPT ![w] = Head(waiting_jobs)]
        /\ waiting_jobs' = Tail(waiting_jobs)
        /\ mutex = w /\ mutex' = NoThread
        /\ UNCHANGED <<mainVars, finished>>
    BY <1>4, <2>1 DEF TakeJob
  <2>4. TypeOK' /\ LockInv' /\ WorkerInv'
    BY <1>4, <2>2, <2>3 DEF TakeJob
  <2>5. MainInv' /\ JobAfterLoop'
    BY <1>4, <2>3 DEF TakeJob
  <2>6. FreshInv'
    <3>1. Range(waiting_jobs)' \subseteq Range(waiting_jobs)
      BY <2>2, <2>3 DEF Range
    <3>2. mjob' = mjob /\ finished' = finished /\ dropped' = dropped
      BY <2>3
    <3> QED
      BY <2>2, <2>3, <3>1, <3>2
  <2> QED
    BY <2>4, <2>5, <2>6
<1>5. ASSUME NEW w \in Workers, Exit(w) PROVE IInv'
  BY <1>5 DEF Exit
<1>6. ASSUME NEW w \in Workers, RunJob(w) PROVE IInv'
  BY <1>6 DEF RunJob
<1>7. ASSUME NEW w \in Workers, SpuriousWakeup(w) PROVE IInv'
  BY <1>7 DEF SpuriousWakeup
<1>8. ASSUME NEW w \in Workers, CreateWorker(w) PROVE IInv'
  BY <1>8 DEF CreateWorker
<1>9. CASE LinkWorker
  BY <1>9 DEF LinkWorker
<1>10. CASE CreateFails
  BY <1>10 DEF CreateFails
<1>11. CASE AddLock
  BY <1>11 DEF AddLock
<1>12. CASE AddPush
  <2>1. mjob \in Jobs
    BY <1>12 DEF AddPush
  <2>2. waiting_jobs' \in Seq(Jobs) /\ waiting_jobs' # <<>>
    BY <1>12, <2>1, Push DEF AddPush
  <2> QED
    BY <1>12, <2>2 DEF AddPush
<1>13. CASE AddSignal
  BY <1>13 DEF AddSignal, CondSignal
<1>14. CASE AddUnlock
  BY <1>14 DEF AddUnlock
<1>15. CASE ShutdownStart
  BY <1>15 DEF ShutdownStart
<1>16. CASE ShutdownMark
  BY <1>16 DEF ShutdownMark
<1>17. CASE ShutdownNext
  BY <1>17 DEF ShutdownNext
<1>18. CASE ShutdownLock
  BY <1>18 DEF ShutdownLock
<1>19. CASE ShutdownClear
  <2>1. dropped' \subseteq Jobs
    BY <1>19, RangeOfSeq DEF ShutdownClear
  <2>2. TypeOK'
    BY <1>19, <2>1, EmptySeq DEF ShutdownClear
  <2>3. LockInv' /\ MainInv' /\ WorkerInv' /\ FreshInv'
    BY <1>19 DEF ShutdownClear
  <2>4. JobAfterLoop'
    BY <1>19 DEF ShutdownClear
  <2> QED
    BY <2>2, <2>3, <2>4
<1>20. CASE ShutdownBroadcast
  BY <1>20 DEF ShutdownBroadcast
<1>21. CASE ShutdownUnlock
  BY <1>21 DEF ShutdownUnlock
<1>22. ASSUME NEW j \in Jobs, Receive(j) PROVE IInv'
  BY <1>22 DEF Receive, Allocated, Range
<1>23. CASE UNCHANGED vars
  BY <1>23 DEF vars
<1> QED
  BY <1>1, <1>2, <1>3, <1>4, <1>5, <1>6, <1>7, <1>8, <1>9, <1>10, <1>11, <1>12, <1>13, <1>14, <1>15, <1>16, <1>17, <1>18, <1>19, <1>20, <1>21, <1>22, <1>23
     DEF Next, ServerNext, Worker, AddJob, Shutdown
-----------------------------------------------------------------------------
\* The inductive invariant holds throughout every behaviour.
LEMMA Inductive == Spec => []IInv
<1> QED
  BY InitIInv, StepIInv, PTL DEF Spec

\* Type correctness of the pool, for any finite set of workers and any jobs.
THEOREM TypeCorrect == Spec => []TypeOK
<1>1. IInv => TypeOK
  BY DEF IInv
<1> QED
  BY <1>1, Inductive, PTL

\* A worker that leaves the wait loop and is not told to stop has a job to take.
THEOREM JobIsThere == Spec => []JobAfterLoop
<1>1. IInv => JobAfterLoop
  BY DEF IInv
<1> QED
  BY <1>1, Inductive, PTL

\* However many workers are told to stop, at most one of them ever ends.
THEOREM OneExit == Spec => []AtMostOneExit
<1>1. IInv => AtMostOneExit
  BY DEF IInv, LockInv, HoldsLock, AtMostOneExit, Exited
<1> QED
  BY <1>1, Inductive, PTL

-----------------------------------------------------------------------------
\* With an ended worker no step touches the mutex or the lists.
LEMMA StepFrozen ==
  IInv /\ [Next]_vars =>
    (Exited # {} => UNCHANGED <<mutex, waiting_jobs, workers, dropped>>)
<1> SUFFICES ASSUME IInv, [Next]_vars, NEW e \in Workers, wpc[e] = "exited"
             PROVE  UNCHANGED <<mutex, waiting_jobs, workers, dropped>>
  BY DEF Exited
<1> USE ThreadsAssumption DEF mainVars, workerVars, lists, locals
<1>1. /\ mutex = e
      /\ \A w \in Workers : wpc[w] \notin {"loop", "term"}
      /\ mpc \notin MainHoldsLock
      /\ mpc \notin {"create", "link"}
  <2>1. mutex = e
    BY DEF IInv, LockInv, HoldsLock
  <2>2. \A w \in Workers : wpc[w] \in {"loop", "term"} => w = e
    BY <2>1 DEF IInv, LockInv, HoldsLock
  <2>3. mpc \notin MainHoldsLock
    BY <2>1 DEF IInv, LockInv
  <2>4. mpc \notin {"create", "link"}
    BY DEF IInv, WorkerInv, MainInv
  <2> QED
    BY <2>1, <2>2, <2>3, <2>4
<1>2. ASSUME NEW w \in Workers, Worker(w)
      PROVE  UNCHANGED <<mutex, waiting_jobs, workers, dropped>>
  BY <1>1, <1>2 DEF Worker, Lock, CondWait, LeaveLoop, TakeJob, Exit, RunJob, Acquire
<1>3. ASSUME NEW w \in Workers, SpuriousWakeup(w) \/ CreateWorker(w)
      PROVE  UNCHANGED <<mutex, waiting_jobs, workers, dropped>>
  BY <1>1, <1>3 DEF SpuriousWakeup, CreateWorker
<1>4. CASE LinkWorker \/ CreateFails
  BY <1>1, <1>4 DEF LinkWorker, CreateFails
<1>5. CASE AddJob
  BY <1>1, <1>5 DEF AddJob, AddLock, AddPush, AddSignal, AddUnlock, Acquire, MainHoldsLock
<1>6. CASE ShutdownStart \/ Shutdown
  BY <1>1, <1>6 DEF ShutdownStart, Shutdown, ShutdownMark, ShutdownNext, ShutdownLock,
     ShutdownClear, ShutdownBroadcast, ShutdownUnlock, Acquire, MainHoldsLock
<1>7. ASSUME NEW j \in Jobs, Receive(j)
      PROVE  UNCHANGED <<mutex, waiting_jobs, workers, dropped>>
  BY <1>7 DEF Receive
<1>8. CASE UNCHANGED vars
  BY <1>8 DEF vars
<1> QED
  BY <1>2, <1>3, <1>4, <1>5, <1>6, <1>7, <1>8 DEF Next, ServerNext

\* Once a worker has ended the pool never moves a job again.
THEOREM Frozen == Spec => FrozenAfterExit
<1>1. IInv /\ [Next]_vars =>
        [Exited # {} => UNCHANGED <<mutex, waiting_jobs, workers, dropped>>]_vars
  BY StepFrozen
<1> QED
  BY <1>1, Inductive, PTL DEF Spec, FrozenAfterExit
-----------------------------------------------------------------------------
(***************************************************************************)
(* NoLostWakeup, by counting: a step that adds a job adds a signal, and a  *)
(* step that takes a worker off its way takes a job off the list with it.  *)
(***************************************************************************)
Owed == IF mpc = "add_signal" THEN 1 ELSE 0

\* The workers on their way are a finite set, so they can be counted.
LEMMA ComingFinite ==
  ASSUME IInv
  PROVE  /\ IsFiniteSet(Coming) /\ Cardinality(Coming) \in Nat
         /\ IsFiniteSet(Coming') /\ Cardinality(Coming') \in Nat
<1>1. Coming \subseteq Workers /\ Coming' \subseteq Workers
  BY DEF Coming
<1> QED
  BY <1>1, ThreadsAssumption, FS_Subset, FS_CardinalityType

\* A step after which at least the same workers are on their way to a list
\* that is no longer keeps the property.
LEMMA NoFewerComing ==
  ASSUME IInv, NoLostWakeup, Coming \subseteq Coming', Asleep' \subseteq Asleep,
         Exited \subseteq Exited', Len(waiting_jobs') = Len(waiting_jobs),
         Owed' = Owed
  PROVE  NoLostWakeup'
<1>1. Cardinality(Coming) <= Cardinality(Coming')
  BY ComingFinite, FS_Subset
<1>2. Len(waiting_jobs) \in Nat /\ Owed \in Nat
  BY LenProperties DEF IInv, TypeOK, Owed
<1>3. SUFFICES ASSUME Asleep' # {}, Exited' = {}
               PROVE  Len(waiting_jobs') <= Cardinality(Coming') + Owed'
  BY DEF NoLostWakeup, Owed
<1>4. Len(waiting_jobs) <= Cardinality(Coming) + Owed
  BY <1>3 DEF NoLostWakeup, Owed
<1> QED
  BY <1>1, <1>2, <1>4, ComingFinite

\* No job waits for a wakeup nobody will send: preserved by every step.
LEMMA StepNoLostWakeup == IInv /\ NoLostWakeup /\ [Next]_vars => NoLostWakeup'
<1> SUFFICES ASSUME IInv, NoLostWakeup, [Next]_vars PROVE NoLostWakeup'
  OBVIOUS
<1> USE ThreadsAssumption DEF mainVars, workerVars, lists, locals, WGoto
<1>t. /\ wpc \in [Workers -> WorkerPCs]
      /\ waiting_jobs \in Seq(Jobs) /\ Len(waiting_jobs) \in Nat
  BY LenProperties DEF IInv, TypeOK
<1>f. /\ IsFiniteSet(Coming) /\ Cardinality(Coming) \in Nat
      /\ Cardinality(Coming') \in Nat
  BY ComingFinite
<1> DEFINE Keeps == /\ Coming \subseteq Coming' /\ Asleep' \subseteq Asleep
                    /\ Exited \subseteq Exited' /\ waiting_jobs' = waiting_jobs
                    /\ Owed' = Owed
<1>k. Keeps => NoLostWakeup'
  BY NoFewerComing
<1> HIDE DEF Keeps
<1>1. ASSUME NEW w \in Workers,
             Lock(w) \/ LeaveLoop(w) \/ RunJob(w) \/ SpuriousWakeup(w)
      PROVE  NoLostWakeup'
  <2>1. Keeps
    BY <1>1, <1>t DEF Keeps, Lock, LeaveLoop, RunJob, SpuriousWakeup,
       Coming, Asleep, Exited, Owed
  <2> QED
    BY <2>1, <1>k
<1>2. ASSUME NEW w \in Workers, CreateWorker(w) PROVE NoLostWakeup'
  <2>1. Keeps
    BY <1>2, <1>t DEF Keeps, CreateWorker, Coming, Asleep, Exited, Owed
  <2> QED
    BY <2>1, <1>k
<1>3. ASSUME NEW w \in Workers, CondWait(w) PROVE NoLostWakeup'
  <2>1. Len(waiting_jobs') = 0
    BY <1>3, EmptySeq DEF CondWait
  <2> QED
    BY <2>1, <1>f DEF NoLostWakeup
<1>4. ASSUME NEW w \in Workers, TakeJob(w) PROVE NoLostWakeup'
  <2>1. waiting_jobs # <<>>
    BY <1>4 DEF TakeJob, IInv, JobAfterLoop
  <2>2. Len(waiting_jobs') = Len(waiting_jobs) - 1
    BY <1>4, <1>t, <2>1, HeadTail DEF TakeJob
  <2>3. w \in Coming /\ Coming' = Coming \ {w}
    BY <1>4, <1>t, <2>1 DEF TakeJob, Coming
  <2>4. Cardinality(Coming') = Cardinality(Coming) - 1
    BY <1>f, <2>3, FS_RemoveElement
  <2>5. Asleep' = Asleep /\ Exited' = Exited /\ mpc' = mpc
    BY <1>4, <1>t, <2>1 DEF TakeJob, Asleep, Exited
  <2> QED
    BY <1>f, <1>t, <2>2, <2>4, <2>5 DEF NoLostWakeup
<1>5. ASSUME NEW w \in Workers, Exit(w) PROVE NoLostWakeup'
  <2>1. w \in Exited'
    BY <1>5, <1>t DEF Exit, Exited
  <2> QED
    BY <2>1 DEF NoLostWakeup
<1>6. CASE AddPush
  <2>1. mjob \in Jobs
    BY <1>6, JobsAssumption DEF AddPush, IInv, TypeOK, MainInv
  <2>2. Len(waiting_jobs') = Len(waiting_jobs) + 1
    BY <1>6, <1>t, <2>1, Push DEF AddPush
  <2>3. /\ Coming' = Coming /\ Asleep' = Asleep /\ Exited' = Exited
        /\ mpc = "add_push" /\ mpc' = "add_signal"
    BY <1>6 DEF AddPush, Coming, Asleep, Exited
  <2>4. Cardinality(Coming') = Cardinality(Coming)
    BY <2>3
  <2> QED
    BY <1>f, <1>t, <2>2, <2>3, <2>4 DEF NoLostWakeup
<1>7. CASE AddSignal
  <2>1. waiting_jobs' = waiting_jobs /\ mpc = "add_signal" /\ mpc' = "add_unlock"
    BY <1>7 DEF AddSignal
  <2>2. ASSUME NEW w \in Workers, wpc[w] = "wait", WGoto(w, "lock")
        PROVE  NoLostWakeup'
    <3>1. w \notin Coming /\ Coming' = Coming \cup {w}
      BY <1>t, <2>2 DEF Coming
    <3>2. Cardinality(Coming') = Cardinality(Coming) + 1
      BY <1>f, <3>1, FS_AddElement
    <3>3. Asleep # {} /\ Exited' = Exited
      BY <1>t, <2>2 DEF Asleep, Exited
    <3> QED
      BY <1>f, <1>t, <2>1, <3>2, <3>3 DEF NoLostWakeup
  <2>3. CASE (\A w \in Workers : wpc[w] # "wait") /\ UNCHANGED wpc
    <3>1. Asleep' = {}
      BY <2>3 DEF Asleep
    <3> QED
      BY <3>1 DEF NoLostWakeup
  <2> QED
    BY <1>7, <2>2, <2>3 DEF AddSignal, CondSignal
<1>8. CASE ShutdownClear
  <2>1. Len(waiting_jobs') = 0
    BY <1>8, EmptySeq DEF ShutdownClear
  <2> QED
    BY <2>1, <1>f DEF NoLostWakeup
<1>9. CASE ShutdownBroadcast
  <2>1. Asleep' = {}
    BY <1>9, <1>t DEF ShutdownBroadcast, Asleep
  <2> QED
    BY <2>1 DEF NoLostWakeup
<1>10. CASE LinkWorker \/ CreateFails \/ AddLock \/ AddUnlock
  <2>1. Keeps
    BY <1>10 DEF Keeps, LinkWorker, CreateFails, AddLock, AddUnlock,
       Coming, Asleep, Exited, Owed
  <2> QED
    BY <2>1, <1>k
<1>11. CASE ShutdownStart \/ ShutdownMark \/ ShutdownNext \/ ShutdownLock \/ ShutdownUnlock
  <2>1. Keeps
    BY <1>11 DEF Keeps, ShutdownStart, ShutdownMark, ShutdownNext, ShutdownLock,
       ShutdownUnlock, Coming, Asleep, Exited, Owed
  <2> QED
    BY <2>1, <1>k
<1>12. ASSUME NEW j \in Jobs, Receive(j) PROVE NoLostWakeup'
  <2>1. Keeps
    BY <1>12 DEF Keeps, Receive, Coming, Asleep, Exited, Owed
  <2> QED
    BY <2>1, <1>k
<1>13. CASE UNCHANGED vars
  <2>1. Keeps
    BY <1>13 DEF Keeps, vars, Coming, Asleep, Exited, Owed
  <2> QED
    BY <2>1, <1>k
<1> QED
  BY <1>1, <1>2, <1>3, <1>4, <1>5, <1>6, <1>7, <1>8, <1>9, <1>10, <1>11, <1>12, <1>13
     DEF Next, ServerNext, Worker, AddJob, Shutdown

\* One signal per job suffices, for any number of workers.
THEOREM WakeupsSuffice == Spec => []NoLostWakeup
<1>1. Init => NoLostWakeup
  BY DEF Init, NoLostWakeup, Asleep
<1> QED
  BY <1>1, StepNoLostWakeup, Inductive, PTL DEF Spec
-----------------------------------------------------------------------------
\* The initial state and every step of the pool are an initial state and a
\* step, or a stutter, of the stack of jobs.
LEMMA StepDispatch == IInv /\ [Next]_vars => [Dispatch!Next]_(Dispatch!vars)
<1> SUFFICES ASSUME IInv, [Next]_vars PROVE Dispatch!Next \/ UNCHANGED Dispatch!vars
  OBVIOUS
<1> USE DEF mainVars, workerVars, lists, locals, Dispatch!vars
<1>1. ASSUME NEW w \in Workers,
             \/ Lock(w) \/ CondWait(w) \/ LeaveLoop(w) \/ Exit(w)
             \/ SpuriousWakeup(w) \/ CreateWorker(w)
      PROVE  UNCHANGED Dispatch!vars
  BY <1>1 DEF Lock, CondWait, LeaveLoop, Exit, SpuriousWakeup, CreateWorker
<1>2. ASSUME NEW w \in Workers, TakeJob(w) PROVE Dispatch!Start(w)
  BY <1>2 DEF TakeJob, Dispatch!Start, IInv, WorkerInv, JobAfterLoop
<1>3. ASSUME NEW w \in Workers, RunJob(w) PROVE Dispatch!Finish(w)
  BY <1>3 DEF RunJob, Dispatch!Finish, IInv, WorkerInv
<1>4. CASE AddPush
  <2>1. mjob # NoJob /\ mjob \in Jobs
    BY <1>4 DEF AddPush, IInv, MainInv, TypeOK
  <2>2. mjob \notin Dispatch!Accepted
    BY <2>1 DEF Dispatch!Accepted, Dispatch!Range, IInv, FreshInv, TypeOK, Range
  <2>3. Dispatch!Submit(mjob)
    BY <1>4, <2>2 DEF AddPush, Dispatch!Submit
  <2> QED
    BY <2>1, <2>3 DEF Dispatch!Next
<1>5. CASE ShutdownClear
  BY <1>5 DEF ShutdownClear, Dispatch!Discard, Dispatch!Next, Dispatch!Range, Range
<1>6. CASE \/ LinkWorker \/ CreateFails \/ AddLock \/ AddSignal \/ AddUnlock
           \/ ShutdownStart \/ ShutdownMark \/ ShutdownNext \/ ShutdownLock
           \/ ShutdownBroadcast \/ ShutdownUnlock
  BY <1>6 DEF LinkWorker, CreateFails, AddLock, AddSignal, AddUnlock, ShutdownStart,
     ShutdownMark, ShutdownNext, ShutdownLock, ShutdownBroadcast, ShutdownUnlock
<1>7. ASSUME NEW j \in Jobs, Receive(j) PROVE UNCHANGED Dispatch!vars
  BY <1>7 DEF Receive
<1>8. CASE UNCHANGED vars
  BY <1>8 DEF vars
<1> QED
  BY <1>1, <1>2, <1>3, <1>4, <1>5, <1>6, <1>7, <1>8
     DEF Next, ServerNext, Worker, AddJob, Shutdown, Dispatch!Next

\* The pool is a stack of jobs: each accepted job is run at most once, by one
\* worker, and a shutdown is the only other way a job leaves the list.
THEOREM Implements == Spec => ImplementsDispatch
<1>1. Init => Dispatch!Init
  BY DEF Init, Dispatch!Init
<1> QED
  BY <1>1, Inductive, StepDispatch, PTL DEF Spec, Dispatch!Spec, ImplementsDispatch
=============================================================================
