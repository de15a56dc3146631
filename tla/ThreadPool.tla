------------------------------ MODULE ThreadPool ------------------------------
(***************************************************************************)
(* The thread pool of mythread.c.  One thread, Main, creates the workers,  *)
(* hands them jobs (workqueue_add_job) and may stop them                   *)
(* (workqueue_shutdown); each worker runs worker_function.  A step is what *)
(* a thread does between two points at which another thread can act: the   *)
(* mutex calls, the condition variable, and the reads and writes of        *)
(* `terminate' and of the list of workers, which no lock protects.         *)
(***************************************************************************)
EXTENDS Naturals, Sequences, FiniteSets, Functions

CONSTANTS Workers,   \* the threads workqueue_init tries to create
          Jobs,      \* the job_t blocks ever allocated: bounds a behaviour
          Main,      \* the thread that runs main()
          NoThread,  \* the owner of a free mutex
          NoJob      \* a NULL job pointer

\* workqueue_init raises numWorkers to 1, so the pool asks for a worker at least.
ASSUME ThreadsAssumption == /\ IsFiniteSet(Workers)
                            /\ Workers # {}
                            /\ Main \notin Workers
                            /\ NoThread \notin Workers \cup {Main}
ASSUME JobsAssumption == NoJob \notin Jobs

VARIABLES mutex,         \* jobs_mutex: the thread that holds it, or NoThread
          waiting_jobs,  \* the list of jobs, its head first
          workers,       \* the list of workers, its head (the last added) first
          terminate,     \* worker -> its terminate flag
          wpc,           \* worker -> where it is in worker_function
          job,           \* worker -> its local `job'
          mpc,           \* where Main is
          mjob,          \* the job Main is adding
          made,          \* the worker workqueue_init has created and not linked
          cur,           \* shutdown's list pointer, as an index of workers
          finished,      \* history: jobs whose job_function returned
          dropped        \* history: jobs on the list when shutdown cleared it

vars == <<mutex, waiting_jobs, workers, terminate, wpc, job, mpc, mjob, made,
          cur, finished, dropped>>

workerVars == <<wpc, job, finished>>
lists == <<waiting_jobs, workers, terminate, dropped>>
locals == <<mjob, made, cur>>
mainVars == <<workers, terminate, dropped, mpc, locals>>

WorkerPCs == {"unborn", "lock", "loop", "term", "wait", "exec", "exited"}
MainPCs == {"create", "link", "recv", "add_lock", "add_push", "add_signal",
            "add_unlock", "sd_mark", "sd_next", "sd_lock", "sd_clear",
            "sd_broadcast", "sd_unlock", "crashed"}

Init == /\ mutex = NoThread
        /\ waiting_jobs = <<>>
        /\ workers = <<>>
        /\ terminate = [w \in Workers |-> FALSE]
        /\ wpc = [w \in Workers |-> "unborn"]
        /\ job = [w \in Workers |-> NoJob]
        /\ mpc = "create"
        /\ mjob = NoJob
        /\ made = NoThread
        /\ cur = 0
        /\ finished = {}
        /\ dropped = {}

WGoto(w, to) == wpc' = [wpc EXCEPT ![w] = to]
Acquire(t) == mutex = NoThread /\ mutex' = t
Release == mutex' = NoThread
-----------------------------------------------------------------------------
(* worker_function *)

\* pthread_mutex_lock, and the same acquisition inside pthread_cond_wait once
\* the thread is woken: both lead to the test of the inner while.
Lock(w) == /\ wpc[w] = "lock"
           /\ Acquire(w)
           /\ WGoto(w, "loop")
           /\ UNCHANGED <<mainVars, waiting_jobs, job, finished>>

\* The list is empty and the worker is not told to stop: pthread_cond_wait
\* gives the mutex up and sleeps, in one step.
CondWait(w) == /\ wpc[w] = "loop"
               /\ waiting_jobs = <<>>
               /\ ~terminate[w]
               /\ Release
               /\ WGoto(w, "wait")
               /\ UNCHANGED <<mainVars, waiting_jobs, job, finished>>

\* Mutant of LeaveLoop: an `if' where the code has the inner while.
LeaveLoopOnWakeup(w) ==
  /\ wpc[w] = "loop"
  /\ WGoto(w, "term")
  /\ UNCHANGED <<mainVars, mutex, waiting_jobs, job, finished>>

\* Out of the inner while, by its condition or by its break.
LeaveLoop(w) == /\ wpc[w] = "loop"
                /\ waiting_jobs # <<>> \/ terminate[w]
                /\ WGoto(w, "term")
                /\ UNCHANGED <<mainVars, mutex, waiting_jobs, job, finished>>

\* POSIX lets pthread_cond_wait return without a signal.
SpuriousWakeup(w) == /\ wpc[w] = "wait"
                     /\ WGoto(w, "lock")
                     /\ UNCHANGED <<mainVars, mutex, waiting_jobs, job, finished>>

\* Mutant of TakeJob: without LL_REMOVE.
TakeJobKeeps(w) ==
  /\ wpc[w] = "term"
  /\ ~terminate[w]
  /\ waiting_jobs # <<>>
  /\ job' = [job EXCEPT ![w] = Head(waiting_jobs)]
  /\ WGoto(w, "exec")
  /\ Release
  /\ UNCHANGED <<mainVars, waiting_jobs, finished>>

\* Unlink the head, unlock, and either run the job or go round again.
TakeJob(w) == /\ wpc[w] = "term"
              /\ ~terminate[w]
              /\ IF waiting_jobs = <<>>
                   THEN WGoto(w, "lock") /\ UNCHANGED <<waiting_jobs, job>>
                   ELSE /\ WGoto(w, "exec")
                        /\ job' = [job EXCEPT ![w] = Head(waiting_jobs)]
                        /\ waiting_jobs' = Tail(waiting_jobs)
              /\ Release
              /\ UNCHANGED <<mainVars, finished>>

\* Mutant of Exit: the worker unlocks before it ends.
ExitUnlocks(w) ==
  /\ wpc[w] = "term"
  /\ terminate[w]
  /\ WGoto(w, "exited")
  /\ Release
  /\ UNCHANGED <<mainVars, waiting_jobs, job, finished>>

\* The second break: the worker frees itself and ends, with the mutex held.
Exit(w) == /\ wpc[w] = "term"
           /\ terminate[w]
           /\ WGoto(w, "exited")
           /\ UNCHANGED <<mainVars, mutex, waiting_jobs, job, finished>>

\* job->job_function(job), which frees the job.
RunJob(w) == /\ wpc[w] = "exec"
             /\ finished' = finished \cup {job[w]}
             /\ job' = [job EXCEPT ![w] = NoJob]
             /\ WGoto(w, "lock")
             /\ UNCHANGED <<mainVars, mutex, waiting_jobs>>

Worker(w) == \/ Lock(w) \/ CondWait(w) \/ LeaveLoop(w)
             \/ TakeJob(w) \/ Exit(w) \/ RunJob(w)
-----------------------------------------------------------------------------
(* workqueue_init, called by Main through threadpool_init *)

\* pthread_create: the new thread runs before it is on the list of workers.
CreateWorker(w) == /\ mpc = "create"
                   /\ wpc[w] = "unborn"
                   /\ WGoto(w, "lock")
                   /\ made' = w
                   /\ mpc' = "link"
                   /\ UNCHANGED <<mutex, lists, job, mjob, cur, finished>>

LinkWorker == /\ mpc = "link"
              /\ workers' = <<made>> \o workers
              /\ made' = NoThread
              /\ mpc' = IF \E w \in Workers : wpc[w] = "unborn"
                          THEN "create" ELSE "recv"
              /\ UNCHANGED <<workerVars, mutex, waiting_jobs, terminate, dropped,
                             mjob, cur>>

\* malloc or pthread_create fails: workqueue_init returns 1 with the workers
\* it has, and threadpool_init ignores what it returns.
CreateFails == /\ mpc = "create"
               /\ mpc' = "recv"
               /\ UNCHANGED <<workerVars, mutex, lists, locals>>
-----------------------------------------------------------------------------
(* workqueue_add_job, called by Main for each datagram *)

Allocated == Range(waiting_jobs) \cup finished \cup dropped \cup {mjob}
               \cup Range(job)

Receive(j) == /\ mpc = "recv"
              /\ j \notin Allocated
              /\ mjob' = j
              /\ mpc' = "add_lock"
              /\ UNCHANGED <<workerVars, mutex, lists, made, cur>>

AddLock == /\ mpc = "add_lock"
           /\ Acquire(Main)
           /\ mpc' = "add_push"
           /\ UNCHANGED <<workerVars, lists, locals>>

AddPush == /\ mpc = "add_push"
           /\ waiting_jobs' = <<mjob>> \o waiting_jobs
           /\ mjob' = NoJob
           /\ mpc' = "add_signal"
           /\ UNCHANGED <<workerVars, mutex, workers, terminate, made, cur, dropped>>

\* Mutants of CondSignal: no signal, and a signal for the first job only.
NoSignal == UNCHANGED wpc
SignalIfFirst ==
  IF Len(waiting_jobs) = 1 /\ \E w \in Workers : wpc[w] = "wait"
    THEN \E w \in Workers : wpc[w] = "wait" /\ WGoto(w, "lock")
    ELSE UNCHANGED wpc

\* pthread_cond_signal wakes one of the threads that wait, if there are any.
CondSignal == \/ \E w \in Workers : wpc[w] = "wait" /\ WGoto(w, "lock")
              \/ (\A w \in Workers : wpc[w] # "wait") /\ UNCHANGED wpc

AddSignal == /\ mpc = "add_signal"
             /\ CondSignal
             /\ mpc' = "add_unlock"
             /\ UNCHANGED <<mutex, lists, locals, job, finished>>

AddUnlock == /\ mpc = "add_unlock"
             /\ Release
             /\ mpc' = "recv"
             /\ UNCHANGED <<workerVars, lists, locals>>
-----------------------------------------------------------------------------
(* workqueue_shutdown *)

\* The caller shuts the pool down once.
ShutdownStart == /\ mpc = "recv"
                 /\ \A w \in Workers : ~terminate[w]
                 /\ cur' = IF workers = <<>> THEN 0 ELSE 1
                 /\ mpc' = IF workers = <<>> THEN "sd_lock" ELSE "sd_mark"
                 /\ UNCHANGED <<workerVars, mutex, lists, mjob, made>>

ShutdownMark == /\ mpc = "sd_mark"
                /\ terminate' = [terminate EXCEPT ![workers[cur]] = TRUE]
                /\ mpc' = "sd_next"
                /\ UNCHANGED <<workerVars, mutex, locals, waiting_jobs, workers, dropped>>

\* Mutant of ShutdownNext: the loop moves on from the last worker too.
ShutdownNextPastEnd ==
  /\ mpc = "sd_next"
  /\ cur' = cur + 1
  /\ mpc' = IF cur = Len(workers) THEN "sd_lock" ELSE "sd_mark"
  /\ UNCHANGED <<workerVars, mutex, lists, mjob, made>>

\* worker = worker->next.  The worker just marked may have freed itself: the
\* read then finds the old link in the freed block, or the process dies.
ShutdownNext == /\ mpc = "sd_next"
                /\ \/ /\ cur' = IF cur = Len(workers) THEN 0 ELSE cur + 1
                      /\ mpc' = IF cur = Len(workers) THEN "sd_lock" ELSE "sd_mark"
                   \/ /\ wpc[workers[cur]] = "exited"
                      /\ mpc' = "crashed"
                      /\ UNCHANGED cur
                /\ UNCHANGED <<workerVars, mutex, lists, mjob, made>>

ShutdownLock == /\ mpc = "sd_lock"
                /\ Acquire(Main)
                /\ mpc' = "sd_clear"
                /\ UNCHANGED <<workerVars, lists, locals>>

ShutdownClear == /\ mpc = "sd_clear"
                 /\ workers' = <<>>
                 /\ dropped' = dropped \cup Range(waiting_jobs)
                 /\ waiting_jobs' = <<>>
                 /\ mpc' = "sd_broadcast"
                 /\ UNCHANGED <<workerVars, mutex, locals, terminate>>

ShutdownBroadcast ==
  /\ mpc = "sd_broadcast"
  /\ wpc' = [w \in Workers |-> IF wpc[w] = "wait" THEN "lock" ELSE wpc[w]]
  /\ mpc' = "sd_unlock"
  /\ UNCHANGED <<mutex, lists, locals, job, finished>>

ShutdownUnlock == /\ mpc = "sd_unlock"
                  /\ Release
                  /\ mpc' = "recv"
                  /\ UNCHANGED <<workerVars, lists, locals>>
-----------------------------------------------------------------------------
AddJob == AddLock \/ AddPush \/ AddSignal \/ AddUnlock

Shutdown == \/ ShutdownMark \/ ShutdownNext \/ ShutdownLock
            \/ ShutdownClear \/ ShutdownBroadcast \/ ShutdownUnlock

\* What main.c does with the pool: it never stops it.
ServerNext == /\ mpc # "crashed"
              /\ \/ \E w \in Workers : Worker(w) \/ SpuriousWakeup(w) \/ CreateWorker(w)
                 \/ LinkWorker \/ CreateFails
                 \/ \E j \in Jobs : Receive(j)
                 \/ AddJob

Next == \/ ServerNext
        \/ mpc # "crashed" /\ (ShutdownStart \/ Shutdown)

Spec == Init /\ [][Next]_vars

\* Every thread that can go on eventually does: the operating system schedules
\* them all.  A mutex that stays free is eventually granted to a thread that
\* wants it, but a mutex taken again and again may never be (weak fairness, as
\* pthread mutexes are not first-come first-served).  Datagrams, spurious
\* wakeups and the decision to shut down are nobody's duty.
Fairness == /\ \A w \in Workers : WF_vars(Worker(w))
            /\ WF_vars(LinkWorker)
            /\ WF_vars(AddJob)
            /\ WF_vars(Shutdown)

FairSpec == Spec /\ Fairness
-----------------------------------------------------------------------------
(* Properties *)

TypeOK == /\ mutex \in Workers \cup {Main, NoThread}
          /\ waiting_jobs \in Seq(Jobs)
          /\ workers \in Seq(Workers)
          /\ terminate \in [Workers -> BOOLEAN]
          /\ wpc \in [Workers -> WorkerPCs]
          /\ job \in [Workers -> Jobs \cup {NoJob}]
          /\ mpc \in MainPCs
          /\ mjob \in Jobs \cup {NoJob}
          /\ made \in Workers \cup {NoThread}
          /\ cur \in 0..Len(workers)
          /\ finished \subseteq Jobs
          /\ dropped \subseteq Jobs

Asleep == {w \in Workers : wpc[w] = "wait"}
Coming == {w \in Workers : wpc[w] \in {"lock", "loop", "term"}}
Exited == {w \in Workers : wpc[w] = "exited"}

\* One signal per job is enough: while a worker sleeps, there are at least as
\* many workers on their way to the list as jobs on it (Main's signal for the
\* job it has just pushed counts as one on its way), so no job waits for a
\* wakeup that nobody will send (mythread.c, CondWait against AddSignal).
NoLostWakeup ==
  Asleep # {} /\ Exited = {} =>
    Len(waiting_jobs) <= Cardinality(Coming) + (IF mpc = "add_signal" THEN 1 ELSE 0)

\* A worker that has left the wait loop and is not told to stop finds a job:
\* the NULL check of worker_function is never needed, whatever other workers
\* took and however often the condition variable woke somebody for nothing.
JobAfterLoop ==
  \A w \in Workers : wpc[w] = "term" => waiting_jobs # <<>> \/ terminate[w]

\* workqueue_shutdown never stops the pool: a worker that obeys `terminate'
\* ends with jobs_mutex held, so it is the only one that ever does.
AtMostOneExit == \A v, w \in Exited : v = w

\* Once a worker has ended, the pool is frozen: nobody takes the mutex again,
\* and no job is added, taken or dropped.
FrozenAfterExit ==
  [][Exited # {} => UNCHANGED <<mutex, waiting_jobs, workers, dropped>>]_vars

\* The pool implements the stack of jobs of JobDispatch: a job is accepted
\* once, runs at most once, in one worker, and the job taken is the latest one.
Dispatch == INSTANCE JobDispatch WITH stack <- waiting_jobs, running <- job
ImplementsDispatch == Dispatch!Spec

\* Every job on the list is run, unless the pool is shut down, which main.c
\* never does, or workqueue_init failed to create any worker at all.
EveryJobRuns ==
  \A j \in Jobs :
    j \in Range(waiting_jobs) ~>
      j \in finished \/ workers = <<>> \/ \E w \in Workers : terminate[w]

\* A shutdown of a pool that has workers always ends with the mutex owned by a
\* thread that is gone, or in the read of a freed worker.
ShutdownLosesMutex ==
  mpc = "sd_mark" ~> \/ \E w \in Workers : mutex = w /\ wpc[w] = "exited"
                     \/ mpc = "crashed"
=============================================================================
