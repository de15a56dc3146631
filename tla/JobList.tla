------------------------------- MODULE JobList -------------------------------
(***************************************************************************)
(* The list of jobs of mythread.h, pointer by pointer: LL_ADD and          *)
(* LL_REMOVE on the prev and next of job_t blocks that main.c takes from   *)
(* malloc and deal_msg gives back to free.  jobs_mutex is held around each *)
(* of the two macros, so each is one step here (ThreadPool has the mutex). *)
(* The sequence `order' is a history variable: the stack that ThreadPool   *)
(* calls waiting_jobs.                                                     *)
(***************************************************************************)
EXTENDS Naturals, Sequences, Functions

CONSTANTS Jobs,  \* the blocks malloc can return for a job_t
          NULL

ASSUME NullAssumption == NULL \notin Jobs

VARIABLES waiting_jobs,  \* the head of the list
          prev, next,    \* the links of each block, whatever its state
          block,         \* job -> who has it
          order          \* history: the accepted jobs, the latest first

vars == <<waiting_jobs, prev, next, block, order>>

BlockStates == {"free",    \* malloc may return it
                "main",    \* filled by main, not added yet
                "listed",  \* added, waiting for a worker
                "worker",  \* removed, being run
                "lost"}    \* forgotten by workqueue_shutdown: never freed

Init == /\ waiting_jobs = NULL
        /\ prev = [j \in Jobs |-> NULL]
        /\ next = [j \in Jobs |-> NULL]
        /\ block = [j \in Jobs |-> "free"]
        /\ order = <<>>

\* What malloc returns is not cleared: the links hold anything.
Malloc(j) == /\ block[j] = "free"
             /\ \A k \in Jobs : block[k] # "main"
             /\ block' = [block EXCEPT ![j] = "main"]
             /\ \E p, n \in Jobs \cup {NULL} : /\ prev' = [prev EXCEPT ![j] = p]
                                               /\ next' = [next EXCEPT ![j] = n]
             /\ UNCHANGED <<waiting_jobs, order>>

\* Mutants of LL_ADD: its last two assignments swapped, and the first left out.
LL_ADD_Swapped(item) == /\ prev' = [prev EXCEPT ![item] = NULL]
                        /\ next' = [next EXCEPT ![item] = item]
                        /\ waiting_jobs' = item
LL_ADD_KeepsPrev(item) == /\ next' = [next EXCEPT ![item] = waiting_jobs]
                          /\ waiting_jobs' = item
                          /\ UNCHANGED prev

LL_ADD(item) == /\ prev' = [prev EXCEPT ![item] = NULL]
                /\ next' = [next EXCEPT ![item] = waiting_jobs]
                /\ waiting_jobs' = item

\* Through prev[item] and next[item], where they point; then the item's own.
LL_REMOVE(item) ==
  LET next1 == IF prev[item] = NULL THEN next
                 ELSE [next EXCEPT ![prev[item]] = next[item]]
      prev1 == IF next1[item] = NULL THEN prev
                 ELSE [prev EXCEPT ![next1[item]] = prev[item]]
  IN  /\ waiting_jobs' = IF waiting_jobs = item THEN next1[item] ELSE waiting_jobs
      /\ prev' = [prev1 EXCEPT ![item] = NULL]
      /\ next' = [next1 EXCEPT ![item] = NULL]

\* workqueue_add_job.
Add(j) == /\ block[j] = "main"
          /\ LL_ADD(j)
          /\ block' = [block EXCEPT ![j] = "listed"]
          /\ order' = <<j>> \o order

\* worker_function takes the head of the list.
Take == /\ waiting_jobs # NULL
        /\ LL_REMOVE(waiting_jobs)
        /\ block' = [block EXCEPT ![waiting_jobs] = "worker"]
        /\ order' = Tail(order)

\* The end of deal_msg.
Free(j) == /\ block[j] = "worker"
           /\ block' = [block EXCEPT ![j] = "free"]
           /\ UNCHANGED <<waiting_jobs, prev, next, order>>

\* workqueue_shutdown clears the head and leaves the blocks where they are.
Clear == /\ waiting_jobs' = NULL
         /\ block' = [j \in Jobs |-> IF block[j] = "listed" THEN "lost" ELSE block[j]]
         /\ order' = <<>>
         /\ UNCHANGED <<prev, next>>

Next == \/ \E j \in Jobs : Malloc(j) \/ Add(j) \/ Free(j)
        \/ Take
        \/ Clear

Spec == Init /\ [][Next]_vars
-----------------------------------------------------------------------------
(* Properties *)

TypeOK == /\ waiting_jobs \in Jobs \cup {NULL}
          /\ prev \in [Jobs -> Jobs \cup {NULL}]
          /\ next \in [Jobs -> Jobs \cup {NULL}]
          /\ block \in [Jobs -> BlockStates]
          /\ order \in Seq(Jobs)

\* Following next from waiting_jobs visits the accepted jobs, the latest
\* first, each once, and ends: although a block comes with any links in it and
\* LL_REMOVE writes through them, the list is the stack of ThreadPool.
ListIsStack ==
  /\ waiting_jobs = IF order = <<>> THEN NULL ELSE order[1]
  /\ \A i \in 1..Len(order) :
       next[order[i]] = IF i = Len(order) THEN NULL ELSE order[i + 1]
  /\ \A h, i \in 1..Len(order) : order[h] = order[i] => h = i
  /\ \A j \in Jobs : block[j] = "listed" <=> \E i \in 1..Len(order) : order[i] = j

\* No step writes a link of a block that is free before and after it, or that
\* a worker is running: LL_REMOVE never follows a stale pointer.
NoStrayWrite ==
  [][\A j \in Jobs : /\ block[j] \in {"free", "worker", "lost"}
                     /\ block'[j] = block[j]
                     => prev'[j] = prev[j] /\ next'[j] = next[j]]_vars
=============================================================================
