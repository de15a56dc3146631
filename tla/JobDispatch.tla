----------------------------- MODULE JobDispatch -----------------------------
(***************************************************************************)
(* What the thread pool of mythread.c promises to the UDP server, free of  *)
(* mutexes and condition variables: a stack of accepted jobs, each taken   *)
(* from the top by one worker, which runs it to its end.  ThreadPool is    *)
(* shown to implement this module.                                         *)
(***************************************************************************)
EXTENDS Sequences, Functions

CONSTANTS Workers,  \* the threads that may run jobs
          Jobs,     \* the job_t blocks ever allocated
          NoJob     \* a worker's job pointer while it has none

VARIABLES stack,     \* accepted jobs, the latest first
          running,   \* worker -> the job it runs, or NoJob
          finished,  \* jobs whose function has returned
          dropped    \* jobs forgotten by a shutdown, never run

vars == <<stack, running, finished, dropped>>

Init == /\ stack = <<>>
        /\ running = [w \in Workers |-> NoJob]
        /\ finished = {}
        /\ dropped = {}

\* Every job that has ever been accepted.
Accepted == Range(stack) \cup finished \cup dropped \cup (Range(running) \ {NoJob})

Submit(j) == /\ j \notin Accepted
             /\ stack' = <<j>> \o stack
             /\ UNCHANGED <<running, finished, dropped>>

Start(w) == /\ running[w] = NoJob
            /\ stack # <<>>
            /\ running' = [running EXCEPT ![w] = Head(stack)]
            /\ stack' = Tail(stack)
            /\ UNCHANGED <<finished, dropped>>

Finish(w) == /\ running[w] # NoJob
             /\ finished' = finished \cup {running[w]}
             /\ running' = [running EXCEPT ![w] = NoJob]
             /\ UNCHANGED <<stack, dropped>>

Discard == /\ dropped' = dropped \cup Range(stack)
           /\ stack' = <<>>
           /\ UNCHANGED <<running, finished>>

Next == \/ \E j \in Jobs : Submit(j)
        \/ \E w \in Workers : Start(w) \/ Finish(w)
        \/ Discard

Spec == Init /\ [][Next]_vars
=============================================================================
