------------------------------ MODULE RunQueue ------------------------------
(***************************************************************************)
(* What get_next_proc() promises ("simple FIFO", proc/sched.c): the        *)
(* runnable processes stand in one queue, the one at the head has the CPU, *)
(* only it can give the CPU up or leave, and newcomers go to the end.      *)
(* SsuProc implements this specification with queue <- r_list.             *)
(***************************************************************************)
EXTENDS Naturals, Sequences

CONSTANTS Tasks, First   \* all tasks; the one that runs from the start

VARIABLE queue

Queued == {queue[i] : i \in DOMAIN queue}

Init == queue = <<First>>

\* The head goes to the end of the queue.
Yield == queue # <<>> /\ queue' = Append(Tail(queue), Head(queue))

\* The head ends; the first task never does.
Finish == queue # <<>> /\ Head(queue) # First /\ queue' = Tail(queue)

Join == \E t \in Tasks \ Queued : queue' = Append(queue, t)

Next == Yield \/ Finish \/ Join

Spec == Init /\ [][Next]_queue

\* No task keeps the head of the queue for ever, if another one waits.
FairSpec == Spec /\ WF_queue(Yield \/ Finish)
=============================================================================
