------------------------------ MODULE PrioSched ------------------------------
(***************************************************************************)
(* Multi-level scheduler of the SSUOS_P4 kernel: the run queues of         *)
(* proc/proc.c, schedule() of proc/sched.c and the accounting of           *)
(* timer_handler() in arch/interrupt.c.                                    *)
(*                                                                         *)
(* idle() is process 0.  It creates the workers kernel1_proc, kernel2_proc *)
(* and then schedules for ever; a worker runs until it has used up its     *)
(* CPU time, sleeping on the way, and always gives the CPU back to idle.   *)
(* schedule() runs with interrupts off and is one step; the statements of  *)
(* proc_sleep() and proc_end() run with interrupts on and are steps of     *)
(* their own, between which a tick may fall.                               *)
(***************************************************************************)
EXTENDS Integers, Sequences, FiniteSets

CONSTANTS
  WORKERS,    \* number of workers
  Priority0,  \* priority each worker is created with
  End,        \* CPU time after which each worker ends
  SleepAt,    \* CPU times at which each worker sleeps
  SLEEP,      \* ticks it asks proc_sleep() for
  TIMER_MAX,  \* ticks in a time slice
  ADJUST,     \* ticks of a slice between two priority adjustments
  WEIGHT,     \* ticks of a slice that cost one step of priority
  RQ_NQS,     \* number of run queues
  RQ_PPQ,     \* priorities per queue
  LOWEST,     \* lowest priority, that of idle
  Windows     \* where a tick may fall with schedule() about to be called

ASSUME WorkersAssumption == WORKERS \in Nat

Idle == 0
Workers == 1 .. WORKERS
Procs == {Idle} \cup Workers

ASSUME ScriptAssumption == /\ Priority0 \in [Workers -> 0 .. LOWEST]
                           /\ End \in [Workers -> Nat \ {0}]
                           /\ SleepAt \in [Workers -> SUBSET Nat]
ASSUME TimesAssumption == /\ {SLEEP, TIMER_MAX, ADJUST, WEIGHT} \subseteq Nat \ {0}
                          /\ {RQ_NQS, RQ_PPQ} \subseteq Nat \ {0}
                          /\ LOWEST \in Nat
ASSUME WindowsAssumption == Windows \subseteq {"asleep", "ended"}

\* The lowest priority, that of idle, is in the last queue.
ASSUME IdleAssumption == LOWEST \div RQ_PPQ = RQ_NQS - 1

\* The workers are short: with what the ticks of its CPU time can add (an
\* adjustment every ADJUST ticks), and what those that fall on a worker which
\* goes to sleep or ends without being charged can, no priority passes the
\* lowest.  A worker may overrun End by six ticks, two at each of three
\* statements.
ASSUME ShortAssumption ==
  /\ TIMER_MAX > 1
  /\ \A p \in Workers :
       /\ IsFiniteSet(SleepAt[p])
       /\ Priority0[p]
            + (TIMER_MAX \div WEIGHT) * ((End[p] + 6) \div ADJUST)
            + ((((TIMER_MAX - 1) \div ADJUST) * ADJUST) \div WEIGHT)
                * (Cardinality(SleepAt[p]) + 2) <= LOWEST

Queues == 0 .. RQ_NQS - 1

VARIABLES
  cur_process,  \* pid of the current process
  state,        \* procs[p].state
  pc,           \* next statement of each process
  priority,     \* procs[p].priority
  time_slice,   \* procs[p].time_slice
  time_used,    \* procs[p].time_used
  left,         \* time_sleep - ticks of a sleeper, 0 once it has passed
  passed,       \* CPU times at which a worker has slept already
  runq,         \* run queues, linked by elem_stat
  slist,        \* sleep list, linked by elem_stat
  moved         \* the CPU has executed a statement since the last tick

vars == <<cur_process, state, pc, priority, time_slice, time_used, left,
          passed, runq, slist, moved>>

-----------------------------------------------------------------------------
(* Lists.  An element is in one list only: list_insert() unlinks it first. *)

Members(q) == {q[i] : i \in DOMAIN q}

\* The elements of q that are in S, in the order of q (SelectSeq with a set
\* in place of a test, in a form that the provers can reason about).
Kept(q, S) ==
  LET at == {i \in DOMAIN q : q[i] \in S}
      rank(i) == Cardinality({j \in at : j <= i})
  IN  [k \in 1 .. Cardinality(at) |-> q[CHOOSE i \in at : rank(i) = k]]

Unlink(q, p) == Kept(q, Procs \ {p})
UnlinkAll(rq, p) == [i \in Queues |-> Unlink(rq[i], p)]

proc_getpos(prio) == prio \div RQ_PPQ

\* Push p to the back of the queue of its priority.
Enqueue(rq, p, prio) ==
  [UnlinkAll(rq, p) EXCEPT ![proc_getpos(prio)] = Append(@, p)]

-----------------------------------------------------------------------------
(* init_proc: process 0 is linked into each queue in turn, hence is left   *)
(* in the last one.                                                        *)

Init ==
  /\ cur_process = Idle
  /\ state = [p \in Procs |-> IF p = Idle THEN "RUN" ELSE "UNUSED"]
  /\ pc = [p \in Procs |-> IF p = Idle THEN "create" ELSE "loop"]
  /\ priority = [p \in Procs |-> IF p = Idle THEN LOWEST ELSE 0]
  /\ time_slice = [p \in Procs |-> 0]
  /\ time_used = [p \in Procs |-> 0]
  /\ left = [p \in Procs |-> 0]
  /\ passed = [p \in Procs |-> {}]
  /\ runq = [i \in Queues |-> IF i = RQ_NQS - 1 THEN <<Idle>> ELSE <<>>]
  /\ slist = <<>>
  /\ moved = FALSE

-----------------------------------------------------------------------------
(* schedule(), with interrupts off.                                        *)

\* Variant: only idle wakes sleepers.
DueOnIdle(lf) ==
  {slist[i] : i \in {j \in DOMAIN slist :
                       cur_process = Idle /\ \A k \in 1 .. j : lf[slist[k]] = 0}}

\* The sleepers proc_wake() takes: the front of slist while its time has
\* come, with lf ticks left.
Due(lf) ==
  {slist[i] : i \in {j \in DOMAIN slist : \A k \in 1 .. j : lf[slist[k]] = 0}}

\* proc_wake() pushes them, in list order, to the queues of their priorities.
Woken(rq, lf) ==
  [i \in Queues |->
     rq[i] \o Kept(slist, {p \in Due(lf) : proc_getpos(priority[p]) = i})]

NoneRuns(q, st) == \A i \in DOMAIN q : st[q[i]] # "RUN"

\* Variant: the first runnable process of any queue.
IsNextAnyQueue(p, rq, st) ==
  \/ cur_process # Idle /\ p = Idle
  \/ /\ cur_process = Idle /\ st[p] = "RUN"
     /\ \E q \in Queues : \E i \in DOMAIN rq[q] :
          rq[q][i] = p /\ NoneRuns(SubSeq(rq[q], 1, i - 1), st)

\* get_next_proc(): idle after anyone else; after idle, the first runnable
\* process of the queues.
IsNext(p, rq, st) ==
  \/ cur_process # Idle /\ p = Idle
  \/ /\ cur_process = Idle /\ st[p] = "RUN"
     /\ \E q \in Queues : \E i \in DOMAIN rq[q] :
          /\ rq[q][i] = p
          /\ NoneRuns(SubSeq(rq[q], 1, i - 1), st)
          /\ \A r \in Queues : r < q => NoneRuns(rq[r], st)

\* schedule() with slices slice, queues rq and lf ticks left to the sleepers:
\* those whose time has come wake up first.
schedule(rq, slice, lf) ==
  LET awake == Woken(rq, lf)
      st == [p \in Procs |-> IF p \in Due(lf) THEN "RUN" ELSE state[p]]
  IN  \E p \in Procs :
        /\ IsNext(p, awake, st)
        /\ cur_process' = p
        /\ time_slice' = [slice EXCEPT ![p] = 0]
        /\ state' = st
        /\ runq' = awake
        /\ slist' = Kept(slist, Procs \ Due(lf))

-----------------------------------------------------------------------------
(* The timer.                                                              *)

\* A tick falls on a statement of the current process once it has executed
\* one since the last tick, and on a pending call of schedule() by a
\* process that is no longer runnable only in the given windows.
MayTick ==
  /\ moved
  /\ pc[cur_process] = "schedule" /\ state[cur_process] = "STOP"
       => "asleep" \in Windows
  /\ pc[cur_process] = "schedule" /\ state[cur_process] = "ZOMBIE"
       => "ended" \in Windows

\* Only a running worker is charged.
Charged(count, p) ==
  IF p # Idle /\ state[p] = "RUN" THEN [count EXCEPT ![p] = @ + 1] ELSE count

\* Variant: the whole slice is added.
RecalculatedRaw(p, slice) ==
  IF priority[p] > LOWEST THEN LOWEST ELSE priority[p] + slice

\* recalculate_priority() for the current worker, whose slice is slice.
Recalculated(p, slice) ==
  IF priority[p] > LOWEST THEN LOWEST ELSE priority[p] + slice \div WEIGHT

\* Variant: the process stays in the queue it is in.
RequeuedNot(adjusts, prio) == runq

\* The queues after timer_handler(): if it adjusts the priority of the current
\* process, the process is requeued under its new priority prio.
Requeued(adjusts, prio) ==
  IF adjusts THEN Enqueue(runq, cur_process, prio) ELSE runq

\* timer_handler(), and the schedule() that intr_common() may end in.
Tick ==
  LET p == cur_process
      slice == Charged(time_slice, p)
      adjusts == p # Idle /\ slice[p] % ADJUST = 0
      prio == IF adjusts THEN Recalculated(p, slice[p]) ELSE priority[p]
      rq == Requeued(adjusts, prio)
      lf == [x \in Procs |-> IF left[x] > 0 THEN left[x] - 1 ELSE 0]
  IN  /\ MayTick
      /\ moved' = FALSE
      /\ left' = lf
      /\ time_used' = Charged(time_used, p)
      /\ priority' = [priority EXCEPT ![p] = prio]
      /\ \/ slice[p] >= TIMER_MAX /\ schedule(rq, slice, lf)
         \/ /\ slice[p] < TIMER_MAX
            /\ time_slice' = slice
            /\ runq' = rq
            /\ slist' = IF adjusts THEN Unlink(slist, p) ELSE slist
            /\ UNCHANGED <<cur_process, state>>
      /\ UNCHANGED <<pc, passed>>

-----------------------------------------------------------------------------
(* idle(): create the workers, then schedule for ever.                     *)

Goto(p, point) == pc' = [pc EXCEPT ![p] = point]

\* proc_create() takes the next slot and links the process into the queue of
\* its priority, with interrupts off.
IdleCreates ==
  /\ cur_process = Idle /\ pc[Idle] = "create"
  /\ \E p \in Workers :
       /\ state[p] = "UNUSED"
       /\ \A q \in Workers : q < p => state[q] # "UNUSED"
       /\ state' = [state EXCEPT ![p] = "RUN"]
       /\ priority' = [priority EXCEPT ![p] = Priority0[p]]
       /\ runq' = Enqueue(runq, p, Priority0[p])
       /\ Goto(Idle, IF p + 1 \in Workers THEN "create" ELSE "schedule")
  /\ UNCHANGED <<cur_process, time_slice, time_used, left, passed, slist>>

IdleSchedules ==
  /\ cur_process = Idle /\ pc[Idle] = "schedule"
  /\ schedule(runq, time_slice, left)
  /\ UNCHANGED <<pc, priority, time_used, left, passed>>

-----------------------------------------------------------------------------
(* A worker: the loops of kernel1_proc and kernel2_proc.                   *)

At(p, point) == p \in Workers /\ cur_process = p /\ pc[p] = point

Ends(p) == time_used[p] >= End[p]
\* Variant: the flag that the worker has slept is forgotten.
SleepsAgain(p) == time_used[p] \in SleepAt[p]
Sleeps(p) == time_used[p] \in SleepAt[p] \ passed[p]

\* One turn of the loop.
Loop(p) ==
  /\ At(p, "loop")
  /\ pc' = [pc EXCEPT ![p] = IF Ends(p) THEN "free"
                             ELSE IF Sleeps(p) THEN "sleep" ELSE @]
  /\ UNCHANGED <<cur_process, state, priority, time_slice, time_used, left,
                 passed, runq, slist>>

\* proc_sleep(): the time to wake up at,
SleepTimes(p) ==
  /\ At(p, "sleep")
  /\ left' = [left EXCEPT ![p] = SLEEP]
  /\ passed' = [passed EXCEPT ![p] = @ \cup {t \in SleepAt[p] : t <= time_used[p]}]
  /\ Goto(p, "stop")
  /\ UNCHANGED <<cur_process, state, priority, time_slice, time_used, runq, slist>>

\* state = PROC_STOP,
SleepStops(p) ==
  /\ At(p, "stop")
  /\ state' = [state EXCEPT ![p] = "STOP"]
  /\ Goto(p, "clear")
  /\ UNCHANGED <<cur_process, priority, time_slice, time_used, left, passed,
                 runq, slist>>

\* time_slice = 0,
SleepClears(p) ==
  /\ At(p, "clear")
  /\ time_slice' = [time_slice EXCEPT ![p] = 0]
  /\ Goto(p, "unlink")
  /\ UNCHANGED <<cur_process, state, priority, time_used, left, passed, runq,
                 slist>>

\* list_remove(),
SleepUnlinks(p) ==
  /\ At(p, "unlink")
  /\ runq' = UnlinkAll(runq, p)
  /\ Goto(p, "insert")
  /\ UNCHANGED <<cur_process, state, priority, time_slice, time_used, left,
                 passed, slist>>

\* list_insert_ordered(): before the first sleeper that wakes up later.
InsertOrdered(q, p) ==
  Kept(q, {x \in Procs : left[x] <= left[p]}) \o <<p>>
    \o Kept(q, {x \in Procs : left[x] > left[p]})

\* Variant: list_remove() comes after the insertion.
SleepInsertsFirst(p) ==
  /\ At(p, "insert")
  /\ runq' = UnlinkAll(runq, p)
  /\ Goto(p, "schedule")
  /\ UNCHANGED <<cur_process, state, priority, time_slice, time_used, left,
                 passed, slist>>

SleepInserts(p) ==
  /\ At(p, "insert")
  /\ slist' = InsertOrdered(slist, p)
  /\ runq' = UnlinkAll(runq, p)
  /\ Goto(p, "schedule")
  /\ UNCHANGED <<cur_process, state, priority, time_slice, time_used, left, passed>>

\* proc_end(): proc_free() marks the process dead and unlinks it.
FreeMarks(p) ==
  /\ At(p, "free")
  /\ state' = [state EXCEPT ![p] = "ZOMBIE"]
  /\ Goto(p, "remove")
  /\ UNCHANGED <<cur_process, priority, time_slice, time_used, left, passed,
                 runq, slist>>

FreeUnlinks(p) ==
  /\ At(p, "remove")
  /\ runq' = UnlinkAll(runq, p)
  /\ Goto(p, "schedule")
  /\ UNCHANGED <<cur_process, state, priority, time_slice, time_used, left,
                 passed, slist>>

\* The call of schedule() that ends proc_sleep() and proc_end(); a sleeper
\* goes on with its loop when it returns.
WorkerSchedules(p) ==
  /\ At(p, "schedule")
  /\ schedule(runq, time_slice, left)
  /\ Goto(p, "loop")
  /\ UNCHANGED <<priority, time_used, left, passed>>

proc_sleep(p) == \/ SleepTimes(p) \/ SleepStops(p) \/ SleepClears(p)
                 \/ SleepUnlinks(p) \/ SleepInserts(p)
proc_end(p) == FreeMarks(p) \/ FreeUnlinks(p)

Code ==
  /\ moved' = TRUE
  /\ \/ IdleCreates
     \/ IdleSchedules
     \/ \E p \in Workers : Loop(p) \/ proc_sleep(p) \/ proc_end(p) \/ WorkerSchedules(p)

Next == Tick \/ Code

Spec == Init /\ [][Next]_vars

\* The timer is free-running hardware and the CPU never stops.
FairSpec == Spec /\ WF_vars(Tick) /\ WF_vars(Code)

-----------------------------------------------------------------------------
(* Properties.                                                             *)

States == {"UNUSED", "RUN", "STOP", "ZOMBIE"}
Points == {"create", "loop", "sleep", "stop", "clear", "unlink", "insert",
           "free", "remove", "schedule"}

\* Type invariant.  Every priority has a queue: recalculate_priority() tests
\* for the lowest priority before it adds, so a slower worker could leave
\* the array runq.
TypeOK ==
  /\ cur_process \in Procs
  /\ state \in [Procs -> States]
  /\ pc \in [Procs -> Points]
  /\ priority \in [Procs -> Nat]
  /\ \A p \in Procs : proc_getpos(priority[p]) \in Queues
  /\ time_slice \in [Procs -> 0 .. TIMER_MAX]
  /\ time_used \in [Procs -> Nat]
  /\ left \in [Procs -> 0 .. SLEEP]
  /\ passed \in [Procs -> SUBSET UNION {SleepAt[p] : p \in Workers}]
  /\ \A i \in Queues : Members(runq[i]) \subseteq Procs
  /\ Members(slist) \subseteq Workers
  /\ moved \in BOOLEAN

\* Each runnable process is linked into the queue of its priority
\* and no other, whatever ticks adjusted that priority while it was running, going to
\* sleep or waking up (recalculate_priority, proc_wake, proc_create).
QueuedByPriority ==
  \A p \in Procs : state[p] = "RUN" =>
    \A i \in Queues : p \in Members(runq[i]) <=> i = proc_getpos(priority[p])

\* "60 ticks long into the sleep state": a process that gave up the CPU to
\* sleep is where proc_wake() finds it, and in no run queue.
SleepersListed ==
  \A p \in Workers : state[p] = "STOP" /\ cur_process # p =>
    p \in Members(slist) /\ \A i \in Queues : p \notin Members(runq[i])

\* When schedule() gives the CPU away no sleeper is left whose time has
\* come, although proc_wake() stops at the first one it need not wake.
WokenWhenDue ==
  [][cur_process' # cur_process =>
       \A p \in Workers : state'[p] = "STOP" => left'[p] > 0]_vars

\* idle gives the CPU to a runnable process of the best queue in use.
BestFirst ==
  [][cur_process = Idle /\ cur_process' # Idle =>
       /\ state'[cur_process'] = "RUN"
       /\ \A p \in Procs : state'[p] = "RUN" =>
            proc_getpos(priority[cur_process']) <= proc_getpos(priority[p])]_vars

\* Every worker gets its CPU time and ends.
WorkersEnd == \A p \in Workers : <>[](state[p] = "ZOMBIE")
=============================================================================
