------------------------------- MODULE SsuProc -------------------------------
(***************************************************************************)
(* Process table, FIFO scheduler and timer preemption of the SSUOS_P3      *)
(* kernel (proc/proc.c, proc/sched.c, arch/interrupt.c, arch/do_syscall.c, *)
(* arch/i386/switch.S); SSUOS_P6 and ssuos carry the same code.            *)
(*                                                                         *)
(* One CPU executes one kernel stack at a time.  A stack is named by the   *)
(* slot of procs[] it was allocated for; run is the stack being executed,  *)
(* cur_process the slot the kernel believes is running.  The two are       *)
(* different variables in the machine too: schedule() moves cur_process    *)
(* several statements before switch_process() moves the stack pointer.     *)
(*                                                                         *)
(* switch_process() saves no EFLAGS, so the interrupt flag intr is carried *)
(* over a switch: a stack saved inside the timer interrupt gets it back    *)
(* from iret, a new one from the sti of proc_start(), and one saved by its *)
(* own call of schedule() inherits whatever the previous stack left.       *)
(*                                                                         *)
(* Steps are C statements wherever interrupts may be enabled; what runs    *)
(* with interrupts off (the timer interrupt with the schedule() it ends    *)
(* in, a system call, proc_create) is one step.                            *)
(***************************************************************************)
EXTENDS Integers, Sequences

CONSTANTS
  PROC_NUM_MAX,  \* slots of procs[]
  TIMER_MAX,     \* ticks in a time slice
  MaxPid,        \* bound: the shell forks while lately_pid < MaxPid
  Commands,      \* what a forked command does: "returns" or "exits" first
  Windows        \* code sections a tick that reschedules may interrupt

ASSUME SlotsAssumption == PROC_NUM_MAX \in Nat /\ PROC_NUM_MAX >= 4
ASSUME TimerAssumption == TIMER_MAX \in Nat \ {0}
ASSUME BoundAssumption == MaxPid \in Nat
ASSUME CommandsAssumption == Commands \subseteq {"returns", "exits"}
ASSUME WindowsAssumption == Windows \subseteq {"switch", "free", "release", "idle"}

Slots == 0 .. PROC_NUM_MAX - 1
None == -1
IdleSlot == 0

VARIABLES
  state,        \* procs[s].state
  pid,          \* procs[s].pid
  func,         \* the function the slot's process runs
  parent,       \* procs[s].parent, as a slot
  simple_lock,  \* procs[s].simple_lock
  time_slice,   \* procs[s].time_slice, saturating at TIMER_MAX
  stack,        \* procs[s].stack: the stack saved there, None once reloaded
  r_list,       \* run list, linked by elem_stat
  d_list,       \* deleted list, linked by elem_stat
  lately_pid,   \* last pid handed out by getValidPid
  cur_process,  \* slot of the current process
  intr,         \* EFLAGS.IF of the CPU
  run,          \* the stack the CPU executes, None after a wild load of esp
  pc,           \* next statement of each stack
  saved,        \* how each stack was left: "fresh", "intr" or "call"
  cur,          \* schedule()'s local cur, per stack
  next,         \* schedule()'s local next, per stack
  reap          \* idle()'s local p

table == <<state, pid, func, parent, simple_lock, lately_pid>>
lists == <<r_list, d_list>>
machine == <<stack, intr, run, saved>>
locals == <<cur, next, reap>>
vars == <<table, time_slice, lists, cur_process, machine, pc, locals>>

-----------------------------------------------------------------------------
(* Lists: list_push_back first unlinks an element that is still linked.    *)

Members(q) == {q[i] : i \in DOMAIN q}

Unlink(q, p) ==
  IF p \in Members(q)
  THEN LET i == CHOOSE i \in DOMAIN q : q[i] = p
       IN  SubSeq(q, 1, i - 1) \o SubSeq(q, i + 1, Len(q))
  ELSE q

\* Variant: list_push_back as it usually is, without unlinking first.
PushBackLinked(q, p) == Append(q, p)

PushBack(q, p) == Append(Unlink(q, p), p)

-----------------------------------------------------------------------------
(* Control points.                                                         *)

SwitchWindow == {"setcur", "reset", "switch"}
CreatePoints == {"create1", "create2", "create3"}
IdlePoints == CreatePoints \cup {"check", "drain", "unuse"}
LoginPoints == {"prompt", "fork", "spin"}
CommandPoints == {"body", "tail", "unlock", "remove", "zombie", "push"}
Points == IdlePoints \cup LoginPoints \cup CommandPoints
            \cup {"pick"} \cup SwitchWindow
            \cup {"never", "error", "unborn"}

Funcs == {"none", "idle", "kernel", "login"} \cup Commands
StartPoint(f) == CASE f = "kernel" -> "pick"
                   [] f = "login" -> "prompt"
                   [] OTHER -> "body"
\* Where a call of schedule() returns to.
ReturnPoint(f) == CASE f = "idle" -> "check"
                    [] f = "kernel" -> "pick"
                    [] OTHER -> "never"

Goto(c, point) == pc' = [pc EXCEPT ![c] = point]

-----------------------------------------------------------------------------
(* init_proc: slot 0 becomes the running boot process, which is idle().    *)

Init ==
  /\ state = [s \in Slots |-> IF s = IdleSlot THEN "RUN" ELSE "UNUSED"]
  /\ pid = [s \in Slots |-> s]
  /\ func = [s \in Slots |-> IF s = IdleSlot THEN "idle" ELSE "none"]
  /\ parent = [s \in Slots |-> None]
  /\ simple_lock = [s \in Slots |-> 0]
  /\ time_slice = [s \in Slots |-> 0]
  /\ stack = [s \in Slots |-> None]
  /\ r_list = <<IdleSlot>>
  /\ d_list = <<>>
  /\ lately_pid = 0
  /\ cur_process = IdleSlot
  /\ intr = TRUE
  /\ run = IdleSlot
  /\ pc = [s \in Slots |-> IF s = IdleSlot THEN "create1" ELSE "unborn"]
  /\ saved = [s \in Slots |-> "fresh"]
  /\ cur = [s \in Slots |-> None]
  /\ next = [s \in Slots |-> None]
  /\ reap = None

-----------------------------------------------------------------------------
(* proc_create, with interrupts off.                                       *)

\* getValidPid scans the slots from lately_pid + 1 on, modulo the table.
IsFirstUnused(s) ==
  \E i \in Slots :
    /\ s = (i + lately_pid + 1) % PROC_NUM_MAX
    /\ state[s] = "UNUSED"
    /\ \A j \in 0 .. i - 1 :
         state[(j + lately_pid + 1) % PROC_NUM_MAX] # "UNUSED"

\* Where the creator goes on: idle() creates three processes, then loops.
AfterCreate(point) == CASE point = "create1" -> "create2"
                        [] point = "create2" -> "create3"
                        [] point = "create3" -> "check"
                        [] OTHER -> "spin"

\* With no unused slot the code would index procs[] with an uninitialised
\* idx; ForkFindsSlot is the property that this never happens.
proc_create(f) ==
  \E s \in Slots :
    /\ IsFirstUnused(s)
    /\ lately_pid' = lately_pid + 1
    /\ pid' = [pid EXCEPT ![s] = lately_pid + 1]
    /\ state' = [state EXCEPT ![s] = "RUN"]
    /\ func' = [func EXCEPT ![s] = f]
    /\ parent' = [parent EXCEPT ![s] = cur_process]
    /\ simple_lock' = [simple_lock EXCEPT ![s] = 0]
    /\ stack' = [stack EXCEPT ![s] = s]
    /\ saved' = [saved EXCEPT ![s] = "fresh"]
    /\ pc' = [pc EXCEPT ![s] = StartPoint(f),
                        ![run] = AfterCreate(pc[run])]
    /\ r_list' = Append(r_list, s)
    /\ UNCHANGED <<d_list, time_slice, cur_process, intr, run, locals>>

-----------------------------------------------------------------------------
(* schedule().  s_list stays empty: nothing in this kernel's processes     *)
(* sleeps, so proc_wake() does nothing.                                    *)

\* Variants: the state is not looked at; the process is requeued in front.
RequeuedAnyState == PushBack(r_list, cur_process)
RequeuedInFront ==
  IF state[cur_process] = "RUN"
  THEN <<cur_process>> \o Unlink(r_list, cur_process)
  ELSE r_list

\* get_next_proc: requeue a running current process, then look at the front
\* of r_list (the loop re-reads the front, never a later element).
Requeued ==
  IF state[cur_process] = "RUN" THEN PushBack(r_list, cur_process) ELSE r_list

FrontRunnable(q) ==
  IF q # <<>> /\ state[Head(q)] = "RUN" THEN Head(q) ELSE cur_process

\* Variant: proc_start() without sti.
SwitchWithoutSti(old, new, how) ==
  LET stored == [stack EXCEPT ![old] = run]
      left == [saved EXCEPT ![run] = how]
  IN  /\ stack' = [stored EXCEPT ![new] = None]
      /\ run' = stored[new]
      /\ saved' = left
      /\ intr' = IF stored[new] = None \/ left[stored[new]] # "intr"
                 THEN intr /\ how = "call"
                 ELSE TRUE

\* switch_process(old, new): store esp in old, load it from new.
switch_process(old, new, how) ==
  LET stored == [stack EXCEPT ![old] = run]
      loaded == stored[new]
      left == [saved EXCEPT ![run] = how]
  IN  /\ stack' = [stored EXCEPT ![new] = None]
      /\ run' = loaded
      /\ saved' = left
      /\ intr' = IF loaded = None \/ left[loaded] = "call"
                 THEN intr /\ how = "call"
                 ELSE TRUE

\* next = get_next_proc();
PickNext(c) ==
  /\ pc[c] = "pick"
  /\ r_list' = Requeued
  /\ next' = [next EXCEPT ![c] = FrontRunnable(Requeued)]
  /\ Goto(c, "setcur")
  /\ UNCHANGED <<table, time_slice, d_list, cur_process, machine, cur, reap>>

\* Variant: the two assignments swapped.
SetCurrentSwapped(c) ==
  /\ pc[c] = "setcur"
  /\ cur' = [cur EXCEPT ![c] = next[c]]
  /\ cur_process' = next[c]
  /\ Goto(c, "reset")
  /\ UNCHANGED <<table, time_slice, lists, machine, next, reap>>

\* cur = cur_process; cur_process = next;
SetCurrent(c) ==
  /\ pc[c] = "setcur"
  /\ cur' = [cur EXCEPT ![c] = cur_process]
  /\ cur_process' = next[c]
  /\ Goto(c, "reset")
  /\ UNCHANGED <<table, time_slice, lists, machine, next, reap>>

\* cur_process->time_slice = 0;
ResetSlice(c) ==
  /\ pc[c] = "reset"
  /\ time_slice' = [time_slice EXCEPT ![cur_process] = 0]
  /\ Goto(c, "switch")
  /\ UNCHANGED <<table, lists, cur_process, machine, locals>>

\* switch_process(cur, next);
SwitchStack(c) ==
  /\ pc[c] = "switch"
  /\ switch_process(cur[c], next[c], "call")
  /\ Goto(c, ReturnPoint(func[c]))
  /\ cur' = [cur EXCEPT ![c] = None]
  /\ next' = [next EXCEPT ![c] = None]
  /\ UNCHANGED <<table, time_slice, lists, cur_process, reap>>

schedule(c) == PickNext(c) \/ SetCurrent(c) \/ ResetSlice(c) \/ SwitchStack(c)

-----------------------------------------------------------------------------
(* The timer interrupt: timer_handler, and the schedule() that intr_common *)
(* runs before it returns, all with interrupts off.                        *)

Charged == IF time_slice[cur_process] < TIMER_MAX
           THEN time_slice[cur_process] + 1
           ELSE TIMER_MAX

TickCharges ==
  /\ intr
  /\ run # None
  /\ Charged < TIMER_MAX
  /\ time_slice' = [time_slice EXCEPT ![cur_process] = Charged]
  /\ UNCHANGED <<table, lists, cur_process, machine, pc, locals>>

\* proc_free() has released the parent's lock, the process still is PROC_RUN.
Releasing == state[cur_process] = "RUN" /\ pc[run] \in {"remove", "zombie"}

\* proc_free() has unlinked the zombie and not yet put it on d_list.
Unlisted == state[cur_process] = "ZOMBIE" /\ pc[run] \in {"zombie", "push"}

\* Assumption on the environment, lifted by Windows: see README.
Preemptible ==
  /\ pc[run] \in SwitchWindow => "switch" \in Windows
  /\ Unlisted => "free" \in Windows
  /\ Releasing => "release" \in Windows
  /\ run = IdleSlot /\ pc[run] \notin CreatePoints => "idle" \in Windows

TickPreempts ==
  /\ intr
  /\ run # None
  /\ Charged >= TIMER_MAX
  /\ Preemptible
  /\ LET new == FrontRunnable(Requeued)
     IN  /\ r_list' = Requeued
         /\ cur_process' = new
         /\ time_slice' = [time_slice EXCEPT ![cur_process] = Charged,
                                             ![new] = 0]
         /\ switch_process(cur_process, new, "intr")
  /\ UNCHANGED <<table, d_list, pc, locals>>

Tick == TickCharges \/ TickPreempts

-----------------------------------------------------------------------------
(* idle(): creates the three first processes, then reaps d_list forever.   *)

IdleCreate(c) ==
  \/ pc[c] \in {"create1", "create2"} /\ proc_create("kernel")
  \/ pc[c] = "create3" /\ proc_create("login")

\* if(cur_process->pid != 0) { printk("error : ..."); while(1); }
IdleCheck(c) ==
  /\ pc[c] = "check"
  /\ Goto(c, IF pid[cur_process] = 0 THEN "drain" ELSE "error")
  /\ UNCHANGED <<table, time_slice, lists, cur_process, machine, locals>>

\* Variant: list_front() instead of list_pop_front().
IdlePeek(c) ==
  /\ pc[c] = "drain"
  /\ d_list # <<>>
  /\ reap' = Head(d_list)
  /\ Goto(c, "unuse")
  /\ UNCHANGED <<table, time_slice, lists, cur_process, machine, cur, next>>

\* e = list_pop_front(&d_list);
IdlePop(c) ==
  /\ pc[c] = "drain"
  /\ d_list # <<>>
  /\ reap' = Head(d_list)
  /\ d_list' = Tail(d_list)
  /\ Goto(c, "unuse")
  /\ UNCHANGED <<table, time_slice, r_list, cur_process, machine, cur, next>>

\* Variant: the slot is not given back.
IdleKeepSlot(c) ==
  /\ pc[c] = "unuse"
  /\ reap' = None
  /\ Goto(c, "drain")
  /\ UNCHANGED <<table, time_slice, lists, cur_process, machine, cur, next>>

\* p->state = PROC_UNUSED;
IdleUnuse(c) ==
  /\ pc[c] = "unuse"
  /\ state' = [state EXCEPT ![reap] = "UNUSED"]
  /\ reap' = None
  /\ Goto(c, "drain")
  /\ UNCHANGED <<pid, func, parent, simple_lock, lately_pid, time_slice,
                 lists, cur_process, machine, cur, next>>

\* d_list is empty: call schedule().
IdleYield(c) ==
  /\ pc[c] = "drain"
  /\ d_list = <<>>
  /\ Goto(c, "pick")
  /\ UNCHANGED <<table, time_slice, lists, cur_process, machine, locals>>

idle(c) == IdleCreate(c) \/ IdleCheck(c) \/ IdlePop(c) \/ IdleUnuse(c)
             \/ IdleYield(c)

-----------------------------------------------------------------------------
(* shell_proc(), on the stack of the login process.                        *)

\* Variant: the shell does not take its lock.
ShellCommandUnlocked(c) ==
  /\ pc[c] = "prompt"
  /\ lately_pid < MaxPid
  /\ Goto(c, "fork")
  /\ UNCHANGED <<table, time_slice, lists, cur_process, machine, locals>>

\* A command line naming a type 1 command: cur_process->simple_lock = 1;
ShellCommand(c) ==
  /\ pc[c] = "prompt"
  /\ lately_pid < MaxPid
  /\ simple_lock' = [simple_lock EXCEPT ![cur_process] = 1]
  /\ Goto(c, "fork")
  /\ UNCHANGED <<state, pid, func, parent, lately_pid, time_slice, lists,
                 cur_process, machine, locals>>

\* pid = fork(cmdlist[i].func, ...): a system call, so interrupts are off.
ShellFork(c) ==
  /\ pc[c] = "fork"
  /\ \E f \in Commands : proc_create(f)

\* while(cur_process->simple_lock) ;
ShellResume(c) ==
  /\ pc[c] = "spin"
  /\ simple_lock[cur_process] = 0
  /\ Goto(c, "prompt")
  /\ UNCHANGED <<table, time_slice, lists, cur_process, machine, locals>>

-----------------------------------------------------------------------------
(* A forked command: its function returns into proc_end(), which calls     *)
(* proc_free() and schedule(); it may call exit() before.                  *)

CommandReturns(c) ==
  /\ \/ pc[c] = "body" /\ func[c] = "returns"
     \/ pc[c] = "tail"
  /\ Goto(c, "unlock")
  /\ UNCHANGED <<table, time_slice, lists, cur_process, machine, locals>>

\* exit(1): do_exit() runs proc_free() with interrupts off.  Its
\* do_sched_on_return() has no effect, since intr_common() looks at the flag
\* only for vectors 0x20..0x2f and clears it when the next one arrives; the
\* process goes on as a zombie, up to proc_end().
CommandExits(c) ==
  /\ pc[c] = "body"
  /\ func[c] = "exits"
  /\ simple_lock' = [simple_lock EXCEPT ![parent[cur_process]] = 0]
  /\ state' = [state EXCEPT ![cur_process] = "ZOMBIE"]
  /\ r_list' = Unlink(r_list, cur_process)
  /\ d_list' = PushBack(d_list, cur_process)
  /\ Goto(c, "tail")
  /\ UNCHANGED <<pid, func, parent, lately_pid, time_slice, cur_process,
                 machine, locals>>

\* Variants: the lock is a counter; the lock stays taken.
FreeCountDown(c) ==
  /\ pc[c] = "unlock"
  /\ simple_lock' = [simple_lock EXCEPT ![parent[cur_process]] = @ - 1]
  /\ Goto(c, "remove")
  /\ UNCHANGED <<state, pid, func, parent, lately_pid, time_slice, lists,
                 cur_process, machine, locals>>
FreeStaysLocked(c) ==
  /\ pc[c] = "unlock"
  /\ Goto(c, "remove")
  /\ UNCHANGED <<table, time_slice, lists, cur_process, machine, locals>>

\* cur_process->parent->simple_lock = 0;
FreeUnlock(c) ==
  /\ pc[c] = "unlock"
  /\ simple_lock' = [simple_lock EXCEPT ![parent[cur_process]] = 0]
  /\ Goto(c, "remove")
  /\ UNCHANGED <<state, pid, func, parent, lately_pid, time_slice, lists,
                 cur_process, machine, locals>>

\* list_remove(&cur_process->elem_stat);
FreeRemove(c) ==
  /\ pc[c] = "remove"
  /\ r_list' = Unlink(r_list, cur_process)
  /\ d_list' = Unlink(d_list, cur_process)
  /\ Goto(c, "zombie")
  /\ UNCHANGED <<table, time_slice, cur_process, machine, locals>>

\* cur_process->state = PROC_ZOMBIE;
FreeZombie(c) ==
  /\ pc[c] = "zombie"
  /\ state' = [state EXCEPT ![cur_process] = "ZOMBIE"]
  /\ Goto(c, "push")
  /\ UNCHANGED <<pid, func, parent, simple_lock, lately_pid, time_slice,
                 lists, cur_process, machine, locals>>

\* Variant: the zombie is not put on d_list.
FreeForget(c) ==
  /\ pc[c] = "push"
  /\ r_list' = Unlink(r_list, cur_process)
  /\ Goto(c, "pick")
  /\ UNCHANGED <<table, time_slice, d_list, cur_process, machine, locals>>

\* list_push_back(&d_list, &cur_process->elem_stat); then schedule().
FreePush(c) ==
  /\ pc[c] = "push"
  /\ r_list' = Unlink(r_list, cur_process)
  /\ d_list' = PushBack(d_list, cur_process)
  /\ Goto(c, "pick")
  /\ UNCHANGED <<table, time_slice, cur_process, machine, locals>>

proc_free(c) == FreeUnlock(c) \/ FreeRemove(c) \/ FreeZombie(c) \/ FreePush(c)

-----------------------------------------------------------------------------
(* The steps a stack takes by itself, without a new command line.          *)
Step(c) ==
  /\ c = run
  /\ \/ schedule(c)
     \/ idle(c)
     \/ ShellFork(c)
     \/ ShellResume(c)
     \/ CommandReturns(c)
     \/ CommandExits(c)
     \/ proc_free(c)

UserInput == \E c \in Slots : c = run /\ ShellCommand(c)

Next == (\E c \in Slots : Step(c)) \/ UserInput \/ Tick

\* The timer keeps ticking, and a process that is given the CPU again and
\* again gets on: every slice executes instructions and commands are finite.
Fairness == WF_vars(Tick) /\ \A c \in Slots : SF_vars(Step(c))

Spec == Init /\ [][Next]_vars
FairSpec == Spec /\ Fairness

-----------------------------------------------------------------------------
(* Properties.                                                             *)

\* Every variable holds a value of its kind: slots are slots, lists are
\* sequences of slots, control points are points of the code.
TypeOK ==
  /\ state \in [Slots -> {"UNUSED", "RUN", "ZOMBIE"}]
  /\ pid \in [Slots -> Nat]
  /\ func \in [Slots -> Funcs]
  /\ parent \in [Slots -> Slots \cup {None}]
  /\ simple_lock \in [Slots -> {0, 1}]
  /\ time_slice \in [Slots -> 0 .. TIMER_MAX]
  /\ stack \in [Slots -> Slots \cup {None}]
  /\ r_list \in Seq(Slots)
  /\ d_list \in Seq(Slots)
  /\ lately_pid \in Nat
  /\ cur_process \in Slots
  /\ intr \in BOOLEAN
  /\ run \in Slots \cup {None}
  /\ pc \in [Slots -> Points]
  /\ saved \in [Slots -> {"fresh", "intr", "call"}]
  /\ cur \in [Slots -> Slots \cup {None}]
  /\ next \in [Slots -> Slots \cup {None}]
  /\ reap \in Slots \cup {None}

Distinct(q) == \A i, j \in DOMAIN q : q[i] = q[j] => i = j

\* The slot whose elem_stat is being moved from one list to the other.
InTransit(s) ==
  \/ s = reap
  \/ s = run /\ pc[s] \in {"zombie", "push"}

\* r_list holds exactly the runnable processes and d_list exactly the zombies,
\* each once, but for the one being moved: however the timer cuts into
\* proc_free() and idle()'s loop, no process is lost from both lists, none is
\* on both, and a zombie is never offered to get_next_proc().
ListsMatchState ==
  /\ Distinct(r_list) /\ Distinct(d_list)
  /\ \A s \in Slots :
       /\ s \in Members(r_list) => state[s] = "RUN" \/ InTransit(s)
       /\ s \in Members(d_list) => state[s] = "ZOMBIE"
       /\ state[s] = "RUN" => s \in Members(r_list) \/ InTransit(s)
       /\ state[s] = "ZOMBIE" => s \in Members(d_list) \/ InTransit(s)

\* Outside the last statements of schedule() the executing stack is that of
\* cur_process: ticks, locks and exits are charged to the process that runs.
CurrentIsRunning ==
  run # None /\ (pc[run] \notin {"reset", "switch"} => cur_process = run)

\* Every runnable process that does not have the CPU has its own stack saved
\* in procs[].stack, so switch_process() always resumes the process it names.
StacksIntact ==
  \A s \in Slots : state[s] = "RUN" /\ s # run => stack[s] = s

\* Code that waits for the timer to take the CPU away (the keyboard polling,
\* the spin on simple_lock, a command) runs with interrupts enabled, although
\* switch_process() hands over the interrupt flag of whoever called it.
IntrOnInProcessCode ==
  run # None /\ pc[run] \in LoginPoints \cup CommandPoints => intr

\* The two places the code says are not reached: the printk after schedule()
\* in proc_end() and the endless loop on a wrong pid in idle().
UnreachableCode == run # None => pc[run] \notin {"never", "error"}

\* The process a stack runs before it has released its parent's lock.
Foreground(s) ==
  state[s] = "RUN" /\ func[s] \in Commands /\ pc[s] \in {"body", "unlock"}

\* The shell spins on simple_lock exactly while one command it forked is in
\* the foreground: no wake-up is lost, none comes early from a command that
\* frees itself twice (exit() and then proc_end()), and two commands never
\* run in the foreground together.
ShellWaitsForCommand ==
  \A l \in Slots : func[l] = "login" =>
    LET fg == {s \in Slots : Foreground(s) /\ parent[s] = l}
    IN  /\ (fg # {}) <=> (pc[l] = "spin" /\ simple_lock[l] = 1)
        /\ \A s, t \in fg : s = t

\* getValidPid() never fails: at every fork the idle process has reaped
\* enough slots, although it runs only once per turn of the run list.
ForkFindsSlot ==
  run # None /\ pc[run] \in CreatePoints \cup {"fork"} =>
    \E s \in Slots : state[s] = "UNUSED"

\* A process whose state is ZOMBIE and that has left the CPU is on the list
\* proc.c calls the "Deleted Process List".
DeletedAreListed ==
  \A s \in Slots : state[s] = "ZOMBIE" /\ s # run /\ s # reap =>
    s \in Members(d_list)

\* A foreground command ends and gives the prompt back.
CommandCompletes ==
  \A s \in Slots : pc[s] = "spin" ~> pc[s] = "prompt"

\* Every zombie's slot is given back to getValidPid().
ZombiesReaped ==
  \A s \in Slots : state[s] = "ZOMBIE" ~> state[s] = "UNUSED"

\* The scheduler keeps the promise of RunQueue: r_list is a FIFO queue whose
\* head, the running process, is the only one to be moved to the end or
\* removed, and no runnable process waits for ever.
Queue == INSTANCE RunQueue
           WITH Tasks <- Slots, First <- IdleSlot, queue <- r_list
FifoService == Queue!FairSpec
FifoOrder == Queue!Spec

-----------------------------------------------------------------------------
(* The inductive invariants behind the safety properties, for instances in *)
(* which no tick reschedules in the switch and free windows: IInv;         *)
(* ShellInv, inductive once IInv is known; and ReapInv, inductive with     *)
(* both if no tick reschedules in proc_free() and in idle() either.        *)

Calm == "switch" \notin Windows /\ "free" \notin Windows

\* Where a process can be, given its function and state.
WhereItIs(s) ==
  /\ func[s] \in {"idle", "kernel", "login"} \cup Commands
  /\ func[s] = "idle" <=> s = IdleSlot
  /\ func[s] = "idle" =>
       state[s] = "RUN" /\ pc[s] \in IdlePoints \cup {"pick"} \cup SwitchWindow
  /\ func[s] = "kernel" =>
       state[s] = "RUN" /\ pc[s] \in {"pick"} \cup SwitchWindow
  /\ func[s] = "login" => state[s] = "RUN" /\ pc[s] \in LoginPoints
  /\ func[s] \in Commands =>
       \/ state[s] = "RUN" /\ pc[s] \in {"body", "unlock", "remove", "zombie"}
       \/ state[s] = "ZOMBIE" /\ pc[s] \in (CommandPoints \ {"body"})
                                  \cup {"pick", "never"} \cup SwitchWindow

ProcessesOK ==
  /\ func[IdleSlot] = "idle" /\ pid[IdleSlot] = 0 /\ state[IdleSlot] = "RUN"
  /\ \A s \in Slots : state[s] # "UNUSED" => WhereItIs(s)
  /\ \A s \in Slots : state[s] # "UNUSED" /\ func[s] \in Commands =>
       parent[s] \in Slots

\* The executing stack and what schedule() has done so far on it.
RunningOK ==
  /\ run \in Slots
  /\ pc[run] # "never"
  /\ state[run] # "UNUSED"
  /\ pc[run] \in SwitchWindow =>
       /\ r_list # <<>>
       /\ next[run] = Head(r_list)
       /\ state[next[run]] = "RUN"
  /\ pc[run] \in {"reset", "switch"} => cur[run] = run /\ cur_process = next[run]
  /\ pc[run] \notin {"reset", "switch"} => cur_process = run
  /\ pc[run] \notin SwitchWindow /\ run \in Members(r_list) => Head(r_list) = run
  /\ pc[run] \in LoginPoints \cup CommandPoints => intr

\* A runnable process that waits for the CPU can be resumed.
WaitingOK ==
  \A s \in Slots : state[s] = "RUN" /\ s # run =>
    /\ stack[s] = s
    /\ pc[s] \notin SwitchWindow
    /\ saved[s] = "call" => pc[s] \in {"check", "pick"}

ListsOK ==
  /\ Distinct(r_list) /\ Distinct(d_list)
  /\ \A s \in Slots :
       /\ s \in Members(r_list) => state[s] = "RUN" \/ (s = run /\ pc[s] = "push")
       /\ s \in Members(d_list) => state[s] = "ZOMBIE"
       /\ state[s] = "RUN" => s \in Members(r_list) \/ (s = run /\ pc[s] = "zombie")
       /\ state[s] = "ZOMBIE" =>
            s \in Members(d_list) \/ s = reap
              \/ (s = run /\ pc[s] \in {"zombie", "push"})
  /\ reap # None => state[reap] = "ZOMBIE" /\ reap # run /\ reap \notin Members(d_list)
  /\ pc[IdleSlot] = "unuse" <=> reap # None

IInv == TypeOK /\ ProcessesOK /\ RunningOK /\ WaitingOK /\ ListsOK

TheLogin ==
  /\ \A l \in Slots : func[l] = "login" =>
       state[l] = "RUN" /\ pc[IdleSlot] \notin CreatePoints
  /\ \A l, m \in Slots : func[l] = "login" /\ func[m] = "login" => l = m
  /\ \A s \in Slots : state[s] # "UNUSED" /\ func[s] \in Commands =>
       func[parent[s]] = "login"

ShellInv ==
  /\ TheLogin
  /\ \A s, t \in Slots : Foreground(s) /\ Foreground(t) => s = t
  /\ \A l \in Slots : func[l] = "login" =>
       /\ (\E s \in Slots : Foreground(s)) <=> (pc[l] = "spin" /\ simple_lock[l] = 1)
       /\ pc[l] = "fork" => simple_lock[l] = 1
       /\ state[run] = "ZOMBIE" /\ pc[run] \in {"tail", "unlock"} =>
            pc[l] = "spin" /\ simple_lock[l] = 0

\* ReapInv bounds the slots in use: the idle process, two kernel processes, the
\* shell, one command in the foreground or one that leaves, and one zombie.
Zombie(s) == state[s] = "ZOMBIE"
Kernel(s) == state[s] # "UNUSED" /\ func[s] = "kernel"

Precedes(q, s, t) == \E i, j \in DOMAIN q : i < j /\ q[i] = s /\ q[j] = t

\* The two processes idle() creates before the shell.
KernelsOK ==
  /\ pc[IdleSlot] = "create1" => \A s \in Slots : ~Kernel(s)
  /\ pc[IdleSlot] = "create2" => \A s, t \in Slots : Kernel(s) /\ Kernel(t) => s = t
  /\ \A s, t, u \in Slots : Kernel(s) /\ Kernel(t) /\ Kernel(u) => s = t \/ t = u \/ s = u

\* A command that has released the shell keeps the CPU until it is a zombie, and there
\* is no other then.
LeavingOK ==
  /\ \A s \in Slots : state[s] = "RUN" /\ func[s] \in Commands /\ ~Foreground(s) => s = run
  /\ func[run] \in Commands /\ ~Foreground(run) =>
       \A s \in Slots : ~Foreground(s) /\ (Zombie(s) => s = run)

\* idle() gives the CPU away when there are no zombies, and comes before the next
\* command while there is one.
IdleReaps ==
  /\ pc[IdleSlot] \in {"pick"} \cup SwitchWindow =>
       run = IdleSlot /\ \A s \in Slots : ~Zombie(s)
  /\ \A s, t \in Slots : Foreground(s) /\ Zombie(t) => Precedes(r_list, IdleSlot, s)

ReapInv ==
  /\ \A s, t \in Slots : Zombie(s) /\ Zombie(t) => s = t
  /\ KernelsOK /\ LeavingOK /\ IdleReaps
=============================================================================
