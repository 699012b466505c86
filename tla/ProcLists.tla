------------------------------ MODULE ProcLists ------------------------------
(***************************************************************************)
(* The run list and the list of deleted processes of SSUOS_P3, down to the *)
(* pointers of list.c (the same file in P4, P6 and ssuos), under the timer.*)
(*                                                                         *)
(* SsuProc takes a list for a sequence and a list operation for one step.  *)
(* Here every store of list_remove() and list_insert() is a step, and the  *)
(* timer, whose handler runs the same operations on the same lists, may    *)
(* come between any two of them while a command frees itself.  Without     *)
(* optimisation (Makefile: -O0) a statement reads its pointers from memory,*)
(* so a statement is a step.                                               *)
(*                                                                         *)
(* What SsuProc models and the lists do not need is left out: stacks, the  *)
(* interrupt flag, time slices (a tick may always end one) and pids.       *)
(***************************************************************************)
EXTENDS Integers, SequencesExt

CONSTANTS
  PROC_NUM_MAX,  \* slots of procs[]
  Commands,      \* what a forked command does: "returns" or "exits" first
  MaxCuts,       \* how often ticks may cut into one proc_free()
  Windows        \* the proc_free() after an exit() may be cut into: {} or {"exited"}

ASSUME SlotsAssumption == PROC_NUM_MAX \in Nat /\ PROC_NUM_MAX >= 4
ASSUME CommandsAssumption == Commands \subseteq {"returns", "exits"}
ASSUME WindowsAssumption == MaxCuts \in Nat /\ Windows \subseteq {"exited"}

Slots == 0 .. PROC_NUM_MAX - 1
IdleSlot == 0

\* A list_elem is named by the slot whose elem_stat it is; a list by its two ends.
r_list == [head |-> -1, tail |-> -2]
d_list == [head |-> -3, tail |-> -4]
NULL == -5
Nodes == Slots \cup {-1, -2, -3, -4}

VARIABLES
  link,         \* prev and next of all nodes
  state,        \* procs[s].state
  func,         \* the function the slot's process runs
  code,         \* the statements the process has still to execute before it looks again
  cuts,         \* how often ticks have cut into the slot's proc_free()
  simple_lock,  \* the lock of the login process, on which it waits for its command
  lately,       \* lately_pid, modulo the number of slots
  cur_process   \* slot of the current process

vars == <<link, state, func, code, cuts, simple_lock, lately, cur_process>>

-----------------------------------------------------------------------------
(* list.c: an operation is a sequence of statements.                       *)

Do(op) == [op |-> op]
On(op, e) == [op |-> op, elem |-> e]
In(op, l, e) == [op |-> op, list |-> l, elem |-> e]

\* elem->prev->next = elem->next; elem->next->prev = elem->prev;
list_remove(e) == <<On("pass_forward", e), On("pass_back", e)>>

\* Variant: the element is not unlinked first.
PushBackOnly(l, e) ==
  <<In("set_prev", l, e), In("set_next", l, e), In("link_forward", l, e), In("link_back", l, e)>>

\* list_insert() before the tail; it unlinks the element as list_remove() does.
list_push_back(l, e) ==
  list_remove(e) \o
  <<In("set_prev", l, e), In("set_next", l, e), In("link_forward", l, e), In("link_back", l, e)>>

StoreOps == {"pass_forward", "pass_back", "set_prev", "set_next", "link_forward", "link_back"}

\* The pointers m after a store.
Stored(m, st) ==
  CASE st.op = "pass_forward" ->
         IF m.prev[st.elem] = NULL THEN m ELSE [m EXCEPT !.next[m.prev[st.elem]] = m.next[st.elem]]
    [] st.op = "pass_back" ->
         IF m.next[st.elem] = NULL THEN m ELSE [m EXCEPT !.prev[m.next[st.elem]] = m.prev[st.elem]]
    [] st.op = "set_prev" -> [m EXCEPT !.prev[st.elem] = m.prev[st.list.tail]]
    [] st.op = "set_next" -> [m EXCEPT !.next[st.elem] = st.list.tail]
    [] st.op = "link_forward" -> [m EXCEPT !.next[m.prev[st.list.tail]] = st.elem]
    [] st.op = "link_back" -> [m EXCEPT !.prev[st.list.tail] = st.elem]

\* A whole operation, where interrupts are off.
Done(m, statements) ==
  LET After[i \in 0 .. Len(statements)] ==
        IF i = 0 THEN m ELSE Stored(After[i - 1], statements[i])
  IN After[Len(statements)]

list_front(m, l) == m.next[l.head]
list_empty(m, l) == m.next[l.head] = l.tail

-----------------------------------------------------------------------------
(* Scheduling.                                                             *)

\* get_next_proc: a running current process goes to the end ...
Requeue(c) ==
  IF state[c] = "RUN" THEN list_remove(c) \o list_push_back(r_list, c) ELSE <<>>

\* ... and the front of r_list is next, if it can run.
FrontRunnable(m) ==
  LET front == list_front(m, r_list)
  IN IF front \in Slots /\ state[front] = "RUN" THEN front ELSE cur_process

\* A time slice is ten ticks, and the idle and kernel processes and a process that has
\* been resumed begin a new one: a tick ends the slice of the login process anywhere,
\* that of a command too, but not soon again.
Preemptible ==
  \/ func[cur_process] = "login"
  \/ /\ func[cur_process] \in Commands \cup {"exited"}
     /\ \/ code[cur_process] = <<>>
        \/ cuts[cur_process] < MaxCuts /\ (func[cur_process] = "exited" => "exited" \in Windows)

\* The timer interrupt, with the schedule() that ends it.
Tick ==
  /\ Preemptible
  /\ link' = Done(link, Requeue(cur_process))
  /\ cur_process' = FrontRunnable(link')
  /\ cuts' = IF func[cur_process] = "login" \/ code[cur_process] = <<>> THEN cuts
             ELSE [cuts EXCEPT ![cur_process] = @ + 1]
  /\ UNCHANGED <<state, func, code, simple_lock, lately>>

-----------------------------------------------------------------------------
(* Processes: one whose statements are done gets new ones.                 *)

Created(f) == [op |-> "create", func |-> f]

\* proc_free(), and the schedule() of proc_end() after it.
proc_free(c) ==
  <<Do("unlock")>> \o list_remove(c) \o <<On("zombie", c)>> \o list_push_back(d_list, c)

Continue(statements) ==
  /\ code' = [code EXCEPT ![cur_process] = statements]
  /\ UNCHANGED <<link, state, func, cuts, simple_lock, lately, cur_process>>

\* idle() reaps one zombie, or calls schedule().
IdleLoop ==
  /\ func[cur_process] = "idle"
  /\ IF list_empty(link, d_list) THEN Continue(<<Do("pick")>>)
     ELSE LET e == list_front(link, d_list)
          IN Continue(list_remove(e) \o <<On("unuse", e)>>)

KernelLoop == func[cur_process] = "kernel" /\ Continue(<<Do("pick")>>)

\* A command line is entered; the next one is read when the lock is open again.
\* With no unused slot proc_create() would use an uninitialised index.
ShellCommand ==
  /\ func[cur_process] = "login" /\ simple_lock = 0
  /\ \E s \in Slots : state[s] = "UNUSED"
  /\ simple_lock' = 1
  /\ \E f \in Commands : code' = [code EXCEPT ![cur_process] = <<Created(f)>>]
  /\ UNCHANGED <<link, state, func, cuts, lately, cur_process>>

CommandReturns == func[cur_process] \in {"returns", "exited"} /\ Continue(proc_free(cur_process) \o <<Do("pick")>>)

\* exit() runs proc_free() with interrupts off; the process goes on and returns.
CommandExits ==
  /\ func[cur_process] = "exits"
  /\ link' = Done(link, list_remove(cur_process) \o list_push_back(d_list, cur_process))
  /\ state' = [state EXCEPT ![cur_process] = "ZOMBIE"]
  /\ simple_lock' = 0
  /\ func' = [func EXCEPT ![cur_process] = "exited"]
  /\ UNCHANGED <<code, cuts, lately, cur_process>>

Ready == code[cur_process] = <<>>
Go == Ready /\ (IdleLoop \/ KernelLoop \/ CommandReturns \/ CommandExits)
UserInput == Ready /\ ShellCommand

-----------------------------------------------------------------------------
(* Statements.                                                             *)

Statement == Head(code[cur_process])
Next1(op) == ~Ready /\ Statement.op = op
Rest == code' = [code EXCEPT ![cur_process] = Tail(@)]

Store ==
  /\ ~Ready /\ Statement.op \in StoreOps
  /\ link' = Stored(link, Statement)
  /\ Rest
  /\ UNCHANGED <<state, func, cuts, simple_lock, lately, cur_process>>

Unlock ==
  /\ Next1("unlock")
  /\ simple_lock' = 0
  /\ Rest
  /\ UNCHANGED <<link, state, func, cuts, lately, cur_process>>

SetState ==
  /\ Next1("zombie") \/ Next1("unuse")
  /\ state' = [state EXCEPT ![Statement.elem] = IF Statement.op = "zombie" THEN "ZOMBIE" ELSE "UNUSED"]
  /\ Rest
  /\ UNCHANGED <<link, func, cuts, simple_lock, lately, cur_process>>

\* getValidPid() and proc_create(), with interrupts off.
FirstUnused ==
  LET After(i) == (lately + 1 + i) % PROC_NUM_MAX
      unused == {i \in Slots : state[After(i)] = "UNUSED"}
  IN After(CHOOSE i \in unused : \A j \in unused : i <= j)

\* Variant: the pointers keep what the last process of the slot left in them.
Uncleared(m, s) == m

\* p->elem_stat.prev = NULL; p->elem_stat.next = NULL;
Cleared(m, s) == [m EXCEPT !.prev[s] = NULL, !.next[s] = NULL]

proc_create ==
  /\ Next1("create")
  /\ LET s == FirstUnused
     IN  /\ link' = Done(Cleared(link, s), list_push_back(r_list, s))
         /\ state' = [state EXCEPT ![s] = "RUN"]
         /\ func' = [func EXCEPT ![s] = Statement.func]
         /\ code' = [code EXCEPT ![s] = <<>>, ![cur_process] = Tail(@)]
         /\ cuts' = [cuts EXCEPT ![s] = 0]
  /\ lately' = (lately + 1) % PROC_NUM_MAX
  /\ UNCHANGED <<simple_lock, cur_process>>

\* schedule() called by the process itself.
Pick ==
  /\ Next1("pick")
  /\ code' = [code EXCEPT ![cur_process] = Requeue(cur_process) \o <<Do("switch")>> \o Tail(@)]
  /\ UNCHANGED <<link, state, func, cuts, simple_lock, lately, cur_process>>

Switch ==
  /\ Next1("switch")
  /\ cur_process' = FrontRunnable(link)
  /\ Rest
  /\ UNCHANGED <<link, state, func, cuts, simple_lock, lately>>

-----------------------------------------------------------------------------

\* list_init() and init_proc().
NoLinks == [n \in Nodes |-> NULL]

Init ==
  /\ LET ends == [prev |-> [NoLinks EXCEPT ![-2] = -1, ![-4] = -3],
                  next |-> [NoLinks EXCEPT ![-1] = -2, ![-3] = -4]]
     IN link = Done(ends, list_push_back(r_list, IdleSlot))
  /\ state = [s \in Slots |-> IF s = IdleSlot THEN "RUN" ELSE "UNUSED"]
  /\ func = [s \in Slots |-> IF s = IdleSlot THEN "idle" ELSE "none"]
  /\ code = [s \in Slots |->
               IF s = IdleSlot THEN <<Created("kernel"), Created("kernel"), Created("login")>> ELSE <<>>]
  /\ cuts = [s \in Slots |-> 0]
  /\ simple_lock = 0
  /\ lately = 0
  /\ cur_process = IdleSlot

Next == Go \/ UserInput \/ Store \/ Unlock \/ SetState \/ proc_create \/ Pick \/ Switch \/ Tick

Spec == Init /\ [][Next]_vars

-----------------------------------------------------------------------------
(* Properties.                                                             *)

\* What is found from the head on, and the elements of the list: the slots before the
\* first node that is none, at most as many as there are.
Found(m, l) ==
  LET At[i \in 1 .. PROC_NUM_MAX] ==
        IF i = 1 THEN list_front(m, l)
        ELSE IF At[i - 1] \in Slots THEN m.next[At[i - 1]] ELSE NULL
  IN At

Chain(m, l) == LET At == Found(m, l)
               IN [i \in {i \in DOMAIN At : At[i] \in Slots} |-> At[i]]

\* Statements of the current process that belong to a list operation are left.
InOperation == \E i \in DOMAIN code[cur_process] : code[cur_process][i].op \in StoreOps

\* The links of a list point toward each other via its elements.
Linked(m, l) ==
  LET path == <<l.head>> \o Chain(m, l) \o <<l.tail>>
  IN \A i \in 1 .. Len(path) - 1 : m.next[path[i]] = path[i + 1] /\ m.prev[path[i + 1]] = path[i]

\* Outside the list operations of the current process the run list is linked both ways
\* and holds the runnable processes once each, and every zombie that has finished its
\* list_push_back() is found from the head of d_list, although processes were preempted
\* between two stores of an operation and others have worked on the lists since.
ListsSound ==
  ~InOperation =>
    /\ Linked(link, r_list)
    /\ IsInjective(Chain(link, r_list))
    /\ ToSet(Chain(link, r_list)) = {s \in Slots : state[s] = "RUN"}
    /\ ToSet(Chain(link, d_list)) \subseteq {s \in Slots : state[s] = "ZOMBIE"}
    /\ \A s \in Slots :
         state[s] = "ZOMBIE" /\ (\A i \in DOMAIN code[s] : code[s][i].op \notin StoreOps)
           => s \in ToSet(Chain(link, d_list)) \/ On("unuse", s) \in ToSet(code[IdleSlot])

\* A process that schedule() has unlinked and not linked again keeps its place.
RunQueueNow ==
  LET requeues == \E i \in DOMAIN code[cur_process] : code[cur_process][i].op = "switch"
  IN IF requeues /\ state[cur_process] = "RUN" /\ cur_process \notin ToSet(Chain(link, r_list))
     THEN <<cur_process>> \o Chain(link, r_list)
     ELSE Chain(link, r_list)

\* At every store the run list implements the queue of RunQueue: no store of a list
\* operation, early or late, drops a waiting process or lets one overtake another.
Queue == INSTANCE RunQueue
           WITH Tasks <- Slots, First <- IdleSlot, queue <- RunQueueNow
QueueKept == Queue!Spec
=============================================================================
