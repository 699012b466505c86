# Specifications of the SSUOS kernels

The repository holds a semester of operating-system coursework: several
versions of a small i386 kernel (`semester3-2/oslab/SSUOS_P3`, `SSUOS_P4`,
`SSUOS_P6`, `ssuos`), a level-hashing library, a card game and two cipher
exercises, next to a vendored copy of the Bochs emulator. This directory holds
TLA+ modules of the parts with state worth checking, TLC configurations for
small instances, and TLAPS proofs.

## 1. Inventory

Paths are relative to `src/semester3-2/oslab/` unless they start with `src/`.

| Component | State | Operations | Hard behaviour | What makes it correct |
|---|---|---|---|---|
| P3 process table and FIFO scheduler (`SSUOS_P3/src/kernel/proc`) | `procs[]`, `r_list`, `d_list`, `cur_process`, saved stacks | `init_proc`, `getValidPid`, `proc_create`, `proc_free`, `proc_end`, `idle`, `schedule` | the timer interrupts all of it but `proc_create`; `exit()` frees twice | lists agree with states, each stack resumes its own process, no slot is lost, nobody starves |
| P3 interrupts (`arch/interrupt.c`, `intr-stubs.S`) | `sched_on_return`, the interrupt flag | `intr_common`, `timer_handler`, `do_sched_on_return` | the flag is not saved by a switch; `sched_on_return` of a system call is dropped | code that waits for the timer runs with interrupts on |
| P3 system calls (`arch/do_syscall.c`) | `exit_status`, `child_pid` | `do_fork`, `do_exit`, `do_wait` | see above | a process frees its parent's lock once it is done |
| P3 shell (`proc/proc.c`) | `simple_lock` | fork a command and spin | wake-up lost or too early | at most one foreground command, the prompt comes back |
| Kernel list (`list.c`) | `prev`/`next` pointers | insert, remove | every operation is several stores, a tick may come between; `list_insert` unlinks by stale pointers | behaves as a sequence |
| Semaphores, locks, conditions (`synch.c`) | value, waiters, holder | `sema_down/up`, `lock_*`, `cond_*` | lost wake-ups | mutual exclusion |
| P4 multi-level scheduler (`SSUOS_P4/.../proc`) | 25 run queues, sleep list | `proc_sleep`, `proc_wake`, priority adjustment | order of removal and insertion, ticks during adjustment | each runnable process in exactly the queue of its priority |
| P6 page pools (`SSUOS_P6/.../mem/palloc.c`, `bitmap.c`) | a bitmap for each of two pools | get / free of page runs | a full pool, freeing what is not allocated | no page is given out twice |
| ssuos page list and page hash (`ssuos/.../mem`) | list of returned runs, two-level hash | get, free, insert, delete | joint and partial returns, entries left behind, full buckets | as above, and the hash agrees with the allocations |
| Paging (`mem/paging.c`) | page directories and tables | `pd_create`, `pf_handler` | fault on a table page | a process maps the kernel and its own pages only |
| malloc (`mem/malloc.c`) | arenas, descriptors, free lists | `malloc`, `free` | a whole arena becomes free | blocks do not overlap |
| P3 file system (`SSUOS_P3/.../filesys`) | superblock, inode and block bitmaps, inodes, directories | open, read, write, sync, directories | crash between the writes of a sync, full disk | no block in two files |
| Keyboard (`device/kbd.c`, `ssulib.c`) | ring buffer, shift and lock state, the line | interrupt handler, `ssuread`, `getkbd` | interrupts between the steps of a reader, calls that find half a line, a ring that wraps | keys come out in order, lines are what was typed and come to an end |
| Console, disks, block layer (`device`) | screen, sectors | output, port I/O | - | - |
| Level hashing (`level_hashing`) | two bucket levels, counts | insert, query, update, delete, expand, shrink | movements during insertions and resizing, memory that is not cleared | a dictionary: no pair lost or doubled |
| Go-Stop (`src/semester3-2/gostop_1rd`) | deck, hands, floor, scores | deal, turn, score | multi-match turns | every card is in one place |
| Ciphers (`src/semester3-2/information_secure`) | none | encrypt | - | - |
| Bochs, boot loaders, string library | - | - | vendored, straight-line or pure | - |

How they interact: the timer interrupt calls into the scheduler; the shell
reaches `proc_create` by the `fork` system call and waits for the command's
`proc_free` through `simple_lock`; `idle` waits for `proc_free` through
`d_list`; `proc_create` takes pages from the page pools and page directories
from paging; the file system calls read and write sectors through the block
layer; the keyboard interrupt fills the ring that the shell polls.

## 2. Plan

The order is by importance to the kernel, and the modules are written so that
they can be proved about: constants with named assumptions, one action per
operation, invariants as conjunctions, no recursive operators.

| Module | Component | Abstract specification | State |
|---|---|---|---|
| `SsuProc` | P3 processes, scheduler, timer, shell | `RunQueue` | checked and proved |
| `ProcLists` | the same lists at the pointers of `list.c` | `RunQueue` again | checked and proved |
| `PagePool` | P6 page pools | `PageAllocator` | checked and proved |
| `PageHash` | ssuos page list and page hash | - | checked and proved |
| `PrioSched` | P4 scheduler | - | checked and proved |
| `SsuFs` | P3 file system over power failures | - | checked and proved |
| `Keyboard` | P3 keyboard interrupt, ring, line editing | - | checked and proved |
| `LevelHash` | level hashing | `Dictionary` | checked and proved |

Left: full disks and inode tables in `SsuFs`, the life cycle of P6's processes
composed with `PagePool` (it returns no page of a process).

## 3. The kernel core: `SsuProc`

One CPU executes one kernel stack at a time. Stacks are named by the slot of
`procs[]` they were allocated for; `run` is the stack being executed and
`cur_process` the slot the kernel believes is running. They are different
variables because they are different in the machine: `schedule()` assigns
`cur_process` several statements before `switch_process()` loads `esp`.

| Code | Model |
|---|---|
| `procs[s].state`, `.pid`, `.parent`, `.simple_lock`, `.time_slice`, `.stack` | functions over `Slots` of the same names |
| `r_list`, `d_list` | sequences of slots; `list_push_back` first unlinks (`PushBack`), as this `list.c` does |
| the program counter, `schedule()`'s and `idle()`'s locals | `pc`, `cur`, `next`, `reap` |
| how a stack was left (fresh frame, timer interrupt, own call) | `saved`, which decides the interrupt flag after the switch |
| `EFLAGS.IF` | `intr` |
| `proc_create` (interrupts off) | one step |
| `schedule()` called by a process | `PickNext`, `SetCurrent`, `ResetSlice`, `SwitchStack` |
| `schedule()` at the end of a timer interrupt (interrupts off) | part of `TickPreempts` |
| `timer_handler`, `intr_common` | `TickCharges`, `TickPreempts` |
| `proc_free` + `proc_end` | `FreeUnlock`, `FreeRemove`, `FreeZombie`, `FreePush`, then `schedule` |
| `do_exit` (a system call, interrupts off) | `CommandExits`, one step; the process then goes on to `proc_end` |
| `idle` | `IdleCreate`, `IdleCheck`, `IdlePop`, `IdleUnuse`, `IdleYield` |
| `shell_proc`'s fork branch | `ShellCommand`, `ShellFork`, `ShellResume` |

Steps are C statements where interrupts may be on, and whole functions where
they are off. A tick is possible between any two steps.

The comment in `do_exit` (`do_syscall.c:23`) says that it schedules at the end of
the interrupt. It does not: `intr_common` looks at `sched_on_return` for hardware
interrupts only (vectors 0x20 to 0x2f), and the next one clears the flag. The
zombie goes on behind its `exit()` to `proc_end()`, which frees it a second time;
the model follows the code.

**Abstracted.** A list operation is one step (section 7 opens it up).
`p_list` is written and never read. `child_pid` and `exit_status` are read by
`do_wait` only, which nothing calls. `s_list` stays empty, since no process of
this kernel sleeps, so `proc_wake` does nothing. Times used and priorities are
statistics here. Page directories and stack pages are taken to be available.
`time_slice` saturates at `TIMER_MAX`, as it is only compared with it. A
command is `"returns"` (its function returns into `proc_end`) or `"exits"` (it
calls `exit()` first, as `ps_proc` does).

**The environment and `Windows`.** The timer may interrupt everywhere, but a
slice is `TIMER_MAX` = 10 ticks and the sections below take microseconds, so
whether a *rescheduling* tick falls into one is rare and the kernel relies on
it without saying so. The constant `Windows` says which sections it may hit:

| Window | Section | What happens |
|---|---|---|
| `"switch"` | between `next = ...` and `switch_process()` | stacks are mixed up: run `proc_switch_window` |
| `"free"` | between `state = PROC_ZOMBIE` and `d_list` | a slot is lost: `DeletedAreListed` fails |
| `"release"` | after the parent's lock, before `PROC_ZOMBIE` | safe; only the number of slots in use is unbounded |
| `"idle"` | `idle()`'s loop | safe; idle's reaping is delayed |

The safety run and all theorems allow `"release"` and `"idle"`; the theorems
assume that `"switch"` and `"free"` are excluded (`Calm`). Run
`proc_switch_window` shows that the first cannot be dropped; `ProcSafety.cfg`
with `Windows = {"free"}` shows the same of the second (`ListsMatchState`,
`DeletedAreListed`). Ticks that only
count are never excluded.

**Fairness.** `WF(Tick)`: the timer is free-running hardware. `SF(Step(c))` for
each stack: a process that gets the CPU again and again executes its next
statement again and again; strong, because ticks take the CPU away in between.
`ShellCommand` has no fairness: nobody has to type.

### Properties

`ListsMatchState`, `CurrentIsRunning`, `StacksIntact`, `IntrOnInProcessCode`,
`UnreachableCode`, `ShellWaitsForCommand`, `DeletedAreListed`, `ForkFindsSlot`,
`CommandCompletes`, `ZombiesReaped` are explained where they are defined.
`RunQueue` is the abstract specification: the "simple FIFO" of `sched.c`.
`FifoOrder` and `FifoService` say that `r_list` implements it, without and with
its fairness: the head of the queue always moves on in the end, so that every
runnable process reaches it.

### Runs

| Run | Bounds | Shows |
|---|---|---|
| `proc_safety` | 6 slots, slice of 2 ticks, 7 pids, windows release and idle | the safety properties and the FIFO order |
| `proc_liveness` | 6 slots, slice of 1 tick, 7 pids, no window | every fork finds a slot; service, the prompt comes back, zombies are reaped |
| `proc_switch_window` | window switch | violation: `StacksIntact` |

Why the bounds are enough: four slots are taken for ever by idle, the two
kernel processes and login, so six leave two for commands, the old zombie and
the new command; with 7 pids the third command reuses the slot of a reaped one,
and the shell runs commands of both kinds in any order. With a slice of two
ticks some only count; with a slice of one every tick reschedules.
`MaxPid` bounds the number of forks and nothing else. `CHECK_DEADLOCK` is off in
these runs because the system may stop: at the prompt once `MaxPid` is used up,
and after a wild switch.

## 4. The page pools: `PagePool`, `PageAllocator`

`palloc.c` of `SSUOS_P6` keeps two adjacent pools of pages, each with a bitmap
in its own first page. A page is named by its distance from the start of the
kernel pool, so that an address that leaves one pool shows up in the other.

| Code | Model |
|---|---|
| the bits of `kernelpool.bitmap`, `userpool.bitmap` | `bits`, per pool the indexes that are set |
| `bit_count` in the bitmap's header | `bit_count` |
| variables of callers that keep a result (`one_page1`, `pd`, `stack`, ...) | `Holders`; `held` is what each believes to own |
| `bitmap_contains`, `find_bitmap`, `find_set_bitmap` | `IsFree`, `Candidates`, `IsFound`, `SetBits` |
| `palloc_get_multiple_page` | `Get`; `GetError` when nothing is found |
| `palloc_free_multiple_page` | `Free`, of any pages in a row that callers own |

Operations are single steps: `init_palloc`, `proc_create` and the page fault
gate run with interrupts off, and `palloc_pf_test` runs before there is a second
process. `Free` takes part of a request or neighbouring requests together, as
`palloc_pf_test` does; callers never return what they do not own. `Get` is for
a holder that has nothing, which loses no generality: the set of holders is
arbitrary.

`GetError` is what the code does when a pool has run out: it takes
`BITMAP_ERROR` for an index and hands out the page before the pool, clearing
it, and more if more was asked for. `MayRunOut` says whether callers do that.
The wiped header gives `bit_count` 0; what is written through its null `bits`
pointer is left out.

`PageAllocator` is the contract: a request gets pages in a row of one block
that nobody owns. `PoolsAllocate` says that the pools implement it, with the
pages of each pool but the bitmap's as blocks.

| Run | Bounds | Shows |
|---|---|---|
| `pool_safety` | 5 and 6 pages, 4 holders (symmetric), requests of 1 to 3 pages that can be met | `NoPageTwice`, `BitsMatchHolders`, refinement |
| `pool_one_page` | 3 and 3 pages, requests of one page, may run out | `BitmapsSurvive` |

Why the bounds are enough: with 5 usable pages three holders fill a pool, holes
of every length up to a request's come about, and two neighbouring requests can
be returned in one call that leaves the rest of both behind. The proofs below
remove the bounds. `PoolSafety.cfg` with `MayRunOut = TRUE` shows what an
exhausted pool does: `NoPageTwice` fails, since every failing request gets the
same page.

## 5. The P4 scheduler: `PrioSched`

`idle` (process 0) creates two workers and schedules for ever. `schedule()`
runs with interrupts off: it wakes sleepers that are due and gives the CPU to
idle, or, from idle, to the first runnable process of the best queue. A tick
charges the worker, adjusts its priority every 30 ticks of a slice, relinks it,
and ends a slice of 60 ticks.

| Code | Model |
|---|---|
| `procs[p].state`, `.priority`, `.time_slice`, `.time_used` | functions of the same names |
| `runq[25]`, `slist` | sequences; both are linked by `elem_stat`, so linking into one unlinks from the other |
| `time_sleep` and the tick counter | `left`, their difference, 0 once it has passed: only the difference is ever compared, so that the counter needs no bound |
| `passed` flags of the workers | `passed`, the times already slept at |
| `proc_sleep`, `proc_free` statement by statement (interrupts on) | `SleepTimes` ... `SleepInserts`, `FreeMarks`, `FreeUnlinks`, `WorkerSchedules` |
| `proc_create`, `schedule` (interrupts off) | `IdleCreates`, `IdleSchedules`, `schedule` |
| `timer_handler`, `intr_common` | `Tick` |

`moved` says that the CPU has executed something since the last tick: a tick is
about a millisecond, a statement less than a microsecond, and a worker that did not
look at `time_used == 140` during that tick would miss its sleep. `Windows` says
where a tick may fall on the call of `schedule()` by a process that has given up
running: `"ended"` is harmless. With `Windows = {"asleep"}` the configuration
`PrioTicks.cfg` violates `SleepersListed`: between the insertion into `slist` and
`schedule()` a tick sees `time_slice` 0, relinks the stopped process into a run
queue, and nothing wakes it any more.

Fairness: `WF(Tick)`, the timer is free-running; `WF(Code)`, the CPU executes.

| Run | Bounds | Shows |
|---|---|---|
| `prio_ticks` | the shipped constants, window ended | queues, sleepers, wake-ups and choice are right, both workers end |

These are not bounds: two workers of priority 50 that sleep once, 25 queues of 4
priorities, and the times are what `proc.c` ships, and the run covers every
placement of the ticks until both workers have ended and after. `priority / 4`
stays below 25 because the workers are short (`ShortAssumption`): slower ones would
leave the array `runq`. Section 11 proves the properties for all workers that are
short in this sense. Left out: `proc_block`, `proc_unblock` and
`kernel3_proc`, which nothing calls, and the statistics that `schedule` prints.

## 6. The file system: `SsuFs`

The kernel keeps the inode table and the inode and block bitmaps in memory and
writes them through. Every operation is a fixed sequence of block writes; each
is one step, merged with the changes in memory before it, which a power failure
forgets anyway. `PowerOff` is possible between any two; `Mount` starts from the
disk alone. System calls pass an interrupt gate, so two operations never
interleave.

| Code | Model |
|---|---|
| `fs_inodemap`, `fs_blkmap`, `inode_tbl` | `imap`, `bmap`, `inode_tbl`; a `d_` in front names the copy on the disk |
| 64-byte directory entries, bytes of files | cells, `BLOCK` to a block; a cell of a file records which file wrote it |
| `inode_create`: inode block, then bitmap block | `inode_create`, `SyncBitmap` |
| `inode_write`: bitmap, data and inode block | `WriteAlloc`, `WriteData`, `WriteInode` |
| `sync_inode`, which writes a block of 64 inodes | `Synced` |
| `fs_mount`, `init_inode_table`, `make_dir` of the root | `Mount`, with the two entries in `pending` |
| `inode_open` of a new name | `OpenNew`, then the entry in `pending` |
| `file_open` with `O_TRUNC` | `OpenTrunc` |
| `generic_write` at 0 or, with `O_APPEND`, at the end | `Write` |

A block write is taken as atomic although it is eight sectors: each one changes
a single entry, inode or bit range, which lies in one sector, apart from
truncated sizes and multi-sector data. `cat`, `ls` and lookups change nothing. Callers are assumed to stop
when no inode or block is left (`Room`, `FreeInodes`) and at `NUM_DIRECT`
blocks: what the code does beyond is listed under the hazards. `MayCross` says
whether a write may go over the end of a block: `FsSafety.cfg` with
`MayCross = TRUE` violates `SizeWithinBlocks`, because `inode_write` adds the whole
length to the size and allocates no second block.

| Run | Bounds | Shows |
|---|---|---|
| `fs_safety` | 3 inodes of which 2 share a block, 5 data blocks of 2 cells, 2 blocks to an inode, 2 names, writes of 1 or 2 cells within a block, any number of power failures | blocks are owned once, entries and contents are sound on the disk at every moment, returned calls are on the disk, files stay |

Why the bounds are enough: the root's own entries fill one block, so a file may
or may not need a new directory block; both files can grow to two blocks, be
truncated and reuse their blocks; failures leak inodes and blocks until nothing
is left; and one inode lies in the root's block, the other does not, so that a
`sync_inode` carries other inodes' changes or does not.

## 7. The lists at pointer level: `ProcLists`

`SsuProc` takes a list for a sequence and an operation for a step. In memory an
operation is two to six stores, `proc_free()` performs two operations with
interrupts enabled, and the timer's `schedule()` works on the same lists. In
`ProcLists` every store is a step. The kernels are built with `-O0`, so that a
statement reads its pointers from memory when it is executed.

| Code | Model |
|---|---|
| `elem_stat.prev`, `.next`, the ends of `r_list` and `d_list` | `link.prev`, `link.next` over `Nodes`: slots and four ends |
| `list_remove`, `list_insert`, `list_push_back` | sequences of statements; `Stored` is what one does to the pointers |
| what a process has still to execute | `code[s]`; `Store`, `Unlock`, `SetState`, `Pick`, `Switch`, `proc_create` execute its head |
| `schedule()` at the end of a timer interrupt | `Tick`, with the operations as a whole |
| `proc_free`, `idle`, `shell_proc`, `do_exit` | what they add to `code` |

A slice is ten ticks and a process that is resumed begins a new one, so a tick
ends the slice of a command in its `proc_free()` once, whenever that is
(`MaxCuts` = 1), and idle and the kernel processes, which call `schedule()` every
time they run, are not preempted. Ticks in the window between `get_next_proc()`
and `switch_process()` are left to `proc_switch_window`.

`ListsSound` says that the links agree and the lists hold what the states say.
`QueueKept` says that at every store, also in the middle of an operation, the
run list implements `RunQueue`: the same promise that `FifoOrder` states for
sequences. That both hold is not obvious: a preempted `proc_free()` goes on with
pointers that other processes have rewritten meanwhile, and every requeueing
unlinks the element twice, the second time by stale pointers. Section 11 proves both
for any number of slots.

| Run | Bounds | Shows |
|---|---|---|
| `proc_lists` | 6 slots, both kinds of commands, any number of them, one cut into each `proc_free()` | `ListsSound`, `QueueKept` |

What the code relies on shows when `ListsPreempted.cfg` is changed:
- `MaxCuts = 2` violates `ListsSound`. A command is preempted after `list_remove()`
  in `proc_free()` and before it is `PROC_ZOMBIE`, so that it is requeued; it is
  preempted again in the `list_push_back()` to `d_list`, when it no longer is. Its
  half-done unlinking goes on with a stale `prev`.
- `Windows = {"exited"}`, a tick in the second `proc_free()` of a process that
  called `exit()`, violates it too: between the two stores of `list_remove()` the
  process is on `d_list`, idle reaps its neighbour, and the head of `d_list` is cut
  off: every later zombie is lost.

Both contradict the description at the top of `list.c`, that the links of the
headers "point toward each other via the interior elements of the list".

## 8. The page list and page hash of ssuos: `PageHash`

| Code | Model |
|---|---|
| `page_alloc_index`, `freelist` | variables of the same names; a run is its first page and `nalloc` |
| `VKERNEL_HEAP_START + page_idx * PAGE_SIZE` | `Address`; `addr * 7` wraps around five times for every address of the heap, which renames buckets and is left out |
| `hash_table` tokens and keys | `hash_table`; the value is a function of the key |
| `palloc_get_multiple` | `GetReturned` (the first run of that length) or `GetNew` (the end of the heap), with the insertion |
| `palloc_free_multiple` | `Free`, with the deletion |
| callers | `FreeExact`, `FreeJoint` (two requests in one call), `FreeFirst` (page by page), all in `palloc_pf_test`; `FreeStack`, `proc_free` |

`held` is what callers own; `parts` are the rests of requests that are being
returned page by page. An address inside a page differs from its start
(`PAGE_SIZE` > 1), because the hash functions see the address and the key is the
page. A deletion clears the token and leaves the key, and looks for keys without
looking at tokens, as the code does. The last stages of `insert_hash_table` are
dead: the entries of a page's first bucket always hash to it, so the counter
that would lead on stays 0.

`PagesPartitioned`: every page taken from the heap is in one run, owned or
returned. `RecordedOnce`: a page has at most one entry, a request has the one of
its first page, and returning it will clear exactly that, whatever keys former
entries have left in front of it.

| Run | Bounds | Shows |
|---|---|---|
| `page_hash` | 7 pages, requests of 1 or 2, buckets of 2 slots; whole, joint and partial returns | `PagesPartitioned`, `RecordedOnce` |
| `page_hash_exit` | the same, whole returns and stacks | violation: `RecordedOnce` |

Why the bounds are enough: with 6 top buckets and pages of two addresses all
pages hash to the same buckets, so that the top level fills and entries go to
the bottom level and come back; five pages in runs of one and two give lists in which
runs of both lengths alternate. At the shipped sizes (256 buckets of 4 slots, 1024
pages) nine pages share their buckets.

`page_hash_exit`: `proc_free` returns the stack by the saved stack pointer, which
`palloc_free_multiple` rounds down for the list but not for the hash table. The
entry stays for ever, and one is added each time a process ends.

## 9. Keyboard input: `Keyboard`

The keyboard sends codes; `kbd_handler` turns them into characters in the ring;
the shell calls `getkbd()` until it returns `FALSE`, which takes characters by the
`ssuread` system call and edits the line. A step of the reader is one turn of its
loop, because only the system call touches what the interrupt touches.

| Code | Model |
|---|---|
| `kbd_buf`, `buf_head`, `buf_tail`, `KStat` | variables of the same names |
| `buf`, `offset` in `getkbd` | variables of the same names |
| `isFull`, with C's remainder of a negative number | `isFull`, `CRem` |
| `ConvertScancodeToASCII`, `UpdateKeyStat`, `kbd_handler` | `Converted`, `KStatAfter`, `kbd_handler` |
| the shell clears the line; a call of `getkbd`; a character; none left; the shell goes on | `Zero`, `CallGetkbd`, `Read`, `ReadNone`, `Used` |
| the user and the keyboard (external) | `Press`, `ReleaseShift`, `Codes` |

`text` and `wrapped` are history. One letter stands for all keys with a
character; shift, caps lock, an extended key, the six codes of pause,
backspace and enter are keys of their own. Only shift is held while others are
pressed, and there is one of it: with two the first release ends the shift state
(one flag for both). Shift and enter gives no newline: that table has none.

`KeysKept`: the ring is a queue of the characters that shift and caps lock say.
It excepts the ring that holds `BUFSIZ - 1` characters: with `buf_head` 0 `isFull()`
does not notice, and the next character makes the tail meet the head, so that the
ring is empty. `LineIsTyped`: the line is what a line editor makes of the keys,
over all calls of `getkbd()`. `LinesEnd`: a newline in the ring completes a line.

Fairness: `WF(Reader)`. The shell runs again and again, which is `FifoService`
of `SsuProc`. The user has none.

| Run | Bounds | Shows |
|---|---|---|
| `keyboard` | a ring of 4, lines of 2 letters, any number of keys | the three properties |

Why the bounds are enough: a ring of four holds a whole line of two letters and
its newline, fills, is refused a character at every head but 0, and wraps at 0.
`MaxLine` keeps lines off the end of the buffer: there `getkbd()` steps back and
overwrites the last character, by design.

## 10. Level hashing: `LevelHash`, `Dictionary`

A sequential library: an operation is one step, but `level_expand` and
`level_shrink` are a step that adds the new level, one for each item they rehash and one
that frees the emptied level, because what goes wrong in them goes wrong between two
items. A table is a record; operations that may fail are sets of tables, empty when
they fail.

| Code | Model |
|---|---|
| `level_hash` | `level`: buckets of two levels, `level_item_num`, `level_size`, `level_expand_time`, `resize_state` |
| the old bottom level in `level_expand`, `interimBuckets` in `level_shrink` | level 2 of `buckets`, empty outside them |
| `pow(2, n)` | `PowerOf2[n]`, the sizes of the levels by `Capacity` |
| the search loops, the insertion loops | `SearchPlaces`, `InsertPlaces`: the places in the order of the loop |
| `level_insert`, `try_movement`, `b2t_movement` | `WaysToInsert` in the order they are tried, `Go` |
| `level_expand`, `level_shrink` | `Expand`, `Shrink`, then `Rehash` for each item (`Raised` to the new top level, or `Inserted`), then `Resized` |
| `exit(1)` | `Exit`; `level_destroy` ends the table as well |
| memory that is not cleared | `FreshBuckets` |
| the two seeded hash functions | constants |

`level_insert` does not look whether a key is there, so callers must not insert
one twice: a guard of `Insert`. A level of size 1 divides by zero in `F_IDX`:
`MinLevelSize` > 1. `posix_memalign` memory is not cleared; the allocator's marks
may lie over the first bucket of a reused block, and `FreshTokens` says that a
token there may be neither 0 nor 1. The case that it is 1, garbage taken for an
item, is left out, as no property could hold.

`StoredOnce` and `QueriesFind` are explained where they are defined;
`IsDictionary` says that the table implements `Dictionary`: insertions, updates
and deletions do to the set of pairs what their return codes say and resizing
changes nothing. All three are checked between the items of a resizing as well, but for
`QueriesFind`, as nobody searches then. `exit(1)` in the middle of a rehashing loses the table with the
process; a refused insertion (result 1) is legal. `test.c:29` does not look at the
result of the insertion after an expansion, which may be 1 again.

| Run | Bounds | Shows |
|---|---|---|
| `level_hash` | 4 keys, buckets of one slot, level sizes 2 and 3, one key with two values | the three properties |

Why the bounds are enough: the four keys collide so that direct insertion into
both levels, the movement of an item in each level, both movements from bottom to
top, a refused insertion, a failing expansion and both failures of a shrinking are
all reached. Movements inside a level out of the second bucket need a fifth
key; they are the same function called with the other bucket.

## 11. Proofs

### `SsuProcProofs`

All theorems hold for every number of slots (at least 4), slice length, bound
on pids and set of commands, and assume `Calm`: no tick reschedules in the switch
and free windows (`ForksFindSlots` assumes more, below).

The properties are not inductive: that a switch resumes a sound stack needs
that the front of the run list is runnable while `schedule()` is under way,
which needs that idle is always on the list, that only zombies and processes
that never end reach `schedule()`, and that a process waiting after its own
call of `schedule()` is at a point where interrupts may be off. `IInv` collects
this: `ProcessesOK` (where each kind of process can be), `RunningOK` (the
executing process and the progress of its `schedule()`), `WaitingOK` (every
runnable process that waits can be resumed), `ListsOK`. The proof has

1. lemmas on lists (`AppendProps`, `TailProps`, `UnlinkProps`, `UnlinkHead`),
2. what `IInv` says of the executing process (`RunningFunc`, `RequeuedProps`,
   `UnlinkBoth`, `SwitchProps`),
3. one lemma per action, with one step per conjunct of `IInv`,
4. `Invariance` and the theorems for the single properties.

`ShellAlwaysWaits` needs a second invariant, `ShellInv`, inductive once `IInv`
is known: there is one login process, all commands are its children, at most
one is in the foreground, and a zombie that runs its second `proc_free` finds
the lock open. `FifoImplemented` proves that `SsuProc` refines `RunQueue`.

`ForksFindSlots` needs a third, `ReapInv`, and the bounds of the `proc_liveness` run:
no tick reschedules in `schedule()`, `proc_free()` or the loop of `idle()`
(`Windows = {}`), and there are six slots or more (the code has 16). That the
shell forks no faster than `idle()` reaps is a fact about the order of the run list:
while there is a zombie, idle stands before the command in the foreground
(`IdleReaps`), because the command was appended when idle was on the list, and idle
gives the CPU away only when no zombie is left. A command therefore reaches
`proc_free()` only with no other zombie around (`ForegroundAlone`), keeps the CPU
from the release of the shell until it is a zombie itself (`LeavingOK`), and there is
never more than one zombie; with it, at most two kernel processes (`KernelsOK`),
one shell and idle are in the table when the shell forks (`SlotIsLeft`).

Only model-checked: all liveness properties, which are out of the prover's reach.

### `PagePoolProofs`

All theorems hold for pools of any size, any set of holders and requests of any
length. Two assumptions stand for how the pools are used: `Affordable`, callers
do not ask for more than there is, and `OnePage`, requests of one page only and
a kernel pool of more than one page. Without either nothing holds
(section 4).

`NoPageTwice` needs `BitsMatchHolders`, since a request trusts the bits. That in
turn needs `UsableOnly`: nobody owns the page of a bitmap or a page outside the
pools, or returning it would clear a bit that nobody's pages account for; and
`HeadersIntact`, since the search is bounded by the header. `IInv` is their
conjunction. `PageName` says that pools do not overlap, `RunPages` and `Taken`
what a run of pages is and that a request takes pages that nobody owns;
`GetPreserves` and `FreePreserves` have one step per conjunct. `NoPageTwice`
fails under `OnePage` when a pool has run out, so `BitmapsAlwaysSurvive` has an
invariant of its own, which says only that nobody owns a bitmap's page.

### `SsuFsProofs`

All theorems hold for disks, blocks, inode tables and write lengths of any size
and any file names, with any number of power failures. They assume `Within`, that
no write goes over the end of a block; section 6 says what happens otherwise.
`RootAssumption`, that the root directory can hold an entry for every inode, is
true of the shipped sizes and is needed: inodes are never freed, and no other
check keeps the root from growing past its blocks.

A mount believes the disk, so the disk must be right at every moment and not
only between calls (`DiskOK`). The next block write keeps it right because the
memory is right (`MemoryOK`) and the disk lags behind it in a way that cannot
matter (`Behind`): the blocks an inode has on the disk are the first ones it has
in memory, and the bitmap on the disk is never behind a block that is in use.
`RequestsOK` says that an offset is at most the size, so that a write that
allocates takes the block right after those in use; and `Missing` counts the
entries that the root still gets, so that its size is bounded by the number of
inodes in use. The proof has

1. arithmetic of blocks and offsets (`NoBlockNeeded`, `BlockNeeded`, `EndsInBlocks`),
2. ownership when a table lags behind, gets an inode or a block (`OwnedBehind`,
   `OwnedMore`, `OwnedAlloc`),
3. one lemma per action, with one step per conjunct of `IInv`, and the theorems.

The second half of the module is about what is in the blocks, under the same
assumptions: `EntriesValid`, `FilesHoldOwnData` and `FilesStay`. `IInv` says who owns a block and nothing about
its cells, so `SInv` is added to it; the two are inductive together.

- `DiskSound`: the disk alone. Files hold their own pieces, names and inodes in the
  directory are unique, and a disk without a root inode in use has none to read
  (else the first mount of a new disk would lose entries).
- `RunSound`: the same contents seen through the inode table in memory and through
  the one on the disk. Both are needed: a truncation shortens only the former, and
  the block-wise `sync_inode()` of some other file later carries it to the disk.
- `UnderWay`: the write under way. Between `balloc()` and the inode's write the
  data block is already on the disk; a reader of the disk must not see the change
  until then unless it is a change to his own file. A new block starts where the
  file ends on both sides (`NewBlockAtEnd`), so what it held before shows nowhere;
  an entry goes to the end of the directory, is new to it, and cells once written
  stay until the inode counts them.

`DataWritten` computes a cell of any file after a data write from block ownership
and the arithmetic of `SameCell`; then there is one lemma per action. `NextSound`
also shows that each step keeps every entry, which gives `EntriesStay`.

### `PageHashProofs`

`Partitioned` holds for every heap, request length and way of returning pages. Its
invariant `RunsOK` adds to `PagesPartitioned` that the list has no run twice and
none that is owned; all returns are instances of one lemma, `Exchanged`: some owned
runs give way to others with the same pages, the last of which goes to the list.

`Recorded` needs two assumptions. `ByAddress`: pages are returned by their first
address, which `page_hash_exit` shows not to be so for stacks. `Roomy`: at most one
page more than fits shares its top buckets. It is true of the shipped sizes (nine
pages, two buckets of four slots) and of the run's. It makes `insert_hash_table`
find a slot: if both top buckets of a page are full, they hold all other pages that
share them (`FullTop`, by counting), so none of these is in the bottom level, and
the bottom bucket of the second hash, which two classes of pages share, has at most
one entry (`FreePlace`). `BottomSparse` keeps that true. `EntriesFound` says that
no place before an entry has its key, which is why a deletion that looks at keys only
finds the entry among the keys that former entries left.

### `PrioSchedProofs`

The theorems hold for every number of workers, priorities, times at which they
sleep and end, slice lengths and numbers of queues, and every placement of the ticks
outside the window `"asleep"`, where the code is wrong (section 5). That hypothesis is
part of each theorem. `IdleAssumption`: the lowest priority lies in the last queue
(99 / 4 = 24). `ShortAssumption` bounds what the ticks can add to a priority: with the
shipped constants 50 + 6 * (206 / 30) + 3 * 3 = 95 of 99, where 6 is what an
adjustment adds at most, and 3 what one adds whose tick is not charged.

`IInv` is the conjunction of the types with queues as sequences of processes, of
`IdleState`, of the course of each worker (`Phase`: unborn, running, falling asleep,
asleep, dead, and which statements and lists go with it), of `Queued`, of the order
of the sleep list, and of `Budget`. `Budget` is there for one bound, that a priority
has a queue. A worker may overrun its CPU time, because up to two ticks may fall on
each of the statements after its test (`Overrun`); and an uncharged tick, of which each sleep may
have one and the end two, may adjust again although the slice has not grown (`Unpaid`). So the
priority stays below `Ceiling`, a line in the CPU time used, the uncharged ticks and the
part of the slice not adjusted yet. TLC checked `IInv` with the shipped constants and
with three workers before the proof. The proof has

1. lemmas on the lists (`KeptProps`, `ConcatProps`, `EnqueueProps`, `KeptSorted`,
   `InsertOrderedProps`, `DueProps`): which elements a list has, in which queues a
   process is, and that insertion and removal keep the order of the sleep list;
2. what `schedule()` does (`ScheduleEffect`, `ScheduledOthers`), used by its three callers;
3. arithmetic of priorities (`CeilingProps`, `CeilingReset`, `CeilingFits`, ...);
4. one lemma per action, `PrioInvariance`, and the theorems for the single properties.

The lists are filtered with `Kept` and not with `SelectSeq`, whose definition in the
standard module is recursive: the provers cannot unfold it.

### `KeyboardProofs`

For rings and lines of every size (`LineAssumption`: a line with its newline fits into
the buffer, which holds at least three characters).

`KInv` says that the indices and characters of the ring have their types and that the
driver's four flags are right for the codes of a key that are still to come
(`FlagsBefore`): the handler sees one code at a time. That a code is taken for the
character the user means (`TakenAsMeant`) needs what the keyboard promises, `InOrder`:
it ends what it starts, so that no flag set for one key is read for the next.
`RingIsQueue` needs the arithmetic of C's remainder in both forms the driver uses:
`isFull()` misses a full ring whose head is 0 (`CRem`), and `FullAtWrap` shows that a
character which makes the tail meet the head meets a ring that holds `BUFSIZ - 1`
characters, the case `KeysKept` excepts.

`LinesAreTyped` needs `LInv`: while a call reads, the line in `buf` is `text` and
behind it is nothing, so that the next call's search for the end of the line finds it
(`ScansTo`); and what is unread fits into the line (`Fits`): there is a length for the
line after each unread character, none above `MaxLine`. `Fits` is stated with a
function of lengths and not by a recursion over the characters, and so is the bound
`RoomForLetter` of the model, so that a character more or less at the ends of the
queue (`FitsAppend`, `FitsTail`) can be followed without induction.

### `LevelHashProofs`

For any keys, values and hash functions, buckets and levels of every size from
`MinLevelSize` > 1 on, any memory that does not read as an item (`FreshAssumption`), and
as many items as a `uint64_t` counts (`WordAssumption`: the slots of a level are fewer).

The three properties rest on one invariant, `IInv`: the table has its shape (`IsTable`;
`level_expand_time` wraps at 256, so nothing follows from it), `Clean`, and the three
parts of `StoredOnce`. `Clean` says that a slot is junk or holds a caller's item, and is
junk if its token is not 1: a movement sets the token of whatever lay at the old
place, and only full buckets make it look there. So a way to insert is sound only
because the ways before it were not possible, and the proof follows the order in
which they are tried:

1. powers of 2 and the first good element of a sequence (`PowerOf2Is`, `FirstInIs`), from
   the least number of a set (`LeastExists`), which replaces the induction;
2. which places a key has in the insertion loops and in the search loops (`InsertPlacesIs`,
   `SearchPlacesIs`): the same ones in other orders, in buckets inside the level;
3. that no place searched holds another item of the key, so that a search finds the item
   of a key if there is one (`FindIs`, `AnswerIs`), in either order of the levels;
4. that movements are tried only when the buckets of the new key have no free slot
   (`WaysOrdered`), so that what is moved is an item, which goes to one of its own
   buckets, or fresh memory with a token of 2, which is then junk in use;
5. that a table which took one item more (`Took`) is sound, stores that item and nothing
   else anew, and counts it, whether it came from a caller or from the emptied level (`TookSound`,
   `RehashSound`, `InsertSound`);
6. that adding a level and freeing one keeps what is stored (`RelevelledSound`,
   `ResizedSound`), one lemma per action, and the theorems.

`ImplementsDictionary` is the refinement of `Dictionary`, every step a step of it or a
stutter; it needs from `IInv` that a key is stored once, since an update or a deletion
stops at the first one found. TLC checked `IInv` with the bounds of `level_hash` before
the proof.

### `ProcListsProofs`

For any number of slots (at least 4) and both kinds of commands. The hypothesis of each
theorem, `Calm`, is what the run `proc_lists` checks: `MaxCuts` <= 1, because a slice is
longer than a `proc_free()`, and `Windows = {}`, no tick in the second `proc_free()`
after `exit()`. Without either `ListsSound` fails (section 7).

A half-done list operation leaves pointers that are right only for the statements
still to come, so `IInv` ties the shape of both lists to what the current process has
left to execute. It says that some `u` waits on the run list, `w` is on `d_list`, and at
most one zombie `x`, preempted in its `list_push_back()`, hangs half linked behind `w`
(`Dead`); and it has one `Situation` for each phase of the code, with the number of
the statement reached: `Still` (lists untouched since the process was chosen), `Idling`
and `Reaping` (`idle()`), `Requeueing` (`get_next_proc()`), `Leaving` and `Burying` (the
halves of `proc_free()`), `Gone`, and `Exited` (the second `proc_free()`). They are
written with a few shapes: `List`; `From`, a list entered behind its head; `Fronts` and
`Hangs`, the current process first in the list, or with the links of the first element
while those to it may be rewritten already; `Linking`, the stores of `list_insert()` so
far. `Waiting` says where a preempted command can be. The proof has

1. whole operations: `Done`, a recursive function, is unfolded into a sequence of
   pointers, one for each store (`DoneIs`, by the least number of a set instead of
   an induction);
2. what one store does to a shape (`PassForwardIs`, `PassBackIs`, `LinkingIs`,
   `LinkBackIs`), that it leaves the other list alone (`ListKept`, `ElsewhereKept`), and
   the operations that a tick does as a whole (`MovedBack`, `MovedOver`, `PushedBack`);
3. what code can follow which statement, one lemma for each situation
   (`IdlingStep` ... `StillStep`), `StepKeeps` and `Invariance`;
4. `ChainIs` and `ListLinked`: a list of this shape is what the traversals of
   `ListsSound` find;
5. `QueueIsKept`: what the refinement mapping reads off the pointers is the path
   from the head of the run list (`PathIs`, `PathToLast`). Where the path is a list that
   is known, `QueueNow` and `QueueNext` give it; `Moves` is what `RunQueue` allows a
   store to do; and again there is one lemma for each situation (`IdlingQueue` ...
   `StillQueue`).

TLC checked `IInv` with the bounds of `proc_lists` before the proof.

### Only model-checked

- All liveness properties, which are out of the prover's reach: `FifoService`,
  `CommandCompletes`, `ZombiesReaped`, `WorkersEnd`, `LinesEnd`. The invariants, action
  properties and refinements of the passing runs are all theorems.
- `proc_switch_window` and the second run of the page hash, which show violations.

## 12. Not modelled

- **Bochs** (`oslab/bochs-2.6.8`) is vendored: the emulator the kernels run in. It is
  almost all of the source lines of the repository, so that the modelled part is a
  small share of the whole and a large one of the code written here.
- **Paging and page faults**: `pd_create` copies the kernel's directory and `pf_handler`
  fills one entry for each fault; nothing is shared or returned, so there is no state over
  time beyond the page allocators.
- **malloc** is unreachable: commented out in P6, returns `NULL` before it does anything in
  ssuos, and never initialised in P4.
- **Semaphores, locks and conditions** have no users: the pools of P6 initialise theirs
  and take none. A model would have to invent the processes.
- **Console, disk drivers, block layer, boot loaders, string library**: output, port I/O,
  straight-line code, pure functions. The file system sees the disk as an array of
  blocks.
- **List functions without a caller** (`splice`, `sort`, `reverse`, `unique`, `max`, `min`).
- **Go-Stop and the ciphers**: sequential console programs; the game's turns are one
  long loop of input and output, the ciphers keep no state.
- **Earlier exercises** are object files, images and boot code that P3, P4 and P6
  continue.
