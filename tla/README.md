# TLA+ models of the xv6 semaphore and shared-buffer extensions

This directory holds TLA+ models of the kernel extensions under `src/`,
the TLC configurations that check them, and `PROJECT.json`. That file
lists the components, the runs, the mutants, the source lines each
definition models, the findings and the hazards.

## 1. Inventory

### Components

| Component | Source | State | Operations |
|---|---|---|---|
| Semaphore table | `kernel/semaphore.c`, `semaphore.h` | `semaphores[64]`: per slot a spinlock, `value`, `allocated` | `seminit`, `sem_init(v)`, `sem_wait(h)`, `sem_post(h)`, `sem_destroy(h)` |
| Sleep/wakeup, kill (xv6, not in `src/` except `sys_kill`) | `proc.c`, `trap.c` | per process: state, channel, `killed` | `sleep(chan, lk)`, `wakeup(chan)`, `kkill`, the killed check in `usertrap` |
| Shared buffer | `kernel/sysproc.c` 222-352 | `sharedbuf`: ring of 10 ints, `count`, `in`, `out`, `initialized`, two totals, one spinlock | `sys_buffer_init`, `sys_produce`, `sys_consume`, `sys_buffer_status` |
| XOR cipher | `sysproc.c` 163-216 | none in the kernel; it rewrites a user buffer in place | `sys_encrypt`, `sys_decrypt` (the same call) |
| Tickets | `sysproc.c` 111-122 | `p->tickets` | `sys_settickets` |
| Memory calls | `sysproc.c` 39-65, 128-157 | `p->sz`, the page table, kalloc's free list | `sys_sbrk`, `sys_freemem`, `sys_memstat` |
| Wrappers | `sysproc.c` | kernel state outside `src/` | `sys_pause`, `sys_uptime`, fork/exit/wait/kill |
| User programs | `user/*.c` | user memory | test drivers; `prodcons.c` is a semaphore client |

### How the components interact

Shared state under spinlocks and the sleep/wakeup channel are the only
ways they interact:

- `sem_wait` holds the slot lock and calls `sleep(&semaphores[h], &lock)`.
  This releases the lock and parks the process atomically, because `sleep`
  first takes `p->lock` and `wakeup` must take it too.
- `sem_post` calls `wakeup(&semaphores[h])`, which makes every process
  sleeping on that channel runnable. A woken process retakes the slot lock
  and re-tests `value`.
- `kill` sets `p->killed` and makes a sleeping process runnable.
  `usertrap` exits a killed process before and after each system call.
- The shared buffer never blocks. `produce` and `consume` return -1 when
  the buffer is full or empty. `consume` copies the item to user memory
  after it has released the lock.
- `syscall.h` has no numbers for the `sem_*` calls. In this source only
  kernel code can reach the semaphore table, although `user/semtest.c`,
  `prodcons.c` and `testall.c` call it.

### What is hard

- **Interleaving.** `sem_init` takes and releases one slot lock at a time.
  Concurrent `sem_destroy` and `sem_init` calls change the slots behind and
  ahead of its scan.
- **Broadcast wakeup.** Every sleeper, plus any new `sem_wait`, races for
  one posted unit. Only the `while` re-test keeps this correct.
- **Destroy under waiters.** `sem_destroy` wakes nobody. Slots are reused
  without a generation number.
- **Kill.** A killed waiter is woken, but `sem_wait` does not check
  `killed`.
- **Copyout after release.** `consume` has already removed the item when
  `copyout` fails. `buffer_init` can reset the buffer while other
  processes use it.
- **Numeric edges.** Handle bounds, a negative start count, overflow of
  the unbounded counters, and wrap-around of the ring.

### What makes each component correct

- Semaphores:
  - every locked region is a step of the atomic semaphore of spec.md
    section 4;
  - no waiter sleeps while the count it waits for is positive (no lost
    wakeup);
  - a waiter next to a positive count eventually gets it or loses it to a
    rival;
  - `-1` from `sem_init` means the table was full;
  - a killed waiter exits;
  - a waiter is never granted a unit of a different semaphore;
  - the count is never negative.
- Shared buffer:
  - it behaves as a FIFO queue of `BUFFER_SIZE` items;
  - its totals match the queue;
  - an item taken out reaches the caller.
- Process memory: only pages below the break are mapped, `sbrk`
  keeps the data below it, and no physical page is lost or made up.
- Cipher: the chunked loop equals XOR of the whole buffer; it succeeds
  exactly on a valid, writable range; a failure leaves the buffer alone.
- Pause: `pause(n)` sleeps at least `n` ticks even across the wrap of
  `ticks`, and always returns.
- Clients: `semtest.c`'s checks hold when other processes share the table.

## 2. Plan

Modules, in the order they are built, most important behaviour first:

1. `Semaphore` (done). The table plus the sleep/wakeup/kill contract.
   `SemaphoreTable` (done) is the atomic abstract specification it
   refines.
2. `SharedBuffer` (done). The ring buffer, refining `BoundedQueue` (done).
3. `ProdCons` (done). Composes `Semaphore` with producer and consumer
   processes running the loops of `user/prodcons.c`, with `mutex`,
   `empty` and `full` semaphores and one user buffer per process after
   fork. It will check that the consumer sees what the producer wrote
   (expected to fail, because the buffer is not shared) and that the
   semaphore protocol neither deadlocks nor overflows `empty` or `full`.
4. `Encrypt` (done). The chunked loop of `sys_encrypt` as a RECURSIVE
   operator, checked against a whole-buffer XOR (community module
   `Bitwise`), with copy failures page by page.
5. `Pause` (done). `sys_pause` with the clock interrupt, kill and the
   unsigned wrap of `ticks`.
6. `SemTest` (done). Two `semtest.c` processes sharing the semaphore
   table.
7. `SharedBuffer` grew `buffer_status` and the caller's memory, so the
   item a failed `consume` loses shows up against `BoundedQueue`.
   `Encrypt` grew `sys_sbrk` with lazy allocation (both done).
8. `UserMemory` (done): the process memory and kalloc's free pages split
   out of `Encrypt`, with `kalloc` failing when the free list is empty;
   `Encrypt` grew `sys_freemem` and `sys_memstat`, `Pause` grew
   `sys_settickets`, and semaphores start at negative values too.
9. Next: a composition of `Pause` and `Semaphore` through a shared
   `kill`.

The run limit (12) is spent on the questions above; the new operations
are checked inside the existing runs.

## 3. The models

### Semaphore.tla: `kernel/semaphore.c`

**State.** The module keeps `value[i]` and `allocated[i]` for each slot,
and for each process:

- `pc`: `idle`, `scan` (inside `sem_init`'s loop), `asleep`, `woken`
  (runnable, about to retake the lock) or `exited`;
- `arg`: the argument of the current call;
- `idx`: the loop index of `sem_init`;
- `killed`.

Two history variables serve the properties:

- `orphaned`: waiters whose semaphore was destroyed under them;
- `sawFull`: whether the table was full at some moment of a `sem_init`.

Return values are not stored. The properties read them off the step that
returns, and storing them multiplied the state space by about thirty.

**Actions.** Each action is one locked region of the code:

- `CallSemInit`: the call is entered.
- `ScanSlot`: one loop iteration of `sem_init`, from acquire to release.
  It takes a free slot, moves on, or returns -1 after the last slot.
- `SemWait`: the range and `allocated` checks, then either a decrement or
  going to sleep.
- `WaitRecheck`: a woken waiter retakes the lock and re-tests `value`.
  It does not re-test `allocated`, exactly as the `while` loop at line 50.
- `SemPost`: increment, then wake every sleeper on the slot.
- `SemDestroy`: free and zero the slot, waking nobody.
- `Kill`: `sys_kill`/`kkill`.
- `ExitKilled`: `usertrap` exits a killed process that is in user space.

**Fairness.** The kernel continuations of a call in progress are weakly
fair: `ScanSlot`, `WaitRecheck` and `ExitKilled`. The scheduler runs every
runnable process eventually; the lottery scheduler does so with
probability 1. New calls and kills are not fair, because a process is
free never to call again.

**Abstract specification.** `SemaphoreTable.tla` is the table with atomic
`Create`, `P`, `V` and `Destroy` (spec.md sections 3 and 4).
`TableRefinement` checks `Semaphore` against it, with the identity mapping
on `value` and `allocated`.

Runs, all on `MCSemaphore.tla`: 3 processes, 2 slots, start values {-1, 1}
(`sem_init` stores any int; a waiter on -1 needs two posts),
handles {-1, 0, 1, 2}, `MaxValue` 2.

- `sem_safety` (pass, about 1.5 minutes), under `FairSpec`.
  `TypeOK`, `NoLostWakeup`, `TableRefinement` and `WaiterProgress`, with
  process t1 killable. The safety properties hold of every behaviour, so
  checking them under the fair specification loses nothing.
  - Three processes let two waiters share one broadcast while a third
    posts.
  - Two slots let a scan pass a slot and let the table fill.
  - Handles -1 and 2 exercise both ends of the range check.
  - `CHECK_DEADLOCK FALSE`: every process may block on a semaphore nobody
    posts, and then the system really stops.
- `sem_orphan_grant` (violation, 8 steps):
  1. a process sleeps on slot 0;
  2. slot 0 is destroyed;
  3. `sem_init` reuses it;
  4. `sem_post` wakes the old waiter, which takes the new semaphore's unit.
- `sem_init_spurious_exhaustion` (violation):
  1. two `sem_init` calls pass slot 0;
  2. slot 0 is destroyed;
  3. one call takes slot 1;
  4. the other returns -1, with slot 0 free and the table never full.
- `sem_killed_waiter` (violation): a waiter is killed, re-tests `value`,
  sleeps again and never exits.

### SharedBuffer.tla: `sys_buffer_*` in `kernel/sysproc.c`

**State.** The fields of `sharedbuf`, plus per process:

- `pc`: `idle`, or after the release of `consume` or `buffer_status`;
- the locals those calls hold across the release (`item`, `snap`);
- `ret`, what its last call returned;
- the caller's memory the calls copy out to (`uitem`, `ustat`).

**Actions.**

- `BufferInit`.
- `Produce`, with its -2 and -1 early returns.
- `Consume`, the locked part, and `CopyOut`. `CopyOut` returns 0, or -3
  when the caller's address is bad.
- `BufferStatus`, which reads the three counters under the lock, and
  `StatusCopyOut`. The three `copyout` calls go in order, and the caller's
  ints get the fields before the first bad address.

`CopyOutResults` is the fault model: which `copyout` outcomes the callers'
addresses can produce.

**Abstract specification.** `BoundedQueue.tla` is a FIFO queue with
totals, in which `Get` hands the oldest item to the caller.
`QueueRefinement` maps the ring onto it:

- `queue` is the `count` items from `out` onwards;
- `got` is what each caller has received: the item in flight to it, else
  its own int.

Runs on `MCSharedBuffer.tla`: 2 processes, `BUFFER_SIZE` 2, items
{10, 20}, at most 3 produced per epoch. The indices wrap after two items,
and the order of the two values is visible.

- `buffer_fifo` (pass, about 2.4M states, 1 minute). All addresses are
  good. It checks `TypeOK`, `QueueRefinement` and `StatusConsistent`. A
  `buffer_status` that returns 0 gives its caller `count = produced -
  consumed`, with `count` within the ring's size, even while the other
  process produces, consumes or re-initialises between the read and the
  copyouts.
- `buffer_consume_loss` (violation, 5 states). A bad address is allowed.
  `QueueRefinement` fails:
  1. `buffer_init`;
  2. `produce(10)`;
  3. `consume` takes 10 and counts it consumed;
  4. `copyout` fails and the call returns -3.

  The item is gone from the ring, no caller has it, and the totals say it
  was consumed. The comment on `sys_consume` lists only 0, -1 and -2,
  which are the returns that leave the buffer alone.

### ProdCons.tla: `user/prodcons.c` over the semaphores

**State.** The module has all the variables of `Semaphore`, which it
uses through `S == INSTANCE Semaphore` with the parent and the child as
the processes. For each process it adds:

- `line`: the program point;
- `i`: its loop counter;
- `hdl`: its copies of `mutex`, `empty` and `full`;
- `ubuf`, `uin`, `uout`: its own copies of `buffer`, `in` and `out`.

After `fork` the two processes share nothing but the kernel semaphore
table, as in xv6. `item` is the value the consumer read last.

**Actions.**

- `InitSems`: the three `sem_init` calls. Each is a call step followed by
  the `ScanSlot` steps of `Semaphore`.
- `Fork`: `exit(1)` if a handle is negative. Otherwise `fork` either
  starts the child with copies of the parent's memory, or fails. A
  failed `fork` returns -1, which is not 0, so the parent runs the
  producer branch with no consumer.
- `Producer` and `Consumer`: one step per semaphore operation, and one
  step for the access to the buffer.
- `Cleanup`: `wait(0)`, which returns at once when there is no child,
  then the three `sem_destroy` calls.

**Fairness.** Each process is weakly fair. Both processes always have a
next statement to run, and the scheduler runs every runnable process.

Runs on `MCProdCons.tla`: 3 slots, `BUFFER_SIZE` 2, `NUM_ITEMS` 3. The
producer runs a full buffer's length ahead, blocks on `empty`, and the
ring indices wrap.

- `prodcons_protocol` (pass, about 150 states). It checks:
  - `TypeOK`;
  - `MutualExclusion`: the two critical sections never overlap;
  - `SlotAccounting`: `empty + full` plus the slots in flight always equal
    `BUFFER_SIZE`;
  - `Terminates`: once `fork` has created the consumer, both processes
    reach their end (a leads-to from `Forked`).

  When `fork` fails, TLC reaches the parent asleep in
  `sem_wait(empty)` after `BUFFER_SIZE` items, with nobody left to post
  it. The program hangs and never destroys its semaphores. This is a
  real stop, which is why the run has `CHECK_DEADLOCK FALSE`, and it is
  why `Terminates` is stated only of a forked program. The hang is
  listed as a hazard.
- `prodcons_private_buffer` (violation). `ConsumerReadsProduced` says the
  consumer reads what the producer wrote. It fails because the child's
  `buffer` is a private zeroed copy.

### UserMemory.tla: the process's memory and the free pages

This is xv6's own code, outside `src/`: `copyin`, `copyout`, `vmfault`,
`growproc`, `uvmalloc`, `uvmdealloc`, `kalloc`, `kfree`. It is modelled
as xv6 defines it, and its map entries are marked spec-modelled.

**State.**

- the user bytes `mem`;
- the mapping `perm` of each page: `rw`, `ro` (text), `guard` (mapped
  without user access) or `none` (not mapped);
- the break `sz`, which is `p->sz`;
- `nfree`, the pages on kalloc's free list.

An unmapped page holds no data, so its bytes are kept 0, which is what a
fresh page holds.

**Operators.**

- `Copy` walks the pages of a range in order. On an unmapped page below
  the break, `vmfault` maps a page taken from `nfree`, if any is left
  (`FreeAt` counts how many are).
- `CopyIn` and `CopyOut` are built on `Copy`. `copyout` writes the pages
  before the first one it cannot write.
- `UvmAlloc` is `uvmalloc`'s loop as a RECURSIVE operator. When `kalloc`
  fails, it undoes the pages already mapped through `uvmdealloc`.
- `UvmDealloc` unmaps the pages from `PGROUNDUP(newsz)` and kfrees the
  mapped ones.
- `Growproc` grows or shrinks. A shrink past 0 wraps as a `uint64`, and
  `uvmdealloc` then changes nothing.

### Encrypt.tla: `sys_encrypt`, `sys_decrypt`, `sys_sbrk`, `sys_freemem`, `sys_memstat`

This module extends `UserMemory` with `ret`, the last return value.
Each call is one step: an xv6 process has one thread, so no other step
can touch its memory during a call.

**Actions.**

- `SysEncrypt` and `SysDecrypt`, which is the same call. `EncryptLoop` is
  the `while` loop as a RECURSIVE operator over `processed`:
  - the chunk is capped at `CHUNK`;
  - it does `copyin`;
  - the chunk is XORed with `ENCRYPT_KEY` (`^^` from `Bitwise`);
  - it does `copyout`.

  A page faulted in stays mapped even if the call then fails.
- `SysSbrk(n, t)`. An eager call, or any shrink, goes through
  `growproc`. A lazy grow only moves `sz`, after the wrap and
  `TRAPFRAME` tests.
- `SysFreemem` returns `nfree * PGSIZE`.
- `SysMemstat` reads the free count, then makes two `copyout`s of one
  `uint64` each (`Value`) and returns -1 at the first one that fails.
  Each `copyout` may fault a page in.

Runs on `MCEncrypt.tla`:

- 2-byte pages; `HEAPBASE` 1 program page (`rw`, `ro` or `guard`), then
  two heap pages;
- one or two free pages (`FreeInit`), so `kalloc` runs out partway
  through a two-page `uvmalloc` or a fault, or it does not;
- 2-byte chunks, `MAXLEN` 3, lengths 0..4, which covers both rejected
  edges and a chunk that straddles pages;
- `sbrk` arguments {-7, -2, -1, 1, 3}, which move the break off page
  boundaries, past `TRAPFRAME` and below 0;
- `memstat` writes into a heap page, where it may fault, and then into
  the program page.

Runs:

- `encrypt_chunks` (pass, about 22,000 states, just over 1 minute). The
  first two are invariants over every address and length in every
  reachable state:
  - `EncryptIsXor`: a successful call equals XOR of the whole range, also
    when the call itself faults pages in;
  - `SucceedsIffWritable`: the call returns `len` exactly when the length
    is in range and one `copyout` of the whole range could succeed. That
    means every page is writable, or unmapped below the break while
    kalloc still has a page for it;
  - `MappedBelowBreak`: every page from `PGROUNDUP(sz)` on is unmapped,
    after any mix of lazy and eager `sbrk` calls, faults, failed
    `uvmalloc`s and shrinks. Freed memory is then unreachable, and
    `uvmalloc` never meets a page that is already mapped;
  - `BreakKeepsData`: `sbrk` never changes or unmaps a byte below both
    the old and the new break;
  - `PagesConserved` (an action property): `nfree` plus the mapped pages
    is the same after every step. Every page `kalloc` hands out is
    mapped, and every page unmapped goes back to the free list, through
    faults, failed `uvmalloc`s and shrinks alike.
- `encrypt_partial_failure` (violation). `FailureLeavesBuffer` fails in
  one step, from the layout where only the program page is mapped:
  1. a 3-byte call at address 0 writes its first chunk (bytes 0-1);
  2. the second chunk lies in page 1, which is above the break and
     cannot be faulted in;
  3. the call returns -1 with two bytes XORed.

### Pause.tla: `sys_pause` in `kernel/sysproc.c`

**State.**

- `ticks` modulo 2^`WIDTH`;
- per process: `pc` (`idle`, `asleep`, `woken`, `exited`), the clamped
  `n`, `ticks0`, the last return value and `killed`;
- a history counter `elapsed` of the ticks since the pause began.

**Actions.**

- `SysPause`: the clamp and the first pass of the loop.
- `PauseRecheck`: a woken pauser runs the loop body again under
  `tickslock`. It returns -1 if killed, sleeps again, or returns 0.
- `ClockTick`: `clockintr` increments `ticks` and calls
  `wakeup(&ticks)`.
- `Kill`: `sys_kill`.
- `ExitKilled`: `usertrap` exits a killed process.
- `SysSettickets`: `n < 1` becomes 1, stored in `tickets` (under
  `p->lock`, which nothing else here takes), return 0.

**Fairness and timing.** `ClockTick` is weakly fair because the timer
interrupts periodically. Each process's `PauseRecheck` and `ExitKilled`
are weakly fair because the scheduler runs every runnable process.
`InTimeWindow` adds one timing assumption: a process inside `pause` runs
before `ticks` has come all the way round (2^32 ticks in xv6). Without
it, TLC finds a lasso: a woken pauser that is starved for a full cycle
lands back in `[ticks0, ticks0 + n)` and sleeps another cycle.

Run `pause_wrap` (pass, about 12,000 states), on `MCPause.tla`: 2
processes, `WIDTH` 3, `n` in {-1, 0, 1, 3}, any start value of `ticks`,
so pauses wrap; `settickets` arguments {-1, 0, 2}. It checks:

- `TypeOK`;
- `PauseLongEnough`: a pause returning 0 lasted at least `n` ticks;
- `PauseReturns`: every pause ends.

The `killed` test at line 79 is modelled, but no property of this run
separates a prompt return from one that waits out `n` ticks, so none is
stated about it.

### SemTest.tla: `user/semtest.c` on the semaphores

Each process runs `main()` of `semtest.c`:

- three `sem_init` calls;
- `sem_wait`/`sem_post` on `sem1`;
- three waits and three posts on `sem2`;
- three `sem_destroy` calls;
- a wait on the destroyed `sem1` and `sem_destroy(99)`, both expected to
  be rejected.

Like `ProdCons`, it uses `Semaphore` as the instance `S`. Every call is a
step of `S`, and the program moves on to the `ok` or `bad` line by what
the call returns.

Run `semtest_stale_handle` (violation), on `MCSemTest.tla`: 2 processes,
6 slots. `StaleWaitRejected` fails:

1. process 1 destroys its semaphores;
2. process 2's `sem_init` reuses slot 0;
3. process 1's wait on its old `sem1` takes process 2's unit and returns
   0;
4. process 2 then blocks for good in its own `sem_wait(sem1)`.

### Mutants

Each property of a passing run is broken by a plausible bug in the code
it is about:

| Property | Mutant | Plausible bug |
|---|---|---|
| `TypeOK` (semaphores) | `ScanSlotPastEnd` | the loop runs to `i <= MAX` |
| `NoLostWakeup` | `SemPostWakeOne` | `sem_post` wakes one sleeper |
| `WaiterProgress` | `SemPostNoWakeup` | `sem_post` has no `wakeup` |
| `TableRefinement` | `SemWaitNonZero` | `sem_wait` takes a unit when `value != 0`, so a negative count is decremented |
| `TypeOK` (buffer) | `ProduceNoWrap` | `in` is advanced without `% BUFFER_SIZE` |
| `QueueRefinement` | `ProduceOverfull` | the full test is `count > BUFFER_SIZE` |
| `TypeOK` (prodcons) | `ConsumerNoWrap` | `out` is advanced without `% BUFFER_SIZE` |
| `MutualExclusion` | `ProducerNoMutex` | the producer forgets `sem_wait(mutex)` |
| `SlotAccounting` | `ConsumerPostsMutex` | the consumer posts `mutex` instead of `empty` |
| `Terminates` | `ConsumerExtraRound` | the consumer loop runs to `i <= NUM_ITEMS` |
| `EncryptIsXor` | `EncryptLoopShortXor` | the XOR loop stops at `i < chunk - 1` |
| `SucceedsIffWritable` | `SysEncryptResultOffByOne` | the length check is `len >= 4096` |
| `StatusConsistent` | `StatusCopyOutLive` | the totals are copied from `sharedbuf` after the release |
| `BreakKeepsData` | `GrowprocRoundDown` | the shrink unmaps from `PGROUNDDOWN(sz + n)` |
| `MappedBelowBreak` | `GrowprocKeepsPage` | the shrink leaves the first page above the new break mapped |
| `PagesConserved` | `UvmDeallocNoFree` | `uvmunmap` is called with `do_free = 0` |
| `TypeOK` (pause) | `SysPauseNoClamp` | `n < 0` is not clamped and is compared as a uint |
| `PauseLongEnough` | `StillWaitingNaive` | the test is `ticks < ticks0 + n` |
| `PauseReturns` | `ClockTickNoWakeup` | the clock interrupt forgets `wakeup(&ticks)` |

## 4. Not modelled, and why

- `value++` and the buffer totals overflow only after 2^31 operations.
  The model bounds them with `MaxValue` and `MaxTotal`.
- The lottery scheduler that reads `p->tickets` is in `proc.c`, outside
  `src/`, so `SysSettickets` is modelled but no property reads the
  tickets. `settickets(0)` returns 0 where `tickettest.c:40` expects a
  rejection; line 116 alone shows it, and it is listed as a hazard.
- `kalloc`'s allocation count (`totalalloc`) is one constant: no
  property reads it.
- No property says the count of a semaphore is never negative, as
  spec.md section 3 does: the code does not keep it so (`sem_init(-1)`).
- `sys_uptime` only reads `ticks` and changes nothing. `sys_fork`,
  `sys_wait`, `sys_exit` and `sys_getpid` are one-line forwards to
  kernel code outside `src/`.
- `encrypttest.c` calls `encrypt` with three file names, but the system
  call takes an address and a length. What it then encrypts depends on
  the address of a string literal, which a model cannot meaningfully
  choose.
- `syscall.h` holds constants only.
- `lotterytest.c`, `tickettest.c`, `psinfotest.c`, `memsizetest.c` and
  most of `testall.c` call `getpinfo` and `memsize`. Neither has a
  number in `syscall.h` or a kernel function in `src/`, so what they
  return is not defined by this repository. The scheduler that would
  make `lotterytest.c`'s ticket counts matter is not in `src/` either.
  The semaphore part of `testall.c` (lines 50-66) makes the same calls
  as one round of `semtest.c`.
