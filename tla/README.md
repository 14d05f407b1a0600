# Verification of the modified xv6-riscv kernel

TLA+ models of this kernel, model-checked with TLC on small instances, and
proofs checked by TLAPS. The kernel is xv6 for RISC-V with four scheduling
policies chosen at build time (RR, FCFS, PBS, MLFQ), `set_priority`, `waitx`
and `trace`. `PROJECT.json` maps every definition to the source lines it models
and lists the runs, the hazards and the theorems.

## The system and its parts

| part | source | modules | state |
|---|---|---|---|
| MLFQ queues | `kernel/queue.c` | `Queue`, `ProcQueue`, `ProcSeq`, `MlfqProofs` | modelled, proved |
| MLFQ scheduler | `kernel/proc.c`, `kernel/trap.c` | `Mlfq`, `MlfqSmp`, `MlfqProofs` | modelled, proved |
| RR, FCFS, PBS and accounting | `kernel/proc.c`, `kernel/trap.c` | `Sched`, `SchedProofs` | modelled, proved |
| process table | `kernel/proc.c` | `Proc`, `ProcProofs` | modelled, proved |
| ticks and `sleep()` | `kernel/sysproc.c`, `trap.c` | `Ticks` | modelled |
| memory: pages, page tables, fork, exec, sbrk, copies | `kernel/kalloc.c`, `vm.c`, `exec.c` | `Memory`, `UserCopy` | partly |
| pipes | `kernel/pipe.c` | `Pipe`, `ByteFifo`, `PipeProofs`, `Files` | modelled, proved |
| file table, descriptors | `kernel/file.c`, `sysfile.c` | `Files` | modelled |
| console, UART | `kernel/console.c`, `uart.c` | `Console`, `LineInput` | modelled |
| sleep-locks, spinlocks | `kernel/sleeplock.c`, `spinlock.c` | `Bcache`, `Console` | modelled |
| names, inodes, block allocation, file contents | `kernel/fs.c`, `sysfile.c`, `file.c` | `Fs`, `Blocks` | partly |
| redo log | `kernel/log.c` | `Log`, `AtomicDisk`, `LogProofs` | modelled, proved |
| buffer cache | `kernel/bio.c` | `Bcache`, `BcacheProofs` | modelled, proved |
| disk driver | `kernel/virtio_disk.c` | `VirtioDisk`, `BlockDisk`, `VirtioSteps`, `VirtioProofs` | modelled, proved |
| shell, `echo`, `cat`, `init` | `user/sh.c` and others | `Shell`, `ShellParse`, `Files` | partly |
| `malloc()`, `free()` | `user/umalloc.c` | `Umalloc` | modelled |
| boot, traps, system call dispatch, formatting, other programs, `mkfs` | | | not modelled |

How the parts meet, from the bottom up:

    VirtioDisk --implements--> BlockDisk <--uses-- Bcache <--in short-- Log
    Log  --implements--> AtomicDisk
    Pipe --implements--> ByteFifo <--in short-- Files <--runs the code of-- Shell
    Console --implements--> LineInput                        ShellParse --^
    Queue --implements--> ProcQueue <--as sequences-- Mlfq

`Bcache` takes the actions of the disk from `BlockDisk` with `INSTANCE`, so that
what is checked of the cache holds over the real driver. `Log` models of the
cache only what `Bcache` shows: a pinned buffer stays, one that is not pinned
may be recycled at any time. `Files` keeps of a pipe its two ends and the number
of its bytes, as `ByteFifo` allows, and executes the system calls that `Shell`
derives from the trees that `ShellParse` finds. `Mlfq` keeps its queues as
sequences, and its property `QueueCalls` says that it calls them only as the proof
about `Queue` assumes.

A module states what is checked of it at its end; its `TypeOK` is checked alone or as
a conjunct of one of its invariants. Actions carry the names of the
functions they model. Operators like `GetMissKeepValid` or `RuncmdKeepsOutput`, which no action
uses, are the same code with a plausible mistake in it; each property is shown
to fail when one of them replaces the right definition (`mutants` in
`PROJECT.json`).

## Modules

**Param.** What the schedulers share: `NPROC`, the slots of the process table, the
null pointer.

**Queue, ProcQueue, ProcSeq.** `struct Queue` with `head`, `tail`, `size` and the
array. `push()` and `pop()` are steps, the loop of `qerase()` one step per
iteration. Processes stand for their pids. `ProcQueue` is the promise: a FIFO
line from which one process may be erased.

**Mlfq.** One hart, in `scheduler()`'s loop or in a process. Ageing, filling the
queues, choosing and dispatching are one step per loop iteration; the timer may
come anywhere. `q_enter` is kept as the time waited, capped at `AGETICK`.

**MlfqSmp.** Two harts in `mlfq_scheduler()` on one level, interleaved between
the calls of `queue.c`, which nothing locks.

**Sched.** `RoundRobin()`, `fcfs()` and `pbs_scheduler()` read the table one slot
per step without a lock; `scheduler()` then takes the choice under `p->lock`.
`clockintr()` also goes slot by slot, in both its loops.

**Proc.** `fork`, `exit`, `reparent`, `wait`, `kill`, `sleep`, `wakeup`, `yield` on
several harts, with `p->lock` handed over across `swtch()` and `wait_lock`.

**Ticks.** `sys_sleep()` under `tickslock`, the tick of `clockintr()` with its wakeup,
and `kill()`. `ticks` is modulo `WRAP`, and the comparison `ticks - ticks0 < n` is
unsigned, as in C: a negative `n` is that many ticks short of a whole turn. How
long a call has slept is counted apart from the code's variables. A sleeper
may run up to `Late` ticks after its wakeup.

**Memory.** The free list, the page-table tree with its interior pages, and a
loop counter for each of `uvmalloc()` and `uvmcopy()`. Every `kalloc()` is a step
and may fail, and `exec()` fails at each of its other tests too. Loops that only free are one step: between two frees nothing can
fail that could not fail before or succeed after. Sizes are in half pages, so
that they need not be aligned; a page-table page has two entries.

**UserCopy.** `copyin()`, `copyout()` and `copyinstr()` as functions on all small page
tables, compared byte by byte with what the page table says is the user's.

**Pipe, ByteFifo.** `pipewrite()`, `piperead()` and `pipeclose()`, one byte per
step, `nread` and `nwrite` wrapping at `WRAP`.

**Files.** `ftable`, the descriptors, and the processes that use them. The code that
a process has still to run is a sequence of instructions: system calls, and
what a call does after it released `ftable.lock` (`fileclose()` gives up the pipe
end or the inode only then). `pipe()`, `open()` and `fork()` fail where the code
lets them, with its clean-up, also when `sys_pipe()` finds no descriptor or cannot
copy them out.

**ShellParse, Shell.** The parser on lines of letters and symbols, as functions
from a position to the set of results; the empty set is `panic()`, and
`nulterminate()` writes into the line. `LineOf` is the grammar without any parsing.
`Runcmd` gives the system calls of a tree; `Prints` is what the tree should
print, by what pipes and redirections mean. The last redirection of a command is
the outermost, and opened first.

**Console, LineInput.** Readers, writers and the interrupt handler on harts with
interrupts that `push_off()` and `pop_off()` disable and enable, `cons.lock` and
`uart_tx_lock`, the input buffer and the ring to the UART, and the UART
(external) with one byte for each direction. An interrupt may come between any
two steps at which interrupts are on. `LineInput` is the promise to readers.

**Umalloc.** The circular list of free blocks with its headers, splitting, joining
and `morecore()`; other users of `sbrk()` leave gaps.

**Fs.** The inode table over the inodes on disk, directories as functions from
names, `namex()` one path element per step, and the calls that create, link,
unlink, open and close. `iput()` is a step, and three when it frees the inode.
Locks that a call keeps from step to step are explicit. A panic is a step after which
the kernel does nothing any more; whether it was behind a `..` is kept apart (`up`).
The inode table has an entry for every inode (`NINODE`), so that the panic of `iget()`
is left out, and that of `ialloc()`.

**Blocks.** The bitmap, `bmap()` with direct and indirect blocks, `itrunc()`,
`readi()` and `writei()` on the contents of files, with a copy that may fail
at any byte, offsets modulo `UINT`, and the number of blocks each piece of
`filewrite()` logs. `data` is what the buffers hold and `saved` the disk: a piece whose
copy fails is neither counted nor logged, but what was copied stays in the buffer until
it is recycled, or a later write logs it. So `ReadsBack` allows for such bytes, and
only for them, the old value or the new one.

**Log, AtomicDisk.** `begin_op()`, `log_write()`, `end_op()`, and `commit()` one
block per step, with crashes between any two, recovery, and crashes in it.

**Bcache.** `bget()`, `bread()`, `bwrite()`, `brelse()`, `bpin()`, `bunpin()` with the
LRU list; waiting for a buffer is `acquiresleep()` with its sleep. Callers keep
the rule of `log.c`: a changed buffer is written or pinned before `brelse()`. (The
failing copy of `writei()` breaks it, which is why `Blocks` has it.) A process stands for
a use of one buffer; `bmap()` and `write_log()`, which hold two, are two of them.

**VirtioDisk, BlockDisk.** Descriptors, the two rings with their wrapping
indices, the status bytes, and a device (external) that takes requests in order
and finishes them in any order, also while the interrupt handler runs, and
between its last look at the used ring and its return.

## What the runs check

| run | bounds | shows |
|---|---|---|
| `mlfq` | 3 processes, 2 levels, `AGETICK` 4 | queues hold exactly the flagged runnable processes; the best level runs first; nobody starves |
| `mlfq_smp` | 2 harts, 2 processes | **violated**: two harts pop one process, the second from an empty queue |
| `sched_memory` | queue of 3; 3 processes, RR and FCFS on 2 harts, PBS on 1 | the ring is a FIFO line with erasure; stale choices never run a process twice; the scans keep their order; accounting is bounded |
| | 2 processes, 10, 15 or 21 pages; 3 pages to copy; a heap of 14 units | no page leaked, shared or freed twice, every image exact; copies exact; heap exact |
| `proc` | 3 slots, 2 harts; 5 tasks, 5 files, 2 pipes, 6 command lines | no process on two harts, no lost exit; reference counts exact, output right, every command ends |
| `log` | 2 processes, 3 blocks, log of 4 | an atomic disk across crashes; reservations suffice; sleepers are woken |
| `log_full` | 3 processes, 6 blocks, log of 6, `MAXOPBLOCKS` 2 | **violated**: operations that write `MAXOPBLOCKS` blocks overflow the log |
| `pipe` | 2 writers, 1 reader, 2 bytes, counters mod 4 | a FIFO; no lost wakeup; readers see end of file |
| `console` | a reader and a writer, buffers of 2, indices mod 4; all lines of up to 5 tokens | input by lines, output once and in order, no deadlock of a hart with itself, everything goes on; the shell's parser is the grammar |
| `virtio` | 3 requests, 7 descriptors | each call one transfer of its own; no descriptor, wakeup or interrupt lost |
| `bcache_fs` | 2 processes, 2 buffers, 3 blocks, 1 pin; `ticks` mod 5 | one buffer per block, one user, coherent contents; `sleep()` is exact |
| | 2 processes, 3 inodes, 2 or 3 paths a call, 2 links; 2 files, 8 blocks, 4 calls | references exact, named inodes never freed, no free inode is locked but behind a `..`; no block lost or shared, contents read back, pieces fit a transaction |
| `fs_links` | as `bcache_fs` | **violated**: a link count without a name |
| `fs_dotdot` | as `bcache_fs` | **violated**: `..` leads to a free inode |

Four runs (`sched_memory`, `proc`, `console`, `bcache_fs`) explore several specifications
that share no state: the variable `part` says which one a behaviour is of, and
the variables of the others stay as they are initially. `UserCopy` and `ShellParse`
are functions; their properties are evaluated in a part that has one state.

Why the bounds are enough for the cases that matter:

- `sched_memory`: `qerase()` crosses the end of the array of 4 from every position.
  One mortal slot is reused, one tick and one run of each kind of
  count are enough to make the counts differ.
  With 10 pages `fork()` fails at once, with 15 half-way, with 21 `exec()` succeeds and
  fails while a parent and its child live. Pages 0 to 2 need two page-table pages.
  Copies of up to three pages start and end anywhere. The heap is extended
  several times, with and without a gap.
- `mlfq`: a third process can be starved by two; two levels have demotion and
  ageing; 4 is the least `AGETICK` at which ageing protects the last of three
  (it has to exceed about twice the number of other processes: with 64 processes
  the code's 128 just does).
- `proc`: a process, its child, and `init` as the new parent. The command lines
  have three-stage pipelines, a list and a background command in a pipeline, a
  pipeline whose last command does not read, a redirected group, and a program
  that takes descriptors until there are no more (as some of `user/usertests.c`).
  `cat` in a pipeline passes on more bytes than a pipe holds.
- `pipe`: the counters wrap after two fillings of the buffer; a write of 3 bytes
  does not fit.
- `log`: two operations fit in one group and a third has to wait for the commit.
  In `log_full` the log is three times `MAXOPBLOCKS`, with its header, as in `param.h` and `mkfs`.
- `console`: the indices start one below their wrap, three keys fill the input
  buffer, and a write of four bytes fills the ring, the UART and sleeps. Lines of 5
  tokens nest a group in a pipe or a list.
- `bcache_fs`: fewer buffers than blocks, and one less than processes and pins can
  hold, so that `bget()` also panics. `ticks` wraps during a sleep; sleeps are of -2, -1,
  0 and 1 ticks.
- `virtio`: two requests fit into 7 descriptors and one is left over, so that the
  third request takes one and gives it back.
  Of the file system, one directory in the root with a name in it, for which both processes
  can race, and one inode more. `/a` is made as a directory or as a file, `/a/b`
  too, `/b` as a file only; `link()` joins `/b` and `/a/b`, and `open()` goes to `/a/b/..` as
  well. Files have one direct and two indirect blocks;
  the 8 blocks are just what two files need at their largest, so that a lost
  block also shows as the panic of `balloc()`.

Other bounds are constants marked `bound` where they are declared. Views (`VIEW`)
leave out only what no step reads before it writes it, and in `MCMemory` which
page is which, in `MCFs` whether an inode that is as on the disk was read already;
the comments there say why. Symmetry is used in runs without
liveness properties only.

**Fairness.** `Mlfq`: the scheduler's loop and the timer, which the hardware
repeats for ever. `Log`: every process that can take a step inside a file
system call does, and recovery runs after a crash; nothing is assumed of crashes
or new calls. `Pipe`: strong fairness for each process inside a call, since
another may take `pi->lock` again and again before it; the schedulers run every
runnable process, and spinlocks are granted in the end. `Console`: weak fairness of
what the harts and the UART do by themselves; nobody needs to type, call or be
killed. The work of a call is finite, and a hart that waits takes no step, so
that it is enough that something goes on as long as it can. `Files`: the same, for
the processes of a command, whose programs are finite but for `cat`, which takes
at least a byte in each round. Typing the next line is one of these steps, but only
possible when the last command has ended, which is what `PipelineEnds` asks for.
The other runs check safety only.

## Where the code differs from what it says

- `mlfq_smp`, `NoEmptyPop`. The queues have no lock, and the Makefile starts three
  CPUs. Two harts that both find the one process in a queue pop it twice, and the second
  `pop()` panics: "Poping from empty queue" (`kernel/queue.c`).
- `log_full`, `LogHoldsOps`. `kernel/param.h` has `MAXOPBLOCKS`, "max # of blocks any FS op
  writes", and `LOGSIZE`, "max data blocks in on-disk log". `begin_op()` reserves by the
  one within the other, but the log that `mkfs` makes has `LOGSIZE` blocks with its header,
  and `log_write()` panics one block earlier, also for a block that is in the log already.
  Only operations of exactly `MAXOPBLOCKS` blocks are affected, and `filewrite()` stays below.
- `fs_links`, `LinksExact`. `create()` locks the parent that `nameiparent()` had
  unlocked and does not test whether it was removed meanwhile. The new inode is
  entered in a dead directory and keeps `nlink` 1 without a name, so that it is
  never freed (`kernel/fs.h`: "Number of links to inode in file system").
- `fs_dotdot`, `DotDotLives`. While `open()` of `/a/b/..` is at `/a/b`, another process
  removes `/a/b` and `/a`. The `..` of the removed directory still names the inode of `/a`,
  which is free by then, and `ilock()` panics: "ilock: no type" (`kernel/fs.c`). `RefsExact`
  shows that there is no other way to that panic.

Seen while modelling, without a run of their own: `kill(0)` marks an unused slot
killed and `allocproc()` does not clear the mark; `sys_waitx` hands out `wtime` and
`rtime` in the other order than `user/user.h` declares; a tick is counted in
`rtime` at up to three places; dispatch overwrites `static_priority`; PBS is
preempted by the timer; a process woken just before ageing is promoted for time
it slept, since `q_enter` is renewed only on queueing; a killed `pipewrite()` returns
without waking readers of what it wrote; a process killed between `wait()`'s test
of `p->killed` and its `sleep()` sleeps until its next child exits; on harts other
than 0 `clockintr()` does not run, so that `change_queue` is not counted there;
a write whose copy fails leaves bytes that it does not count in the buffer, for readers
to see until it is recycled (`kernel/fs.c`: "Returns the number of bytes successfully
written"); `bget()` panics when all buffers are in use, and there are 30 of them for 64
processes and the pins of the log; `sleep()` of a negative number
sleeps nearly a whole turn of `ticks`; a `malloc()` of about 2^31 bytes would
overflow the `int` of `sbrk()`, which the sizes in `Umalloc` stay below.

## What is proved

Eight modules hold proofs, each of the module it is named after; `MlfqProofs` is
about `Queue` too, and what it takes to prove `VirtioDisk` is in two modules, the
invariant and the smaller steps in `VirtioSteps`, the rest in `VirtioProofs`. A
theorem is about every value of the constants that the `ASSUME`s of the component allow: any
number of processes, slots, harts, buffers, blocks, descriptors and levels, and any
size at which a counter wraps. TLC evaluates the assumptions on the instances of
the runs.

| module | theorems | states for all constants |
|---|---|---|
| `MlfqProofs` | `MlfqQueuesExact`, `MlfqQueueCalls`, `MlfqBestLevel` | `QueuesExact`, `QueueCalls`, `BestLevelFirst` |
| | `QueueTypeCorrect`, `QueueRingSafe`, `QueueNeverFull` | `QueueTypeOK`, `RingInv`, `NoPanic` |
| | `QueueImplementsFifo` | `FifoWithErase`: the ring implements `ProcQueue` |
| `SchedProofs` | `SchedOneHart`, `SchedAccountingBound`, `SchedScanBest` | `OneHart`, `AccountingBound`, `ScanBest` |
| `ProcProofs` | `ProcOneHart`, `ProcNoLostExit` | `OneHart`, `NoLostExit` |
| `PipeProofs` | `PipeNoLostWakeup` | `NoLostWakeup` |
| | `PipeImplementsFifo` | `PipeIsFifo`: the pipe implements `ByteFifo` |
| `BcacheProofs` | `BcacheOneUser`, `BcacheCoherent` | `OneUser`, `Coherent` |
| `LogProofs` | `LogIsAtomicDisk` | `LogImplementsAtomicDisk`: the log implements `AtomicDisk` |
| | `LogIsSafe` | `LogSafe` |
| `VirtioProofs` | `VirtioDescriptorsExact`, `VirtioNoLostWakeup` | `DescriptorsExact`, `NoLostWakeup` |
| | `VirtioIsDisk` | `VirtioImplementsDisk`: the driver implements `BlockDisk` |

Each component has an inductive invariant, `IInv` (`QueueInv` for `Queue`), shown to hold initially and to be
kept by every action (one lemma per action), and a theorem `...Invariant`; the
properties follow from it. The properties themselves are not inductive; what has
to be added, and why:

**Queue.** That the live slots hold distinct processes (`LiveDistinct`), which makes a full
queue impossible before a push, and where the victim of a half-done `qerase()` is
while it is swapped towards the tail (`EraseInv`). `EraseStepIInv` is the heart: one
swap keeps both. For the refinement a swap is a stutter, because `Contents` leaves
the victim out from the first step of `qerase()` on, and the order of the others is
kept. A caller pushes only what is not queued and erases only what is;
`MlfqQueueCalls` proves that of the scheduler, so that both theorems together are
about the queues the scheduler has.

**Mlfq.** `in_queue` and `level` say in which queue a process is (`Placed`), it is there
once (`Once`), and the loops' indices bound what they have passed (`IndexInv`: the
levels before the one that is looked at are empty, which is what makes the choice
the best). `PowerAssumption`, that `2 ^ l` lies between 1 and `2 ^ (NMLFQ - 1)`, is
the only fact of arithmetic that is assumed: the provers do not know `^`.

**Sched.** A chosen process need not be runnable any more, so that nothing is claimed
of it: `RunInv` relates only harts that run and `RUNNING` processes, and the test under
`p->lock` is what keeps it. For the accounting, `TimeInv` adds to `rtime` what the
tick in progress may still add (`Pending`), slot by slot through both loops of
`clockintr()`. `SchedScanBest` is an induction over the slots, made as an argument
about a least counterexample: the scan after slot k knows the best of the first k
(`BestOf`), through the three `if`s of `pbs_scheduler()`.

**Proc.** `p->lock` is held from one step to the next only across `swtch()` and only by the
hart on that stack (`LockInv`, `CurInv`). For `NoLostExit` the loops have to be
followed: which slots `reparent()` and `wait()`'s scan have passed (`ChildInv`,
`WakeInv`), who holds `wait_lock` where (`WaitLockInv`), and that a zombie given to a
sleeping `init` is one that `exit()` is about to wake it for. `ForkInv` says that the
slot `fork()` fills is its own, although it gives up `np->lock` on the way.

**Pipe.** `nwrite - nread`, unsigned, is at most `PIPESIZE` (`FillInv`), which needs that
`PIPESIZE` divides `WRAP`. A reader may sleep on a pipe that is not empty as long as
a writer with its `wakeup()` to come is inside its call, or was killed there (`ReaderInv`,
`WriterInv`). For the refinement, the line of `ByteFifo` is what lies between the two
counters, and storing at `nwrite % PIPESIZE` appends to it.

**Bcache.** `refcnt` counts the users and the pins (`CountInv`), the holder of the sleep-lock
is the user (`LockInv`), and what nobody uses and the log has not pinned is on the disk
(`CleanInv`), so that recycling it loses nothing. Neither theorem assumes that there are
enough buffers: `bget()` may panic, and what `OneUser` says of that is that every buffer was
in use or pinned then (`Exhausted`), which no later step changes.

**Log.** `log.outstanding` counts the open operations and one process at most commits
(`CommitInv`); how far `write_log()` and `install_trans()` are (`LogInv`), in `commit()` and
after a crash in recovery; the header on the disk is empty or that of the group being
installed (`HeaderInv`); what is not pinned is at home (`HomeInv`). `LogIsSafe` has the
hypothesis `EnoughLog`: `OpBlocks`, what an operation writes, is less than
`MAXOPBLOCKS`, and the log on the disk, a header block less than its size, holds what
`begin_op()` lets in. With the values of `kernel/param.h` (10 and 30, and 30 blocks on the
disk) it holds for operations of up to 9 blocks; `log_full` shows that the bound is sharp. Its invariant (`SpaceInv`) counts the
blocks that open operations may still write, and has a case of its own for an
operation that is alone.

**VirtioDisk.** Every descriptor is free or in the chain of one request, which is as
`virtio_disk_rw()` built it (`RequestInv`, `OwnInv`). The entries of the two rings between
their reader's and their writer's index are exactly the requests not yet taken, and
those finished and not yet seen, each once (`AvailInv`, `UsedInv`); that an index which
wraps never overtakes the other end follows from there being fewer requests than
descriptors. `CallerInv` has the wakeups, caller by caller (`CallerAt`).

Each of these invariants was checked with TLC on the instance of its run before it was proved.

**Finite sets.** The lemmas that count (`BcacheProofs`, `LogProofs`, `VirtioSteps`,
`VirtioProofs`) assume the few facts about finite sets they need, gathered in `Counting`;
those of the ring in `MlfqProofs` assume `Pigeonhole`. Both are proved, as the lemmas
`Finite` and `NoneLeftOut`, at the end of the module that states the theorems, which is
where `FiniteSetTheorems` is instantiated. No theorem has them as a hypothesis.

**Left to TLC.** Liveness under fairness (`NoStarvation`, `PipelineEnds`, `SleeperWoken`,
`ReaderReturns`, `ConsoleProgress`) is beyond this prover. The results of recursive
definitions over trees and sequences are too (`ParseExact`, `CopyExact`, `HeapExact`,
`ReadsBack`, `PieceFits`, `OutputExact`): they are evaluated on all small inputs. Of
`Fs` (`RefsExact`, `PutNeverBlocks`, `LinksCover`), `Blocks` (`BlocksOwned`), `Memory`
(`FramesExact`, `ImageExact`), `Console` (`OutputInOrder`, `LocksSafe`, `LineDiscipline`),
`Files` (`FilesExact`) and `Ticks` (`SleepExact`) the safety properties are model-checked only.

## Not modelled

- Boot, trap vectors and assembly touch registers only. The kernel's own page
  table is built once, before there is anything concurrent.
- System call dispatch is a table look-up; `trace` only sets a mask that is read
  when a line is printed. `uptime()`, `getpid()` and `fstat()` change nothing.
- `chdir()` and `mknod()` add no sharing that `Fs` does not have with `open()` and
  `create()`. A `readi()` whose copy to the user fails, which returns -1, is left
  out of `Blocks`.
- Formatting and string functions have no state. `grep`, `ls` and the other
  programs, `usertests` and `grind` are clients of the kernel.
- `mkfs` runs once on the host; its result is the initial state of `Fs`.
- The device registers that `virtio_disk_init()` and `uartinit()` set are taken as
  set. The list that `^P` prints, and the three bytes that erase a character on the
  screen (one in `Console`), do not matter to the properties.
- The shell's `cd` and prompt, and `init` starting the shell again.
- `p->q[]`, `nrun` and the other counters that are only printed are left out of the
  schedulers.

## Running

    tlc -workers 2 -config MCLog.cfg MCLog     # one run, in this directory
    tlapm LogProofs.tla                        # the proofs of one module
