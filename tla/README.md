# A TLA+ development for Ques-OS

Ques-OS is a small teaching kernel for x86-64: one core, a preemptive
round-robin scheduler with priorities, semaphores, pipes, two interchangeable
heaps, a console and a keyboard, a shell and a handful of programs. This
directory holds TLA+ models of the parts where order matters, the TLC runs that
check them and TLAPS proofs about the scheduler and its processes, the semaphores and
their lists, the pipes, the default heap, the dining philosophers and the terminal.

    tlc -workers 2 -config PMControl.cfg MCProcessManager.tla
    tlc -workers 2 -config Pipes.cfg     MCPipeline.tla
    tlc -workers 2 -config Heap.cfg      MCHeap.tla
    tlc -workers 2 -config SemTable.cfg  MCSemTable.tla
    tlc -workers 2 -config Terminal.cfg  MCTerminal.tla
    tlc -workers 2 -config Philosophers.cfg MCPhilosophers.tla
    tlapm ProcessManagerProofs.tla
    tlapm ProgramsProofs.tla
    tlapm PipelineProofs.tla
    tlapm ChannelProofs.tla
    tlapm HeapProofs.tla
    tlapm SemTableProofs.tla
    tlapm TerminalProofs.tla
    tlapm PhilosophersProofs.tla

## 1. The system

| part | source | state it keeps | operations | where |
|---|---|---|---|---|
| process manager, scheduler | `scheduler/processManager.c` | pcbs, process queue, current process, time slice, ready count, pid counter | start, exit, kill, block, resume, nice, yield, wait, Ctrl-C, timer | `ProcessManager` |
| init | `scheduler/initProcess.c` | its place in a pass over the queue | reap exited children, sleep | `ProcessManager` |
| semaphores | `semaphores/sem.c` | value and blocked pids; the table of semaphores | wait, post; open, init, close | `SemTable`, `Semaphores`; wait and post with the scheduler in `ProcessManager` |
| pipes | `pipes/pipes.c` | circular buffers, their semaphores and holders, `cachedPipe`, `allPipesSem` | open, write, read, close | `Pipeline` |
| pipe operator of the shell | `lib/shell.c` | where it is in `linkPipe` | open, start both ends, wait for both, close | `Pipeline` |
| readers and writers | `lib/commands.c`, `lib/stdio.c` | - | `cat`, `wc`, `filter`; any program that prints | `Pipeline` |
| linked queue | `lib/queue.c` | nodes, first, last, size | enqueue, dequeue, find, take, free | `LinkedQueue`; sequences in `ProcessManager` and `Pipeline` |
| heap | `memory_manager/memoryManager.c`, or `buddy.c` | free lists, block headers | malloc, free | `FreeList`, `Buddy`, `Heap` |
| dining philosophers | `lib/phylo.c` | the table, its gate | sit, eat, rest, add, remove, quit | `Philosophers` |
| keyboard | `drivers/keyboard.c` | modifier keys, stdin | a key press, a read | `Terminal`; Ctrl-C also in `ProcessManager` and `Pipeline` |
| console | `drivers/console.c` | the screen, the next position, the cursor | print, delete, scroll, clear, blink | `Console`, in `Terminal` |
| command line of the shell | `lib/shell.c` | the line, its tabs | read, edit, split, run, wait | `Terminal`, `CommandLine` |
| printf, register dump, boot, boot loader | - | - | text, start-up, third-party code | not modelled |

How they interact. A program enters the kernel with `int 80h`, through an
interrupt gate: a system call and an interrupt handler run with interrupts
disabled. They give up the processor only by calling `scheduleTask` (from the
timer, or by `int 20h` in `_callTimerTick`). So between two such points a call is
atomic, and what is left of it is a later step of the same process, after any
number of steps of others. Two things break that pattern and are in the models:
`endInterrupt` executes `sti` before `iretq`, so that a process that has just been
switched to can be preempted, or hit by Ctrl-C, before it goes on with the call it
waited in; and `init` is a process of the kernel that calls `waitpid` and
walks the process queue with interrupts enabled.

Processes meet in the process table (by pid), in the exit semaphore every pcb has,
in named semaphores and in pipes. Parents wait for children on the exit semaphore;
`init` adopts what loses its parent; the loop in `scheduleTask` is the only place
where a process is freed, and it also writes the end of file to the pipe the dead
process held.

What is hard, and so what the properties are about:

* state kept twice by hand: `readyCount` against the states, the queue against
  the processes, `pidCounter` against the pids, a pipe's semaphores against its
  buffer, its count against its holders, `cachedPipe` against the pipe;
* a wakeup lost, given twice or given to the wrong process, when the pids in a
  waiting queue belong to processes that have died since;
* death: a child that exits before, while or after its parent waits; a waiter that
  is killed between being woken and running; orphans; who frees what, once;
* pointers and pids kept across a blocking call (`waitpid`, `init`'s iterator);
* a full or empty buffer; an end of file that must not block;
* a heap's list searched and joined from wherever the last call left it;
* a semaphore closed under those who use it, or made when memory runs out in the
  middle; list nodes that belong to no queue any more;
* an interrupt handler that waits on behalf of whoever it interrupted;
* one screen that the shell, programs and the timer write to, while a deletion must
  find the line as it was typed;
* philosophers that are killed at the gate, asleep or eating, and neighbours that
  change;
* progress: the loop of `scheduleTask`, starvation, a shell that never gets its
  prompt back.

`PROJECT.json` lists these hazards line by line, with the properties that
cover each.

## 2. Modules

### ProcessManager

| state | code |
|---|---|
| `pcb[slot]` | the pcb at an address `malloc` may hand out: pid, ppid, foreground, priority, state |
| `queue`, `cur`, `cycles`, `readyCount`, `pidCounter` | the static variables of `processManager.c` |
| `mode` | `"scan"` inside the loop of `scheduleTask`, which is one step per iteration |
| `sem[x]` | value and blocked pids of an exit semaphore or of one the programs share |
| `cont[slot]` | what a process has left to do in the kernel: return from `waitpid`, or (init) wait for a process it found |

Functions that call each other in the middle of a step (`changeState`,
`semPost`, `sendTaskToInit`, `terminateChildren`) are operators on the part of the
state they change, `k = [pcb, sem, ready]`; each system call composes them in the
order of the code and ends in a scheduling decision. `Slot` is the set of
addresses, so that a pcb can be freed and its address used again under
a pointer that `waitpid` still holds (`ReadPid`: whatever is there now is read).
The do-while loops that skip the last process of the queue are modelled as they
are (`Visited`). Actions: `Scan` (`ScanRun`, `ScanSkip`, `ScanFree`), `Tick`,
`CtrlC`, `StartTask`, `StartTaskFails`, `Exit`, `KillTask`, `BlockTask`,
`ResumeTask`, `Nice`, `Yield`, `SemWait`, `SemPost`, `Waitpid`,
`WaitpidReturn`, `InitFind`, `InitWait`, `InitSleep`.

`init`'s iterator is abstracted: a pass looks at processes that are in the queue when it
looks, in any order (`InitFind`), and can be preempted between two of them and while it
is blocked in `waitpid`. It runs with interrupts enabled, so the code can be preempted
in more places, which the model leaves out: inside `toBegin`, `next` and `malloc`; inside
`waitpid`, between finding the child, `semWait` and its pid (`InitWait` is one step);
and while the iterator stands on a node that `dequeue` frees meanwhile (queue.c:66),
where it goes on from whatever lies there. `sleep` is a yield; time is not modelled.

`Calls` selects the workload: which system calls programs make. Two refinements of
it matter. Without `"waitany"` programs wait for their own children only, and
without `"rewait"` not for one that has been reaped.

Left out: descriptors other than the console (see `Pipeline`), the stack and the
arguments of a new process beyond the failure of their allocation, and memory
exhaustion elsewhere: here, as in `Pipeline`, `Philosophers` and `Terminal`, a `semWait`
or `semPost` has the memory it needs (the iterator of `find`, a pid and its node). What
happens when it has not is the subject of `SemTable`.

### Channel and Pipeline

`Channel` is what a pipe promises: a first-in first-out channel with room for
`Capacity` bytes, ended by one end of file. `Pipeline` is `pipes.c` with its users:
the shell in `linkPipe`, one writer and one reader per pipeline, the
scheduler that frees the dead, and Ctrl-C.

| state | code |
|---|---|
| `pipe[j]` | `t_pipe` of pipeline j: holders, buffer, indices, its two semaphores |
| `cached`, `allPipes` | `cachedPipe`, `allPipesSem` |
| `state[p]`, `running` | process states and the running process, the scheduler of `ProcessManager` seen from outside: any ready process may be next |
| `call[p]` | the rest of a read or write that waits |
| `shell` | where the shell is in `linkPipe` and which pipelines were typed, in the foreground or not |
| `out[j]`, `in[j]` | history: bytes stored in and taken from the pipe |

Actions follow the system calls: `Put`, `PutReturns`, `Get`, `GetReturns`,
`Exit`, `CtrlC`, `InitReaps`, `Free`, `ShellOpen`, `ShellOpens`, `ShellStartWriter`,
`ShellStartReader`, `ShellKillsWriter`, `ShellWaits`, `ShellClose`, `Tick`,
`Dispatch`. `Faults` selects what may go wrong: `"nomem"` (an allocation in
`pipeOpen` or `startTask` fails), `"ctrlc"`, `"deaf"` (a reader may end before the
end of file, as a program that does not read does) and `"full"` (a writer may end
while its pipe is full). Without `"full"` the guard `Fits` keeps a writer from ending
on a full pipe in whatever way: by returning (`Exit`), by Ctrl-C (`CtrlC`), or when the
shell kills it because the reader cannot be started (`ShellKillsWriter`). Of the
allocations, that of `createPipe`'s `enqueue` (pipes.c:199) always succeeds; failing, it
would leave a pipe that is in no queue: `getPipe` finds it for nobody, and the next open
makes another.

`Pipeline` refines `Channel` (`PipesAreChannels`) with `out` and `in` as the
refinement mapping, in the calm case and with every fault except `"full"`.

### Memory, FreeList, Buddy and Heap

`Memory` is what malloc and free promise: bytes that nobody else holds, until they
are given back. `FreeList` is `memoryManager.c`, `Buddy` is `buddy.c`; `Heap` puts
either behind the one interface of `memoryManager.h`, as the build does, and lets
programs call malloc and free in any order. `HeapInterface` declares what both share.

| state | code |
|---|---|
| `held[c]` | the block each pointer of a program holds: first byte and size asked for |
| `header[u]`, `free_node` | the `Header` at each unit of 16 bytes and the node where the next search begins; `Node` follows the list from it |
| `orders[o]`, `node[a]` | the list of free blocks of each order and the `list_t` at each address |
| `mm` | which heap the kernel was built with |

malloc and free are one step each: they are called in the kernel, with interrupts
disabled. The one exception is `init`, a process of the kernel that allocates (in `toBegin`
and in the `semWait` of its `waitpid`) with interrupts enabled; a call of it that is
preempted half-way is not modelled. The search loops are the sets `Found` and `Stops`, of which the code
takes the first. Headers that the code does not read again are cleared in
`FreeList`, so that states that differ only in them are one. A program frees each
block once; what the code does with other addresses is not modelled.

Both heaps refine `Memory` (`HeapAllocates`), with the bytes of a block as the
code hands them out.

### LinkedQueue, Semaphores and SemTable

`LinkedQueue` is `queue.c`: `mem` maps an address to its node, a queue is
`[first, last, size]`, and its operators give the memory and the queue after
a call; `Links` is the iterator, which follows the links whatever the size says, and
`Room` whether malloc has an address left. `Semaphores` is what `sem.c` promises: counts
with their sleepers in order of arrival, the killed passed over. `SemTable` is the table of
semaphores on linked
queues, with its clients:

| state | code |
|---|---|
| `mem`, `semQueue` | the nodes of all queues; the queue of the table |
| `sems[i]` | the `t_sem` with identifier i: value, lock, name, how many are attached, blocked pids |
| `semId`, `missed` | `semId`; history: the names whose semaphore `find` has missed |
| `at[c]`, `id[c]`, `left[c]`, `aux[c]`, `global` | a program in `my_process_inc` of `test_sync.c`, the semaphore it was given, its rounds, its copy of the counter; the counters |

Actions: `SemOpen`, `SemInit`, `SemClose`, `SemWait`, `SemPost`, `Read`, `Kill`.
Openers share a semaphore by name (two spellings of one name, as `strcasecmp`
compares); an owner makes one without a name, hands it to guests, as `phylo` does,
and may close it while they wait. A system call is one step, for it runs with
interrupts disabled. `Faults` names the mallocs that may fail, and the model has what the
code does then:

| fault | malloc | what follows |
|---|---|---|
| `"sem"`, `"name"` | the `t_sem`, its name (sem.c:309, 317) | `createSem` gives up; the second uses up an identifier |
| `"queue"` | its queue, in `initQueue` (sem.c:316) | not looked at: the semaphore is handed out without a queue, and whoever blocks on it or posts to it halts |
| `"node"` | the node of an `enqueue` (queue.c:72) | not looked at. In `createSem`: the semaphore is not in the table. In `semWait`: the caller is blocked in no queue |
| `"pid"` | the pid that waits (sem.c:122) | `semWait` lets the caller go on and leaves the lock taken, on which the next caller halts |
| `"iterator"` | the iterator of `find` (queue.c:106) | a semaphore that exists is not found: `semOpen` makes a second one of its name, `semWait` lets the caller in, `semPost` and `semClose` do nothing |

`"halts"` is where nothing goes on: a lock nobody can release while its caller spins with
interrupts disabled, or a queue at address 0 (where the descriptors of interrupts are). The history
`missed` has the names whose semaphore `find` has missed, for which little can be
promised any more. The queue of the table itself, allocated once at boot by
`initSemSystem`, is taken to exist.

`SemTable` refines `Semaphores` (`SemaphoresPromised`): the table is what the
iterator finds in the queue, the sleepers of each what it finds in its `blocked`.
Nothing is closed on behalf of a killed process, so a semaphore it had taken stays
taken; that is what `kill` does, and the properties allow for it.

### Philosophers

| state | code |
|---|---|
| `at[p]` | where a philosopher, the printer of the table or `phylo` is: outside the gate, at it, inside, asleep on its own semaphore, eating |
| `state[i]`, `sem[i]` | `philosofers[i].state`, and the value of `philosofers[i].semId` |
| `gate` | `gateMutex` |
| `n`, `freed` | `currentPhilosofers`, and how far the loop after `q` has come |

`EnterGate`, `Sit` and `Rest` are a philosopher, `PrintPlates` the printer; `SetUp`,
`StartPhilosopher`, `StartTable`, `KeyAdd`, `AddPhilosopher`, `AddFails`,
`KeyRemove`, `RemovePhilosopher`, `KeyQuit`, `QuitFrees`, `QuitEnds` and
`SetUpFails` are `phylo`. What a process does inside the gate is one step with the
`semPost` that leaves it, because meanwhile others can only queue up. The two
calls at the end of `philoWait`, `semPost(gateMutex)` and `semWait` on the own
semaphore, are one step too: a grant that comes between them has the effect of one that
comes after.

Each personal semaphore is made with value 1, so that every philosopher has one meal
to come that `testEat` does not grant. `MealsGranted` says that it is one and does not
come back, and `NeighboursApart` is about the others.

### Console, CommandLine and Terminal

`Console` (the screen as `[cell, x, y]`) and `CommandLine` (a line cut into words, and
what to run) are the pure parts of `console.c` and `shell.c`. `Terminal` puts them
together with the keyboard, the user and programs:

| state | code |
|---|---|
| `screen`, `cursorActive` | video memory with one row behind it, `currPos`; `cursorActive` |
| `shift`, `ctrl` | `shiftFlag`, `controlFlag` |
| `stdin` | the pipe of `keyboard.c`: the characters the next reads return, in order, and its two semaphores |
| `state[p]`, `pending[p]` | process states; the character that a process interrupted by a key has still to store |
| `input[r]` | where a process is in `readStdin` |
| `shell` | where the shell is in `runShell` and `getCommandLine`, its line, and the places behind it where an earlier line left a tab |
| `foreground` | the programs Ctrl-C may kill and the shell waits for |

A key (`ShiftKey`, `CtrlKey`, `PressKey`) is handled on behalf of whoever runs.
With stdin full that process is blocked and stores the character later
(`StoresPending`); idle cannot be blocked and stores it at once without a unit,
which leaves `writeSem` one too high for good (`idleKeys` counts this). The shell is
`ShellBoots`, `ShellPrompts`, `ShellReads`, `ReadReturns`, `ShellEdits`, `ShellRuns`,
`ShellWaits`, `ShellWaited`; a program is `JobReads`, `JobEchoes`, `JobPrints`, `JobEnds`;
the timer is `Blink`. A post hands its unit to the first waiter that is not dead
(`Handover`), or counts it. `typed`, `printed`, `idleKeys` and `clean` serve the bounds and
the properties. The cursor is an underscore on the screen; in the model `CursorChar` is told
from an underscore that is typed, so that `NoStrayCursor` can say which of them is left behind.

## 3. Runs

| run | question | bounds |
|---|---|---|
| `pm_control` | Is the bookkeeping exact whatever programs do to each other? `ReadyCountExact`, `ScanFinds`, `QueueExact`, `PidsDistinct`, `SemSound` | 2 programs beside idle, init and shell; pids to 5, so that one address is used twice and a pid is given back; two waiters per semaphore |
| `pm_programs` | For programs that only start and wait for their children: no lost or misdirected wakeup (`BlockedIffWaiting`), no lost exit (`ExitNotLost`), no living process freed (`OnlyDeadReaped`), no orphan left with a dead parent (`OrphansAdopted`) | 3 programs, so that there are grandchildren; pids to 6 |
| `pm_reaping` | Is everything init adopts freed? `ZombiesFreed` | 2 programs |
| `pm_fair` | Does every ready process run, with priorities from 0 to 2? `NoStarvation` | 1 program beside the shell, blocking, resuming, renicing |
| `pm_init_stuck` | (violation) does init go on when a waiter is killed? `InitKeepsReaping` | 2 programs |
| `pipes` | Does a pipe live exactly as long as it is held (`PipeHeld`), and do its semaphores account for its buffer (`UnitsConserved`), with every fault but `"full"`? | 2 pipelines, 2 bytes per writer, capacity 1 |
| `pipes_end` | Is a pipe a channel (`PipesAreChannels`), is what was written read (`PipeDrained`), does the prompt come back (`PromptReturns`)? | 1 pipeline, 3 bytes, capacity 2, so that the indices wrap and the buffer fills |
| `heap` | Is either heap an allocator (`HeapAllocates`)? Do free and given blocks tile it (`Tiled`), is the free list ordered and joined (`ListOrdered`), does malloc refuse only when there is no room (`RefusesOnlyIfFull`)? | 256 bytes, 4 blocks at a time of 8, 17, 40 or 100 bytes: 2, 3, 4 or 8 units in the free list, orders 1 to 3 of the buddy heap; every block can have free or used neighbours on both sides, and both heaps fill up |
| `heap_exhausted` | (violation) `BlocksApart` when malloc takes all of the last free block | 96 bytes |
| `philosophers` | Is the gate never lost and never given twice (`GateHeldOnce`), is nothing left behind by failed starts, removals and the end (`TableCleared`), is there but one meal without leave (`MealsGranted`), do neighbours come to eat together only by a removal (`NeighboursApart`), does philoRest wake whom it should (`NobodyForgotten`), is somebody always awake (`SomebodyAwake`)? | 3 seats that are always taken and a fourth that comes and goes, so that neighbours change and the wrap of `LEFT` and `RIGHT` moves |
| `semaphores` | When any malloc of `sem.c` and `queue.c` may fail: are the linked lists in order and no node lost (`QueuesSound`)? Does an opener keep its semaphore, and are those who have it open counted right (`OpenedStays`)? Is the counter of `test_sync` right (`FinalValue`)? Is nobody left asleep but by the owner's close or without a node (`StrandedByCloseOrMemory`)? Are these counting semaphores (`SemaphoresPromised`)? | any 3 of 3 openers, an owner and 2 guests: two sleepers in one queue, dead or alive, a table of three; all six faults at any call, with `MaxFailures = 1` of their traces about at a time |
| `terminal` | Is the line on the screen the line that will be run (`LineShown`)? Is no cursor left behind (`NoStrayCursor`)? Do the semaphores of stdin account for its characters (`StdinUnits`)? | a screen of 4 by 2, a prompt of 2 and a line of 3 characters, so that a line crosses a row, scrolls, fills up and is deleted back across the row; stdin of 1; 4 keys, one program |

`philosophers`, `semaphores` and `terminal` do not check for deadlock:
the table is closed, the programs have ended, halt or wait for a key, the bound on keys is reached.
`LineShown` speaks of the time from the prompt until somebody else prints or a tab is
deleted, where the code does not keep the screen in step.

Bounds are constants named in the modules: `MaxPid`, `MaxSem`, `MaxWaiters`
(guards of `ProcessManager`), `MaxPrio` (the code's `MAX_PRIO`), `Capacity` (the
code's `PIPE_BUFFER_SIZE`) and `MaxOut`. Addresses of programs, pipelines and
bytes are symmetric; the runs with liveness properties use no symmetry. The pipe
runs do not check for deadlock: once all pipelines were typed nothing has to happen.
`pm_control` has no shared semaphore and no `nice`: their steps are in
`pm_programs`, `pm_reaping` and `pm_fair`, and the proofs cover them with everything
else. In `heap` the bound `Exhaust = {}` keeps programs from using up the lowest
free block, the one the heap began with, to the last unit: what happens then is in
`heap_exhausted` (`{"last"}`, it was the only one) and `HeapLowest.cfg`
(`{"lowest"}`, there were others). The other blocks are taken exactly in all three.

In `semaphores` the bound `MaxFailures` (a constraint, `FewFailures`) says how much failing
mallocs may have left behind at a time: names that were missed, sleepers in no queue,
semaphores that are locked, without a queue or outside the table. A failure that leaves nothing
behind is not counted. A second one beside the first is in the proofs, which have no bound.
`SemCrowd.cfg` has the same properties of any five of these programs with memory for all of
them, where three wait in one queue and two semaphores are in use at once; TLC finds no error.

Every property has a mutant: a faulty form of a definition (the operators whose name
begins with `Bad`, next to the definition they replace) under which TLC finds the
property violated.

Two runs end in a violation, each against a comment or a test of the source:

* `pm_init_stuck`: a process killed between being woken in `waitpid` and marking
  its child takes the only unit of the child's exit semaphore with it; init blocks on
  that semaphore for ever and reaps nobody else.
* `heap_exhausted`: when the list has one block and malloc takes all of it,
  `prev->data.next = current->data.next` links the block to itself; the next malloc
  hands it out again. `test_mm` would find its blocks overwritten.

Besides, five configurations give counterexamples to read; each asks for a property beyond
what the listed runs claim, or under a workload they leave out:

* `PMOrphans.cfg` (`OrphansAdopted`, with `"waitany"`): `sendTaskToInit` and
  `terminateChildren` test `hasNext` after `next` and never look at the last process of
  the queue.
* `PMResume.cfg` (`OnlyDeadReaped`, with `"resume"`): `semWait` does not check again
  after it was blocked; a resumed waiter frees a living child.
* `PipesFull.cfg` (`ReadInOrder`, with `"full"`): the scheduler writes the end of file on
  behalf of the dead writer, which `semWait` cannot block; in a full buffer it replaces
  the oldest unread byte.
* `HeapLowest.cfg` (`BlocksApart`, with `"lowest"`): once the start of the heap is in use
  there may be one free block with used ones below it. It is linked to itself. When the
  block just below it is given back, free joins the two, takes the next of the block that
  disappears, which is that block, and links it in behind the joined one: the memory is
  in the list twice, and malloc hands it out twice.
* `PhilosophersEat.cfg` (`NeighboursNeverEat`): the first meal of a philosopher needs
  no leave.

## 4. Fairness

`ProcessManager`: `WF(Scan \/ Tick)`, the timer and the loop of `scheduleTask`,
which nothing can hold up. `SF` on `InitWait`, on init's return from `waitpid`
and on `InitFind(s)` for each s: init gets the processor again and again, and a time
slice (55 ms) is longer than the few instructions to its next call, so that it is not
preempted at the same point for ever; a pass of init looks at every element of the
queue. Programs have no fairness: they may run for ever without a system call. With
it, a process that is ready all the time runs (`NoStarvation`) because of the
round robin itself, not because of an assumption.

`Pipeline`: the scheduler is abstract here, so its fairness, shown by
`NoStarvation`, is assumed: `SF` on `Dispatch(p)`. A writer has finitely many bytes
to print and then returns; a reader reads on; init and the scheduler get to each dead
process (`SF` on `Reap(p)`, shown by `ZombiesFreed`). Ctrl-C and the user's typing
have no fairness.

`Philosophers`, `SemTable`, `Terminal` and the heaps assume none: what is said of them
is safety, and what a step may do.

## 5. Proofs

`ProcessManagerProofs` proves, for any finite set of addresses, any number of
semaphores, any bounds and any workload `Calls` (assumptions `SlotAssumption` and
`BoundAssumption`):

| theorem | property |
|---|---|
| `TypeCorrect` | `TypeOK` |
| `ReadyCountCorrect` | `ReadyCountExact` |
| `SchedulerFindsReady` | `ScanFinds` |
| `QueueCorrect` | `QueueExact` |
| `PidsUnique` | `PidsDistinct` |
| `SemaphoresSound` | `SemSound` |

None of these is inductive alone. The inductive invariant `IInv` says of the
tables that they are `Good` (typed, `ready` is the cardinality of the set of ready
processes, idle is ready and keeps its pid, no semaphore has both units and waiters),
that pids are distinct and below `pidCounter`, that the queue lists every
live process but idle and the running one exactly once, and that in
the loop of `scheduleTask` the running process is not idle and some process is ready.
The clause on idle is what keeps `readyCount` exact: idle is not counted, so no
operation may change its state; and nothing can because idle's pid is found only
while it runs, when no program does. The proof goes in two layers: each
operator on tables (`SetState`, `Post`, `SendTaskToInit`, `TerminateChildren`,
`Freed`) keeps a table `Good` and its processes at their addresses; each scheduling
decision keeps the queue.

`ProgramsProofs` goes on from `IInv` for programs that keep to themselves: `Disciplined`
says that `Calls` has none of `"ctrlc"`, `"kill"`, `"block"`, `"resume"`, `"waitany"` and
`"rewait"`. They start children, wait for each of them once, exit, renice, yield and share
semaphores, in any number, at addresses and with pids that are used again. What goes
wrong with some of the other calls is in `PMOrphans.cfg`, `PMResume.cfg` and
`pm_init_stuck`.

| theorem | property |
|---|---|
| `NoWakeupLost` | `BlockedIffWaiting` |
| `NoExitLost` | `ExitNotLost` |
| `NoOrphans` | `OrphansAdopted` |
| `OnlyTheDead` | `OnlyDeadReaped` |

None of the four can be proved alone: that the right process is woken for a child needs
that nobody else waits for it, that needs the family tree to be one, and that needs
`sendTaskToInit` to find every child. The inductive invariant `PInv` has four bonds
between processes (`Sleepers` and `Once`: who is blocked is in one queue, for the reason
its `cont` names; `Waits`: whoever is in `waitpid` is the parent of what it waits for;
`Exits`: where the unit of an exit is; `Family`: parents are older than their children and
are there until init takes their place) and the order of the scheduler's ring. That
`Order` answers the question the code raises: the do-while loop of `sendTaskToInit` never
looks at the last process of the queue, which could be a child of the dead. It cannot:
the dead one, its parent that runs, and the child would stand in the ring so that the
parent, between child and dead in the turning order, were not older than the dead
(`ChildrenVisited`). New processes join at the end, the scheduler only turns the ring
(`OrderTurned`), and freeing takes its first (`OrderFree`). The steps are a `...Move`
lemma each; most of them go through `Moved`, which puts a change of the table and the
scheduler's decision together. That the invariant is inductive in the steps that change
the ring and the family was checked with TLC first.

`PipelineProofs` proves, for any pipelines, capacity, set of bytes and `Faults`
(assumptions `CapacityAssumption`, as `PIPE_BUFFER_SIZE` is positive, and
`ValueAssumption`: the end of file is not a byte a program prints):

| theorem | property |
|---|---|
| `PipelineTyped` | `TypeOK` |
| `PipesHeld` | `PipeHeld` |

The invariant `Base` adds to the types where the shell can be in `linkPipe` with which
processes (`ShellOK`), who may run and what a call in the middle was about (`RunningOK`,
`Calls`), that a pipe nobody opened is untouched (`Fresh`), that each sleeper is in the
queue of the semaphore it called (`Sleepers`), and that a pipe's count is the number
of its holders that have not been freed (`Counted`).

`ChannelProofs` proves from it, under the hypothesis `"full" \notin Faults`:

| theorem | property |
|---|---|
| `UnitsAlwaysConserved` | `UnitsConserved` |
| `PipesImplementChannels` | `PipesAreChannels`, the refinement of `Channel` |
| `ReadsInOrder` | what was read is a beginning of what was written |

The hypothesis is what the code needs: the scheduler writes the end of file on behalf of a
dead writer, which cannot be blocked, and in a full buffer that overwrites a byte
(`PipesFull.cfg`). Covered are Ctrl-C at any moment but while the writer's pipe is full, readers
that do not read, and failing allocations. The invariant `Chans` counts the units on each side
of the buffer, among them those in the hands of a process that was resumed and has not gone on, or died
there, and gives the places of the circular buffer as remainders of how many bytes were
ever stored and taken. The refinement goes step by step: a `Put` or the end of file that
finds room sends, a `Get` that finds a byte receives, everything else stutters.

`PhilosophersProofs` proves, for any `MAX_PHILO` and `INITIAL_PHILO` (assumption
`SeatAssumption`: at least two philosophers, as in phylo.c, and seats for them) and
whether or not `semInit` and `startTask` fail:

| theorem | property |
|---|---|
| `PhilosophersTyped` | `TypeOK` |
| `GateNeverLost` | `GateHeldOnce` |
| `TableAlwaysCleared` | `TableCleared` |

`GateHeldOnce` is not inductive: a `semPost` moves the first that waits to the place
its own code has for it, and that place is inside the gate only if it is still where
it asked to be let in. The inductive invariant `IInv` therefore says of the gate that whoever
waits is there or dead and waits once, that never two are inside, and that none is
while its value is 1; and of the table (`Phases`), for each place of `phylo`, how many
philosophers there can be, that they are the living ones, and whose semaphore exists.
Two lemmas carry all the steps: `LeaveStep` for those that end in
`semPost(gateMutex)`, over `LeaveGateKeeps`, and `KeepGateStep` for those that do not
touch the gate. `testEat` matters only in that it creates no process
and no semaphore (`TestEatKeeps`), and that `LEFT` and `RIGHT` stay among the seats
(`NeighbourSeats`). That a step keeps this invariant was also checked with TLC on the
instance of the run `philosophers`.

It goes on to who eats when:

| theorem | property |
|---|---|
| `MealsAreGranted` | `MealsGranted` |
| `NeighboursStayApart` | `NeighboursApart` |
| `NobodyIsForgotten` | `NobodyForgotten` |
| `SomebodyIsAwake` | `SomebodyAwake`, for `INITIAL_PHILO >= 3` |

`MInv` adds to `IInv` what a philosopher's place, its `state` entry and the value of its
semaphore say of each other (`Meals`: a grant is a unit on the semaphore or a meal being
eaten), and how far newcomers are (`Arriving`). Each step is one who sits down, one
who puts the forks down, or is quiet about the meals. `SomebodyIsAwake` is the one that is
not local: a philosopher can be forgotten, hungry between two that do not eat, when its
neighbour is removed, so the argument looks at seat 1, which keeps its neighbours 0
and 2 because the table never shrinks below `INITIAL_PHILO` (`Remembered`). With
`INITIAL_PHILO = 2` it would be false; the code has 5.

`HeapProofs` proves of the default heap, for any size of the heap, any set of pointers
and any sizes asked for (assumption `RequestAssumption`: nobody asks for 0 bytes, for
which malloc returns NULL before it does anything):

| theorem | property |
|---|---|
| `NothingLost` | `Tiled` |
| `ListStaysOrdered` | `ListOrdered` |
| `NeverRefusesWithRoom` | `RefusesOnlyIfFull` |
| `DefaultHeapAllocates` | `HeapAllocates`, the refinement of `Memory` |

beside the types (`HeadersTyped`) and `BlocksApart` (`BlocksStayApart`). The hypotheses
are the build (`Builds = {"STANDARD"}`, which `ListStaysOrdered` does not need) and
`Exhaust = {}`, without which `heap_exhausted` and `HeapLowest.cfg` are the
counterexamples; the second was found when the proof of free needed a lowest free block
at the start of the heap. `DefaultHeapAllocates` also takes a heap of a whole number of
headers, as `HEAP_SIZE` (0x100000 in `kernel.c`) is: `header_blocks` rounds up.

The inductive invariant `HInv` says what the list is without following it: the headers
with a size are where the blocks begin, each ends where the next begins (`Tiles`);
each pointer holds a block of its own that is long enough (`GivenOut`); the others are a
ring in the order of addresses that begins at the start of the heap, no two of them
touching (`Ring`). TLC checked that it is invariant before it was proved. The properties
and the code do follow the list, by `Node`, a recursive function on the natural numbers.
Facts about it are proved by the least counterexample (`Least`, which
is the well-foundedness of `<`): that it exists and unfolds (`WalkExists`, `NodeFacts`), that
from any free block it reaches every higher one (`Climbs`), and so that it comes by
every free block in one turn (`NodesAll`). From these: a search that comes back to where it
began has seen every block (`RefusesOnlyIfFull`), and the search of free stops at a node whose
next is the first free block above (`PlaceFound`). malloc is then two lemmas, for a block
that is taken whole or gives its tail (`MallocExact`, `MallocSplit`), free is three: what
the block is after it was joined with the one above (`UpperJoined`), and after it was joined
with the one below or linked behind it (`FreeJoined`, `FreeApart`).

`SemTableProofs` proves, for any processes, spellings of names, amounts, rounds, number
of addresses and `Faults` (assumptions `ProcessAssumption`: finitely many processes, each
with one role; `NameAssumption`: semOpen is given a name, and `strcasecmp` tells it from
none; `CounterAssumption`: there is a round to do; `NodeAssumption`: addresses are
numbers, finitely many):

| theorem | property |
|---|---|
| `TypesHold` | `TypeOK` |
| `QueuesStaySound` | `QueuesSound` |
| `OpenedHolds` | `OpenedStays` |
| `CountersExact` | `FinalValue` |
| `OnlyCloseOrMemoryStrands` | `StrandedByCloseOrMemory` |
| `SemTablePromises` | `SemaphoresPromised`, the refinement of `Semaphores` |

What each allows for the six faults: `QueuesSound` and `SemaphoresPromised` hold through all
of them, for a call that fails is an operation on the lists or none. `TypeOK` bounds a value
by 1, and `OpenedStays` counts the users of a semaphore, until `find` has missed its name;
that the semaphore of an opener is not destroyed under it holds regardless, because missed
calls can only leave `attached` too high. Openers of a name share one semaphore while it is
`Intact`: not missed, and none of its semaphores outside the table. `FinalValue` needs beside
that a free lock, as the code lets a caller in when it leaves the lock taken. These conditions
are about one name; failures for others do no harm. `StrandedByCloseOrMemory` has the
sleeper without a node as its second alternative.

It goes in three layers. The lowest is `queue.c`. `Chain(m, q, s)` says that s is the list of
the nodes of queue q in memory m: distinct, linked in that order, `first`, `last` and
`size` in agreement. It is what the iterator walks (`ChainLinks`, `ContentsOf`), which is how
facts about the recursive function `Links` are had. `Laid(m, qs)` says that the queues qs
share m, no node in two of them and none left over; enqueue, dequeue, takeElement and freeQueue
keep it and change the contents of one queue as a list should (`EnqueueLaid`, `DequeueLaid`,
`TakeLaid`, `DropLaid`). That `last` keeps a freed address when dequeue empties a queue is allowed
by `Chain`, and harmless because enqueue looks at `size` first.

The next layer is the table, `TableInv`: its queue and those of the semaphores are laid
out, the table lists existing semaphores, each once, and every identifier was given out.
Each call of `sem.c` is restated as what it does to the table and to the contents of the queues
(`NewSem`, `GoneSem`, `SemChanged`, `NoSem`), with no node in sight; for semPost that takes
a least-counterexample argument over its loop of dequeues (`DequeuesExist`). `Does` is
`Next` in these terms (`NextDoes`).

The last layer is the processes, `ClientInv`: where each can be with which identifier
(`StagesInv`); no more identifiers than processes that have opened (`CrewInv`); the pids in
a queue are those of processes asleep there or killed there, each once (`WaitersInv`); which
semaphore a name means (`NamesInv`); that `attached` lies between the number of those who use it now
and of those who ever did (`UsersInv`, with `Users` and `Ever`); at most one process is inside a
semaphore whose lock is free, and none while its value is 1 (`ValueInv`); and whoever
left the lock of a named semaphore taken never closes it (`LockInv`). While a name is not in
`missed` (`Sure`) its semaphore is the only one in the table, `attached` is the number of users,
and the last two hold; once it is, the bounds are what remains, and they are enough for nobody
to destroy a semaphore in use. `IInv == TableInv /\ ClientInv` is inductive (`IInvHolds`);
most of its parts are not alone: semPost hands the unit to the first living pid, which has to be
asleep on that very semaphore, and the last user of a name has to be the one who closes it.

`CountersExact` adds `CountInv`: the sum of a name, and what a writer has read of it, are right
(`Exact`) as long as the name is in order (`InOrder`): not missed, all its semaphores
in the table and none with its lock taken. The lemma `OrderWas` shows that a name once out of order
never comes back, so that an addition lost
then never shows in a name that is in order. What `FoldSet` adds up is found by the least
counterexample over the cardinality of the set (`SumsExist`, `SumChange`).

`TerminalProofs` proves, for any screen at least two columns wide, any keyboard, prompt, line
length, size of stdin and `Faults` (assumptions `ScreenAssumption`; `TerminalAssumption`; and
`NamesAssumption`: there are finitely many jobs, the prompt is text without control
characters, and no key types the cursor of the model):

| theorem | property |
|---|---|
| `TypesHold` | `TypeOK` |
| `LineStaysShown` | `LineShown` |
| `NoStrayCursorHolds` | `NoStrayCursor` |
| `StdinUnitsHold` | `StdinUnits` |
| `StdinStaysSound` | (the invariant `Units`) |

The inductive invariant is `Units /\ Cursor /\ Line`; each part rests on those before it.

`Units` is about stdin. `StdinUnits` counts units that are due to processes that have been
resumed, which says nothing of who they are; what makes it inductive is who may wait and
where. Nobody but idle is twice in a queue, and whoever is there was stopped in just that call or
handler, or has been killed in it (`Waiters`). The shell and the living job in the foreground
are never both in a read, because the shell reads only when no job in the foreground
lives (`Fronts`). Without the first, a post could hand a second unit to a process that has one;
without the second, two readers could be due one character. A step is then a change of one unit
(`SameDue`, `OneMore`, `OneLess`, `CountSteps`), and `DeathUnits` is where Ctrl-C takes one away: the
bounds of `Between` differ by the dead.

`Cursor` adds what `NoStrayCursor` needs of the order of events. `Tidy` screens have the cursor
at the next position only, `Bare` ones have none. `deleteChar` moves the position back and draws there,
so that it would leave a cursor behind on a screen that is not bare: whoever has got a
character, which may be a deletion, finds a bare screen and a cursor that does not blink, until
it has echoed it. The same holds of the shell until it has cleared the screen. That nobody
starts the cursor meanwhile is `Fronts` again.

`Line` is `LineShown` and that the line is empty when it is prompted for. `Shows(s, t)` counts
places back from the next position through the rows; scrolling and drawing a cursor keep it
(`ScrolledShows`, `DrawnShows`), `WriteChar` adds to the text (`WriteShows`), and `deleteChar` takes its
last character off, also in the first column (`DeleteShows`). For that quotients and remainders by
the width of the screen have to be known (`Address`, `PlaceIs`).

The model prints and shows by `FoldLeft`. What such a fold does is had by the least
counterexample over sets of numbers: the function that it chooses exists (`FoldsExist`), and passes
through the sequence place by place (`Course`, and `PrintAllCourse`, `WriteAllCourse`,
`BlanksCourse`, `TextCourse`), so that what every step keeps the fold keeps (`StaysWithin`).

Model-checked only: the buddy heap (the sizes of its blocks are powers of two, of which the
provers know nothing), so also `TypeOK` of the heaps, which speaks of both; and all liveness
properties (`NoStarvation`, `ZombiesFreed`, `PipeDrained`, `PromptReturns`), for liveness under
fairness is out of the prover's reach.  The induction theorems of the library are too, for they take an
operator as a parameter; the least counterexample stands in for them where the recursion is
over numbers, or over a set of them.

## 6. Not modelled, and next

Not modelled: printf, scan and the other conversions of text, colours, the register
snapshot of Ctrl-R, loading and boot, the boot loader and the tool chain, time. The
reasons are in `PROJECT.json`. In the parts that are modelled: a line of the shell
with more than `MAX_ARGS` words, the byte that a full line writes behind the buffer, the
prefix E0 of the keyboard, and the scan codes behind its tables that a key released
with control held reads; a failing `enqueue` in `createPipe`; failing mallocs inside `find`,
`semWait` and `semPost` outside `SemTable`; and what preemption inside the calls of `init` can
do, to its iterator and to a malloc half done.

Left for later:

1. Proofs: `Tiled` and the refinement of `Memory` by the buddy heap, for which the powers of
   two have to be characterised first.
2. Text: `_itoa`, `_atoi`, `strToHex` of the user library and `intToStr` of the kernel,
   against the numbers they stand for.
3. The process queue of `ProcessManager` as a `LinkedQueue`.
