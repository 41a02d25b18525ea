# TLA+ models of the DIY OS kernel

The repository is a small x86-64 operating system: a boot sector, a 32-bit
loader kernel that builds page tables and enters long mode, and the kernel
proper in `src/02.Kernel64/src`. It runs on one processor. These modules model
the parts of the kernel that keep state over time and whose correctness depends
on the order in which things happen or on arithmetic at a boundary: how it comes
to own its memory, tasks, address spaces, program loading, keyboard and shell.
Paths below are relative to `src/02.Kernel64/src`.

## 1. Inventory

Who can interrupt whom decides what an atomic step is. All gates are interrupt
gates (`descriptor.c`), so the timer handler, the page-fault handler and system
calls run to their end with interrupts off. Kernel threads (the boot flow that
becomes the shell, the idle task, the test tasks) run with interrupts on, except
in sections bracketed by `kSetInterruptFlag`; the timer can take the processor
from them between any two instructions.

| Part | State | Operations | What makes it correct |
|---|---|---|---|
| Scheduler (`task.c`, `interrupt_handler.c`) | five ready lists, per-level counts, wait list, running task, slice, CR3, TSS.rsp0 | tick, `kSchedule`, `kExitTask`, create, fork, `kEndTask`, `kChangePriority`, idle reclaim | every live task is queued once, where its flag says; a ready task is always found and gets its turn; CR3 names a live table |
| Task life (`task.c`, shell commands) | TCB pool, IDs, stacks, use count | `kCreateTask`, `kFreeTask`, `kEndTask`, `kEndAllUserTasks`, idle reclaim, all preemptible | each TCB and stack is freed once, and not while its task can run |
| Task lists (`list.c`) | head, tail, links and count | add to tail, take the first, remove one | they are the queues the scheduler takes them for, where an interrupt does no harm |
| ELF loader (`elf.c`, `mm_struct.c`, `paging.c`) | program headers still to read, VMA list, page tables, frames | check, map a segment page by page, start, undo | what runs is the image, with its rights; reads stay in the file; a failed load loses no frame |
| Address spaces (`mm_struct.c`, `fault.c`, `syscall.c`) | VMA list, page tables, PTE permissions, TLB | exec, fork, page fault (demand page, copy-on-write, kill), destroy | every program has a memory of its own; no frame is lost |
| Frame allocator (`pmm.c`) | bitmap, `page_t` flags and orders, free lists by order, reference counts | alloc, free, unreserve, get, put | the free lists partition the free frames and are fully merged |
| Page tables (`paging.c`) | the kernel's PML4, direct map | build at boot, map, unmap, translate | see address spaces, loader and boot memory |
| Slab (`slab.c`) | cache table, partial/full lists, chains of free objects | create, alloc, free, grow, `kmalloc`, `kfree` | an object is in its chain or with a caller, never both; `kfree` finds the owner |
| Window of kernel stacks (`vmalloc.c`) | area list, bump address, page count | `kVmapPages`, `kVfree`, guard-page test | areas and guards never overlap; an overflow faults and is recognised |
| Boot memory (`01.Kernel32`, `memmap.c`, `bootmem.c`, `pmm.c`) | E820 table, sorted map, bump pointer, reservations | collect, check, sort, merge, alloc, freeze, reserve | no frame is free that is used or is not memory; a machine with enough memory boots |
| Keyboard (`keyboard.c`, `queue.c`) | modifier state, ring buffer of 100 keys | scan code interrupt, LED command, get | every stroke gives its key once or is dropped whole |
| Shell (`console_shell.c`, `console.c`) | line buffer, screen, cursor | line editing, commands, parameters | what runs is what was typed and what stands on the screen; clean-up on failure paths |
| Boot code, descriptor tables, PIC, PIT, RTC, serial, panic, utilities | device registers | straight-line code | - |
| User program and stub, host tools, vendored QEMU | - | - | - |

Interactions: the timer switches tasks between all of the above; `kFreeTask`
calls `kVfree` and `kMmDestroy`, which call the frame allocator; a page fault
calls the frame allocator and `kMapPage`; a fault that cannot be served sends
the task to `kExitTask`; the idle task and the shell both free tasks.

The hard behaviours are listed one by one, with their lines, under `hazards` in
`PROJECT.json`: the idle task and `kEndTask` freeing the same thread, a task that
ends while it is being ended, lazily switched page tables, fork and copy-on-write
under memory shortage, stale `PG_BUDDY` flags, the weighted round robin that can
talk itself out of a ready task, stack addresses read before and stored after a
long loop, a TCB found free before and claimed after a fork took it, list pointers changed with interrupts on, lock keys inside the LED
command of other lock keys, overlapping entries of the firmware's memory map,
segments whose sizes wrap, prints that overlap on one cursor, parameters copied
without a bound, and shell commands whose failure path frees twice.

## 2. Modules

| Module | Models | Kind |
|---|---|---|
| `Scheduler` | run queues, slices, exit, wait list, CR3 and rsp0 | component |
| `TaskLists` | `list.c` pointer by pointer under interrupts | component, the queue it stands for as a history |
| `TaskLife` | the life of TCBs and stacks, with every step of the pool and of freeing | component |
| `ProcMemory` | a private memory for each program | abstract specification |
| `CowMm` | address spaces, faults, fork, destruction, reference counts, TLB | component, implements `ProcMemory` |
| `ElfLoader` | `exec` up to the program's start, and its undo | component |
| `FrameAllocator` | runs of frames nobody else has | abstract specification |
| `Buddy` | free lists, splitting, merging, rebuild | component, implements `FrameAllocator` |
| `BootMemory` | from the firmware's table to a serving allocator | component, extends `Buddy` |
| `Vmalloc` | stacks and other areas of the vmalloc window, page by page | component |
| `Slab` | object caches and the kernel heap | component |
| `BoundedFifo` | a bounded first-in first-out queue | abstract specification |
| `KeyQueue` | the ring buffer of keys, its reader step by step | component, implements `BoundedFifo` |
| `Keyboard` | interrupt handler, scan codes, LED commands, the queue to the shell | component, composed with `KeyQueue` |
| `Shell` | line editor, command look-up, parameters, the console under them | component |
| `CowMm_proofs`, `Vmalloc_proofs`, `Slab_proofs` | theorems about the module in the name | proofs |
| `Programs_proofs`, `Tasks_proofs`, `BootMemory_proofs`, `Console_proofs` | theorems about `ElfLoader` and `Scheduler`, `TaskLists` and `TaskLife`, `Buddy` and `BootMemory`, `Keyboard` and `Shell` | proofs |
| `KernelLemmas` | facts about sequences, finite sets and division that the proofs share | lemmas |
| `MCScheduler`, `MCTaskLists`, `MCTaskLife`, `MCCowMm`, `MCElfLoader`, `MCBootMemory`, `MCVmalloc`, `MCSlab`, `MCKeyboard`, `MCShell` | instances for TLC | |

Operators named `Action_Something` are faulty variants of `Action`, one for each
way a property could plausibly be broken; they are used only to see that the
property then fails. `TaskLists`, `Shell` and `ElfLoader` are proved about in one module
with another component, so their specifications carry a prefix: `ListSpec`, `ShellSpec`,
`LoadSpec` and their parts.

### Scheduler

A task is a TCB slot. `ready[p]` is `vstReadyList[p]`, `execCnt` is
`viExecuteCnt`, `running`, `quantum` and `waitList` are the fields of
`Scheduler_t`; `prio` and `dead` are the two parts of `qwFlag` (the dead flag
survives `kFreeTCB`, as in the code); `user` is `poMM # NULL`; `cr3` names the task
whose PML4 is loaded. `NextLevel`/`NextCnt` are `kGetNextTaskToRun`: one pass
serves the first level that was served less often than it has tasks and clears
the count of each level it goes by; a second pass follows if the first found
nothing. `Tick` is `kTimerHandler`, split in the three ways it can end. `Yield` is
`kSchedule`, `ExitTask` the body of `kExitTask`'s loop (its halts are repetitions of
the step, woken by ticks), `IdleReclaims` one turn of `kIdleTask`'s inner loop.
`Publish` is the common end of task creation. Not modelled: register contexts, the
load measurement, `kHaltProcessorByLoad`'s length.

### TaskLists

`Scheduler` takes a list operation as one step. `TaskLists` takes `kAddListToTail` and
`kRemoveList`, which the shell runs with interrupts on, apart into their single
reads and writes (`op.pc` names the next one), and lets an interrupt append a task
or take the first one between any two: the timer, a fork, `kExitTask`, the idle task.
`fifo` is the queue the list stands for, changed where the write happens that makes
the difference. The code does nothing to keep interrupts out. `AppendHarms` and
`TakeHarms` say exactly where one does harm, and `torn` that one has; the properties
are about all other interrupts, and a behaviour ends when the list is torn.
`kAddListToHead`, `kRemoveListFromTail` and `kFindList` have no caller.

### TaskLife

Where `Scheduler` takes a shell command as one step, `TaskLife` has a step for each access
that another task can come between. `createtask` runs `kAllocateTCB` with interrupts on:
`CreateBegins` looks at `iUseCnt`, `LooksOn` and `FindsFree` go through the pool, then the
ID, `iUseCnt` and `iAllocatedCnt` are stored, each from a value read in a step before
(`ReadsAllocatedCnt` to `StoresAllocatedCnt`), and `CreateEnds` is the rest of
`kCreateTask`, or `CreateFails` gives the TCB back. `exec` and fork do all this with
interrupts off, in one step (`Claim`, `SetUp`). `kEndTask` is split into the look at the
dead flag and the removal from the list; `kFreeTask` with `kFreeTCB` (`FreeTask`, for the
shell and the idle task alike) into the check of `pvStackAddr`, `kVfree`, the store of
NULL, `kMmDestroy`, the ID, and the load and the store of `iUseCnt`. `kIdleTask` pops with
interrupts off and frees with interrupts on; `kEndAllUserTasks` is a scan of one slot per
step.

`gen` is the upper half of a TCB's ID, `stack` the address of its stack (addresses of
`kVmapPages` never recur), so "the same TCB" and "the TCB reused by another task" can be
told apart. `raced` records that the shell claimed a TCB a fork had claimed since the
shell saw it free, `lost` that a store of `iUseCnt` overwrote another task's.
`shell.since` is a history: the next stack address when the scan began. A list
operation, `kVmapPages`, `kVfree` and `kMmDestroy` are single steps (`TaskLists`,
`Vmalloc` and `CowMm` have what happens inside); priorities do not matter here.

### CowMm and ProcMemory

An address space is `none`, `ready`, `zombie` (killed, not yet freed) or `dying` (in
`kMmDestroy`). A PTE is a frame and membership in `rw`; `ref` is `iRefCount`; `free`
counts all frames, including those of page tables, whose identity does not matter.
`tables` are the page tables an address space has below its PML4 and `PathOf` says
which ones a page needs, so `kMapPage` can run out of frames half way. The TLB is
explicit: `WalkTables` caches a translation of the loaded address space at any time, stores go
through cached translations only, and code that changes PTEs without flushing
leaves them behind. Page faults (`DemandPage`, `CowReuse`, `CowCopy` and their
failures), `kSysFork` (`Fork`, `ForkFails`, `ForkNoTask`) are one step each, since
they run with interrupts off. `kMmDestroy` runs in the shell with interrupts on:
one step per `kPagePut`, with faults and forks of the sharers in between.
`UserTestFails` is the failure path of the shell command `usertest`, only in
`UserTestSpec`. Not modelled: slab exhaustion, kernel-mode access to user memory,
the interleaving inside one `kPagePut`.

`ProcMemory` is the promise: exec, a store of one page, fork as a copy of the
parent's memory, end. `CowMm!PrivateMemory` maps each live address space to the
contents of its frames (zero where no frame is mapped) and requires every step
to be one of these or to change nothing.

### ElfLoader

Numbers are taken modulo `Word`, so the sums of the header's fields wrap as the
64-bit ones do. `CheckHeader` is `kElfCheck`, `NextHeader` with `SkipHeader`,
`RefuseSegment` or `BeginSegment` the loop of `kElfLoad`, `LoadPage`, `LeaveToFault`,
`NoFrameForPage` and `NoFrameForTable` one page of a segment. `table` are the entries
of every frame that is a page table and `bytes` the contents of the others, so
`MapPage` (`kGetNextLevel` and `kMapPage`) and `Walk` (`kWalkPageTable`) are level by
level. The file's byte at offset `o` is `o`, so a page tells where its contents came
from. The shell runs all of this with interrupts on: `OtherTakes` and `OtherReturns`
move frames between any two steps, so every allocation can fail. `MmDestroy` undoes
whatever there is. The processor is taken to support NX.

### Buddy, FrameAllocator and BootMemory

One call is one step. `buddy` and `order` are the `page_t` fields `PG_BUDDY` and
`iOrder`, kept for all frames, stale values included; `area` the free lists, first
entry first. `Stops` is the merging loop. Callers may free blocks they hold, free a
block again, or free a reserved frame.

`BootMemory` leads there. `firmware` is one of a set of answers to the E820 calls;
`phase` follows boot: `CollectE820` (`EntryPoint.s`), `CheckMemSize` (the 32-bit kernel),
`InitializeMemoryMap`, `InitializeBootmem`, `InitializePhysicalMemory` (placing `mem_map`
and the bitmap, reserving, building the lists), `BuildTable` for each page table of
`kInitializePaging`, `SwitchTables`, and `UnreserveBootTables`, after which `Serve` runs
`Buddy`. Each place where boot stops is a phase of its own (`Failed`). Addresses are in
units of which a frame has several, so ranges start and end inside frames.
`g_qwUsableSize`, which is only printed, is left out.

### Vmalloc

Pages are numbered from `VMALLOC_START`; `pte` is the page table entry of each, one
level of `tables` stands for the levels that `kMapPage` may have to allocate. A call
(`call[c]`) is a start, one step per page and an end, because `kVmapPages` and `kVfree`
leave interrupts as they find them: the shell's call can be preempted by the idle
task freeing a stack, or by a fork. Contexts in `Masked` (system calls, which enter
through an interrupt gate) are not preempted. `raced` is a history: a call of
`kVmapPages` has begun inside another one. `VmapNoFrame` and `VmapNoTable` are the
two failure paths of the loop. `area` holds what the descriptors say, `spare` and
`slabs` are the descriptor cache. The TLB fills when a page is zeroed or used;
`kMapPage` does not flush, `kUnmapPage` does. `lost` is a history variable: frames left
mapped by `VmapNoTable`. An area is freed once, by its owner: that is what `TaskLife`
checks of its callers. A refused call changes nothing and is no step.

### Slab

Memory is a sequence of QWORDs; `slab[p].next` is the chain of free objects, kept in
the objects themselves (`next[i]` is the first QWORD of object `i`, set to zero when the
object is handed out). `KmemCacheCreate` computes the geometry as the code does,
`AllocFromPartial` and `AllocFromNewSlab` are the two ways of `kKmemCacheAlloc`; a
freed slab is never given back, as in the code. `kAllocPages` is any free, aligned run
(what `FrameAllocator` promises). A call is one step, and callers pass what they were
given: the run asks whether the data structure is right under every sequence of
calls, not under preemption.

### Keyboard, KeyQueue and BoundedFifo

A stroke is what a user does, `Bytes` the codes the keyboard sends for it; `out` are the
bytes on their way. `Interrupt` is `kKeyboardHandler`; `Skip`, `PauseKey`, `Prefix`,
`PlainKey` and `Toggle` are the paths of `kConvertScanCodeToASCIICode`. A lock key pushes
a call of `kChangeKeyboardLED` on `waiting`; `OtherCode`, `FirstAck`, `SecondAck` and
`GiveUp` are rounds of `kWaitForACKAndPutOtherScanCode` in the innermost call, with
interrupts off. The character itself is abstracted to whether the key is a combined
and an extended one. `keys` and `dropped` are histories; `astray` says that a wait found
no byte, read the port all the same and took the code before for a new one, or that it
gave up. Scroll Lock behaves like the other locks and is left out. The keyboard is external: it
acknowledges each byte it is sent behind what it has sent already, and may ask for an
LED byte it did not expect to be sent again.

`KeyQueue` has the indices and the flag of `queue.c`; `Looks`, `SeesEmpty` and `SeesFull`
are the test of `kGetKeyFromKeyQueue` outside its bracketed section, `GetQueue` what is
inside. `Keyboard` instantiates it over its own variables: the handler's `Put` is
`Queue!PutQueue` or a dropped key, the shell's `Getch` is `Queue!Read`.

### Shell

`screen`, `ofs` and `pend` are video memory, the cursor, and the cursor a task has
computed in `kPrintf` and not stored yet: a print draws in one step and sets the
cursor in another, and one of another task (`OtherPrints`) can come in between.
`buf` is the line buffer, whose first contents are whatever the stack held, and `beyond`
the byte behind it. `CharKey`, `BackspaceKey` and `EnterKey` are the branches of
`kStartConsoleShell`; `Execute` is `kExecuteCmd`, which prints for an unknown word, runs
`cls` or calls a handler. A handler (`pc` is `"handler"`) reads parameters, none or some
(`ReadParam`), and ends with a print (`HandlerEnds`). `line`, `peak`, `alone` and `calm` are
histories; `alone` says that the prompt fitted on the screen and that nobody else has
printed since. Other keys (F-keys, arrows) are characters to the code and no
case of their own; the status line in row 0 and number formatting are left out.

Two stores of the code leave their array, and the model makes them visible:

- `vcCmdBuff[iCmdBuffIdx] = '\0'` on a full line (`console_shell.c:99`). `Store` puts a byte
  whose index is outside the array into `strays`, and the byte right behind the array is
  in `beyond`, where `kStrLen` will find it. In the frame the compiler lays out that byte is
  padding, so the line runs as typed; to the language it is undefined behaviour.
- `kMemCpy` in `kGetNextParam` (`console_shell.c:187`) is given the end of the piece counted
  from the start of the string, and no bound. `Wrote` is the number of bytes a call
  stores; if the handler's buffer is shorter (`ParamSize`, 30 or 100 in the code), the
  run's `overran` is set and the handler reads no further. It may still end like any
  other, when the overrun stayed among its own variables, or the shell is lost
  (`GoesAstray`) and the model says nothing more of it. The bytes the copy reads past
  the piece are not used by anyone.

## 3. Runs

| Run | Instance | Properties | Shows |
|---|---|---|---|
| `scheduler` | shell, idle, 2 more slots, 3 levels, slice 2, 1 priority change, with fairness | `TypeOK`, `QueuesExact`, `WaitListExact`, `AddressSpaceLive`, `NextTaskFound`, `SliceEnds`, `TurnComes`, `DeadReclaimed` | lists and flags agree, a ready task is found, CR3 stays live, no starvation, dead kernel threads are reclaimed |
| `task_lists` | 5 tasks | `ListIsQueue`, `FindsWhatStays` | the list is a queue, and a task in it is found, under every harmless interrupt |
| `tasklife` | 3 slots, 5 tasks, the user does not kill threads that can end themselves | `StacksAccounted`, `UsersEnded`, `IdleFreesEnded` | freed once, not while runnable; `kEndAllUserTasks` ends what was there |
| `kill_ended` | the same without that restriction | `IdleSparesUsers` (violated) | the idle task in the middle of freeing a thread whose TCB is a user task by now |
| `cowmm` | 3 address spaces, 2 pages under 3 tables, 3 frames for data, 10 in all | `SharingExact`, `TlbNamesLoadedFrames`, `FramesConserved`, `PrivateMemory` | forks of forks share and separate correctly; failing half way loses nothing |
| `usertest_rollback` | the same with `usertest` failing | `NoDoubleFree` (violated) | frames freed twice |
| `elf_loader` | 7 frames, 3 levels of tables of 4, pages of 4 bytes, a file of 6, two of 9 segments, numbers modulo 512 | `ImageLoaded`, `RightsMatch`, `FramesAccounted`, `ReadsInside` | the image is what the file says, with its rights; failures lose nothing |
| `buddy` | 32 frames, orders 0-3, 17 firmwares, 2 kernel sizes | `ListsExact`, `ListsUseful`, `MapFaithful`, `FreeFramesAreUnused`, `SufficientMachinesBoot`, `HandsOutFreeRuns` | from any firmware table to exact free lists; allocations as promised |
| `vmalloc` | 10 pages in tables of 4, the first of which exists, 5 frames; shell and forks create, shell and idle task free | `StacksApart`, `OverflowIsDiagnosed`, `AreasAccounted` | stacks and guards apart and backed; roll-back |
| `slab` | 4 frames of 8 QWORDs, a kmalloc cache and one created | `BlocksApart`, `SlabsExact`, `OwnersFound` | chains, lists and counters exact; `kfree` finds its way |
| `keyboard` | 3 strokes of 9 kinds, queue of 3, waits of 13 rounds, with fairness | `KeysExact`, `LedsTrue`, `QueueKept`, `KeysArrive` | each stroke its key, LEDs right, the ring is a bounded queue, everything is read |
| `shell` | 3 by 3 screen, a prompt of 2, a buffer of 4, parameters of 2, 2 lines, 1 foreign print | `CursorOnScreen`, `LineShown`, `RunsWhatWasTyped` | the line on the screen is the line that runs; its pieces are the parameters |

Type correctness is a conjunct of the first property of each run that does not list
`TypeOK`, or of `SharingExact`, `StacksAccounted`, `AreasAccounted`, `SlabsExact` and `KeysExact`.

### Bounds

- `scheduler`: two ordinary tasks next to the shell and the idle task give every
  combination of running, ready, dead, waiting and freed for a pair; three levels
  are the first number with a level between two others. `MaxReprio` bounds priority
  changes, which otherwise only multiply states. The theorems of section 4
  remove these bounds from the safety properties, here and in the other modules
  proved about.
- `task_lists`: five tasks are a list with a first, a middle and a last task around
  the one a call works on, and one left to join. Nothing else is bounded.
- `tasklife`: three slots are the fewest with a slot freed below and a child forked
  above the one being scanned, and leave one for a fork while the shell creates and
  the idle task frees; five tasks reuse slots twice.
- `cowmm`: a frame shared by three is the first that is still shared after one copy;
  ten frames let three programs of one page live, and make the fork of a program of
  two pages run out half way, in a page table or in data.
- `elf_loader`: the segments start and end inside pages, cross into a second page
  table, overlap, end at the last user address, have sums that wrap, or are no
  segments; two of them are a first and one that meets it. Seven frames are enough
  for one large segment and too few for two.
- `buddy`: 32 frames are the machine in `MCBootMemory`'s comment, two blocks of the
  largest order, one of them always broken by reservations; each firmware is one
  case the code tells apart (order, overlap, ragged edges, too little of each kind).
- `vmalloc`: three descriptors in slabs of two make the cache grow while areas exist;
  five frames run out in the middle of a second area, and areas cross into tables
  that do not exist. The window is smaller than what is asked for in total, so the
  last calls are refused. What follows the first overlap of two `kVmapPages` is not
  explored (`NoOverlap`): the properties claim nothing of it.
- `slab`: two objects fill a slab, so slabs go to the full list and come back; four
  frames hold slabs of one and of two frames next to blocks of `kmalloc`.
- `keyboard`: three strokes are two lock keys and a key that comes while their LED
  commands nest, or a shift, a key and a release; Pause alone overfills a queue of
  three with two more strokes. A hundred rounds of a wait are thirteen here: more
  than the bytes three strokes and their answers can put before an acknowledgement.
- `shell`: a full line wraps once behind its prompt, two lines and their output
  scroll the screen more than once, and the second line meets the bytes the first
  left in the buffer. A parameter of two characters overruns its buffer of two (the
  terminator), one of one character does not. One foreign print can overlap any of the shell's.

### Fairness

`FairSpec` (run `scheduler`) assumes weak fairness of `Tick`: the PIT keeps
interrupting, and every task runs with interrupts on most of the time. It assumes
strong fairness of `IdleReclaims`: when the idle task is dispatched it reaches its
reclaim loop within its slice (it halts at most a few ticks per round), though a
tick may take the processor before it gets there in any one slice. No fairness is
assumed for exits, yields or shell commands.

`Keyboard` assumes weak fairness of the interrupt (it stays pending while a byte is in
the controller), of the rounds of a wait (a counted loop with interrupts off) and of
`Getch` (the shell sits in `kGetch` and the scheduler gives it its turn). The user may
stop typing at any time.

### What does not hold

The two violated runs are disagreements between the code and its own comments,
quoted under `findings`. In `kill_ended`, the user kills a kernel thread that ends by
itself meanwhile. The idle task takes it from the wait list and passes the one check
of `kFreeTask` (`task.c:228`), on the address the shell's own `kFreeTask` is about to set
to NULL; the shell finishes, `exec` is given the TCB, and the idle task stands past its
check with a live user task in its hands. Had the shell stored NULL first, the idle
task would have returned. In `usertest_rollback` the clean-up of `usertest`
frees mapped frames and then destroys the address space that maps them;
`kFreePages` notices only if nobody took the frame in between.

The properties except, by name, what the code does not give:

- `raced` in `TaskLife`: a fork that preempts the shell's `kAllocateTCB` between its look at
  a TCB and the store of the ID (`task.c:68-82`) is given the same TCB. Two tasks then
  share it, one of them linked twice into the lists; nothing is claimed from there on.
  TLC finds it when `~raced` is taken out of `StacksAccounted`. `UsersEnded` and
  `IdleFreesEnded` except it because the lists are sets here, which a TCB cannot be in
  twice: what the model does after `raced` is not all the code can do.
- `lost` in `TaskLife`: `++` and `--` of `iUseCnt` are a load and a store, and a change in
  between is overwritten. The count then stays wrong, and since `kAllocateTCB` compares
  it for equality it can step past the maximum. A lost `++` of `iAllocatedCnt` gives the
  same number to two tasks, whose IDs still differ in the lower half. (That the number
  wraps after 2^32 tasks is left out.)
- `raced` in `Vmalloc`: a fork that preempts the shell inside `kCreateTask`, between the
  read and the store of `g_qwNextFree` (`vmalloc.c:98`), is given the same stack
  addresses. The same happens while a call that failed takes its pages back: it
  unmaps pages that by then are the child's. Without `~raced`, TLC finds both.
- `torn` in `TaskLists`: an interrupt inside `kCreateTask` or `kEndTask` at one of the places
  of `AppendHarms` and `TakeHarms` loses tasks, keeps freed ones, or leaves a wrong count.
  `kRemoveList` is safe to interrupt while it walks, `kAddListToTail` until it has read
  the tail.
- `UsersEnded` in `TaskLife` is less than the comment at `task.c:206` says: a task that
  faults between `kEndTask`'s look at its flag and its removal from the ready list is
  skipped and keeps its address space until the command is given again, and a child
  forked during the scan into a slot already passed goes on running.
- `lost` in `Vmalloc`: when `kMapPage` fails (`vmalloc.c:127`) the pages mapped before
  stay mapped, though the other failure path undoes them; a later area at the same
  addresses can meet their stale translations.
- `tables` in `Vmalloc`: page tables of the window are never freed and addresses never
  reused, so they are not the one-time cost that `console_shell.c:875` takes them for.
- `astray` in `Keyboard`: after nested LED commands the outer LED byte is unexpected, no
  acknowledgement comes, and the wait queues the last code again, up to a hundred
  times (`keyboard.c:52`); a lock key read again changes its lock again. `KeysExact` speaks
  of the runs in which no wait did this or gave up.
- `OneTypeEach` in `BootMemory`: a reserved range inside a usable one stays free, and
  entries around it are not merged (`memmap.c:65`). A frame that straddles two usable
  entries kept apart for that reason is lost, which is harmless. Memory above the
  16 GB of the boot page tables (`Window`) makes `kInitializePaging` clear a table it
  cannot reach, if the allocator hands one out there.
- `Wraps` in `ElfLoader`: a segment whose `p_vaddr + p_memsz` or `p_offset + p_filesz`
  exceeds 64 bits passes the checks of `kElfLoad` (`elf.c:34`); the page tables and the
  frames stay in order, the contents are not the file's.
- `calm` and `alone` in `Shell`: overlapping prints can move the cursor back or over the
  edited line. A one-word command can be given text that was typed and erased
  before it, or, in the first line, what the stack held; where two spaces meet, or one
  comes first, a parameter is empty, and some handlers take that for the end; a print that wraps more than
  one row past the bottom of the screen scrolls once and loses the rest; a prompt
  that another task's output has pushed to the end of the screen is cut in this way
  (`console.c:115`).
- `overran` in `Shell`: a parameter string at least as long as the handler's buffer can
  overrun it (`console_shell.c:187`), the second parameter also when it is short, because
  its copy is as long as its end is far from the start. What becomes of the shell then is
  left open.
- Calls of the frame allocator and of the slab that overlap (`pmm.c:299`, `slab.c:193`) are
  not modelled: nothing in the code keeps them apart, and as with `raced` and `torn`
  no property of the lists would survive them.

## 4. Proofs

The theorems hold for every value of the constants, so none of the bounds of section 3
applies to what is proved. Every invariant, action property and refinement that a passing
run checks is proved; only the leads-to properties are not. The assumptions are the `ASSUME` of each module (sets of slots or
pages are finite, sizes are positive, names that must differ do) and, where the code
needs more, a hypothesis of the theorem. All proofs have the same plan: an inductive
invariant, here `IInv` where no other name is given, one lemma per action for
`IInv /\ [Next]_vars => IInv'`, and the properties as consequences. Each invariant was
also model-checked on the instance of section 3; where it quantifies over all numbers
or over numberings (`BootInv`, `ShellInv`, `KeysKnown`, `LoaderInv`), in a form with bounds that TLC
can enumerate.

Where a model computes something step by step (a walk through page tables, a merge, a
print), it does so with a recursive function. The proofs show that the function
exists, by building it up to each length, and that it has a property everywhere, by
looking at the least place where it would not: an induction for that one definition.

| Module | Proved | Under |
|---|---|---|
| `Scheduler` | `TypeOK`, `QueuesExact`, `WaitListExact`, `NextTaskFound`, `AddressSpaceLive`, `SliceEnds` | - |
| `TaskLists` | `ListIsQueue`, `FindsWhatStays` | - (`torn` is in the properties) |
| `TaskLife` | `TypeOK` (until `raced`), `StacksAccounted`, `UsersEnded`, `IdleFreesEnded` | `~KillsMortal` (`raced` and `lost` are in the properties) |
| `CowMm` | `TypeOK`, `SharingExact`, `TlbNamesLoadedFrames`, `FramesConserved`, `NoDoubleFree`, the refinement `PrivateMemory` | - |
| `Vmalloc` | `StacksApart`, `OverflowIsDiagnosed`, `AreasAccounted` | - (`raced` is in the properties) |
| `Slab` | `BlocksApart`, `SlabsExact`, `OwnersFound` | `GeometryAssumption` |
| `Keyboard` | `KeysExact`, `LedsTrue`, the refinement `QueueKept` | - (`astray` is in `KeysExact`) |
| `Shell` | `CursorOnScreen`, `LineShown`, `RunsWhatWasTyped` | - (`calm`, `alone` and `overran` are in the properties) |
| `BootMemory`, with `Buddy` | `ListsExact`, `ListsUseful`, `MapFaithful`, `FreeFramesAreUnused`, `SufficientMachinesBoot`, the refinement `HandsOutFreeRuns` | `PowerAssumption`, `FirmwareAssumption`, `LayoutAssumption` |
| `ElfLoader` | `ImageLoaded`, `RightsMatch`, `FramesAccounted`, `ReadsInside` | `LevelsAssumption` |

### Scheduler

None of the listed properties is inductive alone. That a task leaving the
processor reappears on exactly one list needs to know that it was on none
(`ReadyIsAlive`) and that its flag names a list (`Bookkeeping`); that an exiting
kernel thread joins the wait list once needs that the running task is not on it
already; that CR3 stays live when a task is freed needs that only allocated tasks
own address spaces. `IInv` is the conjunction that closes this circle; its
non-temporal step has one case per action.

`NextTaskFound` is a property of the round robin, true of any counts: if the first
pass finds nothing it has cleared every count, so the second serves the first
non-empty level. `KernelLemmas` holds the facts about `Append`, `Tail` and
`RemoveFirst` on sequences without repetition, and the existence of a least level.
`DeadRunsOnlyAlone` (the processor stays on a dead task only when nothing is ready)
follows and is part of the inductive invariant.

### TaskLists

`ListIsQueue` speaks only of the moments at which no call is changing the list, so it
says nothing about the accesses in between. `ListInv` says what holds at each of them: the
list is that of the queue (`Shape`) but for the one link, tail or head the next access
stores; the count is one behind or one ahead in exactly the places `Short` and `Long`
(`Counted`); and the call's registers hold what they were read for, also when an
interrupt that does no harm has changed the list since (`Adds`, `Removes`). `Removes`
places the walk at an index of the queue with everything before it compared, which is
also why `FindsWhatStays` holds.

### TaskLife

`IInv` is `raced \/ Safe`: once the pool's race has happened nothing is kept. `Safe` gives
every TCB one owner at a time (the pool, its creator, its own execution, the shell's call,
the wait list or the idle task) and says for each state of the shell and of the idle task
which steps of `kAllocateTCB` and `kFreeTask` are done. That the shell's `kEndTask` and the
idle task do not own the same TCB rests on the hypothesis `~KillsMortal`: threads that end
themselves reach the wait list, other tasks do not. It is the restriction of the run
`tasklife`, and necessary: the run `kill_ended` shows what happens without it.
The count is exact but for what the calls under way still have to add or subtract
(`TCBsCounted`), as long as no load and store of it enclosed another's (`lost`).
`UsersEnded` needs `Scanned`: a user task in a slot the scan has passed is younger than
the scan.

### CowMm

A frame with the count 1 may be stored to, a frame with a larger one may not. That is
inductive only together with the exact counts (`RefExact`), with what the TLB may still
hold (`TlbNamesLoadedFrames`), with the uniqueness of a dying address space (`Spaces`), and
with the rule that no PTE and no cached translation is writable where the VMA is not
(`Rights`). `SharingExact`'s statement about stores is restated holder by holder
(`Alone`), which is what the steps change. The counts are cardinalities of sets of
holders; a fork adds to each set the child's PTEs of that frame, which no set had.
`FramesConserved` adds up cardinalities of frames and tables in the same way. The
refinement proof takes the steps one by one: stores, exec, fork and end are steps of `ProcMemory`, every other one leaves the
mapped memory as it is, because it changes PTEs only to frames with equal contents.

### Vmalloc

`IInv` is `~raced => Good`: the first overlap of two `kVmapPages` ends what can be claimed,
and the properties say so themselves. `Good` orders the listed areas below `nextFree`,
keeps a call's area at the end of the window until it is listed (`MapsAtEnd`), gives a
descriptor that is being freed one holder (`FreesListed`), and says of each page who has
it (`Has`): what is mapped belongs to a call that has mapped it, to an area `kVfree` has
not reached, or was left by `VmapNoTable` (`lost`). From `Has` follow that two pages never
share a frame, that guard pages have none, and that the TLB holds nothing older.

The counts of `AreasAccounted` are a second invariant, `Tallied`, that needs the first:
frames in use are pages with an owner, page tables, slabs and lost frames, and no frame
is two of these (`FramesTally`); `g_qwMappedPages` counts the pages of the listed areas,
which `Good` keeps apart (`PagesTally`); every descriptor of the slabs is spare, listed
or held by a `kVmapPages` (`DescTally`). When `VmapNoTable` leaves pages behind, as many frames
become lost as pages lose their owner, because no two pages shared one (`ImageSize`).

### Slab

`IInv` says what a frame, a block and a slab are to each other. A frame with an owner
lies in the run of frames of that slab (`RunsOwned`); a live block is object `i` of the
slab its frame names, or starts a run of frames of its own (`Blocks`); the chain of a slab
goes through the objects no caller has, once through each (`Chains`); lists and counters
(`Lists`) are those of `SlabsExact`. That two objects do not overlap and that the index
`kKmemCacheFree` divides out of an address is the one the object was handed out with
follows from the geometry of `kKmemCacheCreate` (`Geometry`): the objects fit behind the
header, and header, object and page are multiples of the alignment.

A chain is a sequence of any length, and what following it computes would need an
induction over data. `ChainOver` says instead that some numbering of the free objects exists along
which each names the next. Handing out the first object drops the first number, a free
adds one before it (`PoppedFacts`, `PushedFacts`); that `Visited` then follows the numbering
(`VisitedFacts`) is shown for the least place at which it would not.

`GeometryAssumption` has three parts. `kInitializeSlab` gives up when a
kmalloc cache cannot be made; the first says that each size has an order at which `MinObjs`
objects fit, as the twelve sizes of the code have. An alignment that is asked for divides
a page, as the 8 of every caller does. That a power of two is a positive number is
arithmetic that the provers do not know of a general exponent. TLC
evaluates all three on the instance.

### Keyboard

The LED byte of a command is fixed when the lock changes and sent later, and commands
nest. `LedsKnown` is why the last byte sent is right all the same: as long as the
keyboard expects an LED byte, it is the innermost command that has still to send one,
and no lock changed since. An outer command that sends its older byte afterwards
finds a keyboard that expects none. The ring buffer's contents between the indices
are computed with `%`; `Wrap` replaces that by one comparison. `PutAppends` and
`GetTakesFirst` show that a put appends to the contents and a get takes their head, and
`ReaderKnows`, that a reader who found equal indices and then finds the flag clear was
not overtaken by a put: the two looks are as good as one.

`KeysKnown` is why each stroke gives its key. It needs to know how far the driver has come
in the history of strokes: `Story` numbers the bytes that are still on their way by
stroke and place, so that they are the rest of that history after `m` whole strokes and
`j` bytes of the next, and `FlagsRight` says that the modifiers, the prefix and the count of
skipped codes are those of what was read. `KeysRight` compares the keys in the queue,
dropped or waiting for an LED command: each means what its stroke means, no stroke that
was read is without one, and none has more than it gave (`Times`, `Given`). That an
acknowledgement is read by a wait and never converted to a key rests on `AcksAwaited`.

### Shell

Other tasks may print at any time, so little holds of the screen unless the ghosts
`calm` and `alone` say that they did not overlap or did not print. `BufferHolds` says what of
an earlier line is left behind this one; `CalmCursor`, that the cursor, or the one a print
under way will set, has the line before it; `LineStands`, that prompt and line are on the
screen before that cursor, also between a print and its cursor. Erasing and typing
keep this across line ends and scrolling because prompt and buffer fit above the last
row (`ShellAssumption`). `ParamsStand` says that the parameters read stand in the string one
behind the other up to where the list goes on (`WordsTo`): one more piece extends it at its
end (`PieceFacts`, `OneMoreWord`). `OneStray` needs that the index never exceeds the size of
the buffer. `Drawn`, what a print leaves on the screen, is a recursive function.

### Buddy and BootMemory

`FramesInv` says of the lists: they hold aligned blocks of free frames that do not overlap
and cover them, with no two free neighbours of one order (`ListsOK`); callers' blocks are
apart from these, and keep the order in their first frame (`HeldOK`). The flags need care:
the rebuild leaves `PG_BUDDY` and `iOrder` on frames that are inside a larger block
afterwards, so `MarksOK` says where a stale flag can stand: never on the buddy of a block
that is being freed, with its order. The proof of a free follows the merging order by
order up to the one where it stops (`Stops`), that of an allocation the halves it puts
back.

`BootInv` follows boot. `MapReady`: sorting and merging changed neither the usable nor the
reserved bytes. `Placed`: `mem_map` and the bitmap lie where boot memory began, above the kernel's
image and the IST stacks. `MineOK`: a frame that is free or handed out is whole usable memory outside
these, or, once the kernel's page tables are in use, one of the boot page tables.
`TablesOK`: the tables built so far are the first ones wanted, each in a block of its own.
`SufficientMachinesBoot` says that a machine with enough memory never stops; its proof
counts (`Counted`: free frames and frames taken for tables are the usable ones that were
left) and shows that merging leaves one usable entry around the end of the static layout,
with the room that `mem_map` and the bitmap need.

`FirmwareAssumption` says that a firmware calls nothing usable that is beyond the
machine's memory, `LayoutAssumption` that the boot page tables lie apart from the kernel and
what else is at a fixed place, as `01.Kernel32` puts them. `PowerAssumption`, like
`LevelsAssumption` below, is arithmetic: the equations that define a power, stated
because the provers do not know them. TLC evaluates all of them.

### ElfLoader

The frames that are neither free nor another task's are one tree, and `LoaderInv` says so
by a numbering: `node[l, q]` is the frame that the `q`-th entry of level `l` names, counted
over the whole address space, or none. Every such frame has exactly one place
(`Nodes`). `MapPage` puts new frames at empty places, one at each level that was missing
(`AttachFacts`); `Walk` comes to the place whose number is the quotient of the
address (`WalkIs`), which rests on how divisions nest (`NestedQuotient` in `KernelLemmas`);
the levels `kFreeUserTables` follows are those of the numbering, so it frees every frame once
and none of the kernel half (`TreeIs`).

The area list stays ordered and free of overlaps (`Ordered`). `kVmaCreate` stops looking at
the first area behind the new one; no overlap is missed because the areas are in
order, and `kVmaFind` finds the area of an address for the same reason. `PagesLoaded` ties
the two together: a mapped page lies in an area, has its rights and holds `PageBytes` of its
segment, and the pages of the segment being loaded are those up to `va` that the file has
something of. A later segment cannot write into an earlier one's pages because its area
would overlap. The end of an area, rounded up, does not wrap because twice the
user half is within a word; the sums in the header may, and the properties exempt those.

### What stays with TLC

- Liveness (`TurnComes`, `DeadReclaimed`, `KeysArrive`): fairness and `ENABLED` are out of the
  prover's reach.
- The two violated runs, which are counterexamples.

## 5. Not modelled

- The boot sector and the mode switches of the 32-bit kernel: straight-line, before
  anything can interrupt. Its memory check and page tables are in `BootMemory`.
- Descriptor tables, PIC, PIT, RTC, serial port, register saving: device and
  processor programming without state the kernel reads back.
- The panic screen, number formatting, the status line, commands that only print.
- `kSysWrite`'s copy from user memory: the comment at `syscall.c:20` says that the
  pointer is not validated yet; a page that is not present ends in the panic path.
- Host tools, the generated `user_app.c`, the user stub, vendored files.

## 6. Plan

1. `Keyboard` in front of `Shell`, sharing `KeyQueue`.
2. The interleaving of calls of `pmm.c` and `slab.c`: inside the reference counts, between
   `kMmDestroy` and faults, and on the free lists, with a ghost for the harm as in `TaskLists`.
