----------------------------- MODULE Scheduler -----------------------------
(***************************************************************************)
(* The run queues of 02.Kernel64/src/task.c: five priority lists served    *)
(* by a weighted round robin (kGetNextTaskToRun), the time slice counted   *)
(* by the timer interrupt, voluntary switches (kSchedule), task exit       *)
(* (kExitTask), the wait list that the idle task reclaims, and what the    *)
(* switch installs in the processor (CR3 and TSS.rsp0).                    *)
(*                                                                         *)
(* Every action is one segment the processor runs with interrupts off, or  *)
(* one call the shell makes whose effect on the lists is a single list     *)
(* operation.  What can happen between the calls of kCreateTask, kEndTask  *)
(* and kFreeTask is the subject of module TaskLife.                        *)
(*                                                                         *)
(* A task is named by its TCB slot.  A TCB is private to its creator until *)
(* kAddTaskToReadyList publishes it, so creation is one step here.         *)
(***************************************************************************)
EXTENDS Naturals, Sequences, SequencesExt

CONSTANTS
  Task,             \* TCB slots
  Shell,            \* the boot flow: its TCB has no stack of its own
  Idle,             \* the task main.c creates with TASK_FLAG_IDLE
  NPrio,            \* TASK_MAX_READY_LIST_CNT
  MEDIUM,           \* TASK_FLAG_MEDIUM, the priority of every user task
  PROCESSOR_TIME,   \* TASK_PROCESSOR_TIME
  KernelCR3,        \* the kernel's own PML4
  MaxReprio         \* bound on the priority changes of one behaviour

Prio == 0 .. NPrio - 1
HIGHEST == 0
LOWEST == NPrio - 1
WAIT == NPrio       \* TASK_FLAG_WAIT: any value that names no ready list
NoLevel == NPrio    \* kGetNextTaskToRun found nothing

ASSUME SchedulerAssumption ==
  /\ Shell \in Task /\ Idle \in Task /\ Shell # Idle
  /\ NPrio \in Nat \ {0} /\ MEDIUM \in Prio
  /\ PROCESSOR_TIME \in Nat \ {0}
  /\ KernelCR3 \notin Task
  /\ MaxReprio \in Nat

VARIABLES
  inUse,      \* TCBs handed out by kAllocateTCB
  user,       \* TCBs whose poMM is not NULL
  dead,       \* TCBs whose qwFlag carries TASK_FLAG_DEAD (kept after the free)
  prio,       \* GET_PRIORITY(qwFlag)
  ready,      \* vstReadyList
  execCnt,    \* viExecuteCnt
  waitList,   \* stWaitList
  running,    \* poRunningTask
  quantum,    \* iProcessorTime
  cr3,        \* the loaded page table, named by the task that owns it
  rsp0,       \* the task whose stack TSS.rsp0 points to
  reprio      \* priority changes made so far

vars == <<inUse, user, dead, prio, ready, execCnt, waitList, running, quantum,
          cr3, rsp0, reprio>>

(* What kGetReadyTaskCount counts. *)
AllReady == UNION {ToSet(ready[p]) : p \in Prio}
-----------------------------------------------------------------------------
(***************************************************************************)
(* kGetNextTaskToRun.  One pass over the lists stops at the first level    *)
(* that was served less often than it has tasks waiting, and clears the    *)
(* count of every level it goes by.  There are two passes.                 *)
(***************************************************************************)
Owed(cnt, p) == cnt[p] < Len(ready[p])

PassLevel(cnt) ==
  IF \E p \in Prio : Owed(cnt, p)
  THEN CHOOSE p \in Prio : Owed(cnt, p) /\ \A q \in Prio : q < p => ~Owed(cnt, q)
  ELSE NoLevel

(* Faulty: a level passed by keeps its count. *)
PassCnt_KeepsPassed(cnt) ==
  [p \in Prio |-> IF p = PassLevel(cnt) THEN cnt[p] + 1 ELSE cnt[p]]

(* Faulty: the level served is not charged. *)
PassCnt_NotCharged(cnt) ==
  [p \in Prio |-> IF p < PassLevel(cnt) THEN 0 ELSE cnt[p]]

PassCnt(cnt) ==
  [p \in Prio |-> IF p < PassLevel(cnt) THEN 0
                  ELSE IF p = PassLevel(cnt) THEN cnt[p] + 1
                  ELSE cnt[p]]

NextLevel ==
  IF PassLevel(execCnt) # NoLevel THEN PassLevel(execCnt)
  ELSE PassLevel(PassCnt(execCnt))

NextCnt ==
  IF PassLevel(execCnt) # NoLevel THEN PassCnt(execCnt)
  ELSE PassCnt(PassCnt(execCnt))

NextTask == Head(ready[NextLevel])
TakeNext == [ready EXCEPT ![NextLevel] = Tail(@)]
-----------------------------------------------------------------------------
(* kAddTaskToReadyList: refuses a priority that names no list. *)
AddReady(q, t, p) ==
  IF p \in Prio THEN [q EXCEPT ![p] = Append(@, t)] ELSE q

(* kRemoveTaskFromReadyList looks only in the list of the TCB's priority. *)
IsReady(t) == prio[t] \in Prio /\ Contains(ready[prio[t]], t)
RemoveReady(t) == [ready EXCEPT ![prio[t]] = RemoveFirst(@, t)]

(* Faulty: the successor inherits what is left of the slice. *)
SwitchTo_KeepsSlice(t) ==
  /\ running' = t
  /\ quantum' = quantum
  /\ cr3' = IF t \in user THEN t ELSE cr3
  /\ rsp0' = IF t = Shell THEN rsp0 ELSE t

(* kSwitchAddressSpace and kSwitchKernelStack, the new running task and    *)
(* its time slice.  A task with no address space borrows the loaded one;   *)
(* the shell has no stack to put in TSS.rsp0.                              *)
SwitchTo(t) ==
  /\ running' = t
  /\ quantum' = PROCESSOR_TIME
  /\ cr3' = IF t \in user THEN t ELSE cr3
  /\ rsp0' = IF t = Shell THEN rsp0 ELSE t

(* The body shared by kSchedule and kScheduleInInterrunt. *)
Dispatch ==
  /\ NextLevel # NoLevel
  /\ ready' = AddReady(TakeNext, running, prio[running])
  /\ execCnt' = NextCnt
  /\ SwitchTo(NextTask)
  /\ UNCHANGED <<inUse, user, dead, prio, waitList, reprio>>

(* Faulty: kMmDestroy does not leave the address space it destroys. *)
FreeTask_StaysInSpace(t) ==
  IF t = Shell THEN UNCHANGED <<inUse, user, cr3>>
  ELSE inUse' = inUse \ {t} /\ user' = user \ {t} /\ UNCHANGED cr3

(* kFreeTask: returns at once for a TCB without a stack, else gives back   *)
(* the stack, the address space (leaving it first if it is loaded) and the *)
(* TCB.  qwFlag keeps its last value.                                      *)
FreeTask(t) ==
  IF t = Shell THEN UNCHANGED <<inUse, user, cr3>>
  ELSE /\ inUse' = inUse \ {t}
       /\ user' = user \ {t}
       /\ cr3' = IF t \in user /\ cr3 = t THEN KernelCR3 ELSE cr3
-----------------------------------------------------------------------------
(* After kInitializeScheduler and the creation of the idle task. *)
Init ==
  /\ inUse = {Shell, Idle}
  /\ user = {}
  /\ dead = {}
  /\ prio = [t \in Task |-> IF t = Idle THEN LOWEST ELSE HIGHEST]
  /\ ready = [p \in Prio |-> IF p = LOWEST THEN <<Idle>> ELSE <<>>]
  /\ execCnt = [p \in Prio |-> 0]
  /\ waitList = <<>>
  /\ running = Shell
  /\ quantum = PROCESSOR_TIME
  /\ cr3 = KernelCR3
  /\ rsp0 = Shell
  /\ reprio = 0

(* kTimerHandler: kDecreaseProcessorTime, then kScheduleInInterrunt once   *)
(* the slice is used up.                                                   *)
TickInSlice ==
  /\ quantum > 1
  /\ quantum' = quantum - 1
  /\ UNCHANGED <<inUse, user, dead, prio, ready, execCnt, waitList, running, cr3, rsp0, reprio>>

TickSwitches == quantum <= 1 /\ Dispatch

(* Faulty: kDecreaseProcessorTime without its lower bound. *)
TickAlone_NoFloor ==
  /\ quantum <= 1 /\ NextLevel = NoLevel
  /\ quantum' = quantum - 1
  /\ execCnt' = NextCnt
  /\ UNCHANGED <<inUse, user, dead, prio, ready, waitList, running, cr3, rsp0, reprio>>

TickAlone ==
  /\ quantum <= 1 /\ NextLevel = NoLevel
  /\ quantum' = 0
  /\ execCnt' = NextCnt
  /\ UNCHANGED <<inUse, user, dead, prio, ready, waitList, running, cr3, rsp0, reprio>>

Tick == TickInSlice \/ TickSwitches \/ TickAlone

(* kSchedule: a task gives up the processor.  It returns early, touching   *)
(* nothing, when no task is ready.                                         *)
Yield == running \notin dead /\ Dispatch

(* kExitTask, the call and each turn of its loop.  A kernel thread joins   *)
(* the wait list only when a successor was found; a task with an address   *)
(* space never does.  With no successor the processor halts on the dead    *)
(* task.  The idle task never exits.                                       *)
ExitTask ==
  /\ running # Idle
  /\ dead' = dead \union {running}
  /\ prio' = [prio EXCEPT ![running] = WAIT]
  /\ execCnt' = NextCnt
  /\ \/ /\ NextLevel # NoLevel
        /\ waitList' = IF running \in user THEN waitList ELSE Append(waitList, running)
        /\ ready' = TakeNext
        /\ SwitchTo(NextTask)
     \/ /\ NextLevel = NoLevel
        /\ UNCHANGED <<waitList, ready, running, quantum, cr3, rsp0>>
  /\ UNCHANGED <<inUse, user, reprio>>

(* kSetupTask (and kForkTask's own set-up), kSetTaskMm, kAddTaskToReadyList. *)
Publish(t, p, hasMm) ==
  /\ t \in Task \ (inUse \union {Idle})
  /\ inUse' = inUse \union {t}
  /\ user' = IF hasMm THEN user \union {t} ELSE user \ {t}
  /\ dead' = dead \ {t}
  /\ prio' = [prio EXCEPT ![t] = p]
  /\ ready' = AddReady(ready, t, p)
  /\ UNCHANGED <<execCnt, waitList, running, quantum, cr3, rsp0, reprio>>

ShellRuns == running = Shell /\ Shell \notin dead

CreateTask(t, p) == ShellRuns /\ Publish(t, p, FALSE)
CreateUserTask(t) == ShellRuns /\ Publish(t, MEDIUM, TRUE)
ForkTask(t) == running \in user \ dead /\ Publish(t, MEDIUM, TRUE)

(* Faulty: kEndTask frees a dead task and leaves it on the wait list. *)
EndTask_LeavesWaitList(t) ==
  /\ ShellRuns
  /\ t \in inUse \ {Shell}
  /\ \/ t \in dead /\ UNCHANGED ready
     \/ t \notin dead /\ IsReady(t) /\ ready' = RemoveReady(t)
  /\ FreeTask(t)
  /\ UNCHANGED <<dead, prio, execCnt, waitList, running, quantum, rsp0, reprio>>

(* kEndTask for a task other than the caller.  A task that ended itself is *)
(* taken off the wait list, any other off its ready list; nothing happens  *)
(* when it is on neither.                                                  *)
EndTask(t) ==
  /\ ShellRuns
  /\ t \in inUse \ {Shell}
  /\ \/ /\ t \in dead
        /\ waitList' = RemoveFirst(waitList, t)
        /\ UNCHANGED ready
     \/ /\ t \notin dead /\ IsReady(t)
        /\ ready' = RemoveReady(t)
        /\ UNCHANGED waitList
  /\ FreeTask(t)
  /\ UNCHANGED <<dead, prio, execCnt, running, quantum, rsp0, reprio>>

(* Faulty: the flag is written before the task is looked up. *)
ChangePriority_FlagFirst(t, p) ==
  /\ ShellRuns /\ reprio < MaxReprio /\ t \in inUse
  /\ prio' = [prio EXCEPT ![t] = p]
  /\ ready' = IF t # running /\ Contains(ready[p], t)
              THEN [ready EXCEPT ![p] = Append(RemoveFirst(@, t), t)] ELSE ready
  /\ reprio' = reprio + 1
  /\ UNCHANGED <<inUse, user, dead, execCnt, waitList, running, quantum, cr3, rsp0>>

(* kChangePriority: the running task and a task on no ready list only have *)
(* their flag changed, a ready task also moves to the tail of its new list. *)
ChangePriority(t, p) ==
  /\ ShellRuns
  /\ reprio < MaxReprio
  /\ t \in inUse
  /\ prio' = [prio EXCEPT ![t] = p]
  /\ ready' = IF t # running /\ IsReady(t) THEN AddReady(RemoveReady(t), t, p) ELSE ready
  /\ reprio' = reprio + 1
  /\ UNCHANGED <<inUse, user, dead, execCnt, waitList, running, quantum, cr3, rsp0>>

(* Faulty: the idle task takes the newest entry (kRemoveListFromTail). *)
IdleReclaims_Newest ==
  /\ running = Idle
  /\ waitList # <<>>
  /\ waitList' = Front(waitList)
  /\ FreeTask(Last(waitList))
  /\ UNCHANGED <<dead, prio, ready, execCnt, running, quantum, rsp0, reprio>>

(* kIdleTask: one turn of its reclaim loop. *)
IdleReclaims ==
  /\ running = Idle
  /\ waitList # <<>>
  /\ waitList' = Tail(waitList)
  /\ FreeTask(Head(waitList))
  /\ UNCHANGED <<dead, prio, ready, execCnt, running, quantum, rsp0, reprio>>

Next ==
  \/ Tick
  \/ Yield
  \/ ExitTask
  \/ IdleReclaims
  \/ \E t \in Task :
       \/ CreateUserTask(t)
       \/ ForkTask(t)
       \/ EndTask(t)
       \/ \E p \in Prio : CreateTask(t, p) \/ ChangePriority(t, p)

Spec == Init /\ [][Next]_vars

(***************************************************************************)
(* The timer interrupt keeps coming.  The idle task, whenever it runs,     *)
(* reaches its reclaim loop within its slice: it halts at most three times *)
(* per turn and a tick ends each halt, so it cannot be put off for ever.   *)
(***************************************************************************)
FairSpec == Spec /\ WF_vars(Tick) /\ SF_vars(IdleReclaims)
-----------------------------------------------------------------------------
TypeOK ==
  /\ inUse \subseteq Task /\ user \subseteq Task /\ dead \subseteq Task
  /\ prio \in [Task -> Prio \union {WAIT}]
  /\ ready \in [Prio -> Seq(Task)]
  /\ execCnt \in [Prio -> Nat]
  /\ waitList \in Seq(Task)
  /\ running \in Task
  /\ quantum \in 0 .. PROCESSOR_TIME
  /\ cr3 \in Task \union {KernelCR3}
  /\ rsp0 \in Task
  /\ reprio \in 0 .. MaxReprio

(* A task is on a ready list exactly when it is allocated, alive and not   *)
(* running; it is there once, and on the list of its priority.  A task     *)
(* missing from the lists never runs again; one listed twice, or under a   *)
(* priority that is not its own, escapes kRemoveTaskFromReadyList and is   *)
(* dispatched after kEndTask has freed its stack.                          *)
OnRightList == \A p \in Prio : \A t \in ToSet(ready[p]) : prio[t] = p
ListedOnce == \A p \in Prio : IsInjective(ready[p])
ReadyIsAlive == AllReady \subseteq inUse \ (dead \union {running})
NoneLost == inUse \ (dead \union {running}) \subseteq AllReady
QueuesExact == OnRightList /\ ListedOnce /\ ReadyIsAlive /\ NoneLost

(* The wait list holds exactly the kernel threads that ended themselves    *)
(* and were not reclaimed, once each (the shell's TCB, which kFreeTask     *)
(* refuses, may leave it without being freed).  task.c:265                 *)
WaitListExact ==
  /\ IsInjective(waitList)
  /\ ToSet(waitList) \subseteq (inUse \cap dead) \ (user \union {running})
  /\ (inUse \cap dead) \ (user \union {running, Shell}) \subseteq ToSet(waitList)

(* The processor stays on a task that ended itself only while nothing      *)
(* else can run, so no successor is ever overlooked by kExitTask.          *)
DeadRunsOnlyAlone == running \in dead => AllReady = {}

(* The loaded page table is the kernel's or one that some allocated task   *)
(* still owns, although kernel threads run on whatever table the last user *)
(* task left behind; a running user task has its own table and its own     *)
(* stack in TSS.rsp0.  task.c:565, console_shell.c:1241                    *)
AddressSpaceLive ==
  /\ cr3 # KernelCR3 => cr3 \in inUse \cap user
  /\ running \in user => cr3 = running /\ rsp0 = running

(* kGetNextTaskToRun finds a task whenever one is ready: the second pass   *)
(* makes up for a first pass in which every level only yields.  task.c:404 *)
NextTaskFound == NextLevel = NoLevel <=> AllReady = {}

(* What QueuesExact, WaitListExact and AddressSpaceLive need besides each   *)
(* other to be kept by every step: an allocated live task has a ready list  *)
(* to go to, a dead task that still runs has none, the idle task never ends *)
(* itself, the shell's TCB is never freed, and only an allocated task owns  *)
(* an address space.                                                        *)
Bookkeeping ==
  /\ running \in inUse
  /\ user \subseteq inUse
  /\ \A t \in inUse \ dead : prio[t] \in Prio
  /\ running \in dead => prio[running] = WAIT
  /\ Idle \notin dead
  /\ Shell \in inUse \ user

IInv ==
  /\ TypeOK
  /\ QueuesExact
  /\ WaitListExact
  /\ DeadRunsOnlyAlone
  /\ AddressSpaceLive
  /\ Bookkeeping

(* A tick that uses up the slice takes the processor from its task if any  *)
(* other task is ready, and the successor starts with a whole slice.       *)
SliceEnds ==
  [][(Tick /\ quantum <= 1 /\ AllReady # {})
       => running' \in AllReady /\ quantum' = PROCESSOR_TIME]_vars

(* Every ready task runs, unless it is ended first: no level starves the   *)
(* ones below it.                                                          *)
TurnComes ==
  \A t \in Task : (t \in AllReady) ~> (running = t \/ t \notin inUse \/ t \in dead)

(* A kernel thread that ended itself is reclaimed, unless the idle task    *)
(* itself is ended.                                                        *)
DeadReclaimed ==
  \A t \in Task : (t \in ToSet(waitList)) ~> (t \notin ToSet(waitList) \/ Idle \notin inUse)
=============================================================================
