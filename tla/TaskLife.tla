------------------------------ MODULE TaskLife ------------------------------
(***************************************************************************)
(* The life of a TCB in 02.Kernel64/src/task.c, with the interleavings the *)
(* timer allows.  The shell and the idle task run with interrupts on: they *)
(* can be preempted inside kCreateTask and kAllocateTCB, kEndTask,         *)
(* kEndAllUserTasks, kFreeTask and kFreeTCB, also between the load and the *)
(* store of a ++ or --, while other tasks exit, fault and fork (each with  *)
(* interrupts off, in one step).                                           *)
(*                                                                         *)
(* Nothing guards the pool: two variables of the model record that a step  *)
(* undid another's.  After raced a TCB is linked twice into the lists,     *)
(* which the sets below cannot show.                                       *)
(*                                                                         *)
(* The lists are sets and sequences here: a list operation is one step     *)
(* (module TaskLists has what happens inside), and so are kVmapPages and   *)
(* kVfree (module Vmalloc) and kMmDestroy (module CowMm).                  *)
(* Priorities and the dispatcher are in module Scheduler.  The TCBs of the *)
(* shell and of the idle task are not in Slot.                             *)
(***************************************************************************)
EXTENDS Integers, Sequences, FiniteSets, SequencesExt

CONSTANTS
  N,           \* TCBs in the pool, less the shell's and the idle task's
  MaxMade,     \* bound on the TCBs handed out in one behaviour
  KillsMortal  \* does the user kill threads that can end themselves?

Slot == 0 .. N - 1
NoSlot == N
Kind == {"mortal", "endless", "user"}  \* kTestTask1, kTestTask2, ring 3

ASSUME TaskLifeAssumption ==
  N \in Nat \ {0} /\ MaxMade \in Nat /\ KillsMortal \in BOOLEAN

VARIABLES
  gen,      \* stLink.qwID >> 32, 0 for a free TCB
  made,     \* iAllocatedCnt
  useCnt,   \* iUseCnt
  stack,    \* pvStackAddr, 0 for NULL
  stacks,   \* stacks kVfree has not given back
  bump,     \* the address of the next stack: kVmapPages never reuses one
  mm,       \* TCBs whose poMM is not NULL
  kind,     \* what the task does
  dead,     \* TCBs with TASK_FLAG_DEAD, kept until the next kSetupTask
  ready,    \* tasks that are running or on a ready list
  wait,     \* stWaitList
  shell,    \* what the shell is doing, to which TCB; the iAllocatedCnt it read
            \* or the ID it goes by; the TCB its loop is at; the iUseCnt it
            \* read; and (only for the properties) bump when a scan began
  idle,     \* what the idle task is doing, to which TCB; the iUseCnt it read
  raced,    \* did the shell claim a TCB that a fork had claimed?
  lost      \* was a change of iUseCnt overwritten?

tcb == <<gen, made, useCnt, stack, stacks, bump, mm, kind, dead, ready, wait, raced, lost>>
vars == <<tcb, shell, idle>>

InUse == {s \in Slot : gen[s] # 0}
Prompt == [at |-> "prompt", slot |-> NoSlot, gen |-> 0, scan |-> NoSlot, val |-> 0, since |-> 0]
Halt == [at |-> "halt", slot |-> NoSlot, val |-> 0]

Init ==
  /\ gen = [s \in Slot |-> 0] /\ made = 1 /\ useCnt = 0
  /\ stack = [s \in Slot |-> 0] /\ stacks = {} /\ bump = 1
  /\ mm = {} /\ dead = {} /\ ready = {} /\ wait = <<>>
  /\ kind = [s \in Slot |-> "mortal"]
  /\ shell = Prompt /\ idle = Halt
  /\ raced = FALSE /\ lost = FALSE
-----------------------------------------------------------------------------
(* kAllocateTCB with interrupts off: the first TCB without an ID, unless   *)
(* all are counted in use.                                                 *)
Allocates(s) ==
  /\ made <= MaxMade
  /\ useCnt # N
  /\ s \in Slot \ InUse
  /\ \A r \in Slot : r < s => r \in InUse

(* Faulty: the TCB is not counted. *)
Claim_NotCounted(s) ==
  /\ gen' = [gen EXCEPT ![s] = made]
  /\ made' = made + 1
  /\ UNCHANGED <<useCnt, raced, lost>>

Claim(s) ==
  /\ gen' = [gen EXCEPT ![s] = made]
  /\ made' = made + 1
  /\ useCnt' = useCnt + 1
  /\ UNCHANGED <<raced, lost>>

(* kVmapPages, kSetupTask, kSetTaskMm, kAddTaskToReadyList.  Until it is   *)
(* on a list, nobody but its creator looks at the task.                    *)
SetUp(s, k) ==
  /\ stack' = [stack EXCEPT ![s] = bump]
  /\ stacks' = stacks \union {bump}
  /\ bump' = bump + 1
  /\ mm' = IF k = "user" THEN mm \union {s} ELSE mm \ {s}
  /\ kind' = [kind EXCEPT ![s] = k]
  /\ dead' = dead \ {s}
  /\ ready' = ready \union {s}
  /\ UNCHANGED wait

(* A counter gets the new value; the change of another task since it was   *)
(* read, if there was one, is lost.                                        *)
StoreUseCnt(read, new) ==
  /\ useCnt' = new
  /\ lost' = (lost \/ useCnt # read)
-----------------------------------------------------------------------------
(* kFreeTask and kFreeTCB with interrupts on.  One step, in which what its *)
(* caller is doing goes from p to q; in the last one the caller returns.   *)
FreeTask(p, q, returns) ==
  LET s == p.slot
      Goes(at) == q = [p EXCEPT !.at = at]
  IN
  \/ /\ p.at = "free" /\ stack[s] = 0
     /\ returns
     /\ UNCHANGED <<stack, stacks, mm, gen, useCnt, lost>>
  \/ /\ p.at = "free" /\ stack[s] # 0
     /\ Goes("vfree")
     /\ UNCHANGED <<stack, stacks, mm, gen, useCnt, lost>>
  \/ /\ p.at = "vfree"
     /\ stacks' = stacks \ {stack[s]}
     /\ Goes("forget")
     /\ UNCHANGED <<stack, mm, gen, useCnt, lost>>
  \/ /\ p.at = "forget"
     /\ stack' = [stack EXCEPT ![s] = 0]
     /\ Goes("destroy")
     /\ UNCHANGED <<stacks, mm, gen, useCnt, lost>>
  \/ /\ p.at = "destroy"
     /\ mm' = mm \ {s}
     /\ Goes("freeTCB")
     /\ UNCHANGED <<stack, stacks, gen, useCnt, lost>>
  \/ /\ p.at = "freeTCB"
     /\ gen' = [gen EXCEPT ![s] = 0]
     /\ Goes("count")
     /\ UNCHANGED <<stack, stacks, mm, useCnt, lost>>
  \/ /\ p.at = "count"
     /\ q = [p EXCEPT !.at = "counted", !.val = useCnt]
     /\ UNCHANGED <<stack, stacks, mm, gen, useCnt, lost>>
  \/ /\ p.at = "counted"
     /\ StoreUseCnt(p.val, p.val - 1)
     /\ returns
     /\ UNCHANGED <<stack, stacks, mm, gen>>
-----------------------------------------------------------------------------
(* The shell's createtask: kCreateTask and kAllocateTCB with interrupts    *)
(* on.  The number of TCBs in use is looked at first...                    *)
CreateBegins ==
  /\ shell.at = "prompt"
  /\ made <= MaxMade /\ useCnt # N
  /\ shell' = [Prompt EXCEPT !.at = "look", !.scan = 0]
  /\ UNCHANGED <<tcb, idle>>

(* ... then one TCB after the other...                                     *)
LooksOn ==
  /\ shell.at = "look" /\ shell.scan \in InUse
  /\ shell' = [shell EXCEPT !.scan = @ + 1]
  /\ UNCHANGED <<tcb, idle>>

FindsNone ==
  /\ shell.at = "look" /\ shell.scan = N
  /\ shell' = Prompt
  /\ UNCHANGED <<tcb, idle>>

FindsFree ==
  /\ shell.at = "look" /\ shell.scan \in Slot \ InUse
  /\ shell' = [Prompt EXCEPT !.at = "unread", !.slot = shell.scan]
  /\ UNCHANGED <<tcb, idle>>

(* ... and the ID is made of iAllocatedCnt and stored, wherever it is that *)
(* another task took the TCB meanwhile; then the two counters go up.       *)
ReadsAllocatedCnt ==
  /\ shell.at \in {"unread", "in"}
  /\ shell' = [shell EXCEPT !.at = IF shell.at = "unread" THEN "read" ELSE "numbered",
                            !.gen = made]
  /\ UNCHANGED <<tcb, idle>>

StoresID ==
  /\ shell.at = "read"
  /\ gen' = [gen EXCEPT ![shell.slot] = shell.gen]
  /\ raced' = (raced \/ gen[shell.slot] # 0)
  /\ shell' = [shell EXCEPT !.at = "named", !.gen = 0]
  /\ UNCHANGED <<made, useCnt, stack, stacks, bump, mm, kind, dead, ready, wait, lost, idle>>

ReadsUseCnt ==
  /\ shell.at = "named"
  /\ shell' = [shell EXCEPT !.at = "adds", !.val = useCnt]
  /\ UNCHANGED <<tcb, idle>>

StoresUseCnt ==
  /\ shell.at = "adds"
  /\ StoreUseCnt(shell.val, shell.val + 1)
  /\ shell' = [shell EXCEPT !.at = "in", !.val = 0]
  /\ UNCHANGED <<gen, made, stack, stacks, bump, mm, kind, dead, ready, wait, raced, idle>>

StoresAllocatedCnt ==
  /\ shell.at = "numbered"
  /\ made' = shell.gen + 1
  /\ shell' = [shell EXCEPT !.at = "claimed", !.gen = 0]
  /\ UNCHANGED <<gen, useCnt, stack, stacks, bump, mm, kind, dead, ready, wait, raced, lost, idle>>

CreateEnds(k) ==
  /\ shell.at = "claimed" /\ k # "user"
  /\ SetUp(shell.slot, k)
  /\ shell' = Prompt
  /\ UNCHANGED <<gen, made, useCnt, raced, lost, idle>>

(* kVmapPages found no memory for the stack: kFreeTCB. *)
CreateFails ==
  /\ shell.at = "claimed"
  /\ shell' = [shell EXCEPT !.at = "freeTCB", !.gen = gen[shell.slot]]
  /\ UNCHANGED <<tcb, idle>>

(* exec and usertest: kCreateUserTask with interrupts off; the shell then  *)
(* waits a while and calls kEndAllUserTasks.                               *)
ExecUser(s) ==
  /\ shell.at = "prompt"
  /\ Allocates(s)
  /\ Claim(s) /\ SetUp(s, "user")
  /\ shell' = [Prompt EXCEPT !.at = "scan", !.scan = 0]
  /\ UNCHANGED idle
-----------------------------------------------------------------------------
(* kEndAllUserTasks looks at one TCB after the other. *)
Since == IF shell.scan = 0 THEN bump ELSE shell.since

ScanSkips ==
  /\ shell.at = "scan" /\ shell.scan \in Slot \ mm
  /\ shell' = [shell EXCEPT !.scan = @ + 1, !.since = Since]
  /\ UNCHANGED <<tcb, idle>>

ScanEnds ==
  /\ shell.at = "scan" /\ shell.scan \in mm
  /\ shell' = [shell EXCEPT !.at = "found", !.since = Since,
                            !.slot = shell.scan, !.gen = gen[shell.scan]]
  /\ UNCHANGED <<tcb, idle>>

ScanDone ==
  /\ shell.at = "scan" /\ shell.scan = N
  /\ shell' = Prompt
  /\ UNCHANGED <<tcb, idle>>

(* The shell's killtask, with the ID of a task that exists (kEndTask finds *)
(* no TCB for any other ID).                                               *)
KillTask(s) ==
  /\ shell.at = "prompt"
  /\ s \in InUse
  /\ kind[s] = "mortal" => KillsMortal
  /\ shell' = [Prompt EXCEPT !.at = "found", !.slot = s, !.gen = gen[s]]
  /\ UNCHANGED <<tcb, idle>>

(* Faulty: the index is advanced twice after a task was ended. *)
Returns_SkipsOne ==
  shell' = IF shell.scan = NoSlot THEN Prompt
           ELSE [Prompt EXCEPT !.at = "scan", !.since = shell.since,
                               !.scan = IF shell.scan + 2 > N THEN N ELSE shell.scan + 2]

(* kEndTask returns, to kEndAllUserTasks or to the prompt. *)
Returns ==
  shell' = IF shell.scan = NoSlot THEN Prompt
           ELSE [Prompt EXCEPT !.at = "scan", !.scan = shell.scan + 1, !.since = shell.since]

(* kEndTask: a task that ended itself is taken off the wait list, if it is *)
(* still there under that ID.                                              *)
EndsDead ==
  LET s == shell.slot IN
  /\ shell.at = "found" /\ s \in dead
  /\ wait' = IF gen[s] = shell.gen THEN RemoveFirst(wait, s) ELSE wait
  /\ shell' = [shell EXCEPT !.at = "free"]
  /\ UNCHANGED <<gen, made, useCnt, stack, stacks, bump, mm, kind, dead, ready, raced, lost, idle>>

EndsAlive ==
  /\ shell.at = "found" /\ shell.slot \notin dead
  /\ shell' = [shell EXCEPT !.at = "alive"]
  /\ UNCHANGED <<tcb, idle>>

(* Faulty: the task stays on its ready list. *)
EndsReady_StaysReady ==
  /\ shell.at = "alive"
  /\ gen[shell.slot] = shell.gen /\ shell.slot \in ready
  /\ shell' = [shell EXCEPT !.at = "free"]
  /\ UNCHANGED <<tcb, idle>>

(* ... and any other off its ready list, unless it ended or was replaced   *)
(* since kEndTask looked at its flag.                                      *)
EndsReady ==
  LET s == shell.slot IN
  /\ shell.at = "alive"
  /\ gen[s] = shell.gen /\ s \in ready
  /\ ready' = ready \ {s}
  /\ shell' = [shell EXCEPT !.at = "free"]
  /\ UNCHANGED <<gen, made, useCnt, stack, stacks, bump, mm, kind, dead, wait, raced, lost, idle>>

EndsMissed ==
  /\ shell.at = "alive"
  /\ gen[shell.slot] # shell.gen \/ shell.slot \notin ready
  /\ Returns
  /\ UNCHANGED <<tcb, idle>>

(* kFreeTask, called by kEndTask, and kFreeTCB, called by kCreateTask too. *)
ShellFrees ==
  /\ FreeTask(shell, shell', Returns)
  /\ UNCHANGED <<made, bump, kind, dead, ready, wait, raced, idle>>
-----------------------------------------------------------------------------
(* kIdleTask: the head of the wait list, with interrupts off; then         *)
(* kFreeTask with interrupts on.                                           *)
IdlePops ==
  /\ idle.at = "halt" /\ wait # <<>>
  /\ idle' = [Halt EXCEPT !.at = "free", !.slot = Head(wait)]
  /\ wait' = Tail(wait)
  /\ UNCHANGED <<gen, made, useCnt, stack, stacks, bump, mm, kind, dead, ready, raced, lost, shell>>

IdleFrees ==
  /\ FreeTask(idle, idle', idle' = Halt)
  /\ UNCHANGED <<made, bump, kind, dead, ready, wait, raced, shell>>
-----------------------------------------------------------------------------
(* kExitTask called by a kernel thread. *)
ExitTask(s) ==
  /\ s \in ready /\ kind[s] = "mortal"
  /\ ready' = ready \ {s}
  /\ dead' = dead \union {s}
  /\ wait' = Append(wait, s)
  /\ UNCHANGED <<gen, made, useCnt, stack, stacks, bump, mm, kind, raced, lost, shell, idle>>

(* Faulty: kExitTask puts every task on the wait list. *)
UserFaults_Waits(s) ==
  /\ s \in ready /\ kind[s] = "user"
  /\ ready' = ready \ {s}
  /\ dead' = dead \union {s}
  /\ wait' = Append(wait, s)
  /\ UNCHANGED <<gen, made, useCnt, stack, stacks, bump, mm, kind, raced, lost, shell, idle>>

(* A user task is killed by a fault: kExitTask, without the wait list. *)
UserFaults(s) ==
  /\ s \in ready /\ kind[s] = "user"
  /\ ready' = ready \ {s}
  /\ dead' = dead \union {s}
  /\ UNCHANGED <<gen, made, useCnt, stack, stacks, bump, mm, kind, wait, raced, lost, shell, idle>>

(* kSysFork, kForkTask. *)
Fork(s, c) ==
  /\ s \in ready /\ kind[s] = "user"
  /\ Allocates(c)
  /\ Claim(c) /\ SetUp(c, "user")
  /\ UNCHANGED <<shell, idle>>

(* kForkTask or kCreateUserTask finds no memory for the stack and frees    *)
(* the TCB again.                                                          *)
NoStack ==
  /\ shell.at = "prompt" \/ \E s \in ready : kind[s] = "user"
  /\ \E c \in Slot : Allocates(c)
  /\ made' = made + 1
  /\ UNCHANGED <<gen, useCnt, stack, stacks, bump, mm, kind, dead, ready, wait, raced, lost, shell, idle>>

(* Nothing is left to create and nothing runs. *)
Quiet ==
  /\ shell.at = "prompt" /\ idle.at = "halt" /\ wait = <<>> /\ made > MaxMade
  /\ UNCHANGED vars

Next ==
  \/ CreateBegins \/ LooksOn \/ FindsNone \/ FindsFree
  \/ ReadsAllocatedCnt \/ StoresID \/ ReadsUseCnt \/ StoresUseCnt \/ StoresAllocatedCnt
  \/ \E k \in Kind : CreateEnds(k)
  \/ CreateFails
  \/ \E s \in Slot : ExecUser(s) \/ KillTask(s)
  \/ ScanSkips \/ ScanEnds \/ ScanDone
  \/ EndsDead \/ EndsAlive \/ EndsReady \/ EndsMissed
  \/ ShellFrees \/ IdlePops \/ IdleFrees
  \/ \E s \in Slot : ExitTask(s) \/ UserFaults(s) \/ \E c \in Slot : Fork(s, c)
  \/ NoStack \/ Quiet

Spec == Init /\ [][Next]_vars
-----------------------------------------------------------------------------
Creating == {"look", "unread", "read", "named", "adds", "in", "numbered", "claimed"}
Freeing == {"vfree", "forget", "destroy", "freeTCB", "count", "counted"}

TypeOK ==
  /\ gen \in [Slot -> Nat] /\ made \in Nat \ {0}
  /\ useCnt \in Int
  /\ stack \in [Slot -> Nat] /\ bump \in Nat \ {0} /\ stacks \subseteq 1 .. bump - 1
  /\ mm \subseteq Slot /\ dead \subseteq Slot /\ ready \subseteq Slot
  /\ kind \in [Slot -> Kind]
  /\ wait \in Seq(Slot)
  /\ shell \in [at : {"prompt", "scan", "found", "alive", "free"} \union Creating \union Freeing,
                slot : Slot \union {NoSlot}, gen : Nat, scan : 0 .. N, val : Int, since : Nat]
  /\ idle \in [at : {"halt", "free"} \union Freeing, slot : Slot \union {NoSlot}, val : Int]
  /\ raced \in BOOLEAN /\ lost \in BOOLEAN

(* A task that can run has its own TCB and a stack.                        *)
RunnableHasStack ==
  \A s \in ready : gen[s] # 0 /\ stack[s] \in stacks

(* What iUseCnt still lacks, and what it still counts, in the middle of    *)
(* kAllocateTCB and kFreeTCB.                                              *)
Uncounted == IF shell.at \in {"named", "adds"} THEN 1 ELSE 0
Overcounted(p) == IF p.at \in {"count", "counted"} THEN 1 ELSE 0

(* Stacks that kVfree gave back and whose address is still in the TCB. *)
GivenBack == {stack[p.slot] : p \in {q \in {shell, idle} : q.at = "forget"}}

(* No task is freed while it can still be dispatched, and a stack is given *)
(* back once, with the TCB it belongs to, and not lost, whoever frees it   *)
(* (task.c:222).  iUseCnt is the number of TCBs in use, until a change of  *)
(* it is lost.  All this as long as the shell's kAllocateTCB did not take  *)
(* the TCB a fork had taken since the shell saw it free.                   *)
StacksAccounted ==
  ~raced =>
    /\ TypeOK /\ RunnableHasStack
    /\ stacks = {stack[s] : s \in Slot} \ ({0} \union GivenBack)
    /\ \A r, s \in Slot : stack[r] = stack[s] /\ stack[r] # 0 => r = s
    /\ \A s \in Slot : stack[s] # 0 => gen[s] # 0
    /\ lost \/ useCnt + Uncounted = Cardinality(InUse) + Overcounted(shell) + Overcounted(idle)

(* Between the moment kEndTask finds a TCB and the moment it frees it, the *)
(* TCB is not freed or reused by anyone else.                              *)
TargetStays ==
  shell.at \in {"found", "alive", "free", "vfree", "forget", "destroy", "freeTCB"} =>
    gen[shell.slot] = shell.gen

(* What the idle task frees is a kernel thread that ended: "only kernel    *)
(* threads without an address space are reclaimed by the idle task",       *)
(* task.c:265.                                                             *)
IdleFreesEnded ==
  ~raced /\ idle.at \notin {"halt", "count", "counted"} =>
    gen[idle.slot] # 0 /\ idle.slot \in dead \ (ready \union mm)

(* "User tasks that have an address space are cleared away by kEndTask and *)
(* kEndAllUserTasks", task.c:265-266: past its one check, kFreeTask called *)
(* by the idle task never has the TCB of a user task in its hands.         *)
IdleSparesUsers ==
  idle.at \in {"vfree", "forget", "destroy", "freeTCB"} => idle.slot \notin mm

(* "Ends all tasks that have an address space, so that the children made   *)
(* by fork are cleared too", task.c:206: when the scan of kEndAllUserTasks *)
(* is over, it has ended the right tasks, and the user tasks left are      *)
(* children forked after it began or tasks that died under kEndTask's      *)
(* hands; none that was there before goes on running.                      *)
UsersEnded ==
  ~raced =>
    /\ TargetStays
    /\ shell.at = "scan" /\ shell.scan = N =>
         \A s \in mm \cap ready : stack[s] >= shell.since
=============================================================================
