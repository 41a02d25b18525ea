----------------------------- MODULE TaskLists -----------------------------
(***************************************************************************)
(* The list of 02.Kernel64/src/list.c, pointer by pointer, as the kernel   *)
(* uses it: the shell adds a new task (kCreateTask) or takes one out       *)
(* (kEndTask) with interrupts on, and between any two of its memory        *)
(* accesses the timer interrupt, a system call or the idle task with       *)
(* interrupts off may take the first task or append one.                   *)
(*                                                                         *)
(* The code does not exclude these.  Module Scheduler takes each list      *)
(* operation as one step; this module says when that is right: at which    *)
(* places an interrupt does no harm, and that the list then is the queue   *)
(* the scheduler believes it to be.  A behaviour ends when an interrupt    *)
(* comes at one of the other places (`torn').                              *)
(***************************************************************************)
EXTENDS Naturals, Sequences, SequencesExt

CONSTANTS
  Task,       \* TCBs
  NULL

ASSUME TaskListsAssumption == NULL \notin Task

VARIABLES
  head, tail, count,   \* poHead, poTail, iItemSize
  next,                \* poNext of every TCB's link
  op,                  \* the shell's call: where it is, its task and locals
  fifo,                \* the queue the list stands for
  torn                 \* an interrupt came where it does harm

listVars == <<head, tail, count, next, op, fifo, torn>>
list == <<head, tail, count, next, fifo>>

Idle == [pc |-> "idle", item |-> NULL, link |-> NULL, prev |-> NULL, tmp |-> NULL, stays |-> FALSE]
At(pc) == op.pc = pc
Step(from, to) == At(from) /\ op' = [op EXCEPT !.pc = to]
Return(from) == At(from) /\ op' = Idle

(* The links lead from poHead through the tasks of the queue and no other. *)
Linked ==
  /\ head = IF fifo = <<>> THEN NULL ELSE Head(fifo)
  /\ \A i \in DOMAIN fifo :
       next[fifo[i]] = IF i = Len(fifo) THEN NULL ELSE fifo[i + 1]
-----------------------------------------------------------------------------
(* kAddListToTail, as kCreateTask calls it. `op.pc' names the access that  *)
(* comes next.                                                             *)
AddBegins(t) ==
  /\ At("idle") /\ ~Contains(fifo, t)
  /\ op' = [Idle EXCEPT !.pc = "read head", !.item = t]
  /\ next' = [next EXCEPT ![t] = NULL]
  /\ UNCHANGED <<head, tail, count, fifo, torn>>

ReadHead == Step("read head", IF head = NULL THEN "set head" ELSE "read tail") /\ UNCHANGED <<list, torn>>

SetHead ==
  /\ Step("set head", "set tail")
  /\ head' = op.item
  /\ fifo' = Append(fifo, op.item)
  /\ UNCHANGED <<tail, count, next, torn>>

SetTail == Step("set tail", "set one") /\ tail' = op.item /\ UNCHANGED <<head, count, next, fifo, torn>>
SetOne == Return("set one") /\ count' = 1 /\ UNCHANGED <<head, tail, next, fifo, torn>>

ReadTail ==
  /\ At("read tail")
  /\ op' = [op EXCEPT !.pc = "link", !.link = tail]
  /\ UNCHANGED <<list, torn>>

LinkTail ==
  /\ Step("link", "move tail")
  /\ next' = [next EXCEPT ![op.link] = op.item]
  /\ fifo' = Append(fifo, op.item)
  /\ UNCHANGED <<head, tail, count, torn>>

(* Faulty: the tail stays where it was. *)
MoveTail_Forgets == Step("move tail", "read count") /\ UNCHANGED <<list, torn>>

MoveTail == Step("move tail", "read count") /\ tail' = op.item /\ UNCHANGED <<head, count, next, fifo, torn>>

(* ++iItemSize and --iItemSize load, change and store.                     *)
ReadCount ==
  /\ op.pc \in {"read count", "read down"}
  /\ op' = [op EXCEPT !.pc = IF @ = "read count" THEN "write count" ELSE "write down", !.tmp = count]
  /\ UNCHANGED <<list, torn>>

WriteCount == Return("write count") /\ count' = op.tmp + 1 /\ UNCHANGED <<head, tail, next, fifo, torn>>
WriteDown == Return("write down") /\ count' = op.tmp - 1 /\ UNCHANGED <<head, tail, next, fifo, torn>>

AddSteps ==
  \/ ReadHead \/ SetHead \/ SetTail \/ SetOne
  \/ ReadTail \/ LinkTail \/ MoveTail \/ ReadCount \/ WriteCount \/ WriteDown
-----------------------------------------------------------------------------
(* kRemoveList, as kEndTask calls it: walk to the task asked for, ...      *)
RemoveBegins(t) ==
  /\ At("idle")
  /\ op' = [Idle EXCEPT !.pc = "read first", !.item = t, !.stays = Contains(fifo, t)]
  /\ UNCHANGED <<list, torn>>

ReadFirst ==
  /\ At("read first")
  /\ op' = [op EXCEPT !.pc = "loop", !.prev = head, !.link = head]
  /\ UNCHANGED <<list, torn>>

Compare ==
  /\ op.link # NULL
  /\ Step("loop", IF op.link = op.item THEN "is head" ELSE "step")
  /\ UNCHANGED <<list, torn>>

(* Faulty: the walk ends before the tail. *)
Advance_StopsEarly ==
  /\ At("step")
  /\ op' = [op EXCEPT !.pc = "loop", !.prev = op.link, !.link = IF next[@] = tail THEN NULL ELSE next[@]]
  /\ UNCHANGED <<list, torn>>

Advance ==
  /\ At("step")
  /\ op' = [op EXCEPT !.pc = "loop", !.prev = op.link, !.link = next[op.link]]
  /\ UNCHANGED <<list, torn>>

NotFound == op.link = NULL /\ Return("loop") /\ UNCHANGED <<list, torn>>

(* ... find out where it is: the only one, the first, the last, between,   *)
IsHead == Step("is head", IF op.link = head THEN "is only" ELSE "is tail") /\ UNCHANGED <<list, torn>>
IsOnly == Step("is only", IF op.link = tail THEN "clear head" ELSE "is first") /\ UNCHANGED <<list, torn>>
IsFirst == Step("is first", IF op.link = head THEN "load first" ELSE "is tail") /\ UNCHANGED <<list, torn>>
IsTail == Step("is tail", IF op.link = tail THEN "new tail" ELSE "load mid") /\ UNCHANGED <<list, torn>>

(* ... and take it out.                                                    *)
Without == fifo' = RemoveFirst(fifo, op.item)

ClearHead == Step("clear head", "clear tail") /\ head' = NULL /\ Without /\ UNCHANGED <<tail, count, next, torn>>
ClearTail == Step("clear tail", "read down") /\ tail' = NULL /\ UNCHANGED <<head, count, next, fifo, torn>>

LoadNext ==
  /\ op.pc \in {"load first", "load mid"}
  /\ op' = [op EXCEPT !.pc = IF @ = "load first" THEN "store first" ELSE "store mid", !.tmp = next[op.link]]
  /\ UNCHANGED <<list, torn>>

StoreFirst == Step("store first", "read down") /\ head' = op.tmp /\ Without /\ UNCHANGED <<tail, count, next, torn>>

StoreMid ==
  /\ Step("store mid", "read down")
  /\ next' = [next EXCEPT ![op.prev] = op.tmp]
  /\ Without
  /\ UNCHANGED <<head, tail, count, torn>>

NewTail == Step("new tail", "cut") /\ tail' = op.prev /\ Without /\ UNCHANGED <<head, count, next, torn>>
Cut == Step("cut", "read down") /\ next' = [next EXCEPT ![op.prev] = NULL] /\ UNCHANGED <<head, tail, count, fifo, torn>>

RemoveSteps ==
  \/ ReadFirst \/ Compare \/ Advance \/ NotFound
  \/ IsHead \/ IsOnly \/ IsFirst \/ IsTail
  \/ ClearHead \/ ClearTail \/ LoadNext \/ StoreFirst \/ StoreMid \/ NewTail \/ Cut
-----------------------------------------------------------------------------
(* Where an interrupt that appends a task does harm: kAddListToTail has    *)
(* seen an empty list or read the old tail; kRemoveList has found its task *)
(* to be the tail; either has read the count but not stored it; or nothing *)
(* is linked but the count says otherwise, and is set to one.              *)
AppendHarms ==
  \/ op.pc \in {"set head", "set tail", "set one", "link", "move tail", "write count",
                "clear head", "clear tail", "new tail", "cut", "write down"}
  \/ head = NULL /\ count # 0

(* Where one that takes the first task does: it empties a list that        *)
(* kAddListToTail saw filled; it takes the task kRemoveList stands on, or, *)
(* once that has been compared with the head, the one before it; nothing   *)
(* is linked but the count says otherwise; or the count is being changed.  *)
TakeHarms ==
  \/ op.pc \in {"write count", "write down"}
  \/ op.pc \in {"read tail", "link", "move tail"} /\ head = tail
  \/ /\ op.pc \in {"loop", "step", "is head", "is only", "is first", "is tail",
                    "clear head", "load first", "store first", "load mid", "store mid", "new tail"}
     /\ head = op.link
  \/ op.pc \in {"is tail", "load mid", "store mid", "new tail"} /\ head = op.prev
  \/ head = NULL

(* kAddListToTail with interrupts off: the timer puts the task it stopped  *)
(* back, fork adds a child, kExitTask adds to the wait list.               *)
AppendsInInterrupt(t) ==
  /\ ~torn /\ ~Contains(fifo, t) /\ t # op.item
  /\ torn' = AppendHarms
  /\ fifo' = Append(fifo, t)
  /\ IF head = NULL
     THEN head' = t /\ tail' = t /\ count' = 1 /\ next' = [next EXCEPT ![t] = NULL]
     ELSE /\ tail' = t /\ count' = count + 1
          /\ next' = [x \in Task |-> IF x = tail THEN t ELSE IF x = t THEN NULL ELSE next[x]]
          /\ head' = head
  /\ UNCHANGED op

(* kRemoveListFromHead with interrupts off: the timer picks the next task, *)
(* the idle task reclaims one.                                             *)
TakesInInterrupt ==
  /\ ~torn /\ count > 0
  /\ torn' = TakeHarms
  /\ IF head = NULL THEN UNCHANGED list     \* a null pointer is followed
     ELSE /\ head' = IF head = tail THEN NULL ELSE next[head]
          /\ tail' = IF head = tail THEN NULL ELSE tail
          /\ count' = count - 1
          /\ fifo' = Tail(fifo)
          /\ UNCHANGED next
  /\ op' = [op EXCEPT !.stays = @ /\ head # op.item]
-----------------------------------------------------------------------------
(* kInitializeList *)
ListInit ==
  /\ head = NULL /\ tail = NULL /\ count = 0
  /\ next = [t \in Task |-> NULL]
  /\ op = Idle /\ fifo = <<>> /\ torn = FALSE

ListNext ==
  \/ /\ ~torn
     /\ (\E t \in Task : AddBegins(t) \/ RemoveBegins(t)) \/ AddSteps \/ RemoveSteps
  \/ \E t \in Task : AppendsInInterrupt(t)
  \/ TakesInInterrupt
  \/ torn /\ UNCHANGED listVars

ListSpec == ListInit /\ [][ListNext]_listVars
-----------------------------------------------------------------------------
Whole(pc) == pc \in {"idle", "read head", "read tail", "read first", "loop", "step", "is head", "is only",
                     "is first", "is tail", "clear head", "load first", "store first", "load mid",
                     "store mid", "new tail"}

(* The list is the queue it stands for: its nodes in order, its tail and   *)
(* its count, whenever no call is in the middle of changing it, if no      *)
(* interrupt came where it does harm.  task.c:123, task.c:321, list.c:17   *)
ListIsQueue ==
  /\ head \in Task \union {NULL} /\ tail \in Task \union {NULL}
  /\ ~torn /\ Whole(op.pc) =>
       /\ Linked
       /\ count = Len(fifo)
       /\ fifo # <<>> => tail = Last(fifo)

(* kRemoveList finds a task that is in the list during the whole call,     *)
(* whatever joins or leaves the list meanwhile, and an interrupt never     *)
(* takes another task than the oldest.  list.c:53                          *)
FindsWhatStays ==
  ~torn => /\ At("loop") /\ op.link = NULL => ~op.stays
           /\ head # NULL /\ fifo # <<>> => head = Head(fifo)
=============================================================================
