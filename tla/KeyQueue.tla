------------------------------ MODULE KeyQueue ------------------------------
(***************************************************************************)
(* The ring buffer of 02.Kernel64/src/queue.c as the keyboard driver uses  *)
(* it: the interrupt handler puts keys in; kGetKeyFromKeyQueue, which only *)
(* the shell calls, looks whether the queue is empty with interrupts on,   *)
(* first at the indices and then at the flag, and takes a key with         *)
(* interrupts off, so that keys come in between.                           *)
(***************************************************************************)
EXTENDS Naturals, Sequences

CONSTANTS
  Data,         \* keys
  MaxDataCnt,   \* iMaxDataCnt: KEY_MAX_QUEUE_SIZE, not zero
  None          \* no key

VARIABLES
  arr,          \* pvQueueArr
  putIdx,       \* iPutIdx
  getIdx,       \* iGetIdx
  lastOpPut,    \* bLastOpPut
  reader,       \* "idle", "flag": found equal indices, or "get": found a key
  got           \* what the last call gave the shell, None for FALSE

vars == <<arr, putIdx, getIdx, lastOpPut, reader, got>>

Index == 0 .. MaxDataCnt - 1
Full == getIdx = putIdx /\ lastOpPut
Empty == getIdx = putIdx /\ ~lastOpPut

(* kInitializeQueue.  The buffer is a static array.                        *)
Init ==
  /\ arr = [i \in Index |-> None] /\ putIdx = 0 /\ getIdx = 0
  /\ lastOpPut = FALSE
  /\ reader = "idle" /\ got = None

(* Faulty: no test for a full queue. *)
PutQueue_NoTest(x) ==
  /\ arr' = [arr EXCEPT ![putIdx] = x]
  /\ putIdx' = (putIdx + 1) % MaxDataCnt
  /\ lastOpPut' = TRUE
  /\ UNCHANGED <<getIdx, reader, got>>

(* kPutQueue in the interrupt handler; a full queue drops the key.         *)
PutQueue(x) ==
  /\ ~Full
  /\ arr' = [arr EXCEPT ![putIdx] = x]
  /\ putIdx' = (putIdx + 1) % MaxDataCnt
  /\ lastOpPut' = TRUE
  /\ UNCHANGED <<getIdx, reader, got>>

(* kIsQueueEmpty in kGetKeyFromKeyQueue, before interrupts are off.        *)
Looks ==
  /\ reader = "idle"
  /\ reader' = IF getIdx = putIdx THEN "flag" ELSE "get"
  /\ UNCHANGED <<arr, putIdx, getIdx, lastOpPut, got>>

SeesEmpty ==
  /\ reader = "flag" /\ ~lastOpPut
  /\ reader' = "idle"
  /\ got' = None
  /\ UNCHANGED <<arr, putIdx, getIdx, lastOpPut>>

SeesFull ==
  /\ reader = "flag" /\ lastOpPut
  /\ reader' = "get"
  /\ UNCHANGED <<arr, putIdx, getIdx, lastOpPut, got>>

(* kGetQueue, with interrupts off, looks again.                            *)
GetQueue ==
  /\ reader = "get"
  /\ IF Empty
     THEN got' = None /\ UNCHANGED <<getIdx, lastOpPut>>
     ELSE /\ got' = arr[getIdx]
          /\ getIdx' = (getIdx + 1) % MaxDataCnt
          /\ lastOpPut' = FALSE
  /\ reader' = "idle"
  /\ UNCHANGED <<arr, putIdx>>

Read == Looks \/ SeesEmpty \/ SeesFull \/ GetQueue

Next == Read \/ \E x \in Data : PutQueue(x)

Spec == Init /\ [][Next]_vars
-----------------------------------------------------------------------------
(* Every variable has the type of the C object it stands for.              *)
TypeOK ==
  /\ arr \in [Index -> Data \union {None}]
  /\ putIdx \in Index /\ getIdx \in Index /\ lastOpPut \in BOOLEAN
  /\ reader \in {"idle", "flag", "get"} /\ got \in Data \union {None}

(* The keys in the buffer, oldest first.                                   *)
Count == IF Full THEN MaxDataCnt
         ELSE IF putIdx >= getIdx THEN putIdx - getIdx ELSE putIdx + MaxDataCnt - getIdx
Contents == [i \in 1 .. Count |-> arr[(getIdx + i - 1) % MaxDataCnt]]

(* Two indices and one flag are a bounded queue, also when the handler     *)
(* fills it between the look and the get: no key comes out twice, out of   *)
(* order or from a slot never written, and the shell is told that there is *)
(* none only when there is none.                                           *)
Fifo == INSTANCE BoundedFifo WITH fifo <- Contents
FifoKept == Fifo!Spec
=============================================================================
