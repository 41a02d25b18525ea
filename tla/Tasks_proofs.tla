---------------------------- MODULE Tasks_proofs ----------------------------
(***************************************************************************)
(* Proofs about modules TaskLists and TaskLife, for any number of tasks.   *)
(*                                                                         *)
(* TaskLists: at every memory access of kAddListToTail and kRemoveList the *)
(* links, the tail and the count are those of the queue, but for what the  *)
(* access that comes next will mend, as long as no interrupt comes where   *)
(* it does harm.                                                           *)
(*                                                                         *)
(* TaskLife: whoever frees a task, its stack is given back once and not    *)
(* while the task can run, and kEndAllUserTasks ends the right tasks, as   *)
(* long as the shell's kAllocateTCB takes no TCB that a fork has taken.    *)
(***************************************************************************)
EXTENDS TaskLists, TaskLife, KernelLemmas, FiniteSetTheorems

USE TaskListsAssumption

-----------------------------------------------------------------------------
Link == Task \union {NULL}
Pc == {"idle", "read head", "set head", "set tail", "set one", "read tail", "link", "move tail",
       "read count", "write count", "read first", "loop", "step", "is head", "is only", "is first",
       "is tail", "clear head", "clear tail", "load first", "store first", "load mid", "store mid",
       "new tail", "cut", "read down", "write down"}
Op == [pc : Pc, item : Link, link : Link, prev : Link, tmp : Link \union Nat, stays : BOOLEAN]

Types ==
  /\ head \in Link /\ tail \in Link /\ count \in Nat
  /\ next \in [Task -> Link] /\ fifo \in Seq(Task)
  /\ op \in Op /\ torn \in BOOLEAN

In(t) == \E i \in 1 .. Len(fifo) : fifo[i] = t

(* The links and the tail, with what the access that comes next will mend. *)
Distinct == \A i, j \in 1 .. Len(fifo) : fifo[i] = fifo[j] => i = j
HeadFirst == (Len(fifo) = 0 => head = NULL) /\ (Len(fifo) > 0 => head = fifo[1])
Chained == \A i \in 1 .. Len(fifo) - 1 : next[fifo[i]] = fifo[i + 1]
EndsThere == Len(fifo) > 0 /\ op.pc # "cut" => next[fifo[Len(fifo)]] = NULL
TailLast == Len(fifo) > 0 /\ op.pc # "set tail" /\ op.pc # "move tail" => tail = fifo[Len(fifo)]

Shape == Distinct /\ HeadFirst /\ Chained /\ EndsThere /\ TailLast

Short == {"set tail", "set one", "move tail", "read count", "write count"}
Long == {"clear tail", "cut", "read down", "write down"}

Counted ==
  /\ op.pc \in Short => count + 1 = Len(fifo)
  /\ op.pc \in Long => count = Len(fifo) + 1
  /\ op.pc \notin Short \union Long => count = Len(fifo)

(* What kAddListToTail knows at each of its accesses.                      *)
Adds ==
  /\ op.pc \in {"read head", "set head", "read tail", "link"} =>
       op.item \in Task /\ ~In(op.item) /\ next[op.item] = NULL
  /\ op.pc = "set head" => Len(fifo) = 0
  /\ op.pc \in {"set tail", "set one"} => Len(fifo) = 1 /\ fifo[1] = op.item
  /\ op.pc \in {"read tail", "link"} => Len(fifo) > 0
  /\ op.pc = "link" => op.link = tail
  /\ op.pc = "move tail" => /\ Len(fifo) > 1 /\ tail = fifo[Len(fifo) - 1]
                            /\ op.item = fifo[Len(fifo)]
  /\ op.pc \in {"write count", "write down"} => op.tmp = count

(* Where kRemoveList stands, and what it knows of the task asked for.      *)
Stands(k) == op.link = fifo[k] /\ (k > 1 => op.prev = fifo[k - 1])
AtFirst == {"is only", "clear head", "is first", "load first", "store first"}
Behind == {"is tail", "load mid", "store mid", "new tail"}
Found == {"is head"} \union AtFirst \union Behind

Branch(k) ==
  /\ op.pc \in AtFirst => k = 1
  /\ op.pc = "clear head" => Len(fifo) = 1
  /\ op.pc \in {"is first", "load first", "store first"} => Len(fifo) > 1
  /\ op.pc \in Behind => k > 1
  /\ op.pc = "new tail" => k = Len(fifo)
  /\ op.pc \in {"load mid", "store mid"} => k < Len(fifo)
  /\ op.pc \in {"store first", "store mid"} => op.tmp = fifo[k + 1]

StaysIn == op.stays <=> In(op.item)
Passed == \E k \in 1 .. Len(fifo) : Stands(k) /\ \A j \in 1 .. k - 1 : fifo[j] # op.item
Compared == \E k \in 1 .. Len(fifo) : Stands(k) /\ \A j \in 1 .. k : fifo[j] # op.item
Branched == \E k \in 1 .. Len(fifo) : Stands(k) /\ Branch(k)

Removes ==
  /\ op.pc \in {"read first", "loop", "step"} \union Found => StaysIn
  /\ op.pc = "loop" => (op.link = NULL /\ ~op.stays) \/ Passed
  /\ op.pc = "step" => Compared
  /\ op.pc \in Found => op.link = op.item /\ Branched
  /\ op.pc = "clear tail" => Len(fifo) = 0
  /\ op.pc = "cut" /\ Len(fifo) > 0 => op.prev = fifo[Len(fifo)]

Good == Shape /\ Counted /\ Adds /\ Removes
ListInv == Types /\ (~torn => Good)
-----------------------------------------------------------------------------
(* A place in a queue of n tasks.                                          *)
LEMMA InRange ==
  ASSUME NEW n \in Nat, NEW k \in 1 .. n
  PROVE  /\ k \in Nat /\ n - 1 \in Nat /\ n > 0 /\ 1 \in 1 .. n /\ n \in 1 .. n
         /\ \A j \in 1 .. k : j \in 1 .. k - 1 \/ j = k
         /\ k < n => k \in 1 .. n - 1 /\ k + 1 \in 1 .. n
         /\ k > 1 => k - 1 \in 1 .. n - 1 /\ k - 1 \in 1 .. n /\ n > 1
         /\ n > 1 => 1 \in 1 .. n - 1 /\ 2 \in 1 .. n
OBVIOUS

(* The tasks of the queue are distinct, and none is NULL.                  *)
LEMMA Nodes ==
  ASSUME Types, Shape
  PROVE  /\ fifo \in Seq(Task) /\ Len(fifo) \in Nat
         /\ \A i \in 1 .. Len(fifo) : fifo[i] \in Task /\ fifo[i] # NULL
         /\ head = NULL => Len(fifo) = 0
         /\ head # NULL => Len(fifo) > 0
         /\ fifo = <<>> <=> Len(fifo) = 0
<1>1. fifo \in Seq(Task) /\ Len(fifo) \in Nat
  BY DEF Types
<1>2. \A i \in 1 .. Len(fifo) : fifo[i] \in Task /\ fifo[i] # NULL
  BY <1>1
<1>3. (head = NULL => Len(fifo) = 0) /\ (head # NULL => Len(fifo) > 0)
  <2>1. CASE Len(fifo) = 0
    BY <2>1 DEF Shape, HeadFirst
  <2>2. CASE Len(fifo) > 0
    <3>1. 1 \in 1 .. Len(fifo)
      BY <1>1, <2>2
    <3>2. head = fifo[1]
      BY <2>2 DEF Shape, HeadFirst
    <3>3. head # NULL
      BY <1>2, <3>1, <3>2
    <3>. QED  BY <2>2, <3>3
  <2>. QED  BY <1>1, <2>1, <2>2
<1>4. fifo = <<>> <=> Len(fifo) = 0
  BY <1>1
<1>. QED  BY <1>1, <1>2, <1>3, <1>4

(* What becomes of the places in the queue when a task joins it, the first *)
(* is taken, or the k-th is taken out.                                     *)
LEMMA FifoAppend ==
  ASSUME Types, Shape, NEW t \in Task, ~In(t), fifo' = Append(fifo, t)
  PROVE  /\ fifo' \in Seq(Task) /\ Len(fifo') = Len(fifo) + 1 /\ Len(fifo) \in Nat
         /\ \A i \in 1 .. Len(fifo) : fifo'[i] = fifo[i] /\ fifo[i] # t
         /\ fifo'[Len(fifo) + 1] = t
         /\ Distinct'
<1>1. fifo \in Seq(Task) /\ DOMAIN fifo = 1 .. Len(fifo) /\ Len(fifo) \in Nat
  BY DEF Types
<1>2. \A i \in 1 .. Len(fifo) : fifo[i] # t
  BY DEF In
<1>3. IsInjective(fifo)
  BY <1>1 DEF Shape, Distinct, IsInjective
<1>4. /\ fifo' \in Seq(Task) /\ Len(fifo') = Len(fifo) + 1
      /\ \A i \in 1 .. Len(fifo) : fifo'[i] = fifo[i]
      /\ fifo'[Len(fifo) + 1] = t /\ IsInjective(fifo')
  BY <1>1, <1>2, <1>3, AppendAt
<1>5. DOMAIN fifo' = 1 .. Len(fifo')
  BY <1>4
<1>6. Distinct'
  BY <1>4, <1>5 DEF Distinct, IsInjective
<1>. QED  BY <1>1, <1>2, <1>4, <1>6

LEMMA FifoTail ==
  ASSUME Types, Shape, Len(fifo) > 0, fifo' = Tail(fifo)
  PROVE  /\ fifo' \in Seq(Task) /\ Len(fifo') = Len(fifo) - 1 /\ Len(fifo) \in Nat
         /\ \A i \in 1 .. Len(fifo) - 1 : fifo'[i] = fifo[i + 1]
         /\ Distinct'
<1>1. fifo \in Seq(Task) /\ DOMAIN fifo = 1 .. Len(fifo) /\ Len(fifo) \in Nat
  BY DEF Types
<1>2. IsInjective(fifo)
  BY <1>1 DEF Shape, Distinct, IsInjective
<1>3. /\ fifo' \in Seq(Task) /\ Len(fifo') = Len(fifo) - 1
      /\ \A i \in 1 .. Len(fifo) - 1 : fifo'[i] = fifo[i + 1]
      /\ IsInjective(fifo')
  BY <1>1, <1>2, TailAt
<1>4. DOMAIN fifo' = 1 .. Len(fifo')
  BY <1>3
<1>5. Distinct'
  BY <1>3, <1>4 DEF Distinct, IsInjective
<1>. QED  BY <1>1, <1>3, <1>5

LEMMA FifoWithout ==
  ASSUME Types, Shape, NEW k \in 1 .. Len(fifo), fifo[k] = op.item, Without
  PROVE  /\ fifo' \in Seq(Task) /\ Len(fifo') = Len(fifo) - 1 /\ Len(fifo) \in Nat
         /\ \A i \in 1 .. k - 1 : fifo'[i] = fifo[i]
         /\ \A i \in k .. Len(fifo) - 1 : fifo'[i] = fifo[i + 1]
         /\ Distinct'
<1>1. fifo \in Seq(Task) /\ DOMAIN fifo = 1 .. Len(fifo) /\ Len(fifo) \in Nat
  BY DEF Types
<1>2. IsInjective(fifo)
  BY <1>1 DEF Shape, Distinct, IsInjective
<1>3. /\ fifo' \in Seq(Task) /\ Len(fifo') = Len(fifo) - 1
      /\ \A i \in 1 .. k - 1 : fifo'[i] = fifo[i]
      /\ \A i \in k .. Len(fifo) - 1 : fifo'[i] = fifo[i + 1]
      /\ IsInjective(fifo')
  <2>. PICK e : e = op.item
    OBVIOUS
  <2>1. fifo' = RemoveFirst(fifo, e) /\ fifo[k] = e
    BY DEF Without
  <2>2. /\ RemoveFirst(fifo, e) \in Seq(Task) /\ Len(RemoveFirst(fifo, e)) = Len(fifo) - 1
        /\ \A i \in 1 .. k - 1 : RemoveFirst(fifo, e)[i] = fifo[i]
        /\ \A i \in k .. Len(fifo) - 1 : RemoveFirst(fifo, e)[i] = fifo[i + 1]
        /\ IsInjective(RemoveFirst(fifo, e))
    BY <1>1, <1>2, <2>1, RemoveFirstAt, Zenon
  <2>. QED  BY <2>1, <2>2, Zenon
<1>4. DOMAIN fifo' = 1 .. Len(fifo')
  BY <1>3
<1>5. Distinct'
  BY <1>3, <1>4 DEF Distinct, IsInjective
<1>. QED  BY <1>1, <1>3, <1>5

LEMMA OpFacts ==
  ASSUME Types
  PROVE  /\ op.pc \in Pc /\ op.item \in Link /\ op.link \in Link /\ op.prev \in Link
         /\ op.stays \in BOOLEAN
BY DEF Types, Op

(* What a step of the shell does to its call.                              *)
LEMMA StepFacts ==
  ASSUME Types, NEW from, NEW to \in Pc, Step(from, to)
  PROVE  /\ op.pc = from /\ op'.pc = to /\ op' \in Op
         /\ op'.item = op.item /\ op'.link = op.link /\ op'.prev = op.prev
         /\ op'.tmp = op.tmp /\ op'.stays = op.stays
BY DEF Types, Op, Step, At

LEMMA ReturnFacts ==
  ASSUME NEW from, Return(from)
  PROVE  op.pc = from /\ op'.pc = "idle" /\ op' \in Op
BY DEF Return, Idle, Op, Pc, At, Link

(* Nothing is asked of a call that is not under way.                       *)
LEMMA IdleGood ==
  ASSUME op'.pc = "idle"
  PROVE  Adds' /\ Removes'
BY DEF Adds, Removes, Found, AtFirst, Behind

(* A step that changes nothing of the list.                                *)
LEMMA StillShaped ==
  ASSUME Shape, Counted, UNCHANGED list,
         op.pc \notin {"set tail", "move tail", "cut"}, op'.pc \notin {"set tail", "move tail", "cut"},
         op.pc \in Short <=> op'.pc \in Short, op.pc \in Long <=> op'.pc \in Long
  PROVE  Shape' /\ Counted'
<1>1. Shape'
  BY DEF Shape, Distinct, HeadFirst, Chained, EndsThere, TailLast, list
<1>2. Counted'
  BY DEF Counted, list
<1>. QED  BY <1>1, <1>2

(* A step that changes nothing of the links, or next of tasks elsewhere.   *)
LEMMA SameLinks ==
  ASSUME Types, Shape, UNCHANGED <<head, fifo>>, TailLast', op.pc # "cut",
         \A i \in 1 .. Len(fifo) : next'[fifo[i]] = next[fifo[i]]
  PROVE  Shape'
<1>1. Len(fifo) \in Nat
  BY Nodes
<1>2. Distinct' /\ HeadFirst'
  BY DEF Shape, Distinct, HeadFirst
<1>3. Chained'
  BY <1>1 DEF Shape, Chained
<1>4. EndsThere'
  BY <1>1 DEF Shape, EndsThere
<1>. QED  BY <1>2, <1>3, <1>4 DEF Shape
-----------------------------------------------------------------------------
LEMMA InitGood == ListInit => ListInv
<1>. SUFFICES ASSUME ListInit PROVE ListInv
  OBVIOUS
<1>1. fifo = <<>> /\ fifo \in Seq(Task) /\ Len(fifo) = 0 /\ op.pc = "idle"
  BY DEF ListInit, Idle
<1>2. Types
  BY <1>1 DEF ListInit, Types, Link, Op, Idle, Pc
<1>3. Shape
  BY <1>1 DEF ListInit, Shape, Distinct, HeadFirst, Chained, EndsThere, TailLast
<1>4. Counted
  BY <1>1 DEF ListInit, Counted, Short, Long
<1>5. Adds /\ Removes
  BY <1>1 DEF Adds, Removes, Found, AtFirst, Behind
<1>. QED  BY <1>2, <1>3, <1>4, <1>5 DEF ListInv, Good

LEMMA AddBeginsGood ==
  ASSUME Types, Good, NEW t \in Task, AddBegins(t)
  PROVE  Types' /\ Good'
<1>1. /\ op.pc = "idle" /\ op' = [Idle EXCEPT !.pc = "read head", !.item = t]
      /\ next' = [next EXCEPT ![t] = NULL]
      /\ UNCHANGED <<head, tail, count, fifo, torn>>
      /\ ~In(t)
  BY DEF AddBegins, At, Contains, In
<1>2. op' \in Op /\ op'.pc = "read head" /\ op'.item = t
  BY <1>1 DEF Op, Idle, Pc, Link
<1>3. /\ next' \in [Task -> Link] /\ next'[t] = NULL
      /\ \A i \in 1 .. Len(fifo) : next'[fifo[i]] = next[fifo[i]]
  BY <1>1, Nodes DEF Types, Good, In, Link
<1>4. Types'
  BY <1>1, <1>2, <1>3 DEF Types
<1>5. Shape'
  <2>1. TailLast'
    BY <1>1, <1>2 DEF Good, Shape, TailLast
  <2>. QED  BY <1>1, <1>3, <2>1, SameLinks DEF Good
<1>6. Counted'
  BY <1>1, <1>2 DEF Good, Counted, Short, Long
<1>7. Adds'
  <2>1. ~In(t)'
    BY <1>1 DEF In
  <2>. QED  BY <1>2, <1>3, <2>1 DEF Adds
<1>8. Removes'
  BY <1>2 DEF Removes, Found, AtFirst, Behind
<1>. QED  BY <1>4, <1>5, <1>6, <1>7, <1>8 DEF Good

LEMMA ReadHeadGood ==
  ASSUME Types, Good, ReadHead
  PROVE  Types' /\ Good'
<1>. PICK to : to = IF head = NULL THEN "set head" ELSE "read tail"
  OBVIOUS
<1>0. /\ to \in {"set head", "read tail"}
      /\ (to = "set head" => head = NULL) /\ (to = "read tail" => head # NULL)
  OBVIOUS
<1>1. Step("read head", to) /\ UNCHANGED <<list, torn>> /\ to \in Pc
  BY DEF ReadHead, Pc
<1>2. op.pc = "read head" /\ op'.pc = to /\ op' \in Op /\ op'.item = op.item
  BY <1>1, StepFacts
<1>3. Types'
  BY <1>1, <1>2 DEF Types, list
<1>4. Shape' /\ Counted'
  BY <1>0, <1>1, <1>2, StillShaped DEF Good, Short, Long
<1>5. Adds'
  <2>. PICK t : t = op.item
    OBVIOUS
  <2>1. t \in Task /\ ~In(t) /\ next[t] = NULL /\ op'.item = t
    BY <1>2 DEF Good, Adds
  <2>3. ~In(t)' /\ next'[t] = NULL
    BY <1>1, <2>1 DEF In, list
  <2>2. (to = "set head" => Len(fifo') = 0) /\ (to = "read tail" => Len(fifo') > 0)
    <3>1. (head = NULL => Len(fifo) = 0) /\ (head # NULL => Len(fifo) > 0)
      BY Nodes DEF Good
    <3>2. fifo' = fifo
      BY <1>1 DEF list
    <3>. QED  BY <1>0, <3>1, <3>2
  <2>. QED  BY <1>0, <1>2, <2>1, <2>2, <2>3 DEF Adds
<1>6. Removes'
  BY <1>0, <1>2 DEF Removes, Found, AtFirst, Behind
<1>. QED  BY <1>3, <1>4, <1>5, <1>6 DEF Good

LEMMA SetHeadGood ==
  ASSUME Types, Good, SetHead
  PROVE  Types' /\ Good'
<1>. PICK t : t = op.item
  OBVIOUS
<1>1. /\ Step("set head", "set tail") /\ head' = t /\ fifo' = Append(fifo, t)
      /\ UNCHANGED <<tail, count, next, torn>>
  BY DEF SetHead
<1>2. op.pc = "set head" /\ op'.pc = "set tail" /\ op' \in Op /\ op'.item = t
  BY <1>1, StepFacts DEF Pc
<1>3. Len(fifo) = 0 /\ t \in Task /\ ~In(t) /\ next[t] = NULL
  BY <1>2 DEF Good, Adds
<1>4. fifo' \in Seq(Task) /\ Len(fifo') = 1 /\ fifo'[1] = t /\ Distinct'
  <2>1. Len(fifo) + 1 = 1
    BY <1>3
  <2>. QED  BY <1>1, <1>3, <2>1, FifoAppend DEF Good
<1>5. Types'
  BY <1>1, <1>2, <1>3, <1>4 DEF Types, Link
<1>6. Shape'
  <2>0. head' = t
    BY <1>1
  <2>1. HeadFirst'
    BY <1>4, <2>0 DEF HeadFirst
  <2>2. Chained'
    BY <1>4 DEF Chained
  <2>3. EndsThere'
    BY <1>1, <1>3, <1>4 DEF EndsThere
  <2>4. TailLast'
    BY <1>2 DEF TailLast
  <2>. QED  BY <1>4, <2>1, <2>2, <2>3, <2>4 DEF Shape
<1>7. Counted'
  <2>1. count' = 0
    BY <1>1, <1>2, <1>3 DEF Good, Counted, Short, Long
  <2>2. count' + 1 = Len(fifo')
    BY <1>4, <2>1
  <2>. QED  BY <1>2, <2>2 DEF Counted, Short, Long
<1>8. Adds' /\ Removes'
  BY <1>2, <1>4 DEF Adds, Removes, Found, AtFirst, Behind
<1>. QED  BY <1>5, <1>6, <1>7, <1>8 DEF Good

LEMMA SetTailGood ==
  ASSUME Types, Good, SetTail
  PROVE  Types' /\ Good'
<1>1. Step("set tail", "set one") /\ tail' = op.item /\ UNCHANGED <<head, count, next, fifo, torn>>
  BY DEF SetTail
<1>2. op.pc = "set tail" /\ op'.pc = "set one" /\ op' \in Op /\ op'.item = op.item
  BY <1>1, StepFacts DEF Pc
<1>3. Len(fifo) = 1 /\ fifo[1] = op.item
  BY <1>2 DEF Good, Adds
<1>4. Types'
  BY <1>1, <1>2, OpFacts DEF Types
<1>5. Shape'
  <2>1. TailLast'
    BY <1>1, <1>3 DEF TailLast
  <2>. QED  BY <1>1, <1>2, <2>1, SameLinks DEF Good
<1>6. Counted'
  BY <1>1, <1>2 DEF Good, Counted, Short, Long
<1>7. Adds' /\ Removes'
  BY <1>1, <1>2, <1>3 DEF Adds, Removes, Found, AtFirst, Behind
<1>. QED  BY <1>4, <1>5, <1>6, <1>7 DEF Good

LEMMA SetOneGood ==
  ASSUME Types, Good, SetOne
  PROVE  Types' /\ Good'
<1>1. Return("set one") /\ count' = 1 /\ UNCHANGED <<head, tail, next, fifo, torn>>
  BY DEF SetOne
<1>2. op.pc = "set one" /\ op'.pc = "idle" /\ op' \in Op
  BY <1>1, ReturnFacts
<1>3. Len(fifo) = 1
  BY <1>2 DEF Good, Adds
<1>4. Types'
  BY <1>1, <1>2 DEF Types
<1>5. Shape'
  <2>1. TailLast'
    BY <1>1, <1>2 DEF Good, Shape, TailLast
  <2>. QED  BY <1>1, <1>2, <2>1, SameLinks DEF Good
<1>6. Counted'
  BY <1>1, <1>2, <1>3 DEF Counted, Short, Long
<1>. QED  BY <1>2, <1>4, <1>5, <1>6, IdleGood DEF Good

LEMMA ReadTailGood ==
  ASSUME Types, Good, ReadTail
  PROVE  Types' /\ Good'
<1>1. /\ op.pc = "read tail" /\ op' = [op EXCEPT !.pc = "link", !.link = tail]
      /\ UNCHANGED <<list, torn>>
  BY DEF ReadTail, At
<1>2. op'.pc = "link" /\ op' \in Op /\ op'.item = op.item /\ op'.link = tail
  BY <1>1 DEF Types, Op, Pc
<1>3. Types'
  BY <1>1, <1>2 DEF Types, list
<1>4. Shape' /\ Counted'
  BY <1>1, <1>2, StillShaped DEF Good, Short, Long
<1>5. Adds'
  BY <1>1, <1>2 DEF Good, Adds, In, list
<1>6. Removes'
  BY <1>2 DEF Removes, Found, AtFirst, Behind
<1>. QED  BY <1>3, <1>4, <1>5, <1>6 DEF Good

LEMMA LinkTailGood ==
  ASSUME Types, Good, LinkTail
  PROVE  Types' /\ Good'
<1>. PICK t, n : t = op.item /\ n = Len(fifo)
  OBVIOUS
<1>1. /\ Step("link", "move tail") /\ next' = [next EXCEPT ![op.link] = t]
      /\ fifo' = Append(fifo, t) /\ UNCHANGED <<head, tail, count, torn>>
  BY DEF LinkTail
<1>2. op.pc = "link" /\ op'.pc = "move tail" /\ op' \in Op /\ op'.item = t
  BY <1>1, StepFacts DEF Pc
<1>3. /\ n \in Nat /\ n > 0 /\ t \in Task /\ ~In(t) /\ next[t] = NULL /\ op.link = tail
      /\ tail = fifo[n] /\ fifo[n] \in Task
  <2>1. t \in Task /\ ~In(t) /\ next[t] = NULL /\ op.link = tail /\ Len(fifo) > 0
    BY <1>2 DEF Good, Adds
  <2>2. tail = fifo[Len(fifo)]
    BY <1>2, <2>1 DEF Good, Shape, TailLast
  <2>3. Len(fifo) \in Nat /\ Len(fifo) \in 1 .. Len(fifo)
    BY <2>1, Nodes DEF Good
  <2>. QED  BY <2>1, <2>2, <2>3, Nodes DEF Good
<1>4. /\ fifo' \in Seq(Task) /\ Len(fifo') = n + 1 /\ fifo'[n + 1] = t /\ Distinct'
      /\ \A i \in 1 .. n : fifo'[i] = fifo[i] /\ fifo[i] # t
  BY <1>1, <1>3, FifoAppend DEF Good
<1>5. /\ next' \in [Task -> Link] /\ next'[fifo[n]] = t /\ next'[t] = NULL
      /\ \A i \in 1 .. n - 1 : next'[fifo[i]] = next[fifo[i]]
  <2>1. next' = [next EXCEPT ![fifo[n]] = t] /\ next \in [Task -> Link] /\ t \in Link
    BY <1>1, <1>3 DEF Types, Link
  <2>2. n \in 1 .. n /\ fifo[n] # t
    BY <1>3, <1>4
  <2>3. ASSUME NEW i \in 1 .. n - 1 PROVE fifo[i] # fifo[n] /\ fifo[i] \in Task
    <3>1. i \in 1 .. n /\ i # n
      BY <1>3
    <3>. QED  BY <2>2, <3>1, Nodes DEF Good, Shape, Distinct
  <2>. QED  BY <1>3, <2>1, <2>2, <2>3
<1>6. Types'
  BY <1>1, <1>2, <1>4, <1>5 DEF Types
<1>7. Shape'
  <2>1. HeadFirst'
    <3>1. head = fifo[1] /\ 1 \in 1 .. n
      BY <1>3 DEF Good, Shape, HeadFirst
    <3>2. head' = head
      BY <1>1
    <3>3. head' = fifo'[1] /\ Len(fifo') > 0
      BY <1>3, <1>4, <3>1, <3>2
    <3>. QED  BY <3>3 DEF HeadFirst
  <2>2. ASSUME NEW i \in 1 .. n PROVE next'[fifo'[i]] = fifo'[i + 1]
    <3>1. CASE i = n
      BY <1>3, <1>4, <1>5, <3>1
    <3>2. CASE i # n
      <4>1. i \in 1 .. n - 1 /\ i + 1 \in 1 .. n
        BY <1>3, <3>2
      <4>2. next[fifo[i]] = fifo[i + 1]
        BY <4>1 DEF Good, Shape, Chained
      <4>. QED  BY <1>4, <1>5, <4>1, <4>2
    <3>. QED  BY <3>1, <3>2
  <2>3. Chained'
    <3>1. Len(fifo') - 1 = n
      BY <1>3, <1>4
    <3>. QED  BY <2>2, <3>1 DEF Chained
  <2>4. EndsThere'
    BY <1>4, <1>5 DEF EndsThere
  <2>5. TailLast'
    BY <1>2 DEF TailLast
  <2>. QED  BY <1>4, <2>1, <2>3, <2>4, <2>5 DEF Shape
<1>8. Counted'
  <2>1. count' = n
    BY <1>1, <1>2 DEF Good, Counted, Short, Long
  <2>. QED  BY <1>2, <1>4, <2>1 DEF Counted, Short, Long
<1>9. Adds'
  <2>1. Len(fifo') > 1 /\ tail' = fifo'[Len(fifo') - 1] /\ op'.item = fifo'[Len(fifo')]
    <3>1. n \in 1 .. n /\ Len(fifo') - 1 = n /\ Len(fifo') > 1
      BY <1>3, <1>4
    <3>. QED  BY <1>1, <1>2, <1>3, <1>4, <3>1
  <2>. QED  BY <1>2, <2>1 DEF Adds
<1>10. Removes'
  BY <1>2 DEF Removes, Found, AtFirst, Behind
<1>. QED  BY <1>6, <1>7, <1>8, <1>9, <1>10 DEF Good

LEMMA MoveTailGood ==
  ASSUME Types, Good, MoveTail
  PROVE  Types' /\ Good'
<1>1. Step("move tail", "read count") /\ tail' = op.item /\ UNCHANGED <<head, count, next, fifo, torn>>
  BY DEF MoveTail
<1>2. op.pc = "move tail" /\ op'.pc = "read count" /\ op' \in Op
  BY <1>1, StepFacts DEF Pc
<1>3. op.item = fifo[Len(fifo)]
  BY <1>2 DEF Good, Adds
<1>4. Types'
  BY <1>1, <1>2, OpFacts DEF Types
<1>5. Shape'
  <2>1. TailLast'
    BY <1>1, <1>3 DEF TailLast
  <2>. QED  BY <1>1, <1>2, <2>1, SameLinks DEF Good
<1>6. Counted'
  BY <1>1, <1>2 DEF Good, Counted, Short, Long
<1>7. Adds' /\ Removes'
  BY <1>2 DEF Adds, Removes, Found, AtFirst, Behind
<1>. QED  BY <1>4, <1>5, <1>6, <1>7 DEF Good

LEMMA ReadCountGood ==
  ASSUME Types, Good, ReadCount
  PROVE  Types' /\ Good'
<1>. PICK to : to = IF op.pc = "read count" THEN "write count" ELSE "write down"
  OBVIOUS
<1>1. /\ op.pc \in {"read count", "read down"} /\ op' = [op EXCEPT !.pc = to, !.tmp = count]
      /\ UNCHANGED <<list, torn>>
  BY DEF ReadCount
<1>2. op'.pc = to /\ op' \in Op /\ op'.tmp = count /\ to \in {"write count", "write down"}
  BY <1>1 DEF Types, Op, Pc
<1>3. Types'
  BY <1>1, <1>2 DEF Types, list
<1>4. Shape' /\ Counted'
  BY <1>1, <1>2, StillShaped DEF Good, Short, Long
<1>5. Adds'
  BY <1>1, <1>2 DEF Adds, list
<1>6. Removes'
  BY <1>2 DEF Removes, Found, AtFirst, Behind
<1>. QED  BY <1>3, <1>4, <1>5, <1>6 DEF Good

LEMMA WriteCountGood ==
  ASSUME Types, Good, WriteCount \/ WriteDown
  PROVE  Types' /\ Good'
<1>1. /\ \/ Return("write count") /\ count' = op.tmp + 1
         \/ Return("write down") /\ count' = op.tmp - 1
      /\ UNCHANGED <<head, tail, next, fifo, torn>>
  BY DEF WriteCount, WriteDown
<1>2. /\ \/ op.pc = "write count" /\ count' = op.tmp + 1
         \/ op.pc = "write down" /\ count' = op.tmp - 1
      /\ op'.pc = "idle" /\ op' \in Op
  BY <1>1, ReturnFacts
<1>3. op.tmp = count /\ count \in Nat /\ Len(fifo) \in Nat
  BY <1>2, Nodes DEF Good, Adds, Types
<1>4. count' = Len(fifo)
  <2>1. CASE op.pc = "write count" /\ count' = op.tmp + 1
    <3>1. count + 1 = Len(fifo)
      BY <2>1 DEF Good, Counted, Short
    <3>. QED  BY <1>3, <2>1, <3>1
  <2>2. CASE op.pc = "write down" /\ count' = op.tmp - 1
    <3>1. count = Len(fifo) + 1
      BY <2>2 DEF Good, Counted, Long
    <3>2. count' = count - 1
      BY <1>3, <2>2
    <3>. QED  BY <1>3, <3>1, <3>2
  <2>. QED  BY <1>2, <2>1, <2>2
<1>5. Types'
  BY <1>1, <1>2, <1>3, <1>4 DEF Types
<1>6. Shape'
  <2>1. TailLast'
    BY <1>1, <1>2 DEF Good, Shape, TailLast
  <2>. QED  BY <1>1, <1>2, <2>1, SameLinks DEF Good
<1>7. Counted'
  BY <1>1, <1>2, <1>4 DEF Counted, Short, Long
<1>. QED  BY <1>2, <1>5, <1>6, <1>7, IdleGood DEF Good
-----------------------------------------------------------------------------
(* Which of its tasks the list begins and ends with.                       *)
LEMMA Ends ==
  ASSUME Types, Shape, op.pc # "set tail", op.pc # "move tail", NEW k \in 1 .. Len(fifo)
  PROVE  /\ fifo[k] = head <=> k = 1
         /\ fifo[k] = tail <=> k = Len(fifo)
<1>0. Len(fifo) \in Nat
  BY Nodes
<1>1. Len(fifo) \in Nat /\ 1 \in 1 .. Len(fifo) /\ Len(fifo) \in 1 .. Len(fifo) /\ Len(fifo) > 0
  BY <1>0, InRange, Zenon
<1>2. head = fifo[1] /\ tail = fifo[Len(fifo)]
  BY <1>1 DEF Shape, HeadFirst, TailLast
<1>. QED  BY <1>1, <1>2 DEF Shape, Distinct

(* What kRemoveList is asked for is in the queue as long as it stays.      *)
LEMMA RemoveBeginsGood ==
  ASSUME Types, Good, NEW t \in Task, RemoveBegins(t)
  PROVE  Types' /\ Good'
<1>1. /\ op.pc = "idle" /\ UNCHANGED <<list, torn>>
      /\ op' = [Idle EXCEPT !.pc = "read first", !.item = t, !.stays = Contains(fifo, t)]
  BY DEF RemoveBegins, At
<1>2. Contains(fifo, t) \in BOOLEAN /\ (Contains(fifo, t) <=> In(t))
  BY DEF Contains, In
<1>3. op' \in Op /\ op'.pc = "read first" /\ op'.item = t /\ (op'.stays <=> In(t))
  BY <1>1, <1>2 DEF Op, Idle, Pc, Link
<1>4. Types'
  BY <1>1, <1>3 DEF Types, list
<1>5. Shape' /\ Counted'
  BY <1>1, <1>3, StillShaped DEF Good, Short, Long
<1>6. Adds'
  BY <1>3 DEF Adds
<1>7. Removes'
  <2>1. In(t)' <=> In(t)
    BY <1>1 DEF In, list
  <2>2. StaysIn'
    BY <1>3, <2>1 DEF StaysIn, In
  <2>. QED  BY <1>3, <2>2 DEF Removes, Found, AtFirst, Behind
<1>. QED  BY <1>4, <1>5, <1>6, <1>7 DEF Good

(* The queue and the task asked for are the same.                          *)
LEMMA SameStays ==
  ASSUME StaysIn, fifo' = fifo, op'.item = op.item, op'.stays = op.stays
  PROVE  StaysIn'
BY DEF StaysIn, In

(* A step of the walk, which changes nothing of the list.                  *)
LEMMA WalkGood ==
  ASSUME Types, Good, UNCHANGED <<list, torn>>, op' \in Op, op'.item = op.item,
         op'.stays = op.stays, op.pc \in {"read first", "loop", "step"},
         \/ op'.pc = "loop" /\ op'.link = NULL /\ ~op.stays
         \/ op'.pc = "loop" /\ Passed'
         \/ op'.pc = "step" /\ Compared'
         \/ op'.pc = "is head" /\ op'.link = op.item /\ Branched'
  PROVE  Types' /\ Good'
<1>1. op'.pc \in {"loop", "step", "is head"}
  OBVIOUS
<1>2. Types'
  BY DEF Types, list
<1>3. Shape' /\ Counted'
  BY <1>1, StillShaped DEF Good, Short, Long
<1>4. Adds'
  BY <1>1 DEF Adds
<1>5. StaysIn'
  <2>1. StaysIn
    BY DEF Good, Removes
  <2>. QED  BY <2>1, SameStays DEF list
<1>6. Removes'
  BY <1>5 DEF Removes, Found, AtFirst, Behind
<1>. QED  BY <1>2, <1>3, <1>4, <1>6 DEF Good

LEMMA ReadFirstGood ==
  ASSUME Types, Good, ReadFirst
  PROVE  Types' /\ Good'
<1>1. /\ op.pc = "read first" /\ op' = [op EXCEPT !.pc = "loop", !.prev = head, !.link = head]
      /\ UNCHANGED <<list, torn>>
  BY DEF ReadFirst, At
<1>2. /\ op' \in Op /\ op'.pc = "loop" /\ op'.item = op.item /\ op'.stays = op.stays
      /\ op'.link = head /\ op'.prev = head
  BY <1>1 DEF Types, Op, Pc
<1>3. CASE Len(fifo) = 0
  <2>1. head = NULL /\ ~In(op.item)
    BY <1>3 DEF Good, Shape, HeadFirst, In
  <2>2. ~op.stays
    BY <1>1, <2>1 DEF Good, Removes, StaysIn
  <2>. QED  BY <1>1, <1>2, <2>1, <2>2, WalkGood
<1>4. CASE Len(fifo) > 0
  <2>1. 1 \in 1 .. Len(fifo) /\ head = fifo[1]
    BY <1>4, Nodes DEF Good, Shape, HeadFirst
  <2>2. fifo' = fifo /\ op'.link = fifo[1]
    BY <1>1, <1>2, <2>1 DEF list
  <2>3. Stands(1)' /\ \A j \in 1 .. 1 - 1 : fifo'[j] # op'.item
    BY <2>2 DEF Stands
  <2>4. Passed'
    BY <2>1, <2>2, <2>3 DEF Passed
  <2>. QED  BY <1>1, <1>2, <2>4, WalkGood
<1>5. Len(fifo) = 0 \/ Len(fifo) > 0
  BY Nodes DEF Good
<1>. QED  BY <1>3, <1>4, <1>5

LEMMA CompareGood ==
  ASSUME Types, Good, Compare
  PROVE  Types' /\ Good'
<1>. PICK to : to = IF op.link = op.item THEN "is head" ELSE "step"
  OBVIOUS
<1>0. /\ to \in {"is head", "step"}
      /\ (to = "is head" => op.link = op.item) /\ (to = "step" => op.link # op.item)
  OBVIOUS
<1>1. op.link # NULL /\ Step("loop", to) /\ UNCHANGED <<list, torn>>
  BY DEF Compare
<1>2. /\ op.pc = "loop" /\ op'.pc = to /\ op' \in Op
      /\ op'.item = op.item /\ op'.link = op.link /\ op'.prev = op.prev /\ op'.stays = op.stays
  BY <1>0, <1>1, StepFacts DEF Pc
<1>3. PICK k \in 1 .. Len(fifo) : Stands(k) /\ \A j \in 1 .. k - 1 : fifo[j] # op.item
  BY <1>1, <1>2 DEF Good, Removes, Passed
<1>4. Stands(k)' /\ fifo' = fifo
  BY <1>1, <1>2, <1>3 DEF Stands, list
<1>5. CASE to = "is head"
  <2>1. Branch(k)'
    BY <1>2, <1>5 DEF Branch, AtFirst, Behind
  <2>2. Branched'
    BY <1>4, <2>1 DEF Branched
  <2>. QED  BY <1>0, <1>1, <1>2, <1>5, <2>2, WalkGood
<1>6. CASE to = "step"
  <2>1. fifo[k] # op.item
    BY <1>0, <1>3, <1>6 DEF Stands
  <2>2. Len(fifo) \in Nat
    BY Nodes DEF Good
  <2>3. \A j \in 1 .. k : j \in 1 .. k - 1 \/ j = k
    BY <2>2, InRange, Zenon
  <2>4. \A j \in 1 .. k : fifo'[j] # op'.item
    BY <1>2, <1>3, <1>4, <2>1, <2>3
  <2>5. Compared'
    BY <1>4, <2>4 DEF Compared
  <2>. QED  BY <1>1, <1>2, <1>6, <2>5, WalkGood
<1>. QED  BY <1>0, <1>5, <1>6

LEMMA AdvanceGood ==
  ASSUME Types, Good, Advance
  PROVE  Types' /\ Good'
<1>. PICK u : u = op.link
  OBVIOUS
<1>1. /\ op.pc = "step" /\ op' = [op EXCEPT !.pc = "loop", !.prev = u, !.link = next[u]]
      /\ UNCHANGED <<list, torn>>
  BY DEF Advance, At
<1>2. PICK k \in 1 .. Len(fifo) : Stands(k) /\ \A j \in 1 .. k : fifo[j] # op.item
  BY <1>1 DEF Good, Removes, Compared
<1>3. u = fifo[k] /\ u \in Task /\ next[u] \in Link /\ Len(fifo) \in Nat
  BY <1>2, Nodes DEF Good, Stands, Types
<1>4. /\ op' \in Op /\ op'.pc = "loop" /\ op'.item = op.item /\ op'.stays = op.stays
      /\ op'.link = next[u] /\ op'.prev = u
  BY <1>1, <1>3 DEF Types, Op, Pc, Link
<1>5. CASE k = Len(fifo)
  <2>1. next[u] = NULL
    BY <1>1, <1>3, <1>5 DEF Good, Shape, EndsThere
  <2>2. ~In(op.item)
    BY <1>2, <1>5 DEF In
  <2>3. ~op.stays
    BY <1>1, <2>2 DEF Good, Removes, StaysIn
  <2>. QED  BY <1>1, <1>4, <2>1, <2>3, WalkGood
<1>6. CASE k < Len(fifo)
  <2>1. k + 1 \in 1 .. Len(fifo) /\ k \in 1 .. Len(fifo) - 1 /\ (k + 1) - 1 = k
    BY <1>3, <1>6
  <2>2. next[u] = fifo[k + 1]
    BY <1>3, <2>1 DEF Good, Shape, Chained
  <2>3. fifo' = fifo
    BY <1>1 DEF list
  <2>4. Stands(k + 1)'
    BY <1>3, <1>4, <2>1, <2>2, <2>3 DEF Stands
  <2>5. \A j \in 1 .. (k + 1) - 1 : fifo'[j] # op'.item
    BY <1>2, <1>4, <2>1, <2>3
  <2>6. Passed'
    BY <2>1, <2>3, <2>4, <2>5 DEF Passed
  <2>. QED  BY <1>1, <1>4, <2>6, WalkGood
<1>. QED  BY <1>3, <1>5, <1>6

LEMMA NotFoundGood ==
  ASSUME Types, Good, NotFound
  PROVE  Types' /\ Good'
<1>1. Return("loop") /\ UNCHANGED <<list, torn>>
  BY DEF NotFound
<1>2. op.pc = "loop" /\ op'.pc = "idle" /\ op' \in Op
  BY <1>1, ReturnFacts
<1>3. Types'
  BY <1>1, <1>2 DEF Types, list
<1>4. Shape' /\ Counted'
  BY <1>1, <1>2, StillShaped DEF Good, Short, Long
<1>. QED  BY <1>2, <1>3, <1>4, IdleGood DEF Good

(* A step of finding out where the task is.                                *)
LEMMA BranchGood ==
  ASSUME Types, Good, UNCHANGED <<list, torn>>, op.pc \in Found, op'.pc \in Found, op' \in Op,
         op'.item = op.item, op'.link = op.link, op'.prev = op.prev, op'.stays = op.stays,
         \A k \in 1 .. Len(fifo) : op.link = fifo[k] /\ Branch(k) => Branch(k)'
  PROVE  Types' /\ Good'
<1>1. fifo' = fifo
  BY DEF list
<1>2. Types'
  BY DEF Types, list
<1>3. Shape' /\ Counted'
  BY StillShaped DEF Good, Short, Long, Found, AtFirst, Behind
<1>4. Adds'
  BY DEF Adds, Found, AtFirst, Behind
<1>5. Removes'
  <2>1. op.link = op.item /\ StaysIn /\ Branched
    BY DEF Good, Removes
  <2>2. PICK k \in 1 .. Len(fifo) : Stands(k) /\ Branch(k)
    BY <2>1 DEF Branched
  <2>3. Stands(k)' /\ Branch(k)'
    BY <1>1, <2>2 DEF Stands
  <2>4. StaysIn'
    BY <1>1, <2>1, SameStays
  <2>5. Branched'
    BY <1>1, <2>3 DEF Branched
  <2>. QED  BY <2>1, <2>4, <2>5 DEF Removes, Found, AtFirst, Behind
<1>. QED  BY <1>2, <1>3, <1>4, <1>5 DEF Good

LEMMA AskGood ==
  ASSUME Types, Good, IsHead \/ IsOnly \/ IsFirst \/ IsTail
  PROVE  Types' /\ Good'
<1>1. PICK from, to :
        /\ Step(from, to) /\ UNCHANGED <<list, torn>>
        /\ \/ from = "is head" /\ op.link = head /\ to = "is only"
           \/ from = "is head" /\ op.link # head /\ to = "is tail"
           \/ from = "is only" /\ op.link = tail /\ to = "clear head"
           \/ from = "is only" /\ op.link # tail /\ to = "is first"
           \/ from = "is first" /\ op.link = head /\ to = "load first"
           \/ from = "is first" /\ op.link # head /\ to = "is tail"
           \/ from = "is tail" /\ op.link = tail /\ to = "new tail"
           \/ from = "is tail" /\ op.link # tail /\ to = "load mid"
  BY DEF IsHead, IsOnly, IsFirst, IsTail
<1>2. /\ op.pc = from /\ op'.pc = to /\ op' \in Op
      /\ op'.item = op.item /\ op'.link = op.link /\ op'.prev = op.prev /\ op'.stays = op.stays
  BY <1>1, StepFacts DEF Pc
<1>3. from \in Found /\ to \in Found
  BY <1>1 DEF Found, AtFirst, Behind
<1>4. ASSUME NEW k \in 1 .. Len(fifo), op.link = fifo[k], Branch(k) PROVE Branch(k)'
  <2>1. (op.link = head <=> k = 1) /\ (op.link = tail <=> k = Len(fifo)) /\ Len(fifo) \in Nat
    BY <1>2, <1>3, <1>4, Ends, Nodes DEF Good, Found, AtFirst, Behind
  <2>2. Len(fifo') = Len(fifo)
    BY <1>1 DEF list
  <2>3. (k = 1 \/ k > 1) /\ (k = Len(fifo) \/ k < Len(fifo))
    BY <2>1
  <2>4. from \in {"is only", "is first"} => k = 1
    BY <1>2, <1>4 DEF Branch, AtFirst
  <2>5. from = "is first" => Len(fifo) > 1
    BY <1>2, <1>4 DEF Branch
  <2>6. from = "is tail" => k > 1
    BY <1>2, <1>4 DEF Branch, Behind
  <2>. QED  BY <1>1, <1>2, <2>1, <2>2, <2>3, <2>4, <2>5, <2>6 DEF Branch, AtFirst, Behind
<1>. QED  BY <1>1, <1>2, <1>3, <1>4, BranchGood

LEMMA LoadNextGood ==
  ASSUME Types, Good, LoadNext
  PROVE  Types' /\ Good'
<1>. PICK to : to = IF op.pc = "load first" THEN "store first" ELSE "store mid"
  OBVIOUS
<1>1. /\ op.pc \in {"load first", "load mid"}
      /\ op' = [op EXCEPT !.pc = to, !.tmp = next[op.link]]
      /\ UNCHANGED <<list, torn>>
  BY DEF LoadNext
<1>2. \/ op.pc = "load first" /\ to = "store first"
      \/ op.pc = "load mid" /\ to = "store mid"
  BY <1>1
<1>3. PICK b \in 1 .. Len(fifo) : Stands(b) /\ Branch(b)
  BY <1>1 DEF Good, Removes, Found, AtFirst, Behind, Branched
<1>4. op.link \in Task /\ next[op.link] \in Link
  BY <1>3, Nodes DEF Good, Types, Stands
<1>5. /\ op' \in Op /\ op'.pc = to /\ op'.item = op.item /\ op'.stays = op.stays
      /\ op'.link = op.link /\ op'.prev = op.prev /\ op'.tmp = next[op.link]
  BY <1>1, <1>2, <1>4 DEF Types, Op, Pc, Link
<1>6. op.pc \in Found /\ op'.pc \in Found
  BY <1>2, <1>5 DEF Found, AtFirst, Behind
<1>7. ASSUME NEW k \in 1 .. Len(fifo), op.link = fifo[k], Branch(k) PROVE Branch(k)'
  <2>0. Len(fifo) \in Nat
    BY Nodes DEF Good
  <2>1. fifo' = fifo
    BY <1>1 DEF list
  <2>2. k < Len(fifo) /\ (op.pc = "load first" => k = 1 /\ Len(fifo) > 1) /\ (op.pc = "load mid" => k > 1)
    BY <1>1, <1>7 DEF Branch, AtFirst, Behind
  <2>3. k \in 1 .. Len(fifo) - 1
    BY <2>0, <2>2, InRange, Zenon
  <2>4. op'.tmp = fifo'[k + 1]
    BY <1>5, <1>7, <2>1, <2>3 DEF Good, Shape, Chained
  <2>. QED  BY <1>2, <1>5, <2>1, <2>2, <2>4 DEF Branch, AtFirst, Behind
<1>. QED  BY <1>1, <1>5, <1>6, <1>7, BranchGood
-----------------------------------------------------------------------------
(* The list and its queue of n tasks, place by place.                      *)
LEMMA ShapeFacts ==
  ASSUME Types, Shape, NEW n, n = Len(fifo)
  PROVE  /\ n \in Nat
         /\ \A i \in 1 .. n : fifo[i] \in Task /\ fifo[i] # NULL
         /\ \A i, j \in 1 .. n : fifo[i] = fifo[j] => i = j
         /\ \A i \in 1 .. n - 1 : next[fifo[i]] = fifo[i + 1]
         /\ n > 0 => head = fifo[1]
         /\ n > 0 /\ op.pc # "cut" => next[fifo[n]] = NULL
         /\ n > 0 /\ op.pc # "set tail" /\ op.pc # "move tail" => tail = fifo[n]
<1>1. n \in Nat /\ \A i \in 1 .. n : fifo[i] \in Task /\ fifo[i] # NULL
  BY Nodes
<1>2. \A i, j \in 1 .. n : fifo[i] = fifo[j] => i = j
  BY DEF Shape, Distinct
<1>3. \A i \in 1 .. n - 1 : next[fifo[i]] = fifo[i + 1]
  BY DEF Shape, Chained
<1>4. /\ n > 0 => head = fifo[1]
      /\ n > 0 /\ op.pc # "cut" => next[fifo[n]] = NULL
      /\ n > 0 /\ op.pc # "set tail" /\ op.pc # "move tail" => tail = fifo[n]
  BY DEF Shape, HeadFirst, EndsThere, TailLast
<1>. QED  BY <1>1, <1>2, <1>3, <1>4

LEMMA ShapeFrom ==
  ASSUME NEW n \in Nat, Len(fifo') = n, Distinct',
         n = 0 => head' = NULL, n > 0 => head' = fifo'[1],
         \A i \in 1 .. n - 1 : next'[fifo'[i]] = fifo'[i + 1],
         n > 0 /\ op'.pc # "cut" => next'[fifo'[n]] = NULL,
         n > 0 /\ op'.pc # "set tail" /\ op'.pc # "move tail" => tail' = fifo'[n]
  PROVE  Shape'
<1>1. HeadFirst'
  BY DEF HeadFirst
<1>2. Chained'
  BY DEF Chained
<1>3. EndsThere' /\ TailLast'
  BY DEF EndsThere, TailLast
<1>. QED  BY <1>1, <1>2, <1>3 DEF Shape

(* The queue after kRemoveList has taken out the task it stands on.        *)
LEMMA TakenOut ==
  ASSUME Types, Good, op.pc \in Found, Without
  PROVE  \E n, k \in Nat :
           /\ n = Len(fifo) /\ k \in 1 .. n /\ Stands(k) /\ Branch(k)
           /\ fifo' \in Seq(Task) /\ Len(fifo') = n - 1 /\ n - 1 \in Nat /\ Distinct'
           /\ \A i \in 1 .. k - 1 : fifo'[i] = fifo[i]
           /\ \A i \in k .. n - 1 : fifo'[i] = fifo[i + 1]
<1>1. op.link = op.item /\ Branched
  BY DEF Good, Removes
<1>2. PICK k \in 1 .. Len(fifo) : Stands(k) /\ Branch(k)
  BY <1>1 DEF Branched
<1>3. fifo[k] = op.item
  BY <1>1, <1>2 DEF Stands
<1>4. /\ fifo' \in Seq(Task) /\ Len(fifo') = Len(fifo) - 1 /\ Len(fifo) \in Nat /\ Distinct'
      /\ \A i \in 1 .. k - 1 : fifo'[i] = fifo[i]
      /\ \A i \in k .. Len(fifo) - 1 : fifo'[i] = fifo[i + 1]
  BY <1>3, FifoWithout, Zenon DEF Good
<1>5. Len(fifo) - 1 \in Nat /\ k \in Nat
  BY <1>4, InRange, Zenon
<1>. QED  BY <1>2, <1>4, <1>5, Zenon

(* Its count is one too high from then on, and nothing else is left to say *)
(* of a list whose links are done.                                         *)
LEMMA TakenCount ==
  ASSUME Good, op.pc \in Found, count' = count, Len(fifo') = Len(fifo) - 1, op'.pc \in Long,
         Len(fifo) \in Nat
  PROVE  Counted'
<1>1. count = Len(fifo)
  BY DEF Good, Counted, Short, Long, Found, AtFirst, Behind
<1>2. count' = Len(fifo') + 1
  BY <1>1
<1>. QED  BY <1>2 DEF Counted, Short, Long

LEMMA ReadDownGood ==
  ASSUME op'.pc = "read down"
  PROVE  Adds' /\ Removes'
BY DEF Adds, Removes, Found, AtFirst, Behind

LEMMA ClearHeadGood ==
  ASSUME Types, Good, ClearHead
  PROVE  Types' /\ Good'
<1>1. /\ Step("clear head", "clear tail") /\ head' = NULL /\ Without
      /\ UNCHANGED <<tail, count, next, torn>>
  BY DEF ClearHead
<1>2. op.pc = "clear head" /\ op'.pc = "clear tail" /\ op' \in Op /\ op.pc \in Found
  BY <1>1, StepFacts DEF Pc, Found, AtFirst
<1>3. PICK n, k \in Nat :
        /\ n = Len(fifo) /\ k \in 1 .. n /\ Branch(k) /\ fifo' \in Seq(Task) /\ Len(fifo') = n - 1 /\ Distinct'
  BY <1>1, <1>2, TakenOut
<1>4. n = 1
  BY <1>2, <1>3 DEF Branch
<1>5. Len(fifo') = 0
  BY <1>3, <1>4
<1>6. Types'
  BY <1>1, <1>2, <1>3 DEF Types, Link
<1>7. Shape'
  <2>1. head' = NULL
    BY <1>1
  <2>2. HeadFirst'
    BY <1>5, <2>1 DEF HeadFirst
  <2>3. Chained' /\ EndsThere' /\ TailLast'
    BY <1>5 DEF Chained, EndsThere, TailLast
  <2>. QED  BY <1>3, <2>2, <2>3 DEF Shape
<1>8. Counted'
  BY <1>1, <1>2, <1>3, TakenCount DEF Long
<1>9. Adds' /\ Removes'
  BY <1>2, <1>5 DEF Adds, Removes, Found, AtFirst, Behind
<1>. QED  BY <1>6, <1>7, <1>8, <1>9 DEF Good

LEMMA ClearTailGood ==
  ASSUME Types, Good, ClearTail
  PROVE  Types' /\ Good'
<1>1. Step("clear tail", "read down") /\ tail' = NULL /\ UNCHANGED <<head, count, next, fifo, torn>>
  BY DEF ClearTail
<1>2. op.pc = "clear tail" /\ op'.pc = "read down" /\ op' \in Op
  BY <1>1, StepFacts DEF Pc
<1>3. Len(fifo) = 0
  BY <1>2 DEF Good, Removes
<1>4. Types'
  BY <1>1, <1>2 DEF Types, Link
<1>5. Shape'
  <2>1. ~(Len(fifo) > 0)
    BY <1>3
  <2>2. TailLast'
    BY <1>1, <2>1 DEF TailLast
  <2>. QED  BY <1>1, <1>2, <2>2, SameLinks DEF Good
<1>6. Counted'
  BY <1>1, <1>2 DEF Good, Counted, Short, Long
<1>. QED  BY <1>2, <1>4, <1>5, <1>6, ReadDownGood DEF Good

LEMMA StoreFirstGood ==
  ASSUME Types, Good, StoreFirst
  PROVE  Types' /\ Good'
<1>1. /\ Step("store first", "read down") /\ head' = op.tmp /\ Without
      /\ UNCHANGED <<tail, count, next, torn>>
  BY DEF StoreFirst
<1>2. op.pc = "store first" /\ op'.pc = "read down" /\ op' \in Op /\ op.pc \in Found
  BY <1>1, StepFacts DEF Pc, Found, AtFirst
<1>3. PICK n, k \in Nat :
        /\ n = Len(fifo) /\ k \in 1 .. n /\ Branch(k)
        /\ fifo' \in Seq(Task) /\ Len(fifo') = n - 1 /\ n - 1 \in Nat /\ Distinct'
        /\ \A i \in k .. n - 1 : fifo'[i] = fifo[i + 1]
  BY <1>1, <1>2, TakenOut
<1>4. k = 1 /\ n > 1 /\ op.tmp = fifo[k + 1]
  BY <1>2, <1>3 DEF Branch, AtFirst
<1>5. k \in k .. n - 1 /\ k + 1 \in 1 .. n
  BY <1>4
<1>6. head' = fifo'[1] /\ head' \in Link
  <2>1. fifo[k + 1] \in Task
    BY <1>3, <1>5, Nodes DEF Good
  <2>. QED  BY <1>1, <1>3, <1>4, <1>5, <2>1 DEF Link
<1>7. Types'
  BY <1>1, <1>2, <1>3, <1>6 DEF Types
<1>8. Shape'
  <2>1. ASSUME NEW i \in 1 .. (n - 1) - 1 PROVE next'[fifo'[i]] = fifo'[i + 1]
    <3>1. i \in k .. n - 1 /\ i + 1 \in k .. n - 1 /\ i + 1 \in 1 .. n - 1
      BY <1>4
    <3>2. next[fifo[i + 1]] = fifo[(i + 1) + 1]
      BY <1>3, <3>1, ShapeFacts DEF Good
    <3>. QED  BY <1>1, <1>3, <3>1, <3>2
  <2>2. next'[fifo'[n - 1]] = NULL /\ tail' = fifo'[n - 1]
    <3>1. n - 1 \in k .. n - 1 /\ (n - 1) + 1 = n /\ n > 0
      BY <1>4
    <3>2. fifo'[n - 1] = fifo[n]
      BY <1>3, <3>1
    <3>3. next[fifo[n]] = NULL /\ tail = fifo[n]
      BY <1>2, <1>3, <3>1, ShapeFacts DEF Good
    <3>. QED  BY <1>1, <3>2, <3>3
  <2>3. n - 1 # 0
    BY <1>4
  <2>. QED  BY <1>3, <1>6, <2>1, <2>2, <2>3, ShapeFrom
<1>9. Counted'
  BY <1>1, <1>2, <1>3, TakenCount DEF Long
<1>. QED  BY <1>2, <1>7, <1>8, <1>9, ReadDownGood DEF Good
LEMMA StoreMidGood ==
  ASSUME Types, Good, StoreMid
  PROVE  Types' /\ Good'
<1>1. /\ Step("store mid", "read down") /\ next' = [next EXCEPT ![op.prev] = op.tmp] /\ Without
      /\ UNCHANGED <<head, tail, count, torn>>
  BY DEF StoreMid
<1>2. op.pc = "store mid" /\ op'.pc = "read down" /\ op' \in Op /\ op.pc \in Found
  BY <1>1, StepFacts DEF Pc, Found, Behind
<1>3. PICK n, k \in Nat :
        /\ n = Len(fifo) /\ k \in 1 .. n /\ Stands(k) /\ Branch(k)
        /\ fifo' \in Seq(Task) /\ Len(fifo') = n - 1 /\ n - 1 \in Nat /\ Distinct'
        /\ \A i \in 1 .. k - 1 : fifo'[i] = fifo[i]
        /\ \A i \in k .. n - 1 : fifo'[i] = fifo[i + 1]
  BY <1>1, <1>2, TakenOut
<1>4. 1 < k /\ k < n /\ op.tmp = fifo[k + 1] /\ op.prev = fifo[k - 1]
  BY <1>2, <1>3 DEF Branch, Behind, Stands
<1>5. \A i \in 1 .. n : fifo[i] \in Task
  BY <1>3, ShapeFacts DEF Good
<1>6. /\ next' \in [Task -> Link] /\ next'[fifo[k - 1]] = fifo[k + 1]
      /\ \A i \in 1 .. n : i # k - 1 => next'[fifo[i]] = next[fifo[i]]
  <2>1. k - 1 \in 1 .. n /\ k + 1 \in 1 .. n
    BY <1>4
  <2>2. \A i \in 1 .. n : i # k - 1 => fifo[i] # fifo[k - 1]
    BY <1>3, <2>1, ShapeFacts DEF Good
  <2>3. next' = [next EXCEPT ![fifo[k - 1]] = fifo[k + 1]] /\ next \in [Task -> Link]
    BY <1>1, <1>4 DEF Types
  <2>4. fifo[k - 1] \in Task /\ fifo[k + 1] \in Link
    BY <1>5, <2>1 DEF Link
  <2>. QED  BY <1>5, <2>2, <2>3, <2>4
<1>7. Types'
  BY <1>1, <1>2, <1>3, <1>6 DEF Types
<1>8. Shape'
  <2>1. ASSUME NEW i \in 1 .. (n - 1) - 1 PROVE next'[fifo'[i]] = fifo'[i + 1]
    <3>1. CASE i < k - 1
      <4>1. i \in 1 .. k - 1 /\ i + 1 \in 1 .. k - 1 /\ i \in 1 .. n /\ i # k - 1 /\ i \in 1 .. n - 1
        BY <1>4, <3>1
      <4>2. next[fifo[i]] = fifo[i + 1]
        BY <1>3, <4>1, ShapeFacts DEF Good
      <4>. QED  BY <1>3, <1>6, <4>1, <4>2
    <3>2. CASE i = k - 1
      <4>1. i \in 1 .. k - 1 /\ i + 1 = k /\ k \in k .. n - 1
        BY <1>4, <3>2
      <4>2. fifo'[i] = fifo[k - 1] /\ fifo'[k] = fifo[k + 1]
        BY <1>3, <3>2, <4>1
      <4>. QED  BY <1>6, <4>1, <4>2
    <3>3. CASE i > k - 1
      <4>1. /\ i \in k .. n - 1 /\ i + 1 \in k .. n - 1 /\ i + 1 \in 1 .. n /\ i + 1 # k - 1
            /\ i + 1 \in 1 .. n - 1
        BY <1>4, <3>3
      <4>2. next[fifo[i + 1]] = fifo[(i + 1) + 1]
        BY <1>3, <4>1, ShapeFacts DEF Good
      <4>. QED  BY <1>3, <1>6, <4>1, <4>2
    <3>. QED  BY <1>4, <3>1, <3>2, <3>3
  <2>2. next'[fifo'[n - 1]] = NULL /\ tail' = fifo'[n - 1]
    <3>1. n - 1 \in k .. n - 1 /\ (n - 1) + 1 = n /\ n > 0 /\ n \in 1 .. n /\ n # k - 1
      BY <1>4
    <3>2. fifo'[n - 1] = fifo[n]
      BY <1>3, <3>1
    <3>3. next[fifo[n]] = NULL /\ tail = fifo[n]
      BY <1>2, <1>3, <3>1, ShapeFacts DEF Good
    <3>. QED  BY <1>1, <1>6, <3>1, <3>2, <3>3
  <2>3. head' = fifo'[1]
    <3>1. 1 \in 1 .. k - 1 /\ n > 0
      BY <1>4
    <3>2. head = fifo[1]
      BY <1>3, <3>1, ShapeFacts DEF Good
    <3>. QED  BY <1>1, <1>3, <3>1, <3>2
  <2>4. n - 1 # 0
    BY <1>4
  <2>. QED  BY <1>3, <2>1, <2>2, <2>3, <2>4, ShapeFrom
<1>9. Counted'
  BY <1>1, <1>2, <1>3, TakenCount DEF Long
<1>. QED  BY <1>2, <1>7, <1>8, <1>9, ReadDownGood DEF Good

LEMMA NewTailGood ==
  ASSUME Types, Good, NewTail
  PROVE  Types' /\ Good'
<1>1. /\ Step("new tail", "cut") /\ tail' = op.prev /\ Without
      /\ UNCHANGED <<head, count, next, torn>>
  BY DEF NewTail
<1>2. /\ op.pc = "new tail" /\ op'.pc = "cut" /\ op' \in Op /\ op.pc \in Found
      /\ op'.prev = op.prev
  BY <1>1, StepFacts DEF Pc, Found, Behind
<1>3. PICK n, k \in Nat :
        /\ n = Len(fifo) /\ k \in 1 .. n /\ Stands(k) /\ Branch(k)
        /\ fifo' \in Seq(Task) /\ Len(fifo') = n - 1 /\ n - 1 \in Nat /\ Distinct'
        /\ \A i \in 1 .. k - 1 : fifo'[i] = fifo[i]
  BY <1>1, <1>2, TakenOut
<1>4. 1 < k /\ k = n /\ op.prev = fifo[k - 1]
  BY <1>2, <1>3 DEF Branch, Behind, Stands
<1>5. n - 1 \in 1 .. k - 1 /\ n - 1 \in 1 .. n /\ 1 \in 1 .. k - 1 /\ n - 1 # 0 /\ n > 0
  BY <1>4
<1>6. fifo'[n - 1] = op.prev /\ op.prev \in Task
  <2>1. fifo[n - 1] \in Task
    BY <1>3, <1>5, ShapeFacts DEF Good
  <2>. QED  BY <1>3, <1>4, <1>5, <2>1
<1>7. Types'
  BY <1>1, <1>2, <1>3, <1>6 DEF Types, Link
<1>8. Shape'
  <2>1. ASSUME NEW i \in 1 .. (n - 1) - 1 PROVE next'[fifo'[i]] = fifo'[i + 1]
    <3>1. i \in 1 .. k - 1 /\ i + 1 \in 1 .. k - 1 /\ i \in 1 .. n - 1
      BY <1>4
    <3>2. next[fifo[i]] = fifo[i + 1]
      BY <1>3, <3>1, ShapeFacts DEF Good
    <3>. QED  BY <1>1, <1>3, <3>1, <3>2
  <2>2. head' = fifo'[1]
    <3>1. head = fifo[1]
      BY <1>3, <1>5, ShapeFacts DEF Good
    <3>. QED  BY <1>1, <1>3, <1>5, <3>1
  <2>3. tail' = fifo'[n - 1]
    BY <1>1, <1>6
  <2>. QED  BY <1>2, <1>3, <1>5, <2>1, <2>2, <2>3, ShapeFrom
<1>9. Counted'
  BY <1>1, <1>2, <1>3, TakenCount DEF Long
<1>10. Adds' /\ Removes'
  <2>1. op'.prev = fifo'[Len(fifo')]
    BY <1>2, <1>3, <1>6
  <2>. QED  BY <1>2, <2>1 DEF Adds, Removes, Found, AtFirst, Behind
<1>. QED  BY <1>7, <1>8, <1>9, <1>10 DEF Good

LEMMA CutGood ==
  ASSUME Types, Good, Cut
  PROVE  Types' /\ Good'
<1>. PICK n : n = Len(fifo)
  OBVIOUS
<1>1. /\ Step("cut", "read down") /\ next' = [next EXCEPT ![op.prev] = NULL]
      /\ UNCHANGED <<head, tail, count, fifo, torn>>
  BY DEF Cut
<1>2. op.pc = "cut" /\ op'.pc = "read down" /\ op' \in Op
  BY <1>1, StepFacts DEF Pc
<1>3. n \in Nat /\ (n > 0 => op.prev = fifo[n])
  BY <1>2, Nodes DEF Good, Removes
<1>4. next' \in [Task -> Link]
  BY <1>1 DEF Types, Link
<1>5. Types'
  BY <1>1, <1>2, <1>4 DEF Types
<1>6. Shape'
  <2>0. /\ fifo' = fifo /\ Len(fifo') = n
        /\ n = 0 => head = NULL
    BY <1>1 DEF Good, Shape, HeadFirst
  <2>1. ASSUME NEW i \in 1 .. n - 1 PROVE next'[fifo[i]] = fifo[i + 1]
    <3>1. n > 0 /\ i \in 1 .. n /\ n \in 1 .. n /\ i # n
      BY <1>3
    <3>2. fifo[i] # fifo[n] /\ next[fifo[i]] = fifo[i + 1] /\ fifo[i] \in Task
      BY <3>1, ShapeFacts DEF Good
    <3>3. next'[fifo[i]] = next[fifo[i]]
      BY <1>1, <1>3, <3>1, <3>2 DEF Types
    <3>. QED  BY <3>2, <3>3
  <2>2. n > 0 => next'[fifo[n]] = NULL /\ head = fifo[1] /\ tail = fifo[n]
    <3>. HAVE n > 0
    <3>1. n \in 1 .. n
      BY <1>3
    <3>2. fifo[n] \in Task /\ head = fifo[1] /\ tail = fifo[n]
      BY <1>2, <3>1, ShapeFacts DEF Good
    <3>3. next'[fifo[n]] = NULL
      BY <1>1, <1>3, <3>2 DEF Types
    <3>. QED  BY <3>2, <3>3
  <2>3. Distinct'
    BY <2>0 DEF Good, Shape, Distinct
  <2>4. HeadFirst'
    BY <1>1 DEF Good, Shape, HeadFirst
  <2>5. Chained'
    BY <2>0, <2>1 DEF Chained
  <2>6. EndsThere' /\ TailLast'
    BY <1>1, <2>0, <2>2 DEF EndsThere, TailLast
  <2>. QED  BY <2>3, <2>4, <2>5, <2>6 DEF Shape
<1>7. Counted'
  BY <1>1, <1>2 DEF Good, Counted, Short, Long
<1>. QED  BY <1>2, <1>5, <1>6, <1>7, ReadDownGood DEF Good
-----------------------------------------------------------------------------
(* A task that joins the queue behind its last leaves every place as it    *)
(* was, and what the shell's call knows of it.                             *)
AppendFears == {"set head", "set tail", "set one", "link", "move tail", "write count",
                "clear head", "clear tail", "new tail", "cut", "write down"}

Joins(t) ==
  /\ op.pc \notin AppendFears /\ fifo' = Append(fifo, t)
  /\ op.pc \in {"read head", "read tail"} => next'[op.item] = next[op.item]

LEMMA AppendKnows ==
  ASSUME Types, Good, NEW t \in Task, ~In(t), t # op.item, op' = op, Joins(t)
  PROVE  Adds' /\ Removes'
<1>. PICK n, u : n = Len(fifo) /\ u = op.item
  OBVIOUS
<1>0. n \in Nat
  BY Nodes DEF Good
<1>1. /\ Len(fifo') = n + 1 /\ fifo'[n + 1] = t
      /\ \A i \in 1 .. n : fifo'[i] = fifo[i]
  BY FifoAppend DEF Good, Joins
<1>2. (In(u)' <=> In(u)) /\ op'.item = u
  <2>1. ASSUME NEW i \in 1 .. n, fifo[i] = u PROVE In(u)'
    <3>1. i \in 1 .. n + 1
      BY <1>0
    <3>2. fifo'[i] = u
      BY <1>1, <2>1
    <3>. QED  BY <1>1, <3>1, <3>2 DEF In
  <2>2. ASSUME NEW i \in 1 .. n + 1, fifo'[i] = u PROVE In(u)
    <3>1. i \in 1 .. n \/ i = n + 1
      BY <1>0
    <3>2. i # n + 1
      BY <1>1, <2>2
    <3>. QED  BY <1>1, <2>2, <3>1, <3>2 DEF In
  <2>. QED  BY <1>1, <2>1, <2>2 DEF In
<1>3. Adds'
  <2>1. op.pc \in {"read head", "read tail"} => u \in Task /\ ~In(u)' /\ next'[u] = NULL
    BY <1>2 DEF Good, Adds, Joins
  <2>2. n + 1 > 0
    BY <1>0
  <2>. QED  BY <1>1, <1>2, <2>1, <2>2 DEF Adds, Joins, AppendFears
<1>4. StaysIn' <=> StaysIn
  BY <1>2 DEF StaysIn
<1>5. \A k \in 1 .. n : k \in 1 .. n + 1 /\ (k > 1 => k - 1 \in 1 .. n) /\ \A j \in 1 .. k : j \in 1 .. n
  BY <1>0
<1>6. \A k \in 1 .. n : Stands(k) => Stands(k)'
  BY <1>1, <1>5 DEF Stands
<1>7. Passed => Passed'
  <2>. SUFFICES ASSUME NEW k \in 1 .. n, Stands(k), \A j \in 1 .. k - 1 : fifo[j] # u PROVE Passed'
    BY DEF Passed
  <2>1. \A j \in 1 .. k - 1 : fifo'[j] # u
    <3>1. \A j \in 1 .. k - 1 : j \in 1 .. n
      BY <1>0
    <3>. QED  BY <1>1, <3>1
  <2>. QED  BY <1>1, <1>2, <1>5, <1>6, <2>1 DEF Passed
<1>8. Compared => Compared'
  <2>. SUFFICES ASSUME NEW k \in 1 .. n, Stands(k), \A j \in 1 .. k : fifo[j] # u PROVE Compared'
    BY DEF Compared
  <2>1. \A j \in 1 .. k : fifo'[j] # u
    BY <1>1, <1>5
  <2>. QED  BY <1>1, <1>2, <1>5, <1>6, <2>1 DEF Compared
<1>9. Branched => Branched'
  <2>. SUFFICES ASSUME NEW k \in 1 .. n, Stands(k), Branch(k) PROVE Branched'
    BY DEF Branched
  <2>1. /\ n > 1 => n + 1 > 1
        /\ k < n => k < n + 1 /\ k + 1 \in 1 .. n
    BY <1>0
  <2>2. op.pc \in {"store first", "store mid"} => k < n
    BY DEF Branch, AtFirst
  <2>3. Branch(k)'
    BY <1>1, <2>1, <2>2 DEF Branch, AtFirst, Behind, Joins, AppendFears
  <2>. QED  BY <1>1, <1>5, <1>6, <2>3 DEF Branched
<1>10. Removes'
  BY <1>4, <1>7, <1>8, <1>9 DEF Good, Removes, Found, AtFirst, Behind, Joins, AppendFears
<1>. QED  BY <1>3, <1>10

LEMMA AppendGood ==
  ASSUME Types, Good, NEW t \in Task, AppendsInInterrupt(t)
  PROVE  Types' /\ (~torn' => Good')
<1>. PICK n : n = Len(fifo)
  OBVIOUS
<1>1. /\ ~In(t) /\ t # op.item /\ fifo' = Append(fifo, t) /\ op' = op /\ torn' = AppendHarms
      /\ \/ /\ head = NULL /\ head' = t /\ tail' = t /\ count' = 1
            /\ next' = [next EXCEPT ![t] = NULL]
         \/ /\ head # NULL /\ head' = head /\ tail' = t /\ count' = count + 1
            /\ next' = [x \in Task |-> IF x = tail THEN t ELSE IF x = t THEN NULL ELSE next[x]]
  BY DEF AppendsInInterrupt, Contains, In
<1>2. /\ fifo' \in Seq(Task) /\ Len(fifo') = n + 1 /\ n \in Nat /\ fifo'[n + 1] = t /\ Distinct'
      /\ \A i \in 1 .. n : fifo'[i] = fifo[i] /\ fifo[i] # t
  BY <1>1, FifoAppend DEF Good
<1>3. (head = NULL => n = 0) /\ (head # NULL => n > 0)
  BY Nodes DEF Good
<1>4. next' \in [Task -> Link]
  BY <1>1 DEF Types, Link
<1>5. Types'
  <2>1. torn' \in BOOLEAN
    BY <1>1 DEF AppendHarms
  <2>2. count' \in Nat /\ head' \in Link /\ tail' \in Link
    BY <1>1 DEF Types, Link
  <2>. QED  BY <1>1, <1>2, <1>4, <2>1, <2>2 DEF Types
<1>. SUFFICES ASSUME ~torn' PROVE Good'
  BY <1>5
<1>6. op.pc \notin AppendFears /\ (head = NULL => count = 0)
  BY <1>1 DEF AppendHarms, AppendFears
<1>7. n > 0 => tail = fifo[n] /\ next[fifo[n]] = NULL /\ head = fifo[1] /\ n \in 1 .. n /\ 1 \in 1 .. n
  <2>1. n > 0 => n \in 1 .. n /\ 1 \in 1 .. n
    BY <1>2
  <2>. QED  BY <1>6, <2>1, ShapeFacts DEF Good, AppendFears
<1>8. /\ next'[t] = NULL
      /\ n > 0 => next'[fifo[n]] = t
      /\ \A x \in Task : x # t /\ (n > 0 => x # fifo[n]) => next'[x] = next[x]
  <2>1. CASE head = NULL
    BY <1>1, <1>3, <2>1 DEF Types, Link
  <2>2. CASE head # NULL
    <3>1. tail = fifo[n] /\ fifo[n] \in Task /\ fifo[n] # t
      BY <1>2, <1>3, <1>7, <2>2, ShapeFacts DEF Good
    <3>2. \A x \in Task : next'[x] = IF x = fifo[n] THEN t ELSE IF x = t THEN NULL ELSE next[x]
      BY <1>1, <2>2, <3>1
    <3>. QED  BY <1>3, <2>2, <3>1, <3>2
  <2>. QED  BY <2>1, <2>2
<1>9. Shape'
  <2>1. ASSUME NEW i \in 1 .. n PROVE next'[fifo'[i]] = fifo'[i + 1]
    <3>1. CASE i = n
      <4>1. n > 0
        BY <3>1
      <4>. QED  BY <1>2, <1>8, <3>1, <4>1
    <3>2. CASE i # n
      <4>1. n > 0 /\ i \in 1 .. n - 1 /\ i + 1 \in 1 .. n
        BY <1>2, <3>2
      <4>2. next[fifo[i]] = fifo[i + 1] /\ fifo[i] \in Task /\ fifo[i] # t /\ fifo[i] # fifo[n]
        BY <1>2, <1>7, <3>2, <4>1, ShapeFacts DEF Good
      <4>. QED  BY <1>2, <1>8, <4>1, <4>2
    <3>. QED  BY <3>1, <3>2
  <2>2. head' = fifo'[1]
    <3>1. CASE head = NULL
      <4>1. n + 1 = 1
        BY <1>3, <3>1
      <4>. QED  BY <1>1, <1>2, <3>1, <4>1
    <3>2. CASE head # NULL
      BY <1>1, <1>2, <1>3, <1>7, <3>2
    <3>. QED  BY <3>1, <3>2
  <2>3. next'[fifo'[n + 1]] = NULL /\ tail' = fifo'[n + 1]
    BY <1>1, <1>2, <1>8
  <2>4. n + 1 \in Nat /\ n + 1 # 0 /\ (n + 1) - 1 = n
    BY <1>2
  <2>. QED  BY <1>2, <2>1, <2>2, <2>3, <2>4, ShapeFrom
<1>10. Counted'
  <2>1. CASE head = NULL
    <3>1. n = 0 /\ count = 0
      BY <1>3, <1>6, <2>1
    <3>2. count + 1 # n /\ count # n + 1
      BY <3>1
    <3>3. op.pc \notin Short \union Long
      BY <3>2 DEF Good, Counted
    <3>4. count' = n + 1
      BY <1>1, <2>1, <3>1
    <3>. QED  BY <1>1, <1>2, <3>3, <3>4 DEF Counted
  <2>2. CASE head # NULL
    <3>1. count' = count + 1 /\ op' = op /\ count \in Nat
      BY <1>1, <2>2 DEF Types
    <3>2. /\ op.pc \in Short => count' + 1 = n + 1
          /\ op.pc \in Long => count' = (n + 1) + 1
          /\ op.pc \notin Short \union Long => count' = n + 1
      BY <1>2, <3>1 DEF Good, Counted
    <3>. QED  BY <1>2, <3>1, <3>2 DEF Counted
  <2>. QED  BY <2>1, <2>2
<1>11. Adds' /\ Removes'
  <2>1. op.pc \in {"read head", "read tail"} => next'[op.item] = next[op.item]
    <3>. HAVE op.pc \in {"read head", "read tail"}
    <3>1. op.item \in Task /\ ~In(op.item)
      BY DEF Good, Adds
    <3>2. n > 0 => op.item # fifo[n]
      BY <1>7, <3>1 DEF In
    <3>. QED  BY <1>1, <1>8, <3>1, <3>2
  <2>. QED  BY <1>1, <1>6, <2>1, AppendKnows DEF Joins
<1>. QED  BY <1>9, <1>10, <1>11 DEF Good
(* The first task leaves the queue: every place is one nearer the head, and *)
(* the shell's call stands one place nearer, never on the task that left.  *)
Leaves ==
  /\ Len(fifo) > 0 /\ fifo' = Tail(fifo) /\ op' = [op EXCEPT !.stays = @ /\ head # op.item]
  /\ UNCHANGED next /\ ~TakeHarms

(* The place kRemoveList stands on is not the first, nor, once it has been *)
(* compared with the head, the second.                                     *)
LEMMA NotFirst ==
  ASSUME Types, Shape, Leaves, NEW k \in 1 .. Len(fifo), Stands(k)
  PROVE  /\ op.pc \in {"loop", "step"} \union Found => k > 1
         /\ op.pc \in Behind => k > 1 /\ k - 1 > 1
<1>. PICK n : n = Len(fifo)
  OBVIOUS
<1>0. n \in Nat /\ k \in 1 .. n
  BY Nodes
<1>1. head = fifo[1]
  BY <1>0, ShapeFacts DEF Leaves
<1>2. /\ op.link = fifo[k] /\ (k > 1 => op.prev = fifo[k - 1])
      /\ op.pc \in {"loop", "step"} \union Found => head # op.link
      /\ op.pc \in Behind => head # op.prev
      /\ op.pc \in Behind => op.pc \in Found
  BY DEF Stands, Leaves, TakeHarms, Found, AtFirst, Behind
<1>3. op.link # head => k # 1
  BY <1>1, <1>2
<1>4. op.prev # head => k - 1 # 1 \/ ~(k > 1)
  BY <1>1, <1>2
<1>5. (k # 1 => k > 1) /\ (k > 1 /\ k - 1 # 1 => k - 1 > 1)
  BY <1>0
<1>6. op.pc \in {"loop", "step"} \union Found => k > 1
  BY <1>2, <1>3, <1>5
<1>7. op.pc \in Behind => k > 1 /\ k - 1 > 1
  BY <1>2, <1>4, <1>5, <1>6
<1>. QED  BY <1>6, <1>7

LEMMA LeavesKnows ==
  ASSUME Types, Good, Leaves
  PROVE  Removes'
<1>. PICK n, u : n = Len(fifo) /\ u = op.item
  OBVIOUS
<1>0. n \in Nat /\ n > 0 /\ n # 0
  <2>1. n \in Nat /\ n > 0
    BY Nodes DEF Good, Leaves
  <2>. QED  BY <2>1
<1>1. Len(fifo') = n - 1 /\ \A i \in 1 .. n - 1 : fifo'[i] = fifo[i + 1]
  BY FifoTail DEF Good, Leaves
<1>2. /\ op'.pc = op.pc /\ op'.item = u /\ op'.link = op.link /\ op'.prev = op.prev /\ op'.tmp = op.tmp
      /\ op'.stays = (op.stays /\ head # u)
  BY DEF Types, Op, Leaves
<1>3. head = fifo[1] /\ 1 \in 1 .. n
  <2>1. 1 \in 1 .. n
    BY <1>0
  <2>. QED  BY <1>0, <2>1, ShapeFacts DEF Good
<1>4. In(u)' <=> In(u) /\ u # fifo[1]
  <2>1. ASSUME NEW i \in 1 .. n, fifo[i] = u, u # fifo[1] PROVE In(u)'
    <3>1. i # 1
      BY <2>1
    <3>2. i - 1 \in 1 .. n - 1 /\ (i - 1) + 1 = i
      BY <1>0, <3>1
    <3>. QED  BY <1>1, <2>1, <3>2 DEF In
  <2>2. ASSUME NEW i \in 1 .. n - 1, fifo'[i] = u PROVE In(u) /\ u # fifo[1]
    <3>1. i + 1 \in 1 .. n /\ i + 1 # 1
      BY <1>0
    <3>2. fifo[i + 1] = u
      BY <1>1, <2>2
    <3>3. fifo[i + 1] # fifo[1]
      BY <1>3, <3>1, ShapeFacts DEF Good
    <3>. QED  BY <3>1, <3>2, <3>3 DEF In
  <2>. QED  BY <1>1, <2>1, <2>2 DEF In
<1>5. StaysIn => StaysIn'
  BY <1>2, <1>3, <1>4 DEF StaysIn
<1>6. ASSUME NEW k \in 1 .. n, k > 1
      PROVE  /\ k - 1 \in 1 .. n - 1 /\ (k - 1) + 1 = k /\ k # 1
             /\ k - 1 > 1 => k - 2 \in 1 .. n - 1 /\ (k - 2) + 1 = k - 1 /\ (k - 1) - 1 = k - 2
             /\ k < n => k \in 1 .. n - 1 /\ k - 1 < n - 1
             /\ k = n => k - 1 = n - 1
             /\ \A j \in 1 .. k - 1 : j \in 1 .. n - 1 /\ j + 1 \in 1 .. k
             /\ \A j \in 1 .. (k - 1) - 1 : j \in 1 .. n - 1 /\ j + 1 \in 1 .. k - 1
  BY <1>0, <1>6
<1>7. ASSUME NEW k \in 1 .. n, k > 1, Stands(k) PROVE Stands(k - 1)'
  <2>1. op'.link = fifo'[k - 1]
    BY <1>1, <1>2, <1>6, <1>7 DEF Stands
  <2>2. k - 1 > 1 => op'.prev = fifo'[(k - 1) - 1]
    <3>. HAVE k - 1 > 1
    <3>1. fifo'[k - 2] = fifo[k - 1]
      BY <1>1, <1>6, <1>7
    <3>2. op'.prev = fifo[k - 1]
      BY <1>2, <1>7 DEF Stands
    <3>. QED  BY <1>6, <1>7, <3>1, <3>2
  <2>. QED  BY <2>1, <2>2 DEF Stands
<1>8. ASSUME NEW k \in 1 .. n, k > 1, Stands(k), \A j \in 1 .. k - 1 : fifo[j] # u PROVE Passed'
  <2>1. ASSUME NEW j \in 1 .. (k - 1) - 1 PROVE fifo'[j] # u
    <3>1. j \in 1 .. n - 1 /\ j + 1 \in 1 .. k - 1
      BY <1>6, <1>8
    <3>. QED  BY <1>1, <1>8, <3>1
  <2>. QED  BY <1>1, <1>2, <1>6, <1>7, <1>8, <2>1 DEF Passed
<1>9. ASSUME NEW k \in 1 .. n, k > 1, Stands(k), \A j \in 1 .. k : fifo[j] # u PROVE Compared'
  <2>1. ASSUME NEW j \in 1 .. k - 1 PROVE fifo'[j] # u
    <3>1. j \in 1 .. n - 1 /\ j + 1 \in 1 .. k
      BY <1>6, <1>9
    <3>. QED  BY <1>1, <1>9, <3>1
  <2>. QED  BY <1>1, <1>2, <1>6, <1>7, <1>9, <2>1 DEF Compared
<1>10. op.pc = "loop" => (op'.link = NULL /\ ~op'.stays) \/ Passed'
  <2>. HAVE op.pc = "loop"
  <2>1. CASE op.link = NULL /\ ~op.stays
    BY <1>2, <2>1
  <2>2. CASE Passed
    <3>1. PICK k \in 1 .. n : Stands(k) /\ \A j \in 1 .. k - 1 : fifo[j] # u
      BY <2>2 DEF Passed
    <3>2. k > 1
      BY <3>1, NotFirst DEF Good
    <3>. QED  BY <1>8, <3>1, <3>2
  <2>3. (op.link = NULL /\ ~op.stays) \/ Passed
    BY DEF Good, Removes
  <2>. QED  BY <2>1, <2>2, <2>3
<1>11. op.pc = "step" => Compared'
  <2>. HAVE op.pc = "step"
  <2>1. PICK k \in 1 .. n : Stands(k) /\ \A j \in 1 .. k : fifo[j] # u
    BY DEF Good, Removes, Compared
  <2>2. k > 1
    BY <2>1, NotFirst DEF Good
  <2>. QED  BY <1>9, <2>1, <2>2
<1>12. op.pc \in Found => Branched'
  <2>. HAVE op.pc \in Found
  <2>1. PICK k \in 1 .. n : Stands(k) /\ Branch(k)
    BY DEF Good, Removes, Branched
  <2>2. k > 1 /\ (op.pc \in Behind => k - 1 > 1)
    BY <2>1, NotFirst DEF Good
  <2>3. op.pc \notin AtFirst
    BY <1>6, <2>1, <2>2 DEF Branch
  <2>4. op.pc = "store mid" => op'.tmp = fifo'[(k - 1) + 1]
    <3>1. op.pc = "store mid" => k < n /\ op.tmp = fifo[k + 1]
      BY <2>1 DEF Branch
    <3>2. k < n => fifo'[k] = fifo[k + 1] /\ (k - 1) + 1 = k
      BY <1>1, <1>6, <2>2
    <3>. QED  BY <1>2, <3>1, <3>2
  <2>5. op.pc = "new tail" => k - 1 = n - 1
    BY <2>1 DEF Branch
  <2>6. op.pc \in {"load mid", "store mid"} => k - 1 < n - 1
    BY <1>6, <2>1, <2>2 DEF Branch
  <2>7. Branch(k - 1)'
    BY <1>1, <1>2, <2>2, <2>3, <2>4, <2>5, <2>6 DEF Branch, AtFirst, Behind
  <2>. QED  BY <1>1, <1>6, <1>7, <2>1, <2>2, <2>7 DEF Branched
<1>13. op.pc # "clear tail"
  BY <1>0 DEF Good, Removes
<1>14. op.pc = "cut" /\ n - 1 > 0 => op'.prev = fifo'[n - 1]
  <2>1. op.pc = "cut" => op.prev = fifo[n]
    BY <1>0 DEF Good, Removes
  <2>2. n - 1 > 0 => fifo'[n - 1] = fifo[n]
    <3>1. n - 1 > 0 => n - 1 \in 1 .. n - 1 /\ (n - 1) + 1 = n
      BY <1>0
    <3>. QED  BY <1>1, <3>1
  <2>. QED  BY <1>2, <2>1, <2>2
<1>15. op.pc \in Found => op.link = u
  BY DEF Good, Removes
<1>16. op.pc \in {"read first", "loop", "step"} \union Found => StaysIn'
  BY <1>5 DEF Good, Removes
<1>. QED  BY <1>1, <1>2, <1>10, <1>11, <1>12, <1>13, <1>14, <1>15, <1>16 DEF Removes
LEMMA TakeGood ==
  ASSUME Types, Good, TakesInInterrupt
  PROVE  Types' /\ (~torn' => Good')
<1>. PICK n : n = Len(fifo)
  OBVIOUS
<1>1. /\ count > 0 /\ torn' = TakeHarms /\ next' = next
      /\ op' = [op EXCEPT !.stays = @ /\ head # op.item]
      /\ \/ head = NULL /\ UNCHANGED list
         \/ /\ head # NULL
            /\ head' = IF head = tail THEN NULL ELSE next[head]
            /\ tail' = IF head = tail THEN NULL ELSE tail
            /\ count' = count - 1 /\ fifo' = Tail(fifo)
  BY DEF TakesInInterrupt, list
<1>2. n \in Nat /\ (head # NULL => n > 0)
  BY Nodes DEF Good
<1>3. op' \in Op /\ op'.pc = op.pc /\ op'.item = op.item /\ op'.link = op.link /\ op'.tmp = op.tmp
  BY <1>1 DEF Types, Op
<1>4. Types'
  <2>1. torn' \in BOOLEAN
    BY <1>1 DEF TakeHarms
  <2>2. CASE head = NULL
    BY <1>1, <1>3, <2>1, <2>2 DEF Types, list
  <2>3. CASE head # NULL
    <3>1. fifo' \in Seq(Task)
      BY <1>1, <1>2, <2>3, FifoTail DEF Good
    <3>2. head' \in Link /\ tail' \in Link /\ count' \in Nat
      BY <1>1, <2>3 DEF Types, Link
    <3>. QED  BY <1>1, <1>3, <2>1, <3>1, <3>2 DEF Types
  <2>. QED  BY <2>2, <2>3
<1>. SUFFICES ASSUME ~torn' PROVE Good'
  BY <1>4
<1>5. ~TakeHarms /\ head # NULL
  BY <1>1 DEF TakeHarms
<1>6. Leaves
  BY <1>1, <1>2, <1>5 DEF Leaves
<1>7. /\ Len(fifo') = n - 1 /\ n > 0 /\ n - 1 \in Nat /\ Distinct'
      /\ \A i \in 1 .. n - 1 : fifo'[i] = fifo[i + 1]
      /\ 1 \in 1 .. n /\ n \in 1 .. n /\ head = fifo[1]
  <2>1. n - 1 \in Nat /\ 1 \in 1 .. n /\ n \in 1 .. n
    BY <1>2, <1>5
  <2>. QED  BY <1>1, <1>2, <1>5, <2>1, FifoTail, ShapeFacts DEF Good
<1>8. op.pc \notin {"set tail", "set one", "write count", "write down"}
  <2>1. CASE op.pc \in {"set tail", "set one"}
    <3>1. n = 1 /\ count + 1 = n
      BY <2>1 DEF Good, Adds, Counted, Short
    <3>2. ~(count > 0)
      BY <3>1 DEF Types
    <3>. QED  BY <1>1, <3>2
  <2>. QED  BY <1>5, <2>1 DEF TakeHarms
<1>9. op.pc = "move tail" => n > 1 /\ tail = fifo[n - 1] /\ head # tail /\ op.item = fifo[n]
  BY <1>5 DEF Good, Adds, TakeHarms
<1>10. op.pc # "move tail" => tail = fifo[n]
  BY <1>7, <1>8, ShapeFacts DEF Good
<1>11. n = 1 <=> head = tail
  <2>0. n > 1 => n # 1
    BY <1>2
  <2>1. CASE op.pc = "move tail"
    BY <1>9, <2>0, <2>1
  <2>2. CASE op.pc # "move tail"
    <3>1. tail = fifo[n]
      BY <1>10, <2>2
    <3>2. fifo[n] = fifo[1] => n = 1
      BY <1>7, ShapeFacts DEF Good
    <3>. QED  BY <1>7, <3>1, <3>2
  <2>. QED  BY <2>1, <2>2
<1>12. n > 1 => /\ tail' = tail /\ head' = fifo'[1]
                /\ n - 1 \in 1 .. n - 1 /\ (n - 1) + 1 = n /\ fifo'[n - 1] = fifo[n]
  <2>. HAVE n > 1
  <2>1. 1 \in 1 .. n - 1 /\ n - 1 \in 1 .. n - 1 /\ (n - 1) + 1 = n /\ n # 1
    BY <1>2
  <2>2. next[fifo[1]] = fifo[1 + 1] /\ fifo'[1] = fifo[1 + 1]
    BY <1>7, <2>1, ShapeFacts DEF Good
  <2>3. head # tail
    BY <1>11, <2>1
  <2>. QED  BY <1>1, <1>5, <1>7, <2>1, <2>2, <2>3
<1>13. n > 1 /\ op.pc = "move tail" =>
         n - 1 > 1 /\ tail' = fifo'[(n - 1) - 1] /\ op'.item = fifo'[n - 1]
  <2>1. n # 2 /\ n > 1 => n - 1 > 1 /\ (n - 1) - 1 \in 1 .. n - 1 /\ ((n - 1) - 1) + 1 = n - 1
    BY <1>2
  <2>2. n = 2 => n - 1 = 1
    OBVIOUS
  <2>3. n > 1 /\ op.pc = "move tail" => n # 2
    BY <1>7, <1>9, <2>2
  <2>. QED  BY <1>3, <1>7, <1>9, <1>12, <2>1, <2>3
<1>14. Shape'
  <2>1. ASSUME NEW i \in 1 .. (n - 1) - 1 PROVE next'[fifo'[i]] = fifo'[i + 1]
    <3>1. i \in 1 .. n - 1 /\ i + 1 \in 1 .. n - 1
      BY <1>2
    <3>2. next[fifo[i + 1]] = fifo[(i + 1) + 1]
      BY <3>1, ShapeFacts DEF Good
    <3>. QED  BY <1>1, <1>7, <3>1, <3>2
  <2>2. n - 1 > 0 => n > 1
    BY <1>2
  <2>3. n - 1 > 0 /\ op'.pc # "cut" => next'[fifo'[n - 1]] = NULL
    <3>1. op.pc # "cut" => next[fifo[n]] = NULL
      BY <1>7, ShapeFacts DEF Good
    <3>. QED  BY <1>1, <1>3, <1>12, <2>2, <3>1
  <2>4. n - 1 > 0 /\ op'.pc # "set tail" /\ op'.pc # "move tail" => tail' = fifo'[n - 1]
    BY <1>3, <1>10, <1>12, <2>2
  <2>5. n - 1 = 0 => head' = NULL
    <3>1. n > 1 => n - 1 # 0
      BY <1>2
    <3>2. n = 1 \/ n > 1
      BY <1>2, <1>7
    <3>. QED  BY <1>1, <1>5, <1>11, <3>1, <3>2
  <2>6. n - 1 > 0 => head' = fifo'[1]
    BY <1>12, <2>2
  <2>. QED  BY <1>7, <2>1, <2>3, <2>4, <2>5, <2>6, ShapeFrom
<1>15. Counted'
  <2>1. count' = count - 1 /\ count \in Nat
    BY <1>1, <1>5 DEF Types
  <2>2. /\ op.pc \in Short => count + 1 = n
        /\ op.pc \in Long => count = n + 1
        /\ op.pc \notin Short \union Long => count = n
    BY DEF Good, Counted
  <2>3. /\ count + 1 = n => count' + 1 = n - 1
        /\ count = n + 1 => count' = (n - 1) + 1
        /\ count = n => count' = n - 1
    BY <1>2, <2>1
  <2>. QED  BY <1>3, <1>7, <2>2, <2>3 DEF Counted
<1>16. Adds'
  <2>. PICK u : u = op.item
    OBVIOUS
  <2>1. op.pc \in {"read head", "set head", "read tail", "link"} => u \in Task /\ ~In(u)' /\ next'[u] = NULL
    <3>1. In(u)' => In(u)
      <4>. SUFFICES ASSUME NEW i \in 1 .. n - 1, fifo'[i] = u PROVE In(u)
        BY <1>7 DEF In
      <4>1. i + 1 \in 1 .. n /\ fifo[i + 1] = u
        BY <1>2, <1>7
      <4>. QED  BY <4>1 DEF In
    <3>. QED  BY <1>1, <3>1 DEF Good, Adds
  <2>2. op.pc # "set head"
    <3>1. op.pc = "set head" => n = 0
      BY DEF Good, Adds
    <3>2. n # 0
      BY <1>2, <1>7
    <3>. QED  BY <3>1, <3>2
  <2>3. op.pc \in {"read tail", "link", "move tail"} => n - 1 > 0
    <3>1. op.pc \in {"read tail", "link", "move tail"} => n # 1
      BY <1>5, <1>11 DEF TakeHarms
    <3>2. n # 1 => n - 1 > 0 /\ n > 1
      BY <1>2, <1>7
    <3>. QED  BY <3>1, <3>2
  <2>4. n - 1 > 0 => n > 1
    BY <1>2
  <2>5. op.pc = "link" => op'.link = tail'
    <3>1. op.pc = "link" => op.link = tail
      BY DEF Good, Adds
    <3>. QED  BY <1>3, <1>12, <2>3, <2>4, <3>1
  <2>. QED  BY <1>3, <1>7, <1>8, <1>13, <2>1, <2>2, <2>3, <2>4, <2>5 DEF Adds
<1>17. Removes'
  BY <1>6, LeavesKnows
<1>. QED  BY <1>14, <1>15, <1>16, <1>17 DEF Good
-----------------------------------------------------------------------------
LEMMA NextGood == ListInv /\ [ListNext]_listVars => ListInv'
<1>. SUFFICES ASSUME ListInv, [ListNext]_listVars PROVE ListInv'
  OBVIOUS
<1>1. Types /\ (~torn => Good)
  BY DEF ListInv
<1>2. CASE ~torn /\ \E t \in Task : AddBegins(t) \/ RemoveBegins(t)
  BY <1>1, <1>2, AddBeginsGood, RemoveBeginsGood DEF ListInv
<1>3. CASE ~torn /\ AddSteps
  BY <1>1, <1>3, ReadHeadGood, SetHeadGood, SetTailGood, SetOneGood, ReadTailGood, LinkTailGood,
     MoveTailGood, ReadCountGood, WriteCountGood, Zenon DEF AddSteps, ListInv
<1>4. CASE ~torn /\ RemoveSteps
  BY <1>1, <1>4, ReadFirstGood, CompareGood, AdvanceGood, NotFoundGood, AskGood, ClearHeadGood,
     ClearTailGood, LoadNextGood, StoreFirstGood, StoreMidGood, NewTailGood, CutGood, Zenon
     DEF RemoveSteps, ListInv
<1>5. CASE \E t \in Task : AppendsInInterrupt(t)
  <2>1. ~torn
    BY <1>5 DEF AppendsInInterrupt
  <2>. QED  BY <1>1, <1>5, <2>1, AppendGood DEF ListInv
<1>6. CASE TakesInInterrupt
  <2>1. ~torn
    BY <1>6 DEF TakesInInterrupt
  <2>. QED  BY <1>1, <1>6, <2>1, TakeGood DEF ListInv
<1>7. CASE UNCHANGED listVars
  <2>1. Types'
    BY <1>1, <1>7 DEF Types, listVars
  <2>2. Good => Good'
    <3>1. Shape => Shape'
      BY <1>7 DEF listVars, Shape, Distinct, HeadFirst, Chained, EndsThere, TailLast
    <3>2. Counted => Counted'
      BY <1>7 DEF listVars, Counted
    <3>3. Adds => Adds'
      BY <1>7 DEF listVars, Adds, In
    <3>4. Removes => Removes'
      <4>1. fifo' = fifo /\ op' = op
        BY <1>7 DEF listVars
      <4>2. StaysIn => StaysIn'
        BY <4>1 DEF StaysIn, In
      <4>3. (Passed => Passed') /\ (Compared => Compared')
        BY <4>1 DEF Passed, Compared, Stands
      <4>4. Branched => Branched'
        BY <4>1 DEF Branched, Stands, Branch
      <4>. QED  BY <4>1, <4>2, <4>3, <4>4 DEF Removes
    <3>. QED  BY <3>1, <3>2, <3>3, <3>4 DEF Good
  <2>. QED  BY <1>1, <1>7, <2>1, <2>2 DEF ListInv, listVars
<1>. QED  BY <1>2, <1>3, <1>4, <1>5, <1>6, <1>7 DEF ListNext

(* Whatever interrupts the shell, the list is that of the queue but for    *)
(* the access that comes next, until one comes where it does harm.         *)
THEOREM ListInvariantHolds == ListSpec => []ListInv
<1>. QED  BY InitGood, NextGood, PTL DEF ListSpec

(* Whenever no call is in the middle of changing it, the list is the queue *)
(* that module Scheduler takes it for: list.c:8-105.                       *)
THEOREM ListStaysQueue == ListSpec => []ListIsQueue
<1>1. ListInv => ListIsQueue
  <2>. SUFFICES ASSUME Types, ~torn => Good PROVE ListIsQueue
    BY DEF ListInv
  <2>1. head \in Task \union {NULL} /\ tail \in Task \union {NULL}
    BY DEF Types, Link
  <2>. SUFFICES ASSUME ~torn, Whole(op.pc)
                PROVE  Linked /\ count = Len(fifo) /\ (fifo # <<>> => tail = Last(fifo))
    BY <2>1 DEF ListIsQueue
  <2>. PICK n : n = Len(fifo)
    OBVIOUS
  <2>2. op.pc \notin Short \union Long /\ op.pc \notin {"cut", "set tail", "move tail"}
    BY DEF Whole, Short, Long
  <2>3. fifo \in Seq(Task) /\ n \in Nat /\ (fifo = <<>> <=> n = 0)
    BY Nodes DEF Good
  <2>4. count = n
    BY <2>2 DEF Good, Counted
  <2>5. n > 0 => head = fifo[1] /\ tail = fifo[n] /\ next[fifo[n]] = NULL
    BY <2>2, ShapeFacts DEF Good
  <2>6. fifo # <<>> => head = Head(fifo) /\ tail = Last(fifo)
    <3>. HAVE fifo # <<>>
    <3>1. n > 0
      BY <2>3
    <3>2. Head(fifo) = fifo[1] /\ Last(fifo) = fifo[n]
      BY <2>3 DEF Last
    <3>. QED  BY <2>5, <3>1, <3>2
  <2>7. fifo = <<>> => head = NULL
    BY <2>3 DEF Good, Shape, HeadFirst
  <2>8. \A i \in DOMAIN fifo : next[fifo[i]] = IF i = Len(fifo) THEN NULL ELSE fifo[i + 1]
    <3>. SUFFICES ASSUME NEW i \in 1 .. n
                  PROVE  next[fifo[i]] = IF i = n THEN NULL ELSE fifo[i + 1]
      BY <2>3
    <3>1. n > 0 /\ (i # n => i \in 1 .. n - 1)
      BY <2>3
    <3>. QED  BY <2>5, <3>1, ShapeFacts DEF Good
  <2>. QED  BY <2>4, <2>6, <2>7, <2>8 DEF Linked
<1>. QED  BY <1>1, ListInvariantHolds, PTL

(* kRemoveList never walks past a task that stays in the list during the   *)
(* whole call: list.c:53.                                                  *)
THEOREM StaysFound == ListSpec => []FindsWhatStays
<1>1. ListInv => FindsWhatStays
  <2>. SUFFICES ASSUME Types, Good PROVE FindsWhatStays
    BY DEF ListInv, FindsWhatStays
  <2>1. At("loop") /\ op.link = NULL => ~op.stays
    <3>. SUFFICES ASSUME op.pc = "loop", op.link = NULL PROVE ~op.stays
      BY DEF At
    <3>1. ~Passed
      BY Nodes DEF Good, Passed, Stands
    <3>. QED  BY <3>1 DEF Good, Removes
  <2>2. fifo # <<>> => head = Head(fifo)
    <3>. HAVE fifo # <<>>
    <3>1. fifo \in Seq(Task) /\ Len(fifo) > 0
      BY DEF Types
    <3>2. head = fifo[1]
      BY <3>1 DEF Good, Shape, HeadFirst
    <3>. QED  BY <3>1, <3>2
  <2>. QED  BY <2>1, <2>2 DEF FindsWhatStays
<1>. QED  BY <1>1, ListInvariantHolds, PTL

-----------------------------------------------------------------------------
(* The life cycle of a task.                                               *)
HIDE TaskListsAssumption
USE TaskLifeAssumption

-----------------------------------------------------------------------------
(* The inductive invariant, up to the moment a TCB gets two owners.  A TCB *)
(* belongs to one owner at a time: the pool, the processor, the shell, the *)
(* wait list or the idle task; a task that is killed stays the shell's,    *)
(* since only threads that end themselves reach the wait list and those    *)
(* are not killed.                                                         *)
Given(s) ==
  \/ shell.at = "forget" /\ shell.slot = s
  \/ idle.at = "forget" /\ idle.slot = s

Stacked ==
  /\ \A s \in Slot : stack[s] \in stacks <=> stack[s] # 0 /\ ~Given(s)
  /\ \A x \in stacks : \E s \in Slot : stack[s] = x
  /\ \A r, s \in Slot : stack[r] = stack[s] /\ stack[r] # 0 => r = s
  /\ \A s \in Slot : stack[s] < bump /\ (stack[s] # 0 => gen[s] # 0)

TCBsCounted ==
  ~lost => useCnt + Uncounted = Cardinality(InUse) + Overcounted(shell) + Overcounted(idle)

Running ==
  /\ \A s \in ready : gen[s] # 0 /\ stack[s] # 0 /\ s \notin dead
  /\ \A s \in mm : gen[s] # 0 /\ kind[s] = "user"

Ended(s) == gen[s] # 0 /\ kind[s] = "mortal" /\ s \in dead \ ready

Waiting ==
  /\ IsInjective(wait)
  /\ \A s \in ToSet(wait) : s \in Slot /\ Ended(s)

Reclaims == {"free", "vfree", "forget", "destroy", "freeTCB"}
Reclaiming ==
  idle.at \in Reclaims =>
    /\ idle.slot \in Slot \ ToSet(wait)
    /\ Ended(idle.slot)
    /\ idle.at \in {"destroy", "freeTCB"} => stack[idle.slot] = 0

(* What the shell has taken for a new task, and what it has taken to end.  *)
New == {"named", "adds", "in", "numbered", "claimed"}
Targets == {"found", "alive"} \union Reclaims
Mine ==
  /\ shell.at \in New \union Targets =>
       /\ shell.slot \in Slot \ ToSet(wait) /\ gen[shell.slot] # 0
       /\ idle.at \in Reclaims => shell.slot # idle.slot
  /\ shell.at \in {"unread", "read"} => shell.slot \in Slot
  /\ shell.at \in New \union {"destroy", "freeTCB"} => stack[shell.slot] = 0
  /\ shell.at \in New \union {"freeTCB"} => shell.slot \notin mm
  /\ shell.at \in New \union Reclaims => shell.slot \notin ready
  /\ shell.at \in {"found", "alive"} => kind[shell.slot] # "mortal"
  /\ shell.at \in Targets => gen[shell.slot] = shell.gen
  /\ shell.at = "read" => shell.gen # 0

Looping ==
  /\ shell.at \in Targets \union {"count", "counted"} => shell.scan \in {shell.slot, NoSlot}
  /\ shell.scan = NoSlot /\ shell.at # "scan" => shell.since = 0
  /\ shell.at \notin Targets \union {"count", "counted", "scan"} => shell.since = 0
  /\ shell.at \in New \union {"unread", "read"} => shell.scan = NoSlot

Scanned ==
  /\ shell.since <= bump
  /\ \A s \in mm \cap ready :
       \/ s < shell.scan
       \/ s = shell.slot /\ shell.at \in {"count", "counted"}
       => stack[s] >= shell.since

Safe ==
  /\ TypeOK /\ Stacked /\ TCBsCounted /\ Running /\ Waiting /\ Reclaiming /\ Mine /\ Looping /\ Scanned

IInv == raced \/ Safe
-----------------------------------------------------------------------------
LEMMA SlotFacts ==
  /\ NoSlot \notin Slot /\ NoSlot \in 0 .. N /\ 0 \in 0 .. N
  /\ Slot \subseteq Nat /\ Slot \subseteq 0 .. N
  BY DEF Slot, NoSlot

ShellAt == {"prompt", "scan", "found", "alive", "free"} \union Creating \union Freeing
ShellState ==
  [at : ShellAt, slot : Slot \union {NoSlot}, gen : Nat, scan : 0 .. N, val : Int, since : Nat]
IdleState ==
  [at : {"halt", "free"} \union Freeing, slot : Slot \union {NoSlot}, val : Int]

LEMMA AtFacts ==
  /\ {"prompt", "look", "unread", "read"} \subseteq ShellAt
  /\ New \subseteq ShellAt /\ Targets \subseteq ShellAt
  /\ {"scan", "count", "counted"} \subseteq ShellAt
  BY DEF ShellAt, Creating, Freeing, New, Targets, Reclaims

LEMMA InitSafe == Init => Safe
<1>. SUFFICES ASSUME Init PROVE Safe
  OBVIOUS
<1>1. InUse = {}
  BY DEF Init, InUse
<1>2. Cardinality(InUse) = 0
  BY <1>1, FS_EmptySet
<1>3. TypeOK
  <2>1. wait \in Seq(Slot) /\ stacks \subseteq 1 .. bump - 1
    BY DEF Init
  <2>2. shell \in ShellState /\ idle \in IdleState
    BY SlotFacts DEF Init, Prompt, Halt, ShellState, ShellAt, IdleState
  <2>3. /\ gen \in [Slot -> Nat] /\ stack \in [Slot -> Nat] /\ kind \in [Slot -> Kind]
        /\ made \in Nat \ {0} /\ bump \in Nat \ {0} /\ useCnt \in Int
    BY DEF Init, Kind
  <2>4. raced \in BOOLEAN /\ lost \in BOOLEAN /\ mm = {} /\ dead = {} /\ ready = {}
    BY DEF Init
  <2>. QED  BY <2>1, <2>2, <2>3, <2>4 DEF TypeOK, ShellState, ShellAt, IdleState
<1>4. TCBsCounted
  BY <1>2 DEF Init, TCBsCounted, Uncounted, Overcounted, Prompt, Halt
<1>5. ToSet(wait) = {} /\ IsInjective(wait)
  BY DEF Init, ToSet, IsInjective
<1>6. Stacked
  BY DEF Init, Stacked, Given, Prompt, Halt
<1>7. Mine /\ Looping /\ Scanned
  BY DEF Init, Mine, Looping, Scanned, Prompt, New, Targets, Reclaims
<1>. QED
  BY <1>3, <1>4, <1>5, <1>6, <1>7 DEF Init, Safe, Running, Waiting, Reclaiming, Reclaims, Halt

(* Counting the TCBs in use when one gets or loses its ID. *)
LEMMA InUseFacts ==
  ASSUME gen \in [Slot -> Nat], NEW s \in Slot, NEW g \in Nat, gen' = [gen EXCEPT ![s] = g]
  PROVE  /\ gen' \in [Slot -> Nat] /\ gen'[s] = g /\ \A r \in Slot : r # s => gen'[r] = gen[r]
         /\ Cardinality(InUse) \in Nat /\ Cardinality(InUse') \in Nat
         /\ gen[s] = 0 /\ g # 0 => Cardinality(InUse') = Cardinality(InUse) + 1
         /\ gen[s] # 0 /\ g = 0 => Cardinality(InUse') = Cardinality(InUse) - 1
<1>1. gen' \in [Slot -> Nat] /\ gen'[s] = g /\ \A r \in Slot : r # s => gen'[r] = gen[r]
  OBVIOUS
<1>2. IsFiniteSet(Slot)
  BY FS_Interval DEF Slot
<1>3. InUse \in SUBSET Slot /\ InUse' \in SUBSET Slot
  BY DEF InUse
<1>4. IsFiniteSet(InUse) /\ IsFiniteSet(InUse')
  BY <1>2, <1>3, FS_Subset
<1>5. Cardinality(InUse) \in Nat /\ Cardinality(InUse') \in Nat
  BY <1>4, FS_CardinalityType
<1>6. ASSUME gen[s] = 0, g # 0 PROVE Cardinality(InUse') = Cardinality(InUse) + 1
  <2>1. InUse' = InUse \union {s} /\ s \notin InUse
    BY <1>1, <1>6 DEF InUse
  <2>. QED  BY <1>4, <2>1, FS_AddElement
<1>7. ASSUME gen[s] # 0, g = 0 PROVE Cardinality(InUse') = Cardinality(InUse) - 1
  <2>1. InUse' = InUse \ {s} /\ s \in InUse
    BY <1>1, <1>7 DEF InUse
  <2>. QED  BY <1>4, <2>1, FS_RemoveElement
<1>. QED  BY <1>1, <1>5, <1>6, <1>7

(* What is said of a task in words of TCBs holds while they stay the same. *)
LEMMA SameTcbs ==
  ASSUME Running, Waiting, UNCHANGED <<gen, stack, mm, kind, dead, ready, wait>>
  PROVE  Running' /\ Waiting'
  BY DEF Running, Waiting, Ended

(* A TCB without an ID is with nobody. *)
LEMMA FreeIsNowhere ==
  ASSUME Safe, NEW s \in Slot, gen[s] = 0
  PROVE  /\ s \notin ready /\ s \notin mm /\ s \notin ToSet(wait) /\ stack[s] = 0
         /\ idle.at \in Reclaims => idle.slot # s
         /\ shell.at \in New \union Targets => shell.slot # s
  BY DEF Safe, Stacked, Running, Waiting, Reclaiming, Mine, Ended

-----------------------------------------------------------------------------
(* Steps of the shell that change only what it is doing. *)
LEMMA ShellMoves ==
  ASSUME Safe, UNCHANGED <<tcb, idle>>, shell' \in ShellState,
         Mine', Looping', Scanned',
         shell.at \notin {"forget", "count", "counted"},
         shell'.at \notin {"forget", "count", "counted"},
         shell.at \in {"named", "adds"} <=> shell'.at \in {"named", "adds"}
  PROVE  Safe'
<1>0. UNCHANGED <<gen, made, useCnt, stack, stacks, bump, mm, kind, dead, ready, wait, raced, lost, idle>>
  BY DEF tcb
<1>1. InUse' = InUse
  BY <1>0 DEF InUse
<1>2. TypeOK'
  BY <1>0 DEF Safe, TypeOK, ShellState, ShellAt
<1>3. Stacked'
  BY <1>0 DEF Safe, Stacked, Given
<1>4. TCBsCounted'
  BY <1>0, <1>1 DEF Safe, TCBsCounted, Uncounted, Overcounted
<1>5. Running' /\ Waiting'
  BY <1>0, SameTcbs DEF Safe
<1>6. Reclaiming'
  BY <1>0 DEF Safe, Reclaiming, Ended
<1>. QED  BY <1>2, <1>3, <1>4, <1>5, <1>6 DEF Safe

(* kAllocateTCB up to the store of the ID. *)
LEMMA CreateBeginsSafe ==
  ASSUME Safe, CreateBegins \/ LooksOn \/ FindsNone \/ FindsFree
  PROVE  Safe'
<1>0. /\ UNCHANGED <<tcb, idle>> /\ shell \in ShellState /\ shell.at \in {"prompt", "look"}
      /\ shell.since = 0 /\ bump \in Nat
  BY DEF Safe, TypeOK, ShellState, ShellAt, CreateBegins, LooksOn, FindsNone, FindsFree, Looping, Targets, Reclaims
<1>1. /\ shell' \in ShellState /\ shell'.at \in {"prompt", "look", "unread"} /\ shell'.since = 0
      /\ shell'.at = "unread" => shell'.slot \in Slot /\ shell'.scan = NoSlot
  <2>1. CASE CreateBegins
    <3>1. shell' = [at |-> "look", slot |-> NoSlot, gen |-> 0, scan |-> 0, val |-> 0, since |-> 0]
      BY <2>1 DEF CreateBegins, Prompt
    <3>. QED  BY <3>1, SlotFacts DEF ShellState, ShellAt, Creating
  <2>2. CASE LooksOn
    <3>1. shell.scan \in Slot /\ shell' = [shell EXCEPT !.scan = @ + 1]
      BY <2>2 DEF LooksOn, InUse
    <3>2. shell.scan + 1 \in 0 .. N
      BY <3>1 DEF Slot
    <3>. QED  BY <1>0, <2>2, <3>1, <3>2 DEF ShellState, LooksOn
  <2>3. CASE FindsNone
    BY <2>3, SlotFacts DEF FindsNone, Prompt, ShellState, ShellAt
  <2>4. CASE FindsFree
    <3>1. /\ shell' = [at |-> "unread", slot |-> shell.scan, gen |-> 0, scan |-> NoSlot, val |-> 0,
                       since |-> 0]
          /\ shell.scan \in Slot
      BY <2>4 DEF FindsFree, Prompt
    <3>. QED  BY <3>1, SlotFacts DEF ShellState, ShellAt, Creating
  <2>. QED  BY <2>1, <2>2, <2>3, <2>4
<1>2. Mine'
  BY <1>1 DEF Mine, New, Targets, Reclaims
<1>3. Looping'
  BY <1>1 DEF Looping, New, Targets, Reclaims
<1>4. Scanned'
  <2>1. UNCHANGED <<mm, ready, stack, bump>>
    BY <1>0 DEF tcb
  <2>2. mm \subseteq Slot /\ stack \in [Slot -> Nat]
    BY DEF Safe, TypeOK
  <2>. QED  BY <1>0, <1>1, <2>1, <2>2 DEF Scanned
<1>. QED  BY <1>0, <1>1, <1>2, <1>3, <1>4, ShellMoves

LEMMA ReadsAllocatedCntSafe ==
  ASSUME Safe, ReadsAllocatedCnt
  PROVE  Safe'
<1>0. /\ UNCHANGED <<tcb, idle>> /\ shell \in ShellState /\ shell.at \in {"unread", "in"}
      /\ shell' = [shell EXCEPT !.at = IF shell.at = "unread" THEN "read" ELSE "numbered",
                                !.gen = made]
      /\ made \in Nat \ {0}
  BY DEF Safe, TypeOK, ShellState, ShellAt, ReadsAllocatedCnt
<1>1. /\ shell' \in ShellState /\ shell'.slot = shell.slot /\ shell'.gen = made
      /\ shell'.scan = shell.scan /\ shell'.since = shell.since
      /\ shell'.at = IF shell.at = "unread" THEN "read" ELSE "numbered"
  BY <1>0 DEF ShellState, ShellAt, Creating
<1>2. UNCHANGED <<gen, stack, bump, mm, ready, kind, wait, idle>>
  BY <1>0 DEF tcb
<1>3. Mine'
  BY <1>0, <1>1, <1>2 DEF Safe, Mine, New, Targets, Reclaims
<1>4. Looping' /\ Scanned'
  BY <1>0, <1>1, <1>2 DEF Safe, Looping, Scanned, New, Targets, Reclaims
<1>. QED  BY <1>0, <1>1, <1>3, <1>4, ShellMoves

(* The ID is stored: the TCB is the shell's, if it still was free. *)
LEMMA StoresIDSafe ==
  ASSUME Safe, StoresID, ~raced'
  PROVE  Safe'
<1>. DEFINE s == shell.slot
<1>0. /\ TypeOK /\ shell \in ShellState /\ shell.at = "read" /\ s \in Slot /\ gen[s] = 0
      /\ shell.gen \in Nat \ {0} /\ gen' = [gen EXCEPT ![s] = shell.gen]
      /\ shell' = [shell EXCEPT !.at = "named", !.gen = 0] /\ ~raced /\ raced' = FALSE
      /\ UNCHANGED <<made, useCnt, stack, stacks, bump, mm, kind, dead, ready, wait, lost, idle>>
  BY DEF StoresID, Safe, Mine, TypeOK, ShellState, ShellAt
<1>1. /\ shell' \in ShellState /\ shell'.at = "named" /\ shell'.slot = s
      /\ shell'.gen = 0 /\ shell'.scan = shell.scan /\ shell'.since = shell.since
  BY <1>0 DEF ShellState, ShellAt, Creating
<1>2. /\ s \notin ready /\ s \notin mm /\ s \notin ToSet(wait) /\ stack[s] = 0
      /\ idle.at \in Reclaims => idle.slot # s
  BY <1>0, FreeIsNowhere
<1>. HIDE DEF s
<1>3. /\ gen' \in [Slot -> Nat] /\ gen'[s] = shell.gen /\ \A r \in Slot : r # s => gen'[r] = gen[r]
      /\ Cardinality(InUse) \in Nat /\ Cardinality(InUse') = Cardinality(InUse) + 1
  BY <1>0, InUseFacts DEF TypeOK, ShellState, ShellAt
<1>4. TypeOK'
  BY <1>0, <1>1, <1>3 DEF TypeOK, ShellState, ShellAt
<1>5. Stacked'
  BY <1>0, <1>1, <1>3 DEF Safe, Stacked, Given
<1>6. TCBsCounted'
  BY <1>0, <1>1, <1>3 DEF Safe, TCBsCounted, Uncounted, Overcounted, TypeOK
<1>7. Running' /\ Waiting'
  BY <1>0, <1>2, <1>3 DEF Safe, Running, Waiting, Ended, TypeOK
<1>8. Reclaiming'
  BY <1>0, <1>2, <1>3 DEF Safe, Reclaiming, Ended
<1>9. Mine'
  BY <1>0, <1>1, <1>2, <1>3 DEF Mine, New, Targets, Reclaims
<1>10. Looping' /\ Scanned'
  BY <1>0, <1>1 DEF Safe, Looping, Scanned, New, Targets, Reclaims
<1>. QED  BY <1>4, <1>5, <1>6, <1>7, <1>8, <1>9, <1>10 DEF Safe

(* The two counters. *)
LEMMA CountersSafe ==
  ASSUME Safe, ReadsUseCnt \/ StoresUseCnt \/ StoresAllocatedCnt
  PROVE  Safe'
<1>0. /\ TypeOK /\ shell \in ShellState /\ shell.at \in {"named", "adds", "numbered"}
      /\ UNCHANGED <<gen, stack, stacks, bump, mm, kind, dead, ready, wait, raced, idle>>
  BY DEF Safe, TypeOK, ShellState, ShellAt, ReadsUseCnt, StoresUseCnt, StoresAllocatedCnt, tcb
<1>1. /\ shell' \in ShellState /\ shell'.at \in {"adds", "in", "claimed"} /\ shell'.slot = shell.slot
      /\ shell'.scan = shell.scan /\ shell'.since = shell.since
      /\ made' \in Nat \ {0} /\ useCnt' \in Int /\ lost' \in BOOLEAN
      /\ TCBsCounted'
  <2>1. InUse' = InUse
    BY <1>0 DEF InUse
  <2>2. CASE ReadsUseCnt
    <3>1. /\ shell.at = "named" /\ shell' = [shell EXCEPT !.at = "adds", !.val = useCnt]
          /\ UNCHANGED <<made, useCnt, lost>>
      BY <2>2 DEF ReadsUseCnt, tcb
    <3>2. /\ shell' \in ShellState /\ shell'.at = "adds" /\ shell'.slot = shell.slot
          /\ shell'.scan = shell.scan /\ shell'.since = shell.since
      <4>1. "adds" \in ShellAt /\ useCnt \in Int
        BY <1>0 DEF ShellAt, Creating, TypeOK
      <4>2. shell' = [at |-> "adds", slot |-> shell.slot, gen |-> shell.gen, scan |-> shell.scan,
                      val |-> useCnt, since |-> shell.since]
        BY <1>0, <3>1 DEF ShellState
      <4>. QED  BY <1>0, <4>1, <4>2 DEF ShellState
    <3>3. TCBsCounted'
      BY <1>0, <2>1, <3>1, <3>2 DEF Safe, TCBsCounted, Uncounted, Overcounted
    <3>. QED  BY <1>0, <3>1, <3>2, <3>3 DEF TypeOK
  <2>3. CASE StoresUseCnt
    <3>1. /\ shell.at = "adds" /\ shell' = [shell EXCEPT !.at = "in", !.val = 0]
          /\ useCnt' = shell.val + 1 /\ lost' = (lost \/ useCnt # shell.val) /\ made' = made
      BY <2>3 DEF StoresUseCnt, StoreUseCnt
    <3>2. /\ shell' \in ShellState /\ shell'.at = "in" /\ shell'.slot = shell.slot
          /\ shell'.scan = shell.scan /\ shell'.since = shell.since
      <4>1. "in" \in ShellAt
        BY DEF ShellAt, Creating
      <4>2. shell' = [at |-> "in", slot |-> shell.slot, gen |-> shell.gen, scan |-> shell.scan,
                      val |-> 0, since |-> shell.since]
        BY <1>0, <3>1 DEF ShellState
      <4>. QED  BY <1>0, <4>1, <4>2 DEF ShellState
    <3>3. TCBsCounted'
      <4>. SUFFICES ASSUME ~lost'
                    PROVE  useCnt' + Uncounted' = Cardinality(InUse)' + Overcounted(shell)' + Overcounted(idle)'
        BY DEF TCBsCounted
      <4>1. ~lost /\ useCnt' = useCnt + 1 /\ useCnt \in Int
        BY <1>0, <3>1 DEF TypeOK
      <4>2. Uncounted = 1 /\ Uncounted' = 0 /\ Overcounted(shell) = 0 /\ Overcounted(shell)' = 0
            /\ Overcounted(idle)' = Overcounted(idle)
        BY <1>0, <3>1, <3>2 DEF Uncounted, Overcounted
      <4>. QED  BY <2>1, <4>1, <4>2 DEF Safe, TCBsCounted
    <3>4. useCnt' \in Int /\ lost' \in BOOLEAN
      BY <1>0, <3>1 DEF ShellState, TypeOK
    <3>. QED  BY <1>0, <3>1, <3>2, <3>3, <3>4 DEF TypeOK
  <2>4. CASE StoresAllocatedCnt
    <3>1. /\ shell.at = "numbered" /\ shell' = [shell EXCEPT !.at = "claimed", !.gen = 0]
          /\ made' = shell.gen + 1 /\ UNCHANGED <<useCnt, lost>>
      BY <2>4 DEF StoresAllocatedCnt
    <3>2. /\ shell' \in ShellState /\ shell'.at = "claimed" /\ shell'.slot = shell.slot
          /\ shell'.scan = shell.scan /\ shell'.since = shell.since /\ made' \in Nat \ {0}
      <4>1. "claimed" \in ShellAt
        BY DEF ShellAt, Creating
      <4>2. shell' = [at |-> "claimed", slot |-> shell.slot, gen |-> 0, scan |-> shell.scan,
                      val |-> shell.val, since |-> shell.since]
        BY <1>0, <3>1 DEF ShellState
      <4>. QED  BY <1>0, <3>1, <4>1, <4>2 DEF ShellState
    <3>3. TCBsCounted'
      BY <1>0, <2>1, <3>1, <3>2 DEF Safe, TCBsCounted, Uncounted, Overcounted
    <3>. QED  BY <1>0, <3>1, <3>2, <3>3 DEF TypeOK
  <2>. QED  BY <2>2, <2>3, <2>4
<1>2. TypeOK'
  BY <1>0, <1>1 DEF TypeOK, ShellState, ShellAt
<1>3. Stacked'
  BY <1>0, <1>1 DEF Safe, Stacked, Given
<1>4. Running' /\ Waiting'
  BY <1>0, SameTcbs DEF Safe
<1>5. Reclaiming'
  BY <1>0 DEF Safe, Reclaiming, Ended
<1>6. Mine' /\ Looping' /\ Scanned'
  BY <1>0, <1>1 DEF Safe, Mine, Looping, Scanned, New, Targets, Reclaims
<1>. QED  BY <1>1, <1>2, <1>3, <1>4, <1>5, <1>6 DEF Safe

(* A TCB that has an ID and nothing else becomes a task with a stack of    *)
(* its own.                                                                *)
LEMMA SetUpFacts ==
  ASSUME TypeOK, Stacked, NEW s \in Slot, NEW k \in Kind, stack[s] = 0, SetUp(s, k),
         gen'[s] # 0, \A r \in Slot : r # s => gen'[r] = gen[r],
         \A r \in Slot : Given(r)' <=> Given(r) /\ r # s
  PROVE  /\ Stacked'
         /\ stack' \in [Slot -> Nat] /\ stack'[s] = bump
         /\ \A r \in Slot : r # s => stack'[r] = stack[r]
         /\ stacks' \subseteq 1 .. bump' - 1 /\ bump' = bump + 1 /\ bump \in Nat \ {0}
         /\ kind' \in [Slot -> Kind] /\ kind'[s] = k
         /\ \A r \in Slot : r # s => kind'[r] = kind[r]
<1>1. /\ stack' \in [Slot -> Nat] /\ stack'[s] = bump
      /\ \A r \in Slot : r # s => stack'[r] = stack[r]
      /\ kind' \in [Slot -> Kind] /\ kind'[s] = k
      /\ \A r \in Slot : r # s => kind'[r] = kind[r]
      /\ bump' = bump + 1 /\ bump \in Nat \ {0} /\ stacks' = stacks \union {bump}
  BY DEF SetUp, TypeOK
<1>2. stacks \subseteq 1 .. bump - 1 /\ \A r \in Slot : stack[r] \in Nat /\ stack[r] < bump
  BY DEF TypeOK, Stacked
<1>3. stacks' \subseteq 1 .. bump' - 1
  <2>1. \A x \in stacks : x \in Nat /\ 1 <= x /\ x <= bump - 1
    BY <1>2
  <2>. QED  BY <1>1, <2>1
<1>4. ASSUME NEW r \in Slot PROVE stack'[r] \in stacks' <=> stack'[r] # 0 /\ ~Given(r)'
  <2>1. CASE r = s
    BY <1>1, <2>1
  <2>2. CASE r # s
    BY <1>1, <1>2, <2>2 DEF Stacked
  <2>. QED  BY <2>1, <2>2
<1>5. ASSUME NEW x \in stacks' PROVE \E r \in Slot : stack'[r] = x
  <2>1. CASE x = bump
    BY <1>1, <2>1
  <2>2. CASE x \in stacks
    <3>1. x # 0
      BY <1>2, <2>2
    <3>. QED  BY <1>1, <2>2, <3>1 DEF Stacked
  <2>. QED  BY <1>1, <2>1, <2>2
<1>6. \A r, t \in Slot : stack'[r] = stack'[t] /\ stack'[r] # 0 => r = t
  BY <1>1, <1>2 DEF Stacked
<1>7. \A r \in Slot : stack'[r] < bump' /\ (stack'[r] # 0 => gen'[r] # 0)
  BY <1>1, <1>2 DEF Stacked
<1>. QED  BY <1>1, <1>3, <1>4, <1>5, <1>6, <1>7 DEF Stacked

LEMMA CreateEndsSafe ==
  ASSUME Safe, NEW k \in Kind, CreateEnds(k)
  PROVE  Safe'
<1>. DEFINE s == shell.slot
<1>0. /\ TypeOK /\ Stacked /\ shell.at = "claimed" /\ s \in Slot /\ stack[s] = 0 /\ gen[s] # 0
      /\ s \notin ready /\ s \notin mm /\ s \notin ToSet(wait) /\ k # "user"
      /\ idle.at \in Reclaims => idle.slot # s
      /\ SetUp(s, k) /\ shell' = Prompt
      /\ UNCHANGED <<gen, made, useCnt, raced, lost, idle, wait>>
  BY DEF Safe, CreateEnds, SetUp, Mine, New
<1>1. /\ mm' = mm /\ dead' = dead \ {s} /\ ready' = ready \union {s}
      /\ shell' \in ShellState /\ shell'.at = "prompt" /\ shell'.since = 0
  BY <1>0, SlotFacts DEF SetUp, Prompt, ShellState, ShellAt
<1>. HIDE DEF s
<1>2. \A r \in Slot : Given(r)' <=> Given(r) /\ r # s
  BY <1>0, <1>1 DEF Given, Reclaims
<1>3. /\ Stacked' /\ stack' \in [Slot -> Nat] /\ stack'[s] = bump
      /\ \A r \in Slot : r # s => stack'[r] = stack[r]
      /\ stacks' \subseteq 1 .. bump' - 1 /\ bump' = bump + 1 /\ bump \in Nat \ {0}
      /\ kind' \in [Slot -> Kind] /\ \A r \in Slot : r # s => kind'[r] = kind[r]
  BY <1>0, <1>2, SetUpFacts
<1>4. TypeOK'
  <2>1. mm' \subseteq Slot /\ dead' \subseteq Slot /\ ready' \subseteq Slot /\ bump' \in Nat \ {0}
    BY <1>0, <1>1, <1>3 DEF TypeOK
  <2>. QED  BY <1>0, <1>1, <1>3, <2>1 DEF TypeOK, ShellState, ShellAt
<1>5. TCBsCounted'
  <2>1. InUse' = InUse
    BY <1>0 DEF InUse
  <2>. QED  BY <1>0, <1>1, <2>1 DEF Safe, TCBsCounted, Uncounted, Overcounted
<1>6. Running' /\ Waiting'
  BY <1>0, <1>1, <1>3 DEF Safe, Running, Waiting, Ended, TypeOK
<1>7. Reclaiming'
  BY <1>0, <1>1, <1>3 DEF Safe, Reclaiming, Ended, Reclaims
<1>8. Mine' /\ Looping'
  BY <1>1 DEF Mine, Looping, New, Targets, Reclaims
<1>9. Scanned'
  BY <1>1, <1>3, <1>4 DEF Scanned, TypeOK
<1>. QED  BY <1>3, <1>4, <1>5, <1>6, <1>7, <1>8, <1>9 DEF Safe

LEMMA CreateFailsSafe ==
  ASSUME Safe, CreateFails
  PROVE  Safe'
<1>0. /\ UNCHANGED <<tcb, idle>> /\ shell \in ShellState /\ shell.at = "claimed"
      /\ shell' = [shell EXCEPT !.at = "freeTCB", !.gen = gen[shell.slot]]
      /\ shell.slot \in Slot /\ gen \in [Slot -> Nat]
  BY DEF Safe, TypeOK, ShellState, ShellAt, CreateFails, Mine, New
<1>1. /\ shell' \in ShellState /\ shell'.at = "freeTCB" /\ shell'.slot = shell.slot
      /\ shell'.gen = gen[shell.slot] /\ shell'.scan = shell.scan /\ shell'.since = shell.since
  BY <1>0 DEF ShellState, ShellAt, Freeing
<1>2. UNCHANGED <<gen, stack, bump, mm, ready, kind, wait, idle>>
  BY <1>0 DEF tcb
<1>3. Mine'
  BY <1>0, <1>1, <1>2 DEF Safe, Mine, New, Targets, Reclaims
<1>4. Looping' /\ Scanned'
  BY <1>0, <1>1, <1>2 DEF Safe, Looping, Scanned, New, Targets, Reclaims
<1>. QED  BY <1>0, <1>1, <1>3, <1>4, ShellMoves
-----------------------------------------------------------------------------
(* exec, usertest and fork: a new user task, made in one step. *)
LEMMA NewUserTask ==
  ASSUME Safe, NEW s \in Slot, Allocates(s), Claim(s), SetUp(s, "user"), idle' = idle,
         shell' \in ShellState, shell' = shell \/ (shell.at = "prompt" /\ shell'.at = "scan")
  PROVE  /\ TypeOK' /\ Stacked' /\ TCBsCounted' /\ Running' /\ Waiting' /\ Reclaiming'
         /\ gen[s] = 0 /\ gen' \in [Slot -> Nat] /\ \A r \in Slot : r # s => gen'[r] = gen[r]
         /\ mm' = mm \union {s} /\ ready' = ready \union {s} /\ wait' = wait
         /\ stack' \in [Slot -> Nat] /\ stack'[s] = bump /\ bump \in Nat /\ bump' = bump + 1
         /\ \A r \in Slot : r # s => stack'[r] = stack[r]
         /\ \A r \in Slot : r # s => kind'[r] = kind[r]
         /\ kind'[s] = "user" /\ gen'[s] # 0
<1>0. /\ TypeOK /\ Stacked /\ TCBsCounted /\ gen[s] = 0 /\ useCnt # N /\ made \in Nat \ {0}
      /\ gen' = [gen EXCEPT ![s] = made] /\ made' = made + 1
      /\ useCnt' = useCnt + 1 /\ raced' = raced /\ lost' = lost
      /\ mm' = mm \union {s} /\ dead' = dead \ {s} /\ ready' = ready \union {s} /\ wait' = wait
  BY DEF Safe, Allocates, Claim, SetUp, InUse, TypeOK
<1>1. /\ s \notin ready /\ s \notin mm /\ s \notin ToSet(wait) /\ stack[s] = 0
      /\ idle.at \in Reclaims => idle.slot # s
      /\ shell.at \in New \union Targets => shell.slot # s
  BY <1>0, FreeIsNowhere
<1>2. /\ gen' \in [Slot -> Nat] /\ gen'[s] = made /\ \A r \in Slot : r # s => gen'[r] = gen[r]
      /\ Cardinality(InUse) \in Nat /\ Cardinality(InUse') = Cardinality(InUse) + 1
  BY <1>0, InUseFacts DEF TypeOK
<1>3. \A r \in Slot : Given(r)' <=> Given(r) /\ r # s
  BY <1>1 DEF Given, Targets, Reclaims
<1>4. "user" \in Kind
  BY DEF Kind
<1>5. /\ Stacked' /\ stack' \in [Slot -> Nat] /\ stack'[s] = bump
      /\ \A r \in Slot : r # s => stack'[r] = stack[r]
      /\ stacks' \subseteq 1 .. bump' - 1 /\ bump' = bump + 1 /\ bump \in Nat \ {0}
      /\ kind' \in [Slot -> Kind] /\ kind'[s] = "user"
      /\ \A r \in Slot : r # s => kind'[r] = kind[r]
  BY <1>0, <1>1, <1>2, <1>3, <1>4, SetUpFacts
<1>6. TypeOK'
  <2>1. /\ mm' \subseteq Slot /\ dead' \subseteq Slot /\ ready' \subseteq Slot
        /\ made' \in Nat \ {0} /\ bump' \in Nat \ {0} /\ useCnt' \in Int
    BY <1>0, <1>5 DEF TypeOK
  <2>2. wait' \in Seq(Slot) /\ raced' \in BOOLEAN /\ lost' \in BOOLEAN /\ idle' \in IdleState
    BY <1>0 DEF TypeOK, IdleState
  <2>. QED  BY <1>2, <1>5, <2>1, <2>2 DEF TypeOK, ShellState, ShellAt, IdleState
<1>7. TCBsCounted'
  <2>1. Uncounted' = Uncounted /\ Overcounted(shell)' = Overcounted(shell)
        /\ Overcounted(idle)' = Overcounted(idle) /\ Uncounted \in Nat
        /\ Overcounted(shell) \in Nat /\ Overcounted(idle) \in Nat
    BY DEF Uncounted, Overcounted
  <2>2. useCnt \in Int /\ useCnt' = useCnt + 1 /\ Cardinality(InUse)' = Cardinality(InUse) + 1
    BY <1>0, <1>2 DEF TypeOK
  <2>3. ~lost' => useCnt + Uncounted = Cardinality(InUse) + Overcounted(shell) + Overcounted(idle)
    BY <1>0 DEF TCBsCounted
  <2>. QED  BY <1>2, <2>1, <2>2, <2>3 DEF TCBsCounted
<1>8. Running' /\ Waiting'
  BY <1>0, <1>1, <1>2, <1>5 DEF Safe, Running, Waiting, Ended, TypeOK
<1>9. Reclaiming'
  BY <1>0, <1>1, <1>2, <1>5 DEF Safe, Reclaiming, Ended, Reclaims
<1>. QED  BY <1>0, <1>2, <1>5, <1>6, <1>7, <1>8, <1>9

LEMMA ExecUserSafe ==
  ASSUME Safe, NEW s \in Slot, ExecUser(s)
  PROVE  Safe'
<1>0. /\ Allocates(s) /\ Claim(s) /\ SetUp(s, "user") /\ idle' = idle /\ shell.at = "prompt"
      /\ shell' = [Prompt EXCEPT !.at = "scan", !.scan = 0]
  BY DEF ExecUser
<1>1. shell' = [at |-> "scan", slot |-> NoSlot, gen |-> 0, scan |-> 0, val |-> 0, since |-> 0]
  BY <1>0 DEF Prompt
<1>2. shell' \in ShellState
  BY <1>1, SlotFacts DEF ShellState, ShellAt
<1>3. Mine' /\ Looping'
  BY <1>1 DEF Mine, Looping, New, Targets, Reclaims
<1>4. Scanned'
  <2>1. mm' \subseteq Slot /\ stack' \in [Slot -> Nat] /\ bump' \in Nat
    BY <1>0, <1>1, <1>2, NewUserTask DEF TypeOK
  <2>. QED  BY <1>1, <2>1 DEF Scanned
<1>. QED  BY <1>0, <1>1, <1>2, <1>3, <1>4, NewUserTask DEF Safe

LEMMA ForkSafe ==
  ASSUME Safe, NEW s \in Slot, NEW c \in Slot, Fork(s, c)
  PROVE  Safe'
<1>0. Allocates(c) /\ Claim(c) /\ SetUp(c, "user") /\ idle' = idle /\ shell' = shell
  BY DEF Fork
<1>1. shell' \in ShellState
  BY <1>0 DEF Safe, TypeOK, ShellState, ShellAt
<1>2. /\ gen[c] = 0 /\ gen' \in [Slot -> Nat] /\ \A r \in Slot : r # c => gen'[r] = gen[r]
      /\ mm' = mm \union {c} /\ ready' = ready \union {c} /\ wait' = wait
      /\ stack' \in [Slot -> Nat] /\ stack'[c] = bump /\ bump \in Nat /\ bump' = bump + 1
      /\ \A r \in Slot : r # c => stack'[r] = stack[r]
      /\ \A r \in Slot : r # c => kind'[r] = kind[r]
      /\ TypeOK' /\ Stacked' /\ TCBsCounted' /\ Running' /\ Waiting' /\ Reclaiming'
  BY <1>0, <1>1, NewUserTask
<1>3. shell.at \in New \union Targets => shell.slot # c
  BY <1>2, FreeIsNowhere
<1>4. Mine'
  BY <1>0, <1>2, <1>3 DEF Safe, Mine, New, Targets, Reclaims
<1>5. Looping'
  BY <1>0 DEF Safe, Looping
<1>6. Scanned'
  <2>1. shell.since \in Nat /\ mm \subseteq Slot /\ stack \in [Slot -> Nat]
    BY DEF Safe, TypeOK
  <2>2. shell.since <= bump'
    BY <1>2, <2>1 DEF Safe, Scanned
  <2>3. ASSUME NEW r \in mm' \cap ready',
               r < shell.scan \/ (r = shell.slot /\ shell.at \in {"count", "counted"})
        PROVE  stack'[r] >= shell.since
    <3>1. CASE r = c
      BY <1>2, <2>1, <3>1 DEF Safe, Scanned
    <3>2. CASE r # c
      <4>1. r \in mm \cap ready /\ stack'[r] = stack[r]
        BY <1>2, <2>1, <2>3, <3>2
      <4>. QED  BY <2>3, <4>1 DEF Safe, Scanned
    <3>. QED  BY <3>1, <3>2
  <2>. QED  BY <1>0, <2>2, <2>3 DEF Scanned
<1>. QED  BY <1>2, <1>4, <1>5, <1>6 DEF Safe

LEMMA NoStackSafe ==
  ASSUME Safe, NoStack
  PROVE  Safe'
<1>0. /\ made' = made + 1
      /\ UNCHANGED <<gen, useCnt, stack, stacks, bump, mm, kind, dead, ready, wait, raced, lost, shell, idle>>
  BY DEF NoStack
<1>1. InUse' = InUse
  BY <1>0 DEF InUse
<1>2. TypeOK'
  BY <1>0 DEF Safe, TypeOK
<1>3. Stacked' /\ TCBsCounted'
  BY <1>0, <1>1 DEF Safe, Stacked, Given, TCBsCounted, Uncounted, Overcounted
<1>4. Running' /\ Waiting' /\ Reclaiming'
  BY <1>0 DEF Safe, Running, Waiting, Reclaiming, Ended
<1>5. Mine' /\ Looping' /\ Scanned'
  BY <1>0 DEF Safe, Mine, Looping, Scanned
<1>. QED  BY <1>2, <1>3, <1>4, <1>5 DEF Safe
-----------------------------------------------------------------------------
(* The loop of kEndAllUserTasks. *)
LEMMA ScanSafe ==
  ASSUME Safe, ScanSkips \/ ScanEnds \/ ScanDone
  PROVE  Safe'
<1>0. /\ UNCHANGED <<tcb, idle>> /\ shell \in ShellState /\ shell.at = "scan" /\ shell.scan \in Nat
      /\ TypeOK
  BY DEF Safe, ScanSkips, ScanEnds, ScanDone, TypeOK, ShellState, ShellAt
<1>1. UNCHANGED <<gen, made, stack, bump, mm, kind, ready, wait, idle>>
  BY <1>0 DEF tcb
<1>2. /\ Since \in Nat /\ Since <= bump
      /\ \A r \in mm \cap ready : r < shell.scan => stack[r] >= Since
  BY <1>0 DEF Safe, Scanned, Since, TypeOK, ShellState, Slot
<1>3. CASE ScanSkips
  <2>1. shell.scan \in Slot \ mm /\ shell' = [shell EXCEPT !.scan = @ + 1, !.since = Since]
    BY <1>3 DEF ScanSkips
  <2>2. /\ shell' \in ShellState /\ shell'.at = "scan"
        /\ shell'.scan = shell.scan + 1 /\ shell'.since = Since
    <3>1. shell.scan + 1 \in 0 .. N
      BY <2>1 DEF Slot
    <3>. QED  BY <1>0, <1>2, <2>1, <3>1 DEF ShellState
  <2>3. Mine' /\ Looping'
    BY <2>2 DEF Mine, Looping, New, Targets, Reclaims
  <2>4. Scanned'
    <3>1. \A r \in mm \cap ready : r < shell.scan + 1 => r < shell.scan
      BY <1>0, <2>1 DEF TypeOK, Slot
    <3>. QED  BY <1>1, <1>2, <2>2, <3>1 DEF Scanned
  <2>. QED  BY <1>0, <2>2, <2>3, <2>4, ShellMoves
<1>4. CASE ScanEnds
  <2>1. /\ shell.scan \in mm
        /\ shell' = [shell EXCEPT !.at = "found", !.since = Since,
                                  !.slot = shell.scan, !.gen = gen[shell.scan]]
    BY <1>4 DEF ScanEnds
  <2>2. shell' = [at |-> "found", slot |-> shell.scan, gen |-> gen[shell.scan], scan |-> shell.scan,
                  val |-> shell.val, since |-> Since]
    BY <1>0, <2>1 DEF ShellState
  <2>3. shell' \in ShellState
    <3>1. shell.scan \in Slot /\ gen[shell.scan] \in Nat /\ "found" \in ShellAt
      BY <1>0, <2>1 DEF TypeOK, ShellAt
    <3>. QED  BY <1>0, <1>2, <2>2, <3>1 DEF ShellState
  <2>4. Mine'
    <3>1. /\ shell.scan \in Slot /\ gen[shell.scan] # 0 /\ kind[shell.scan] = "user"
          /\ shell.scan \notin ToSet(wait)
          /\ idle.at \in Reclaims => idle.slot # shell.scan
      BY <1>0, <2>1 DEF Safe, Running, Waiting, Reclaiming, Ended, TypeOK
    <3>. QED  BY <1>1, <2>2, <3>1 DEF Mine, New, Targets, Reclaims
  <2>5. Looping'
    BY <1>0, <2>1, <2>2 DEF Looping, New, Targets, Reclaims, TypeOK, Slot, NoSlot
  <2>6. Scanned'
    BY <1>1, <1>2, <2>2 DEF Scanned
  <2>. QED  BY <1>0, <2>2, <2>3, <2>4, <2>5, <2>6, ShellMoves
<1>5. CASE ScanDone
  <2>1. shell' = [at |-> "prompt", slot |-> NoSlot, gen |-> 0, scan |-> NoSlot, val |-> 0, since |-> 0]
    BY <1>5 DEF ScanDone, Prompt
  <2>2. shell' \in ShellState
    BY <2>1, SlotFacts DEF ShellState, ShellAt
  <2>3. Mine' /\ Looping'
    BY <2>1 DEF Mine, Looping, New, Targets, Reclaims
  <2>4. Scanned'
    BY <1>0, <1>1, <2>1 DEF TypeOK, Scanned
  <2>. QED  BY <1>0, <2>1, <2>2, <2>3, <2>4, ShellMoves
<1>. QED  BY <1>3, <1>4, <1>5

(* killtask, for a user who does not kill threads that end themselves. *)
LEMMA KillTaskSafe ==
  ASSUME Safe, ~KillsMortal, NEW s \in Slot, KillTask(s)
  PROVE  Safe'
<1>0. /\ UNCHANGED <<tcb, idle>> /\ shell.at = "prompt" /\ gen[s] \in Nat \ {0} /\ kind[s] # "mortal"
      /\ TypeOK /\ shell \in ShellState
      /\ shell' = [Prompt EXCEPT !.at = "found", !.slot = s, !.gen = gen[s]]
  BY DEF KillTask, InUse, Safe, TypeOK, ShellState, ShellAt
<1>1. shell' = [at |-> "found", slot |-> s, gen |-> gen[s], scan |-> NoSlot, val |-> 0, since |-> 0]
  BY <1>0 DEF Prompt
<1>2. shell' \in ShellState
  <2>1. "found" \in ShellAt /\ gen[s] \in Nat /\ s \in Slot \union {NoSlot} /\ 0 \in Int
    BY <1>0 DEF ShellAt
  <2>. QED  BY <1>1, <2>1, SlotFacts DEF ShellState
<1>3. UNCHANGED <<gen, stack, bump, mm, kind, ready, wait, idle>>
  BY <1>0 DEF tcb
<1>4. Mine'
  <2>1. s \notin ToSet(wait) /\ (idle.at \in Reclaims => idle.slot # s)
    BY <1>0 DEF Safe, Waiting, Reclaiming, Ended
  <2>. QED  BY <1>0, <1>1, <1>3, <2>1 DEF Mine, New, Targets, Reclaims
<1>5. Looping'
  BY <1>1 DEF Looping, New, Targets, Reclaims
<1>6. Scanned'
  <2>1. mm \subseteq Slot /\ stack \in [Slot -> Nat] /\ bump \in Nat
    BY <1>0 DEF TypeOK
  <2>. QED  BY <1>1, <1>3, <2>1 DEF Scanned
<1>. QED  BY <1>0, <1>1, <1>2, <1>4, <1>5, <1>6, ShellMoves
-----------------------------------------------------------------------------
(* Where kEndTask, kFreeTask and kFreeTCB return to: the prompt, or the    *)
(* next TCB of the scan.                                                   *)
LEMMA ReturnsFacts ==
  ASSUME Safe, shell.at \in {"alive", "free", "counted"}, Returns
  PROVE  /\ shell' \in ShellState /\ shell'.at \in {"prompt", "scan"}
         /\ shell'.at = "prompt" => shell'.since = 0
         /\ shell'.since \in {0, shell.since}
         /\ \/ shell'.scan = shell.slot + 1 /\ shell.scan = shell.slot
            \/ shell'.since = 0
<1>0. shell \in ShellState /\ shell.scan \in {shell.slot, NoSlot}
  BY DEF Safe, TypeOK, ShellState, ShellAt, Looping, Targets, Reclaims
<1>1. CASE shell.scan = NoSlot
  <2>1. shell' = [at |-> "prompt", slot |-> NoSlot, gen |-> 0, scan |-> NoSlot, val |-> 0, since |-> 0]
    BY <1>1 DEF Returns, Prompt
  <2>. QED  BY <2>1, SlotFacts DEF ShellState, ShellAt
<1>2. CASE shell.scan # NoSlot
  <2>1. shell' = [at |-> "scan", slot |-> NoSlot, gen |-> 0, scan |-> shell.scan + 1,
                  val |-> 0, since |-> shell.since]
    BY <1>2 DEF Returns, Prompt
  <2>2. shell.scan + 1 \in 0 .. N
    BY <1>0, <1>2 DEF ShellState, Slot, NoSlot
  <2>3. "scan" \in ShellAt /\ shell.since \in Nat
    BY <1>0 DEF ShellAt, ShellState
  <2>. QED  BY <1>0, <1>2, <2>1, <2>2, <2>3 DEF ShellState
<1>. QED  BY <1>1, <1>2

(* The slot that the scan leaves behind is no longer a running task, or a  *)
(* new one.                                                                *)
LEMMA ReturnsSafe ==
  ASSUME Safe, shell.at \in {"alive", "free", "counted"}, Returns,
         UNCHANGED <<bump, stack, mm, ready>>, shell.at # "counted" => shell.slot \notin ready
  PROVE  Mine' /\ Looping' /\ Scanned'
<1>1. /\ shell.since \in Nat /\ bump \in Nat /\ mm \subseteq Nat
      /\ stack \in [Slot -> Nat] /\ mm \subseteq Slot
  BY SlotFacts DEF Safe, TypeOK
<1>2. ASSUME NEW r \in mm \cap ready, r < shell'.scan PROVE stack[r] >= shell'.since
  <2>1. CASE shell'.scan = shell.slot + 1 /\ shell.scan = shell.slot
    <3>1. r < shell.scan \/ r = shell.slot
      <4>1. shell.slot \in Nat
        BY <2>1 DEF Safe, TypeOK
      <4>. QED  BY <1>1, <1>2, <2>1, <4>1
    <3>2. stack[r] >= shell.since
      BY <1>2, <3>1 DEF Safe, Scanned
    <3>. QED  BY <1>1, <3>2, ReturnsFacts
  <2>2. CASE shell'.since = 0
    BY <1>1, <2>2
  <2>. QED  BY <2>1, <2>2, ReturnsFacts
<1>3. shell'.since <= bump'
  BY <1>1, ReturnsFacts DEF Safe, Scanned
<1>4. Scanned'
  BY <1>2, <1>3, ReturnsFacts DEF Scanned
<1>5. Mine'
  BY ReturnsFacts DEF Mine, New, Targets, Reclaims
<1>6. Looping'
  <2>1. shell'.scan = NoSlot /\ shell'.at # "scan" => shell'.since = 0
    BY ReturnsFacts
  <2>. QED  BY <2>1, ReturnsFacts DEF Looping, New, Targets, Reclaims
<1>. QED  BY <1>4, <1>5, <1>6

(* kEndTask.  What it ends is no thread that could be on the wait list.    *)
LEMMA EndsDeadSafe ==
  ASSUME Safe, EndsDead
  PROVE  Safe'
<1>0. /\ TypeOK /\ shell.at = "found" /\ shell.slot \in dead /\ shell \in ShellState
      /\ shell' = [shell EXCEPT !.at = "free"]
      /\ wait' = RemoveFirst(wait, shell.slot)
      /\ UNCHANGED <<gen, made, useCnt, stack, stacks, bump, mm, kind, dead, ready, raced, lost, idle>>
  BY DEF EndsDead, Safe, Mine, Targets, TypeOK, ShellState, ShellAt
<1>1. shell.slot \notin ready
  BY <1>0 DEF Safe, Running
<1>2. /\ shell' \in ShellState /\ shell'.at = "free" /\ shell'.slot = shell.slot
      /\ shell'.gen = shell.gen /\ shell'.scan = shell.scan /\ shell'.since = shell.since
  BY <1>0 DEF ShellState, ShellAt
<1>3. wait' \in Seq(Slot) /\ ToSet(wait') \subseteq ToSet(wait) /\ IsInjective(wait')
  BY <1>0, RemoveFirstFacts DEF Safe, TypeOK, Waiting
<1>4. InUse' = InUse
  BY <1>0 DEF InUse
<1>5. TypeOK'
  BY <1>0, <1>2, <1>3 DEF TypeOK, ShellState, ShellAt
<1>6. Stacked' /\ TCBsCounted'
  BY <1>0, <1>2, <1>4 DEF Safe, Stacked, Given, TCBsCounted, Uncounted, Overcounted
<1>7. Running' /\ Waiting' /\ Reclaiming'
  BY <1>0, <1>3 DEF Safe, Running, Waiting, Reclaiming, Ended
<1>8. Mine' /\ Looping'
  BY <1>0, <1>1, <1>2, <1>3 DEF Safe, Mine, Looping, New, Targets, Reclaims
<1>9. Scanned'
  BY <1>0, <1>2 DEF Safe, Scanned
<1>. QED  BY <1>5, <1>6, <1>7, <1>8, <1>9 DEF Safe

LEMMA EndsAliveSafe ==
  ASSUME Safe, EndsAlive
  PROVE  Safe'
<1>0. /\ shell.at = "found" /\ shell' = [shell EXCEPT !.at = "alive"] /\ UNCHANGED <<tcb, idle>>
      /\ shell \in ShellState
  BY DEF EndsAlive, Safe, TypeOK, ShellState, ShellAt
<1>1. UNCHANGED <<gen, stack, bump, mm, kind, ready, wait, idle>>
  BY <1>0 DEF tcb
<1>2. /\ shell' \in ShellState /\ shell'.at = "alive" /\ shell'.slot = shell.slot
      /\ shell'.gen = shell.gen /\ shell'.scan = shell.scan /\ shell'.since = shell.since
  BY <1>0 DEF ShellState, ShellAt
<1>3. Mine' /\ Looping'
  BY <1>0, <1>1, <1>2 DEF Safe, Mine, Looping, New, Targets, Reclaims
<1>4. Scanned'
  BY <1>0, <1>1, <1>2 DEF Safe, Scanned
<1>. QED  BY <1>0, <1>2, <1>3, <1>4, ShellMoves

LEMMA EndsReadySafe ==
  ASSUME Safe, EndsReady
  PROVE  Safe'
<1>0. /\ TypeOK /\ shell.at = "alive" /\ shell' = [shell EXCEPT !.at = "free"]
      /\ shell \in ShellState /\ ready' = ready \ {shell.slot}
      /\ UNCHANGED <<gen, made, useCnt, stack, stacks, bump, mm, kind, dead, wait, raced, lost, idle>>
  BY DEF EndsReady, Safe, TypeOK, ShellState, ShellAt
<1>2. /\ shell' \in ShellState /\ shell'.at = "free" /\ shell'.slot = shell.slot
      /\ shell'.gen = shell.gen /\ shell'.scan = shell.scan /\ shell'.since = shell.since
  BY <1>0 DEF ShellState, ShellAt
<1>3. InUse' = InUse
  BY <1>0 DEF InUse
<1>5. TypeOK'
  BY <1>0, <1>2 DEF TypeOK, ShellState, ShellAt
<1>6. Stacked' /\ TCBsCounted'
  BY <1>0, <1>2, <1>3 DEF Safe, Stacked, Given, TCBsCounted, Uncounted, Overcounted
<1>7. Running' /\ Waiting' /\ Reclaiming'
  BY <1>0 DEF Safe, Running, Waiting, Reclaiming, Ended
<1>8. Mine' /\ Looping'
  BY <1>0, <1>2 DEF Safe, Mine, Looping, New, Targets, Reclaims
<1>9. Scanned'
  BY <1>0, <1>2 DEF Safe, Scanned
<1>. QED  BY <1>5, <1>6, <1>7, <1>8, <1>9 DEF Safe

LEMMA EndsMissedSafe ==
  ASSUME Safe, EndsMissed
  PROVE  Safe'
<1>0. /\ shell.at = "alive" /\ Returns /\ UNCHANGED <<tcb, idle>> /\ shell.slot \notin ready
  BY DEF EndsMissed, Safe, Mine, Targets
<1>1. UNCHANGED <<bump, stack, mm, ready>>
  BY <1>0 DEF tcb
<1>2. Mine' /\ Looping' /\ Scanned'
  BY <1>0, <1>1, ReturnsSafe
<1>. QED  BY <1>0, <1>2, ReturnsFacts, ShellMoves
-----------------------------------------------------------------------------
(* kFreeTask: kVfree, the store of NULL, and kFreeTCB's store of the ID.   *)
LEMMA VfreeFacts ==
  ASSUME TypeOK, Stacked, NEW s \in Slot, stacks' = stacks \ {stack[s]},
         UNCHANGED <<stack, gen, bump>>, \A r \in Slot : Given(r)' <=> Given(r) \/ r = s
  PROVE  Stacked' /\ stacks' \subseteq 1 .. bump' - 1
<1>1. ASSUME NEW r \in Slot PROVE stack[r] \in stacks' <=> stack[r] # 0 /\ ~Given(r)'
  <2>1. CASE r = s
    BY <2>1
  <2>2. CASE r # s
    BY <2>2 DEF Stacked
  <2>. QED  BY <2>1, <2>2
<1>. QED  BY <1>1 DEF Stacked, TypeOK

LEMMA ForgetFacts ==
  ASSUME TypeOK, Stacked, NEW s \in Slot, Given(s), stack' = [stack EXCEPT ![s] = 0],
         UNCHANGED <<stacks, gen, bump>>, \A r \in Slot : Given(r)' <=> Given(r) /\ r # s
  PROVE  /\ Stacked' /\ stack' \in [Slot -> Nat] /\ stack'[s] = 0
         /\ \A r \in Slot : r # s => stack'[r] = stack[r]
<1>1. /\ stack' \in [Slot -> Nat] /\ stack'[s] = 0
      /\ \A r \in Slot : r # s => stack'[r] = stack[r]
      /\ bump \in Nat \ {0} /\ stacks \subseteq 1 .. bump - 1
  BY DEF TypeOK
<1>2. 0 \notin stacks
  BY <1>1
<1>3. ASSUME NEW x \in stacks PROVE \E r \in Slot : stack'[r] = x
  BY <1>1 DEF Stacked
<1>4. ASSUME NEW r \in Slot PROVE stack'[r] \in stacks' <=> stack'[r] # 0 /\ ~Given(r)'
  BY <1>1, <1>2 DEF Stacked
<1>5. ASSUME NEW r \in Slot PROVE stack'[r] < bump' /\ (stack'[r] # 0 => gen'[r] # 0)
  BY <1>1 DEF Stacked
<1>6. \A r, t \in Slot : stack'[r] = stack'[t] /\ stack'[r] # 0 => r = t
  BY <1>1 DEF Stacked
<1>. QED  BY <1>1, <1>3, <1>4, <1>5, <1>6 DEF Stacked

LEMMA ShellFreesSafe ==
  ASSUME Safe, ShellFrees
  PROVE  Safe'
<1>. DEFINE s == shell.slot
            Goes(at) == shell' = [shell EXCEPT !.at = at]
<1>0. /\ TypeOK /\ Stacked /\ shell \in ShellState
      /\ UNCHANGED <<made, bump, kind, dead, ready, wait, raced, idle>>
      /\ shell.at \in Reclaims =>
           /\ s \in Slot /\ gen[s] # 0 /\ s \notin ready /\ s \notin ToSet(wait)
           /\ idle.at \in Reclaims => s # idle.slot
  BY DEF ShellFrees, Safe, Mine, Targets, TypeOK, ShellState, ShellAt
<1>1. ASSUME NEW a \in ShellAt, Goes(a)
      PROVE  /\ shell' \in ShellState /\ shell'.at = a /\ shell'.slot = s
             /\ shell'.gen = shell.gen /\ shell'.scan = shell.scan /\ shell'.since = shell.since
  BY <1>0, <1>1 DEF ShellState
<1>2. /\ {"vfree", "forget", "destroy", "freeTCB", "count", "counted"} \subseteq ShellAt
      /\ {"free", "vfree", "forget", "destroy", "freeTCB"} \subseteq Reclaims
      /\ "count" \notin Reclaims /\ "counted" \notin Reclaims
  BY DEF ShellAt, Freeing, Reclaims
<1>3. CASE shell.at = "free"
  <2>1. UNCHANGED <<tcb, idle>> /\ (Returns \/ Goes("vfree"))
    BY <1>0, <1>3 DEF ShellFrees, FreeTask, tcb
  <2>2. UNCHANGED <<gen, stack, bump, mm, kind, ready, wait, idle>>
    BY <2>1 DEF tcb
  <2>3. CASE Returns
    <3>1. Mine' /\ Looping' /\ Scanned'
      BY <1>0, <1>2, <1>3, <2>2, <2>3, ReturnsSafe
    <3>. QED  BY <1>3, <2>1, <2>3, <3>1, ReturnsFacts, ShellMoves
  <2>4. CASE Goes("vfree")
    <3>1. Mine' /\ Looping' /\ Scanned'
      BY <1>0, <1>1, <1>2, <1>3, <2>2, <2>4 DEF Safe, Mine, Looping, Scanned, New, Targets, Reclaims
    <3>. QED  BY <1>1, <1>2, <1>3, <2>1, <2>4, <3>1, ShellMoves
  <2>. QED  BY <2>1, <2>3, <2>4
<1>4. CASE shell.at = "vfree"
  <2>1. stacks' = stacks \ {stack[s]} /\ Goes("forget") /\ UNCHANGED <<stack, mm, gen, useCnt, lost>>
    BY <1>4 DEF ShellFrees, FreeTask
  <2>2. /\ shell' \in ShellState /\ shell'.at = "forget" /\ shell'.slot = s
        /\ shell'.gen = shell.gen /\ shell'.scan = shell.scan /\ shell'.since = shell.since
    BY <1>1, <1>2, <2>1
  <2>3. Stacked' /\ stacks' \subseteq 1 .. bump' - 1
    <3>1. \A r \in Slot : Given(r)' <=> Given(r) \/ r = s
      BY <1>0, <1>4, <2>2 DEF Given
    <3>. QED  BY <1>0, <1>2, <1>4, <2>1, <3>1, VfreeFacts
  <2>4. TypeOK'
    BY <1>0, <2>1, <2>2, <2>3 DEF TypeOK, ShellState, ShellAt
  <2>5. TCBsCounted'
    <3>1. InUse' = InUse
      BY <2>1 DEF InUse
    <3>. QED  BY <1>0, <1>4, <2>1, <2>2, <3>1 DEF Safe, TCBsCounted, Uncounted, Overcounted
  <2>6. Running' /\ Waiting' /\ Reclaiming'
    BY <1>0, <2>1 DEF Safe, Running, Waiting, Reclaiming, Ended
  <2>7. Mine' /\ Looping'
    BY <1>0, <1>4, <2>1, <2>2 DEF Safe, Mine, Looping, New, Targets, Reclaims
  <2>8. Scanned'
    BY <1>0, <1>4, <2>1, <2>2 DEF Safe, Scanned
  <2>. QED  BY <2>3, <2>4, <2>5, <2>6, <2>7, <2>8 DEF Safe
<1>5. CASE shell.at = "forget"
  <2>1. stack' = [stack EXCEPT ![s] = 0] /\ Goes("destroy") /\ UNCHANGED <<stacks, mm, gen, useCnt, lost>>
    BY <1>5 DEF ShellFrees, FreeTask
  <2>2. /\ shell' \in ShellState /\ shell'.at = "destroy" /\ shell'.slot = s
        /\ shell'.gen = shell.gen /\ shell'.scan = shell.scan /\ shell'.since = shell.since
    BY <1>1, <1>2, <2>1
  <2>3. /\ Stacked' /\ stack' \in [Slot -> Nat] /\ stack'[s] = 0
        /\ \A r \in Slot : r # s => stack'[r] = stack[r]
    <3>1. \A r \in Slot : Given(r)' <=> Given(r) /\ r # s
      BY <1>0, <1>2, <1>5, <2>2 DEF Given
    <3>2. Given(s) /\ s \in Slot
      BY <1>0, <1>2, <1>5 DEF Given
    <3>. QED  BY <1>0, <2>1, <3>1, <3>2, ForgetFacts
  <2>4. TypeOK'
    BY <1>0, <2>1, <2>2, <2>3 DEF TypeOK, ShellState, ShellAt
  <2>5. TCBsCounted'
    <3>1. InUse' = InUse
      BY <2>1 DEF InUse
    <3>. QED  BY <1>0, <1>5, <2>1, <2>2, <3>1 DEF Safe, TCBsCounted, Uncounted, Overcounted
  <2>6. Running' /\ Waiting' /\ Reclaiming'
    BY <1>0, <1>2, <1>5, <2>1, <2>3 DEF Safe, Running, Waiting, Reclaiming, Ended, TypeOK
  <2>7. Mine' /\ Looping'
    BY <1>0, <1>5, <2>1, <2>2, <2>3 DEF Safe, Mine, Looping, New, Targets, Reclaims
  <2>8. Scanned'
    <3>1. \A r \in mm \cap ready : r # s /\ stack'[r] = stack[r]
      BY <1>0, <1>2, <1>5, <2>3 DEF TypeOK
    <3>. QED  BY <1>0, <1>5, <2>1, <2>2, <3>1 DEF Safe, Scanned
  <2>. QED  BY <2>3, <2>4, <2>5, <2>6, <2>7, <2>8 DEF Safe
<1>6. CASE shell.at = "destroy"
  <2>1. mm' = mm \ {s} /\ Goes("freeTCB") /\ UNCHANGED <<stack, stacks, gen, useCnt, lost>>
    BY <1>6 DEF ShellFrees, FreeTask
  <2>2. /\ shell' \in ShellState /\ shell'.at = "freeTCB" /\ shell'.slot = s
        /\ shell'.gen = shell.gen /\ shell'.scan = shell.scan /\ shell'.since = shell.since
    BY <1>1, <1>2, <2>1
  <2>3. Stacked'
    BY <1>0, <1>6, <2>1, <2>2 DEF Stacked, Given
  <2>4. TypeOK'
    BY <1>0, <2>1, <2>2 DEF TypeOK, ShellState, ShellAt
  <2>5. TCBsCounted'
    <3>1. InUse' = InUse
      BY <2>1 DEF InUse
    <3>. QED  BY <1>0, <1>6, <2>1, <2>2, <3>1 DEF Safe, TCBsCounted, Uncounted, Overcounted
  <2>6. Running' /\ Waiting' /\ Reclaiming'
    BY <1>0, <2>1 DEF Safe, Running, Waiting, Reclaiming, Ended
  <2>7. Mine' /\ Looping'
    BY <1>0, <1>6, <2>1, <2>2 DEF Safe, Mine, Looping, New, Targets, Reclaims
  <2>8. Scanned'
    BY <1>0, <1>6, <2>1, <2>2 DEF Safe, Scanned
  <2>. QED  BY <2>3, <2>4, <2>5, <2>6, <2>7, <2>8 DEF Safe
<1>7. CASE shell.at = "freeTCB"
  <2>1. gen' = [gen EXCEPT ![s] = 0] /\ Goes("count") /\ UNCHANGED <<stack, stacks, mm, useCnt, lost>>
    BY <1>7 DEF ShellFrees, FreeTask
  <2>2. /\ shell' \in ShellState /\ shell'.at = "count" /\ shell'.slot = s
        /\ shell'.gen = shell.gen /\ shell'.scan = shell.scan /\ shell'.since = shell.since
    BY <1>1, <1>2, <2>1
  <2>3. /\ s \in Slot /\ gen[s] # 0 /\ s \notin ready /\ s \notin ToSet(wait) /\ s \notin mm
        /\ stack[s] = 0
        /\ idle.at \in Reclaims => s # idle.slot
    BY <1>0, <1>2, <1>7 DEF Safe, Mine, New
  <2>4. /\ gen' \in [Slot -> Nat] /\ gen'[s] = 0 /\ \A r \in Slot : r # s => gen'[r] = gen[r]
        /\ Cardinality(InUse) \in Nat /\ Cardinality(InUse') = Cardinality(InUse) - 1
    BY <1>0, <2>1, <2>3, InUseFacts DEF TypeOK
  <2>. HIDE DEF s
  <2>5. Stacked'
    BY <1>0, <1>7, <2>1, <2>2, <2>3, <2>4 DEF Stacked, Given
  <2>6. TypeOK'
    BY <1>0, <2>1, <2>2, <2>4 DEF TypeOK, ShellState, ShellAt
  <2>7. TCBsCounted'
    <3>1. Cardinality(InUse)' = Cardinality(InUse) - 1 /\ useCnt \in Int
      BY <1>0, <2>4 DEF TypeOK
    <3>2. Uncounted = 0 /\ Uncounted' = 0 /\ Overcounted(shell) = 0 /\ Overcounted(shell)' = 1
          /\ Overcounted(idle)' = Overcounted(idle) /\ Overcounted(idle) \in Nat
      BY <1>0, <1>7, <2>2 DEF Uncounted, Overcounted
    <3>. QED  BY <2>1, <2>4, <3>1, <3>2 DEF Safe, TCBsCounted
  <2>8. Running' /\ Waiting' /\ Reclaiming'
    BY <1>0, <2>1, <2>3, <2>4 DEF Safe, Running, Waiting, Reclaiming, Ended, TypeOK
  <2>9. Mine' /\ Looping'
    BY <1>0, <1>7, <2>2 DEF Safe, Mine, Looping, New, Targets, Reclaims, s
  <2>10. Scanned'
    <3>1. \A r \in mm \cap ready : r # s
      BY <2>3
    <3>. QED  BY <1>0, <1>7, <2>1, <2>2, <3>1 DEF Safe, Scanned
  <2>. QED  BY <2>5, <2>6, <2>7, <2>8, <2>9, <2>10 DEF Safe
<1>8. CASE shell.at = "count"
  <2>1. /\ shell' = [shell EXCEPT !.at = "counted", !.val = useCnt]
        /\ UNCHANGED <<stack, stacks, mm, gen, useCnt, lost>>
    BY <1>8 DEF ShellFrees, FreeTask
  <2>2. /\ shell' \in ShellState /\ shell'.at = "counted" /\ shell'.slot = s
        /\ shell'.gen = shell.gen /\ shell'.scan = shell.scan /\ shell'.since = shell.since
    <3>1. shell' = [at |-> "counted", slot |-> shell.slot, gen |-> shell.gen, scan |-> shell.scan,
                    val |-> useCnt, since |-> shell.since]
      BY <1>0, <2>1 DEF ShellState
    <3>2. useCnt \in Int
      BY <1>0 DEF TypeOK
    <3>. QED  BY <1>0, <1>2, <3>1, <3>2 DEF ShellState
  <2>3. TypeOK' /\ Stacked'
    BY <1>0, <1>8, <2>1, <2>2 DEF TypeOK, ShellState, ShellAt, Stacked, Given
  <2>4. TCBsCounted'
    <3>1. InUse' = InUse
      BY <2>1 DEF InUse
    <3>. QED  BY <1>0, <1>8, <2>1, <2>2, <3>1 DEF Safe, TCBsCounted, Uncounted, Overcounted
  <2>5. Running' /\ Waiting' /\ Reclaiming'
    BY <1>0, <2>1 DEF Safe, Running, Waiting, Reclaiming, Ended
  <2>6. Mine' /\ Looping' /\ Scanned'
    BY <1>0, <1>8, <2>1, <2>2 DEF Safe, Mine, Looping, Scanned, New, Targets, Reclaims
  <2>. QED  BY <2>3, <2>4, <2>5, <2>6 DEF Safe
<1>9. CASE shell.at = "counted"
  <2>1. /\ useCnt' = shell.val - 1 /\ lost' = (lost \/ useCnt # shell.val) /\ Returns
        /\ UNCHANGED <<stack, stacks, mm, gen>>
    BY <1>9 DEF ShellFrees, FreeTask, StoreUseCnt
  <2>2. shell' \in ShellState /\ shell'.at \in {"prompt", "scan"}
    BY <1>9, <2>1, ReturnsFacts
  <2>3. TypeOK' /\ Stacked'
    <3>1. useCnt' \in Int /\ lost' \in BOOLEAN
      BY <1>0, <2>1 DEF TypeOK, ShellState
    <3>2. Stacked'
      BY <1>0, <1>9, <2>1, <2>2 DEF Stacked, Given
    <3>. QED  BY <1>0, <2>1, <2>2, <3>1, <3>2 DEF TypeOK, ShellState, ShellAt
  <2>4. TCBsCounted'
    <3>. SUFFICES ASSUME ~lost'
                  PROVE  useCnt' + Uncounted' = Cardinality(InUse)' + Overcounted(shell)' + Overcounted(idle)'
      BY DEF TCBsCounted
    <3>1. ~lost /\ useCnt' = useCnt - 1 /\ useCnt \in Int
      BY <1>0, <2>1 DEF TypeOK
    <3>2. Uncounted = 0 /\ Uncounted' = 0 /\ Overcounted(shell) = 1 /\ Overcounted(shell)' = 0
          /\ Overcounted(idle)' = Overcounted(idle) /\ Overcounted(idle) \in Nat
      BY <1>0, <1>9, <2>2 DEF Uncounted, Overcounted
    <3>3. InUse' = InUse /\ Cardinality(InUse) \in Nat
      <4>1. InUse' = InUse /\ InUse \in SUBSET Slot /\ IsFiniteSet(Slot)
        BY <2>1, FS_Interval DEF InUse, Slot
      <4>. QED  BY <4>1, FS_Subset, FS_CardinalityType
    <3>. QED  BY <3>1, <3>2, <3>3 DEF Safe, TCBsCounted
  <2>5. Running' /\ Waiting' /\ Reclaiming'
    BY <1>0, <2>1 DEF Safe, Running, Waiting, Reclaiming, Ended
  <2>6. Mine' /\ Looping' /\ Scanned'
    BY <1>0, <1>9, <2>1, ReturnsSafe
  <2>. QED  BY <2>3, <2>4, <2>5, <2>6 DEF Safe
<1>10. shell.at \in {"free", "vfree", "forget", "destroy", "freeTCB", "count", "counted"}
  BY DEF ShellFrees, FreeTask
<1>. QED  BY <1>3, <1>4, <1>5, <1>6, <1>7, <1>8, <1>9, <1>10
-----------------------------------------------------------------------------
(* The idle task: what is on the wait list is a thread that ended, and the *)
(* shell does not have it in its hands.                                    *)
LEMMA IdlePopsSafe ==
  ASSUME Safe, IdlePops
  PROVE  Safe'
<1>0. /\ TypeOK /\ idle.at = "halt" /\ wait # <<>> /\ wait \in Seq(Slot) /\ wait' = Tail(wait)
      /\ idle' = [Halt EXCEPT !.at = "free", !.slot = Head(wait)]
      /\ UNCHANGED <<gen, made, useCnt, stack, stacks, bump, mm, kind, dead, ready, raced, lost, shell>>
  BY DEF IdlePops, Safe, TypeOK
<1>1. /\ wait' \in Seq(Slot) /\ Head(wait) \in Slot /\ IsInjective(wait')
      /\ ToSet(wait) = ToSet(wait') \union {Head(wait)} /\ Head(wait) \notin ToSet(wait')
  BY <1>0, TailFacts DEF Safe, Waiting
<1>2. idle' = [at |-> "free", slot |-> Head(wait), val |-> 0] /\ idle' \in IdleState
  <2>1. idle' = [at |-> "free", slot |-> Head(wait), val |-> 0]
    BY <1>0 DEF Halt
  <2>. QED  BY <1>1, <2>1 DEF IdleState
<1>3. InUse' = InUse
  BY <1>0 DEF InUse
<1>4. TypeOK'
  BY <1>0, <1>1, <1>2 DEF TypeOK, IdleState
<1>5. Stacked' /\ TCBsCounted'
  BY <1>0, <1>2, <1>3 DEF Safe, Stacked, Given, TCBsCounted, Uncounted, Overcounted
<1>6. Running' /\ Waiting'
  BY <1>0, <1>1 DEF Safe, Running, Waiting, Ended
<1>7. Reclaiming'
  BY <1>0, <1>1, <1>2 DEF Safe, Waiting, Reclaiming, Ended
<1>8. Mine'
  BY <1>0, <1>1, <1>2 DEF Safe, Mine
<1>9. Looping' /\ Scanned'
  BY <1>0 DEF Safe, Looping, Scanned
<1>. QED  BY <1>4, <1>5, <1>6, <1>7, <1>8, <1>9 DEF Safe

LEMMA IdleFreesSafe ==
  ASSUME Safe, IdleFrees
  PROVE  Safe'
<1>. DEFINE s == idle.slot
            Goes(at) == idle' = [idle EXCEPT !.at = at]
<1>0. /\ TypeOK /\ Stacked /\ idle \in IdleState
      /\ UNCHANGED <<made, bump, kind, dead, ready, wait, raced, shell>>
      /\ idle.at \in Reclaims =>
           /\ s \in Slot \ ToSet(wait) /\ Ended(s) /\ s \notin mm
           /\ shell.at \in New \union Targets => shell.slot # s
  BY DEF IdleFrees, Safe, Mine, Reclaiming, Running, Ended, TypeOK, IdleState
<1>1. ASSUME NEW a \in {"free"} \union Freeing, Goes(a)
      PROVE  idle' \in IdleState /\ idle'.at = a /\ idle'.slot = s
  BY <1>0, <1>1 DEF IdleState
<1>2. /\ {"vfree", "forget", "destroy", "freeTCB", "count", "counted"} \subseteq Freeing
      /\ {"free", "vfree", "forget", "destroy", "freeTCB"} \subseteq Reclaims
      /\ "count" \notin Reclaims /\ "counted" \notin Reclaims /\ "halt" \notin Reclaims
      /\ Reclaims \subseteq Targets
  BY DEF Freeing, Reclaims, Targets
<1>3. Looping' /\ (UNCHANGED <<stack, mm>> => Scanned')
  BY <1>0 DEF Safe, Looping, Scanned
<1>4. CASE idle.at \in {"free", "count"}
  <2>1. UNCHANGED <<stack, stacks, mm, gen, useCnt, lost>>
    BY <1>4 DEF IdleFrees, FreeTask
  <2>2. /\ idle' \in IdleState /\ Overcounted(idle)' = Overcounted(idle) /\ idle'.at # "forget"
        /\ idle'.at \in Reclaims => idle'.at = "vfree" /\ idle.at = "free" /\ idle'.slot = s
    <3>1. CASE idle.at = "free" /\ idle' = Halt
      BY <1>2, <3>1, SlotFacts DEF Halt, IdleState, Overcounted
    <3>2. CASE idle.at = "free" /\ Goes("vfree")
      BY <1>1, <1>2, <3>2 DEF Overcounted
    <3>3. CASE idle.at = "count" /\ idle' = [idle EXCEPT !.at = "counted", !.val = useCnt]
      <4>1. idle' = [at |-> "counted", slot |-> idle.slot, val |-> useCnt] /\ useCnt \in Int
        BY <1>0, <3>3 DEF IdleState, TypeOK
      <4>. QED  BY <1>0, <1>2, <3>3, <4>1 DEF IdleState, Overcounted
    <3>. QED  BY <1>4, <3>1, <3>2, <3>3 DEF IdleFrees, FreeTask
  <2>3. TypeOK'
    BY <1>0, <2>1, <2>2 DEF TypeOK, IdleState
  <2>4. Stacked'
    BY <1>0, <1>4, <2>1, <2>2 DEF Stacked, Given
  <2>5. TCBsCounted'
    <3>1. InUse' = InUse
      BY <2>1 DEF InUse
    <3>2. Overcounted(shell)' = Overcounted(shell) /\ Uncounted' = Uncounted
      BY <1>0 DEF Uncounted, Overcounted
    <3>. QED  BY <2>1, <2>2, <3>1, <3>2 DEF Safe, TCBsCounted
  <2>6. Running' /\ Waiting'
    BY <1>0, <2>1, SameTcbs DEF Safe
  <2>7. Reclaiming'
    BY <1>0, <1>2, <2>1, <2>2 DEF Reclaiming, Ended
  <2>8. Mine'
    BY <1>0, <1>2, <2>1, <2>2 DEF Safe, Mine
  <2>. QED  BY <1>3, <2>1, <2>3, <2>4, <2>5, <2>6, <2>7, <2>8 DEF Safe
<1>5. CASE idle.at = "vfree"
  <2>1. stacks' = stacks \ {stack[s]} /\ Goes("forget") /\ UNCHANGED <<stack, mm, gen, useCnt, lost>>
    BY <1>5 DEF IdleFrees, FreeTask
  <2>2. idle' \in IdleState /\ idle'.at = "forget" /\ idle'.slot = s
    BY <1>1, <1>2, <2>1
  <2>3. Stacked' /\ stacks' \subseteq 1 .. bump' - 1
    <3>1. \A r \in Slot : Given(r)' <=> Given(r) \/ r = s
      BY <1>0, <1>5, <2>2 DEF Given
    <3>. QED  BY <1>0, <1>2, <1>5, <2>1, <3>1, VfreeFacts
  <2>4. TypeOK'
    BY <1>0, <2>1, <2>2, <2>3 DEF TypeOK, IdleState
  <2>5. TCBsCounted'
    <3>1. InUse' = InUse
      BY <2>1 DEF InUse
    <3>. QED  BY <1>0, <1>5, <2>1, <2>2, <3>1 DEF Safe, TCBsCounted, Uncounted, Overcounted
  <2>6. Running' /\ Waiting'
    BY <1>0, <2>1, SameTcbs DEF Safe
  <2>7. Reclaiming'
    BY <1>0, <1>2, <1>5, <2>1, <2>2 DEF Reclaiming, Ended
  <2>8. Mine'
    BY <1>0, <1>2, <1>5, <2>1, <2>2 DEF Safe, Mine
  <2>. QED  BY <1>3, <2>1, <2>3, <2>4, <2>5, <2>6, <2>7, <2>8 DEF Safe
<1>6. CASE idle.at = "forget"
  <2>1. stack' = [stack EXCEPT ![s] = 0] /\ Goes("destroy") /\ UNCHANGED <<stacks, mm, gen, useCnt, lost>>
    BY <1>6 DEF IdleFrees, FreeTask
  <2>2. idle' \in IdleState /\ idle'.at = "destroy" /\ idle'.slot = s
    BY <1>1, <1>2, <2>1
  <2>3. /\ Stacked' /\ stack' \in [Slot -> Nat] /\ stack'[s] = 0
        /\ \A r \in Slot : r # s => stack'[r] = stack[r]
    <3>1. \A r \in Slot : Given(r)' <=> Given(r) /\ r # s
      BY <1>0, <1>2, <1>6, <2>2 DEF Given
    <3>2. Given(s) /\ s \in Slot
      BY <1>0, <1>2, <1>6 DEF Given
    <3>. QED  BY <1>0, <2>1, <3>1, <3>2, ForgetFacts
  <2>4. TypeOK'
    BY <1>0, <2>1, <2>2, <2>3 DEF TypeOK, IdleState
  <2>5. TCBsCounted'
    <3>1. InUse' = InUse
      BY <2>1 DEF InUse
    <3>. QED  BY <1>0, <1>6, <2>1, <2>2, <3>1 DEF Safe, TCBsCounted, Uncounted, Overcounted
  <2>6. Running' /\ Waiting'
    BY <1>0, <1>2, <1>6, <2>1, <2>3 DEF Safe, Running, Waiting, Ended, TypeOK
  <2>7. Reclaiming'
    BY <1>0, <1>2, <1>6, <2>1, <2>2, <2>3 DEF Reclaiming, Ended
  <2>8. Mine'
    BY <1>0, <1>2, <1>6, <2>1, <2>2, <2>3 DEF Safe, Mine
  <2>9. Scanned'
    <3>1. \A r \in mm \cap ready : r # s /\ stack'[r] = stack[r]
      BY <1>0, <1>2, <1>6, <2>3 DEF TypeOK
    <3>. QED  BY <1>0, <2>1, <3>1 DEF Safe, Scanned
  <2>. QED  BY <1>3, <2>3, <2>4, <2>5, <2>6, <2>7, <2>8, <2>9 DEF Safe
<1>7. CASE idle.at = "destroy"
  <2>1. /\ mm' = mm \ {s} /\ Goes("freeTCB") /\ UNCHANGED <<stack, stacks, gen, useCnt, lost>>
    BY <1>7 DEF IdleFrees, FreeTask
  <2>2. idle' \in IdleState /\ idle'.at = "freeTCB" /\ idle'.slot = s /\ mm' = mm
    BY <1>0, <1>1, <1>2, <1>7, <2>1
  <2>3. TypeOK'
    BY <1>0, <2>1, <2>2 DEF TypeOK, IdleState
  <2>4. Stacked'
    BY <1>0, <1>7, <2>1, <2>2 DEF Stacked, Given
  <2>5. TCBsCounted'
    <3>1. InUse' = InUse
      BY <2>1 DEF InUse
    <3>. QED  BY <1>0, <1>7, <2>1, <2>2, <3>1 DEF Safe, TCBsCounted, Uncounted, Overcounted
  <2>6. Running' /\ Waiting'
    BY <1>0, <2>1, <2>2, SameTcbs DEF Safe
  <2>7. Reclaiming'
    BY <1>0, <1>2, <1>7, <2>1, <2>2 DEF Safe, Reclaiming, Ended
  <2>8. Mine'
    BY <1>0, <1>2, <1>7, <2>1, <2>2 DEF Safe, Mine
  <2>. QED  BY <1>3, <2>1, <2>2, <2>3, <2>4, <2>5, <2>6, <2>7, <2>8 DEF Safe
<1>8. CASE idle.at = "freeTCB"
  <2>1. gen' = [gen EXCEPT ![s] = 0] /\ Goes("count") /\ UNCHANGED <<stack, stacks, mm, useCnt, lost>>
    BY <1>8 DEF IdleFrees, FreeTask
  <2>2. idle' \in IdleState /\ idle'.at = "count" /\ idle'.slot = s
    BY <1>1, <1>2, <2>1
  <2>3. /\ s \in Slot /\ gen[s] # 0 /\ s \notin ready /\ s \notin ToSet(wait) /\ s \notin mm
        /\ stack[s] = 0
        /\ shell.at \in New \union Targets => shell.slot # s
    BY <1>0, <1>2, <1>8 DEF Safe, Reclaiming, Ended
  <2>4. /\ gen' \in [Slot -> Nat] /\ gen'[s] = 0 /\ \A r \in Slot : r # s => gen'[r] = gen[r]
        /\ Cardinality(InUse) \in Nat /\ Cardinality(InUse') = Cardinality(InUse) - 1
    BY <1>0, <2>1, <2>3, InUseFacts DEF TypeOK
  <2>. HIDE DEF s
  <2>5. Stacked'
    BY <1>0, <1>8, <2>1, <2>2, <2>3, <2>4 DEF Stacked, Given
  <2>6. TypeOK'
    BY <1>0, <2>1, <2>2, <2>4 DEF TypeOK, IdleState
  <2>7. TCBsCounted'
    <3>1. Cardinality(InUse)' = Cardinality(InUse) - 1 /\ useCnt \in Int
      BY <1>0, <2>4 DEF TypeOK
    <3>2. Uncounted' = Uncounted /\ Uncounted \in Nat /\ Overcounted(idle) = 0 /\ Overcounted(idle)' = 1
          /\ Overcounted(shell)' = Overcounted(shell) /\ Overcounted(shell) \in Nat
      BY <1>0, <1>8, <2>2 DEF Uncounted, Overcounted
    <3>. QED  BY <2>1, <2>4, <3>1, <3>2 DEF Safe, TCBsCounted
  <2>8. Running' /\ Waiting'
    BY <1>0, <2>1, <2>3, <2>4 DEF Safe, Running, Waiting, Ended, TypeOK
  <2>9. Reclaiming'
    BY <1>2, <2>2 DEF Reclaiming
  <2>10. Mine'
    BY <1>0, <1>2, <2>1, <2>2, <2>3, <2>4 DEF Safe, Mine, Targets
  <2>. QED  BY <1>3, <2>1, <2>5, <2>6, <2>7, <2>8, <2>9, <2>10 DEF Safe
<1>9. CASE idle.at = "counted"
  <2>1. /\ useCnt' = idle.val - 1 /\ lost' = (lost \/ useCnt # idle.val) /\ idle' = Halt
        /\ UNCHANGED <<stack, stacks, mm, gen>>
    BY <1>9 DEF IdleFrees, FreeTask, StoreUseCnt
  <2>2. idle' \in IdleState /\ idle'.at = "halt"
    BY <2>1, SlotFacts DEF Halt, IdleState
  <2>3. TypeOK' /\ Stacked'
    <3>1. useCnt' \in Int /\ lost' \in BOOLEAN
      BY <1>0, <2>1 DEF TypeOK, IdleState
    <3>2. Stacked'
      BY <1>0, <1>9, <2>1, <2>2 DEF Stacked, Given
    <3>. QED  BY <1>0, <2>1, <2>2, <3>1, <3>2 DEF TypeOK, IdleState
  <2>4. TCBsCounted'
    <3>. SUFFICES ASSUME ~lost'
                  PROVE  useCnt' + Uncounted' = Cardinality(InUse)' + Overcounted(shell)' + Overcounted(idle)'
      BY DEF TCBsCounted
    <3>1. ~lost /\ useCnt' = useCnt - 1 /\ useCnt \in Int
      BY <1>0, <2>1 DEF TypeOK
    <3>2. Uncounted' = Uncounted /\ Uncounted \in Nat /\ Overcounted(idle) = 1 /\ Overcounted(idle)' = 0
          /\ Overcounted(shell)' = Overcounted(shell) /\ Overcounted(shell) \in Nat
      BY <1>0, <1>9, <2>2 DEF Uncounted, Overcounted
    <3>3. InUse' = InUse /\ Cardinality(InUse) \in Nat
      <4>1. InUse' = InUse /\ InUse \in SUBSET Slot /\ IsFiniteSet(Slot)
        BY <2>1, FS_Interval DEF InUse, Slot
      <4>. QED  BY <4>1, FS_Subset, FS_CardinalityType
    <3>. QED  BY <3>1, <3>2, <3>3 DEF Safe, TCBsCounted
  <2>5. Running' /\ Waiting'
    BY <1>0, <2>1, SameTcbs DEF Safe
  <2>6. Reclaiming' /\ Mine'
    BY <1>0, <1>2, <2>1, <2>2 DEF Safe, Reclaiming, Mine
  <2>. QED  BY <1>3, <2>1, <2>3, <2>4, <2>5, <2>6 DEF Safe
<1>10. idle.at \in {"free", "vfree", "forget", "destroy", "freeTCB", "count", "counted"}
  BY DEF IdleFrees, FreeTask
<1>. QED  BY <1>4, <1>5, <1>6, <1>7, <1>8, <1>9, <1>10

(* kExitTask: only a kernel thread goes to the wait list, and the shell    *)
(* has none to end.                                                        *)
LEMMA ExitTaskSafe ==
  ASSUME Safe, NEW s \in Slot, ExitTask(s)
  PROVE  Safe'
<1>0. /\ TypeOK /\ s \in ready /\ kind[s] = "mortal" /\ gen[s] # 0 /\ s \notin dead /\ wait \in Seq(Slot)
      /\ ready' = ready \ {s} /\ dead' = dead \union {s} /\ wait' = Append(wait, s)
      /\ UNCHANGED <<gen, made, useCnt, stack, stacks, bump, mm, kind, raced, lost, shell, idle>>
  BY DEF ExitTask, Safe, Running, TypeOK
<1>1. /\ s \notin ToSet(wait) /\ s \notin mm
      /\ idle.at \in Reclaims => s # idle.slot
      /\ shell.at \in New \union Targets => s # shell.slot
  <2>1. shell.at \in New \union Targets => s # shell.slot
    BY <1>0 DEF Safe, Mine, Targets
  <2>. QED  BY <1>0, <2>1 DEF Safe, Waiting, Reclaiming, Running, Ended
<1>2. wait' \in Seq(Slot) /\ ToSet(wait') = ToSet(wait) \union {s} /\ IsInjective(wait')
  BY <1>0, <1>1, AppendFacts DEF Safe, Waiting
<1>3. InUse' = InUse
  BY <1>0 DEF InUse
<1>4. TypeOK'
  BY <1>0, <1>2 DEF TypeOK
<1>5. Stacked' /\ TCBsCounted'
  BY <1>0, <1>3 DEF Safe, Stacked, Given, TCBsCounted, Uncounted, Overcounted
<1>6. Running' /\ Waiting'
  BY <1>0, <1>1, <1>2 DEF Safe, Running, Waiting, Ended
<1>7. Reclaiming'
  BY <1>0, <1>1, <1>2 DEF Safe, Reclaiming, Ended
<1>8. Mine'
  BY <1>0, <1>1, <1>2 DEF Safe, Mine
<1>9. Looping' /\ Scanned'
  BY <1>0 DEF Safe, Looping, Scanned
<1>. QED  BY <1>4, <1>5, <1>6, <1>7, <1>8, <1>9 DEF Safe

LEMMA UserFaultsSafe ==
  ASSUME Safe, NEW s \in Slot, UserFaults(s)
  PROVE  Safe'
<1>0. /\ TypeOK /\ s \in ready /\ kind[s] = "user"
      /\ ready' = ready \ {s} /\ dead' = dead \union {s}
      /\ UNCHANGED <<gen, made, useCnt, stack, stacks, bump, mm, kind, wait, raced, lost, shell, idle>>
  BY DEF UserFaults, Safe
<1>1. InUse' = InUse
  BY <1>0 DEF InUse
<1>2. TypeOK'
  BY <1>0 DEF TypeOK
<1>3. Stacked' /\ TCBsCounted'
  BY <1>0, <1>1 DEF Safe, Stacked, Given, TCBsCounted, Uncounted, Overcounted
<1>4. Running' /\ Waiting' /\ Reclaiming'
  BY <1>0 DEF Safe, Running, Waiting, Reclaiming, Ended
<1>5. Mine' /\ Looping' /\ Scanned'
  BY <1>0 DEF Safe, Mine, Looping, Scanned
<1>. QED  BY <1>2, <1>3, <1>4, <1>5 DEF Safe
-----------------------------------------------------------------------------
LEMMA RacedStays == [Next]_vars => (raced => raced')
<1>. SUFFICES ASSUME [Next]_vars, raced PROVE raced'
  OBVIOUS
<1>1. CASE \/ CreateBegins \/ LooksOn \/ FindsNone \/ FindsFree \/ ReadsAllocatedCnt \/ ReadsUseCnt
           \/ CreateFails \/ ScanSkips \/ ScanEnds \/ ScanDone \/ EndsAlive \/ EndsMissed
           \/ (\E s \in Slot : KillTask(s)) \/ Quiet \/ UNCHANGED vars
  BY <1>1, Zenon DEF tcb, vars, CreateBegins, LooksOn, FindsNone, FindsFree, ReadsAllocatedCnt, ReadsUseCnt,
     CreateFails, ScanSkips, ScanEnds, ScanDone, EndsAlive, EndsMissed, KillTask, Quiet
<1>2. CASE StoresID \/ StoresUseCnt \/ StoresAllocatedCnt \/ \E k \in Kind : CreateEnds(k)
  BY <1>2 DEF StoresID, StoresUseCnt, StoresAllocatedCnt, CreateEnds
<1>3. CASE \E s \in Slot : ExecUser(s) \/ ExitTask(s) \/ UserFaults(s) \/ \E c \in Slot : Fork(s, c)
  BY <1>3 DEF ExecUser, Claim, ExitTask, UserFaults, Fork
<1>4. CASE EndsDead \/ EndsReady \/ ShellFrees \/ IdlePops \/ IdleFrees \/ NoStack
  BY <1>4 DEF EndsDead, EndsReady, ShellFrees, IdlePops, IdleFrees, NoStack
<1>. QED  BY <1>1, <1>2, <1>3, <1>4, Zenon DEF Next

LEMMA NextIInv == ~KillsMortal /\ IInv /\ [Next]_vars => IInv'
<1>. SUFFICES ASSUME ~KillsMortal, Safe, [Next]_vars, ~raced' PROVE Safe'
  BY RacedStays DEF IInv
<1>1. CASE CreateBegins \/ LooksOn \/ FindsNone \/ FindsFree
  BY <1>1, CreateBeginsSafe
<1>2. CASE ReadsAllocatedCnt
  BY <1>2, ReadsAllocatedCntSafe
<1>3. CASE StoresID
  BY <1>3, StoresIDSafe
<1>4. CASE ReadsUseCnt \/ StoresUseCnt \/ StoresAllocatedCnt
  BY <1>4, CountersSafe
<1>5. ASSUME NEW k \in Kind, CreateEnds(k) PROVE Safe'
  BY <1>5, CreateEndsSafe
<1>6. CASE CreateFails
  BY <1>6, CreateFailsSafe
<1>7. ASSUME NEW s \in Slot, ExecUser(s) PROVE Safe'
  BY <1>7, ExecUserSafe
<1>8. ASSUME NEW s \in Slot, KillTask(s) PROVE Safe'
  BY <1>8, KillTaskSafe
<1>9. CASE ScanSkips \/ ScanEnds \/ ScanDone
  BY <1>9, ScanSafe
<1>10. CASE EndsDead
  BY <1>10, EndsDeadSafe
<1>11. CASE EndsAlive
  BY <1>11, EndsAliveSafe
<1>12. CASE EndsReady
  BY <1>12, EndsReadySafe
<1>13. CASE EndsMissed
  BY <1>13, EndsMissedSafe
<1>14. CASE ShellFrees
  BY <1>14, ShellFreesSafe
<1>15. CASE IdlePops
  BY <1>15, IdlePopsSafe
<1>16. CASE IdleFrees
  BY <1>16, IdleFreesSafe
<1>17. ASSUME NEW s \in Slot, ExitTask(s) PROVE Safe'
  BY <1>17, ExitTaskSafe
<1>18. ASSUME NEW s \in Slot, UserFaults(s) PROVE Safe'
  BY <1>18, UserFaultsSafe
<1>19. ASSUME NEW s \in Slot, NEW c \in Slot, Fork(s, c) PROVE Safe'
  BY <1>19, ForkSafe
<1>20. CASE NoStack
  BY <1>20, NoStackSafe
<1>21. CASE Quiet \/ UNCHANGED vars
  <2>1. /\ UNCHANGED <<gen, made, useCnt, stack, stacks, bump, mm, kind, dead, ready, wait>>
        /\ UNCHANGED <<raced, lost, shell, idle>>
    BY <1>21 DEF Quiet, vars, tcb
  <2>2. InUse' = InUse
    BY <2>1 DEF InUse
  <2>3. TypeOK' /\ Stacked' /\ TCBsCounted'
    BY <2>1, <2>2 DEF Safe, TypeOK, Stacked, Given, TCBsCounted, Uncounted, Overcounted
  <2>4. Running' /\ Waiting' /\ Reclaiming'
    BY <2>1 DEF Safe, Running, Waiting, Reclaiming, Ended
  <2>5. Mine' /\ Looping' /\ Scanned'
    BY <2>1 DEF Safe, Mine, Looping, Scanned
  <2>. QED  BY <2>3, <2>4, <2>5 DEF Safe
<1>. QED
  BY <1>1, <1>2, <1>3, <1>4, <1>5, <1>6, <1>7, <1>8, <1>9, <1>10, <1>11, <1>12, <1>13, <1>14,
     <1>15, <1>16, <1>17, <1>18, <1>19, <1>20, <1>21, Zenon DEF Next

(* The inductive invariant, for a user who does not kill threads that can  *)
(* end themselves (with a user who does, it does not hold: see             *)
(* IdleSparesUsers and kEndTask, task.c:315), as long as the shell's       *)
(* kAllocateTCB takes no TCB that a fork has taken (task.c:68-81).         *)
THEOREM InvariantHolds ==
  ASSUME ~KillsMortal
  PROVE  Spec => []IInv
<1>1. ~KillsMortal
  OBVIOUS
<1>2. Init => IInv
  BY InitSafe DEF IInv
<1>. QED  BY <1>1, <1>2, NextIInv, PTL DEF Spec

(* Every variable of task.c that TaskLife models keeps values of its type, *)
(* until the shell's kAllocateTCB takes a TCB that a fork has taken.       *)
THEOREM TypeCorrect ==
  ASSUME ~KillsMortal
  PROVE  Spec => [](raced \/ TypeOK)
<1>1. IInv => raced \/ TypeOK
  BY DEF IInv, Safe
<1>. QED  BY <1>1, InvariantHolds, PTL

(* kFreeTask, called by the shell or by the idle task with interrupts on,  *)
(* never frees a task that can be dispatched, and gives every stack back   *)
(* once and with its TCB; iUseCnt is exact until an update of it is lost.  *)
(* All this until the shell's kAllocateTCB takes a TCB that a fork took    *)
(* after the shell had seen it free.                                       *)
THEOREM StacksAlwaysAccounted ==
  ASSUME ~KillsMortal
  PROVE  Spec => []StacksAccounted
<1>1. IInv => StacksAccounted
  <2>. SUFFICES ASSUME Safe PROVE StacksAccounted
    BY DEF IInv, StacksAccounted
  <2>1. \A s \in ready : s \in Slot /\ gen[s] # 0 /\ stack[s] # 0 /\ ~Given(s)
    BY DEF Safe, Running, Mine, Reclaiming, Reclaims, Given, Ended, TypeOK
  <2>2. RunnableHasStack
    BY <2>1 DEF Safe, Stacked, RunnableHasStack
  <2>3. GivenBack = {stack[s] : s \in {r \in Slot : Given(r)}}
    BY DEF GivenBack, Given, Safe, Mine, Targets, Reclaiming, Reclaims
  <2>4. ASSUME NEW s \in Slot, stack[s] \in GivenBack, stack[s] # 0 PROVE Given(s)
    BY <2>3, <2>4 DEF Safe, Stacked
  <2>5. stacks = {stack[s] : s \in Slot} \ ({0} \union GivenBack)
    <3>1. ASSUME NEW x \in stacks PROVE x \in {stack[s] : s \in Slot} \ ({0} \union GivenBack)
      <4>1. PICK s \in Slot : stack[s] = x
        BY DEF Safe, Stacked
      <4>2. x # 0 /\ ~Given(s)
        BY <4>1 DEF Safe, Stacked
      <4>3. x \notin GivenBack
        BY <2>3, <4>1, <4>2 DEF Safe, Stacked
      <4>. QED  BY <4>1, <4>2, <4>3
    <3>2. ASSUME NEW s \in Slot, stack[s] # 0, stack[s] \notin GivenBack PROVE stack[s] \in stacks
      BY <2>3, <3>2 DEF Safe, Stacked
    <3>. QED  BY <3>1, <3>2
  <2>. QED  BY <2>2, <2>5 DEF Safe, Stacked, TCBsCounted, StacksAccounted
<1>. QED  BY <1>1, InvariantHolds, PTL

(* The task that kEndTask found is the task it frees, although others end, *)
(* fork and are reclaimed between its steps; and kEndAllUserTasks leaves   *)
(* no user task running that was there when it began.                      *)
THEOREM UserTasksEnd ==
  ASSUME ~KillsMortal
  PROVE  Spec => []UsersEnded
<1>1. IInv => UsersEnded
  <2>. SUFFICES ASSUME Safe PROVE UsersEnded
    BY DEF IInv, UsersEnded
  <2>1. TargetStays
    BY DEF Safe, Mine, Targets, Reclaims, TargetStays
  <2>2. \A s \in mm : s < N
    BY DEF Safe, TypeOK, Slot
  <2>. QED  BY <2>1, <2>2 DEF Safe, Scanned, UsersEnded
<1>. QED  BY <1>1, InvariantHolds, PTL

(* kIdleTask frees kernel threads that called kExitTask, and nothing else, *)
(* at every step of kFreeTask, until a TCB gets two owners.                *)
THEOREM IdleFreesOnlyEnded ==
  ASSUME ~KillsMortal
  PROVE  Spec => []IdleFreesEnded
<1>1. IInv => IdleFreesEnded
  <2>. SUFFICES ASSUME Safe, idle.at \notin {"halt", "count", "counted"}
                PROVE  gen[idle.slot] # 0 /\ idle.slot \in dead \ (ready \union mm)
    BY DEF IInv, IdleFreesEnded
  <2>1. idle.at \in Reclaims
    BY DEF Safe, TypeOK, Freeing, Reclaims
  <2>. QED  BY <2>1 DEF Safe, Reclaiming, Running, Ended
<1>. QED  BY <1>1, InvariantHolds, PTL
=============================================================================
