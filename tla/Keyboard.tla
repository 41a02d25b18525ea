------------------------------ MODULE Keyboard ------------------------------
(***************************************************************************)
(* The keyboard driver (02.Kernel64/src/keyboard.c): the interrupt handler *)
(* reads one code, works out which character it stands for and puts a key  *)
(* in the queue.  A lock key makes it send the LED state to the keyboard,  *)
(* with interrupts off, and while it waits for the two acknowledgements it *)
(* reads and handles the codes that come in their place, so handling one   *)
(* code can be nested in handling another, also another lock key.          *)
(*                                                                         *)
(* The keyboard answers a byte it is sent within one round of the wait.    *)
(* The queue between the handler and the shell is module KeyQueue.         *)
(***************************************************************************)
EXTENDS Naturals, Sequences, FiniteSets, SequencesExt

CONSTANTS
  Typed,       \* what a user does: members of KeyStroke
  MaxTyped,    \* bound on the strokes
  MaxTries,    \* bytes a wait reads before it gives up: 100 in the code
  MaxDataCnt   \* KEY_MAX_QUEUE_SIZE

(* The bytes a stroke sends.  "num" inside "pause" is part of its code.    *)
Bytes == [letter |-> <<"letter">>, digit |-> <<"digit">>, pad |-> <<"pad">>,
          arrow |-> <<"E0", "pad">>, shift |-> <<"shift">>, unshift |-> <<"unshift">>,
          caps |-> <<"caps">>, num |-> <<"num">>,
          pause |-> <<"E1", "ctrl", "num", "E1", "unctrl", "unnum">>]
KeyStroke == DOMAIN Bytes
LockKey == {"caps", "num"}
Code == (UNION {ToSet(Bytes[s]) : s \in KeyStroke}) \union {"ack", "resend"}

ASSUME KeyboardAssumption ==
  /\ Typed \subseteq KeyStroke /\ MaxTyped \in Nat
  /\ MaxTries \in Nat \ {0} /\ MaxDataCnt \in Nat \ {0}

VARIABLES
  typed,       \* strokes so far
  out,         \* bytes on their way: [code, stroke number], or an acknowledgement
  port,        \* the byte that port 0x60 gave last
  await,       \* the keyboard expects the LED byte
  leds,        \* what the keyboard shows: the lock keys that are lit
  shift, caps, num, ext,   \* ucShiftDown, ucCapLockOn, ucNumLockOn, ucExtCodeIn
  skip,        \* iSkipCountForPause
  waiting,     \* calls of kChangeKeyboardLED under way, innermost last
  keys,        \* the keys that were put in the queue, ever
  dropped,     \* keys that found the queue full
  astray,      \* has a wait taken the code before for a new one, or given up
  arr, putIdx, getIdx, lastOpPut, reader, got   \* gtKeyQueue: see KeyQueue

(* A key as the queue holds it: the stroke it comes from stands for its    *)
(* character.                                                              *)
Key == [code : Code, n : 0 .. MaxTyped, comb : BOOLEAN, ext : BOOLEAN]
NoKey == [code |-> "none", n |-> 0, comb |-> FALSE, ext |-> FALSE]
Queue == INSTANCE KeyQueue WITH Data <- Key, None <- NoKey

driver == <<shift, caps, num, ext, skip>>
device == <<out, port, await, leds>>
queue == <<arr, putIdx, getIdx, lastOpPut, reader, got>>
entered == <<keys, dropped, queue>>
vars == <<typed, device, driver, waiting, entered, astray>>

Ack == [code |-> "ack", n |-> 0]
Resend == [code |-> "resend", n |-> 0]
Lit(c, m) == (IF c THEN {"caps"} ELSE {}) \union (IF m THEN {"num"} ELSE {})

Init ==
  /\ typed = <<>> /\ out = <<>> /\ port = Ack /\ await = FALSE /\ leds = {}
  /\ shift = FALSE /\ caps = FALSE /\ num = FALSE /\ ext = FALSE /\ skip = 0
  /\ waiting = <<>> /\ keys = <<>> /\ dropped = {} /\ astray = FALSE
  /\ Queue!Init
-----------------------------------------------------------------------------
Type(s) ==
  /\ Len(typed) < MaxTyped
  /\ typed' = Append(typed, s)
  /\ out' = out \o [i \in DOMAIN Bytes[s] |-> [code |-> Bytes[s][i], n |-> Len(typed) + 1]]
  /\ UNCHANGED <<port, await, leds, driver, waiting, entered, astray>>

(* kPutQueue and what the handler does with its result: nothing.           *)
Put(k) ==
  \/ Queue!PutQueue(k) /\ keys' = Append(keys, k) /\ dropped' = dropped
  \/ Queue!Full /\ dropped' = dropped \union {k} /\ UNCHANGED <<keys, queue>>

(* Faulty: a keypad code behind 0xE0 counts as one of the keypad. *)
UseCombined_NoExt(code) ==
  CASE code = "letter" -> shift # caps
    [] code = "digit" -> shift
    [] code = "pad" -> num
    [] OTHER -> FALSE

(* kIsUseCombinedCode.                                                     *)
UseCombined(code) ==
  CASE code = "letter" -> shift # caps
    [] code = "digit" -> shift
    [] code = "pad" /\ ~ext -> num
    [] OTHER -> FALSE

Entry(b) == [code |-> b.code, n |-> b.n, comb |-> UseCombined(b.code), ext |-> ext]

(* kConvertScanCodeToASCIICode and kConvertScanCodeAndPutQueue on byte b,  *)
(* called from the waits w; rest is still to come.                         *)
Plain(rest, w) == waiting' = w /\ out' = rest /\ await' = await

Skip(b, rest, w) ==
  /\ skip > 0
  /\ skip' = skip - 1
  /\ Plain(rest, w)
  /\ UNCHANGED <<shift, caps, num, ext, entered>>

(* Faulty: the code 0xE1 itself is counted too. *)
PauseKey_SkipsThree(b, rest, w) ==
  /\ skip = 0 /\ b.code = "E1"
  /\ skip' = 3
  /\ Put([code |-> b.code, n |-> b.n, comb |-> FALSE, ext |-> FALSE])
  /\ Plain(rest, w)
  /\ UNCHANGED <<shift, caps, num, ext>>

PauseKey(b, rest, w) ==
  /\ skip = 0 /\ b.code = "E1"
  /\ skip' = 2
  /\ Put([code |-> b.code, n |-> b.n, comb |-> FALSE, ext |-> FALSE])
  /\ Plain(rest, w)
  /\ UNCHANGED <<shift, caps, num, ext>>

Prefix(b, rest, w) ==
  /\ skip = 0 /\ b.code = "E0"
  /\ ext' = TRUE
  /\ Plain(rest, w)
  /\ UNCHANGED <<shift, caps, num, skip, entered>>

PlainKey(b, rest, w) ==
  /\ skip = 0 /\ b.code \notin {"E0", "E1"} \union LockKey
  /\ ext' = FALSE
  /\ shift' = IF b.code \in {"shift", "unshift"} THEN b.code = "shift" ELSE shift
  /\ Put(Entry(b))
  /\ Plain(rest, w)
  /\ UNCHANGED <<caps, num, skip>>

(* Faulty: the LED command goes out before the lock changes. *)
Toggle_Late(b, rest, w) ==
  /\ skip = 0 /\ b.code \in LockKey
  /\ ext' = FALSE
  /\ caps' = (caps # (b.code = "caps"))
  /\ num' = (num # (b.code = "num"))
  /\ waiting' = Append(w, [sent |-> FALSE, tries |-> 0, leds |-> Lit(caps, num),
                           key |-> Entry(b)])
  /\ await' = TRUE /\ out' = Append(rest, Ack)
  /\ UNCHANGED <<shift, skip, entered>>

(* UpdateCombinationKeyStatusAndLED: the lock changes and 0xED goes out;   *)
(* the LED byte is fixed now and sent after the first acknowledgement, the *)
(* key is put in the queue when the command is done.  The keyboard         *)
(* acknowledges 0xED behind what it has sent already.                      *)
Toggle(b, rest, w) ==
  /\ skip = 0 /\ b.code \in LockKey
  /\ ext' = FALSE
  /\ caps' = (caps # (b.code = "caps"))
  /\ num' = (num # (b.code = "num"))
  /\ waiting' = Append(w, [sent |-> FALSE, tries |-> 0, leds |-> Lit(caps', num'),
                           key |-> Entry(b)])
  /\ await' = TRUE /\ out' = Append(rest, Ack)
  /\ UNCHANGED <<shift, skip, entered>>

Convert(b, rest, w) ==
  Skip(b, rest, w) \/ PauseKey(b, rest, w) \/ Prefix(b, rest, w)
    \/ PlainKey(b, rest, w) \/ Toggle(b, rest, w)

(* kKeyboardHandler: a byte arrives and interrupts are on.                 *)
Interrupt ==
  /\ waiting = <<>> /\ out # <<>>
  /\ Convert(Head(out), Tail(out), waiting)
  /\ port' = Head(out)
  /\ UNCHANGED <<typed, leds, astray>>
-----------------------------------------------------------------------------
(* One round of kWaitForACKAndPutOtherScanCode reads port 0x60 also when   *)
(* nothing came: it then gives the byte before once more.                  *)
NextByte == IF out = <<>> THEN port ELSE Head(out)
Rest == IF out = <<>> THEN <<>> ELSE Tail(out)

InWait == waiting # <<>>
Top == Last(waiting)
MayRead == InWait /\ Top.tries < MaxTries

(* Faulty: the codes that come before the acknowledgement are thrown away. *)
OtherCode_Lost ==
  /\ MayRead /\ NextByte # Ack
  /\ Plain(Rest, [waiting EXCEPT ![Len(waiting)].tries = @ + 1])
  /\ port' = NextByte
  /\ UNCHANGED <<typed, leds, driver, entered, astray>>

(* Faulty: the bytes that a wait reads are not counted. *)
OtherCode_Endless ==
  /\ MayRead /\ NextByte # Ack
  /\ Convert(NextByte, Rest, waiting)
  /\ port' = NextByte
  /\ astray' = (astray \/ out = <<>>)
  /\ UNCHANGED <<typed, leds>>

OtherCode ==
  /\ MayRead /\ NextByte # Ack
  /\ Convert(NextByte, Rest, [waiting EXCEPT ![Len(waiting)].tries = @ + 1])
  /\ port' = NextByte
  /\ astray' = (astray \/ out = <<>>)
  /\ UNCHANGED <<typed, leds>>

(* kChangeKeyboardLED after its first wait: the LED byte.  A keyboard that *)
(* does not expect one may ask for it to be sent again.                    *)
SendLeds(rest) ==
  /\ waiting' = [waiting EXCEPT ![Len(waiting)].sent = TRUE, ![Len(waiting)].tries = 0]
  /\ leds' = IF await THEN Top.leds ELSE leds
  /\ \E answer \in IF await THEN {Ack} ELSE {Ack, Resend} : out' = Append(rest, answer)
  /\ await' = FALSE
  /\ UNCHANGED <<typed, driver, entered>>

(* ... and after its second wait.                                          *)
CommandDone(rest) ==
  /\ waiting' = Front(waiting)
  /\ Put(Top.key)
  /\ out' = rest
  /\ UNCHANGED <<typed, await, leds, driver>>

FirstAck ==
  /\ MayRead /\ NextByte = Ack /\ ~Top.sent
  /\ SendLeds(Rest)
  /\ port' = NextByte /\ astray' = astray

SecondAck ==
  /\ MayRead /\ NextByte = Ack /\ Top.sent
  /\ CommandDone(Rest)
  /\ port' = NextByte /\ astray' = astray

(* After MaxTries bytes the wait ends; its result is not looked at.        *)
GiveUp ==
  /\ InWait /\ Top.tries = MaxTries
  /\ \/ ~Top.sent /\ SendLeds(out)
     \/ Top.sent /\ CommandDone(out)
  /\ port' = port /\ astray' = TRUE

(* kGetch in the shell, which runs when interrupts are on.                 *)
Getch ==
  /\ waiting = <<>>
  /\ Queue!Read
  /\ UNCHANGED <<typed, device, driver, waiting, keys, dropped, astray>>

Next ==
  \/ \E s \in Typed : Type(s)
  \/ Interrupt \/ OtherCode \/ FirstAck \/ SecondAck \/ GiveUp \/ Getch

(* A pending interrupt is taken, a wait goes on, the shell is in kGetch.   *)
Fairness ==
  /\ WF_vars(Interrupt) /\ WF_vars(OtherCode)
  /\ WF_vars(FirstAck) /\ WF_vars(SecondAck) /\ WF_vars(GiveUp) /\ WF_vars(Getch)

Spec == Init /\ [][Next]_vars /\ Fairness
-----------------------------------------------------------------------------
Byte == [code : Code, n : 0 .. MaxTyped]

(* Every variable has the type of the C object it stands for.              *)
TypeOK ==
  /\ typed \in Seq(Typed) /\ out \in Seq(Byte) /\ port \in Byte
  /\ await \in BOOLEAN /\ leds \subseteq LockKey
  /\ {shift, caps, num, ext} \subseteq BOOLEAN /\ skip \in 0 .. 2
  /\ waiting \in Seq([sent : BOOLEAN, tries : 0 .. MaxTries, leds : SUBSET LockKey, key : Key])
  /\ keys \in Seq(Key) /\ dropped \subseteq Key /\ astray \in BOOLEAN
  /\ Queue!TypeOK

(* What the strokes say, read in the order they were made.                 *)
Hit(s, n) == Cardinality({i \in 1 .. n : typed[i] = s})
LastShift(n) == {i \in 1 .. n : typed[i] \in {"shift", "unshift"}}
Shifted(n) == \E i \in LastShift(n) :
                typed[i] = "shift" /\ \A j \in LastShift(n) : j <= i
CapsOn(n) == Hit("caps", n) % 2 = 1
NumOn(n) == Hit("num", n) % 2 = 1
Means(n) ==
  CASE typed[n] = "letter" -> Shifted(n - 1) # CapsOn(n - 1)
    [] typed[n] = "digit" -> Shifted(n - 1)
    [] typed[n] = "pad" -> NumOn(n - 1)
    [] OTHER -> FALSE

Hits == {k \in ToSet(keys) \union dropped \union {waiting[i].key : i \in DOMAIN waiting} :
           k.code # "resend"}

(* A key has the case and the meaning it had when it was hit, also when it *)
(* was read inside the LED command of a lock key hit before it, and only   *)
(* keys behind 0xE0 are extended ones.                                     *)
KeysMean ==
  ~astray => \A k \in Hits : /\ k.comb = Means(k.n)
                            /\ k.ext = (typed[k.n] = "arrow")

(* Once everything that was sent has been read, every stroke has given its *)
(* key once, Pause twice, and no acknowledgement has become one.           *)
KeysComplete ==
  out = <<>> /\ ~astray =>
    /\ {k.n : k \in Hits} = DOMAIN typed
    /\ \A n \in DOMAIN typed :
         Cardinality({i \in DOMAIN keys : keys[i].n = n}) <= IF typed[n] = "pause" THEN 2 ELSE 1

(* However strokes and lock keys nest, the keys the shell gets are the     *)
(* strokes that were made, but not always in their order.  keyboard.c:58   *)
KeysExact == TypeOK /\ KeysMean /\ KeysComplete

(* The LEDs show the locks whenever no LED command is under way, also      *)
(* after commands that were nested and sent an older state last.           *)
LedsTrue == waiting = <<>> => leds = Lit(caps, num)

(* What is queued stays a bounded queue while the handler nests.           *)
QueueKept == Queue!FifoKept

(* Whatever the keyboard sends is read, the waits inside the handler end,  *)
(* and what is queued reaches kGetch.                                      *)
KeysArrive == []<>(waiting = <<>> /\ out = <<>> /\ Queue!Empty)
=============================================================================
