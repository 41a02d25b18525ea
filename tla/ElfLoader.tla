----------------------------- MODULE ElfLoader -----------------------------
(***************************************************************************)
(* The command exec up to the start of the program: kMmCreate, the ELF     *)
(* loader (02.Kernel64/src/elf.c), the VMA list and the page tables it     *)
(* builds (mm_struct.c, paging.c), and kMmDestroy, which the command calls *)
(* when any step of it fails and kEndTask when the program has ended.      *)
(*                                                                         *)
(* The shell runs this with interrupts on: other tasks take and return     *)
(* frames between any two pages, so each allocation can fail.  Sums of the *)
(* header's numbers wrap at Word, as the 64-bit ones of the code do.  The  *)
(* byte of the file at offset o is o itself.                               *)
(***************************************************************************)
EXTENDS Integers, Sequences, FiniteSets, SequencesExt

CONSTANTS
  Word,          \* numbers are taken modulo this: 2^64 in the code
  PageSize, Fan, Depth,  \* bytes of a page, entries of a table, levels of tables
  Frame,         \* frame numbers
  KernelTable,   \* the table the kernel half of every root names
  FileSize,      \* bytes of the image
  PhSize,        \* bytes of a program header
  Phoffs, MaxPhnum, Phdrs,  \* what the image's headers can say
  StackStart, StackEnd      \* the stack area: below USER_STACK_TOP

UserEnd == (Fan ^ Depth * PageSize) \div 2     \* USER_VA_END
None == 0
Zero == -1       \* a byte that was cleared
Outside == -2    \* a byte that is not in the file
JunkByte == -3   \* a byte of a frame not written since it was allocated

ASSUME ElfLoaderAssumption ==
  /\ {Word, PageSize, Fan, Depth, PhSize} \subseteq Nat \ {0} /\ Fan % 2 = 0
  /\ 2 * UserEnd <= Word /\ FileSize \in 0 .. Word - 1
  /\ Frame \subseteq Nat \ {None, KernelTable} /\ IsFiniteSet(Frame)
  /\ \A s \in Phdrs : /\ s.type \in {"load", "note"}
                      /\ s.flags \subseteq {"r", "w", "x"}
                      /\ {s.vaddr, s.memsz, s.filesz, s.offset} \subseteq 0 .. Word - 1
  /\ StackStart \in Nat /\ StackEnd \in Nat /\ StackStart < StackEnd /\ StackEnd <= UserEnd
  /\ StackStart % PageSize = 0 /\ StackEnd % PageSize = 0

(* Each level of tables covers Fan times as many bytes as the next.        *)
ASSUME LevelsAssumption ==
  /\ Fan ^ 0 = 1
  /\ \A n \in 0 .. Depth - 1 : Fan ^ n \in Nat \ {0} /\ Fan ^ (n + 1) = Fan * Fan ^ n

VARIABLES
  free, others,   \* free frames, and those other tasks hold
  table,          \* the entries of the frames that are page tables
  bytes,          \* the contents of the other frames
  root,           \* qwPML4
  vmas,           \* poVmaList
  pc,             \* what the command does next
  left,           \* program headers still to read
  seg, va,        \* the segment and the page being loaded
  extent,         \* qwLowest and qwHighest, then qwCodeStart and qwCodeEnd
  loaded          \* ghost: the segments loaded so far

(* The values of the command's variables when it does not run.             *)
NoSegment == CHOOSE s \in Phdrs : TRUE
NoExtent == [low |-> UserEnd, high |-> 0]

frames == <<free, others, table, bytes>>
loaderVars == <<frames, root, vmas, pc, left, seg, va, extent, loaded>>

-----------------------------------------------------------------------------
(* Arithmetic of QWORDs and PAGE_ALIGN_DOWN, PAGE_ALIGN_UP.                *)
Add(a, b) == (a + b) % Word
AlignDown(a) == a - (a % PageSize)
AlignUp(a) == AlignDown(Add(a, PageSize - 1))

(* The index of an address in the table of each level, root first.         *)
Index == 0 .. Fan - 1
IndexOf(a) == [l \in 1 .. Depth |-> (a \div (PageSize * Fan ^ (Depth - l))) % Fan]

NoPte == [to |-> None, rw |-> FALSE, nx |-> FALSE]
Link(f) == [to |-> f, rw |-> TRUE, nx |-> FALSE]
Leaf(f, flags) == [to |-> f, rw |-> "w" \in flags, nx |-> "x" \notin flags]
EmptyTable == [i \in Index |-> NoPte]
JunkPage == [k \in 0 .. PageSize - 1 |-> JunkByte]
Lowest(S) == CHOOSE f \in S : \A g \in S : f <= g

(* kGetNextLevel, in a state [ok, at, free, table]; at is the table it has *)
(* come to.                                                                *)
GetNextLevel(st, i) ==
  LET to == st.table[st.at][i].to
      new == Lowest(st.free)
  IN IF ~st.ok THEN st
     ELSE IF to # None THEN [st EXCEPT !.at = to]
     ELSE IF st.free = {} THEN [st EXCEPT !.ok = FALSE]
     ELSE [ok |-> TRUE, at |-> new, free |-> st.free \ {new},
           table |-> [st.table EXCEPT ![new] = EmptyTable, ![st.at][i] = Link(new)]]

(* kMapPage: the tables on the way, then the leaf.  A failure leaves the   *)
(* tables it has made.                                                     *)
TablesTo(avail, a) ==
  LET level[l \in 0 .. Depth - 1] ==
        IF l = 0 THEN [ok |-> TRUE, at |-> root, free |-> avail, table |-> table]
                 ELSE GetNextLevel(level[l - 1], IndexOf(a)[l])
  IN level[Depth - 1]

MapPage(avail, a, f, flags) ==
  LET end == TablesTo(avail, a)
  IN IF end.ok THEN [end EXCEPT !.table[end.at][IndexOf(a)[Depth]] = Leaf(f, flags)] ELSE end

(* kWalkPageTable: the leaf entry of an address.                           *)
Walk(a) ==
  LET pte[l \in 0 .. Depth] ==
        IF l = 0 THEN Link(root)
        ELSE IF pte[l - 1].to = None THEN NoPte ELSE table[pte[l - 1].to][IndexOf(a)[l]]
  IN pte[Depth]

-----------------------------------------------------------------------------
(* The VMA list: kVmaCreate and kVmaFind.                                  *)
NoVma == [start |-> 0, end |-> 0, flags |-> {}]

Overlaps(v, start, end) == start < v.end /\ v.start < end

VmaAllowed(start, end) ==
  /\ start < end /\ end <= UserEnd
  /\ \A i \in 1 .. Len(vmas) :
       Overlaps(vmas[i], start, end) => \E j \in 1 .. i - 1 : vmas[j].start > start

(* Mutant: a new area goes to the end of the list.                         *)
VmaAdded_Last(start, end, flags) ==
  Append(vmas, [start |-> start, end |-> end, flags |-> flags])

VmaAdded(start, end, flags) ==
  LET before == {i \in 1 .. Len(vmas) : \A j \in 1 .. i : vmas[j].start <= start}
  IN InsertAt(vmas, Cardinality(before) + 1, [start |-> start, end |-> end, flags |-> flags])

VmaFind(a) ==
  LET reached == {i \in 1 .. Len(vmas) : \A j \in 1 .. i : vmas[j].start <= a}
      hits == {i \in reached : a < vmas[i].end}
  IN IF hits = {} THEN NoVma ELSE vmas[Lowest(hits)]

-----------------------------------------------------------------------------
(* kMmCreate: a root that shares the kernel's half.                        *)
MmCreate ==
  /\ pc = "idle" /\ free # {}
  /\ root' = Lowest(free)
  /\ free' = free \ {root'}
  /\ table' = [table EXCEPT ![root'] =
                 [i \in Index |-> IF 2 * i < Fan THEN NoPte ELSE Link(KernelTable)]]
  /\ vmas' = <<>> /\ loaded' = {}
  /\ extent' = NoExtent
  /\ pc' = "header"
  /\ UNCHANGED <<others, bytes, left, seg, va>>

(* kElfIsValid: the program headers must lie in the file.                  *)
HeaderFits(phoff, n) == Add(phoff, n * PhSize) <= FileSize

CheckHeader ==
  /\ pc = "header"
  /\ \E phoff \in Phoffs, n \in 0 .. MaxPhnum :
       IF HeaderFits(phoff, n) THEN left' = n /\ pc' = "phdr"
                               ELSE left' = 0 /\ pc' = "fail"
  /\ UNCHANGED <<frames, root, vmas, seg, va, extent, loaded>>

(* kElfLoad: one program header.                                           *)
Skipped(s) == s.type # "load" \/ s.memsz = 0

(* Mutant: only the start of the segment's bytes is checked.               *)
Refused_StartOnly(s) ==
  \/ UserEnd <= s.vaddr \/ UserEnd <= Add(s.vaddr, s.memsz)
  \/ s.filesz > s.memsz
  \/ s.offset > FileSize

Refused(s) ==
  \/ UserEnd <= s.vaddr \/ UserEnd <= Add(s.vaddr, s.memsz)
  \/ s.filesz > s.memsz
  \/ Add(s.offset, s.filesz) > FileSize

Start(s) == AlignDown(s.vaddr)
End(s) == AlignUp(Add(s.vaddr, s.memsz))
FileEnd(s) == Add(s.vaddr, s.filesz)

NextHeader == pc = "phdr" /\ left > 0 /\ left' = left - 1

SkipHeader ==
  /\ NextHeader
  /\ \E s \in Phdrs : Skipped(s)
  /\ UNCHANGED <<frames, root, vmas, pc, seg, va, extent, loaded>>

BeginSegment ==
  /\ NextHeader
  /\ \E s \in Phdrs :
       /\ ~Skipped(s) /\ ~Refused(s) /\ VmaAllowed(Start(s), End(s))
       /\ vmas' = VmaAdded(Start(s), End(s), s.flags)
       /\ seg' = s /\ va' = Start(s)
  /\ pc' = "page"
  /\ UNCHANGED <<frames, root, extent, loaded>>

(* The header is refused, or the area is: it overlaps another, is empty or *)
(* ends outside the user half, or kmalloc finds no frame for its slab.     *)
RefuseSegment ==
  /\ NextHeader
  /\ \E s \in Phdrs :
       ~Skipped(s) /\ (Refused(s) \/ ~VmaAllowed(Start(s), End(s)) \/ free = {})
  /\ pc' = "fail"
  /\ UNCHANGED <<frames, root, vmas, seg, va, extent, loaded>>

(* kElfLoadSegment: one page of it.  What the file has of the page is      *)
(* copied over zeroes.                                                     *)
FileByte(o) == IF o < FileSize THEN o ELSE Outside

(* Mutant: copies to the end of the page.                                  *)
Copied_WholePage(s, a) ==
  (IF a > s.vaddr THEN a ELSE s.vaddr) .. Add(a, PageSize) - 1

Copied(s, a) ==
  LET from == IF a > s.vaddr THEN a ELSE s.vaddr
      to == IF Add(a, PageSize) < FileEnd(s) THEN Add(a, PageSize) ELSE FileEnd(s)
  IN from .. to - 1

PageBytes(s, a) ==
  [k \in 0 .. PageSize - 1 |->
     IF a + k \in Copied(s, a) THEN FileByte(Add(s.offset, a + k - s.vaddr)) ELSE Zero]

InFile == va < End(seg) /\ va < FileEnd(seg)

LoadPage ==
  /\ pc = "page" /\ InFile /\ free # {}
  /\ LET f == Lowest(free)
         m == MapPage(free \ {f}, va, f, seg.flags)
     IN /\ m.ok
        /\ free' = m.free /\ table' = m.table
        /\ bytes' = [bytes EXCEPT ![f] = PageBytes(seg, va)]
  /\ va' = va + PageSize
  /\ UNCHANGED <<others, root, vmas, pc, left, seg, extent, loaded>>

(* No frame for the page, or none for a table on its way: the page is      *)
(* returned, the tables are not.                                           *)
NoFrameForPage ==
  /\ pc = "page" /\ InFile /\ free = {}
  /\ pc' = "fail"
  /\ UNCHANGED <<frames, root, vmas, left, seg, va, extent, loaded>>

(* Mutant: the page is forgotten.                                          *)
Returned_Not(avail, f) == avail

Returned(avail, f) == avail \union {f}

NoFrameForTable ==
  /\ pc = "page" /\ InFile /\ free # {}
  /\ LET f == Lowest(free)
         m == MapPage(free \ {f}, va, f, seg.flags)
     IN /\ ~m.ok
        /\ free' = Returned(m.free, f) /\ table' = m.table
  /\ pc' = "fail"
  /\ UNCHANGED <<others, bytes, root, vmas, left, seg, va, extent, loaded>>

LeaveToFault ==
  /\ pc = "page" /\ va < End(seg) /\ va >= FileEnd(seg)
  /\ va' = va + PageSize
  /\ UNCHANGED <<frames, root, vmas, pc, left, seg, extent, loaded>>

EndSegment ==
  /\ pc = "page" /\ va >= End(seg)
  /\ extent' = LET high == Add(seg.vaddr, seg.memsz)
               IN [low |-> IF seg.vaddr < extent.low THEN seg.vaddr ELSE extent.low,
                   high |-> IF high > extent.high THEN high ELSE extent.high]
  /\ loaded' = loaded \union {seg}
  /\ pc' = "phdr"
  /\ UNCHANGED <<frames, root, vmas, left, seg, va>>

(* The end of kElfLoad, and kExec: the area of the stack, then the task.   *)
StartProgram ==
  /\ pc = "phdr" /\ left = 0
  /\ extent.high # 0 /\ VmaAllowed(StackStart, StackEnd)
  /\ vmas' = VmaAdded(StackStart, StackEnd, {"r", "w"})
  /\ pc' = "runs"
  /\ UNCHANGED <<frames, root, left, seg, va, extent, loaded>>

(* Nothing to load, no room for the stack, no memory for its area, or no   *)
(* TCB or stack for the task: kCreateUserTask can fail at any time.        *)
NoProgram ==
  /\ pc = "phdr" /\ left = 0
  /\ pc' = "fail"
  /\ UNCHANGED <<frames, root, vmas, left, seg, va, extent, loaded>>

(* kMmDestroy: kFreeUserTables follows every entry of the user half, and   *)
(* frees what it finds and the root.                                       *)
IsUser(t, i) == t = root => 2 * i < Fan
UserEntries(t) == {table[t][i].to : i \in {j \in Index : IsUser(t, j)}} \ {None}
Below(S) == UNION {UserEntries(t) : t \in S}
UserTables ==
  LET level[l \in 1 .. Depth] == IF l = 1 THEN {root} ELSE Below(level[l - 1])
  IN UNION {level[l] : l \in 1 .. Depth}
Tree == IF pc = "idle" THEN {} ELSE UserTables \union Below(UserTables)

MmDestroy ==
  /\ pc \in {"fail", "runs"}
  /\ free' = free \union Tree
  /\ table' = [f \in DOMAIN table |-> IF f \in Tree THEN EmptyTable ELSE table[f]]
  /\ bytes' = [f \in Frame |-> IF f \in Tree THEN JunkPage ELSE bytes[f]]
  /\ root' = None /\ vmas' = <<>> /\ loaded' = {}
  /\ pc' = "idle"
  /\ left' = 0 /\ seg' = NoSegment /\ va' = 0 /\ extent' = NoExtent
  /\ UNCHANGED others

(* Other tasks.                                                            *)
OtherTakes ==
  /\ free # {}
  /\ free' = free \ {Lowest(free)} /\ others' = others \union {Lowest(free)}
  /\ UNCHANGED <<table, bytes, root, vmas, pc, left, seg, va, extent, loaded>>

OtherReturns ==
  /\ \E f \in others : others' = others \ {f} /\ free' = free \union {f}
  /\ UNCHANGED <<table, bytes, root, vmas, pc, left, seg, va, extent, loaded>>

LoadInit ==
  /\ free = Frame /\ others = {}
  /\ table = [f \in Frame \union {KernelTable} |-> EmptyTable]
  /\ bytes = [f \in Frame |-> JunkPage]
  /\ root = None /\ vmas = <<>>
  /\ pc = "idle" /\ left = 0
  /\ seg = NoSegment /\ va = 0
  /\ extent = NoExtent
  /\ loaded = {}

LoadNext ==
  \/ MmCreate \/ CheckHeader
  \/ SkipHeader \/ BeginSegment \/ RefuseSegment
  \/ LoadPage \/ NoFrameForPage \/ NoFrameForTable \/ LeaveToFault \/ EndSegment
  \/ StartProgram \/ NoProgram \/ MmDestroy
  \/ OtherTakes \/ OtherReturns

LoadSpec == LoadInit /\ [][LoadNext]_loaderVars

-----------------------------------------------------------------------------
(* Reading memory as the program will: through the page tables, and where  *)
(* there is no page yet, the zero page that a fault in an area puts there  *)
(* (kDoPageFault).                                                         *)
NoMemory == -4
Read(a) ==
  IF Walk(a).to # None THEN bytes[Walk(a).to][a % PageSize]
  ELSE IF VmaFind(a) # NoVma THEN Zero ELSE NoMemory

Wraps(s) == Word <= s.vaddr + s.memsz \/ Word <= s.offset + s.filesz
Span(s) == s.vaddr .. s.vaddr + s.memsz - 1
UserBytes == 0 .. UserEnd - 1

(* The types, and a program starts in the memory its image describes: in   *)
(* each segment the bytes of the file, then zeroes, and zeroes in the rest *)
(* of its pages, whatever was in the frames before; and the code range     *)
(* spans all segments (kElfLoad, kElfLoadSegment).  A segment whose sums   *)
(* wrap passes the checks and is exempt.                                   *)
ImageLoaded ==
  /\ free \subseteq Frame /\ others \subseteq Frame
  /\ pc \in {"idle", "header", "phdr", "page", "runs", "fail"}
  /\ pc = "runs" /\ (\A s \in loaded : ~Wraps(s)) =>
       /\ \A s \in loaded :
            /\ extent.low <= s.vaddr /\ s.vaddr + s.memsz <= extent.high
            /\ \A a \in Span(s) :
                 Read(a) = IF a < s.vaddr + s.filesz THEN s.offset + (a - s.vaddr) ELSE Zero
       /\ \A a \in UserBytes \ UNION {Span(s) : s \in loaded} : Read(a) \in {Zero, NoMemory}

(* The VMA list and the page tables agree, also while the image is loaded: *)
(* kVmaFind finds the area of a page whenever one contains it, areas do    *)
(* not overlap, and a page that is mapped lies in an area and has its      *)
(* rights (kVmaCreate, kVmaFind, kMmMapPage, kMapPage).                    *)
RightsMatch ==
  pc # "idle" =>
    \A a \in {b \in UserBytes : b % PageSize = 0} :
      LET areas == {i \in 1 .. Len(vmas) : a \in vmas[i].start .. vmas[i].end - 1}
          pte == Walk(a)
      IN /\ Cardinality(areas) <= 1
         /\ VmaFind(a) = IF areas = {} THEN NoVma ELSE vmas[Lowest(areas)]
         /\ pte.to # None => areas # {} /\ pte = Leaf(pte.to, VmaFind(a).flags)

(* Every frame is free, in another task's hands, or reached once from the  *)
(* root, so that kMmDestroy returns what any failure left behind, and      *)
(* nothing of the kernel half (kMapPage, kGetNextLevel, kFreeUserTables).  *)
FramesAccounted ==
  LET links == {e \in UserTables \X Index : IsUser(e[1], e[2]) /\ table[e[1]][e[2]].to # None}
  IN /\ free \union others \union Tree = Frame
     /\ Cardinality(free) + Cardinality(others) + Cardinality(Tree) = Cardinality(Frame)
     /\ pc # "idle" => Cardinality(links) + 1 = Cardinality(Tree)

(* What is copied comes from the file: the checks of kElfLoad exclude      *)
(* every other byte, unless the sum of offset and size wraps.              *)
ReadsInside ==
  \A s \in loaded \union (IF pc = "page" THEN {seg} ELSE {}) :
    s.offset + s.filesz < Word =>
      \A a \in Start(s) .. End(s) - 1 : Walk(a).to # None => Read(a) # Outside
=============================================================================
