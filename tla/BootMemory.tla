----------------------------- MODULE BootMemory -----------------------------
(***************************************************************************)
(* How the kernel comes to own physical memory: the firmware's E820 table  *)
(* (01.Kernel32/src/EntryPoint.s), the 32-bit kernel's checks and boot     *)
(* page tables, the sorted and merged map (memmap.c), the bump allocator   *)
(* that places mem_map and the bitmap (bootmem.c), the reservations of     *)
(* kInitializePhysicalMemory (pmm.c), the kernel's own page tables         *)
(* (kInitializePaging, paging.c), and the frames module Buddy then serves. *)
(*                                                                         *)
(* Addresses are in small units, PageSize of them to a frame, so that      *)
(* ranges begin and end inside frames.  Nothing else runs during boot:     *)
(* interrupts are off until the scheduler is up.                           *)
(***************************************************************************)
EXTENDS Buddy

CONSTANTS
  Firmwares,    \* the answers a BIOS gives to the E820 calls, call by call
  KernelEnds,   \* __kernel_end - KERNEL_VMA, for the images that can be built
  PageSize,     \* PAGE_SIZE
  LargePage,    \* PAGE_SIZE_2M
  PdSpan,       \* what one page directory maps: 1 GB
  MaxEntries,   \* E820_MAX_ENTRIES
  MinTop,       \* 63 MB, the top a machine must reach
  Window,       \* 16 GB, the direct map of the boot page tables
  KernelBase,   \* KERNEL_PHYS_BASE
  BootTables,   \* <<KERNEL32_PAGETABLE_BASE, its end>>
  Zeroed,       \* <<1 MB, 6 MB>>, what kInitKernel64Area clears
  Fixed,        \* the other ranges the kernel uses at fixed places
  IstEnd,       \* IST_START_ADDR + IST_SIZE
  BitmapWord,   \* frames per word of the bitmap; a word and a page_t are one unit
  VmallocSlots  \* PML4 entries between VMALLOC_START and VMALLOC_END

ASSUME BootAssumption ==
  /\ PageSize \in Nat \ {0} /\ BitmapWord \in Nat \ {0} /\ PdSpan \in Nat \ {0}
  /\ LargePage % PageSize = 0 /\ PdSpan % LargePage = 0
  /\ MaxEntries \in Nat /\ VmallocSlots \in Nat

(* A BIOS answers with ranges, and calls nothing usable that is not memory *)
(* of the machine.                                                         *)
ASSUME FirmwareAssumption ==
  \A answers \in Firmwares :
    /\ Len(answers) \in Nat /\ DOMAIN answers = 1 .. Len(answers)
    /\ \A i \in DOMAIN answers :
         /\ answers[i].base \in Nat /\ answers[i].len \in Nat
         /\ answers[i].type = "usable" => answers[i].base + answers[i].len <= Total * PageSize

(* The fixed layout: Kernel32's page tables lie below the IST stacks and   *)
(* apart from the kernel's image and what else is at a fixed place.        *)
ASSUME LayoutAssumption ==
  /\ BootTables[1] \in Nat /\ BootTables[2] \in Nat /\ IstEnd \in Nat
  /\ MinTop \in Nat /\ Window \in Nat /\ KernelBase \in Nat /\ KernelEnds \subseteq Nat
  /\ Zeroed[1] \in Nat /\ Zeroed[2] \in Nat
  /\ \A r \in Fixed : r[1] \in Nat /\ r[2] \in Nat
  /\ BootTables[2] <= IstEnd
  /\ \A r \in Fixed \union {<<KernelBase, end>> : end \in KernelEnds} :
       r[2] <= BootTables[1] \/ BootTables[2] <= r[1]

VARIABLES
  firmware,   \* this machine's BIOS
  kernelEnd,  \* this kernel's image
  bootinfo,   \* the table EntryPoint.s leaves at 0x7E00
  memmap,     \* gvstMemMap
  bootmem,    \* g_qwBootmemStart, Next, Limit and Frozen
  tables,     \* the kernel's page tables: name of a table -> its frame
  cr3,        \* the page tables in use: Kernel32's or the kernel's
  phase       \* how far boot has come

bootVars == <<firmware, kernelEnd, bootinfo, memmap, bootmem, tables, cr3, phase>>
vars == <<buddyVars, bootVars>>

Up(a) == (a + PageSize - 1) \div PageSize      \* PFN_UP
Down(a) == a \div PageSize                     \* PFN_DOWN
Frames(lo, hi) == Down(lo) .. Up(hi) - 1       \* every frame the range touches
MaxOf(a, b) == IF a > b THEN a ELSE b
End(e) == e.base + e.len
Usable(e) == e.type = "usable"
Advance(from, to) == phase = from /\ phase' = to
-----------------------------------------------------------------------------
(* EntryPoint.s drops answers of length zero and those whose ACPI 3.0      *)
(* attributes say to ignore them, and stops at MaxEntries.                 *)
Answers == {i \in DOMAIN firmware : firmware[i].size > 0 /\ ~firmware[i].ignore}

CollectE820 ==
  LET kept == Arranged(Answers, {pair \in Answers \X Answers : pair[1] < pair[2]}) IN
  /\ Advance("bios", "kernel32")
  /\ bootinfo' = [i \in 1 .. (IF Len(kept) < MaxEntries THEN Len(kept) ELSE MaxEntries) |->
                    LET a == firmware[kept[i]] IN [base |-> a.base, len |-> a.len, type |-> a.type]]
  /\ UNCHANGED <<buddyVars, firmware, kernelEnd, memmap, bootmem, tables, cr3>>

(* kCheckMemSizeOvr64MB looks at the highest end, not at the sum.          *)
BigEnough == \E i \in DOMAIN bootinfo : Usable(bootinfo[i]) /\ End(bootinfo[i]) >= MinTop

CoveredBy(seq, type) == UNION {seq[i].base .. End(seq[i]) - 1 : i \in {j \in DOMAIN seq : seq[j].type = type}}

CheckMemSize ==
  /\ Advance("kernel32", IF BigEnough THEN "area" ELSE "halt_memsize")
  /\ UNCHANGED <<buddyVars, firmware, kernelEnd, bootinfo, memmap, bootmem, tables, cr3>>

(* kInitKernel64Area writes zeros and reads them back: memory the firmware *)
(* does not call usable may or may not hold them.  Then the boot tables    *)
(* are built and the 64-bit kernel is copied.                              *)
InitKernel64Area ==
  /\ \/ Advance("area", "memmap")
     \/ /\ ~(Zeroed[1] .. Zeroed[2] - 1 \subseteq CoveredBy(bootinfo, "usable"))
        /\ Advance("area", "halt_area")
  /\ UNCHANGED <<buddyVars, firmware, kernelEnd, bootinfo, memmap, bootmem, tables, cr3>>
-----------------------------------------------------------------------------
(* Entries of length zero are not copied.  kSortMemMap is an insertion     *)
(* sort: entries with one base keep their order.                           *)
SortedMap(entries) ==
  LET copied == {i \in DOMAIN entries : entries[i].len > 0}
      before == {pair \in copied \X copied :
                   \/ entries[pair[1]].base < entries[pair[2]].base
                   \/ entries[pair[1]].base = entries[pair[2]].base /\ pair[1] < pair[2]}
  IN [i \in 1 .. Cardinality(copied) |-> entries[Arranged(copied, before)[i]]]

(* Faulty: a range inside the one before it cuts that one short.           *)
Absorb_Overwrites(map, e) ==
  IF map # <<>> /\ Last(map).type = e.type /\ e.base <= End(Last(map))
  THEN Front(map) \o <<[Last(map) EXCEPT !.len = End(e) - Last(map).base]>>
  ELSE Append(map, e)

(* Faulty: ranges that only touch stay apart.                              *)
Absorb_OverlapOnly(map, e) ==
  IF map # <<>> /\ Last(map).type = e.type /\ e.base < End(Last(map))
  THEN Front(map) \o <<[Last(map) EXCEPT !.len = MaxOf(End(Last(map)), End(e)) - Last(map).base]>>
  ELSE Append(map, e)

(* kMergeMemMap compares an entry with the last one kept, and only when    *)
(* both have one type.                                                     *)
Absorb(map, e) ==
  IF map # <<>> /\ Last(map).type = e.type /\ e.base <= End(Last(map))
  THEN LET end == MaxOf(End(Last(map)), End(e))
       IN Front(map) \o <<[Last(map) EXCEPT !.len = end - Last(map).base]>>
  ELSE Append(map, e)

Merged(entries) ==
  LET upto[i \in 0 .. Len(entries)] == IF i = 0 THEN <<>> ELSE Absorb(upto[i - 1], entries[i])
  IN upto[Len(entries)]

(* main() goes on when the map is empty; kInitializePhysicalMemory fails.  *)
InitializeMemoryMap ==
  /\ Advance("memmap", "pmm")
  /\ memmap' = Merged(SortedMap(bootinfo))
  /\ UNCHANGED <<buddyVars, firmware, kernelEnd, bootinfo, bootmem, tables, cr3>>

UsableEntries == {i \in DOMAIN memmap : Usable(memmap[i])}
HighestUsable ==
  IF UsableEntries = {} THEN 0
  ELSE CHOOSE top \in {End(memmap[i]) : i \in UsableEntries} :
         \A i \in UsableEntries : End(memmap[i]) <= top
-----------------------------------------------------------------------------
StaticLayoutTop == Up(MaxOf(kernelEnd, IstEnd)) * PageSize

(* The entry kInitializeBootmem finds: the first usable one around the top *)
(* of the static layout.                                                   *)
BootmemEntries == {i \in UsableEntries : memmap[i].base <= StaticLayoutTop /\ StaticLayoutTop < End(memmap[i])}
BootmemLimit ==
  LET i == CHOOSE i \in BootmemEntries : \A j \in BootmemEntries : i <= j
  IN Down(End(memmap[i])) * PageSize

InitializeBootmem ==
  IF BootmemEntries = {} THEN [start |-> 0, next |-> 0, limit |-> 0, frozen |-> TRUE]
  ELSE [start |-> StaticLayoutTop, next |-> StaticLayoutTop, limit |-> BootmemLimit, frozen |-> FALSE]

(* kBootmemAlloc hands out whole pages, or nothing.                        *)
BootmemHas(bm, size) == ~bm.frozen /\ size # 0 /\ bm.next + Up(size) * PageSize <= bm.limit
BootmemAlloc(bm, size) ==
  IF BootmemHas(bm, size) THEN [bm EXCEPT !.next = @ + Up(size) * PageSize] ELSE bm

(* mem_map has a page_t for every frame, the bitmap a bit.                 *)
BitmapSize(n) == (n + BitmapWord - 1) \div BitmapWord

(* What kReserveRange takes back.                                          *)
KernelFrames(bm) ==
  Frames(BootTables[1], BootTables[2]) \union Frames(KernelBase, kernelEnd)
    \union (UNION {Frames(r[1], r[2]) : r \in Fixed}) \union Frames(bm.start, bm.next)

UsableFrames == UNION {Up(memmap[i].base) .. Down(End(memmap[i])) - 1 : i \in UsableEntries}

InitializePhysicalMemory ==
  LET n == Up(HighestUsable)
      empty == InitializeBootmem
      withMap == BootmemAlloc(empty, n)
      full == BootmemAlloc(withMap, BitmapSize(n))
      placed == BootmemHas(empty, n) /\ BootmemHas(withMap, BitmapSize(n))
      taken == KernelFrames(full) \cap 0 .. n - 1
  IN
  \/ /\ placed
     /\ Advance("pmm", "paging")
     /\ bootmem' = [full EXCEPT !.frozen = TRUE]
     /\ TakeOver(n, (UsableFrames \cap 0 .. n - 1) \ taken, taken)
     /\ UNCHANGED <<firmware, kernelEnd, bootinfo, memmap, tables, cr3>>
  \/ /\ ~placed
     /\ Advance("pmm", "halt_pmm")
     /\ bootmem' = IF n = 0 THEN bootmem ELSE full
     /\ total' = IF n = 0 \/ empty.frozen THEN total ELSE n
     /\ UNCHANGED <<bitmap, reserved, buddy, order, area, freePages, held, refused>>
     /\ UNCHANGED <<firmware, kernelEnd, bootinfo, memmap, tables, cr3>>
-----------------------------------------------------------------------------
(* The page tables kInitializePaging asks frames for, in that order: the   *)
(* direct map of all memory up to the highest usable address, in large     *)
(* pages; the kernel's window; the table that gives the image its          *)
(* permissions; and the top level of the vmalloc range.                    *)
DirectTables == [k \in 1 .. (HighestUsable + PdSpan - 1) \div PdSpan |-> <<"direct pd", k>>]
VmallocTables == [k \in 1 .. VmallocSlots |-> <<"vmalloc pdpt", k>>]
BeforeImage == <<<<"pml4", 0>>, <<"direct pdpt", 0>>>> \o DirectTables \o
               <<<<"kernel pdpt", 0>>, <<"kernel pd", 0>>>>
Wanted == BeforeImage \o <<<<"image pt", 0>>>> \o VmallocTables
NextTable == Cardinality(DOMAIN tables) + 1

ImageFits == kernelEnd <= KernelBase + LargePage

(* kAllocPage, then kMemSet through the direct map of the boot tables: a   *)
(* frame above their window is not mapped and the store faults.            *)
BuildTable ==
  /\ phase = "paging" /\ NextTable <= Len(Wanted)
  /\ NextTable = Len(BeforeImage) + 1 => ImageFits
  /\ AllocPages(0)
  /\ \E f \in Pfn :
       /\ <<f, 0>> \in held' \ held
       /\ IF f * PageSize < Window
          THEN /\ tables' = [t \in DOMAIN tables \union {Wanted[NextTable]} |->
                               IF t = Wanted[NextTable] THEN f ELSE tables[t]]
               /\ phase' = phase
          ELSE tables' = tables /\ phase' = "faulted"
  /\ UNCHANGED <<firmware, kernelEnd, bootinfo, memmap, bootmem, cr3>>

NoFrameForTable ==
  /\ NextTable <= Len(Wanted)
  /\ NextTable = Len(BeforeImage) + 1 => ImageFits
  /\ AllocFails(0)
  /\ Advance("paging", "halt_paging")
  /\ UNCHANGED <<firmware, kernelEnd, bootinfo, memmap, bootmem, tables, cr3>>

(* kProtectKernelImage splits one large page and no more.                  *)
ImageTooLarge ==
  /\ NextTable = Len(BeforeImage) + 1 /\ ~ImageFits
  /\ Advance("paging", "halt_paging")
  /\ UNCHANGED <<buddyVars, firmware, kernelEnd, bootinfo, memmap, bootmem, tables, cr3>>

(* Faulty: the boot tables are given back while they are in use.           *)
SwitchTables_NotYet ==
  /\ NextTable > Len(Wanted)
  /\ Advance("paging", "unreserve")
  /\ UNCHANGED cr3
  /\ UNCHANGED <<buddyVars, firmware, kernelEnd, bootinfo, memmap, bootmem, tables>>

SwitchTables ==
  /\ NextTable > Len(Wanted)
  /\ Advance("paging", "unreserve")
  /\ cr3' = "kernel"
  /\ UNCHANGED <<buddyVars, firmware, kernelEnd, bootinfo, memmap, bootmem, tables>>

(* kUnreserveRange counts whole frames only.                               *)
BootTableFrames == Up(BootTables[1]) .. Down(BootTables[2]) - 1

UnreserveBootTables ==
  /\ Advance("unreserve", "running")
  /\ UnreserveRange(BootTableFrames \cap 0 .. total - 1)
  /\ UNCHANGED <<firmware, kernelEnd, bootinfo, memmap, bootmem, tables, cr3>>

(* The rest of the kernel allocates and frees; it keeps its page tables.   *)
Serve ==
  /\ phase = "running"
  /\ Calls({<<tables[t], 0>> : t \in DOMAIN tables})
  /\ UNCHANGED bootVars

Failed == {"halt_memsize", "halt_area", "halt_pmm", "halt_paging", "faulted"}

(* while(1), or the panic screen of the page fault handler.                *)
Stopped == phase \in Failed /\ UNCHANGED vars
-----------------------------------------------------------------------------
Init ==
  /\ NoFrames
  /\ firmware \in Firmwares /\ kernelEnd \in KernelEnds
  /\ bootinfo = <<>> /\ memmap = <<>> /\ tables = <<>>
  /\ bootmem = [start |-> 0, next |-> 0, limit |-> 0, frozen |-> TRUE]
  /\ cr3 = "boot" /\ phase = "bios"

Next ==
  \/ CollectE820 \/ CheckMemSize \/ InitKernel64Area
  \/ InitializeMemoryMap \/ InitializePhysicalMemory
  \/ BuildTable \/ NoFrameForTable \/ ImageTooLarge \/ SwitchTables \/ UnreserveBootTables
  \/ Serve \/ Stopped

Spec == Init /\ [][Next]_vars
-----------------------------------------------------------------------------
BootTypeOK ==
  /\ FramesTypeOK
  /\ phase \in Failed \union {"bios", "kernel32", "area", "memmap", "pmm", "paging", "unreserve", "running"}
  /\ \A i \in DOMAIN memmap : memmap[i].len > 0
  /\ DOMAIN tables \subseteq {Wanted[i] : i \in DOMAIN Wanted}

(* The free lists partition the free frames in every state from boot on,   *)
(* through the rebuild when boot memory comes back.  pmm.c:208, pmm.c:174  *)
ListsExact == BootTypeOK /\ FreeListsExact

(* Free neighbours are merged, and the order of a block outlives its use.  *)
(* pmm.c:385, slab.c:319                                                   *)
ListsUseful == FullyMerged /\ OrderRemembered

(* No address is claimed by two entries of different types.                *)
OneTypeEach ==
  \A i, j \in DOMAIN bootinfo :
    bootinfo[i].type # bootinfo[j].type =>
      (bootinfo[i].base .. End(bootinfo[i]) - 1) \cap (bootinfo[j].base .. End(bootinfo[j]) - 1) = {}

(* Sorting and merging lose and invent nothing: the map covers, type by    *)
(* type, exactly what the firmware's table covers, in ascending order; and *)
(* when the table is consistent no two entries could still be merged.      *)
(* (Nothing writes the map later.)  memmap.c:36, memmap.c:52               *)
MapFaithful ==
  phase = "pmm" =>
    /\ \A t \in {bootinfo[i].type : i \in DOMAIN bootinfo} : CoveredBy(memmap, t) = CoveredBy(bootinfo, t)
    /\ \A i, j \in DOMAIN memmap : i < j => memmap[i].base <= memmap[j].base
    /\ OneTypeEach => \A i, j \in DOMAIN memmap :
         i < j /\ memmap[i].type = memmap[j].type => End(memmap[i]) < memmap[j].base

(* A frame is free only if all of it is memory the firmware calls usable   *)
(* or held the boot page tables, and nothing lives in it: not the kernel's *)
(* image, stacks and tables, not mem_map and the bitmap, not the page      *)
(* tables in use.  pmm.c:133, paging.c:421                                 *)
FreeFramesAreUnused ==
  \A f \in bitmap :
    /\ \/ f \in BootTableFrames
       \/ \A a \in f * PageSize .. (f + 1) * PageSize - 1 :
            \E i \in DOMAIN bootinfo : Usable(bootinfo[i]) /\ bootinfo[i].base <= a /\ a < End(bootinfo[i])
    /\ f \notin Frames(KernelBase, kernelEnd) /\ f \notin Frames(bootmem.start, bootmem.next)
    /\ \A r \in Fixed : f \notin Frames(r[1], r[2])
    /\ cr3 = "boot" => f \notin Frames(BootTables[1], BootTables[2])
    /\ \A t \in DOMAIN tables : tables[t] # f

(* What a machine must have for the kernel to come up: usable memory where *)
(* the 32-bit kernel clears, an unbroken usable stretch for mem_map and    *)
(* the bitmap above the static layout, frames for the page tables, and no  *)
(* memory above the boot window.                                           *)
Machine == CoveredBy(bootinfo, "usable")
MachineTop == CHOOSE t \in {a + 1 : a \in Machine} : \A a \in Machine : a < t
Suffices ==
  /\ OneTypeEach /\ ImageFits
  /\ Machine # {} /\ MachineTop >= MinTop /\ MachineTop <= Window
  /\ Zeroed[1] .. Zeroed[2] - 1 \subseteq Machine
  /\ LET n == Up(MachineTop)
         need == (Up(n) + Up(BitmapSize(n))) * PageSize
         bm == [start |-> StaticLayoutTop, next |-> StaticLayoutTop + need]
         whole == {f \in 0 .. n - 1 : f * PageSize .. (f + 1) * PageSize - 1 \subseteq Machine}
     IN /\ bm.start .. bm.next - 1 \subseteq Machine
        /\ Cardinality(whole \ KernelFrames(bm)) >= Len(Wanted)

(* Such a machine boots, whatever the order, overlaps and partial pages in *)
(* its table.  main.c:88, main.c:101, bootmem.c:60                         *)
SufficientMachinesBoot == phase \in Failed => ~Suffices
=============================================================================
