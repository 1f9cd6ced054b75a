------------------------------ MODULE MCMemory ------------------------------
(***************************************************************************)
(* The memory and the descriptors of a sandbox, for TLC: the memory map    *)
(* and the host's pages under five applications, the descriptor table      *)
(* under two threads (Desc) and when it grows (Grow), and the sorted       *)
(* array of dynamic code regions (Regions).  Memory, descriptors and       *)
(* regions share no state; subject names what a behaviour is about, and    *)
(* what it is not about stays where it starts.                             *)
(***************************************************************************)
EXTENDS AddressSpace, TLC

CONSTANTS
    Objects, Loner,
    BitsPerWord, NULL,
    MaxAddr, MaxSize, Cutoff, MinAllocated

VARIABLES
    subject,
    desc_tbl, ref_count, live, mapped, call, descAborted,
    dynamic_regions, dynamic_regions_allocated

R == {"R"}

(* mmap, munmap and mprotect of anonymous, private and shared pages; the   *)
(* file ends inside a page.                                                *)
Maps ==
    [calls |-> {"mmap", "munmap", "mprotect"}, starts |-> {0, 6, 8},
     lengths |-> {1, 6}, prots |-> {R, RW},
     kinds |-> {"anon", "private", "shared"}, offsets |-> {0},
     file_size |-> 11, breaks |-> {}, failures |-> {"map", "munmap"},
     max_calls |-> 3]

(* Holes of many shapes.                                                   *)
Search ==
    [calls |-> {"mmap", "munmap"}, starts |-> {0, 4, 7, 8, 10},
     lengths |-> {1, 4}, prots |-> {RW}, kinds |-> {"anon"}, offsets |-> {0},
     file_size |-> 11, breaks |-> {}, failures |-> {"map", "munmap"},
     max_calls |-> 4]

(* I/O while another thread changes the map; the file covers every map.    *)
Io ==
    [calls |-> {"mmap", "munmap", "mprotect", "io"}, starts |-> {0, 4, 6},
     lengths |-> {2, 4}, prots |-> {R, RW}, kinds |-> {"anon", "private"},
     offsets |-> {0}, file_size |-> 32, breaks |-> {},
     failures |-> {"map", "munmap"}, max_calls |-> 2]

(* The break goes up and down while pages are mapped in its way.           *)
Brk ==
    [calls |-> {"mmap", "munmap", "brk"}, starts |-> {0, 8, 10},
     lengths |-> {2, 4}, prots |-> {RW}, kinds |-> {"anon"}, offsets |-> {0},
     file_size |-> 11, breaks |-> {24, 28, 30, 33, 40, 41, 47, 49, 56},
     failures |-> {"map", "munmap"}, max_calls |-> 5]

(* Empty lengths, and an mmap whose last part fails.                       *)
Odd ==
    [calls |-> {"mmap", "munmap", "mprotect"}, starts |-> {0, 6, 8},
     lengths |-> {0, 1, 6}, prots |-> {R, RW}, kinds |-> {"anon", "private"},
     offsets |-> {0, 8}, file_size |-> 11, breaks |-> {},
     failures |-> {"map", "munmap", "tail"}, max_calls |-> 2]

(* Two threads with three numbers.                                         *)
Desc == INSTANCE DescTable WITH
    InitialSpace <- 2, NACL_MAX_FD <- 3, MaxOpen <- 3, MaxGet <- 1,
    MaxReceived <- 2, MaxMapped <- 1, aborted <- descAborted

(* One thread with numbers enough for the table to grow twice.             *)
Grow == INSTANCE DescTable WITH
    Threads <- {Loner}, InitialSpace <- 2, NACL_MAX_FD <- 5, MaxOpen <- 5,
    MaxGet <- 1, MaxReceived <- 2, MaxMapped <- 1, aborted <- descAborted

Regions == INSTANCE DynamicRegions

ASSUME MCMemoryAssumption ==
    /\ UnitAssumption /\ LayoutAssumption
    /\ Desc!DescTableAssumption /\ Desc!DynArrayAssumption
    /\ Grow!DescTableAssumption
    /\ Regions!RegionsAssumption

descVars == <<desc_tbl, ref_count, live, mapped, call, descAborted>>
regionVars == <<dynamic_regions, dynamic_regions_allocated>>
memoryVars == <<subject, vars, descVars, regionVars>>

MemoryInit ==
    /\ subject \in {"memory", "desc", "grow", "regions"}
    /\ app \in IF subject = "memory" THEN {Maps, Search, Io, Brk, Odd} ELSE {Maps}
    /\ Init
    /\ IF subject = "grow" THEN Grow!Init ELSE Desc!Init
    /\ Regions!Init

MemoryNext ==
    \/ /\ subject = "memory" /\ Next
       /\ UNCHANGED <<subject, descVars, regionVars>>
    \/ /\ subject = "desc" /\ Desc!Next
       /\ UNCHANGED <<subject, vars, regionVars>>
    \/ /\ subject = "grow" /\ Grow!Next
       /\ UNCHANGED <<subject, vars, regionVars>>
    \/ /\ subject = "regions" /\ Regions!Next
       /\ UNCHANGED <<subject, vars, descVars>>

MemorySpec == MemoryInit /\ [][MemoryNext]_memoryVars

(* Threads are interchangeable, and so are descriptor objects.             *)
Symmetry == Permutations(Threads) \cup Permutations(Objects)

-----------------------------------------------------------------------------
(* The memory map and the host's pages (sel_mem.c, sys_memory.c): entries  *)
(* do not overlap, whatever was split, cut, covered or grown, and          *)
(* trampolines, text and the zero pages stay as the loader left them.      *)
(* Unless a failure of the host can leave an mmap halfway, a page of a     *)
(* shared mapping never gains an access that its descriptor was not opened *)
(* for, and the map tells the truth about the host's pages, where brk      *)
(* grows a heap that is readable and writable throughout.  The CHECKs of   *)
(* MprotectInternal hold for every length but 0, and the memset of         *)
(* NaClSysBrk does not fault among anonymous pages that can be written.    *)
MapAgreesWithHost ==
    subject = "memory" =>
      /\ TypeOK /\ NoOverlap /\ TextIntact
      /\ "tail" \notin app.failures => SharedWithinMode
      /\ "tail" \notin app.failures
           /\ ("brk" \in app.calls => app.prots \subseteq {RW}) => HostAgrees
      /\ 0 \notin app.lengths => ChecksHold
      /\ app.kinds \subseteq {"anon"} /\ app.prots \subseteq {RW}
           => BrkZeroesWritable

(* NaClVmmapFindMapSpace finds the highest free run of pages and           *)
(* NaClVmmapFindMapSpaceAboveHint the lowest above the hint, for every     *)
(* length, and both find one if there is any (sel_mem.c).                  *)
SpaceFound == subject = "memory" /\ app = Search => SearchesAnswer

(* NaClDynamicRegionFind finds the last region that overlaps a range, in   *)
(* an array that stays sorted and disjoint and has room, however regions   *)
(* come and go (nacl_text.c).                                              *)
RegionFound ==
    subject = "regions" => /\ Regions!TypeOK
                           /\ Regions!RegionsOrdered
                           /\ Regions!FindFindsLast

(* Without MAP_FIXED, mmap never takes a page that was in use, unless an   *)
(* earlier one was left halfway; and memory that a system call in progress *)
(* reads or writes is not replaced or protected under it by another        *)
(* thread, if files cover what is mapped: the process is aborted first.    *)
PagesStable ==
    [][subject = "memory" =>
         /\ "tail" \notin app.failures => TakesFreeSpace
         /\ FilesCover => IoUndisturbed]_memoryVars

(* The descriptor table implements FdTable: the lowest free number is      *)
(* given out, no other number changes, and nothing open is destroyed,      *)
(* whatever calls of two threads overlap, fail halfway or make it grow     *)
(* (sel_ldr.c, dyn_array.c, sys_fdio.c, sys_imc.c).  The reference count   *)
(* of a descriptor is exactly the number of table entries, memory map      *)
(* entries and running calls that hold it, and bits, count and hint of the *)
(* table say which numbers are open.                                       *)
DescriptorsImplementFdTable ==
    /\ subject = "desc" => Desc!Abstract!Init
    /\ subject = "grow" => Grow!Abstract!Init
    /\ [](/\ subject = "desc" =>
               Desc!TypeOK /\ Desc!RefsExact /\ Desc!TableConsistent
          /\ subject = "grow" =>
               Grow!TypeOK /\ Grow!RefsExact /\ Grow!TableConsistent)
    /\ [][/\ subject = "desc" => Desc!AbstractUnchanged \/ Desc!Abstract!Next
          /\ subject = "grow" => Grow!AbstractUnchanged \/ Grow!Abstract!Next
         ]_memoryVars
=============================================================================
