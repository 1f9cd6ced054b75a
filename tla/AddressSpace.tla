---------------------------- MODULE AddressSpace ----------------------------
(***************************************************************************)
(* The memory system calls of a sandbox (sys_memory.c: brk, mmap, munmap   *)
(* and mprotect, the Linux code), the memory map they keep (VmMap), the    *)
(* host's own page table, and the register of system calls that read or    *)
(* write untrusted memory meanwhile (NaClVmIoWillStart, NaClVmIoHasEnded). *)
(*                                                                         *)
(* The memory calls hold nap->mu from their first look at shared state to  *)
(* their end, so each is one step; I/O runs without the lock and is two.   *)
(* A call with an error result leaves everything alone.  The application   *)
(* has one file to map; code mappings (PROT_EXEC) are in DynamicCode.      *)
(***************************************************************************)
EXTENDS VmMap

CONSTANTS Threads,      \* threads that do I/O
          NumPages,     \* 4K pages of the address space
          StaticTextEnd,\* static_text_end, in pages
          TextEnd,      \* dynamic_text_end, in pages
          DataStart,    \* first page of the data segment
          DataEnd,      \* data_end, in pages: the first break
          StackStart,   \* first page of the stack
          File,         \* the descriptor
          FileMode      \* protections its access mode allows

LayoutAssumption ==
    /\ {NumPages, StaticTextEnd, TextEnd, DataStart, DataEnd, StackStart}
          \subseteq Nat
    /\ 1 < StaticTextEnd /\ StaticTextEnd <= TextEnd
    /\ TextEnd <= DataStart /\ DataStart < DataEnd
    /\ DataEnd <= StackStart /\ StackStart < NumPages
    /\ {TextEnd, DataStart, StackStart, NumPages}
          \subseteq {k * MapPages : k \in 0..NumPages}
    /\ File # NoDesc

VARIABLES app,          \* what the application and the host do
          mem_map,      \* nap->mem_map
          host,         \* the host's page table
          break_addr,   \* nap->break_addr, in bytes
          io,           \* nap->mem_io_regions: the region each thread is in
          aborted,      \* why the process has ended, or "no"
          last,         \* the last call
          calls         \* memory calls made

vars == <<app, mem_map, host, break_addr, io, aborted, last, calls>>

(***************************************************************************)
(* An application: the system calls it makes, the pages, lengths (in       *)
(* pages), protections, kinds of mapping, file offsets and break addresses *)
(* (in bytes) it names, the size of its file in bytes, the host calls that *)
(* may fail, and how many memory calls there are.                          *)
(***************************************************************************)
Bits == {"R", "W", "X"}

AppOK ==
    /\ app.calls \subseteq {"mmap", "munmap", "mprotect", "brk", "io"}
    /\ app.starts \subseteq Nat /\ app.lengths \subseteq Nat
    /\ app.offsets \subseteq Nat /\ app.breaks \subseteq Nat
    /\ app.prots \subseteq SUBSET Bits
    /\ app.kinds \subseteq {"anon", "private", "shared"}
    /\ app.file_size \in Nat
    /\ app.failures \subseteq {"map", "munmap", "tail"}
    /\ app.max_calls \in Nat

AddrSpace == 0 .. NumPages - 1
Region(first, npages) == first .. first + npages - 1

(* A page of the host: its protection and what it shows.                   *)
HostPage(prot, desc, offset) == [prot |-> prot, desc |-> desc, offset |-> offset]
Anon(prot)   == HostPage(prot, NoDesc, 0)
Inaccessible == Anon(None)
NoIo         == <<>>

(***************************************************************************)
(* NaClMemoryProtection and the loader: the zero pages, trampolines and    *)
(* static text, data up to the break, and the stack at the top.  There is  *)
(* no dynamic text and no read-only data.                                  *)
(***************************************************************************)
InitialEntries ==
    LET entry(first, end, prot) ==
          NaClVmmapEntryMake(first, end - first, prot, "private", NoDesc, 0, 0)
    IN  <<entry(0, 1, None), entry(1, StaticTextEnd, {"R", "X"}),
          entry(DataStart, NaClRoundPageNumUpToMapMultiple(DataEnd), RW),
          entry(StackStart, NumPages, RW)>>

Covering(m, p) == {i \in DOMAIN m.vmentry : p \in Pages(m.vmentry[i])}
Covered(m, p)  == Covering(m, p) # {}
EntryOf(m, p)  == m.vmentry[CHOOSE i \in Covering(m, p) : TRUE]

NothingCalled == [call |-> "none", page |-> 0, npages |-> 0]
Call(call, page, npages) == [call |-> call, page |-> page, npages |-> npages]

InitialMap == [vmentry |-> InitialEntries, is_sorted |-> FALSE]
InitialHost ==
    [p \in AddrSpace |->
       IF Covered(InitialMap, p) THEN Anon(EntryOf(InitialMap, p).prot)
       ELSE Inaccessible]

Init ==
    /\ AppOK
    /\ mem_map = InitialMap
    /\ host = InitialHost
    /\ break_addr = DataEnd * PageBytes
    /\ io = [t \in Threads |-> NoIo]
    /\ aborted = "no"
    /\ last = NothingCalled
    /\ calls = 0

(***************************************************************************)
(* What calls have in common.                                              *)
(***************************************************************************)
MayCall(call) == call \in app.calls /\ aborted = "no" /\ calls < app.max_calls

Refuse ==
    /\ last' = NothingCalled
    /\ calls' = calls + 1
    /\ UNCHANGED <<mem_map, host, break_addr, io, aborted>>

Abort(why) ==
    /\ aborted' = why
    /\ last' = NothingCalled
    /\ calls' = calls + 1
    /\ UNCHANGED <<mem_map, host, break_addr, io>>

Done(call, m, h) ==
    /\ mem_map' = m
    /\ host' = h
    /\ last' = call
    /\ calls' = calls + 1
    /\ UNCHANGED <<break_addr, io, aborted>>

(* NaClSysCommonAddrRangeContainsExecutablePages.                          *)
ContainsExecutablePages(page) ==
    NaClTruncPageNumDownToMapMultiple(page) < TextEnd

(* NaClUserToSysAddrRange # kNaClBadAddress.                               *)
InUserRange(page, npages) == page # 0 /\ page + npages <= NumPages

(* NaClIntervalListMultisetOverlapsWith, first and last page included.     *)
NaClVmIoPending(first, final) ==
    \E t \in Threads : /\ io[t] # NoIo
                       /\ io[t][1] <= final
                       /\ first <= io[t][2]

(***************************************************************************)
(* mmap.  The call [start, npages, fixed, prot, kind, offset] is refused   *)
(* before the lock is taken, or chooses a page and goes on with it.        *)
(***************************************************************************)
MmapCall ==
    {c \in [start : app.starts, npages : app.lengths, fixed : BOOLEAN, prot : app.prots,
            kind : app.kinds, offset : app.offsets] : c.kind = "anon" => c.offset = 0}

DescOf(c) == IF c.kind = "anon" THEN NoDesc ELSE File

MmapInvalid(c) ==
    \/ c.fixed /\ c.start % MapPages # 0
    \/ c.offset % (MapPages * PageBytes) # 0
    \/ c.npages = 0
    \/ DescOf(c) = File /\ app.file_size < c.offset

MmapPage(c) ==
    LET hint   == NaClTruncPageNumDownToMapMultiple(c.start)
        any    == NaClVmmapFindMapSpace(mem_map, c.npages)
        hinted == NaClVmmapFindMapSpaceAboveHint(mem_map, hint, c.npages)
    IN  IF c.fixed THEN c.start
        ELSE IF hint # 0 /\ hinted # 0 THEN hinted ELSE any

(* alloc_rounded_length, and length: what of it the file has pages for.    *)
Rounded(npages) == NaClRoundPageNumUpToMapMultiple(npages)
FilePages(c) ==
    IF DescOf(c) = NoDesc THEN Rounded(c.npages)
    ELSE Min({Rounded(c.npages), NaClBytesToPages(app.file_size - c.offset)})

(* Mutant: the text is not protected.                                      *)
MmapPageBadNoText(c, page) ==
    \/ ~c.fixed /\ page = 0
    \/ page >= NumPages
    \/ page + Rounded(c.npages) > NumPages

MmapPageBad(c, page) ==
    \/ ~c.fixed /\ page = 0
    \/ page >= NumPages
    \/ page + Rounded(c.npages) > NumPages
    \/ ContainsExecutablePages(page)

(* The host's mmap refuses a writable shared view of a file opened for     *)
(* reading, and may fail.                                                  *)
MapFails(c) ==
    /\ FilePages(c) > 0
    /\ \/ "map" \in app.failures
       \/ c.kind = "shared" /\ ~(c.prot \subseteq FileMode)
MapSucceeds(c) ==
    FilePages(c) = 0 \/ c.kind # "shared" \/ c.prot \subseteq FileMode

Mapped(h, c, page) ==
    [p \in AddrSpace |->
       IF p \in Region(page, FilePages(c))
       THEN IF DescOf(c) = NoDesc THEN Anon(c.prot)
            ELSE HostPage(c.prot, File, c.offset + (p - page) * PageBytes)
       ELSE h[p]]
Unmapped(h, first, npages) ==
    [p \in AddrSpace |->
       IF p \in Region(first, npages) THEN Inaccessible ELSE h[p]]

NewEntry(c, page) ==
    NaClVmmapEntryMake(page, Rounded(c.npages), c.prot,
                       IF c.kind = "shared" THEN "shared" ELSE "private",
                       DescOf(c), c.offset,
                       IF DescOf(c) = NoDesc THEN 0 ELSE app.file_size)

(* The tail [length, alloc_rounded_length) is unmapped, in the host and in *)
(* the map, before the whole region is entered.                            *)
MmapDone(c, page) ==
    LET mapped == FilePages(c)
        rest   == Rounded(c.npages) - mapped
        m      == IF rest > 0
                  THEN NaClVmmapRemove(mem_map, page + mapped, rest)
                  ELSE mem_map
    IN  Done(Call(IF c.fixed THEN "mmap fixed" ELSE "mmap", page,
                  Rounded(c.npages)),
             NaClVmmapAddWithOverwrite(m, NewEntry(c, page)),
             Unmapped(Mapped(host, c, page), page + mapped, rest))

(* MunmapInternal fails for the tail: the file's pages are mapped already. *)
MmapTailFails(c, page) ==
    /\ "tail" \in app.failures
    /\ FilePages(c) < Rounded(c.npages)
    /\ Done(NothingCalled, mem_map, Mapped(host, c, page))

(* Mutant: no test for pending I/O.                                        *)
MmapAtNoIoCheck(c, page) ==
    \/ MmapPageBad(c, page) /\ Refuse
    \/ ~MmapPageBad(c, page) /\ MapSucceeds(c) /\ MmapDone(c, page)

MmapAt(c, page) ==
    LET pending == NaClVmIoPending(page, page + FilePages(c) - 1)
    IN  \/ MmapPageBad(c, page) /\ Refuse
        \/ ~MmapPageBad(c, page) /\ pending /\ Abort("io race")
        \/ /\ ~MmapPageBad(c, page) /\ ~pending
           /\ \/ MapFails(c) /\ Refuse
              \/ MapSucceeds(c) /\ (MmapDone(c, page) \/ MmapTailFails(c, page))

NaClSysMmap(c) ==
    /\ MayCall("mmap")
    /\ \/ MmapInvalid(c) /\ Refuse
       \/ ~MmapInvalid(c) /\ MmapAt(c, MmapPage(c))

(***************************************************************************)
(* munmap: the pages are replaced by inaccessible ones and leave the map.  *)
(***************************************************************************)
NaClSysMunmap(start, npages) ==
    LET n       == Rounded(npages)
        invalid == \/ start % MapPages # 0
                   \/ n = 0
                   \/ ~InUserRange(start, n)
                   \/ ContainsExecutablePages(start)
        pending == NaClVmIoPending(start, start + n - 1)
    IN  /\ MayCall("munmap")
        /\ \/ invalid /\ Refuse
           \/ ~invalid /\ pending /\ Abort("io race")
           \/ ~invalid /\ ~pending /\ "munmap" \in app.failures /\ Refuse
           \/ /\ ~invalid /\ ~pending
              /\ Done(Call("munmap", start, n),
                      NaClVmmapRemove(mem_map, start, n),
                      Unmapped(host, start, n))

(***************************************************************************)
(* mprotect.  MprotectInternal walks the entries of the region, which the  *)
(* map has cut to it, and gives the host's pages of each the protection:   *)
(* all of an anonymous entry, and of a file's entry the pages that         *)
(* file_size - offset bytes take.                                          *)
(***************************************************************************)
ProtPages(e) ==
    IF e.desc = NoDesc THEN e.npages
    ELSE IF e.offset < e.file_size
         THEN Min({NaClBytesToPages(e.file_size - e.offset), e.npages})
         ELSE 0

Walked(m, start, end) ==
    LET v == NaClVmmapMakeSorted(m).vmentry
    IN  {v[i] : i \in {j \in NaClVmmapFindPageIter(m, start) .. Len(v) :
                         v[j].page_num < end}}

Protected(h, entries, prot) ==
    [p \in AddrSpace |->
       IF \E e \in entries : p \in Region(e.page_num, ProtPages(e))
       THEN [h[p] EXCEPT !.prot = prot]
       ELSE h[p]]

(* The CHECKs before and after the walk.  Without an entry to walk, the    *)
(* last one compared is the entry the iterator started at, which goes on   *)
(* past an empty region.                                                   *)
ChecksPass(m, start, end) ==
    LET entries == Walked(m, start, end)
    IN  /\ \E e \in entries : e.page_num = start
        /\ \E e \in entries : EndPage(e) = end
        /\ \A e \in entries : start <= e.page_num /\ EndPage(e) <= end

NaClSysMprotect(start, npages, prot) ==
    LET n       == Rounded(npages)
        invalid == \/ start % MapPages # 0
                   \/ ~InUserRange(start, n)
                   \/ ContainsExecutablePages(start)
                   \/ ~NaClVmmapCheckExistingMapping(mem_map, start, n, prot,
                                                     FileMode)
        m       == ChangeProt(mem_map, start, n, prot)
        pending == NaClVmIoPending(start, start + n - 1)
    IN  /\ MayCall("mprotect")
        /\ \/ invalid /\ Refuse
           \/ ~invalid /\ pending /\ Abort("io race")
           \/ ~invalid /\ ~pending /\ ~ChecksPass(m, start, start + n)
              /\ Abort("check")
           \/ /\ ~invalid /\ ~pending /\ ChecksPass(m, start, start + n)
              /\ Done(Call("mprotect", start, n), NaClVmmapMakeSorted(m),
                      Protected(host, Walked(m, start, start + n), prot))

(***************************************************************************)
(* brk.  Below the break only break_addr moves; above it, the entry that   *)
(* holds the last byte before the break grows in place, unless it runs     *)
(* into the next one, and the memory in between is zeroed.                 *)
(***************************************************************************)
BreakPage(addr) == (addr - 1) \div PageBytes

BrkEnd(addr) == NaClRoundPageNumUpToMapMultiple(NaClBytesToPages(addr))

Zeroes(h, from, to) ==
    IF \A p \in from \div PageBytes .. BreakPage(to) : "W" \in h[p].prot
    THEN "no" ELSE "fault"

(* Mutant: the new pages of the heap are not made accessible.              *)
GrownUnprotected(h, first, end) == h

Grown(h, first, end) ==
    [p \in AddrSpace |->
       IF p \in first .. end - 1 THEN [h[p] EXCEPT !.prot = RW] ELSE h[p]]

RunsIntoNext(v, i, end) == i < Len(v) /\ v[i + 1].page_num < end

BrkTo(addr, m, h) ==
    /\ break_addr' = addr
    /\ mem_map' = m
    /\ host' = h
    /\ last' = Call("brk", BreakPage(addr), 0)
    /\ calls' = calls + 1
    /\ UNCHANGED io

BrkGrow(addr) ==
    LET m    == NaClVmmapMakeSorted(mem_map)
        v    == m.vmentry
        i    == NaClVmmapFindPageIter(mem_map, BreakPage(break_addr))
        end  == BrkEnd(addr)
        grown == Grown(host, EndPage(v[i]), end)
    IN  \/ i > Len(v) /\ Abort("break")
        \/ /\ i <= Len(v) /\ BreakPage(addr) < EndPage(v[i])
           /\ BrkTo(addr, m, host)
           /\ aborted' = Zeroes(host, break_addr, addr)
        \/ /\ i <= Len(v) /\ BreakPage(addr) >= EndPage(v[i])
           /\ RunsIntoNext(v, i, end)
           /\ Refuse
        \/ /\ i <= Len(v) /\ BreakPage(addr) >= EndPage(v[i])
           /\ ~RunsIntoNext(v, i, end)
           /\ BrkTo(addr, [m EXCEPT !.vmentry[i].npages = end - v[i].page_num],
                    grown)
           /\ aborted' = Zeroes(grown, break_addr, addr)

NaClSysBrk(addr) ==
    /\ MayCall("brk")
    /\ \/ addr \div PageBytes >= NumPages /\ Refuse
       \/ addr < DataEnd * PageBytes /\ Refuse
       \/ /\ DataEnd * PageBytes <= addr /\ addr <= break_addr
          /\ BrkTo(addr, mem_map, host)
          /\ UNCHANGED aborted
       \/ /\ break_addr < addr /\ addr \div PageBytes < NumPages
          /\ BrkGrow(addr)

(***************************************************************************)
(* I/O straight to or from untrusted memory: read, write, pread, pwrite,   *)
(* the IMC calls and getrandom.  The region is a user range; whether it is *)
(* mapped is the host's concern.                                           *)
(***************************************************************************)
NaClVmIoWillStart(t, first, npages) ==
    /\ "io" \in app.calls /\ aborted = "no" /\ io[t] = NoIo
    /\ InUserRange(first, npages) /\ npages > 0
    /\ io' = [io EXCEPT ![t] = <<first, first + npages - 1>>]
    /\ last' = NothingCalled
    /\ UNCHANGED <<mem_map, host, break_addr, aborted, calls>>

NaClVmIoHasEnded(t) ==
    /\ aborted = "no" /\ io[t] # NoIo
    /\ io' = [io EXCEPT ![t] = NoIo]
    /\ last' = NothingCalled
    /\ UNCHANGED <<mem_map, host, break_addr, aborted, calls>>

Next ==
    /\ UNCHANGED app
    /\ \/ \E c \in MmapCall : NaClSysMmap(c)
       \/ \E start \in app.starts, npages \in app.lengths :
             NaClSysMunmap(start, npages)
       \/ \E start \in app.starts, npages \in app.lengths, prot \in app.prots :
             NaClSysMprotect(start, npages, prot)
       \/ \E addr \in app.breaks : NaClSysBrk(addr)
       \/ \E t \in Threads, first \in app.starts, npages \in app.lengths :
             NaClVmIoWillStart(t, first, npages)
       \/ \E t \in Threads : NaClVmIoHasEnded(t)

Spec == Init /\ [][Next]_vars

-----------------------------------------------------------------------------
(***************************************************************************)
(* The variables have their types.                                         *)
(***************************************************************************)
EntryType ==
    [page_num : AddrSpace, npages : 1..NumPages, prot : SUBSET Bits,
     flags : {"private", "shared"}, removed : {FALSE}, desc : {NoDesc, File},
     offset : Nat, file_size : Nat]

TypeOK ==
    /\ \A i \in DOMAIN mem_map.vmentry : mem_map.vmentry[i] \in EntryType
    /\ mem_map.is_sorted \in BOOLEAN
    /\ \A p \in AddrSpace : /\ host[p].prot \subseteq Bits
                            /\ host[p].desc \in {NoDesc, File}
    /\ break_addr \in DataEnd * PageBytes .. NumPages * PageBytes
    /\ \A t \in Threads : io[t] = NoIo \/ io[t] \in AddrSpace \X AddrSpace
    /\ aborted \in {"no", "io race", "check", "break", "fault"}
    /\ calls \in 0..app.max_calls

(***************************************************************************)
(* The entries of the map do not overlap (sel_mem.h: "must not overlap"),  *)
(* whatever was split, cut, covered or grown.                              *)
(***************************************************************************)
NoOverlap == \A p \in AddrSpace : Cardinality(Covering(mem_map, p)) <= 1

(***************************************************************************)
(* The map tells the truth about the host's pages: a page outside every    *)
(* entry is inaccessible; a page of an entry shows the entry's descriptor  *)
(* with the entry's protection, or lies past the end of the file.  What a  *)
(* process leaves behind when it is aborted does not count.                *)
(***************************************************************************)
HostAgrees ==
    aborted = "no" => \A p \in AddrSpace :
       IF Covered(mem_map, p)
       THEN LET e == EntryOf(mem_map, p)
            IN  \/ host[p].desc = e.desc /\ host[p].prot = e.prot
                \/ e.desc = File /\ host[p].desc = NoDesc
       ELSE host[p] = Inaccessible

(***************************************************************************)
(* The CHECKs of MprotectInternal hold: once ChangeProt has run, the       *)
(* region starts and ends with an entry.                                   *)
(***************************************************************************)
ChecksHold == aborted # "check"

(***************************************************************************)
(* The searches return what they promise, for every length and hint: the   *)
(* highest free run of whole units between two entries, or the lowest one  *)
(* at or above the hint, and 0 only when there is none.                    *)
(***************************************************************************)
FreeRuns(npages) ==
    {p \in AddrSpace :
       /\ p % MapPages = 0
       /\ \A q \in Region(p, Rounded(npages)) :
             q \in AddrSpace /\ ~Covered(mem_map, q)
       /\ \E q \in p..NumPages - 1 : Covered(mem_map, q)}

SearchesAnswer ==
    \A n \in 1..NumPages :
       /\ NaClVmmapFindMapSpace(mem_map, n) = Max(FreeRuns(n) \cup {0})
       /\ \A unit \in 1 .. (NumPages \div MapPages) - 1 :
             LET hint  == unit * MapPages
                 above == {p \in FreeRuns(n) : p >= hint}
             IN  NaClVmmapFindMapSpaceAboveHint(mem_map, hint, n)
                   = IF above = {} THEN 0 ELSE Min(above)

(***************************************************************************)
(* Without MAP_FIXED, mmap never takes a page that was in use, and returns *)
(* whole units inside the address space.                                   *)
(***************************************************************************)
TakesFreeSpace ==
    last'.call = "mmap" =>
      /\ last'.page % MapPages = 0
      /\ \A p \in Region(last'.page, last'.npages) :
            p \in AddrSpace /\ host[p] = Inaccessible
                            /\ ~Covered(mem_map, p)

MmapTakesFreeSpace == [][TakesFreeSpace]_vars

(***************************************************************************)
(* Trampolines, text and the zero pages stay as the loader left them.      *)
(***************************************************************************)
TextIntact == \A p \in 0 .. TextEnd - 1 : host[p] = InitialHost[p]

(***************************************************************************)
(* A page of a shared mapping never gains an access that the descriptor    *)
(* was not opened for, by mmap or by mprotect later on, through any split. *)
(***************************************************************************)
SharedWithinMode ==
    \A p \in AddrSpace :
       Covered(mem_map, p) /\ EntryOf(mem_map, p).flags = "shared"
         /\ host[p].desc = File
           => host[p].prot \subseteq FileMode

(***************************************************************************)
(* Memory that a system call in progress reads or writes is not replaced   *)
(* or protected under it: the process is aborted instead.  This is so when *)
(* the file covers every map: mmap looks for pending I/O in the pages that *)
(* the file has, and not in the rest that it unmaps.                       *)
(***************************************************************************)
FilesCover ==
    \A c \in MmapCall : ~MmapInvalid(c) => FilePages(c) = Rounded(c.npages)

IoUndisturbed ==
    \A t \in Threads :
      io[t] # NoIo /\ io'[t] = io[t] =>
        \A p \in io[t][1] .. io[t][2] :
           Covered(mem_map, p) => host'[p] = host[p]

IoStable == [][IoUndisturbed]_vars

(***************************************************************************)
(* The memory that brk zeroes between the old and the new break can be     *)
(* written: the memset of the service runtime does not fault.              *)
(***************************************************************************)
BrkZeroesWritable == aborted # "fault"

=============================================================================
