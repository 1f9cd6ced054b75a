------------------------------- MODULE VmMap -------------------------------
(***************************************************************************)
(* The memory map of a sandbox (struct NaClVmmap, sel_mem.c): an array of  *)
(* entries, each a run of 4K pages with its protection, flags, backing     *)
(* descriptor and offset into it.  A map is a record: vmentry, the array   *)
(* up to nvalid in the order the code leaves it in, and is_sorted.         *)
(* Reallocation of the array is left out: it changes no entry.             *)
(*                                                                         *)
(* Page numbers count 4K pages; offset and file_size are in bytes, with    *)
(* PageBytes bytes to a page, so that a page count used for a byte count   *)
(* shows.  MapPages is NACL_PAGES_PER_MAP.                                 *)
(***************************************************************************)
EXTENDS Integers, Sequences, FiniteSetsExt

CONSTANTS MapPages,     \* 4K pages in an allocation unit
          PageBytes,    \* bytes in a page
          NoDesc        \* desc == NULL

UnitAssumption == MapPages \in Nat \ {0} /\ PageBytes \in Nat \ {0}

(* Protections are sets of bits; NONE is the empty set.                    *)
None == {}
RW   == {"R", "W"}

(***************************************************************************)
(* Rounding of page numbers and byte counts.                               *)
(***************************************************************************)
NaClTruncPageNumDownToMapMultiple(p) == p - (p % MapPages)
NaClRoundPageNumUpToMapMultiple(p) ==
    NaClTruncPageNumDownToMapMultiple(p + MapPages - 1)
NaClBytesToPages(bytes) == (bytes + PageBytes - 1) \div PageBytes

EndPage(e) == e.page_num + e.npages
Pages(e) == e.page_num .. EndPage(e) - 1

NaClVmmapEntryMake(page_num, npages, prot, flags, desc, offset, file_size) ==
    [page_num |-> page_num, npages |-> npages, prot |-> prot, flags |-> flags,
     removed |-> FALSE, desc |-> desc, offset |-> offset,
     file_size |-> file_size]

NaClVmmapAdd(m, e) ==
    [vmentry |-> Append(m.vmentry, e), is_sorted |-> FALSE]

(***************************************************************************)
(* Removal of the marked entries: the array is cut to the number of        *)
(* entries that stay, and a marked entry inside that part, a hole, is      *)
(* replaced by an entry of the part cut off: the first hole by the last of *)
(* them, and so on.                                                        *)
(***************************************************************************)
NaClVmmapRemoveMarked(m) ==
    LET v      == m.vmentry
        stay   == Cardinality({i \in DOMAIN v : ~v[i].removed})
        holes  == {i \in 1..stay : v[i].removed}
        movers == {i \in stay + 1..Len(v) : ~v[i].removed}
        from(i) == IF v[i].removed
                   THEN CHOOSE j \in movers :
                          Cardinality({k \in movers : k > j})
                            = Cardinality({k \in holes : k < i})
                   ELSE i
    IN  IF v = <<>> THEN m
        ELSE [vmentry |-> [i \in 1..stay |-> v[from(i)]], is_sorted |-> FALSE]

NaClVmmapCmpEntries(left, right) == left.page_num < right.page_num

(* The entries that a sort of the array puts before entry i.               *)
Preceding(v, i) ==
    {j \in DOMAIN v : \/ NaClVmmapCmpEntries(v[j], v[i])
                      \/ j < i /\ ~NaClVmmapCmpEntries(v[i], v[j])}

Sorted(v) ==
    [k \in DOMAIN v |->
       v[CHOOSE i \in DOMAIN v : Cardinality(Preceding(v, i)) = k - 1]]

(* Mutant: a sorted flag that is believed when it is not set.              *)
NeverSorts(m) == m

NaClVmmapMakeSorted(m) ==
    IF m.is_sorted THEN m
    ELSE [vmentry |-> Sorted(NaClVmmapRemoveMarked(m).vmentry),
          is_sorted |-> TRUE]

(***************************************************************************)
(* How an entry lies to the region [first, end): the tests, in their       *)
(* order, of the loops of NaClVmmapUpdate and NaClVmmapChangeProt.         *)
(***************************************************************************)
(* Mutant: the split test with <= at the end, so that an entry that ends   *)
(* with the region counts as split.                                        *)
PlacementTouching(e, first, end) ==
    IF e.page_num < first /\ end <= EndPage(e) THEN "split"
    ELSE IF e.page_num < first /\ first < EndPage(e) THEN "end"
    ELSE IF e.page_num < end /\ end < EndPage(e) THEN "start"
    ELSE IF first <= e.page_num /\ EndPage(e) <= end THEN "covered"
    ELSE "apart"

Placement(e, first, end) ==
    IF e.page_num < first /\ end < EndPage(e) THEN "split"
    ELSE IF e.page_num < first /\ first < EndPage(e) THEN "end"
    ELSE IF e.page_num < end /\ end < EndPage(e) THEN "start"
    ELSE IF first <= e.page_num /\ EndPage(e) <= end THEN "covered"
    ELSE "apart"

(* What is left of an entry below page `first' and from page `end' on.     *)
Below(e, first) == [e EXCEPT !.npages = first - e.page_num]
From(e, end) ==
    [e EXCEPT !.page_num = end,
              !.npages   = EndPage(e) - end,
              !.offset   = @ + (end - e.page_num) * PageBytes]

(***************************************************************************)
(* NaClVmmapUpdate without the addition.  What its loop makes of an entry; *)
(* a split or cut start ends the loop.                                     *)
(***************************************************************************)
Cut(e, first, end) ==
    LET place == Placement(e, first, end)
    IN  CASE place \in {"split", "end"} -> Below(e, first)
          [] place = "start"   -> From(e, end)
          [] place = "covered" -> [e EXCEPT !.removed = TRUE]
          [] place = "apart"   -> e

Cleared(m, first, npages) ==
    LET v     == NaClVmmapMakeSorted(m).vmentry
        end   == first + npages
        place(i)   == Placement(v[i], first, end)
        reached(i) == \A j \in 1..i - 1 : place(j) \notin {"split", "start"}
        cut   == [i \in DOMAIN v |->
                    IF reached(i) THEN Cut(v[i], first, end) ELSE v[i]]
        split == {i \in DOMAIN v : reached(i) /\ place(i) = "split"}
    IN  [vmentry |-> IF split = {} THEN cut
                     ELSE Append(cut, From(v[CHOOSE i \in split : TRUE], end)),
         is_sorted |-> split = {}]

NaClVmmapRemove(m, first, npages) ==
    NaClVmmapRemoveMarked(Cleared(m, first, npages))

(* Mutant: the new entry is added without clearing its region.             *)
AddOnly(m, e) == NaClVmmapAdd(m, e)

NaClVmmapAddWithOverwrite(m, e) ==
    NaClVmmapRemoveMarked(NaClVmmapAdd(Cleared(m, e.page_num, e.npages), e))

(***************************************************************************)
(* What a descriptor lets a mapping be changed to.                         *)
(***************************************************************************)
(* Mutant: the access mode of the descriptor is not looked at.             *)
MaxProtIgnoresDesc(e, accmode) == RW

NaClVmmapEntryMaxProt(e, accmode) ==
    IF e.desc # NoDesc /\ e.flags # "private" THEN accmode ELSE RW

(***************************************************************************)
(* How far a walk of the array from page `first' has come before entry i.  *)
(***************************************************************************)
Reached(v, i, first) == Max({first} \cup {EndPage(v[j]) : j \in 1..i - 1})

(***************************************************************************)
(* The entries of a sorted map, up to the one that holds the end of the    *)
(* region, must leave no gap in it and each allow prot.                    *)
(***************************************************************************)
NaClVmmapCheckExistingMapping(m, first, npages, prot, accmode) ==
    LET v   == NaClVmmapMakeSorted(m).vmentry
        end == first + npages
        page(i)    == Reached(v, i, first)
        allowed(i) == prot \subseteq NaClVmmapEntryMaxProt(v[i], accmode)
    IN  \E k \in DOMAIN v :
           /\ v[k].page_num <= page(k) /\ end <= EndPage(v[k]) /\ allowed(k)
           /\ \A i \in 1..k - 1 :
                 /\ v[i].page_num <= page(i) /\ EndPage(v[i]) < end
                 /\ EndPage(v[i]) <= page(i) \/ allowed(i)

(***************************************************************************)
(* NaClVmmapChangeProt, once the check has passed.  The piece that starts  *)
(* inside an entry gets the offset ent->offset + (page_num -               *)
(* ent->page_num): pages added to bytes.  The array is sorted, so at most  *)
(* one entry holds the start of the region and one its end, and the pieces *)
(* are added in that order.                                                *)
(***************************************************************************)
(* Mutant: the piece keeps the old protection.                             *)
InsideKeepsProt(e, first, npages, prot) ==
    [e EXCEPT !.page_num = first, !.npages = npages,
              !.offset   = @ + (first - e.page_num)]

Inside(e, first, npages, prot) ==
    [e EXCEPT !.page_num = first, !.npages = npages, !.prot = prot,
              !.offset   = @ + (first - e.page_num)]

Piece(pieces) ==
    IF DOMAIN pieces = {} THEN <<>>
    ELSE <<pieces[CHOOSE i \in DOMAIN pieces : TRUE]>>

ChangeProt(m, first, npages, prot) ==
    LET v   == NaClVmmapMakeSorted(m).vmentry
        end == first + npages
        page(i)   == Reached(v, i, first)
        placed(p) == {i \in DOMAIN v :
                        page(i) < end /\ Placement(v[i], page(i), end) = p}
        changed(i) ==
          CASE i \in placed("split") \cup placed("end") -> Below(v[i], page(i))
            [] i \in placed("start")   -> From(v[i], end)
            [] i \in placed("covered") -> [v[i] EXCEPT !.prot = prot]
            [] OTHER -> v[i]
        above   == [i \in placed("split") |-> From(v[i], end)]
        opening == [i \in placed("split") \cup placed("end") |->
                      Inside(v[i], page(i),
                             Min({EndPage(v[i]), end}) - page(i), prot)]
        closing == [i \in placed("start") |->
                      [v[i] EXCEPT !.page_num = page(i),
                                   !.npages   = end - page(i),
                                   !.prot     = prot]]
        added   == Piece(above) \o Piece(opening) \o Piece(closing)
    IN  [vmentry |-> [i \in DOMAIN v |-> changed(i)] \o added,
         is_sorted |-> added = <<>>]

(***************************************************************************)
(* Lookup.  The index of the entry that holds page p, or nvalid + 1, what  *)
(* an iterator at its end holds.                                           *)
(***************************************************************************)
NaClVmmapFindPageIter(m, p) ==
    LET v == NaClVmmapMakeSorted(m).vmentry
    IN  Min({i \in DOMAIN v : p \in Pages(v[i])} \cup {Len(v) + 1})

(***************************************************************************)
(* Search for npages free pages between two entries, in whole allocation   *)
(* units: from the top down, or from usr_page up.  0 is failure.           *)
(***************************************************************************)
(* Mutant: the end of the entry below a gap is rounded down.               *)
GapEndTruncated(v, i) == NaClTruncPageNumDownToMapMultiple(EndPage(v[i - 1]))

GapEnd(v, i) == NaClRoundPageNumUpToMapMultiple(EndPage(v[i - 1]))
GapStart(v, i) == NaClTruncPageNumDownToMapMultiple(v[i].page_num)

(* GapStart - GapEnd is a difference of unsigned numbers, taken when it is *)
(* positive only.                                                          *)
HighestFit(v, n) ==
    LET fits == {i \in 2..Len(v) : /\ GapStart(v, i) > GapEnd(v, i)
                                   /\ GapStart(v, i) - GapEnd(v, i) >= n}
    IN  IF fits = {} THEN 0 ELSE GapStart(v, Max(fits)) - n

NaClVmmapFindMapSpace(m, npages) ==
    HighestFit(NaClVmmapMakeSorted(m).vmentry,
               NaClRoundPageNumUpToMapMultiple(npages))

(* Mutant: the hint is used for every gap above it.                        *)
LowestFitForgetsGap(v, usr_page, n) ==
    LET fits == {i \in 2..Len(v) : /\ GapStart(v, i) > GapEnd(v, i)
                                   /\ usr_page <= GapEnd(v, i)
                                   /\ GapStart(v, i) - GapEnd(v, i) >= n}
    IN  IF fits = {} THEN 0 ELSE usr_page

LowestFit(v, usr_page, n) ==
    LET at(i) == IF GapEnd(v, i) <= usr_page /\ usr_page < GapStart(v, i)
                 THEN usr_page ELSE GapEnd(v, i)
        fits  == {i \in 2..Len(v) : /\ GapStart(v, i) > GapEnd(v, i)
                                    /\ usr_page <= at(i)
                                    /\ GapStart(v, i) - at(i) >= n}
    IN  IF fits = {} THEN 0 ELSE at(Min(fits))

NaClVmmapFindMapSpaceAboveHint(m, usr_page, npages) ==
    LowestFit(NaClVmmapMakeSorted(m).vmentry, usr_page,
              NaClRoundPageNumUpToMapMultiple(npages))

=============================================================================
