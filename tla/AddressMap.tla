---------------------------- MODULE AddressMap ------------------------------
(***************************************************************************)
(* What numatop knows of the memory of a process: the areas that are       *)
(* mapped, the nodes that their pages are on (common/os/map.c) and the     *)
(* accesses that hit them (win_lat_buf_fill).                              *)
(*                                                                         *)
(* The arrays are sequences, in the order of their addresses, and they     *)
(* are searched with bsearch.                                              *)
(***************************************************************************)
EXTENDS Integers, Sequences, FiniteSets, SequencesExt

CONSTANTS
  PageSize,  \* g_pagesize
  MovePages  \* NUMA_MOVE_NPAGES

ASSUME AddressMapAssumption ==
  PageSize \in Nat \ {0} /\ MovePages \in Nat \ {0}

\* bsearch of the C library; the i-th of cmp is what the comparison of the key
\* with the i-th element returns.  The result is an index, 0 for NULL.
Bsearch(cmp) ==
  LET find[r \in (0 .. Len(cmp)) \X (0 .. Len(cmp))] ==
        IF r[1] >= r[2] THEN 0
        ELSE LET i == (r[1] + r[2]) \div 2 + 1 IN
             IF cmp[i] = 0 THEN i
             ELSE IF cmp[i] < 0 THEN find[<<r[1], i - 1>>] ELSE find[<<i, r[2]>>]
  IN find[<<0, Len(cmp)>>]

\* qsort of the C library: the elements of s in the order of their keys, which
\* for those of one key is the order they had.
Rank(keys, i) ==
  Cardinality({j \in DOMAIN keys :
                 keys[j] < keys[i] \/ (keys[j] = keys[i] /\ j <= i)})
Qsort(s, keys) ==
  [k \in DOMAIN s |-> s[CHOOSE i \in DOMAIN s : Rank(keys, i) = k]]

\* Fault: an area still contains the address behind its last.
AddrCmpEnd(addr, start, end) ==
  IF addr < start THEN -1 ELSE IF addr > end THEN 1 ELSE 0
\* entryaddr_cmp and bufaddr_cmp
AddrCmp(addr, start, end) ==
  IF addr < start THEN -1 ELSE IF addr >= end THEN 1 ELSE 0

AreaOf(arr, addr) ==
  Bsearch([i \in DOMAIN arr |-> AddrCmp(addr, arr[i].start, arr[i].end)])

\* map_entry_find: the entry that is exactly this area.
EntryFind(arr, start, end) ==
  LET i == AreaOf(arr, start) IN
  IF i # 0 /\ arr[i].start = start /\ arr[i].end = end THEN i ELSE 0

\* Fault: every entry needs its symbols.
ReloadedAsking(old, new) == new
\* map_proc_load of a process whose map was read before: an entry that was
\* there already needs its symbols only if it still did.
Reloaded(old, new) ==
  [i \in DOMAIN new |->
    LET j == EntryFind(old, new[i].start, new[i].end) IN
    IF j = 0 THEN new[i] ELSE [new[i] EXCEPT !.need = old[j].need]]

-----------------------------------------------------------------------------
(* The nodes of an area's pages.                                           *)

\* A page joins the entry before if it is next to it and on the same node.
AddPage(numa, addr, nid, fresh) ==
  LET n == Len(numa) IN
  IF ~fresh /\ numa[n].nid = nid /\ numa[n].end = addr
  THEN [numa EXCEPT ![n].end = @ + PageSize]
  ELSE Append(numa, [start |-> addr, end |-> addr + PageSize, nid |-> nid])

\* numa_map_update: the pages from addr on are on the nodes nids.  Without a
\* last_entry, when fresh, the first of them makes an entry.
NumaUpdate(numa, addr, nids, fresh) ==
  LET add[n \in 0 .. Len(nids)] ==
        IF n = 0 THEN numa
        ELSE AddPage(add[n - 1], addr + (n - 1) * PageSize, nids[n],
                     fresh /\ n = 1)
  IN add[Len(nids)]

Batches(nids) == (Len(nids) + MovePages - 1) \div MovePages
Batch(nids, b) ==
  SubSeq(nids, (b - 1) * MovePages + 1,
         IF b = Batches(nids) THEN Len(nids) ELSE b * MovePages)

\* Fault: last_entry is forgotten from one batch to the next.
Map2NumaAnew(start, nids) ==
  LET batch[b \in 0 .. Batches(nids)] ==
        IF b = 0 THEN <<>>
        ELSE NumaUpdate(batch[b - 1], start + (b - 1) * MovePages * PageSize,
                        Batch(nids, b), TRUE)
  IN batch[Batches(nids)]
\* map_map2numa: numa_move_pages reports the nodes nids of the pages from start
\* on, negative for a page that is on none.
Map2Numa(start, nids) ==
  LET batch[b \in 0 .. Batches(nids)] ==
        IF b = 0 THEN <<>>
        ELSE NumaUpdate(batch[b - 1], start + (b - 1) * MovePages * PageSize,
                        Batch(nids, b), b = 1)
  IN batch[Batches(nids)]

-----------------------------------------------------------------------------
(* The accesses to each area.                                              *)

\* os_lat_buf_hit of every record, at the addresses recs: naccess of each
\* area and the number of all that hit one.
LatFill(arr, recs) ==
  LET hit[n \in 0 .. Len(recs)] ==
        IF n = 0 THEN [naccess |-> [i \in DOMAIN arr |-> 0], samples |-> 0]
        ELSE LET i == AreaOf(arr, recs[n])
                 s == hit[n - 1]
             IN IF i = 0 THEN s
                ELSE [naccess |-> [s.naccess EXCEPT ![i] = @ + 1],
                      samples |-> s.samples + 1]
  IN hit[Len(recs)]

\* win_lat_buf_create or latnode_buf_create makes a line of each area; they
\* are filled, and then sorted by win_lat_cmp.
LatData(arr, recs) ==
  LET filled == LatFill(arr, recs)
      line(i) == [start |-> arr[i].start, end |-> arr[i].end,
                  naccess |-> filled.naccess[i]]
  IN [samples |-> filled.samples,
      lines |-> Qsort([i \in DOMAIN arr |-> line(i)],
                      [i \in DOMAIN arr |-> -filled.naccess[i]])]

=============================================================================
