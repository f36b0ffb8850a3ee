------------------------------ MODULE Symbols -------------------------------
(***************************************************************************)
(* The symbols of a process (common/os/sym.c) and the windows that are     *)
(* drawn from its memory: LATENCY, LATNODE and CALLCHAIN (os_win.c).       *)
(*                                                                         *)
(* The process maps and unmaps files while numatop looks at it.  Each draw *)
(* of LATENCY or CALLCHAIN reads /proc/pid/maps again; the symbols of an   *)
(* executable area are read only once, as need_resolve of its entry says.  *)
(* What was read stays: the image's symbols in sym.image, references to    *)
(* the libraries in sym.libref, and the libraries themselves for all       *)
(* processes in s_first_lib, by their path.                                *)
(*                                                                         *)
(* The memory has slots of Span addresses at multiples of Span, in which   *)
(* the process has at most one file.  Addresses are modulo AddrLimit.  A   *)
(* draw is one step: the disp thread reads the maps once in it.            *)
(***************************************************************************)
EXTENDS AddressMap, CallChains

CONSTANTS
  NSlots,     \* slots of the memory; the first is never mapped, and not one
  Span,       \* addresses of a slot
  AddrLimit,  \* 2^64
  PointerSize,\* sizeof (ips[i])
  Files,      \* what may be mapped, see FileAttributes
  FileAttributes,
  Exe,        \* the program, mapped at first
  Replaced,   \* a file and the one that replaces it under the same path
  Recs,       \* lists of addresses accessed, the samples of a LATENCY window
  Samples,    \* lists of samples of a CALLCHAIN window
  Placements, \* the nodes that numa_move_pages reports of pages, in order
  MaxChanges  \* bound on what the process does to its memory

None == "none"
Attr(f) == FileAttributes[f]

\* path is what a mapping is called; syms are the symbols of functions in the
\* order of the symbol table, at is their place in a mapping of the file, and
\* vaddr the place that its executable segment claims to begin at, which is not
\* behind a function of it.  A slot is two times a number of pages, so that each
\* half of it can be an area, and holds the functions of every file.  The memory
\* of a process is far from the last addresses, which are the kernel's.
ASSUME SymbolsAssumption ==
  /\ NSlots \in Nat /\ Span \in Nat /\ PointerSize \in Nat \ {0}
  /\ \E pages \in 1 .. Span : Span = 2 * (pages * PageSize)
  /\ AddrLimit \in Nat /\ (NSlots + 2) * Span < AddrLimit
  /\ Exe \in Files /\ None \notin Files /\ MaxChanges \in Nat
  /\ \A f \in Files :
       /\ Attr(f).exec \in BOOLEAN /\ Attr(f).readable \in BOOLEAN
       /\ Attr(f).lib \in BOOLEAN /\ Attr(f).vaddr \in Nat
       /\ Attr(f).syms \in Seq(Range(Attr(f).syms))
       /\ \A y \in Range(Attr(f).syms) :
            /\ y.under \in BOOLEAN /\ y.at \in Nat /\ y.size \in Nat \ {0}
            /\ Attr(f).vaddr <= y.at /\ y.at + y.size <= Span
  /\ Replaced \in [old : Files, new : Files]
  /\ Recs \subseteq Seq(0 .. AddrLimit - 1)
  /\ Samples \subseteq Seq(Seq(0 .. AddrLimit - 1))
  /\ Placements \subseteq Seq(Int)

VARIABLES
  space,    \* the file in each slot, and if its mapping is in two parts
  replaced, \* the old file of Replaced is no more on the disk
  map,      \* proc->map
  image,    \* proc->sym.image and image_loadaddr
  libref,   \* proc->sym.libref
  loaded,   \* proc->sym.loaded
  libs,     \* s_first_lib: the file that was read at each path
  out,      \* what the last draw shows
  was,      \* the executable files that were seen in each slot
  parts,    \* a part of a file was seen that is not its beginning
  images,   \* how often an image was read
  changes

vars == <<space, replaced, map, image, libref, loaded, libs, out,
          was, parts, images, changes>>

Slots == 1 .. NSlots

\* An area of the file, from the place off on.
Area(start, end, file, off) ==
  [start |-> start, end |-> end, file |-> file, off |-> off]

\* The areas of a slot.
AreasOf(s) ==
  LET a == s * Span
      b == a + Span
      m == a + Span \div 2
      f == space[s].file
  IN IF f = None THEN <<>>
     ELSE IF space[s].cut
          THEN <<Area(a, m, f, 0), Area(m, b, f, Span \div 2)>>
          ELSE <<Area(a, b, f, 0)>>

\* map_read: an entry of every area; they all need their symbols.
Entry(area) ==
  [start |-> area.start, end |-> area.end, file |-> area.file,
   off |-> area.off, need |-> TRUE]
MapRead ==
  LET areas[s \in 0 .. NSlots] ==
        IF s = 0 THEN <<>> ELSE areas[s - 1] \o AreasOf(s)
  IN [i \in DOMAIN areas[NSlots] |-> Entry(areas[NSlots][i])]

\* map_proc_load of a process that has any memory.
MapLoaded ==
  [loaded |-> TRUE,
   arr |-> IF map.loaded THEN Reloaded(map.arr, MapRead) ELSE MapRead]

-----------------------------------------------------------------------------
(* Reading symbols.                                                        *)

\* The kernel calls a mapping of a file that was replaced "... (deleted)".
OnDisk(f) == ~(replaced /\ f = Replaced.old)
Readable(f) == Attr(f).readable /\ OnDisk(f)

\* elf64_binary_read: the functions, which begin at off in the segment.
Items(f) ==
  [i \in DOMAIN Attr(f).syms |->
    LET y == Attr(f).syms[i] IN
    [name |-> y.name, under |-> y.under, size |-> y.size,
     off |-> (y.at - Attr(f).vaddr) % AddrLimit]]

\* Fault: the table is left in the order of the file.
ItemUnsorted(items) == items
ItemSort(items) == Qsort(items, [i \in DOMAIN items |-> items[i].off])

\* The items of a file that is read once.
Binary == [f \in Files |-> ItemSort(Items(f))]

\* image_sym_read adds to what an image had before.
ImageSymRead(s, e) ==
  IF ~Readable(e.file) THEN s
  ELSE [s EXCEPT !.image = [items |-> ItemSort(@.items \o Items(e.file)),
                            base |-> e.start],
                 !.images = @ + 1]

\* lib_find, and lib_add if it is the first time.
LibOf(cache, f) ==
  IF ~OnDisk(f) THEN None
  ELSE IF cache[Attr(f).path] # None THEN cache[Attr(f).path]
  ELSE IF Readable(f) THEN f ELSE None

\* Fault: the new reference replaces the first.
LibSymReadOnly(s, e) ==
  LET f == LibOf(s.libs, e.file) IN
  IF f = None THEN s
  ELSE [s EXCEPT !.libs = [@ EXCEPT ![Attr(e.file).path] = f],
                 !.libref = <<[file |-> f, base |-> e.start]>>]
\* lib_sym_read and libref_add
LibSymRead(s, e) ==
  LET f == LibOf(s.libs, e.file) IN
  IF f = None THEN s
  ELSE [s EXCEPT !.libs = [@ EXCEPT ![Attr(e.file).path] = f],
                 !.libref = Append(@, [file |-> f, base |-> e.start])]

\* The body of sym_load's loop.
Resolved(s, e) ==
  IF ~(e.need /\ Attr(e.file).exec) THEN s
  ELSE IF Attr(e.file).lib THEN LibSymRead(s, e) ELSE ImageSymRead(s, e)

\* sym_load of a map that was just loaded.
SymLoaded(m) ==
  LET read[n \in 0 .. Len(m.arr)] ==
        IF n = 0 THEN [image |-> image, images |-> images,
                       libref |-> libref, libs |-> libs]
        ELSE Resolved(read[n - 1], m.arr[n])
  IN read[Len(m.arr)]

Asked(m) ==
  [m EXCEPT !.arr = [i \in DOMAIN m.arr |->
    [m.arr[i] EXCEPT !.need = @ /\ ~Attr(m.arr[i].file).exec]]]

-----------------------------------------------------------------------------
(* Finding the function of an address.                                     *)

OffCmp(off, item) ==
  IF off >= (item.off + item.size) % AddrLimit THEN 1
  ELSE IF off < item.off THEN -1 ELSE 0

\* resolve: the item that bsearch hits and, if the address is where functions
\* begin, all of those.
Resolve(items, off) ==
  LET i == Bsearch([j \in DOMAIN items |-> OffCmp(off, items[j])])
      same(a, b) == \A j \in a .. b : items[j].off = off
      first == CHOOSE a \in 1 .. i : same(a, i - 1) /\ (a > 1 => ~same(a - 1, a - 1))
      last == CHOOSE b \in i .. Len(items) :
                same(i + 1, b) /\ (b < Len(items) => ~same(b + 1, b + 1))
  IN IF i = 0 THEN <<>> ELSE SubSeq(items, first, last)

\* sym_resolve: the image first, then the libraries in the order of reading.
SymResolve(s, addr) ==
  LET at(items, base) ==
        [items |-> Resolve(items, (addr - base) % AddrLimit), base |-> base]
      all == <<at(s.image.items, s.image.base)>> \o
             [i \in DOMAIN s.libref |->
               at(Binary[s.libref[i].file], s.libref[i].base)]
      hit(i) == all[i].items # <<>>
  IN IF \A i \in DOMAIN all : ~hit(i) THEN [items |-> <<>>, base |-> 0]
     ELSE all[CHOOSE i \in DOMAIN all :
                hit(i) /\ \A j \in DOMAIN all : j < i => ~hit(j)]

\* resolve_unique: the first whose name has no underscore before it, or else
\* the last.
Unique(items) ==
  IF \A i \in DOMAIN items : items[i].under THEN Last(items)
  ELSE items[CHOOSE i \in DOMAIN items :
               ~items[i].under /\ \A j \in DOMAIN items : j < i => items[j].under]

\* Fault: an entry begins where its function does in its file.
CallEntryAtOffset(s, ip) ==
  LET r == SymResolve(s, ip)
      item == Unique(r.items)
  IN IF r.items = <<>>
     THEN [addr |-> ip, size |-> PointerSize, name |-> None]
     ELSE [addr |-> item.off, size |-> item.size, name |-> item.name]
\* The body of chain_alloc's loop.
CallEntry(s, ip) ==
  LET r == SymResolve(s, ip)
      item == Unique(r.items)
  IN IF r.items = <<>>
     THEN [addr |-> ip, size |-> PointerSize, name |-> None]
     ELSE [addr |-> (r.base + item.off) % AddrLimit,
           size |-> item.size, name |-> item.name]

ChainOf(s, ips) == [i \in DOMAIN ips |-> CallEntry(s, ips[i])]

\* os_callchain_list_show: all samples are added, then the list is sorted.
ChainList(s, samples) ==
  LET add[n \in 0 .. Len(samples)] ==
        IF n = 0 THEN <<<<>>, NoList>>
        ELSE ChainAdd(add[n - 1][1], add[n - 1][2], samples[n],
                      ChainOf(s, samples[n]))
      l == add[Len(samples)]
  IN Resort(l[1], l[2])

-----------------------------------------------------------------------------
Paths == {Attr(f).path : f \in Files}
NoMap == [loaded |-> FALSE, arr |-> <<>>]
NoImage == [items |-> <<>>, base |-> 0]
NoOut == [kind |-> None]

Untracked ==
  /\ map' = NoMap /\ image' = NoImage /\ libref' = <<>> /\ loaded' = FALSE
  /\ was' = [s \in Slots |-> {}] /\ parts' = FALSE /\ images' = 0

Init ==
  /\ \E s \in Slots :
       space = [t \in Slots |->
                 [file |-> IF t = s THEN Exe ELSE None, cut |-> FALSE]]
  /\ replaced = FALSE
  /\ map = NoMap /\ image = NoImage /\ libref = <<>> /\ loaded = FALSE
  /\ libs = [p \in Paths |-> None] /\ out = NoOut
  /\ was = [s \in Slots |-> {}] /\ parts = FALSE /\ images = 0
  /\ changes = 0

-----------------------------------------------------------------------------
(* The process, and others.                                                *)

\* What was drawn does not matter to them.
Change ==
  /\ changes < MaxChanges /\ changes' = changes + 1
  /\ out = NoOut /\ UNCHANGED out
Known == <<map, image, libref, loaded, libs, was, parts, images>>

\* mmap, munmap, dlopen, dlclose, exec.
Mmap(s, f) ==
  /\ Change
  /\ f # space[s].file
  /\ f # None => OnDisk(f) /\ (f = Replaced.new => replaced)
  /\ space' = [space EXCEPT ![s] = [file |-> f, cut |-> FALSE]]
  /\ UNCHANGED <<replaced, Known>>

\* mprotect or the like of the second half.
Cut(s) ==
  /\ Change
  /\ space[s].file # None /\ ~space[s].cut
  /\ space' = [space EXCEPT ![s].cut = TRUE]
  /\ UNCHANGED <<replaced, Known>>

\* The file is replaced on the disk, as packages are.
Replace ==
  /\ Change
  /\ ~replaced /\ replaced' = TRUE
  /\ UNCHANGED <<space, Known>>

\* The process is no more tracked, and then it is, or another with the same
\* memory: proc_free's map_proc_fini and sym_free.
Retrack ==
  /\ Change
  /\ Untracked
  /\ UNCHANGED <<space, replaced, libs>>

-----------------------------------------------------------------------------
(* The draws.                                                              *)

\* Ghosts: what is known of the areas in m.
Seen(m) ==
  [s \in Slots |-> was[s] \union
    {m.arr[i].file : i \in {j \in DOMAIN m.arr :
       m.arr[j].start \div Span = s /\ Attr(m.arr[j].file).exec}}]

\* Every draw begins with reg_erase, and ends there when it fails: when map_read
\* does, since the process is gone or is a zombie without memory; when the area
\* of a LATNODE window is no more in the map; or when numa_move_pages does.
Erase ==
  /\ out # NoOut /\ out' = NoOut
  /\ UNCHANGED <<space, replaced, Known, changes>>

\* os_lat_win_draw
LatDraw(recs) ==
  LET m == MapLoaded IN
  /\ out = NoOut /\ m.arr # <<>>
  /\ map' = m
  /\ out' = [kind |-> "lat", recs |-> recs, arr |-> m.arr,
             data |-> LatData(m.arr, recs)]
  /\ was' = Seen(m)
  /\ parts' = (parts \/ \E i \in DOMAIN m.arr : m.arr[i].off # 0)
  /\ UNCHANGED <<space, replaced, image, libref, loaded, libs, images,
                 changes>>

\* os_latnode_win_draw of an area that a LATENCY window has shown: the map is
\* the one that was read then, or later.
LatnodeDraw(area, nids, recs) ==
  LET numa == Map2Numa(area.start, nids) IN
  /\ out = NoOut /\ EntryFind(map.arr, area.start, area.end) # 0
  /\ Len(nids) = (area.end - area.start) \div PageSize
  /\ out' = [kind |-> "latnode", area |-> area, nids |-> nids,
             numa |-> numa, recs |-> recs, data |-> LatData(numa, recs)]
  /\ UNCHANGED <<space, replaced, Known, changes>>

\* os_callchain_list_show and llcallchain_list_show: sym_load, and then the
\* chains.
ChainDraw(samples) ==
  LET m == MapLoaded
      s == SymLoaded(m)
  IN
  /\ out = NoOut /\ m.arr # <<>>
  /\ map' = Asked(m)
  /\ image' = s.image /\ libref' = s.libref /\ libs' = s.libs
  /\ images' = s.images /\ loaded' = TRUE
  /\ out' = [kind |-> "chains", samples |-> samples,
             list |-> ChainList(s, samples)]
  /\ was' = Seen(m)
  /\ parts' = (parts \/ \E i \in DOMAIN m.arr : m.arr[i].off # 0)
  /\ UNCHANGED <<space, replaced, changes>>

-----------------------------------------------------------------------------
\* The areas that a LATENCY window may have shown.
SlotAreas ==
  UNION {{[start |-> s * Span, end |-> (s + 1) * Span],
          [start |-> s * Span, end |-> s * Span + Span \div 2]} : s \in Slots}

ProcessStep ==
  \/ \E s \in Slots, f \in Files \union {None} : Mmap(s, f)
  \/ \E s \in Slots : Cut(s)
  \/ Replace
  \/ Retrack

DrawStep ==
  \/ Erase
  \/ \E recs \in Recs : LatDraw(recs)
  \/ \E area \in SlotAreas, nids \in Placements, recs \in Recs :
       LatnodeDraw(area, nids, recs)
  \/ \E samples \in Samples : ChainDraw(samples)

Next == ProcessStep \/ DrawStep

Spec == Init /\ [][Next]_vars

-----------------------------------------------------------------------------
(* What should hold.                                                       *)

\* The map and the symbols; both are searched with bsearch and are in the
\* order that it needs: the areas of the map apart from each other
\* (map_entry_find), the items by their offset (resolve).
TypeOK ==
  /\ map.loaded \in BOOLEAN /\ loaded \in BOOLEAN /\ replaced \in BOOLEAN
  /\ \A i \in DOMAIN map.arr :
       /\ map.arr[i].file \in Files /\ map.arr[i].need \in BOOLEAN
       /\ map.arr[i].start < map.arr[i].end
       /\ i > 1 => map.arr[i - 1].end <= map.arr[i].start
  /\ image.base \in 0 .. AddrLimit - 1
  /\ \A i, j \in DOMAIN image.items :
       /\ image.items[i].off \in 0 .. AddrLimit - 1
       /\ i < j => image.items[i].off <= image.items[j].off
  /\ libref \in Seq([file : Files, base : Nat])
  /\ libs \in [Paths -> Files \union {None}]
  /\ parts \in BOOLEAN /\ images \in Nat /\ changes \in 0 .. MaxChanges

\* The symbols as they are now.
Current == [image |-> image, libref |-> libref]

\* What makes the symbols of an area those of its file: nothing else was seen
\* there before, since need_resolve and libref do not know when an area has
\* changed; no area begins within a file; there was one image; the segment
\* begins where it claims; the library at the path is not that of before; and
\* its functions do not overlap, unless two are the same range: where one lies
\* within another, bsearch may go the wrong way.
Plain(e) ==
  /\ was[e.start \div Span] = {e.file}
  /\ ~parts /\ images <= 1
  /\ Attr(e.file).vaddr = 0
  /\ libs[Attr(e.file).path] \in {None, e.file}
  /\ \A y, z \in Range(Attr(e.file).syms) :
       \/ y.at + y.size <= z.at \/ z.at + z.size <= y.at
       \/ y.at = z.at /\ y.size = z.size

\* An address in an area whose symbols were read is given the name of a
\* function that it is in, and has one if there is such a function: what
\* sym_resolve finds in the symbols of all areas together, over every
\* sequence of loads and of changes of the memory that leaves the area Plain.
NamesRight ==
  \A i \in DOMAIN map.arr :
    LET e == map.arr[i] IN
    ~e.need /\ Plain(e) =>
      \A a \in e.start .. e.end - 1 :
        LET r == SymResolve(Current, a)
            in == {j \in DOMAIN Attr(e.file).syms :
                    LET y == Attr(e.file).syms[j] IN
                    y.at <= a - e.start /\ a - e.start < y.at + y.size}
        IN /\ r.items # <<>> =>
                /\ r.base = e.start
                /\ Unique(r.items).name \in {Attr(e.file).syms[j].name : j \in in}
           /\ in # {} /\ Attr(e.file).readable /\ e.file # Replaced.old =>
                r.items # <<>>

\* As long as the areas of a process are the same and all were asked for their
\* symbols, no draw reads them again: need_resolve goes on from map to map.
AreasAndFiles(m) ==
  [i \in DOMAIN m.arr |-> <<m.arr[i].start, m.arr[i].end, m.arr[i].file>>]
ReadOnce ==
  [][(/\ loaded /\ loaded' /\ AreasAndFiles(map') = AreasAndFiles(map)
      /\ \A i \in DOMAIN map.arr : Attr(map.arr[i].file).exec => ~map.arr[i].need)
     => image' = image /\ libref' = libref]_vars

Shown == Chains(out.list[1], out.list[2])

\* The list that chainlist_show takes apart is whole, from both ends, it is in
\* the order of the accesses, and no sample is missing or counted twice: the
\* sorting moves every chain, also the first and the last one.
ListWhole ==
  out.kind = "chains" =>
    LET heap == out.list[1]
        list == out.list[2]
        counted == UNION {{c} \X (0 .. heap[c].naccess) : c \in Range(Shown)}
    IN /\ Links(list.tail, Prevs(heap)) = Reverse(Shown)
       /\ list.num = Len(Shown)
       /\ Cardinality(counted) = Len(out.samples)
       /\ \A i, j \in DOMAIN Shown :
            i < j => heap[Shown[i]].naccess >= heap[Shown[j]].naccess

\* The samples of the same callers are one chain of the list: what the
\* addresses are resolved to when the chain is made is what the next sample is
\* compared with.
OneChain ==
  out.kind = "chains" =>
    \A i, j \in DOMAIN Shown :
      i # j => out.list[1][Shown[i]].entries # out.list[1][Shown[j]].entries

\* Every access is counted for the area that it hits and for no other, at the
\* first address of an area and at the last; one outside of all for none.
HitsExact(data, areas, recs) ==
  LET hits(a) == Cardinality({i \in DOMAIN recs : a.start <= recs[i] /\ recs[i] < a.end})
  IN /\ Len(data.lines) = Len(areas)
     /\ \A i \in DOMAIN areas : \E j \in DOMAIN data.lines :
          /\ data.lines[j].start = areas[i].start
          /\ data.lines[j].end = areas[i].end
          /\ data.lines[j].naccess = hits(areas[i])
     /\ data.samples = Cardinality({i \in DOMAIN recs : \E j \in DOMAIN areas :
          areas[j].start <= recs[i] /\ recs[i] < areas[j].end})
LatExact ==
  /\ out.kind = "lat" => HitsExact(out.data, out.arr, out.recs)
  /\ out.kind = "latnode" => HitsExact(out.data, out.numa, out.recs)

\* The parts of an area on each node: together they are the area, each is on
\* the node of all its pages, and none can be made longer, whichever batch of
\* pages its beginning and its end were in.
NumaExact ==
  out.kind = "latnode" =>
    LET numa == out.numa
        nid(a) == out.nids[(a - out.area.start) \div PageSize + 1]
    IN /\ numa # <<>>
       /\ Head(numa).start = out.area.start /\ Last(numa).end = out.area.end
       /\ \A i \in DOMAIN numa : \A a \in numa[i].start .. numa[i].end - 1 :
            nid(a) = numa[i].nid
       /\ \A i \in 2 .. Len(numa) :
            numa[i].start = numa[i - 1].end /\ numa[i].nid # numa[i - 1].nid

=============================================================================
