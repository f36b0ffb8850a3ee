-------------------------- MODULE NodeGroup_proofs --------------------------
(***************************************************************************)
(* Proofs about NodeGroup, for any nodes, CPUs and changes of the hardware.*)
(***************************************************************************)
EXTENDS NodeGroup, FiniteSetTheorems, FunctionTheorems, SequenceTheorems,
        WellFoundedInduction, TLAPS

-----------------------------------------------------------------------------
(* Finite sets.                                                            *)

\* A set maps one to one into any set that is no smaller.
LEMMA InjectionExists ==
  ASSUME NEW S, IsFiniteSet(S), NEW T, IsFiniteSet(T),
         Cardinality(S) <= Cardinality(T)
  PROVE  \E f \in [S -> T] : IsInjective(f)
<1> DEFINE m == Cardinality(S)
           n == Cardinality(T)
<1>1. m \in Nat /\ ExistsBijection(1..m, S)
  BY FS_CardinalityType
<1>2. n \in Nat /\ ExistsBijection(1..n, T)
  BY FS_CardinalityType
<1>3. ExistsInjection(S, 1..m) /\ ExistsInjection(1..n, T)
  BY <1>1, <1>2, Fun_ExistsBijEquiv
<1>4. ExistsInjection(1..m, 1..n)
  BY <1>1, <1>2, Fun_NatInjLeq
<1>5. ExistsInjection(S, T)
  BY <1>3, <1>4, Fun_ExistsInjTransitive
<1>6. QED
  BY <1>5 DEF ExistsInjection, Injection

\* A finite set of naturals that has a member has a largest one: the smallest
\* set that had none would still have none without one of its members.
LEMMA MaxExists ==
  ASSUME NEW S \in SUBSET Nat, IsFiniteSet(S), S # {}
  PROVE  \E x \in S : \A y \in S : x >= y
<1> DEFINE NoMax(T) == /\ T # {} /\ IsFiniteSet(T)
                       /\ ~\E x \in T : \A y \in T : x >= y
           Sizes == {n \in Nat : \E T \in SUBSET Nat :
                                   NoMax(T) /\ n = Cardinality(T)}
<1>1. SUFFICES ASSUME NoMax(S) PROVE FALSE
  OBVIOUS
<1>2. Cardinality(S) \in Sizes
  <2>1. Cardinality(S) \in Nat
    BY FS_CardinalityType
  <2>2. QED
    BY <1>1, <2>1
<1>3. PICK n \in Sizes : \A m \in Sizes : <<m, n>> \notin OpToRel(<, Nat)
  <2>1. Sizes \subseteq Nat /\ Sizes # {}
    BY <1>2
  <2> HIDE DEF Sizes
  <2>2. QED
    BY <2>1, NatLessThanWellFounded, WFMin
<1>4. \A m \in Sizes : ~(m < n)
  <2>1. n \in Nat /\ \A m \in Sizes : m \in Nat
    OBVIOUS
  <2> HIDE DEF Sizes
  <2>2. QED
    BY <1>3, <2>1 DEF OpToRel
<1>5. PICK T \in SUBSET Nat : NoMax(T) /\ n = Cardinality(T)
  OBVIOUS
<1>6. PICK x \in T : TRUE
  BY <1>5
<1>7. IsFiniteSet(T \ {x}) /\ Cardinality(T \ {x}) = n - 1
  BY <1>5, <1>6, FS_RemoveElement
<1>8. n - 1 \in Nat /\ n - 1 < n
  <2>1. n - 1 \in Nat
    BY <1>7, FS_CardinalityType
  <2>2. n \in Nat
    OBVIOUS
  <2>3. QED
    BY <2>1, <2>2
<1>9. ~NoMax(T \ {x})
  <2>1. n - 1 \notin Sizes
    BY <1>4, <1>8
  <2>2. T \ {x} \in SUBSET Nat
    BY <1>5
  <2>3. QED
    BY <1>7, <1>8, <2>1, <2>2
<1>10. T \subseteq Nat /\ x \in Nat
  BY <1>5, <1>6
<1>11. CASE T = {x}
  BY <1>5, <1>10, <1>11
<1>12. CASE T # {x}
  <2>1. T \ {x} # {}
    BY <1>6, <1>12
  <2>2. PICK y \in T \ {x} : \A z \in T \ {x} : y >= z
    BY <1>7, <1>9, <2>1
  <2>3. y \in T /\ y \in Nat
    BY <1>10, <2>2
  <2>4. \A z \in T : y >= z \/ z = x
    BY <2>2
  <2>5. CASE y >= x
    BY <1>5, <2>3, <2>4, <2>5
  <2>6. CASE ~(y >= x)
    <3>1. \A z \in T : x >= z
      BY <1>10, <2>3, <2>4, <2>6
    <3>2. QED
      BY <1>5, <1>6, <3>1
  <2>7. QED
    BY <2>5, <2>6
<1>13. QED
  BY <1>11, <1>12

\* So Max is what its name says.
LEMMA MaxIsLargest ==
  ASSUME NEW S \in SUBSET Nat, IsFiniteSet(S), S # {}
  PROVE  Max(S) \in S /\ \A y \in S : Max(S) >= y
<1>1. \E x \in S : \A y \in S : x >= y
  BY MaxExists
<1>2. QED
  BY <1>1 DEF Max

LEMMA MaxOfTwo ==
  ASSUME NEW a \in Int, NEW b \in Int
  PROVE  Max({a, b}) = IF a >= b THEN a ELSE b
<1>1. \E x \in {a, b} : \A y \in {a, b} : x >= y
  OBVIOUS
<1>2. Max({a, b}) \in {a, b} /\ \A y \in {a, b} : Max({a, b}) >= y
  BY <1>1 DEF Max
<1>3. QED
  BY <1>2

-----------------------------------------------------------------------------
(* The inductive invariant.                                                *)

Cpu == [cpu : CpuIds \union {None}, hotadd : BOOLEAN, hotremove : BOOLEAN,
        events : Kinds \union {"none"}]
Node == [state : {"invalid", "cleared", "here"}, hotremove : BOOLEAN,
         ncpus : Nat]
Ops == {"setup", "start", "stop", "free", "smpl", "restore"}

Typed ==
  /\ present \subseteq Nodes /\ online \subseteq CpuIds /\ seen \subseteq Nodes
  /\ node \in [Nodes -> Node]
  /\ cpus \in [Nodes -> [Slots -> Cpu]]
  /\ nnodes \in Int /\ cpuidMax \in Nat /\ room \in Nat
  /\ status \in Kinds \union {"none"}
  /\ passes \in Seq(Ops \X Kinds)
  /\ at \in Nodes \X Slots
  /\ dpc \in {"idle", "remove", "add", "fill", "info", "wait", "dead"}
  /\ raced \in BOOLEAN /\ leaked \in BOOLEAN

\* A CPU is in one slot, and belongs to the node.
ApartIn(arr, n) ==
  /\ \A j, k \in Slots : arr[j].cpu = arr[k].cpu /\ j # k => arr[j].cpu = None
  /\ \A j \in Slots : arr[j].cpu # None => NodeOf[arr[j].cpu] = n
Apart == \A n \in Nodes : ApartIn(cpus[n], n)

\* A node has no CPUs only while the refresh is between the two steps that
\* add it, and a refresh that has met a walk has been noticed.
Filling ==
  /\ \A n \in Nodes : node[n].state = "cleared" =>
       /\ ~node[n].hotremove
       /\ dpc \in {"fill", "dead"}
       /\ \A m \in Nodes : node[m].state = "cleared" => m = n
  /\ Walking /\ dpc \notin {"idle", "wait", "dead"} => raced

\* Which walk may follow which.
Leads(p, q) ==
  \/ p[1] = "stop" /\ q[1] \in {"free", "start"} /\ q[2] = p[2]
  \/ p[1] = "free" /\ q[1] = "setup"
  \/ p[1] = "setup" /\ q[1] \in {"stop", "start"} /\ q[2] = p[2]

InOrder(ps, s) ==
  \A i \in DOMAIN ps :
    /\ ps[i][1] \in {"smpl", "restore"} => Len(ps) = 1 /\ ps[i][2] = s
    /\ ps[i][1] \in {"smpl", "restore", "start"} <=> i = Len(ps)
    /\ i < Len(ps) => Leads(ps[i], ps[i + 1])

\* The walks left are in order, and the disp thread is waiting if they are to
\* change the status.
Planned ==
  /\ InOrder(passes, status)
  /\ Walking /\ Op # "smpl" => task = None
  /\ dpc \notin {"wait", "dead"} =>
       /\ task \in {None, "smpl"}
       /\ Walking => Op = "smpl"
  /\ task \in Kinds \union {"smpl", "restore", None}
  /\ task \in {"smpl", "restore"} => status \in Kinds
  /\ ~Walking => at = <<0, 1>>

\* The walk has been at slot j of node n.
Visited(n, j) == n < N \/ (n = N /\ j < J)

\* The events that may be open in slot j of node n.
MayBeOpen(n, j) ==
  IF ~Walking THEN {status}
  ELSE IF \/ Op = "free" /\ Visited(n, j)
          \/ Op = "setup" /\ ~Visited(n, j)
       THEN {} ELSE {Kind}

Sound == ~raced /\ failures \intersect {"start", "node"} = {}

\* Only a CPU that is there, and is no longer new, has events.
OfCpus ==
  \A n \in Nodes, j \in Slots :
    cpus[n][j].cpu = None \/ cpus[n][j].hotadd => cpus[n][j].events = "none"

\* Slot by slot, what is open is what the walk has left so far.
Booked ==
  Sound =>
    /\ ~leaked
    /\ \A n \in Nodes, j \in Slots : cpus[n][j].events # "none" =>
         /\ cpus[n][j].events \in MayBeOpen(n, j)
         /\ node[n].state = "here"

\* A node that is being filled in has not yet been counted.
Counted ==
  \/ "twice" \in failures
  \/ nnodes = Cardinality({n \in Nodes :
                             node[n].state = "here" /\ ~node[n].hotremove})

\* No CPU has a larger id than is known, unless a refresh stopped before it
\* had looked; arrays are at least as long as at first.
Sized ==
  /\ cpuidMax >= Max(AtBoot) /\ room > Max(AtBoot)
  /\ "refresh" \in failures \/ \A n \in Nodes, j \in Slots :
       cpus[n][j].cpu # None => cpus[n][j].cpu <= cpuidMax

IInv == /\ Typed /\ Apart /\ Filling /\ Planned /\ OfCpus /\ Booked /\ Counted
        /\ Sized /\ InBounds

-----------------------------------------------------------------------------
(* The arrays of CPUs.                                                     *)

LEMMA SlotsFinite ==
  /\ IsFiniteSet(Slots) /\ Cardinality(Slots) = Cardinality(CpuIds)
  /\ Cardinality(CpuIds) \in Nat \ {0}
  /\ 1 \in Slots /\ Cardinality(CpuIds) \in Slots
<1>1. Cardinality(CpuIds) \in Nat
  BY NodeGroupAssumption, FS_CardinalityType
<1>2. Cardinality(CpuIds) # 0
  <2>1. CpuIds # {}
    BY NodeGroupAssumption
  <2>2. QED
    BY <2>1, NodeGroupAssumption, FS_EmptySet
<1>3. IsFiniteSet(Slots) /\ Cardinality(Slots) = Cardinality(CpuIds)
  <2>1. /\ IsFiniteSet(1..Cardinality(CpuIds))
        /\ Cardinality(1..Cardinality(CpuIds)) = Cardinality(CpuIds) - 1 + 1
    BY <1>1, <1>2, FS_Interval
  <2>2. QED
    BY <1>1, <2>1 DEF Slots
<1>4. QED
  BY <1>1, <1>2, <1>3 DEF Slots

\* There are as many slots as CPUs, so that a CPU that has no slot finds one.
LEMMA RoomForAll ==
  ASSUME NEW n \in Nodes, NEW arr \in [Slots -> Cpu], ApartIn(arr, n),
         NEW ids \in SUBSET CpuIds
  PROVE  HasRoom(arr, ids)
<1> DEFINE used == {j \in Slots : arr[j].cpu # None}
           free == {j \in Slots : arr[j].cpu = None}
           f == [j \in used |-> arr[j].cpu]
<1>1. CpusOf(arr) \in SUBSET CpuIds
  BY DEF CpusOf, Cpu
<1>2. IsFiniteSet(used) /\ IsFiniteSet(free)
  <2>1. used \in SUBSET Slots /\ free \in SUBSET Slots
    OBVIOUS
  <2> HIDE DEF used, free
  <2>2. QED
    BY <2>1, SlotsFinite, FS_Subset
<1>3. f \in Bijection(used, CpusOf(arr))
  <2>1. f \in [used -> CpusOf(arr)]
    BY DEF CpusOf
  <2>2. IsInjective(f)
    BY DEF IsInjective, ApartIn
  <2>3. \A c \in CpusOf(arr) : \E j \in used : f[j] = c
    BY DEF CpusOf
  <2> HIDE DEF f, used
  <2>4. QED
    BY <2>1, <2>2, <2>3 DEF Bijection, Injection, Surjection
<1>4. IsFiniteSet(CpusOf(arr)) /\ Cardinality(CpusOf(arr)) = Cardinality(used)
  <2> HIDE DEF f, used
  <2>1. ExistsBijection(used, CpusOf(arr))
    BY <1>3 DEF ExistsBijection
  <2>2. QED
    BY <1>2, <2>1, FS_Bijection
<1>5. Cardinality(free) = Cardinality(Slots) - Cardinality(used)
  <2>1. free = Slots \ used /\ used = Slots \cap used
    OBVIOUS
  <2> HIDE DEF used, free
  <2>2. Cardinality(Slots \ used)
          = Cardinality(Slots) - Cardinality(Slots \cap used)
    BY SlotsFinite, FS_Difference
  <2>3. QED
    BY <2>1, <2>2
<1>6. Cardinality(CpuIds \ CpusOf(arr))
        = Cardinality(CpuIds) - Cardinality(CpusOf(arr))
  <2>1. CpuIds \cap CpusOf(arr) = CpusOf(arr)
    BY <1>1
  <2>2. QED
    BY <2>1, NodeGroupAssumption, FS_Difference
<1>7. Cardinality(ids \ CpusOf(arr)) <= Cardinality(CpuIds \ CpusOf(arr))
  <2>1. ids \ CpusOf(arr) \in SUBSET (CpuIds \ CpusOf(arr))
    OBVIOUS
  <2>2. IsFiniteSet(CpuIds \ CpusOf(arr))
    BY NodeGroupAssumption, FS_Difference
  <2>3. QED
    BY <2>1, <2>2, FS_Subset
<1>8. Cardinality(ids \ CpusOf(arr)) <= Cardinality(free)
  <2> HIDE DEF used, free
  <2>1. QED
    BY <1>4, <1>5, <1>6, <1>7, SlotsFinite
<1>9. QED
  BY <1>8 DEF HasRoom

\* What os_perf_cpuarr_refresh does to each slot of an array: it stays as it is
\* but for the mark, or gets a CPU that is in no other slot and has no events.
Renewed(arr, new, ids) ==
  \A j \in Slots :
    \/ /\ new[j].cpu = arr[j].cpu /\ new[j].hotadd = arr[j].hotadd
       /\ new[j].events = arr[j].events
    \/ /\ arr[j].cpu = None
       /\ new[j].cpu \in ids /\ new[j].events = "none"

LEMMA RefreshRenews ==
  ASSUME NEW n \in Nodes, NEW arr \in [Slots -> Cpu], ApartIn(arr, n),
         NEW ids \in SUBSET {c \in CpuIds : NodeOf[c] = n},
         NEW init \in BOOLEAN
  PROVE  /\ CpuarrRefresh(arr, ids, init) \in [Slots -> Cpu]
         /\ ApartIn(CpuarrRefresh(arr, ids, init), n)
         /\ Renewed(arr, CpuarrRefresh(arr, ids, init), ids)
<1> DEFINE free == {j \in Slots : arr[j].cpu = None}
           fresh == ids \ CpusOf(arr)
           put == CHOOSE f \in [fresh -> free] : IsInjective(f)
           new == CpuarrRefresh(arr, ids, init)
<1>1. put \in [fresh -> free] /\ IsInjective(put)
  <2>1. IsFiniteSet(free)
    <3>1. free \in SUBSET Slots
      OBVIOUS
    <3> HIDE DEF free
    <3>2. QED
      BY <3>1, SlotsFinite, FS_Subset
  <2>2. IsFiniteSet(fresh)
    <3>1. fresh \in SUBSET CpuIds
      OBVIOUS
    <3> HIDE DEF fresh
    <3>2. QED
      BY <3>1, NodeGroupAssumption, FS_Subset
  <2>3. Cardinality(fresh) <= Cardinality(free)
    BY RoomForAll DEF HasRoom
  <2> HIDE DEF fresh, free
  <2>4. \E f \in [fresh -> free] : IsInjective(f)
    BY <2>1, <2>2, <2>3, InjectionExists
  <2>5. QED
    BY <2>4
<1>2. new = [j \in Slots |->
        IF \E c \in fresh : put[c] = j
        THEN [NoCpu EXCEPT !.cpu = CHOOSE c \in fresh : put[c] = j,
                           !.hotadd = ~init, !.hotremove = arr[j].hotremove]
        ELSE [arr[j] EXCEPT !.hotremove =
                @ \/ (arr[j].cpu # None /\ arr[j].cpu \notin ids)]]
  BY DEF CpuarrRefresh
<1>a. \A c \in fresh : /\ c \in ids /\ c \in CpuIds /\ c # None /\ NodeOf[c] = n
                       /\ \A j \in Slots : arr[j].cpu # c
  BY NodeGroupAssumption DEF CpusOf
<1>b. \A j \in free : arr[j].cpu = None
  OBVIOUS
<1> HIDE DEF put, new, fresh, free
<1>3. ASSUME NEW j \in Slots, NEW c \in fresh, put[c] = j
      PROVE  /\ new[j] = [cpu |-> c, hotadd |-> ~init,
                          hotremove |-> arr[j].hotremove, events |-> "none"]
             /\ new[j].cpu = c /\ new[j].events = "none"
             /\ arr[j].cpu = None
  <2>1. (CHOOSE d \in fresh : put[d] = j) = c
    <3>1. \A d \in fresh : put[d] = j => d = c
      BY <1>1, <1>3 DEF IsInjective
    <3>2. QED
      BY <1>3, <3>1
  <2>2. j \in free
    BY <1>1, <1>3
  <2>3. new[j] = [NoCpu EXCEPT !.cpu = c, !.hotadd = ~init,
                               !.hotremove = arr[j].hotremove]
    BY <1>2, <1>3, <2>1
  <2>4. new[j] = [cpu |-> c, hotadd |-> ~init,
                  hotremove |-> arr[j].hotremove, events |-> "none"]
    BY <2>3 DEF NoCpu
  <2>5. QED
    BY <1>b, <2>2, <2>4
<1>4. ASSUME NEW j \in Slots, \A c \in fresh : put[c] # j
      PROVE  new[j] = [arr[j] EXCEPT !.hotremove =
                         @ \/ (arr[j].cpu # None /\ arr[j].cpu \notin ids)]
  BY <1>2, <1>4
<1>5. ASSUME NEW j \in Slots, \A c \in fresh : put[c] # j
      PROVE  /\ new[j] \in Cpu /\ new[j].cpu = arr[j].cpu
             /\ new[j].hotadd = arr[j].hotadd /\ new[j].events = arr[j].events
  <2>1. arr[j] \in Cpu
    OBVIOUS
  <2>2. PICK marked \in BOOLEAN :
          new[j] = [arr[j] EXCEPT !.hotremove = marked]
    <3>1. (arr[j].hotremove \/ (arr[j].cpu # None /\ arr[j].cpu \notin ids))
             \in BOOLEAN
      BY Zenon
    <3>2. QED
      BY <1>4, <1>5, <3>1, Zenon
  <2>3. QED
    BY <2>1, <2>2 DEF Cpu
<1>6. ASSUME NEW j \in Slots, NEW c \in fresh, put[c] = j
      PROVE  new[j] \in Cpu
  <2>1. new[j] = [cpu |-> c, hotadd |-> ~init,
                  hotremove |-> arr[j].hotremove, events |-> "none"]
    BY <1>3, <1>6
  <2>2. c \in CpuIds /\ arr[j].hotremove \in BOOLEAN /\ (~init) \in BOOLEAN
    BY <1>a DEF Cpu
  <2>3. QED
    BY <2>1, <2>2 DEF Cpu
<1>7. \A j \in Slots : (\E c \in fresh : put[c] = j)
                        \/ (\A c \in fresh : put[c] # j)
  OBVIOUS
<1>8. new \in [Slots -> Cpu]
  <2>1. \A j \in Slots : new[j] \in Cpu
    BY <1>5, <1>6, <1>7
  <2>2. QED
    BY <1>2, <2>1
<1>9. Renewed(arr, new, ids)
  <2> SUFFICES ASSUME NEW j \in Slots
               PROVE  \/ /\ new[j].cpu = arr[j].cpu
                         /\ new[j].hotadd = arr[j].hotadd
                         /\ new[j].events = arr[j].events
                      \/ /\ arr[j].cpu = None
                         /\ new[j].cpu \in ids /\ new[j].events = "none"
    BY DEF Renewed
  <2>1. CASE \A c \in fresh : put[c] # j
    BY <1>5, <2>1
  <2>2. ASSUME NEW c \in fresh, put[c] = j
        PROVE  arr[j].cpu = None /\ new[j].cpu \in ids /\ new[j].events = "none"
    BY <1>3, <1>a, <2>2
  <2>3. QED
    BY <1>7, <2>1, <2>2
<1>10. ApartIn(new, n)
  <2>1. ASSUME NEW j \in Slots, NEW k \in Slots, j # k, new[j].cpu = new[k].cpu
        PROVE  new[j].cpu = None
    <3>1. CASE /\ \A c \in fresh : put[c] # j
               /\ \A c \in fresh : put[c] # k
      BY <1>5, <2>1, <3>1 DEF ApartIn
    <3>2. ASSUME NEW c \in fresh, put[c] = j, \A d \in fresh : put[d] # k
          PROVE  FALSE
      <4>1. new[j].cpu = c /\ new[k].cpu = arr[k].cpu
        BY <1>3, <1>5, <3>2
      <4>2. QED
        BY <1>a, <2>1, <4>1
    <3>3. ASSUME NEW c \in fresh, put[c] = k, \A d \in fresh : put[d] # j
          PROVE  FALSE
      <4>1. new[k].cpu = c /\ new[j].cpu = arr[j].cpu
        BY <1>3, <1>5, <3>3
      <4>2. QED
        BY <1>a, <2>1, <4>1
    <3>4. ASSUME NEW c \in fresh, put[c] = j, NEW d \in fresh, put[d] = k
          PROVE  FALSE
      <4>1. new[j].cpu = c /\ new[k].cpu = d
        BY <1>3, <3>4
      <4>2. QED
        BY <2>1, <3>4, <4>1
    <3>5. QED
      BY <1>7, <3>1, <3>2, <3>3, <3>4
  <2>2. ASSUME NEW j \in Slots, new[j].cpu # None
        PROVE  NodeOf[new[j].cpu] = n
    <3>1. CASE \A c \in fresh : put[c] # j
      BY <1>5, <2>2, <3>1 DEF ApartIn
    <3>2. ASSUME NEW c \in fresh, put[c] = j
          PROVE  NodeOf[new[j].cpu] = n
      BY <1>3, <1>a, <3>2
    <3>3. QED
      BY <1>7, <3>1, <3>2
  <2>3. QED
    BY <2>1, <2>2 DEF ApartIn
<1>11. QED
  BY <1>8, <1>9, <1>10 DEF new

LEMMA BlankArray ==
  ASSUME NEW hotadd \in BOOLEAN, NEW n \in Nodes
  PROVE  /\ CpuarrInit(hotadd) \in [Slots -> Cpu]
         /\ ApartIn(CpuarrInit(hotadd), n)
         /\ \A j \in Slots : /\ CpuarrInit(hotadd)[j].cpu = None
                             /\ CpuarrInit(hotadd)[j].events = "none"
<1>1. \A j \in Slots : CpuarrInit(hotadd)[j] =
        [cpu |-> None, hotadd |-> hotadd, hotremove |-> FALSE,
         events |-> "none"]
  BY DEF CpuarrInit, NoCpu
<1>2. ASSUME NEW j \in Slots PROVE CpuarrInit(hotadd)[j] \in Cpu
  <2>1. [cpu |-> None, hotadd |-> hotadd, hotremove |-> FALSE,
         events |-> "none"] \in Cpu
    BY DEF Cpu
  <2>2. QED
    BY <1>1, <2>1, Zenon
<1>3. CpuarrInit(hotadd) \in [Slots -> Cpu]
  BY <1>2 DEF CpuarrInit
<1>4. QED
  BY <1>1, <1>3 DEF ApartIn

\* Marking CPUs changes nothing but marks.
LEMMA FiniMarks ==
  ASSUME NEW arr \in [Slots -> Cpu]
  PROVE  /\ CpuarrFini(arr) \in [Slots -> Cpu]
         /\ \A j \in Slots : /\ CpuarrFini(arr)[j].cpu = arr[j].cpu
                             /\ CpuarrFini(arr)[j].hotadd = arr[j].hotadd
                             /\ CpuarrFini(arr)[j].events = arr[j].events
<1>1. ASSUME NEW j \in Slots
      PROVE  /\ CpuarrFini(arr)[j] \in Cpu
             /\ CpuarrFini(arr)[j].cpu = arr[j].cpu
             /\ CpuarrFini(arr)[j].hotadd = arr[j].hotadd
             /\ CpuarrFini(arr)[j].events = arr[j].events
  <2>1. PICK marked \in BOOLEAN :
          CpuarrFini(arr)[j] = [arr[j] EXCEPT !.hotremove = marked]
    <3>1. CpuarrFini(arr)[j] =
            [arr[j] EXCEPT !.hotremove = arr[j].hotremove \/ arr[j].cpu # None]
      BY DEF CpuarrFini
    <3>2. (arr[j].hotremove \/ arr[j].cpu # None) \in BOOLEAN
      BY Zenon
    <3>3. QED
      BY <3>1, <3>2, Zenon
  <2>2. QED
    BY <2>1 DEF Cpu
<1>2. CpuarrFini(arr) \in [Slots -> Cpu]
  BY <1>1 DEF CpuarrFini
<1>3. QED
  BY <1>1, <1>2

LEMMA OnlineFinite ==
  ASSUME online \in SUBSET CpuIds
  PROVE  /\ IsFiniteSet(online)
         /\ \A n \in Nodes :
              /\ OnlineOf(n) \in SUBSET {c \in CpuIds : NodeOf[c] = n}
              /\ Cardinality(OnlineOf(n)) \in Nat
         /\ \A old \in Nat :
              /\ CpuidMax(online, old) \in Nat /\ CpuidMax(online, old) >= old
              /\ \A c \in online : CpuidMax(online, old) >= c
<1>1. IsFiniteSet(online)
  BY NodeGroupAssumption, FS_Subset
<1>2. ASSUME NEW n \in Nodes
      PROVE  /\ OnlineOf(n) \in SUBSET {c \in CpuIds : NodeOf[c] = n}
             /\ Cardinality(OnlineOf(n)) \in Nat
  <2>1. OnlineOf(n) \in SUBSET online
    BY DEF OnlineOf
  <2>2. Cardinality(OnlineOf(n)) \in Nat
    BY <1>1, <2>1, FS_Subset, FS_CardinalityType
  <2>3. QED
    BY <2>2 DEF OnlineOf
<1>3. ASSUME NEW old \in Nat
      PROVE  /\ CpuidMax(online, old) \in Nat /\ CpuidMax(online, old) >= old
             /\ \A c \in online : CpuidMax(online, old) >= c
  <2>1. online \union {old} \in SUBSET Nat /\ online \union {old} # {}
    BY NodeGroupAssumption
  <2>2. IsFiniteSet(online \union {old})
    BY <1>1, FS_AddElement
  <2>3. /\ Max(online \union {old}) \in online \union {old}
        /\ \A y \in online \union {old} : Max(online \union {old}) >= y
    BY <2>1, <2>2, MaxIsLargest
  <2>4. QED
    BY <2>1, <2>3 DEF CpuidMax
<1>4. QED
  BY <1>1, <1>2, <1>3

LEMMA BootMax == Max(AtBoot) \in Nat /\ \A c \in AtBoot : Max(AtBoot) >= c
<1>1. AtBoot \in SUBSET Nat /\ AtBoot # {} /\ IsFiniteSet(AtBoot)
  BY NodeGroupAssumption, FS_Subset
<1>2. QED
  BY <1>1, MaxIsLargest

-----------------------------------------------------------------------------
(* Every step keeps the invariant.                                         *)

LEMMA InitIInv == Init => IInv
<1> SUFFICES ASSUME Init PROVE IInv
  OBVIOUS
<1>1. /\ present \in SUBSET Nodes /\ online = AtBoot /\ online \in SUBSET CpuIds
      /\ nnodes = Cardinality(present)
      /\ cpuidMax = Max(AtBoot) /\ room = Max(AtBoot) + 1
      /\ status = "none" /\ task = None /\ passes = <<>> /\ at = <<0, 1>>
      /\ dpc = "idle" /\ seen = {} /\ leaked = FALSE /\ failures = {}
      /\ raced = FALSE /\ faults = {}
  BY NodeGroupAssumption DEF Init
<1>2. \A n \in Nodes :
        /\ cpus[n] = CpuarrRefresh(CpuarrInit(FALSE), OnlineOf(n), TRUE)
        /\ node[n] = IF n \in present
                     THEN [NoNode EXCEPT !.state = "here",
                                         !.ncpus = Cardinality(OnlineOf(n))]
                     ELSE NoNode
  BY DEF Init
<1>3. DOMAIN cpus = Nodes /\ DOMAIN node = Nodes
  BY DEF Init
<1>4. ASSUME NEW n \in Nodes
      PROVE  /\ cpus[n] \in [Slots -> Cpu] /\ ApartIn(cpus[n], n)
             /\ \A j \in Slots : /\ cpus[n][j].events = "none"
                                 /\ cpus[n][j].cpu # None =>
                                      cpus[n][j].cpu \in AtBoot
  <2>1. /\ CpuarrInit(FALSE) \in [Slots -> Cpu] /\ ApartIn(CpuarrInit(FALSE), n)
        /\ \A j \in Slots : /\ CpuarrInit(FALSE)[j].cpu = None
                            /\ CpuarrInit(FALSE)[j].events = "none"
    BY BlankArray
  <2>2. OnlineOf(n) \in SUBSET {c \in CpuIds : NodeOf[c] = n}
    BY <1>1, OnlineFinite
  <2>3. /\ cpus[n] \in [Slots -> Cpu] /\ ApartIn(cpus[n], n)
        /\ Renewed(CpuarrInit(FALSE), cpus[n], OnlineOf(n))
    <3>1. TRUE \in BOOLEAN
      OBVIOUS
    <3> DEFINE arr == CpuarrInit(FALSE)
               ids == OnlineOf(n)
    <3>2. arr \in [Slots -> Cpu] /\ ApartIn(arr, n)
      BY <2>1
    <3>3. ids \in SUBSET {c \in CpuIds : NodeOf[c] = n}
      BY <2>2
    <3>4. cpus[n] = CpuarrRefresh(arr, ids, TRUE)
      BY <1>2
    <3> HIDE DEF arr, ids
    <3>5. /\ CpuarrRefresh(arr, ids, TRUE) \in [Slots -> Cpu]
          /\ ApartIn(CpuarrRefresh(arr, ids, TRUE), n)
          /\ Renewed(arr, CpuarrRefresh(arr, ids, TRUE), ids)
      BY <3>1, <3>2, <3>3, RefreshRenews
    <3>6. QED
      BY <3>4, <3>5, Zenon DEF arr, ids
  <2>4. OnlineOf(n) \in SUBSET AtBoot
    BY <1>1 DEF OnlineOf
  <2>5. QED
    BY <2>1, <2>3, <2>4 DEF Renewed
<1>5. ASSUME NEW n \in Nodes
      PROVE  /\ node[n] \in Node /\ ~node[n].hotremove
             /\ node[n].state = IF n \in present THEN "here" ELSE "invalid"
  <2>1. Cardinality(OnlineOf(n)) \in Nat
    BY <1>1, OnlineFinite
  <2>2. CASE n \in present
    <3>1. node[n] = [state |-> "here", hotremove |-> FALSE,
                     ncpus |-> Cardinality(OnlineOf(n))]
      BY <1>2, <2>2 DEF NoNode
    <3>2. QED
      BY <2>1, <2>2, <3>1 DEF Node
  <2>3. CASE n \notin present
    <3>1. node[n] = [state |-> "invalid", hotremove |-> FALSE, ncpus |-> 0]
      BY <1>2, <2>3 DEF NoNode
    <3>2. QED
      BY <2>3, <3>1 DEF Node
  <2>4. QED
    BY <2>2, <2>3
<1>6. Cardinality(present) \in Nat
  <2>1. IsFiniteSet(Nodes)
    BY NodeGroupAssumption, FS_Interval DEF Nodes
  <2>2. QED
    BY <1>1, <2>1, FS_Subset, FS_CardinalityType
<1>7. Typed
  <2>1. cpus \in [Nodes -> [Slots -> Cpu]]
    <3>1. cpus = [n \in Nodes |-> cpus[n]]
      BY DEF Init
    <3>2. QED
      BY <1>4, <3>1
  <2>2. node \in [Nodes -> Node]
    <3>1. node = [n \in Nodes |-> node[n]]
      BY DEF Init
    <3>2. QED
      BY <1>5, <3>1
  <2>3. at \in Nodes \X Slots
    BY <1>1, SlotsFinite, NodeGroupAssumption DEF Nodes
  <2>4. passes \in Seq(Ops \X Kinds)
    BY <1>1
  <2>5. raced \in BOOLEAN /\ leaked \in BOOLEAN
    BY <1>1, Zenon
  <2>6. nnodes \in Int /\ cpuidMax \in Nat /\ room \in Nat
    BY <1>1, <1>6, BootMax
  <2>7. status \in Kinds \union {"none"} /\ seen \subseteq Nodes
    BY <1>1
  <2>8. QED
    BY <1>1, <2>1, <2>2, <2>3, <2>4, <2>5, <2>6, <2>7 DEF Typed
<1>8. Apart
  BY <1>4 DEF Apart
<1>9. Filling
  BY <1>1, <1>5 DEF Filling, Walking
<1>10. Planned
  <2>1. DOMAIN passes = {}
    BY <1>1
  <2>2. ~Walking
    BY <1>1 DEF Walking
  <2>3. task \notin {"smpl", "restore"}
    BY <1>1, NodeGroupAssumption
  <2>4. QED
    BY <1>1, <2>1, <2>2, <2>3 DEF Planned, InOrder
<1>11. OfCpus
  BY <1>4 DEF OfCpus
<1>12. Booked
  BY <1>1, <1>4 DEF Booked
<1>13. Counted
  <2>1. {n \in Nodes : node[n].state = "here" /\ ~node[n].hotremove} = present
    BY <1>1, <1>5
  <2>2. QED
    BY <1>1, <2>1 DEF Counted
<1>14. Sized
  BY <1>1, <1>4, BootMax DEF Sized
<1>15. InBounds
  BY <1>1 DEF InBounds
<1>16. QED
  BY <1>7, <1>8, <1>9, <1>10, <1>11, <1>12, <1>13, <1>14, <1>15 DEF IInv

\* What does not depend on where the disp thread is stays true when the nodes
\* and the walk stay as they are.
LEMMA GroupKept ==
  ASSUME IInv, UNCHANGED <<group, room, status, passes, at, leaked>>,
         failures \subseteq failures', raced => raced'
  PROVE  Apart' /\ OfCpus' /\ Booked' /\ Counted' /\ Sized'
<1>1. /\ node' = node /\ cpus' = cpus /\ nnodes' = nnodes
      /\ cpuidMax' = cpuidMax /\ room' = room /\ status' = status
      /\ passes' = passes /\ at' = at /\ leaked' = leaked
  BY DEF group
<1>2. Apart'
  BY <1>1 DEF IInv, Apart, ApartIn
<1>3. OfCpus'
  BY <1>1 DEF IInv, OfCpus
<1>4. Booked'
  <2>1. Sound' => Sound
    BY DEF Sound
  <2>2. \A n \in Nodes, j \in Slots : MayBeOpen(n, j)' = MayBeOpen(n, j)
    BY <1>1 DEF MayBeOpen, Walking, Op, Kind, Visited, N, J
  <2>3. QED
    BY <1>1, <2>1, <2>2 DEF IInv, Booked
<1>5. Counted'
  BY <1>1 DEF IInv, Counted
<1>6. Sized'
  BY <1>1 DEF IInv, Sized
<1>7. QED
  BY <1>2, <1>3, <1>4, <1>5, <1>6

LEMMA HardwareStep == IInv /\ Hardware => IInv'
<1> SUFFICES ASSUME IInv, Hardware PROVE IInv'
  OBVIOUS
<1>1. /\ UNCHANGED <<group, room, status, passes, at, leaked>>
      /\ UNCHANGED <<task, dpc, seen, failures, raced, faults>>
      /\ present' \subseteq Nodes /\ online' \subseteq CpuIds
  BY DEF IInv, Typed, Hardware, CpuGoes, CpuComes, NodeGoes, NodeComes, Change,
         perf, disp, marks
<1>2. Apart' /\ OfCpus' /\ Booked' /\ Counted' /\ Sized'
  BY <1>1, GroupKept
<1>3. Typed'
  BY <1>1 DEF IInv, Typed, group
<1>4. Filling'
  BY <1>1 DEF IInv, Filling, group, Walking
<1>5. Planned'
  BY <1>1 DEF IInv, Planned, Walking, Op
<1>6. InBounds'
  BY <1>1 DEF IInv, InBounds, group
<1>7. QED
  BY <1>2, <1>3, <1>4, <1>5, <1>6 DEF IInv

\* The other steps of the disp thread move it, ask, and may find that a sum
\* does not fit.
DispElse ==
  \/ RefreshStart \/ RefreshFails \/ Draw \/ Sample \/ SampleAgain \/ Answered
  \/ Asks

LEMMA DispElseStep == IInv /\ DispElse => IInv'
<1> SUFFICES ASSUME IInv, DispElse PROVE IInv'
  OBVIOUS
<1>t. Typed /\ Planned /\ Filling /\ Sized /\ InBounds
  BY DEF IInv
<1>1. /\ UNCHANGED <<group, room, status, passes, at, leaked>>
      /\ UNCHANGED <<present, online>>
      /\ seen' \subseteq Nodes
      /\ failures \subseteq failures'
  BY <1>t DEF Typed, DispElse, RefreshStart, RefreshFails, Draw, Sample,
         SampleAgain, Answered, Asks, AskStart, AskRestore, Refreshed,
         hardware, perf, disp, marks
<1>2. /\ raced' = raced \/ raced' = (raced \/ Walking)
      /\ dpc \notin {"fill", "dead"} /\ dpc' \notin {"fill", "dead"}
      /\ dpc' \in {"idle", "remove", "wait"}
      /\ dpc' = "remove" => raced' = (raced \/ Walking)
  BY DEF DispElse, RefreshStart, RefreshFails, Draw, Sample,
         SampleAgain, Answered, Asks, AskStart, AskRestore, Refreshed,
         Refreshing, marks, disp
<1>3. /\ task' \in {None, "smpl", "restore"} \union Kinds
      /\ \/ task' = task /\ dpc' \in {"idle", "remove"}
         \/ task' = "smpl" /\ status # "none" /\ dpc \in {"info", "idle"} /\ dpc' = "idle"
         \/ task' \in Kinds /\ dpc = "idle" /\ dpc' = "wait"
         \/ task' = "restore" /\ status = "profiling" /\ dpc = "idle" /\ dpc' = "wait"
      /\ \/ dpc \notin {"wait", "dead"}
         \/ dpc' = "idle" /\ task = None /\ ~Walking
  BY <1>t DEF DispElse, RefreshStart, RefreshFails, Draw, Sample,
         SampleAgain, Answered, Asks, AskStart, AskRestore, Refreshed,
         perf, disp, Planned
<1>4. /\ faults' \subseteq faults \union {"sum"}
      /\ "sum" \in faults' => "sum" \in faults \/ ~SumFits
  BY DEF DispElse, RefreshStart, RefreshFails, Draw, Sample,
         SampleAgain, Answered, Asks, AskStart, AskRestore, Refreshed,
         marks
<1>5. raced' \in BOOLEAN /\ (raced => raced')
  <2>1. (raced \/ Walking) \in BOOLEAN
    BY Zenon
  <2>2. raced \in BOOLEAN
    BY <1>t DEF Typed
  <2>3. CASE raced' = raced
    BY <2>2, <2>3
  <2>4. CASE raced' = (raced \/ Walking)
    BY <2>1, <2>4
  <2>5. QED
    BY <1>2, <2>3, <2>4
<1>6. Apart' /\ OfCpus' /\ Booked' /\ Counted' /\ Sized'
  BY <1>1, <1>5, GroupKept
<1>7. Typed'
  <2>1. dpc' \in {"idle", "remove", "add", "fill", "info", "wait", "dead"}
    BY <1>2
  <2>2. QED
    BY <1>t, <1>1, <1>5, <2>1 DEF Typed, group
<1>8. Filling'
  <2>1. \A n \in Nodes : node'[n].state # "cleared"
    BY <1>t, <1>1, <1>2 DEF Filling, group
  <2>2. Walking' /\ dpc' \notin {"idle", "wait", "dead"} => raced'
    BY <1>1, <1>2 DEF Walking
  <2>3. QED
    BY <2>1, <2>2 DEF Filling
<1>9. Planned'
  <2>1. passes' = passes /\ at' = at /\ status' = status
    BY <1>1
  <2>2. Walking' = Walking /\ Op' = Op
    BY <2>1 DEF Walking, Op
  <2>3. Walking /\ Op # "smpl" => task' = None
    BY <1>t, <1>3 DEF Planned
  <2>4. task' \in Kinds \union {"smpl", "restore", None}
    BY <1>3
  <2>5. dpc' \notin {"wait", "dead"} => task' \in {None, "smpl"}
    BY <1>t, <1>3 DEF Planned, Kinds
  <2>6. dpc' \notin {"wait", "dead"} /\ Walking => Op = "smpl"
    BY <1>t, <1>3 DEF Planned
  <2>7. task' \in {"smpl", "restore"} => status \in Kinds
    BY <1>t, <1>3, NodeGroupAssumption DEF Planned, Typed, Kinds
  <2>8. QED
    BY <1>t, <2>1, <2>2, <2>3, <2>4, <2>5, <2>6, <2>7 DEF Planned
<1>10. InBounds'
  <2>1. cpuidMax' = cpuidMax /\ (raced => raced')
    BY <1>1, <1>5 DEF group
  <2>2. ~SumFits => cpuidMax > Max(AtBoot) \/ "refresh" \in failures
    <3> SUFFICES ASSUME ~SumFits, "refresh" \notin failures
                 PROVE  cpuidMax > Max(AtBoot)
      OBVIOUS
    <3>1. PICK n \in Nodes, j \in Slots :
            cpus[n][j].cpu # None /\ ~(cpus[n][j].cpu < room)
      BY DEF SumFits, Summed
    <3>2. cpus[n][j].cpu \in Nat /\ cpus[n][j].cpu <= cpuidMax
      <4>1. cpus[n][j] \in Cpu
        BY <1>t DEF Typed
      <4>2. cpus[n][j].cpu \in Nat
        BY <3>1, <4>1, NodeGroupAssumption DEF Cpu
      <4>3. cpus[n][j].cpu <= cpuidMax
        BY <1>t, <3>1 DEF Sized
      <4>4. QED
        BY <4>2, <4>3
    <3>3. room > Max(AtBoot) /\ room \in Nat /\ cpuidMax \in Nat
      BY <1>t DEF Sized, Typed
    <3>4. QED
      BY <3>1, <3>2, <3>3, BootMax
  <2>3. QED
    BY <1>t, <1>1, <1>4, <2>1, <2>2 DEF InBounds
<1>11. QED
  BY <1>6, <1>7, <1>8, <1>9, <1>10 DEF IInv

LEMMA NodesFinite ==
  /\ IsFiniteSet(Nodes)
  /\ \A S \in SUBSET Nodes : IsFiniteSet(S) /\ Cardinality(S) \in Nat
<1>1. IsFiniteSet(Nodes)
  BY NodeGroupAssumption, FS_Interval DEF Nodes
<1>2. QED
  BY <1>1, FS_Subset, FS_CardinalityType

LEMMA RefreshingRaces ==
  ASSUME IInv, Refreshing
  PROVE  raced' \in BOOLEAN /\ (raced => raced') /\ (Walking => raced')
<1>1. (raced \/ Walking) \in BOOLEAN
  BY Zenon
<1>2. QED
  BY <1>1, Zenon DEF Refreshing

\* What is open stays booked when slots are only emptied, filled with CPUs
\* that have no events, or kept.
LEMMA SlotsKept ==
  ASSUME IInv, UNCHANGED <<status, passes, at, leaked>>,
         failures \subseteq failures', raced => raced',
         \A n \in Nodes, j \in Slots :
           \/ cpus'[n][j].events = "none"
           \/ /\ cpus'[n][j].cpu = cpus[n][j].cpu
              /\ cpus'[n][j].hotadd = cpus[n][j].hotadd
              /\ cpus'[n][j].events = cpus[n][j].events
              /\ node[n].state = "here" => node'[n].state = "here"
  PROVE  OfCpus' /\ Booked'
<1>1. OfCpus'
  BY DEF IInv, OfCpus
<1>2. Booked'
  <2>1. Sound' => Sound
    BY DEF Sound
  <2>2. \A n \in Nodes, j \in Slots : MayBeOpen(n, j)' = MayBeOpen(n, j)
    BY DEF MayBeOpen, Walking, Op, Kind, Visited, N, J
  <2>3. QED
    BY <2>1, <2>2 DEF IInv, Booked
<1>3. QED
  BY <1>1, <1>2

LEMMA RefreshRemoveStep == IInv /\ RefreshRemove => IInv'
<1> SUFFICES ASSUME IInv, RefreshRemove PROVE IInv'
  OBVIOUS
<1> DEFINE gone == {n \in Nodes \ seen : Valid(n)}
<1>t. Typed /\ Apart /\ Planned /\ Filling /\ Sized /\ InBounds /\ Counted
  BY DEF IInv
<1>1. /\ dpc = "remove" /\ dpc' = "add"
      /\ node' = [n \in Nodes |-> IF n \in gone
                                  THEN [node[n] EXCEPT !.hotremove = TRUE]
                                  ELSE node[n]]
      /\ cpus' = [n \in Nodes |-> IF n \in gone THEN CpuarrFini(cpus[n])
                                                ELSE cpus[n]]
      /\ nnodes' = Max({nnodes - Cardinality(gone), MinNodes})
      /\ failures' = IF \E n \in gone : node[n].hotremove
                     THEN failures \union {"twice"} ELSE failures
      /\ UNCHANGED <<present, online, status, task, passes, at, cpuidMax, room,
                     seen, leaked, faults>>
  BY DEF RefreshRemove, hardware, perf
<1>2. raced' \in BOOLEAN /\ (raced => raced') /\ (Walking => raced')
  BY RefreshingRaces DEF RefreshRemove
<1>3. gone \in SUBSET Nodes /\ \A n \in gone : node[n].state = "here"
  BY <1>t, <1>1 DEF Filling, Valid, Typed, Node
<1>4. failures \subseteq failures'
  BY <1>1
<1> HIDE DEF gone
<1>5. ASSUME NEW n \in Nodes
      PROVE  /\ node'[n] \in Node /\ node'[n].state = node[n].state
             /\ node'[n].hotremove = (n \in gone \/ node[n].hotremove)
  <2>1. node[n] \in Node
    BY <1>t DEF Typed
  <2>2. CASE n \in gone
    BY <1>1, <2>1, <2>2 DEF Node
  <2>3. CASE n \notin gone
    BY <1>1, <2>1, <2>3 DEF Node
  <2>4. QED
    BY <2>2, <2>3
<1>6. ASSUME NEW n \in Nodes
      PROVE  /\ cpus'[n] \in [Slots -> Cpu]
             /\ \A j \in Slots : /\ cpus'[n][j].cpu = cpus[n][j].cpu
                                 /\ cpus'[n][j].hotadd = cpus[n][j].hotadd
                                 /\ cpus'[n][j].events = cpus[n][j].events
  <2>1. cpus[n] \in [Slots -> Cpu]
    BY <1>t DEF Typed
  <2>2. CASE n \in gone
    BY <1>1, <2>1, <2>2, FiniMarks
  <2>3. CASE n \notin gone
    BY <1>1, <2>1, <2>3
  <2>4. QED
    BY <2>2, <2>3
<1>7. nnodes - Cardinality(gone) \in Int /\ Cardinality(gone) \in Nat
  BY <1>t, <1>3, NodesFinite DEF Typed
<1>8. Typed'
  <2>1. node' \in [Nodes -> Node]
    BY <1>1, <1>5
  <2>2. cpus' \in [Nodes -> [Slots -> Cpu]]
    BY <1>1, <1>6
  <2>3. nnodes' \in Int
    BY <1>1, <1>7, MaxOfTwo, NodeGroupAssumption
  <2>4. QED
    BY <1>t, <1>1, <1>2, <2>1, <2>2, <2>3 DEF Typed
<1>9. Apart'
  BY <1>t, <1>6 DEF Apart, ApartIn
<1>10. Filling'
  <2>1. \A n \in Nodes : node'[n].state # "cleared"
    BY <1>t, <1>1, <1>5 DEF Filling
  <2>2. Walking' => raced'
    BY <1>1, <1>2 DEF Walking
  <2>3. QED
    BY <2>1, <2>2 DEF Filling
<1>11. Planned'
  BY <1>t, <1>1 DEF Planned, Walking, Op
<1>12. OfCpus' /\ Booked'
  BY <1>1, <1>2, <1>4, <1>5, <1>6, SlotsKept
<1>13. Counted'
  <2> DEFINE kept == {n \in Nodes : node[n].state = "here" /\ ~node[n].hotremove}
             left == {n \in Nodes : node'[n].state = "here" /\ ~node'[n].hotremove}
  <2>1. CASE "twice" \in failures'
    BY <2>1 DEF Counted
  <2>2. CASE "twice" \notin failures'
    <3>1. nnodes = Cardinality(kept)
      BY <1>t, <1>4, <2>2 DEF Counted
    <3>2. \A n \in gone : ~node[n].hotremove
      BY <1>1, <2>2
    <3>3. left = kept \ gone /\ kept \cap gone = gone
      BY <1>3, <1>5, <3>2
    <3>4. kept \in SUBSET Nodes /\ left \in SUBSET Nodes
      OBVIOUS
    <3> HIDE DEF kept, left
    <3>5. IsFiniteSet(kept) /\ Cardinality(left) \in Nat
      BY <3>4, NodesFinite
    <3>6. Cardinality(kept \ gone) = Cardinality(kept) - Cardinality(kept \cap gone)
      BY <3>5, FS_Difference
    <3>7. nnodes - Cardinality(gone) = Cardinality(left)
      BY <3>1, <3>3, <3>6
    <3>8. nnodes' = Cardinality(left)
      BY <1>1, <1>7, <3>5, <3>7, MaxOfTwo, NodeGroupAssumption
    <3>9. QED
      BY <3>8 DEF Counted, left
  <2>3. QED
    BY <2>1, <2>2
<1>14. Sized'
  BY <1>t, <1>1, <1>4, <1>6 DEF Sized
<1>15. InBounds'
  BY <1>t, <1>1, <1>2, <1>4 DEF InBounds
<1>16. QED
  BY <1>8, <1>9, <1>10, <1>11, <1>12, <1>13, <1>14, <1>15 DEF IInv

LEMMA RefreshAddStep == IInv /\ RefreshAdd => IInv'
<1> SUFFICES ASSUME IInv, RefreshAdd PROVE IInv'
  OBVIOUS
<1>t. /\ Typed /\ Apart /\ Planned /\ Filling /\ Sized /\ InBounds /\ Counted
      /\ Booked
  BY DEF IInv
<1>1. PICK m \in seen :
        /\ ~Valid(m) /\ dpc = "add" /\ dpc' = "fill"
        /\ node' = [node EXCEPT ![m] = [NoNode EXCEPT !.state = "cleared"]]
  BY DEF RefreshAdd
<1>2. UNCHANGED <<present, online, status, task, passes, at, cpus, nnodes,
                  cpuidMax, room, seen, leaked, failures, faults>>
  BY DEF RefreshAdd, hardware, perf
<1>3. raced' \in BOOLEAN /\ (raced => raced') /\ (Walking => raced')
  BY RefreshingRaces DEF RefreshAdd
<1>4. m \in Nodes /\ node[m].state = "invalid"
  BY <1>t, <1>1 DEF Typed, Valid
<1>5. /\ node' \in [Nodes -> Node]
      /\ \A n \in Nodes : n # m => node'[n] = node[n]
      /\ node'[m].state = "cleared" /\ node'[m].hotremove = FALSE
  <2>1. node \in [Nodes -> Node]
    BY <1>t DEF Typed
  <2>2. node'[m] = [NoNode EXCEPT !.state = "cleared"]
    BY <1>1, <1>4, <2>1
  <2>3. node'[m] = [state |-> "cleared", hotremove |-> FALSE, ncpus |-> 0]
    BY <2>2 DEF NoNode
  <2>4. node'[m] \in Node
    BY <2>3 DEF Node
  <2>5. \A n \in Nodes : n # m => node'[n] = node[n]
    BY <1>1, <2>1
  <2>6. \A n \in Nodes : node'[n] \in Node
    BY <2>1, <2>4, <2>5
  <2>7. DOMAIN node' = Nodes /\ node' = [n \in DOMAIN node' |-> node'[n]]
    BY <1>1, <2>1
  <2>8. node' \in [Nodes -> Node]
    BY <2>6, <2>7
  <2>9. QED
    BY <2>3, <2>5, <2>8
<1>6. Typed'
  BY <1>t, <1>1, <1>2, <1>3, <1>5 DEF Typed
<1>7. Apart'
  BY <1>t, <1>2 DEF Apart, ApartIn
<1>8. Filling'
  <2>1. \A n \in Nodes : node[n].state # "cleared"
    BY <1>t, <1>1 DEF Filling
  <2>2. \A n \in Nodes : node'[n].state = "cleared" => n = m
    BY <1>5, <2>1
  <2>3. Walking' => raced'
    BY <1>2, <1>3 DEF Walking
  <2>4. QED
    BY <1>1, <1>5, <2>2, <2>3 DEF Filling
<1>9. Planned'
  BY <1>t, <1>1, <1>2 DEF Planned, Walking, Op
<1>10. OfCpus' /\ Booked'
  BY <1>2, <1>3, <1>4, <1>5, SlotsKept
<1>11. Counted'
  <2>1. {n \in Nodes : node'[n].state = "here" /\ ~node'[n].hotremove}
          = {n \in Nodes : node[n].state = "here" /\ ~node[n].hotremove}
    BY <1>4, <1>5
  <2>2. QED
    BY <1>t, <1>2, <2>1 DEF Counted
<1>12. Sized'
  BY <1>t, <1>2 DEF Sized
<1>13. InBounds'
  BY <1>t, <1>2, <1>3 DEF InBounds
<1>14. QED
  BY <1>6, <1>7, <1>8, <1>9, <1>10, <1>11, <1>12, <1>13 DEF IInv

LEMMA RefreshFillStep == IInv /\ RefreshFill => IInv'
<1> SUFFICES ASSUME IInv, RefreshFill PROVE IInv'
  OBVIOUS
<1>t. /\ Typed /\ Apart /\ Planned /\ Filling /\ Sized /\ InBounds /\ Counted
      /\ Booked
  BY DEF IInv
<1>1. PICK m \in seen :
        /\ dpc = "fill" /\ node[m].state = "cleared"
        /\ node' = [node EXCEPT ![m].state = "here"]
        /\ cpus' = [cpus EXCEPT ![m] = CpuarrInit(TRUE)]
  BY DEF RefreshFill
<1>2. /\ UNCHANGED <<present, online, status, task, passes, at, cpuidMax, room,
                     seen, leaked, failures, faults>>
      /\ nnodes' = nnodes + 1 /\ dpc' = "add"
  BY DEF RefreshFill, hardware, perf
<1>3. raced' \in BOOLEAN /\ (raced => raced') /\ (Walking => raced')
  BY RefreshingRaces DEF RefreshFill
<1>4. m \in Nodes /\ node[m].hotremove = FALSE
  <2>1. m \in Nodes
    BY <1>t DEF Typed
  <2>2. node[m].hotremove \in BOOLEAN /\ ~node[m].hotremove
    BY <1>t, <1>1, <2>1 DEF Filling, Typed, Node
  <2>3. QED
    BY <2>1, <2>2
<1>5. ASSUME NEW n \in Nodes
      PROVE  /\ node'[n] \in Node /\ node'[n].hotremove = node[n].hotremove
             /\ node'[n].state = IF n = m THEN "here" ELSE node[n].state
  <2>1. node[n] \in Node /\ node[n].hotremove \in BOOLEAN
    BY <1>t DEF Typed, Node
  <2>2. node'[n] = IF n = m THEN [node[n] EXCEPT !.state = "here"] ELSE node[n]
    BY <1>t, <1>1, <1>4 DEF Typed
  <2>3. CASE n = m
    BY <2>1, <2>2, <2>3 DEF Node
  <2>4. CASE n # m
    BY <2>1, <2>2, <2>4 DEF Node
  <2>5. QED
    BY <2>3, <2>4
<1>6. ASSUME NEW n \in Nodes
      PROVE  cpus'[n] = IF n = m THEN CpuarrInit(TRUE) ELSE cpus[n]
  BY <1>t, <1>1, <1>4 DEF Typed
<1>7. ASSUME NEW n \in Nodes
      PROVE  /\ CpuarrInit(TRUE) \in [Slots -> Cpu] /\ ApartIn(CpuarrInit(TRUE), n)
             /\ \A j \in Slots : /\ CpuarrInit(TRUE)[j].cpu = None
                                 /\ CpuarrInit(TRUE)[j].events = "none"
  <2>1. TRUE \in BOOLEAN
    OBVIOUS
  <2>2. QED
    BY <2>1, BlankArray
<1>8. Typed'
  <2>1. node' \in [Nodes -> Node]
    <3>1. DOMAIN node' = Nodes /\ node' = [n \in DOMAIN node' |-> node'[n]]
      BY <1>t, <1>1 DEF Typed
    <3>2. QED
      BY <1>5, <3>1
  <2>2. cpus' \in [Nodes -> [Slots -> Cpu]]
    <3>1. cpus \in [Nodes -> [Slots -> Cpu]] /\ CpuarrInit(TRUE) \in [Slots -> Cpu]
      BY <1>t, <1>4, <1>7 DEF Typed
    <3>2. QED
      BY <1>1, <3>1
  <2>3. nnodes' \in Int
    BY <1>t, <1>2 DEF Typed
  <2>4. QED
    BY <1>t, <1>2, <1>3, <2>1, <2>2, <2>3 DEF Typed
<1>9. Apart'
  <2>1. ASSUME NEW n \in Nodes PROVE ApartIn(cpus'[n], n)
    <3>1. ApartIn(cpus[n], n)
      BY <1>t DEF Apart
    <3>2. CASE n = m
      BY <1>6, <1>7, <3>2
    <3>3. CASE n # m
      BY <1>6, <3>1, <3>3
    <3>4. QED
      BY <3>2, <3>3
  <2>2. QED
    BY <2>1 DEF Apart, ApartIn
<1>10. Filling'
  <2>1. \A n \in Nodes : node[n].state = "cleared" => n = m
    BY <1>t, <1>1, <1>4 DEF Filling
  <2>2. \A n \in Nodes : node'[n].state # "cleared"
    BY <1>5, <2>1
  <2>3. Walking' => raced'
    BY <1>2, <1>3 DEF Walking
  <2>4. QED
    BY <2>2, <2>3 DEF Filling
<1>11. Planned'
  BY <1>t, <1>1, <1>2 DEF Planned, Walking, Op
<1>12. OfCpus' /\ Booked'
  <2>1. ASSUME NEW n \in Nodes, NEW j \in Slots
        PROVE  \/ cpus'[n][j].events = "none"
               \/ /\ cpus'[n][j].cpu = cpus[n][j].cpu
                  /\ cpus'[n][j].hotadd = cpus[n][j].hotadd
                  /\ cpus'[n][j].events = cpus[n][j].events
                  /\ node[n].state = "here" => node'[n].state = "here"
    BY <1>5, <1>6, <1>7
  <2>2. QED
    BY <1>2, <1>3, <2>1, SlotsKept
<1>13. Counted'
  <2> DEFINE kept == {n \in Nodes : node[n].state = "here" /\ ~node[n].hotremove}
  <2>1. {n \in Nodes : node'[n].state = "here" /\ ~node'[n].hotremove}
          = kept \union {m}
    BY <1>4, <1>5
  <2>2. m \notin kept
    BY <1>1
  <2>3. kept \in SUBSET Nodes
    OBVIOUS
  <2>4. CASE "twice" \in failures
    BY <1>2, <2>4 DEF Counted
  <2>5. CASE nnodes = Cardinality(kept)
    <3> HIDE DEF kept
    <3>1. Cardinality(kept \union {m}) = Cardinality(kept) + 1
      BY <2>2, <2>3, NodesFinite, FS_AddElement
    <3>2. QED
      BY <1>2, <2>1, <2>5, <3>1 DEF Counted
  <2>6. QED
    BY <1>t, <2>4, <2>5 DEF Counted
<1>14. Sized'
  BY <1>t, <1>2, <1>6, <1>7 DEF Sized
<1>15. InBounds'
  BY <1>t, <1>2, <1>3 DEF InBounds
<1>16. QED
  BY <1>8, <1>9, <1>10, <1>11, <1>12, <1>13, <1>14, <1>15 DEF IInv

LEMMA CpuRefreshStep == IInv /\ CpuRefresh => IInv'
<1> SUFFICES ASSUME IInv, CpuRefresh PROVE IInv'
  OBVIOUS
<1>t. /\ Typed /\ Apart /\ Planned /\ Filling /\ Sized /\ InBounds /\ Counted
      /\ Booked
  BY DEF IInv
<1> DEFINE bad == {n \in Nodes : Valid(n) /\
                     (n \in present => ~HasRoom(cpus[n], OnlineOf(n)))}
           reads == {n \in Nodes : Valid(n) /\ \A b \in bad : n < b}
<1>1. /\ dpc = "add"
      /\ cpus' = [n \in Nodes |->
           IF n \in reads THEN CpuarrRefresh(cpus[n], OnlineOf(n), FALSE)
                          ELSE cpus[n]]
      /\ node' = [n \in Nodes |->
           IF n \in reads
           THEN [node[n] EXCEPT !.ncpus = Cardinality(OnlineOf(n))]
           ELSE node[n]]
      /\ \/ /\ bad = {} /\ cpuidMax' = CpuidMax(online, cpuidMax)
            /\ dpc' = "info" /\ failures' = failures
         \/ /\ failures' = failures \union {"refresh"}
            /\ dpc' = "idle" /\ cpuidMax' = cpuidMax
  BY DEF CpuRefresh
<1>2. UNCHANGED <<present, online, status, task, passes, at, nnodes, room,
                  seen, leaked, faults>>
  BY DEF CpuRefresh, hardware, perf
<1>3. raced' \in BOOLEAN /\ (raced => raced') /\ (Walking => raced')
  BY RefreshingRaces DEF CpuRefresh
<1> HIDE DEF bad, reads
<1>4. ASSUME NEW n \in Nodes
      PROVE  /\ node'[n] \in Node /\ node'[n].hotremove = node[n].hotremove
             /\ node'[n].state = node[n].state
  <2>1. node[n] \in Node /\ node[n].hotremove \in BOOLEAN
    BY <1>t DEF Typed, Node
  <2>2. Cardinality(OnlineOf(n)) \in Nat
    BY <1>t, OnlineFinite DEF Typed
  <2>3. CASE n \in reads
    BY <1>1, <2>1, <2>2, <2>3 DEF Node
  <2>4. CASE n \notin reads
    BY <1>1, <2>1, <2>4 DEF Node
  <2>5. QED
    BY <2>3, <2>4
<1>5. ASSUME NEW n \in Nodes
      PROVE  /\ cpus'[n] \in [Slots -> Cpu] /\ ApartIn(cpus'[n], n)
             /\ Renewed(cpus[n], cpus'[n], OnlineOf(n))
  <2> DEFINE arr == cpus[n]
             ids == OnlineOf(n)
  <2>1. arr \in [Slots -> Cpu] /\ ApartIn(arr, n)
    BY <1>t DEF Typed, Apart
  <2>2. ids \in SUBSET {c \in CpuIds : NodeOf[c] = n}
    BY <1>t, OnlineFinite DEF Typed
  <2>3. CASE n \in reads
    <3>1. cpus'[n] = CpuarrRefresh(arr, ids, FALSE)
      BY <1>1, <2>3
    <3>2. FALSE \in BOOLEAN
      OBVIOUS
    <3> HIDE DEF arr, ids
    <3>3. /\ CpuarrRefresh(arr, ids, FALSE) \in [Slots -> Cpu]
          /\ ApartIn(CpuarrRefresh(arr, ids, FALSE), n)
          /\ Renewed(arr, CpuarrRefresh(arr, ids, FALSE), ids)
      BY <2>1, <2>2, <3>2, RefreshRenews
    <3>4. QED
      BY <3>1, <3>3, Zenon DEF arr, ids
  <2>4. CASE n \notin reads
    <3>1. cpus'[n] = cpus[n]
      BY <1>1, <2>4
    <3>2. QED
      BY <2>1, <3>1 DEF Renewed
  <2>5. QED
    BY <2>3, <2>4
<1>6. /\ cpuidMax' \in Nat /\ cpuidMax' >= cpuidMax /\ failures \subseteq failures'
      /\ dpc' \in {"info", "idle"}
      /\ "refresh" \notin failures' => \A c \in online : c <= cpuidMax'
  <2>1. cpuidMax \in Nat /\ online \in SUBSET CpuIds
    BY <1>t DEF Typed
  <2>2. /\ CpuidMax(online, cpuidMax) \in Nat
        /\ CpuidMax(online, cpuidMax) >= cpuidMax
        /\ \A c \in online : CpuidMax(online, cpuidMax) >= c
    BY <2>1, OnlineFinite
  <2>3. \A c \in online : c \in Nat
    BY <2>1, NodeGroupAssumption
  <2>4. CASE cpuidMax' = CpuidMax(online, cpuidMax) /\ failures' = failures
             /\ dpc' = "info"
    BY <2>1, <2>2, <2>3, <2>4
  <2>5. CASE failures' = failures \union {"refresh"} /\ cpuidMax' = cpuidMax
             /\ dpc' = "idle"
    BY <2>1, <2>5
  <2>6. QED
    BY <1>1, <2>4, <2>5
<1>7. Typed'
  <2>1. node' \in [Nodes -> Node]
    BY <1>1, <1>4
  <2>2. cpus' \in [Nodes -> [Slots -> Cpu]]
    BY <1>1, <1>5
  <2>3. QED
    BY <1>t, <1>2, <1>3, <1>6, <2>1, <2>2 DEF Typed
<1>8. Apart'
  BY <1>5 DEF Apart, ApartIn
<1>9. Filling'
  <2>1. \A n \in Nodes : node'[n].state # "cleared"
    BY <1>t, <1>1, <1>4 DEF Filling
  <2>2. Walking' => raced'
    BY <1>2, <1>3 DEF Walking
  <2>3. QED
    BY <2>1, <2>2 DEF Filling
<1>10. Planned'
  <2>1. task \in {None, "smpl"} /\ (Walking => Op = "smpl")
    BY <1>t, <1>1 DEF Planned
  <2>2. QED
    BY <1>t, <1>2, <1>6, <2>1 DEF Planned, Walking, Op
<1>11. OfCpus' /\ Booked'
  <2>1. ASSUME NEW n \in Nodes, NEW j \in Slots
        PROVE  \/ cpus'[n][j].events = "none"
               \/ /\ cpus'[n][j].cpu = cpus[n][j].cpu
                  /\ cpus'[n][j].hotadd = cpus[n][j].hotadd
                  /\ cpus'[n][j].events = cpus[n][j].events
                  /\ node[n].state = "here" => node'[n].state = "here"
    BY <1>4, <1>5 DEF Renewed
  <2>2. QED
    BY <1>2, <1>3, <1>6, <2>1, SlotsKept
<1>12. Counted'
  <2>1. {n \in Nodes : node'[n].state = "here" /\ ~node'[n].hotremove}
          = {n \in Nodes : node[n].state = "here" /\ ~node[n].hotremove}
    BY <1>4
  <2>2. QED
    BY <1>t, <1>2, <1>6, <2>1 DEF Counted
<1>13. Sized'
  <2>1. cpuidMax' >= Max(AtBoot) /\ room' > Max(AtBoot)
    <3>1. cpuidMax \in Nat /\ cpuidMax >= Max(AtBoot) /\ room > Max(AtBoot)
      BY <1>t DEF Typed, Sized
    <3>2. QED
      BY <1>2, <1>6, <3>1, BootMax
  <2>2. ASSUME "refresh" \notin failures', NEW n \in Nodes, NEW j \in Slots,
               cpus'[n][j].cpu # None
        PROVE  cpus'[n][j].cpu <= cpuidMax'
    <3>1. CASE cpus'[n][j].cpu = cpus[n][j].cpu
      <4>1. cpus[n][j].cpu <= cpuidMax
        BY <1>t, <1>6, <2>2, <3>1 DEF Sized
      <4>2. cpus[n][j] \in Cpu
        BY <1>t DEF Typed
      <4>3. cpus[n][j].cpu \in Nat /\ cpuidMax \in Nat
        BY <1>t, <2>2, <3>1, <4>2, NodeGroupAssumption DEF Cpu, Typed
      <4>4. QED
        BY <1>6, <3>1, <4>1, <4>3
    <3>2. CASE cpus'[n][j].cpu \in OnlineOf(n)
      BY <1>6, <2>2, <3>2 DEF OnlineOf
    <3>3. QED
      BY <1>5, <3>1, <3>2 DEF Renewed
  <2>3. QED
    BY <2>1, <2>2 DEF Sized
<1>14. InBounds'
  <2>1. cpuidMax > Max(AtBoot) => cpuidMax' > Max(AtBoot)
    <3>1. cpuidMax \in Nat
      BY <1>t DEF Typed
    <3>2. QED
      BY <1>6, <3>1, BootMax
  <2>2. QED
    BY <1>t, <1>2, <1>3, <1>6, <2>1 DEF InBounds
<1>15. QED
  BY <1>7, <1>8, <1>9, <1>10, <1>11, <1>12, <1>13, <1>14 DEF IInv

\* The walks of a task are in order.
LEMMA StartOrder ==
  ASSUME NEW k \in Kinds, NEW s
  PROVE  /\ StartWalks(k) \in Seq(Ops \X Kinds) /\ StartWalks(k) # <<>>
         /\ InOrder(StartWalks(k), s)
         /\ StartWalks(k)[1] = <<"setup", k>>
<1>1. CASE k = "profiling"
  <2>1. StartWalks(k) = <<<<"setup", k>>, <<"stop", k>>, <<"start", k>>>>
    BY <1>1 DEF StartWalks, Pass
  <2>2. QED
    BY <2>1 DEF Ops, InOrder, Leads
<1>2. CASE k = "ll"
  <2>1. StartWalks(k) = <<<<"setup", k>>, <<"start", k>>>>
    BY <1>2 DEF StartWalks, Pass
  <2>2. QED
    BY <2>1 DEF Ops, InOrder, Leads
<1>3. QED
  BY <1>1, <1>2 DEF Kinds

LEMMA SwitchOrder ==
  ASSUME NEW k \in Kinds, NEW s \in Kinds, NEW t
  PROVE  LET ps == <<Pass("stop", s), Pass("free", s)>> \o StartWalks(k)
         IN  /\ ps \in Seq(Ops \X Kinds) /\ ps # <<>> /\ InOrder(ps, t)
             /\ ps[1] = <<"stop", s>>
<1> DEFINE h == <<Pass("stop", s), Pass("free", s)>>
           b == StartWalks(k)
           ps == h \o b
<1>1. /\ h \in Seq(Ops \X Kinds) /\ Len(h) = 2
      /\ h[1] = <<"stop", s>> /\ h[2] = <<"free", s>>
  BY DEF Pass, Ops
<1>2. /\ b \in Seq(Ops \X Kinds) /\ b # <<>> /\ InOrder(b, t)
      /\ b[1] = <<"setup", k>>
  BY StartOrder
<1> HIDE DEF h, b
<1>3. /\ ps \in Seq(Ops \X Kinds) /\ Len(ps) = 2 + Len(b)
      /\ \A i \in 1 .. Len(ps) : ps[i] = IF i <= 2 THEN h[i] ELSE b[i - 2]
  <2>1. /\ h \o b \in Seq(Ops \X Kinds)
        /\ Len(h \o b) = Len(h) + Len(b)
        /\ \A i \in 1 .. Len(h) + Len(b) : (h \o b)[i] =
              IF i <= Len(h) THEN h[i] ELSE b[i - Len(h)]
    <3>1. h \in Seq(Ops \X Kinds) /\ b \in Seq(Ops \X Kinds)
      BY <1>1, <1>2
    <3>2. QED
      BY <3>1, ConcatProperties, Zenon
  <2> HIDE DEF ps
  <2>2. ps = h \o b
    BY DEF ps
  <2>3. QED
    BY <1>1, <2>1, <2>2
<1> HIDE DEF ps
<1>4. Len(b) \in Nat \ {0} /\ DOMAIN b = 1 .. Len(b) /\ DOMAIN ps = 1 .. Len(ps)
  BY <1>2, <1>3
<1>5. ps[1] = <<"stop", s>> /\ ps[2] = <<"free", s>> /\ ps[3] = <<"setup", k>>
  BY <1>1, <1>2, <1>3, <1>4
<1>6. InOrder(ps, t)
  <2> SUFFICES ASSUME NEW i \in DOMAIN ps
               PROVE  /\ ps[i][1] \in {"smpl", "restore"} =>
                           Len(ps) = 1 /\ ps[i][2] = t
                      /\ ps[i][1] \in {"smpl", "restore", "start"}
                           <=> i = Len(ps)
                      /\ i < Len(ps) => Leads(ps[i], ps[i + 1])
    BY DEF InOrder
  <2>1. CASE i = 1
    BY <1>3, <1>4, <1>5, <2>1 DEF Leads
  <2>2. CASE i = 2
    BY <1>3, <1>4, <1>5, <2>2 DEF Leads
  <2>3. CASE i # 1 /\ i # 2
    <3>1. i - 2 \in DOMAIN b /\ ps[i] = b[i - 2] /\ i \in Int
      BY <1>3, <1>4, <2>3
    <3>2. i < Len(ps) => ps[i + 1] = b[(i - 2) + 1]
      BY <1>3, <1>4, <2>3
    <3>3. /\ b[i - 2][1] \notin {"smpl", "restore"}
          /\ b[i - 2][1] = "start" <=> i - 2 = Len(b)
          /\ i - 2 < Len(b) => Leads(b[i - 2], b[(i - 2) + 1])
      <4>1. CASE Len(b) = 1
        BY <1>2, <1>4, <3>1, <4>1 DEF InOrder
      <4>2. CASE Len(b) # 1
        BY <1>2, <1>4, <3>1, <4>2 DEF InOrder
      <4>3. QED
        BY <4>1, <4>2
    <3>4. i < Len(ps) <=> i - 2 < Len(b)
      BY <1>3, <1>4, <3>1
    <3>5. i = Len(ps) <=> i - 2 = Len(b)
      BY <1>3, <1>4, <3>1
    <3>6. QED
      BY <3>1, <3>2, <3>3, <3>4, <3>5
  <2>4. QED
    BY <2>1, <2>2, <2>3
<1>7. ps # <<>>
  BY <1>3, <1>4
<1>8. QED
  BY <1>3, <1>5, <1>6, <1>7 DEF ps, h, b

LEMMA TakeTaskStep == IInv /\ TakeTask => IInv'
<1> SUFFICES ASSUME IInv, TakeTask PROVE IInv'
  OBVIOUS
<1>t. /\ Typed /\ Apart /\ Planned /\ Filling /\ Sized /\ InBounds /\ Counted
      /\ Booked /\ OfCpus
  BY DEF IInv
<1>1. /\ dpc # "dead" /\ task # None /\ passes = <<>> /\ at = <<0, 1>>
      /\ passes' = CASE task \in Kinds  -> StopWalks \o StartWalks(task)
                     [] task = "smpl"   -> <<Pass("smpl", status)>>
                     [] task = "restore" -> <<Pass("restore", status)>>
      /\ task' = None
      /\ raced' = (raced \/ dpc \notin {"idle", "wait"})
      /\ UNCHANGED <<present, online, node, cpus, nnodes, cpuidMax, dpc, seen,
                     room, status, at, leaked, failures, faults>>
  BY <1>t DEF TakeTask, Alive, Walking, Planned, hardware, group, disp
<1>2. raced' \in BOOLEAN /\ (raced => raced')
      /\ (dpc \notin {"idle", "wait"} => raced')
  <2>1. (raced \/ dpc \notin {"idle", "wait"}) \in BOOLEAN
    BY Zenon
  <2>2. QED
    BY <1>1, <2>1, Zenon
<1>3. /\ passes' \in Seq(Ops \X Kinds) /\ passes' # <<>>
      /\ InOrder(passes', status)
      /\ \/ passes'[1] = <<"smpl", status>> /\ status \in Kinds /\ task = "smpl"
         \/ passes'[1] = <<"restore", status>> /\ status \in Kinds
            /\ task = "restore"
         \/ passes'[1] = <<"stop", status>> /\ status \in Kinds /\ task \in Kinds
         \/ passes'[1][1] = "setup" /\ status = "none" /\ task \in Kinds
  <2>1. task \in Kinds \union {"smpl", "restore"}
    BY <1>t, <1>1 DEF Planned
  <2>2. CASE task = "smpl"
    <3>1. passes' = <<<<"smpl", status>>>> /\ status \in Kinds
      BY <1>t, <1>1, <2>2 DEF Planned, Pass, Kinds
    <3>2. QED
      BY <2>2, <3>1 DEF InOrder, Ops
  <2>3. CASE task = "restore"
    <3>1. passes' = <<<<"restore", status>>>> /\ status \in Kinds
      BY <1>t, <1>1, <2>3 DEF Planned, Pass, Kinds
    <3>2. QED
      BY <2>3, <3>1 DEF InOrder, Ops
  <2>4. CASE task \in Kinds
    <3>1. passes' = StopWalks \o StartWalks(task)
      BY <1>1, <2>4 DEF Kinds
    <3>2. CASE status \in Kinds
      <4>1. passes' = <<Pass("stop", status), Pass("free", status)>>
                        \o StartWalks(task)
        BY <3>1, <3>2 DEF StopWalks
      <4>2. QED
        BY <2>4, <3>2, <4>1, SwitchOrder
    <3>3. CASE status \notin Kinds
      <4>1. StartWalks(task) \in Seq(Ops \X Kinds)
        BY <2>4, StartOrder
      <4>2. passes' = <<>> \o StartWalks(task)
        BY <3>1, <3>3 DEF StopWalks
      <4>3. passes' = StartWalks(task)
        BY <4>1, <4>2
      <4>4. status = "none"
        BY <1>t, <3>3 DEF Typed
      <4>5. QED
        BY <2>4, <4>3, <4>4, StartOrder
    <3>4. QED
      BY <3>2, <3>3
  <2>5. QED
    BY <2>1, <2>2, <2>3, <2>4
<1>4. Typed'
  BY <1>t, <1>1, <1>2, <1>3 DEF Typed
<1>5. Apart' /\ OfCpus' /\ Counted' /\ Sized'
  BY <1>t, <1>1 DEF Apart, ApartIn, OfCpus, Counted, Sized
<1>6. Filling'
  BY <1>t, <1>1, <1>2 DEF Filling
<1>7. Planned'
  <2>1. task' \in Kinds \union {"smpl", "restore", None}
        /\ task' \in {None, "smpl"} /\ task' \notin {"smpl", "restore"}
    BY <1>1, NodeGroupAssumption
  <2>2. dpc \notin {"wait", "dead"} => passes'[1][1] = "smpl"
    BY <1>t, <1>1, <1>3, NodeGroupAssumption DEF Planned, Kinds
  <2>3. QED
    BY <1>1, <1>3, <2>1, <2>2 DEF Planned, Walking, Op
<1>8. Booked'
  <2>1. SUFFICES ASSUME Sound'
                 PROVE  /\ ~leaked'
                        /\ \A n \in Nodes, j \in Slots :
                             cpus'[n][j].events # "none" =>
                               /\ cpus'[n][j].events \in MayBeOpen(n, j)'
                               /\ node'[n].state = "here"
    BY DEF Booked
  <2>2. Sound
    BY <1>1, <1>2, <2>1 DEF Sound
  <2>3. ASSUME NEW n \in Nodes, NEW j \in Slots, cpus[n][j].events # "none"
        PROVE  status \in MayBeOpen(n, j)' /\ cpus[n][j].events = status
    <3>1. cpus[n][j].events = status /\ status # "none"
      BY <1>t, <1>1, <2>2, <2>3 DEF Booked, MayBeOpen, Walking
    <3>2. Op' \in {"smpl", "restore", "stop"} /\ Kind' = status
      BY <1>3, <3>1 DEF Op, Kind
    <3>3. QED
      BY <1>3, <3>1, <3>2 DEF MayBeOpen, Walking
  <2>4. QED
    BY <1>t, <1>1, <2>2, <2>3 DEF Booked
<1>9. InBounds'
  BY <1>t, <1>1, <1>2 DEF InBounds
<1>10. QED
  BY <1>4, <1>5, <1>6, <1>7, <1>8, <1>9 DEF IInv

\* A walk that is over is followed by one that fits it, or is the last.
LEMMA PassOver ==
  ASSUME Typed, Planned, Walking
  PROVE  /\ Op \in Ops /\ Kind \in Kinds
         /\ Op \in {"smpl", "restore"} => Tail(passes) = <<>> /\ Kind = status
         /\ Op = "start" => Tail(passes) = <<>>
         /\ Op \in {"stop", "free", "setup"} =>
              /\ Tail(passes) # <<>>
              /\ Leads(passes[1], Tail(passes)[1])
         /\ Tail(passes) \in Seq(Ops \X Kinds)
         /\ Op # "smpl" /\ Tail(passes) # <<>> => Tail(passes)[1][1] # "smpl"
         /\ InOrder(Tail(passes), IF Op = "start" THEN Kind ELSE status)
<1>1. /\ passes \in Seq(Ops \X Kinds) /\ passes # <<>> /\ InOrder(passes, status)
  BY DEF Typed, Planned, Walking
<1>2. /\ Len(passes) \in Nat \ {0} /\ DOMAIN passes = 1 .. Len(passes)
      /\ 1 \in DOMAIN passes
  BY <1>1
<1>3. Op \in Ops /\ Kind \in Kinds
  BY <1>1, <1>2 DEF Op, Kind
<1>4. /\ Tail(passes) \in Seq(Ops \X Kinds) /\ Len(Tail(passes)) = Len(passes) - 1
      /\ \A i \in 1 .. Len(Tail(passes)) : Tail(passes)[i] = passes[i + 1]
  BY <1>1
<1>5. /\ Op \in {"smpl", "restore"} => Len(passes) = 1 /\ Kind = status
      /\ Op \in {"smpl", "restore", "start"} <=> 1 = Len(passes)
      /\ 1 < Len(passes) => Leads(passes[1], passes[1 + 1])
  BY <1>1, <1>2 DEF InOrder, Op, Kind
<1>6. Len(passes) = 1 => Tail(passes) = <<>>
  BY <1>4
<1>7. ASSUME Len(passes) # 1
      PROVE  Tail(passes) # <<>> /\ Tail(passes)[1] = passes[1 + 1]
  <2>1. 1 \in 1 .. Len(Tail(passes)) /\ Len(Tail(passes)) # 0
    BY <1>2, <1>4, <1>7
  <2>2. Tail(passes)[1] = passes[1 + 1]
    BY <1>4, <2>1
  <2>3. Len(<<>>) = 0
    OBVIOUS
  <2>4. Tail(passes) # <<>>
    BY <2>1, <2>3, Zenon
  <2>5. QED
    BY <2>2, <2>4
<1>8. InOrder(Tail(passes), IF Op = "start" THEN Kind ELSE status)
  <2> DEFINE ps == Tail(passes)
             s == IF Op = "start" THEN Kind ELSE status
  <2>1. SUFFICES ASSUME NEW i \in DOMAIN ps
                 PROVE  /\ ps[i][1] \in {"smpl", "restore"} =>
                             Len(ps) = 1 /\ ps[i][2] = s
                        /\ ps[i][1] \in {"smpl", "restore", "start"}
                             <=> i = Len(ps)
                        /\ i < Len(ps) => Leads(ps[i], ps[i + 1])
    BY DEF InOrder
  <2> HIDE DEF s
  <2>2. /\ i \in Int /\ i + 1 \in DOMAIN passes /\ ps[i] = passes[i + 1]
        /\ i + 1 > 1 /\ Len(passes) # 1
    BY <1>1, <1>2, <1>4, <2>1
  <2>3. /\ passes[i + 1][1] \notin {"smpl", "restore"}
        /\ passes[i + 1][1] = "start" <=> i + 1 = Len(passes)
        /\ i + 1 < Len(passes) => Leads(passes[i + 1], passes[(i + 1) + 1])
    BY <1>1, <2>2 DEF InOrder
  <2>4. i < Len(ps) => ps[i + 1] = passes[(i + 1) + 1]
    BY <1>1, <1>2, <1>4, <2>1, <2>2
  <2>5. /\ i < Len(ps) <=> i + 1 < Len(passes)
        /\ i = Len(ps) <=> i + 1 = Len(passes)
    BY <1>2, <1>4, <2>2
  <2> HIDE DEF ps
  <2>6. QED
    BY <2>2, <2>3, <2>4, <2>5
<1>9. Op # "smpl" /\ Tail(passes) # <<>> => Tail(passes)[1][1] # "smpl"
  <2>1. SUFFICES ASSUME Tail(passes) # <<>>, Tail(passes)[1][1] = "smpl"
                 PROVE  FALSE
    OBVIOUS
  <2>2. Len(passes) # 1
    BY <1>6, <2>1
  <2>3. Leads(passes[1], passes[1 + 1]) /\ passes[1 + 1][1] = "smpl"
    BY <1>2, <1>5, <1>7, <2>1, <2>2
  <2>4. QED
    BY <2>3 DEF Leads
<1>10. Op \in {"stop", "free", "setup"} =>
         Tail(passes) # <<>> /\ Leads(passes[1], Tail(passes)[1])
  BY <1>2, <1>5, <1>7
<1>11. QED
  BY <1>3, <1>4, <1>5, <1>6, <1>8, <1>9, <1>10

\* What may be open where the walk has been, and where it has not.
OpenBehind == IF Op = "free" THEN {} ELSE {Kind}
OpenAhead == IF Op = "setup" THEN {} ELSE {Kind}

\* Going on to the next node, or to the next walk, keeps the plan, and what may
\* have been left open, may be open.
LEMMA GoOnKeeps ==
  ASSUME Typed, Planned, Walk, GoOn(N + 1), task' = task, dpc' = dpc
  PROVE  /\ passes' \in Seq(Ops \X Kinds) /\ at' \in Nodes \X Slots
         /\ status' \in Kinds \union {"none"}
         /\ Planned'
         /\ Walking' => Walking
         /\ \A n \in Nodes, j \in Slots :
              /\ n <= N => OpenBehind \subseteq MayBeOpen(n, j)'
              /\ ~(n <= N) => OpenAhead \subseteq MayBeOpen(n, j)'
<1>1. N \in Nodes /\ J \in Slots /\ Walking
  BY DEF Typed, N, J, Walk
<1>2. MaxNode \in Nat /\ Nodes = 0 .. MaxNode /\ 0 \in Nodes /\ N \in Nat
  BY <1>1, NodeGroupAssumption DEF Nodes
<1>3. CASE N + 1 <= MaxNode
  <2>1. at' = <<N + 1, 1>> /\ passes' = passes /\ status' = status
    BY <1>3 DEF GoOn
  <2>2. at' \in Nodes \X Slots /\ N' = N + 1 /\ J' = 1
    BY <1>2, <1>3, <2>1, SlotsFinite DEF N, J
  <2>3. Planned' /\ Walking' = Walking
    BY <1>1, <2>1 DEF Planned, Walking, Op
  <2>4. ASSUME NEW n \in Nodes, NEW j \in Slots
        PROVE  /\ n <= N => OpenBehind \subseteq MayBeOpen(n, j)'
               /\ ~(n <= N) => OpenAhead \subseteq MayBeOpen(n, j)'
    <3>1. n \in Nat /\ j \in Nat /\ j >= 1
      BY <1>2, SlotsFinite DEF Slots
    <3>2. Visited(n, j)' <=> n <= N
      BY <1>2, <2>2, <3>1 DEF Visited
    <3>3. Op' = Op /\ Kind' = Kind /\ Walking'
      BY <1>1, <2>1 DEF Op, Kind, Walking
    <3>4. MayBeOpen(n, j)' = IF \/ Op' = "free" /\ Visited(n, j)'
                                \/ Op' = "setup" /\ ~Visited(n, j)'
                             THEN {} ELSE {Kind'}
      BY <3>3 DEF MayBeOpen
    <3>5. QED
      BY <3>2, <3>3, <3>4 DEF OpenBehind, OpenAhead
  <2>5. QED
    BY <1>1, <2>1, <2>2, <2>3, <2>4 DEF Typed
<1>4. CASE ~(N + 1 <= MaxNode)
  <2>1. /\ at' = <<0, 1>> /\ passes' = Tail(passes)
        /\ status' = IF Op = "start" THEN Kind ELSE status
    BY <1>4 DEF GoOn
  <2>2. /\ Op \in Ops /\ Kind \in Kinds
        /\ Op \in {"smpl", "restore"} => passes' = <<>> /\ Kind = status
        /\ Op = "start" => passes' = <<>>
        /\ Op \in {"stop", "free", "setup"} =>
             passes' # <<>> /\ Leads(passes[1], passes'[1])
        /\ passes' \in Seq(Ops \X Kinds)
        /\ Op # "smpl" /\ passes' # <<>> => passes'[1][1] # "smpl"
        /\ InOrder(passes', status')
    BY <1>1, <2>1, PassOver
  <2>3. at' \in Nodes \X Slots /\ N' = 0 /\ J' = 1
    BY <1>2, <2>1, SlotsFinite DEF N, J
  <2>4. status' \in Kinds \union {"none"}
    BY <2>1, <2>2 DEF Typed
  <2>5. Planned'
    <3>1. passes' # <<>> => passes'[1][1] # "smpl" /\ Op # "smpl"
      BY <2>2
    <3>2. Walking' /\ Op' # "smpl" => task' = None
      BY <1>1, <3>1 DEF Planned, Op, Walking
    <3>3. dpc' \notin {"wait", "dead"} =>
            task' \in {None, "smpl"} /\ (Walking' => Op' = "smpl")
      BY <1>1, <3>1 DEF Planned, Op, Walking
    <3>4. task' \in {"smpl", "restore"} => status' \in Kinds
      BY <1>1, <2>1, <2>2 DEF Planned
    <3>5. QED
      BY <2>1, <2>2, <3>2, <3>3, <3>4 DEF Planned
  <2>6. ASSUME NEW n \in Nodes, NEW j \in Slots
        PROVE  /\ n <= N => OpenBehind \subseteq MayBeOpen(n, j)'
               /\ ~(n <= N) => OpenAhead \subseteq MayBeOpen(n, j)'
    <3>1. n <= N
      BY <1>2, <1>4
    <3>2. ~Visited(n, j)'
      BY <1>2, <2>3, SlotsFinite DEF Visited, Slots
    <3>3. CASE passes' = <<>>
      <4>1. Kind = status'
        BY <2>1, <2>2, <3>3 DEF Ops
      <4>2. MayBeOpen(n, j)' = {status'}
        BY <3>3 DEF MayBeOpen, Walking
      <4>3. QED
        BY <3>1, <4>1, <4>2 DEF OpenBehind
    <3>4. CASE passes' # <<>>
      <4>1. Op \in {"stop", "free", "setup"} /\ Leads(passes[1], passes'[1])
        BY <2>2, <3>4 DEF Ops
      <4>2. \/ Op = "free" /\ Op' = "setup"
            \/ Op' \in {"free", "start", "stop"} /\ Kind' = Kind
        BY <4>1 DEF Leads, Op, Kind
      <4>3. MayBeOpen(n, j)' = IF Op' = "setup" THEN {} ELSE {Kind'}
        BY <3>2, <3>4 DEF MayBeOpen, Walking
      <4>4. QED
        BY <3>1, <4>2, <4>3 DEF OpenBehind
    <3>5. QED
      BY <3>3, <3>4
  <2>7. QED
    BY <1>1, <2>2, <2>3, <2>4, <2>5, <2>6
<1>5. QED
  BY <1>3, <1>4

LEMMA SkipNodeStep == IInv /\ SkipNode => IInv'
<1> SUFFICES ASSUME IInv, SkipNode PROVE IInv'
  OBVIOUS
<1>t. /\ Typed /\ Apart /\ Planned /\ Filling /\ Sized /\ InBounds /\ Counted
      /\ Booked /\ OfCpus
  BY DEF IInv
<1>1. /\ Walk /\ ~Valid(N) /\ GoOn(N + 1)
      /\ UNCHANGED <<present, online, node, cpus, nnodes, cpuidMax, dpc, seen,
                     room, task, leaked, failures, raced, faults>>
  BY DEF SkipNode, hardware, group, disp, marks
<1>2. /\ passes' \in Seq(Ops \X Kinds) /\ at' \in Nodes \X Slots
      /\ status' \in Kinds \union {"none"} /\ Planned' /\ (Walking' => Walking)
      /\ \A n \in Nodes, j \in Slots :
           /\ n <= N => OpenBehind \subseteq MayBeOpen(n, j)'
           /\ ~(n <= N) => OpenAhead \subseteq MayBeOpen(n, j)'
  BY <1>t, <1>1, GoOnKeeps
<1>3. Typed'
  BY <1>t, <1>1, <1>2 DEF Typed
<1>4. Apart' /\ OfCpus' /\ Counted' /\ Sized' /\ InBounds'
  BY <1>t, <1>1 DEF Apart, ApartIn, OfCpus, Counted, Sized, InBounds
<1>5. Filling'
  BY <1>t, <1>1, <1>2 DEF Filling
<1>6. Booked'
  <2> SUFFICES ASSUME Sound, NEW n \in Nodes, NEW j \in Slots,
                      cpus[n][j].events # "none"
               PROVE  cpus[n][j].events \in MayBeOpen(n, j)'
    BY <1>t, <1>1 DEF Booked, Sound
  <2>1. /\ cpus[n][j].events \in MayBeOpen(n, j) /\ node[n].state = "here"
    BY <1>t DEF Booked
  <2>2. n # N /\ Walking
    BY <1>1, <2>1 DEF Valid, Walk
  <2>3. n \in Int /\ N \in Int
    BY <1>t, NodeGroupAssumption DEF Typed, N, Nodes
  <2>4. Visited(n, j) <=> n <= N
    BY <2>2, <2>3 DEF Visited
  <2>5. cpus[n][j].events \in IF n <= N THEN OpenBehind ELSE OpenAhead
    BY <2>1, <2>2, <2>4 DEF MayBeOpen, OpenBehind, OpenAhead
  <2>6. QED
    BY <1>2, <2>5
<1>7. QED
  BY <1>2, <1>3, <1>4, <1>5, <1>6 DEF IInv

\* The process ends where it is.
Crashes == Walk /\ \/ node[N].state = "cleared" /\ Crash("walk")
                   \/ node[N].state = "here" /\ Crash("unmapped")

LEMMA CrashesStep == IInv /\ Crashes => IInv'
<1> SUFFICES ASSUME IInv, Crashes PROVE IInv'
  OBVIOUS
<1>t. /\ Typed /\ Planned /\ Filling /\ InBounds
  BY DEF IInv
<1>1. /\ Walk /\ dpc' = "dead"
      /\ UNCHANGED <<group, room, status, passes, at, leaked>>
      /\ UNCHANGED <<present, online, task, seen, failures, raced>>
      /\ \/ faults' = faults \union {"unmapped"}
         \/ faults' = faults \union {"walk"} /\ node[N].state = "cleared"
  BY DEF Crashes, Crash, hardware, perf
<1>2. Apart' /\ OfCpus' /\ Booked' /\ Counted' /\ Sized'
  BY <1>1, GroupKept
<1>3. Typed'
  BY <1>t, <1>1 DEF Typed, group
<1>4. Filling'
  BY <1>t, <1>1 DEF Filling, group, Walking
<1>5. Planned'
  BY <1>t, <1>1 DEF Planned, Walking, Op
<1>6. node[N].state = "cleared" => raced
  <2>1. N \in Nodes
    BY <1>t DEF Typed, N
  <2>2. QED
    BY <1>t, <1>1, <2>1 DEF Filling, Walk, Alive
<1>7. InBounds'
  BY <1>t, <1>1, <1>6 DEF InBounds, group
<1>8. QED
  BY <1>2, <1>3, <1>4, <1>5, <1>7 DEF IInv

\* What a visit may make of the CPU it is at: its slot may be emptied, and its
\* events closed or set up.
Turned(c) ==
  /\ c \in Cpu /\ c.cpu \in {None, Here.cpu}
  /\ c.cpu = None \/ c.hotadd => c.events = "none"
  /\ c.events # "none" =>
       Op # "free" /\ c.events \in {Here.events, Kind}
  /\ Op = "setup" => c.events \in {"none", Kind}

\* A visit after which the walk goes on.
Moves(c) ==
  /\ OnCpu /\ Turned(c) /\ Leave(c)
  /\ \E what \in {{}, {"cpu"}} : Fails(what)
  /\ UNCHANGED <<present, online, dpc, seen, nnodes, cpuidMax, task, raced>>
  /\ \/ leaked' = leaked
     \/ Op = "setup" /\ leaked' = (leaked \/ Here.events # "none")
  /\ room' = room \/ room' = cpuidMax + 1
  /\ \/ faults' = faults
     \/ /\ faults' = faults \union {"grow"}
        /\ Here.cpu # None /\ ~(Here.cpu <= cpuidMax)

LEMMA MovesStep == ASSUME IInv, NEW c, Moves(c) PROVE IInv'
<1>t. /\ Typed /\ Apart /\ Planned /\ Filling /\ Sized /\ InBounds /\ Counted
      /\ Booked /\ OfCpus
  BY DEF IInv
<1>1. /\ OnCpu /\ Leave(c)
      /\ c \in Cpu /\ c.cpu \in {None, Here.cpu}
      /\ c.cpu = None \/ c.hotadd => c.events = "none"
      /\ c.events # "none" => Op # "free" /\ c.events \in {Here.events, Kind}
      /\ Op = "setup" => c.events \in {"none", Kind}
      /\ failures \union GivenUp \subseteq failures'
      /\ UNCHANGED <<present, online, dpc, seen, nnodes, cpuidMax, task, raced>>
  BY DEF Moves, Turned, Fails
<1>2. /\ N \in Nodes /\ J \in Slots /\ Walking /\ dpc # "dead" /\ Walk
      /\ node[N].state = "here" /\ at = <<N, J>>
  BY <1>t, <1>1 DEF Typed, N, J, OnCpu, Walk, Alive
<1>3. \A n \in Nodes, j \in Slots :
        cpus'[n][j] = IF n = N /\ j = J THEN c ELSE cpus[n][j]
  BY <1>t, <1>1, <1>2 DEF Leave, Typed
<1>4. /\ Cardinality(CpuIds) \in Nat /\ Slots = 1 .. Cardinality(CpuIds)
      /\ J \in Nat /\ J >= 1 /\ J <= Cardinality(CpuIds)
  BY <1>2, SlotsFinite DEF Slots
<1>5. \/ /\ J < Cardinality(CpuIds)
         /\ at' = <<N, J + 1>> /\ UNCHANGED <<node, passes, status>>
      \/ /\ J = Cardinality(CpuIds)
         /\ node' = IF node[N].hotremove THEN [node EXCEPT ![N] = NoNode]
                                         ELSE node
         /\ GoOn(N + 1)
  BY <1>1, <1>4 DEF Leave
<1>6. ASSUME NEW n \in Nodes
      PROVE  \/ node'[n] = node[n]
             \/ /\ n = N /\ node'[n] = NoNode /\ node[n].hotremove
                /\ J = Cardinality(CpuIds)
  BY <1>t, <1>2, <1>5 DEF Typed
<1>7. NoNode \in Node /\ NoNode.state = "invalid"
  BY DEF NoNode, Node
<1>8. /\ passes' \in Seq(Ops \X Kinds) /\ at' \in Nodes \X Slots
      /\ status' \in Kinds \union {"none"} /\ Planned' /\ (Walking' => Walking)
  <2>1. CASE J < Cardinality(CpuIds)
    <3>1. at' = <<N, J + 1>> /\ passes' = passes /\ status' = status
      BY <1>4, <1>5, <2>1
    <3>2. J + 1 \in Slots
      BY <1>4, <2>1
    <3>3. at' \in Nodes \X Slots
      BY <1>2, <3>1, <3>2
    <3>4. Planned' /\ Walking' = Walking
      BY <1>t, <1>1, <1>2, <3>1 DEF Planned, Walking, Op
    <3>5. QED
      BY <1>t, <1>2, <3>1, <3>3, <3>4 DEF Typed
  <2>2. CASE J = Cardinality(CpuIds)
    BY <1>t, <1>1, <1>2, <1>4, <1>5, <2>2, GoOnKeeps
  <2>3. QED
    BY <1>4, <2>1, <2>2
<1>9. leaked' \in BOOLEAN
  <2>1. (leaked \/ Here.events # "none") \in BOOLEAN /\ leaked \in BOOLEAN
    <3>1. leaked \in BOOLEAN
      BY <1>t DEF Typed
    <3>2. (leaked \/ Here.events # "none") \in BOOLEAN
      BY Zenon
    <3>3. QED
      BY <3>1, <3>2
  <2>2. leaked' = leaked \/ leaked' = (leaked \/ Here.events # "none")
    BY DEF Moves
  <2>3. CASE leaked' = leaked
    BY <2>1, <2>3
  <2>4. CASE leaked' = (leaked \/ Here.events # "none")
    BY <2>1, <2>4
  <2>5. QED
    BY <2>2, <2>3, <2>4
<1>10. room' \in Nat /\ room' > Max(AtBoot)
  <2>1. /\ room \in Nat /\ room > Max(AtBoot)
        /\ cpuidMax \in Nat /\ cpuidMax >= Max(AtBoot)
    BY <1>t DEF Typed, Sized
  <2>2. QED
    BY <2>1, BootMax DEF Moves
<1>11. Typed'
  <2>1. node' \in [Nodes -> Node]
    <3>1. \A n \in Nodes : node'[n] \in Node
      BY <1>t, <1>6, <1>7 DEF Typed
    <3>2. DOMAIN node' = Nodes /\ node' = [n \in DOMAIN node' |-> node'[n]]
      BY <1>t, <1>5 DEF Typed
    <3>3. QED
      BY <3>1, <3>2
  <2>2. cpus' \in [Nodes -> [Slots -> Cpu]]
    <3>1. cpus' = [cpus EXCEPT ![N][J] = c] /\ cpus \in [Nodes -> [Slots -> Cpu]]
      BY <1>t, <1>1 DEF Leave, Typed
    <3>2. QED
      BY <1>1, <1>2, <3>1
  <2>3. QED
    BY <1>t, <1>1, <1>8, <1>9, <1>10, <2>1, <2>2 DEF Typed
<1>12. Apart'
  <2> SUFFICES ASSUME NEW n \in Nodes PROVE ApartIn(cpus'[n], n)
    BY DEF Apart, ApartIn
  <2>1. ApartIn(cpus[n], n)
    BY <1>t DEF Apart
  <2>2. \A j \in Slots : \/ cpus'[n][j].cpu = cpus[n][j].cpu
                         \/ cpus'[n][j].cpu = None
    BY <1>1, <1>2, <1>3 DEF Here
  <2>3. QED
    BY <2>1, <2>2 DEF ApartIn
<1>13. OfCpus'
  BY <1>t, <1>1, <1>3 DEF OfCpus
<1>14. Filling'
  BY <1>t, <1>1, <1>2, <1>6, <1>7, <1>8 DEF Filling
<1>15. Counted'
  <2>1. {n \in Nodes : node'[n].state = "here" /\ ~node'[n].hotremove}
          = {n \in Nodes : node[n].state = "here" /\ ~node[n].hotremove}
    BY <1>6, <1>7
  <2>2. QED
    BY <1>t, <1>1, <2>1 DEF Counted
<1>16. Sized'
  <2>1. ASSUME "refresh" \notin failures', NEW n \in Nodes, NEW j \in Slots,
               cpus'[n][j].cpu # None
        PROVE  cpus'[n][j].cpu <= cpuidMax'
    <3>1. cpus'[n][j].cpu = cpus[n][j].cpu
      BY <1>1, <1>2, <1>3, <2>1 DEF Here
    <3>2. QED
      BY <1>t, <1>1, <2>1, <3>1 DEF Sized
  <2>2. QED
    BY <1>t, <1>1, <1>10, <2>1 DEF Sized
<1>17. InBounds'
  <2>1. \/ faults' = faults
        \/ faults' = faults \union {"grow"} /\ "refresh" \in failures
    <3>1. Here.cpu # None /\ ~(Here.cpu <= cpuidMax) => "refresh" \in failures
      BY <1>t, <1>2 DEF Sized, Here
    <3>2. QED
      BY <3>1 DEF Moves
  <2>2. QED
    BY <1>t, <1>1, <2>1 DEF InBounds
<1>18. Booked'
  <2> SUFFICES ASSUME Sound'
               PROVE  /\ ~leaked'
                      /\ \A n \in Nodes, j \in Slots :
                           cpus'[n][j].events # "none" =>
                             /\ cpus'[n][j].events \in MayBeOpen(n, j)'
                             /\ node'[n].state = "here"
    BY DEF Booked
  <2>1. Sound /\ "node" \notin failures'
    BY <1>1 DEF Sound
  <2>2. /\ ~leaked
        /\ \A n \in Nodes, j \in Slots : cpus[n][j].events # "none" =>
             /\ cpus[n][j].events \in MayBeOpen(n, j)
             /\ node[n].state = "here"
    BY <1>t, <2>1 DEF Booked
  <2>3. ~Visited(N, J)
    BY <1>2, <1>4, NodeGroupAssumption DEF Visited, Nodes
  <2>4. Here.events # "none" => Op # "setup" /\ Here.events = Kind
    BY <1>2, <2>2, <2>3 DEF MayBeOpen, Here
  <2>5. ~leaked'
    BY <2>2, <2>4 DEF Moves
  <2>6. c.events # "none" => Op # "free" /\ c.events = Kind
    BY <1>1, <2>4
  <2>7. ASSUME NEW n \in Nodes, NEW j \in Slots, cpus'[n][j].events # "none"
        PROVE  node'[n].state = "here"
    <3>1. node[n].state = "here"
      BY <1>2, <1>3, <2>2, <2>7
    <3>2. CASE node'[n] = node[n]
      BY <3>1, <3>2
    <3>3. CASE n = N /\ node[n].hotremove /\ J = Cardinality(CpuIds)
      <4>1. CpusOf(cpus'[N]) = {}
        BY <1>1, <2>1, <3>3 DEF GivenUp
      <4>2. cpus'[n][j].cpu = None
        BY <3>3, <4>1 DEF CpusOf
      <4>3. QED
        BY <1>13, <2>7, <4>2 DEF OfCpus
    <3>4. QED
      BY <1>6, <3>2, <3>3
  <2>8. ASSUME NEW n \in Nodes, NEW j \in Slots, cpus'[n][j].events # "none"
        PROVE  cpus'[n][j].events \in MayBeOpen(n, j)'
    <3>1. n \in Int /\ N \in Int /\ j \in Int /\ j >= 1
          /\ j <= Cardinality(CpuIds)
      BY <1>2, <1>4, NodeGroupAssumption DEF Nodes
    <3>2. CASE n = N /\ j = J
      <4>1. cpus'[n][j].events \in OpenBehind /\ n <= N
        BY <1>3, <2>6, <2>8, <3>1, <3>2 DEF OpenBehind
      <4>2. CASE J < Cardinality(CpuIds)
        <5>1. at' = <<N, J + 1>> /\ passes' = passes
          BY <1>4, <1>5, <4>2
        <5>2. Visited(n, j)'
          BY <3>1, <3>2, <5>1 DEF Visited, N, J
        <5>3. MayBeOpen(n, j)' = OpenBehind
          BY <1>2, <5>1, <5>2 DEF MayBeOpen, OpenBehind, Walking, Op, Kind
        <5>4. QED
          BY <4>1, <5>3
      <4>3. CASE J = Cardinality(CpuIds)
        <5>1. GoOn(N + 1)
          BY <1>4, <1>5, <4>3
        <5>2. OpenBehind \subseteq MayBeOpen(n, j)'
          BY <1>t, <1>1, <1>2, <4>1, <5>1, GoOnKeeps
        <5>3. QED
          BY <4>1, <5>2
      <4>4. QED
        BY <1>4, <4>2, <4>3
    <3>3. CASE ~(n = N /\ j = J)
      <4>1. cpus'[n][j].events \in MayBeOpen(n, j)
        BY <1>3, <2>2, <2>8, <3>3
      <4>2. CASE J < Cardinality(CpuIds)
        <5>1. at' = <<N, J + 1>> /\ passes' = passes /\ status' = status
          BY <1>4, <1>5, <4>2
        <5>2. N' = N /\ J' = J + 1
          BY <5>1 DEF N, J
        <5>3. Visited(n, j)' <=> Visited(n, j)
          BY <1>4, <3>1, <3>3, <5>2 DEF Visited
        <5>4. MayBeOpen(n, j)' = MayBeOpen(n, j)
          BY <5>1, <5>3 DEF MayBeOpen, Walking, Op, Kind
        <5>5. QED
          BY <4>1, <5>4
      <4>3. CASE J = Cardinality(CpuIds)
        <5>1. GoOn(N + 1)
          BY <1>4, <1>5, <4>3
        <5>2. Visited(n, j) <=> n <= N
          BY <1>4, <3>1, <3>3, <4>3 DEF Visited
        <5>3. cpus'[n][j].events \in IF n <= N THEN OpenBehind ELSE OpenAhead
          BY <1>2, <4>1, <5>2 DEF MayBeOpen, OpenBehind, OpenAhead
        <5>4. /\ n <= N => OpenBehind \subseteq MayBeOpen(n, j)'
              /\ ~(n <= N) => OpenAhead \subseteq MayBeOpen(n, j)'
          BY <1>t, <1>1, <1>2, <5>1, GoOnKeeps
        <5>5. QED
          BY <5>3, <5>4
      <4>4. QED
        BY <1>4, <4>2, <4>3
    <3>4. QED
      BY <3>2, <3>3
  <2>9. QED
    BY <2>5, <2>7, <2>8
<1>19. QED
  BY <1>8, <1>11, <1>12, <1>13, <1>14, <1>15, <1>16, <1>17, <1>18 DEF IInv

\* A start that fails ends its walks, with an event or two left open.
SetupFails ==
  /\ OnUsable("setup") /\ Usable(Here)
  /\ cpus' = [cpus EXCEPT ![N][J] = Freed(Here)]
  /\ passes' = <<>> /\ at' = <<0, 1>> /\ status' = "none"
  /\ failures' = failures \union {"start"}
  /\ dpc' = IF Kind = "profiling" THEN "dead" ELSE dpc
  /\ leaked' = (leaked \/ Here.events # "none")
  /\ UNCHANGED <<present, online, node, nnodes, cpuidMax, room, task, seen, raced,
                 faults>>

\* The CPU at hand, and what may be open on it.
LEMMA HereTyped ==
  ASSUME IInv, OnCpu
  PROVE  /\ Here \in Cpu /\ N \in Nodes /\ J \in Slots /\ Kind \in Kinds
         /\ Op \in Ops
         /\ Here.cpu = None \/ Here.hotadd => Here.events = "none"
<1>1. Typed /\ Planned /\ Walking /\ OfCpus
  BY DEF IInv, OnCpu, Walk
<1>2. N \in Nodes /\ J \in Slots
  BY <1>1 DEF Typed, N, J
<1>3. Here \in Cpu
  BY <1>1, <1>2 DEF Typed, Here
<1>4. Kind \in Kinds /\ Op \in Ops
  BY <1>1, PassOver
<1>5. Here.cpu = None \/ Here.hotadd => Here.events = "none"
  BY <1>1, <1>2 DEF OfCpus, Here
<1>6. QED
  BY <1>2, <1>3, <1>4, <1>5

LEMMA SetupFailsStep == IInv /\ SetupFails => IInv'
<1> SUFFICES ASSUME IInv, SetupFails PROVE IInv'
  OBVIOUS
<1>t. /\ Typed /\ Apart /\ Planned /\ Filling /\ Sized /\ InBounds /\ Counted
      /\ OfCpus
  BY DEF IInv
<1>1. /\ OnCpu /\ Op = "setup" /\ Walking /\ dpc # "dead"
      /\ cpus' = [cpus EXCEPT ![N][J] = Freed(Here)]
      /\ passes' = <<>> /\ at' = <<0, 1>> /\ status' = "none"
      /\ failures' = failures \union {"start"}
      /\ dpc' \in {"dead", dpc}
      /\ leaked' = (leaked \/ Here.events # "none")
      /\ UNCHANGED <<present, online, node, nnodes, cpuidMax, room, task, seen,
                     raced, faults>>
  BY DEF SetupFails, OnUsable, OnCpu, Walk, Alive
<1>2. Here \in Cpu /\ N \in Nodes /\ J \in Slots
  BY <1>1, HereTyped
<1>3. /\ Freed(Here) \in Cpu /\ Freed(Here).cpu = Here.cpu
      /\ Freed(Here).events = "none"
  BY <1>2 DEF Freed, Cpu
<1>4. \A n \in Nodes, j \in Slots :
        cpus'[n][j] = IF n = N /\ j = J THEN Freed(Here) ELSE cpus[n][j]
  BY <1>t, <1>1, <1>2 DEF Typed
<1>5. \A n \in Nodes, j \in Slots : cpus'[n][j].cpu = cpus[n][j].cpu
  BY <1>2, <1>3, <1>4 DEF Here
<1>6. Typed'
  <2>1. cpus' \in [Nodes -> [Slots -> Cpu]]
    <3>1. cpus \in [Nodes -> [Slots -> Cpu]]
      BY <1>t DEF Typed
    <3>2. QED
      BY <1>1, <1>2, <1>3, <3>1
  <2>2. leaked' \in BOOLEAN
    <3>1. (leaked \/ Here.events # "none") \in BOOLEAN
      BY Zenon
    <3>2. QED
      BY <1>1, <3>1
  <2>3. at' \in Nodes \X Slots
    BY <1>1, SlotsFinite, NodeGroupAssumption DEF Nodes
  <2>4. passes' \in Seq(Ops \X Kinds)
    BY <1>1
  <2>5. QED
    BY <1>t, <1>1, <2>1, <2>2, <2>3, <2>4 DEF Typed
<1>7. Apart'
  <2> SUFFICES ASSUME NEW n \in Nodes PROVE ApartIn(cpus'[n], n)
    BY DEF Apart, ApartIn
  <2>1. ApartIn(cpus[n], n)
    BY <1>t DEF Apart
  <2>2. QED
    BY <1>5, <2>1 DEF ApartIn
<1>8. Filling'
  BY <1>t, <1>1 DEF Filling, Walking
<1>9. Planned'
  <2>1. task = None
    BY <1>t, <1>1 DEF Planned
  <2>2. task' \notin {"smpl", "restore"}
    BY <1>1, <2>1, NodeGroupAssumption
  <2>3. InOrder(passes', status') /\ ~Walking'
    BY <1>1 DEF InOrder, Walking
  <2>4. QED
    BY <1>t, <1>1, <2>1, <2>2, <2>3 DEF Planned
<1>10. OfCpus'
  BY <1>t, <1>3, <1>4 DEF OfCpus
<1>11. Booked'
  BY <1>1 DEF Booked, Sound
<1>12. Counted'
  BY <1>t, <1>1 DEF Counted
<1>13. Sized'
  BY <1>t, <1>1, <1>5 DEF Sized
<1>14. InBounds'
  BY <1>t, <1>1 DEF InBounds
<1>15. QED
  BY <1>6, <1>7, <1>8, <1>9, <1>10, <1>11, <1>12, <1>13, <1>14 DEF IInv

\* Setting a CPU up opens all of its events, or none.
LEMMA SetupTurns ==
  ASSUME IInv, OnCpu
  PROVE  LET c == Setup(Here, Kind)
         IN  /\ c \in Cpu /\ c.cpu = Here.cpu /\ c.hotadd = Here.hotadd
             /\ c.events \in {"none", Kind}
             /\ Here.cpu = None => c.events = "none"
             /\ c.events # Kind => c = Freed(Here)
<1> DEFINE c == Setup(Here, Kind)
<1>1. Here \in Cpu /\ Kind \in Kinds
  BY HereTyped
<1>2. online \subseteq CpuIds /\ None \notin CpuIds
  BY NodeGroupAssumption DEF IInv, Typed
<1>3. CASE Here.cpu \in online
  <2>1. c = [Here EXCEPT !.events = Kind]
    BY <1>3 DEF Setup
  <2>2. QED
    BY <1>1, <1>2, <1>3, <2>1 DEF Cpu
<1>4. CASE Here.cpu \notin online
  <2>1. c = [Here EXCEPT !.events = "none"] /\ c = Freed(Here)
    BY <1>4 DEF Setup, Freed
  <2>2. QED
    BY <1>1, <2>1 DEF Cpu
<1>5. QED
  BY <1>3, <1>4

LEMMA HotaddedTurns ==
  ASSUME IInv, OnCpu
  PROVE  /\ Hotadded(Here) \in Cpu /\ Hotadded(Here).cpu = Here.cpu
         /\ Turned(Hotadded(Here)) \/ (Op \in {"free", "setup"} /\ Usable(Here))
<1>1. /\ Here \in Cpu /\ Kind \in Kinds
      /\ Here.cpu = None \/ Here.hotadd => Here.events = "none"
  BY HereTyped
<1>2. CASE Op = "smpl" /\ Here.hotadd
  <2> DEFINE s == Setup(Here, Kind)
  <2>1. /\ s \in Cpu /\ s.cpu = Here.cpu /\ s.events \in {"none", Kind}
        /\ Here.cpu = None => s.events = "none"
    BY SetupTurns
  <2>2. Hotadded(Here) = [s EXCEPT !.hotadd = FALSE]
    BY <1>2 DEF Hotadded
  <2> HIDE DEF s
  <2>3. /\ Hotadded(Here) \in Cpu /\ Hotadded(Here).cpu = Here.cpu
        /\ Hotadded(Here).hotadd = FALSE /\ Hotadded(Here).events = s.events
    BY <2>1, <2>2 DEF Cpu
  <2>4. Turned(Hotadded(Here))
    BY <1>2, <2>1, <2>3 DEF Turned
  <2>5. QED
    BY <2>3, <2>4
<1>3. CASE ~(Op = "smpl" /\ Here.hotadd)
  <2>1. Hotadded(Here) = Here
    BY <1>3 DEF Hotadded
  <2>2. CASE Usable(Here)
    BY <1>1, <2>1, <2>2 DEF Turned, Usable
  <2>3. CASE ~Usable(Here)
    <3>1. Here.events = "none"
      BY <1>1, <2>3 DEF Usable
    <3>2. QED
      BY <1>1, <2>1, <3>1 DEF Turned
  <2>4. QED
    BY <2>2, <2>3
<1>4. QED
  BY <1>2, <1>3

\* Every visit is a move, a start that fails, or the end of the process.
LEMMA Visits ==
  ASSUME IInv,
         \/ VisitRemoved \/ VisitUnusable \/ VisitSetup \/ VisitIoctl \/ VisitFree
         \/ VisitProfiling \/ VisitLL \/ VisitRestore \/ NoCpusYet
  PROVE  (\E c \in Cpu : Moves(c)) \/ SetupFails \/ Crashes
<1> DEFINE Elsewhere == /\ UNCHANGED <<hardware, disp, nnodes, cpuidMax, room, task,
                                       leaked, raced, faults>>
<1>e. Elsewhere => UNCHANGED <<present, online, dpc, seen, nnodes, cpuidMax, room,
                               task, leaked, raced, faults>>
  BY DEF hardware, disp
<1>1. CASE VisitRemoved
  <2> DEFINE c == [Freed(Here) EXCEPT !.hotremove = FALSE, !.cpu = None]
  <2>1. OnCpu /\ Leave(c) /\ Fails({}) /\ Elsewhere
    BY <1>1 DEF VisitRemoved
  <2>2. Here \in Cpu
    BY <2>1, HereTyped
  <2>3. c \in Cpu /\ c.cpu = None /\ c.events = "none"
    BY <2>2 DEF Freed, Cpu
  <2> HIDE DEF c
  <2>4. Turned(c)
    BY <2>3 DEF Turned
  <2>5. Moves(c)
    BY <1>e, <2>1, <2>4 DEF Moves
  <2>6. QED
    BY <2>3, <2>5
<1>2. CASE VisitUnusable
  <2>1. /\ OnCpu /\ Leave(Hotadded(Here)) /\ Fails({}) /\ Elsewhere
        /\ ~Usable(Hotadded(Here))
    BY <1>2 DEF VisitUnusable
  <2>2. Hotadded(Here) \in Cpu /\ Turned(Hotadded(Here))
    <3>1. Op \in {"free", "setup"} => Hotadded(Here) = Here
      BY DEF Hotadded
    <3>2. QED
      BY <2>1, <3>1, HotaddedTurns
  <2>3. Moves(Hotadded(Here))
    BY <1>e, <2>1, <2>2 DEF Moves
  <2>4. QED
    BY <2>2, <2>3
<1>3. CASE VisitSetup
  <2> DEFINE c == Setup(Here, Kind)
  <2>1. OnCpu /\ Usable(Here) /\ Op = "setup" /\ OnUsable("setup")
    BY <1>3 DEF VisitSetup, OnUsable
  <2>2. /\ c \in Cpu /\ c.cpu = Here.cpu /\ c.hotadd = Here.hotadd
        /\ c.events # Kind => c = Freed(Here)
    BY <2>1, SetupTurns
  <2>3. CASE c.events = Kind
    <3>1. /\ Leave(c) /\ Fails({}) /\ dpc' = dpc
          /\ leaked' = (leaked \/ Here.events # "none")
          /\ UNCHANGED <<hardware, nnodes, cpuidMax, room, task, seen, raced, faults>>
      BY <1>3, <2>3 DEF VisitSetup
    <3>2. UNCHANGED <<present, online, dpc, seen, nnodes, cpuidMax, room, task,
                      raced, faults>>
      BY <3>1 DEF hardware
    <3>3. Turned(c)
      <4> HIDE DEF c
      <4>1. QED
        BY <2>1, <2>2, <2>3 DEF Turned, Usable
    <3> HIDE DEF c
    <3>4. Moves(c)
      BY <2>1, <3>1, <3>2, <3>3 DEF Moves
    <3>5. QED
      BY <2>2, <3>4
  <2>4. CASE c.events # Kind
    <3>1. c = Freed(Here)
      BY <2>2, <2>4
    <3>2. /\ cpus' = [cpus EXCEPT ![N][J] = c]
          /\ passes' = <<>> /\ at' = <<0, 1>> /\ status' = "none"
          /\ failures' = failures \union {"start"}
          /\ dpc' = IF Kind = "profiling" THEN "dead" ELSE dpc
          /\ UNCHANGED node
          /\ leaked' = (leaked \/ Here.events # "none")
          /\ UNCHANGED <<hardware, nnodes, cpuidMax, room, task, seen, raced, faults>>
      BY <1>3, <2>4 DEF VisitSetup
    <3> HIDE DEF c
    <3>3. QED
      BY <2>1, <3>1, <3>2 DEF SetupFails, hardware
  <2>5. QED
    BY <2>3, <2>4
<1>4. CASE VisitIoctl
  <2>1. OnCpu /\ Usable(Here) /\ Op \in {"stop", "start"} /\ Elsewhere
    BY <1>4 DEF VisitIoctl, OnUsable
  <2>2. Here \in Cpu
    BY <2>1, HereTyped
  <2>3. /\ Freed(Here) \in Cpu /\ Freed(Here).cpu = Here.cpu
        /\ Freed(Here).events = "none"
    BY <2>2 DEF Freed, Cpu
  <2>4. Turned(Here) /\ Turned(Freed(Here))
    BY <2>1, <2>2, <2>3 DEF Turned, Usable
  <2>5. \/ Leave(Here) /\ Fails({})
        \/ Leave(Freed(Here)) /\ Fails({"cpu"})
    BY <1>4 DEF VisitIoctl
  <2>6. Moves(Here) \/ Moves(Freed(Here))
    BY <1>e, <2>1, <2>4, <2>5 DEF Moves
  <2>7. QED
    BY <2>2, <2>3, <2>6
<1>5. CASE VisitFree
  <2>1. OnCpu /\ Elsewhere /\ Leave(Freed(Here)) /\ Fails({})
    BY <1>5 DEF VisitFree, OnUsable
  <2>2. Here \in Cpu
    BY <2>1, HereTyped
  <2>3. /\ Freed(Here) \in Cpu /\ Freed(Here).cpu = Here.cpu
        /\ Freed(Here).events = "none"
    BY <2>2 DEF Freed, Cpu
  <2>4. Moves(Freed(Here))
    BY <1>e, <2>1, <2>3 DEF Moves, Turned
  <2>5. QED
    BY <2>3, <2>4
<1>6. CASE VisitProfiling
  <2> DEFINE c == Hotadded(Here)
  <2>1. /\ OnCpu /\ Op = "smpl" /\ Leave(c) /\ Fails(NotHotadded(c))
        /\ UNCHANGED <<hardware, disp, nnodes, cpuidMax, task, leaked, raced>>
        /\ \/ UNCHANGED <<room, faults>>
           \/ /\ c.cpu \in online /\ room' = CountvalRoom(c.cpu)
              /\ faults' = IF c.cpu < room' THEN faults
                                            ELSE faults \union {"grow"}
    BY <1>6 DEF VisitProfiling, OnUsable
  <2>2. c \in Cpu /\ c.cpu = Here.cpu /\ Turned(c)
    BY <2>1, HotaddedTurns
  <2>3. NotHotadded(c) \in {{}, {"cpu"}}
    BY DEF NotHotadded
  <2> HIDE DEF c
  <2>4. /\ room' = room \/ room' = cpuidMax + 1
        /\ \/ faults' = faults
           \/ /\ faults' = faults \union {"grow"}
              /\ Here.cpu # None /\ ~(Here.cpu <= cpuidMax)
    <3>1. CASE UNCHANGED <<room, faults>>
      BY <3>1
    <3>2. CASE /\ c.cpu \in online /\ room' = CountvalRoom(c.cpu)
               /\ faults' = IF c.cpu < room' THEN faults
                                             ELSE faults \union {"grow"}
      <4>1. /\ online \subseteq CpuIds /\ cpuidMax \in Nat /\ room \in Nat
        BY DEF IInv, Typed
      <4>2. c.cpu \in Nat /\ c.cpu # None
        BY <3>2, <4>1, NodeGroupAssumption
      <4>3. QED
        BY <2>2, <3>2, <4>1, <4>2 DEF CountvalRoom
    <3>3. QED
      BY <2>1, <3>1, <3>2
  <2>5. Moves(c)
    BY <2>1, <2>2, <2>3, <2>4 DEF Moves, hardware, disp
  <2>6. QED
    BY <2>2, <2>5
<1>7. CASE VisitLL
  <2> DEFINE c == Hotadded(Here)
  <2>1. OnCpu /\ Op = "smpl"
    BY <1>7 DEF VisitLL, OnUsable
  <2>2. c \in Cpu /\ Turned(c)
    BY <2>1, HotaddedTurns
  <2>3. NotHotadded(c) \in {{}, {"cpu"}}
    BY DEF NotHotadded
  <2>4. CASE c.events = "none"
    <3>1. Crash("unmapped")
      BY <1>7, <2>4 DEF VisitLL
    <3>2. QED
      BY <2>1, <3>1 DEF Crashes, OnCpu
  <2>5. CASE c.events # "none"
    <3>1. Leave(c) /\ Fails(NotHotadded(c)) /\ Elsewhere
      BY <1>7, <2>5 DEF VisitLL
    <3> HIDE DEF c
    <3>2. Moves(c)
      BY <1>e, <2>1, <2>2, <2>3, <3>1 DEF Moves
    <3>3. QED
      BY <2>2, <3>2
  <2>6. QED
    BY <2>4, <2>5
<1>8. CASE VisitRestore
  <2>1. OnCpu /\ Op = "restore" /\ Usable(Here)
    BY <1>8 DEF VisitRestore, OnUsable
  <2>2. Here \in Cpu /\ Turned(Here)
    BY <2>1, HereTyped DEF Turned, Usable
  <2>3. CASE Here.events = "none"
    <3>1. Crash("unmapped")
      BY <1>8, <2>3 DEF VisitRestore
    <3>2. QED
      BY <2>1, <3>1 DEF Crashes, OnCpu
  <2>4. CASE Here.events # "none"
    <3>1. Leave(Here) /\ Fails({}) /\ Elsewhere
      BY <1>8, <2>4 DEF VisitRestore
    <3>2. Moves(Here)
      BY <1>e, <2>1, <2>2, <3>1 DEF Moves
    <3>3. QED
      BY <2>2, <3>2
  <2>5. QED
    BY <2>3, <2>4
<1>9. CASE NoCpusYet
  BY <1>9 DEF NoCpusYet, Crashes
<1>10. QED
  BY <1>1, <1>2, <1>3, <1>4, <1>5, <1>6, <1>7, <1>8, <1>9

LEMMA Inductive == IInv /\ [Next]_vars => IInv'
<1> SUFFICES ASSUME IInv, [Next]_vars PROVE IInv'
  OBVIOUS
<1>1. CASE Hardware
  BY <1>1, HardwareStep
<1>2. CASE DispStep \/ Asks
  BY <1>2, DispElseStep, RefreshRemoveStep, RefreshAddStep, RefreshFillStep,
     CpuRefreshStep DEF DispStep, DispElse
<1>3. CASE PerfStep
  <2>1. CASE TakeTask
    BY <2>1, TakeTaskStep
  <2>2. CASE SkipNode
    BY <2>2, SkipNodeStep
  <2>3. CASE ~TakeTask /\ ~SkipNode
    <3>1. (\E c \in Cpu : Moves(c)) \/ SetupFails \/ Crashes
      BY <1>3, <2>3, Visits DEF PerfStep
    <3>2. QED
      BY <3>1, MovesStep, SetupFailsStep, CrashesStep
  <2>4. QED
    BY <2>1, <2>2, <2>3
<1>4. CASE UNCHANGED vars
  <2>1. /\ UNCHANGED <<group, room, status, passes, at, leaked>>
        /\ UNCHANGED <<present, online, task, dpc, seen, failures, raced, faults>>
    BY <1>4 DEF vars, group
  <2>2. Apart' /\ OfCpus' /\ Booked' /\ Counted' /\ Sized'
    BY <2>1, GroupKept
  <2>3. Typed' /\ Filling' /\ Planned' /\ InBounds'
    BY <2>1 DEF IInv, Typed, Filling, Planned, InBounds, group, Walking, Op
  <2>4. QED
    BY <2>2, <2>3 DEF IInv
<1>5. QED
  BY <1>1, <1>2, <1>3, <1>4 DEF Next

LEMMA InvariantHolds == Spec => []IInv
BY InitIInv, Inductive, PTL DEF Spec

-----------------------------------------------------------------------------
(* What it is for.                                                         *)

\* However refreshes and walks overlap, and however CPUs come and go, a CPU is
\* in one slot of its node and each that comes finds a free one, whatever the
\* number of nodes and CPUs: the look-ups of os_perf.c never see two and never
\* find the array full.
THEOREM SlotsSuffice == Spec => []OneSlot
<1>1. IInv => OneSlot
  <2> SUFFICES ASSUME IInv, NEW n \in Nodes
               PROVE  /\ \A j, k \in Slots :
                           cpus[n][j].cpu = cpus[n][k].cpu /\ j # k
                             => cpus[n][j].cpu = None
                      /\ HasRoom(cpus[n], {c \in CpuIds : NodeOf[c] = n})
    BY DEF OneSlot
  <2>1. cpus[n] \in [Slots -> Cpu] /\ ApartIn(cpus[n], n)
    BY DEF IInv, Typed, Apart
  <2>2. HasRoom(cpus[n], {c \in CpuIds : NodeOf[c] = n})
    BY <2>1, RoomForAll
  <2>3. QED
    BY <2>1, <2>2 DEF ApartIn
<1>2. QED
  BY <1>1, InvariantHolds, PTL

\* For any hardware: unless something failed or overlapped, no descriptor of a
\* CPU is forgotten, what is open is what the status says, and a start finds
\* everything closed.
THEOREM NoEventForgotten == Spec => []EventsKept
<1>1. IInv => EventsKept
  <2> SUFFICES ASSUME IInv, Sound
               PROVE  /\ ~leaked
                      /\ Walking \/ \A n \in Nodes, j \in Slots :
                           cpus[n][j].events # "none" =>
                             /\ cpus[n][j].events = status
                             /\ node[n].state = "here" /\ cpus[n][j].cpu # None
                      /\ Walking /\ Op = "setup" /\ at = <<0, 1>> =>
                           \A n \in Nodes, j \in Slots :
                             cpus[n][j].events = "none"
    BY DEF EventsKept, Sound
  <2>1. /\ ~leaked /\ OfCpus
        /\ \A n \in Nodes, j \in Slots : cpus[n][j].events # "none" =>
             /\ cpus[n][j].events \in MayBeOpen(n, j)
             /\ node[n].state = "here"
    BY DEF IInv, Booked
  <2>2. ASSUME ~Walking, NEW n \in Nodes, NEW j \in Slots,
               cpus[n][j].events # "none"
        PROVE  /\ cpus[n][j].events = status
               /\ node[n].state = "here" /\ cpus[n][j].cpu # None
    BY <2>1, <2>2 DEF MayBeOpen, OfCpus
  <2>3. ASSUME Walking, Op = "setup", at = <<0, 1>>, NEW n \in Nodes,
               NEW j \in Slots
        PROVE  cpus[n][j].events = "none"
    <3>1. ~Visited(n, j)
      BY <2>3, NodeGroupAssumption, SlotsFinite DEF Visited, N, J, Nodes, Slots
    <3>2. MayBeOpen(n, j) = {}
      BY <2>3, <3>1 DEF MayBeOpen
    <3>3. QED
      BY <2>1, <3>2
  <2>4. QED
    BY <2>1, <2>2, <2>3
<1>2. QED
  BY <1>1, InvariantHolds, PTL

\* For any hardware: the number of nodes is right while no node is being filled
\* in, unless a node that went was counted down twice.
THEOREM CountRight == Spec => []NodesCounted
<1>1. IInv => NodesCounted
  <2> SUFFICES ASSUME IInv, \A n \in Nodes : node[n].state # "cleared",
                      "twice" \notin failures
               PROVE  nnodes = Cardinality({n \in Nodes :
                                              Valid(n) /\ ~node[n].hotremove})
    BY DEF NodesCounted
  <2>1. \A n \in Nodes : Valid(n) <=> node[n].state = "here"
    BY DEF IInv, Typed, Node, Valid
  <2>2. {n \in Nodes : Valid(n) /\ ~node[n].hotremove}
          = {n \in Nodes : node[n].state = "here" /\ ~node[n].hotremove}
    BY <2>1
  <2>3. QED
    BY <2>2 DEF IInv, Counted
<1>2. QED
  BY <1>1, InvariantHolds, PTL

\* For any CPU ids: an array of counts is left only after a refresh that failed,
\* met a walk, or found a CPU beyond the ids of the start.
THEOREM CountsInBounds == Spec => []InBounds
<1>1. IInv => InBounds
  BY DEF IInv
<1>2. QED
  BY <1>1, InvariantHolds, PTL
=============================================================================
