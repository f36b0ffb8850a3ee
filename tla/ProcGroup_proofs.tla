-------------------------- MODULE ProcGroup_proofs --------------------------
(***************************************************************************)
(* Proofs about ProcGroup, for any sets of pids, thread ids and memory:    *)
(* nothing in reach has been freed, a look-up has one answer, and nothing  *)
(* that has left the table is forgotten.                                   *)
(***************************************************************************)
EXTENDS ProcGroup, FiniteSetTheorems, FunctionTheorems, TLAPS

-----------------------------------------------------------------------------
(* Finite sets.                                                            *)

\* A set maps one to one into any set that is no smaller.
LEMMA InjectionExists ==
  ASSUME NEW S, IsFiniteSet(S), NEW T, IsFiniteSet(T),
         Cardinality(S) <= Cardinality(T)
  PROVE  \E f \in [S -> T] : IsInjective(f)
<1> DEFINE m == Cardinality(S)
           n == Cardinality(T)
<1>1. m \in Nat /\ ExistsBijection(1..m, S)
  BY FS_CardinalityType
<1>2. n \in Nat /\ ExistsBijection(1..n, T)
  BY FS_CardinalityType
<1>3. ExistsInjection(S, 1..m) /\ ExistsInjection(1..n, T)
  BY <1>1, <1>2, Fun_ExistsBijEquiv
<1>4. ExistsInjection(1..m, 1..n)
  BY <1>1, <1>2, Fun_NatInjLeq
<1>5. ExistsInjection(S, T)
  BY <1>3, <1>4, Fun_ExistsInjTransitive
<1>6. QED
  BY <1>5 DEF ExistsInjection, Injection

-----------------------------------------------------------------------------
(* The inductive invariant.                                                *)

One(b) == IF b THEN 1 ELSE 0

\* Thread t has a reference to the process, to the lwp, that it has not yet
\* given back.
UsesProc(t, o) == /\ holds[t].proc = o
                  /\ at[t] \in {"proc", "lwp", "lwpfree", "put"}
UsesLwp(t, l) == holds[t].lwp = l /\ at[t] = "lwp"

\* The reference counts are the numbers of threads that have one.
RefsCounted ==
  /\ \A o \in ProcSlots :
       proc[o].ref = One(UsesProc("disp", o)) + One(UsesProc("perf", o))
  /\ \A l \in LwpSlots :
       lwp[l].ref = One(UsesLwp("disp", l)) + One(UsesLwp("perf", l))

\* What a thread holds fits the place where it is, and the perf thread has
\* the mutex of the group while it reads the lwps of the processes in todo.
InPlace ==
  /\ \A t \in Threads :
       /\ at[t] \in {"idle", "lwps"} <=> holds[t].proc = None
       /\ at[t] \in {"lwp", "lwpfree"} <=> holds[t].lwp # None
  /\ at["disp"] # "lwps"
  /\ at["perf"] = "lwps" <=> lock = "perf"
  /\ at["perf"] # "lwps" => todo = {}
  /\ todo \subseteq table

\* What is marked has left its table or list, what is about to be freed is
\* marked and unused, and what is freed is in its initial state.
Marked ==
  /\ \A o \in ProcSlots :
       /\ proc[o].removing => o \notin table
       /\ ~proc[o].alive => proc[o] = FreedProc
  /\ \A l \in LwpSlots :
       /\ lwp[l].removing => \A o \in ProcSlots : l \notin proc[o].lwps
       /\ ~lwp[l].alive => lwp[l] = FreedLwp
  /\ \A t \in Threads :
       /\ at[t] = "free" => /\ proc[holds[t].proc].removing
                            /\ proc[holds[t].proc].ref = 0
       /\ at[t] = "lwpfree" => /\ lwp[holds[t].lwp].removing
                               /\ lwp[holds[t].lwp].ref = 0

\* Whoever uses an lwp that is in a list uses the process whose list it is.
OwnLwp ==
  \A t \in Threads, o \in ProcSlots :
    holds[t].lwp \in proc[o].lwps => holds[t].proc = o

\* What one thread is about to free, the other one does not hold.
LastOne ==
  \A t, u \in Threads :
    t # u => /\ at[t] = "free" => holds[u].proc # holds[t].proc
             /\ at[t] = "lwpfree" => holds[u].lwp # holds[t].lwp

IInv == /\ TypeOK /\ NoDangling /\ OneAnswer /\ ExitsKept
        /\ RefsCounted /\ InPlace /\ Marked /\ OwnLwp /\ LastOne

-----------------------------------------------------------------------------
(* What Place and the two frees do.                                        *)

\* Free slots that fit are given to different members.
LEMMA Placed ==
  ASSUME NEW S, IsFiniteSet(S), NEW M, NEW memory, IsFiniteSet(M),
         DOMAIN memory = M, Fits(S, memory)
  PROVE  /\ Place(S, memory) \in [S -> Free(memory)]
         /\ \A x, y \in S : Place(S, memory)[x] = Place(S, memory)[y] => x = y
         /\ \A x \in S : /\ Place(S, memory)[x] \in M
                         /\ ~memory[Place(S, memory)[x]].alive
<1>1. IsFiniteSet(Free(memory))
  <2>1. Free(memory) \in SUBSET M
    BY DEF Free
  <2>2. QED
    BY <2>1, FS_Subset
<1>2. \E f \in [S -> Free(memory)] : IsInjective(f)
  BY <1>1, InjectionExists DEF Fits
<1>3. /\ Place(S, memory) \in [S -> Free(memory)]
      /\ IsInjective(Place(S, memory))
  BY <1>2 DEF Place
<1>4. QED
  BY <1>3 DEF IsInjective, Free

-----------------------------------------------------------------------------
(* Every step keeps the invariant.                                         *)

\* At first there is nothing.
LEMMA InitIInv == Init => IInv
<1> SUFFICES ASSUME Init PROVE IInv
  OBVIOUS
<1> USE ProcGroupAssumption DEF Threads
<1>1. /\ table = {} /\ latest = None /\ lock = None /\ todo = {}
      /\ proc = [o \in ProcSlots |-> FreedProc]
      /\ lwp = [l \in LwpSlots |-> FreedLwp]
      /\ \A t \in Threads : at[t] = "idle" /\ holds[t] = Nothing
  BY DEF Init
<1>2. \A o \in ProcSlots : /\ proc[o] = FreedProc
                           /\ proc[o].alive = FALSE /\ proc[o].ref = 0
                           /\ proc[o].removing = FALSE /\ proc[o].lwps = {}
  BY <1>1 DEF FreedProc
<1>3. \A l \in LwpSlots : /\ lwp[l] = FreedLwp
                          /\ lwp[l].alive = FALSE /\ lwp[l].ref = 0
                          /\ lwp[l].removing = FALSE
  BY <1>1 DEF FreedLwp
<1>4. \A t \in Threads : holds[t].proc = None /\ holds[t].lwp = None
  BY <1>1 DEF Nothing
<1>5. TypeOK
  <2>1. FreedProc \in Procs /\ FreedLwp \in Lwps
    BY DEF FreedProc, FreedLwp, Procs, Lwps
  <2>2. Nothing \in [proc : ProcSlots \union {None},
                     lwp : LwpSlots \union {None}]
    BY DEF Nothing
  <2>3. proc \in [ProcSlots -> Procs] /\ lwp \in [LwpSlots -> Lwps]
    BY <1>1, <2>1
  <2>4. /\ at \in [Threads -> Steps]
        /\ holds \in [Threads -> [proc : ProcSlots \union {None},
                                  lwp : LwpSlots \union {None}]]
    BY <2>2 DEF Init, Steps
  <2>5. nprocs \in Int
    BY DEF Init
  <2>6. overrun \in BOOLEAN
    BY Zenon DEF Init
  <2>7. QED
    BY <1>1, <2>3, <2>4, <2>5, <2>6 DEF TypeOK
<1>6. NoDangling /\ OneAnswer /\ ExitsKept
  <2>1. NoDangling
    BY <1>1, <1>2, <1>3, <1>4 DEF NoDangling
  <2>2. OneAnswer
    BY <1>1, <1>2, <1>3, <1>4 DEF OneAnswer
  <2>3. ExitsKept
    BY <1>1, <1>2, <1>3, <1>4 DEF ExitsKept
  <2>4. QED
    BY <2>1, <2>2, <2>3
<1>7. RefsCounted
  BY <1>1, <1>2, <1>3, <1>4 DEF RefsCounted, UsesProc, UsesLwp, One
<1>8. InPlace
  BY <1>1, <1>4 DEF InPlace
<1>9. Marked /\ OwnLwp /\ LastOne
  <2>1. Marked
    BY <1>1, <1>2, <1>3, <1>4 DEF Marked
  <2>2. OwnLwp
    BY <1>1, <1>2, <1>3, <1>4 DEF OwnLwp
  <2>3. LastOne
    BY <1>1 DEF LastOne
  <2>4. QED
    BY <2>1, <2>2, <2>3
<1>10. QED
  BY <1>5, <1>6, <1>7, <1>8, <1>9 DEF IInv

\* A look-up finds a process of the table, which is not marked.
LEMMA FindStep ==
  ASSUME IInv, NEW t \in Threads, NEW pid \in Pids, Find(t, pid)
  PROVE  IInv'
<1> USE ProcGroupAssumption DEF IInv, Threads
<1>1. PICK o \in Lookup(pid) :
        IF proc[o].removing
        THEN /\ latest' = IF latest = o THEN None ELSE latest
             /\ UNCHANGED <<proc, at, holds>>
        ELSE /\ proc' = [proc EXCEPT ![o].ref = @ + 1]
             /\ latest' = o
             /\ at' = [at EXCEPT ![t] = "proc"]
             /\ holds' = [holds EXCEPT ![t].proc = o]
  BY DEF Find
<1>2. o \in table /\ o \in ProcSlots /\ proc[o].alive /\ o # None
  BY DEF Lookup, NoDangling, TypeOK
<1>3. ~proc[o].removing
  BY <1>2 DEF Marked
<1>4. /\ proc' = [proc EXCEPT ![o].ref = @ + 1]
      /\ latest' = o
      /\ at' = [at EXCEPT ![t] = "proc"]
      /\ holds' = [holds EXCEPT ![t].proc = o]
      /\ at[t] = "idle"
      /\ UNCHANGED <<lwp, table, nprocs, overrun, lock, todo>>
  BY <1>1, <1>3 DEF Find
<1>5. holds[t].lwp = None /\ holds[t].proc = None
  BY <1>4 DEF InPlace
<1>6. TypeOK'
  BY <1>2, <1>4 DEF TypeOK, Procs, Steps
<1>7. NoDangling'
  BY <1>2, <1>4 DEF NoDangling, TypeOK, Procs
<1>8. OneAnswer'
  BY <1>2, <1>4 DEF OneAnswer, TypeOK, Procs
<1>9. ExitsKept'
  BY <1>2, <1>4, <1>5 DEF ExitsKept, TypeOK, Procs
<1>10. RefsCounted'
  BY <1>2, <1>4, <1>5 DEF RefsCounted, UsesProc, UsesLwp, One, TypeOK, Procs
<1>11. InPlace'
  BY <1>2, <1>4 DEF InPlace, TypeOK
<1>12. Marked'
  <2>1. \A p \in ProcSlots : /\ proc'[p].removing => p \notin table'
                             /\ ~proc'[p].alive => proc'[p] = FreedProc
    BY <1>2, <1>3, <1>4 DEF Marked, TypeOK, Procs
  <2>2. \A l \in LwpSlots :
          /\ lwp'[l].removing => \A p \in ProcSlots : l \notin proc'[p].lwps
          /\ ~lwp'[l].alive => lwp'[l] = FreedLwp
    BY <1>2, <1>4 DEF Marked, TypeOK, Procs
  <2>3. \A u \in Threads :
          /\ at'[u] = "free" => /\ proc'[holds'[u].proc].removing
                                /\ proc'[holds'[u].proc].ref = 0
          /\ at'[u] = "lwpfree" => /\ lwp'[holds'[u].lwp].removing
                                   /\ lwp'[holds'[u].lwp].ref = 0
    BY <1>2, <1>3, <1>4 DEF Marked, InPlace, TypeOK, Procs, Steps
  <2>4. QED
    BY <2>1, <2>2, <2>3 DEF Marked
<1>13. OwnLwp'
  BY <1>2, <1>4, <1>5 DEF OwnLwp, TypeOK, Procs
<1>14. LastOne'
  <2>1. \A u \in Threads : at[u] = "free" => holds[u].proc # o
    BY <1>3 DEF Marked
  <2>2. QED
    BY <1>4, <2>1 DEF LastOne, TypeOK
<1>15. QED
  BY <1>6, <1>7, <1>8, <1>9, <1>10, <1>11, <1>12, <1>13, <1>14

\* A look-up finds an lwp in the list of the process in use: it is not marked.
LEMMA FindLwpStep ==
  ASSUME IInv, NEW t \in Threads, NEW tid \in Tids, FindLwp(t, tid)
  PROVE  IInv'
<1> USE ProcGroupAssumption DEF IInv, Threads
<1> DEFINE o == holds[t].proc
<1>1. PICK l \in proc[o].lwps :
        /\ ~lwp[l].removing
        /\ lwp' = [lwp EXCEPT ![l].ref = @ + 1]
        /\ holds' = [holds EXCEPT ![t].lwp = l]
  BY DEF FindLwp
<1>2. /\ at' = [at EXCEPT ![t] = "lwp"]
      /\ at[t] = "proc"
      /\ UNCHANGED <<proc, table, latest, nprocs, overrun, lock, todo>>
  BY DEF FindLwp
<1>3. o # None /\ holds[t].lwp = None
  BY <1>2 DEF InPlace
<1>4. o \in ProcSlots
  BY <1>3 DEF TypeOK
<1>5. l \in LwpSlots /\ l # None /\ lwp[l].alive
  BY <1>4 DEF NoDangling, TypeOK, Procs
<1> HIDE DEF o
<1>6. o = holds[t].proc
  BY DEF o
<1>7. TypeOK'
  BY <1>1, <1>2, <1>5 DEF TypeOK, Lwps, Steps
<1>8. NoDangling'
  BY <1>1, <1>2, <1>5 DEF NoDangling, TypeOK, Procs, Lwps
<1>9. OneAnswer'
  BY <1>1, <1>2, <1>5 DEF OneAnswer, TypeOK, Procs, Lwps
<1>10. ExitsKept'
  BY <1>1, <1>2, <1>3, <1>5 DEF ExitsKept, TypeOK, Procs, Lwps
<1>11. RefsCounted'
  <2>1. \A p \in ProcSlots, u \in Threads : UsesProc(u, p)' = UsesProc(u, p)
    BY <1>1, <1>2 DEF UsesProc, TypeOK
  <2>2. \A m \in LwpSlots, u \in Threads :
          UsesLwp(u, m)' <=> UsesLwp(u, m) \/ (u = t /\ m = l)
    BY <1>1, <1>2, <1>5 DEF UsesLwp, TypeOK
  <2>3. \A m \in LwpSlots : ~UsesLwp(t, m)
    BY <1>2 DEF UsesLwp
  <2>4. \A m \in LwpSlots :
          lwp'[m].ref = IF m = l THEN lwp[m].ref + 1 ELSE lwp[m].ref
    BY <1>1, <1>5 DEF TypeOK, Lwps
  <2>5. \A m \in LwpSlots :
          lwp'[m].ref = One(UsesLwp("disp", m)') + One(UsesLwp("perf", m)')
    BY <2>2, <2>3, <2>4 DEF RefsCounted, One
  <2>6. \A p \in ProcSlots :
          proc'[p].ref = One(UsesProc("disp", p)') + One(UsesProc("perf", p)')
    BY <1>2, <2>1 DEF RefsCounted, One
  <2>7. QED
    BY <2>5, <2>6 DEF RefsCounted, One
<1>12. InPlace'
  BY <1>1, <1>2, <1>3, <1>5, <1>6 DEF InPlace, TypeOK
<1>13. Marked'
  <2>1. \A p \in ProcSlots : /\ proc'[p].removing => p \notin table'
                             /\ ~proc'[p].alive => proc'[p] = FreedProc
    BY <1>2 DEF Marked
  <2>2. \A m \in LwpSlots :
          /\ lwp'[m].removing => \A p \in ProcSlots : m \notin proc'[p].lwps
          /\ ~lwp'[m].alive => lwp'[m] = FreedLwp
    BY <1>1, <1>2, <1>5 DEF Marked, TypeOK, Lwps
  <2>3. \A u \in Threads :
          /\ at'[u] = "free" => /\ proc'[holds'[u].proc].removing
                                /\ proc'[holds'[u].proc].ref = 0
          /\ at'[u] = "lwpfree" => /\ lwp'[holds'[u].lwp].removing
                                   /\ lwp'[holds'[u].lwp].ref = 0
    BY <1>1, <1>2, <1>5 DEF Marked, InPlace, TypeOK, Lwps, Steps
  <2>4. QED
    BY <2>1, <2>2, <2>3 DEF Marked
<1>14. OwnLwp'
  <2>1. \A p \in ProcSlots : l \in proc[p].lwps => p = o
    BY <1>1, <1>4 DEF OneAnswer
  <2>2. QED
    BY <1>1, <1>2, <1>4, <1>5, <1>6, <2>1 DEF OwnLwp, TypeOK
<1>15. LastOne'
  <2>1. \A u \in Threads : at[u] = "lwpfree" => holds[u].lwp # l
    BY <1>1 DEF Marked
  <2>2. QED
    BY <1>1, <1>2, <2>1 DEF LastOne, TypeOK
<1>16. QED
  BY <1>7, <1>8, <1>9, <1>10, <1>11, <1>12, <1>13, <1>14, <1>15

\* An lwp is given back; the last reference to a marked one leaves it to be
\* freed.
LEMMA DropLwpStep ==
  ASSUME IInv, NEW t \in Threads, DropLwp(t)
  PROVE  IInv'
<1> USE ProcGroupAssumption DEF IInv, Threads
<1>1. PICK l, last : l = holds[t].lwp /\ last = (lwp[l].ref = 1 /\ lwp[l].removing)
  OBVIOUS
<1>2. /\ at[t] = "lwp"
      /\ lwp' = [lwp EXCEPT ![l].ref = @ - 1]
      /\ at' = [at EXCEPT ![t] = IF last THEN "lwpfree" ELSE "put"]
      /\ holds' = IF last THEN holds ELSE [holds EXCEPT ![t].lwp = None]
      /\ UNCHANGED <<proc, table, latest, nprocs, overrun, lock, todo>>
  BY <1>1 DEF DropLwp
<1>3. l # None /\ holds[t].proc # None
  BY <1>1, <1>2 DEF InPlace
<1>4. l \in LwpSlots /\ lwp[l].alive
  BY <1>1, <1>3 DEF TypeOK, NoDangling
<1>5. lwp[l].ref \in Nat /\ lwp[l].ref >= 1
  BY <1>1, <1>2, <1>4 DEF RefsCounted, UsesLwp, One, TypeOK, Lwps
<1>6. last => \A u \in Threads \ {t} : ~UsesLwp(u, l)
  <2>1. UsesLwp(t, l)
    BY <1>1, <1>2 DEF UsesLwp
  <2>2. lwp[l].ref = One(UsesLwp("disp", l)) + One(UsesLwp("perf", l))
    BY <1>4 DEF RefsCounted
  <2>3. last => lwp[l].ref = 1
    BY <1>1
  <2>4. QED
    BY <2>1, <2>2, <2>3 DEF One
<1>7. TypeOK'
  <2>1. lwp' \in [LwpSlots -> Lwps]
    BY <1>2, <1>4, <1>5 DEF TypeOK, Lwps
  <2>2. at' \in [Threads -> Steps]
    BY <1>2 DEF TypeOK, Steps
  <2>3. holds' \in [Threads -> [proc : ProcSlots \union {None},
                                lwp : LwpSlots \union {None}]]
    BY <1>2 DEF TypeOK
  <2>4. QED
    BY <1>2, <2>1, <2>2, <2>3 DEF TypeOK
<1>8. NoDangling'
  BY <1>2, <1>4 DEF NoDangling, TypeOK, Procs, Lwps
<1>9. OneAnswer'
  BY <1>2, <1>4 DEF OneAnswer, TypeOK, Procs, Lwps
<1>10. ExitsKept'
  <2>1. \A p \in ProcSlots \ table' :
          proc'[p].alive => /\ proc'[p].removing
                            /\ \E u \in Threads : holds'[u].proc = p
    BY <1>2 DEF ExitsKept, TypeOK
  <2>2. \A m \in LwpSlots : m # l => lwp'[m] = lwp[m]
    BY <1>2, <1>4 DEF TypeOK
  <2>3. ~last => ~lwp[l].removing \/ \E u \in Threads \ {t} : holds[u].lwp = l
    <3>1. SUFFICES ASSUME ~last, lwp[l].removing
                   PROVE  \E u \in Threads \ {t} : holds[u].lwp = l
      OBVIOUS
    <3>2. lwp[l].ref # 1
      BY <1>1, <3>1
    <3>3. lwp[l].ref = One(UsesLwp("disp", l)) + One(UsesLwp("perf", l))
      BY <1>4 DEF RefsCounted
    <3>4. UsesLwp("disp", l) /\ UsesLwp("perf", l)
      BY <1>5, <3>2, <3>3 DEF One
    <3>5. QED
      BY <3>4 DEF UsesLwp
  <2>4. lwp'[l].removing = lwp[l].removing /\ lwp'[l].alive
    BY <1>2, <1>4 DEF TypeOK, Lwps
  <2>5. \A u \in Threads : u # t => holds'[u] = holds[u]
    BY <1>2 DEF TypeOK
  <2>6. \A m \in LwpSlots :
          lwp'[m].alive => \/ \E p \in ProcSlots : m \in proc'[p].lwps
                           \/ /\ lwp'[m].removing
                              /\ \E u \in Threads : holds'[u].lwp = m
    <3>1. SUFFICES ASSUME NEW m \in LwpSlots, lwp[m].alive
                   PROVE  \/ \E p \in ProcSlots : m \in proc[p].lwps
                          \/ /\ lwp[m].removing
                             /\ \E u \in Threads : holds'[u].lwp = m
      BY <1>2, <1>4, <2>2, <2>4
    <3>2. \/ \E p \in ProcSlots : m \in proc[p].lwps
          \/ lwp[m].removing /\ \E u \in Threads : holds[u].lwp = m
      BY <3>1 DEF ExitsKept
    <3>3. ASSUME lwp[m].removing, NEW u \in Threads, holds[u].lwp = m
          PROVE  \E s \in Threads : holds'[s].lwp = m
      <4>1. CASE u # t
        BY <2>5, <3>3, <4>1
      <4>2. CASE last
        BY <1>2, <3>3, <4>2
      <4>3. CASE u = t /\ ~last
        <5>1. m = l
          BY <1>1, <3>3, <4>3
        <5>2. PICK s \in Threads \ {t} : holds[s].lwp = l
          BY <2>3, <3>3, <4>3, <5>1
        <5>3. QED
          BY <2>5, <5>1, <5>2
      <4>4. QED
        BY <4>1, <4>2, <4>3
    <3>4. QED
      BY <3>2, <3>3
  <2>7. QED
    BY <2>1, <2>6 DEF ExitsKept
<1>11. RefsCounted'
  <2>1. \A p \in ProcSlots, u \in Threads : UsesProc(u, p)' = UsesProc(u, p)
    BY <1>2 DEF UsesProc, TypeOK
  <2>2. \A m \in LwpSlots, u \in Threads :
          UsesLwp(u, m)' <=> UsesLwp(u, m) /\ u # t
    BY <1>2 DEF UsesLwp, TypeOK
  <2>3. \A m \in LwpSlots :
          lwp'[m].ref = IF m = l THEN lwp[m].ref - 1 ELSE lwp[m].ref
    BY <1>2, <1>4 DEF TypeOK, Lwps
  <2>4. \A m \in LwpSlots : UsesLwp(t, m) <=> m = l
    BY <1>1, <1>2 DEF UsesLwp
  <2>5. \A m \in LwpSlots :
          lwp'[m].ref = One(UsesLwp("disp", m)') + One(UsesLwp("perf", m)')
    BY <2>2, <2>3, <2>4 DEF RefsCounted, One
  <2>6. \A p \in ProcSlots :
          proc'[p].ref = One(UsesProc("disp", p)') + One(UsesProc("perf", p)')
    BY <1>2, <2>1 DEF RefsCounted, One
  <2>7. QED
    BY <2>5, <2>6 DEF RefsCounted, One
<1>12. InPlace'
  BY <1>1, <1>2, <1>3, <1>4 DEF InPlace, TypeOK
<1>13. Marked'
  <2>1. \A p \in ProcSlots : /\ proc'[p].removing => p \notin table'
                             /\ ~proc'[p].alive => proc'[p] = FreedProc
    BY <1>2 DEF Marked
  <2>2. \A m \in LwpSlots :
          /\ lwp'[m].removing => \A p \in ProcSlots : m \notin proc'[p].lwps
          /\ ~lwp'[m].alive => lwp'[m] = FreedLwp
    BY <1>2, <1>4 DEF Marked, TypeOK, Lwps
  <2>3. \A u \in Threads :
          /\ at'[u] = "free" => /\ proc'[holds'[u].proc].removing
                                /\ proc'[holds'[u].proc].ref = 0
          /\ at'[u] = "lwpfree" => /\ lwp'[holds'[u].lwp].removing
                                   /\ lwp'[holds'[u].lwp].ref = 0
    <3> TAKE u \in Threads
    <3>1. proc' = proc /\ (at'[u] = "free" => at[u] = "free" /\ holds'[u] = holds[u])
      BY <1>2 DEF TypeOK
    <3>2. CASE u = t
      <4>1. at'[u] = "lwpfree" => last /\ holds'[u].lwp = l
        BY <1>1, <1>2, <3>2 DEF TypeOK
      <4>2. last => lwp'[l].removing /\ lwp'[l].ref = 0
        <5>1. last => lwp[l].ref = 1 /\ lwp[l].removing
          BY <1>1
        <5>2. /\ lwp'[l].removing = lwp[l].removing
              /\ lwp'[l].ref = lwp[l].ref - 1
          BY <1>2, <1>4 DEF TypeOK, Lwps
        <5>3. QED
          BY <5>1, <5>2
      <4>3. QED
        BY <3>1, <4>1, <4>2 DEF Marked
    <3>3. CASE u # t
      <4>1. at'[u] = at[u] /\ holds'[u] = holds[u]
        BY <1>2, <3>3 DEF TypeOK
      <4>2. at[u] = "lwpfree" => holds[u].lwp # l /\ holds[u].lwp \in LwpSlots
        BY <1>5 DEF Marked, InPlace, TypeOK
      <4>3. QED
        BY <1>2, <3>1, <4>1, <4>2 DEF Marked, TypeOK
    <3>4. QED
      BY <3>2, <3>3
  <2>4. QED
    BY <2>1, <2>2, <2>3 DEF Marked
<1>14. OwnLwp'
  <2>1. None \notin LwpSlots
    OBVIOUS
  <2>2. QED
    BY <1>2, <2>1 DEF OwnLwp, TypeOK, Procs
<1>15. LastOne'
  <2>1. \A u \in Threads \ {t} :
          /\ at[u] = "lwpfree" => holds[u].lwp # l
          /\ last => holds[u].lwp # l
    BY <1>3, <1>5, <1>6 DEF Marked, InPlace, UsesLwp
  <2>2. \A u \in Threads : u # t => at'[u] = at[u] /\ holds'[u] = holds[u]
    BY <1>2 DEF TypeOK
  <2>3. holds'[t].proc = holds[t].proc /\ holds'[t].lwp \in {l, None}
    BY <1>1, <1>2 DEF TypeOK
  <2>4. at'[t] # "free" /\ (at'[t] = "lwpfree" => last /\ holds'[t].lwp = l)
    BY <1>1, <1>2 DEF TypeOK
  <2>5. \A u \in Threads : at[u] = "lwpfree" => holds[u].lwp # None
    BY DEF InPlace
  <2>6. QED
    BY <2>1, <2>2, <2>3, <2>4, <2>5 DEF LastOne
<1>16. QED
  BY <1>7, <1>8, <1>9, <1>10, <1>11, <1>12, <1>13, <1>14, <1>15

\* Nobody else holds the lwp that is freed, and no list has it.
LEMMA FreeLwpStep ==
  ASSUME IInv, NEW t \in Threads, FreeLwp(t)
  PROVE  IInv'
<1> USE ProcGroupAssumption DEF IInv, Threads
<1>1. PICK l : l = holds[t].lwp
  OBVIOUS
<1>2. /\ at[t] = "lwpfree"
      /\ lwp' = LwpFree(lwp, {l})
      /\ at' = [at EXCEPT ![t] = "put"]
      /\ holds' = [holds EXCEPT ![t].lwp = None]
      /\ UNCHANGED <<proc, table, latest, nprocs, overrun, lock, todo>>
  BY <1>1 DEF FreeLwp
<1>3. l # None /\ holds[t].proc # None
  BY <1>1, <1>2 DEF InPlace
<1>4. l \in LwpSlots /\ lwp[l].removing /\ lwp[l].ref = 0
  BY <1>1, <1>2, <1>3 DEF TypeOK, Marked
<1>5. \A o \in ProcSlots : l \notin proc[o].lwps
  BY <1>4 DEF Marked
<1>6. \A u \in Threads \ {t} : holds[u].lwp # l
  BY <1>1, <1>2 DEF LastOne
<1>7. lwp' = [m \in LwpSlots |-> IF m = l THEN FreedLwp ELSE lwp[m]]
  BY <1>2, <1>4 DEF LwpFree
<1>8. TypeOK'
  <2>1. FreedLwp \in Lwps
    BY DEF FreedLwp, Lwps
  <2>2. lwp' \in [LwpSlots -> Lwps]
    BY <1>7, <2>1 DEF TypeOK
  <2>3. at' \in [Threads -> Steps]
    BY <1>2 DEF TypeOK, Steps
  <2>4. holds' \in [Threads -> [proc : ProcSlots \union {None},
                                lwp : LwpSlots \union {None}]]
    BY <1>2 DEF TypeOK
  <2>5. QED
    BY <1>2, <2>2, <2>3, <2>4 DEF TypeOK
<1>9. /\ lwp'[l].alive = FALSE /\ lwp'[l].ref = 0 /\ lwp'[l].removing = FALSE
       /\ lwp'[l] = FreedLwp
  BY <1>4, <1>7 DEF FreedLwp
<1>10. \A m \in LwpSlots : m # l => lwp'[m] = lwp[m]
  BY <1>7
<1>11. \A u \in Threads : u # t => at'[u] = at[u] /\ holds'[u] = holds[u]
  BY <1>2 DEF TypeOK
<1>12. at'[t] = "put" /\ holds'[t].lwp = None /\ holds'[t].proc = holds[t].proc
  BY <1>2 DEF TypeOK
<1>13. NoDangling'
  <2>1. \A p \in ProcSlots : \A m \in proc[p].lwps : m \in LwpSlots /\ m # l
    BY <1>5 DEF TypeOK, Procs
  <2>2. \A u \in Threads : holds[u].lwp # None => holds[u].lwp \in LwpSlots
    BY DEF TypeOK
  <2>3. \A u \in Threads : holds'[u].proc = holds[u].proc
    BY <1>11, <1>12
  <2>4. \A u \in Threads : holds'[u].lwp # None => lwp'[holds'[u].lwp].alive
    BY <1>6, <1>10, <1>11, <1>12, <2>2 DEF NoDangling
  <2>5. QED
    BY <1>2, <1>10, <2>1, <2>3, <2>4 DEF NoDangling
<1>14. OneAnswer'
  <2>1. \A p \in ProcSlots : \A m \in proc[p].lwps : m \in LwpSlots /\ m # l
    BY <1>5 DEF TypeOK, Procs
  <2>2. \A p \in ProcSlots : \A m \in proc[p].lwps : lwp'[m] = lwp[m]
    BY <1>10, <2>1
  <2>3. proc' = proc /\ table' = table
    BY <1>2
  <2>4. \A o, p \in table' : proc'[o].pid = proc'[p].pid => o = p
    BY <2>3 DEF OneAnswer
  <2>5. \A o, p \in ProcSlots : \A k \in proc'[o].lwps, m \in proc'[p].lwps :
          \/ k = m /\ o = p
          \/ k # m /\ (o = p => lwp'[k].tid # lwp'[m].tid)
    BY <2>2, <2>3 DEF OneAnswer
  <2>6. QED
    BY <2>4, <2>5 DEF OneAnswer
<1>15. ExitsKept'
  <2>1. \A p \in ProcSlots \ table' :
          proc'[p].alive => /\ proc'[p].removing
                            /\ \E u \in Threads : holds'[u].proc = p
    BY <1>2, <1>11, <1>12 DEF ExitsKept
  <2>2. \A m \in LwpSlots \ {l}, u \in Threads :
          holds[u].lwp = m => holds'[u].lwp = m
    BY <1>1, <1>11
  <2>3. \A m \in LwpSlots :
          lwp'[m].alive => \/ \E p \in ProcSlots : m \in proc'[p].lwps
                           \/ /\ lwp'[m].removing
                              /\ \E u \in Threads : holds'[u].lwp = m
    <3>1. SUFFICES ASSUME NEW m \in LwpSlots, m # l, lwp[m].alive
                   PROVE  \/ \E p \in ProcSlots : m \in proc[p].lwps
                          \/ /\ lwp[m].removing
                             /\ \E u \in Threads : holds'[u].lwp = m
      BY <1>2, <1>9, <1>10
    <3>2. \/ \E p \in ProcSlots : m \in proc[p].lwps
          \/ lwp[m].removing /\ \E u \in Threads : holds[u].lwp = m
      BY <3>1 DEF ExitsKept
    <3>3. QED
      BY <2>2, <3>1, <3>2
  <2>4. QED
    BY <2>1, <2>3 DEF ExitsKept
<1>16. RefsCounted'
  <2>1. \A p \in ProcSlots, u \in Threads : UsesProc(u, p)' = UsesProc(u, p)
    BY <1>2 DEF UsesProc, TypeOK
  <2>2. \A m \in LwpSlots, u \in Threads : UsesLwp(u, m)' = UsesLwp(u, m)
    BY <1>2, <1>11, <1>12 DEF UsesLwp
  <2>3. \A m \in LwpSlots : lwp'[m].ref = lwp[m].ref
    BY <1>4, <1>9, <1>10
  <2>4. \A p \in ProcSlots :
          proc'[p].ref = One(UsesProc("disp", p)') + One(UsesProc("perf", p)')
    <3>1. \A p \in ProcSlots :
            /\ One(UsesProc("disp", p)') = One(UsesProc("disp", p))
            /\ One(UsesProc("perf", p)') = One(UsesProc("perf", p))
      BY <2>1 DEF One
    <3>2. QED
      BY <1>2, <3>1 DEF RefsCounted
  <2>5. \A m \in LwpSlots :
          lwp'[m].ref = One(UsesLwp("disp", m)') + One(UsesLwp("perf", m)')
    <3>1. \A m \in LwpSlots :
            /\ One(UsesLwp("disp", m)') = One(UsesLwp("disp", m))
            /\ One(UsesLwp("perf", m)') = One(UsesLwp("perf", m))
      BY <2>2 DEF One
    <3>2. QED
      BY <2>3, <3>1 DEF RefsCounted
  <2>6. QED
    BY <2>4, <2>5 DEF RefsCounted, One
<1>17. InPlace'
  BY <1>2, <1>3, <1>11, <1>12 DEF InPlace, TypeOK
<1>18. Marked'
  <2>1. \A p \in ProcSlots : /\ proc'[p].removing => p \notin table'
                             /\ ~proc'[p].alive => proc'[p] = FreedProc
    BY <1>2 DEF Marked
  <2>2. \A m \in LwpSlots :
          /\ lwp'[m].removing => \A p \in ProcSlots : m \notin proc'[p].lwps
          /\ ~lwp'[m].alive => lwp'[m] = FreedLwp
    BY <1>2, <1>9, <1>10 DEF Marked
  <2>3. \A u \in Threads :
          /\ at'[u] = "free" => /\ proc'[holds'[u].proc].removing
                                /\ proc'[holds'[u].proc].ref = 0
          /\ at'[u] = "lwpfree" => /\ lwp'[holds'[u].lwp].removing
                                   /\ lwp'[holds'[u].lwp].ref = 0
    <3>1. \A u \in Threads \ {t} :
            at[u] = "lwpfree" => holds[u].lwp \in LwpSlots /\ holds[u].lwp # l
      BY <1>6 DEF TypeOK, InPlace
    <3>2. \A u \in Threads \ {t} :
            at[u] = "lwpfree" => lwp'[holds[u].lwp] = lwp[holds[u].lwp]
      BY <1>10, <3>1
    <3>3. at'[t] # "free" /\ at'[t] # "lwpfree"
      BY <1>12
    <3> TAKE u \in Threads
    <3>4. CASE u = t
      BY <3>3, <3>4
    <3>5. CASE u # t
      <4>1. at'[u] = at[u] /\ holds'[u] = holds[u]
        BY <1>11, <3>5
      <4>2. at[u] = "lwpfree" => /\ lwp'[holds[u].lwp].removing
                                 /\ lwp'[holds[u].lwp].ref = 0
        BY <3>2, <3>5 DEF Marked
      <4>3. at[u] = "free" => /\ proc'[holds[u].proc].removing
                              /\ proc'[holds[u].proc].ref = 0
        BY <1>2 DEF Marked
      <4>4. QED
        BY <4>1, <4>2, <4>3
    <3>6. QED
      BY <3>4, <3>5
  <2>4. QED
    BY <2>1, <2>2, <2>3 DEF Marked
<1>19. OwnLwp'
  <2>1. None \notin LwpSlots /\ \A p \in ProcSlots : proc[p].lwps \subseteq LwpSlots
    BY DEF TypeOK, Procs
  <2>2. QED
    BY <1>2, <1>11, <1>12, <2>1 DEF OwnLwp
<1>20. LastOne'
  <2>1. \A u \in Threads : at[u] = "lwpfree" => holds[u].lwp # None
    BY DEF InPlace
  <2>2. QED
    BY <1>11, <1>12, <2>1 DEF LastOne
<1>21. QED
  BY <1>8, <1>13, <1>14, <1>15, <1>16, <1>17, <1>18, <1>19, <1>20

\* A process is given back; the last reference to a marked one leaves it to
\* be freed.
LEMMA DropProcStep ==
  ASSUME IInv, NEW t \in Threads, DropProc(t)
  PROVE  IInv'
<1> USE ProcGroupAssumption DEF IInv, Threads
<1>1. PICK o, last : o = holds[t].proc /\ last = (proc[o].ref = 1 /\ proc[o].removing)
  OBVIOUS
<1>2. /\ at[t] \in {"proc", "put"}
      /\ proc' = [proc EXCEPT ![o].ref = @ - 1]
      /\ at' = [at EXCEPT ![t] = IF last THEN "free" ELSE "idle"]
      /\ holds' = IF last THEN holds ELSE [holds EXCEPT ![t] = Nothing]
      /\ UNCHANGED <<lwp, table, latest, nprocs, overrun, lock, todo>>
  BY <1>1 DEF DropProc
<1>3. o # None /\ holds[t].lwp = None
  BY <1>1, <1>2 DEF InPlace
<1>4. o \in ProcSlots /\ proc[o].alive
  BY <1>1, <1>3 DEF TypeOK, NoDangling
<1>5. UsesProc(t, o)
  BY <1>1, <1>2 DEF UsesProc
<1>6. proc[o].ref = One(UsesProc("disp", o)) + One(UsesProc("perf", o))
  BY <1>4 DEF RefsCounted
<1>7. proc[o].ref \in Nat /\ proc[o].ref >= 1
  BY <1>5, <1>6 DEF One
<1>8. last => /\ proc[o].ref = 1 /\ proc[o].removing
              /\ \A u \in Threads \ {t} : ~UsesProc(u, o)
  <2>1. last => proc[o].ref = 1 /\ proc[o].removing
    BY <1>1
  <2>2. QED
    BY <1>5, <1>6, <2>1 DEF One
<1>9. \A p \in ProcSlots : p # o => proc'[p] = proc[p]
  BY <1>2, <1>4 DEF TypeOK
<1>10. /\ proc'[o].ref = proc[o].ref - 1
       /\ proc'[o].alive = proc[o].alive /\ proc'[o].pid = proc[o].pid
       /\ proc'[o].removing = proc[o].removing /\ proc'[o].lwps = proc[o].lwps
  <2>1. proc'[o] = [proc[o] EXCEPT !.ref = @ - 1]
    BY <1>2, <1>4 DEF TypeOK
  <2>2. proc[o] \in Procs
    BY <1>4 DEF TypeOK
  <2>3. QED
    BY <2>1, <2>2 DEF Procs
<1>11. \A u \in Threads : u # t => at'[u] = at[u] /\ holds'[u] = holds[u]
  BY <1>2 DEF TypeOK
<1>12. /\ last => at'[t] = "free" /\ holds'[t] = holds[t]
       /\ ~last => at'[t] = "idle" /\ holds'[t].proc = None
       /\ holds'[t].lwp = None
  BY <1>2, <1>3 DEF TypeOK, Nothing
<1>13. \A u \in Threads \ {t} :
         /\ at[u] = "free" => holds[u].proc # o
         /\ last => holds[u].proc # o
  <2> SUFFICES ASSUME NEW u \in Threads \ {t}
               PROVE  /\ at[u] = "free" => holds[u].proc # o
                      /\ last => holds[u].proc # o
    OBVIOUS
  <2>1. at[u] = "free" => holds[u].proc # o
    BY <1>7 DEF Marked
  <2>2. holds[u].proc = o => UsesProc(u, o)
    BY <1>3, <2>1 DEF InPlace, UsesProc, TypeOK, Steps
  <2>3. QED
    BY <1>8, <2>1, <2>2
<1>14. TypeOK'
  <2>1. proc' \in [ProcSlots -> Procs]
    BY <1>2, <1>4, <1>7 DEF TypeOK, Procs
  <2>2. at' \in [Threads -> Steps]
    BY <1>2 DEF TypeOK, Steps
  <2>3. holds' \in [Threads -> [proc : ProcSlots \union {None},
                                lwp : LwpSlots \union {None}]]
    BY <1>2 DEF TypeOK, Nothing
  <2>4. QED
    BY <1>2, <2>1, <2>2, <2>3 DEF TypeOK
<1>15. NoDangling'
  <2>1. \A p \in ProcSlots : /\ proc'[p].alive = proc[p].alive
                             /\ proc'[p].lwps = proc[p].lwps
    BY <1>9, <1>10
  <2>2. \A u \in Threads : /\ holds'[u].proc \in {holds[u].proc, None}
                           /\ holds'[u].lwp \in {holds[u].lwp, None}
    BY <1>11, <1>12
  <2>3. \A u \in Threads : holds[u].proc # None => holds[u].proc \in ProcSlots
    BY DEF TypeOK
  <2>4. table \subseteq ProcSlots
    BY DEF TypeOK
  <2>5. QED
    BY <1>2, <2>1, <2>2, <2>3, <2>4 DEF NoDangling
<1>16. OneAnswer'
  <2>1. \A p \in ProcSlots : proc'[p].pid = proc[p].pid /\ proc'[p].lwps = proc[p].lwps
    BY <1>9, <1>10
  <2>2. table \subseteq ProcSlots
    BY DEF TypeOK
  <2>3. QED
    BY <1>2, <2>1, <2>2 DEF OneAnswer
<1>17. ExitsKept'
  <2>1. \A p \in ProcSlots : /\ proc'[p].alive = proc[p].alive
                             /\ proc'[p].lwps = proc[p].lwps
                             /\ proc'[p].removing = proc[p].removing
    BY <1>9, <1>10
  <2>2. ~last /\ proc[o].removing => \E u \in Threads \ {t} : holds[u].proc = o
    <3>1. SUFFICES ASSUME ~last, proc[o].removing
                   PROVE  \E u \in Threads \ {t} : holds[u].proc = o
      OBVIOUS
    <3>2. proc[o].ref # 1
      BY <1>1, <3>1
    <3>3. UsesProc("disp", o) /\ UsesProc("perf", o)
      BY <1>6, <1>7, <3>2 DEF One
    <3>4. QED
      BY <3>3 DEF UsesProc
  <2>3. \A p \in ProcSlots \ table' :
          proc'[p].alive => /\ proc'[p].removing
                            /\ \E u \in Threads : holds'[u].proc = p
    <3>1. SUFFICES ASSUME NEW p \in ProcSlots \ table, proc[p].alive
                   PROVE  /\ proc[p].removing
                          /\ \E u \in Threads : holds'[u].proc = p
      BY <1>2, <2>1
    <3>2. PICK u \in Threads : proc[p].removing /\ holds[u].proc = p
      BY <3>1 DEF ExitsKept
    <3>3. CASE u # t \/ last
      BY <1>11, <1>12, <3>2, <3>3
    <3>4. CASE u = t /\ ~last
      <4>1. p = o
        BY <1>1, <3>2, <3>4
      <4>2. PICK s \in Threads \ {t} : holds[s].proc = o
        BY <2>2, <3>2, <3>4, <4>1
      <4>3. holds'[s].proc = p
        BY <1>11, <4>1, <4>2
      <4>4. QED
        BY <3>2, <4>2, <4>3
    <3>5. QED
      BY <3>3, <3>4
  <2>4. \A u \in Threads : holds'[u].lwp = holds[u].lwp
    BY <1>3, <1>11, <1>12
  <2>5. QED
    BY <1>2, <2>1, <2>3, <2>4 DEF ExitsKept
<1>18. RefsCounted'
  <2>1. \A p \in ProcSlots, u \in Threads :
          UsesProc(u, p)' <=> UsesProc(u, p) /\ u # t
    BY <1>1, <1>3, <1>11, <1>12 DEF UsesProc
  <2>2. \A m \in LwpSlots, u \in Threads : UsesLwp(u, m)' = UsesLwp(u, m)
    BY <1>2, <1>3, <1>11, <1>12 DEF UsesLwp
  <2>3. \A p \in ProcSlots : UsesProc(t, p) <=> p = o
    BY <1>1, <1>2 DEF UsesProc
  <2>4. \A p \in ProcSlots :
          proc'[p].ref = IF p = o THEN proc[p].ref - 1 ELSE proc[p].ref
    BY <1>9, <1>10
  <2>5. \A p \in ProcSlots :
          proc'[p].ref = One(UsesProc("disp", p)') + One(UsesProc("perf", p)')
    BY <2>1, <2>3, <2>4 DEF RefsCounted, One
  <2>6. \A m \in LwpSlots :
          lwp'[m].ref = One(UsesLwp("disp", m)') + One(UsesLwp("perf", m)')
    BY <1>2, <2>2 DEF RefsCounted, One
  <2>7. QED
    BY <2>5, <2>6 DEF RefsCounted, One
<1>19. InPlace'
  BY <1>1, <1>2, <1>3, <1>11, <1>12 DEF InPlace, TypeOK
<1>20. Marked'
  <2>1. \A p \in ProcSlots : /\ proc'[p].removing => p \notin table'
                             /\ ~proc'[p].alive => proc'[p] = FreedProc
    BY <1>2, <1>4, <1>9, <1>10 DEF Marked
  <2>2. \A m \in LwpSlots :
          /\ lwp'[m].removing => \A p \in ProcSlots : m \notin proc'[p].lwps
          /\ ~lwp'[m].alive => lwp'[m] = FreedLwp
    BY <1>2, <1>9, <1>10 DEF Marked
  <2>3. \A u \in Threads :
          /\ at'[u] = "free" => /\ proc'[holds'[u].proc].removing
                                /\ proc'[holds'[u].proc].ref = 0
          /\ at'[u] = "lwpfree" => /\ lwp'[holds'[u].lwp].removing
                                   /\ lwp'[holds'[u].lwp].ref = 0
    <3> TAKE u \in Threads
    <3>1. CASE u = t
      <4>1. at'[u] = "free" => last /\ holds'[u].proc = o
        BY <1>1, <1>12, <3>1
      <4>2. at'[u] # "lwpfree"
        BY <1>12, <3>1
      <4>3. QED
        BY <1>8, <1>10, <4>1, <4>2
    <3>2. CASE u # t
      <4>1. at'[u] = at[u] /\ holds'[u] = holds[u]
        BY <1>11, <3>2
      <4>2. at[u] = "free" => holds[u].proc # o /\ holds[u].proc \in ProcSlots
        BY <1>13, <3>2 DEF InPlace, TypeOK
      <4>3. QED
        BY <1>2, <1>9, <4>1, <4>2 DEF Marked
    <3>3. QED
      BY <3>1, <3>2
  <2>4. QED
    BY <2>1, <2>2, <2>3 DEF Marked
<1>21. OwnLwp'
  <2>1. None \notin LwpSlots /\ \A p \in ProcSlots : proc[p].lwps \subseteq LwpSlots
    BY DEF TypeOK, Procs
  <2>2. \A p \in ProcSlots : proc'[p].lwps = proc[p].lwps
    BY <1>9, <1>10
  <2>3. QED
    BY <1>11, <1>12, <2>1, <2>2 DEF OwnLwp
<1>22. LastOne'
  <2>1. at'[t] # "lwpfree" /\ (at'[t] = "free" => last /\ holds'[t].proc = o)
    BY <1>1, <1>12
  <2>2. holds'[t].proc \in {o, None} /\ holds'[t].lwp = None
    BY <1>1, <1>12
  <2>3. \A u \in Threads : /\ at[u] = "lwpfree" => holds[u].lwp # None
                           /\ at[u] = "free" => holds[u].proc # None
    BY DEF InPlace
  <2>4. QED
    BY <1>11, <1>13, <2>1, <2>2, <2>3 DEF LastOne
<1>23. QED
  BY <1>14, <1>15, <1>16, <1>17, <1>18, <1>19, <1>20, <1>21, <1>22

\* The process that is freed is unused, and so are its lwps.
LEMMA FreeProcStep ==
  ASSUME IInv, NEW t \in Threads, FreeProc(t)
  PROVE  IInv'
<1> USE ProcGroupAssumption DEF IInv, Threads
<1>1. PICK o : o = holds[t].proc
  OBVIOUS
<1>2. /\ at[t] = "free"
      /\ lwp' = LwpFree(lwp, LwpsOf({o}))
      /\ proc' = ProcFree(proc, {o})
      /\ nprocs' = IF proc[o].ref > 0 THEN nprocs ELSE nprocs - 1
      /\ at' = [at EXCEPT ![t] = "idle"]
      /\ holds' = [holds EXCEPT ![t] = Nothing]
      /\ UNCHANGED <<table, latest, overrun, lock, todo>>
  BY <1>1 DEF FreeProc
<1>3. o # None /\ holds[t].lwp = None
  BY <1>1, <1>2 DEF InPlace
<1>4. o \in ProcSlots /\ proc[o].removing /\ proc[o].ref = 0
  BY <1>1, <1>2, <1>3 DEF TypeOK, Marked
<1>5. o \notin table
  BY <1>4 DEF Marked
<1>6. \A u \in Threads \ {t} : holds[u].proc # o
  BY <1>1, <1>2 DEF LastOne
<1>7. \A u \in Threads : holds[u].lwp \notin proc[o].lwps
  <2>1. None \notin proc[o].lwps
    BY <1>4 DEF TypeOK, Procs
  <2>2. QED
    BY <1>3, <1>4, <1>6, <2>1 DEF OwnLwp
<1>8. LwpsOf({o}) = proc[o].lwps /\ proc[o].lwps \subseteq LwpSlots
  <2>1. {s \in {o} : proc[s].ref = 0} = {o}
    BY <1>4
  <2>2. QED
    BY <1>4, <2>1 DEF LwpsOf, TypeOK, Procs
<1>9. \A l \in proc[o].lwps : lwp[l].ref = 0
  <2> TAKE l \in proc[o].lwps
  <2>1. ~UsesLwp("disp", l) /\ ~UsesLwp("perf", l)
    BY <1>7 DEF UsesLwp
  <2>2. QED
    BY <1>8, <2>1 DEF RefsCounted, One
<1>10. proc' = [p \in ProcSlots |-> IF p = o THEN FreedProc ELSE proc[p]]
  BY <1>2, <1>4 DEF ProcFree
<1>11. lwp' = [l \in LwpSlots |-> IF l \in proc[o].lwps THEN FreedLwp ELSE lwp[l]]
  <2>1. \A l \in proc[o].lwps : ~(lwp[l].ref > 0)
    BY <1>9
  <2>2. QED
    BY <1>2, <1>8, <2>1 DEF LwpFree
<1>12. /\ proc'[o] = FreedProc
       /\ proc'[o].alive = FALSE /\ proc'[o].ref = 0
       /\ proc'[o].removing = FALSE /\ proc'[o].lwps = {}
  BY <1>4, <1>10 DEF FreedProc
<1>13. \A p \in ProcSlots : p # o => proc'[p] = proc[p]
  BY <1>10
<1>14. \A l \in proc[o].lwps : /\ lwp'[l] = FreedLwp
                               /\ lwp'[l].alive = FALSE /\ lwp'[l].ref = 0
                               /\ lwp'[l].removing = FALSE
  BY <1>8, <1>11 DEF FreedLwp
<1>15. \A l \in LwpSlots : l \notin proc[o].lwps => lwp'[l] = lwp[l]
  BY <1>11
<1>16. \A p \in ProcSlots : p # o => \A l \in proc[p].lwps : /\ l \in LwpSlots
                                                             /\ lwp'[l] = lwp[l]
  <2> TAKE p \in ProcSlots
  <2> HAVE p # o
  <2> TAKE l \in proc[p].lwps
  <2>1. l \in LwpSlots
    BY DEF TypeOK, Procs
  <2>2. l \notin proc[o].lwps
    BY <1>4 DEF OneAnswer
  <2>3. QED
    BY <1>15, <2>1, <2>2
<1>17. \A u \in Threads : u # t => at'[u] = at[u] /\ holds'[u] = holds[u]
  BY <1>2 DEF TypeOK
<1>18. at'[t] = "idle" /\ holds'[t].proc = None /\ holds'[t].lwp = None
  BY <1>2 DEF TypeOK, Nothing
<1>19. \A u \in Threads \ {t} :
         /\ holds[u].proc # None =>
              holds[u].proc \in ProcSlots /\ proc'[holds[u].proc] = proc[holds[u].proc]
         /\ holds[u].lwp # None =>
              holds[u].lwp \in LwpSlots /\ lwp'[holds[u].lwp] = lwp[holds[u].lwp]
  BY <1>6, <1>7, <1>13, <1>15 DEF TypeOK
<1>20. TypeOK'
  <2>1. FreedLwp \in Lwps /\ FreedProc \in Procs
    BY DEF FreedLwp, Lwps, FreedProc, Procs
  <2>2. lwp' \in [LwpSlots -> Lwps]
    BY <1>11, <2>1 DEF TypeOK
  <2>3. proc' \in [ProcSlots -> Procs]
    BY <1>10, <2>1 DEF TypeOK
  <2>4. at' \in [Threads -> Steps]
    BY <1>2 DEF TypeOK, Steps
  <2>5. holds' \in [Threads -> [proc : ProcSlots \union {None},
                                lwp : LwpSlots \union {None}]]
    BY <1>2 DEF TypeOK, Nothing
  <2>6. nprocs' \in Int
    BY <1>2 DEF TypeOK
  <2>7. QED
    BY <1>2, <2>2, <2>3, <2>4, <2>5, <2>6 DEF TypeOK
<1>21. NoDangling'
  <2>1. \A p \in table' : proc'[p].alive
    BY <1>2, <1>5, <1>13 DEF NoDangling, TypeOK
  <2>2. latest' # None => latest' \in table'
    BY <1>2 DEF NoDangling
  <2>3. \A p \in ProcSlots : \A l \in proc'[p].lwps : lwp'[l].alive
    BY <1>12, <1>13, <1>16 DEF NoDangling
  <2>4. \A u \in Threads :
          /\ holds'[u].proc # None => proc'[holds'[u].proc].alive
          /\ holds'[u].lwp # None => lwp'[holds'[u].lwp].alive
    BY <1>17, <1>18, <1>19 DEF NoDangling
  <2>5. QED
    BY <2>1, <2>2, <2>3, <2>4 DEF NoDangling
<1>22. OneAnswer'
  <2>1. \A p, q \in table' : proc'[p].pid = proc'[q].pid => p = q
    <3>1. \A p \in table : p \in ProcSlots /\ proc'[p] = proc[p]
      BY <1>5, <1>13 DEF TypeOK
    <3>2. table' = table
      BY <1>2
    <3>3. QED
      BY <3>1, <3>2 DEF OneAnswer
  <2>2. \A p, q \in ProcSlots : \A l \in proc'[p].lwps, m \in proc'[q].lwps :
          \/ l = m /\ p = q
          \/ l # m /\ (p = q => lwp'[l].tid # lwp'[m].tid)
    <3> TAKE p, q \in ProcSlots
    <3> TAKE l \in proc'[p].lwps, m \in proc'[q].lwps
    <3>1. p # o /\ q # o
      BY <1>12
    <3>2. l \in proc[p].lwps /\ m \in proc[q].lwps
      BY <1>13, <3>1
    <3>3. lwp'[l] = lwp[l] /\ lwp'[m] = lwp[m]
      BY <1>16, <3>1, <3>2
    <3>4. QED
      BY <3>2, <3>3 DEF OneAnswer
  <2>3. QED
    BY <2>1, <2>2 DEF OneAnswer
<1>23. ExitsKept'
  <2>1. \A p \in ProcSlots \ table' :
          proc'[p].alive => /\ proc'[p].removing
                            /\ \E u \in Threads : holds'[u].proc = p
    <3> TAKE p \in ProcSlots \ table'
    <3> HAVE proc'[p].alive
    <3>1. p # o /\ proc'[p] = proc[p] /\ p \notin table
      BY <1>2, <1>12, <1>13
    <3>2. proc[p].removing /\ \E u \in Threads : holds[u].proc = p
      BY <3>1 DEF ExitsKept
    <3>3. QED
      BY <1>1, <1>17, <3>1, <3>2
  <2>2. \A l \in LwpSlots :
          lwp'[l].alive => \/ \E p \in ProcSlots : l \in proc'[p].lwps
                           \/ /\ lwp'[l].removing
                              /\ \E u \in Threads : holds'[u].lwp = l
    <3> TAKE l \in LwpSlots
    <3> HAVE lwp'[l].alive
    <3>1. l \notin proc[o].lwps /\ lwp'[l] = lwp[l]
      BY <1>14, <1>15
    <3>2. CASE \E p \in ProcSlots : l \in proc[p].lwps
      BY <1>13, <3>1, <3>2
    <3>3. CASE lwp[l].removing /\ \E u \in Threads : holds[u].lwp = l
      <4>1. \E u \in Threads \ {t} : holds[u].lwp = l
        BY <1>3, <3>3
      <4>2. QED
        BY <1>17, <3>1, <3>3, <4>1
    <3>4. QED
      BY <3>1, <3>2, <3>3 DEF ExitsKept
  <2>3. QED
    BY <2>1, <2>2 DEF ExitsKept
<1>24. RefsCounted'
  <2>1. \A p \in ProcSlots, u \in Threads : UsesProc(u, p)' = UsesProc(u, p)
    <3>1. \A p \in ProcSlots : ~UsesProc(t, p) /\ ~UsesProc(t, p)'
      BY <1>2, <1>18 DEF UsesProc
    <3>2. \A p \in ProcSlots, u \in Threads :
            u # t => UsesProc(u, p)' = UsesProc(u, p)
      BY <1>17 DEF UsesProc
    <3>3. QED
      BY <3>1, <3>2 DEF UsesProc
  <2>2. \A l \in LwpSlots, u \in Threads : UsesLwp(u, l)' = UsesLwp(u, l)
    BY <1>2, <1>17, <1>18 DEF UsesLwp
  <2>3. \A p \in ProcSlots : proc'[p].ref = proc[p].ref
    BY <1>4, <1>12, <1>13
  <2>4. \A l \in LwpSlots : lwp'[l].ref = lwp[l].ref
    BY <1>9, <1>14, <1>15
  <2>5. \A p \in ProcSlots :
          proc'[p].ref = One(UsesProc("disp", p)') + One(UsesProc("perf", p)')
    BY <2>1, <2>3 DEF RefsCounted, One
  <2>6. \A l \in LwpSlots :
          lwp'[l].ref = One(UsesLwp("disp", l)') + One(UsesLwp("perf", l)')
    BY <2>2, <2>4 DEF RefsCounted, One
  <2>7. QED
    BY <2>5, <2>6 DEF RefsCounted, One
<1>25. InPlace'
  BY <1>2, <1>17, <1>18 DEF InPlace, TypeOK
<1>26. Marked'
  <2>1. \A p \in ProcSlots : /\ proc'[p].removing => p \notin table'
                             /\ ~proc'[p].alive => proc'[p] = FreedProc
    BY <1>2, <1>12, <1>13 DEF Marked
  <2>2. \A l \in LwpSlots :
          /\ lwp'[l].removing => \A p \in ProcSlots : l \notin proc'[p].lwps
          /\ ~lwp'[l].alive => lwp'[l] = FreedLwp
    <3>1. \A p \in ProcSlots, l \in LwpSlots :
            l \in proc'[p].lwps => l \in proc[p].lwps
      BY <1>12, <1>13
    <3>2. QED
      BY <1>14, <1>15, <3>1 DEF Marked
  <2>3. \A u \in Threads :
          /\ at'[u] = "free" => /\ proc'[holds'[u].proc].removing
                                /\ proc'[holds'[u].proc].ref = 0
          /\ at'[u] = "lwpfree" => /\ lwp'[holds'[u].lwp].removing
                                   /\ lwp'[holds'[u].lwp].ref = 0
    <3> TAKE u \in Threads
    <3>1. CASE u = t
      BY <1>18, <3>1
    <3>2. CASE u # t
      <4>1. at'[u] = at[u] /\ holds'[u] = holds[u]
        BY <1>17, <3>2
      <4>2. at[u] = "free" => holds[u].proc # None
        BY DEF InPlace
      <4>3. at[u] = "lwpfree" => holds[u].lwp # None
        BY DEF InPlace
      <4>4. at[u] = "free" => /\ proc'[holds[u].proc].removing
                              /\ proc'[holds[u].proc].ref = 0
        BY <1>19, <3>2, <4>2 DEF Marked
      <4>5. at[u] = "lwpfree" => /\ lwp'[holds[u].lwp].removing
                                 /\ lwp'[holds[u].lwp].ref = 0
        BY <1>19, <3>2, <4>3 DEF Marked
      <4>6. QED
        BY <4>1, <4>4, <4>5
    <3>3. QED
      BY <3>1, <3>2
  <2>4. QED
    BY <2>1, <2>2, <2>3 DEF Marked
<1>27. OwnLwp'
  <2>1. None \notin LwpSlots /\ \A p \in ProcSlots : proc[p].lwps \subseteq LwpSlots
    BY DEF TypeOK, Procs
  <2>2. \A p \in ProcSlots : proc'[p].lwps \subseteq proc[p].lwps
    BY <1>12, <1>13
  <2>3. QED
    BY <1>17, <1>18, <2>1, <2>2 DEF OwnLwp
<1>28. LastOne'
  <2>1. \A u \in Threads : /\ at[u] = "lwpfree" => holds[u].lwp # None
                           /\ at[u] = "free" => holds[u].proc # None
    BY DEF InPlace
  <2>2. QED
    BY <1>17, <1>18, <2>1 DEF LastOne
<1>29. QED
  BY <1>20, <1>21, <1>22, <1>23, <1>24, <1>25, <1>26, <1>27, <1>28

\* What a refresh does to each process and lwp: it frees the `dead`
\* processes, marks the `kept` ones and adds the `fresh` ones.
Refreshed(dead, kept, fresh) ==
  /\ dead \subseteq table /\ \A x \in dead : proc[x].ref = 0
  /\ kept \subseteq table \ dead /\ \A x \in kept : proc[x].ref > 0
  /\ \A x \in fresh : x \in dead \/ ~proc[x].alive
  /\ table' = (table \ (dead \union kept)) \union fresh
  /\ latest' \in {latest, None} \ (dead \union kept)
  /\ \A x \in fresh : \E pid \in Pids :
       /\ proc'[x] = NewProc(pid)
       /\ \A y \in fresh : proc'[y] = NewProc(pid) => x = y
       /\ \A y \in table \ (dead \union kept) : proc[y].pid # pid
  /\ \A x \in dead \ fresh : proc'[x] = FreedProc
  /\ \A x \in kept : proc'[x] = [proc[x] EXCEPT !.removing = TRUE]
  /\ \A x \in ProcSlots \ (dead \union kept \union fresh) :
       proc'[x] = proc[x]
  /\ \A x \in dead : \A l \in proc[x].lwps : lwp'[l] = FreedLwp
  /\ \A l \in LwpSlots :
       (\A x \in dead : l \notin proc[x].lwps) => lwp'[l] = lwp[l]
  /\ DOMAIN proc' = ProcSlots /\ DOMAIN lwp' = LwpSlots

\* Refresh is such a step: what it frees was in the table and unused, and what
\* it adds it puts where nothing is left.
LEMMA RefreshEffect ==
  ASSUME IInv, NEW new \in SUBSET Pids, Refresh(new)
  PROVE  \E dead, kept, fresh \in SUBSET ProcSlots : Refreshed(dead, kept, fresh)
<1> USE ProcGroupAssumption DEF IInv, Threads
<1> DEFINE gone == {o \in table : proc[o].pid \notin new}
           left == ProcFree(proc, gone)
           added == Unknown(new, table \ gone)
           slot == Place(added, left)
           dead == {o \in gone : proc[o].ref = 0}
           kept == gone \ dead
           fresh == {slot[pid] : pid \in added}
<1>1. /\ Fits(added, left)
      /\ lwp' = LwpFree(lwp, LwpsOf(gone))
      /\ proc' = [o \in ProcSlots |->
                    IF \E pid \in added : slot[pid] = o
                    THEN NewProc(CHOOSE pid \in added : slot[pid] = o)
                    ELSE left[o]]
      /\ table' = (table \ gone) \union fresh
      /\ latest' = Unlatch(gone)
      /\ at["perf"] = "idle"
  BY DEF Refresh
<1>2. table \subseteq ProcSlots /\ gone \subseteq table
  BY DEF TypeOK
<1>3. DOMAIN left = ProcSlots
  BY DEF ProcFree
<1>4. added \subseteq new /\ IsFiniteSet(added)
  <2>1. added \in SUBSET Pids
    BY DEF Unknown
  <2>2. QED
    BY <2>1, FS_Subset DEF Unknown
<1>5. /\ \A x, y \in added : slot[x] = slot[y] => x = y
      /\ \A x \in added : slot[x] \in ProcSlots /\ ~left[slot[x]].alive
  <2> HIDE DEF left, added
  <2>1. IsFiniteSet(ProcSlots)
    OBVIOUS
  <2>2. QED
    BY <1>1, <1>3, <1>4, <2>1, Placed
<1>6. /\ \A o \in gone : /\ proc[o].ref = 0 => left[o] = FreedProc
                         /\ proc[o].ref > 0 =>
                              left[o] = [proc[o] EXCEPT !.removing = TRUE]
      /\ \A o \in ProcSlots \ gone : left[o] = proc[o]
  BY <1>2 DEF ProcFree
<1>7. \A o \in gone : proc[o].ref = 0 \/ proc[o].ref > 0
  BY <1>2 DEF TypeOK, Procs
<1>8. dead \subseteq table /\ \A x \in dead : proc[x].ref = 0
  BY <1>2
<1>9. kept \subseteq table \ dead /\ \A x \in kept : proc[x].ref > 0
  BY <1>2, <1>7
<1>10. \A x \in kept : left[x].alive
  <2> TAKE x \in kept
  <2>1. x \in gone /\ proc[x].ref > 0 /\ proc[x] \in Procs /\ proc[x].alive
    BY <1>2, <1>9 DEF TypeOK, NoDangling
  <2> HIDE DEF gone, left
  <2>2. left[x] = [proc[x] EXCEPT !.removing = TRUE]
    BY <1>6, <2>1
  <2>3. QED
    BY <2>1, <2>2 DEF Procs
<1>11. fresh \subseteq ProcSlots /\ \A x \in fresh : x \in dead \/ ~proc[x].alive
  <2>1. \A x \in gone : x \in dead \/ x \in kept
    OBVIOUS
  <2> HIDE DEF gone, left, dead, kept, slot, added
  <2>2. QED
    BY <1>5, <1>6, <1>10, <2>1
<1>12. kept \intersect fresh = {}
  <2> HIDE DEF left, kept, slot, added
  <2>1. QED
    BY <1>5, <1>10
<1>13. gone = dead \union kept
  OBVIOUS
<1>14. latest' \in {latest, None} \ gone
  BY <1>1, <1>2 DEF Unlatch
<1>15. \A x \in fresh : \E pid \in Pids :
         /\ proc'[x] = NewProc(pid)
         /\ \A y \in fresh : proc'[y] = NewProc(pid) => x = y
         /\ \A y \in table \ gone : proc[y].pid # pid
  <2>1. \A pid \in added : proc'[slot[pid]] = NewProc(pid)
    <3> TAKE pid \in added
    <3>1. slot[pid] \in ProcSlots /\ (CHOOSE q \in added : slot[q] = slot[pid]) = pid
      BY <1>5
    <3>2. QED
      BY <1>1, <3>1
  <2>2. \A pid, q : NewProc(pid) = NewProc(q) => pid = q
    BY DEF NewProc, FreedProc
  <2>3. \A pid \in added : pid \in Pids /\ \A y \in table \ gone : proc[y].pid # pid
    BY <1>4 DEF Unknown
  <2> HIDE DEF slot, added, gone
  <2>4. QED
    BY <2>1, <2>2, <2>3
<1>16. \A x \in ProcSlots \ fresh : proc'[x] = left[x]
  BY <1>1
<1>17. /\ \A x \in dead : \A l \in proc[x].lwps : lwp'[l] = FreedLwp
       /\ \A l \in LwpSlots :
            (\A x \in dead : l \notin proc[x].lwps) => lwp'[l] = lwp[l]
  <2>1. LwpsOf(gone) = UNION {proc[o].lwps : o \in dead}
    BY DEF LwpsOf
  <2>2. \A x \in dead : \A l \in proc[x].lwps : l \in LwpSlots /\ ~(lwp[l].ref > 0)
    <3> TAKE x \in dead
    <3> TAKE l \in proc[x].lwps
    <3>1. x \in ProcSlots /\ proc[x].ref = 0 /\ l \in LwpSlots /\ x \in table
      BY <1>2 DEF TypeOK, Procs
    <3>2. \A u \in Threads : ~UsesLwp(u, l)
      <4> SUFFICES ASSUME NEW u \in Threads, UsesLwp(u, l) PROVE FALSE
        OBVIOUS
      <4>1. UsesProc(u, x)
        BY <3>1 DEF OwnLwp, UsesLwp, UsesProc
      <4>2. QED
        BY <3>1, <4>1 DEF RefsCounted, One
    <3>3. QED
      BY <3>1, <3>2 DEF RefsCounted, One
  <2> HIDE DEF dead, gone
  <2>3. QED
    BY <1>1, <2>1, <2>2 DEF LwpFree
<1>18. DOMAIN proc' = ProcSlots /\ DOMAIN lwp' = LwpSlots
  BY <1>1 DEF LwpFree
<1>19. /\ dead \in SUBSET ProcSlots /\ kept \in SUBSET ProcSlots
       /\ fresh \in SUBSET ProcSlots
  BY <1>2, <1>11
<1>20. \A x \in dead \ fresh : proc'[x] = FreedProc
  BY <1>2, <1>6, <1>16
<1>21. \A x \in kept : proc'[x] = [proc[x] EXCEPT !.removing = TRUE]
  BY <1>2, <1>6, <1>9, <1>12, <1>16
<1>22. \A x \in ProcSlots \ (gone \union fresh) : proc'[x] = proc[x]
  BY <1>6, <1>16
<1> HIDE DEF dead, kept, fresh, gone, left, added, slot
<1>23. table' = (table \ (dead \union kept)) \union fresh
  BY <1>1, <1>13
<1>24. latest' \in {latest, None} \ (dead \union kept)
  BY <1>13, <1>14
<1>25. \A x \in fresh : \E pid \in Pids :
         /\ proc'[x] = NewProc(pid)
         /\ \A y \in fresh : proc'[y] = NewProc(pid) => x = y
         /\ \A y \in table \ (dead \union kept) : proc[y].pid # pid
  BY <1>13, <1>15
<1>26. \A x \in ProcSlots \ (dead \union kept \union fresh) : proc'[x] = proc[x]
  BY <1>13, <1>22
<1>27. Refreshed(dead, kept, fresh)
  BY ONLY <1>8, <1>9, <1>11, <1>17, <1>18, <1>20, <1>21, <1>23, <1>24,
          <1>25, <1>26, Zenon DEF Refreshed
<1>28. QED
  BY <1>19, <1>27, Zenon

\* No thread holds what a refresh frees or uses again.
LEMMA RefreshStep ==
  ASSUME IInv, NEW new \in SUBSET Pids, Refresh(new)
  PROVE  IInv'
<1> USE ProcGroupAssumption DEF IInv, Threads
<1>1. PICK dead, kept, fresh \in SUBSET ProcSlots : Refreshed(dead, kept, fresh)
  BY RefreshEffect
<1>2. /\ at["perf"] = "idle" /\ lock = None
      /\ lock' = "perf"
      /\ at' = [at EXCEPT !["perf"] = "lwps"]
      /\ todo' = table'
      /\ nprocs' = Cardinality(new)
      /\ UNCHANGED <<overrun, holds>>
  BY DEF Refresh
<1>3. /\ dead \subseteq table /\ \A x \in dead : proc[x].ref = 0
      /\ kept \subseteq table \ dead /\ \A x \in kept : proc[x].ref > 0
      /\ \A x \in fresh : x \in dead \/ ~proc[x].alive
      /\ table' = (table \ (dead \union kept)) \union fresh
      /\ latest' \in {latest, None} \ (dead \union kept)
      /\ table \subseteq ProcSlots
  BY <1>1 DEF Refreshed, TypeOK
<1>4. \A x \in fresh : \E pid \in Pids :
        /\ proc'[x] = NewProc(pid)
        /\ \A y \in fresh : proc'[y] = NewProc(pid) => x = y
        /\ \A y \in table \ (dead \union kept) : proc[y].pid # pid
  BY <1>1 DEF Refreshed
<1>5. /\ \A x \in dead \ fresh : proc'[x] = FreedProc
      /\ \A x \in kept : proc'[x] = [proc[x] EXCEPT !.removing = TRUE]
      /\ \A x \in ProcSlots \ (dead \union kept \union fresh) : proc'[x] = proc[x]
      /\ \A x \in dead : \A l \in proc[x].lwps : lwp'[l] = FreedLwp
      /\ \A l \in LwpSlots :
           (\A x \in dead : l \notin proc[x].lwps) => lwp'[l] = lwp[l]
      /\ DOMAIN proc' = ProcSlots /\ DOMAIN lwp' = LwpSlots
  BY <1>1 DEF Refreshed
<1>6. \A x \in kept : x \in table /\ x \notin dead /\ x \notin fresh /\ proc[x].alive
  BY <1>3 DEF NoDangling
<1>7. \A pid \in Pids : /\ NewProc(pid) \in Procs
                        /\ NewProc(pid).alive = TRUE /\ NewProc(pid).pid = pid
                        /\ NewProc(pid).ref = 0 /\ NewProc(pid).removing = FALSE
                        /\ NewProc(pid).lwps = {}
  BY DEF NewProc, FreedProc, Procs
<1>8. \A x \in fresh : /\ proc'[x] \in Procs
                       /\ proc'[x].alive = TRUE /\ proc'[x].ref = 0
                       /\ proc'[x].removing = FALSE /\ proc'[x].lwps = {}
  BY <1>4, <1>7
<1>9. \A x \in dead \ fresh : /\ proc'[x] \in Procs
                              /\ proc'[x].alive = FALSE /\ proc'[x].ref = 0
                              /\ proc'[x].removing = FALSE /\ proc'[x].lwps = {}
  <2>1. FreedProc \in Procs
    BY DEF FreedProc, Procs
  <2>2. /\ FreedProc.alive = FALSE /\ FreedProc.ref = 0
        /\ FreedProc.removing = FALSE /\ FreedProc.lwps = {}
    BY DEF FreedProc
  <2>3. QED
    BY <1>5, <2>1, <2>2
<1>10. \A x \in kept :
         /\ proc'[x] \in Procs /\ proc'[x].alive = TRUE
         /\ proc'[x].ref = proc[x].ref /\ proc'[x].lwps = proc[x].lwps
         /\ proc'[x].removing = TRUE
  <2> TAKE x \in kept
  <2>1. proc[x] \in Procs /\ proc[x].alive
    BY <1>6 DEF TypeOK
  <2>2. proc'[x] = [proc[x] EXCEPT !.removing = TRUE]
    BY <1>5
  <2>3. proc'[x] \in Procs
    BY <2>1, <2>2 DEF Procs
  <2>4. /\ proc'[x].alive = proc[x].alive /\ proc'[x].removing = TRUE
        /\ proc'[x].ref = proc[x].ref /\ proc'[x].lwps = proc[x].lwps
    BY <2>1, <2>2 DEF Procs
  <2>5. QED
    BY <2>1, <2>3, <2>4 DEF Procs
<1>11. \A x \in fresh : proc[x].ref = 0
  BY <1>3 DEF Marked, FreedProc
<1>12. \A x \in ProcSlots : proc'[x].ref = proc[x].ref
  BY <1>3, <1>5, <1>8, <1>9, <1>10, <1>11
<1>13. \A x \in ProcSlots : \A l \in proc'[x].lwps :
         x \notin dead /\ x \notin fresh /\ proc'[x].lwps = proc[x].lwps
  BY <1>5, <1>8, <1>9, <1>10
<1>14. \A x \in ProcSlots : \A l \in proc[x].lwps :
         x \in dead \/ proc'[x].lwps = proc[x].lwps
  <2>1. \A x \in fresh \ dead : proc[x].lwps = {}
    BY <1>3 DEF Marked, FreedProc
  <2>2. QED
    BY <1>5, <1>10, <2>1
<1>15. \A x \in ProcSlots \ dead : \A l \in proc[x].lwps :
         l \in LwpSlots /\ lwp'[l] = lwp[l]
  <2> TAKE x \in ProcSlots \ dead
  <2> TAKE l \in proc[x].lwps
  <2>1. l \in LwpSlots
    BY DEF TypeOK, Procs
  <2>2. \A y \in dead : l \notin proc[y].lwps
    BY <1>3 DEF OneAnswer
  <2>3. QED
    BY <1>5, <2>1, <2>2
<1>16. \A l \in LwpSlots : \/ lwp'[l] = lwp[l]
                           \/ lwp'[l] = FreedLwp /\ \E x \in dead : l \in proc[x].lwps
  BY <1>5
<1>17. \A u \in Threads : holds[u].proc # None =>
         holds[u].proc \in ProcSlots \ (dead \union fresh)
  <2> TAKE u \in Threads
  <2> HAVE holds[u].proc # None
  <2>1. holds[u].proc \in ProcSlots /\ proc[holds[u].proc].alive
    BY DEF TypeOK, NoDangling
  <2>2. holds[u].proc \notin dead
    <3> SUFFICES ASSUME holds[u].proc \in dead PROVE FALSE
      OBVIOUS
    <3>1. proc[holds[u].proc].ref = 0 /\ holds[u].proc \in table
      BY <1>3
    <3>2. ~UsesProc(u, holds[u].proc)
      BY <2>1, <3>1 DEF RefsCounted, One
    <3>3. at[u] = "free"
      BY <3>2 DEF UsesProc, InPlace, TypeOK, Steps
    <3>4. QED
      BY <2>1, <3>1, <3>3 DEF Marked
  <2>3. QED
    BY <1>3, <2>1, <2>2
<1>18. \A u \in Threads : holds[u].lwp # None =>
         holds[u].lwp \in LwpSlots /\ lwp'[holds[u].lwp] = lwp[holds[u].lwp]
  <2> TAKE u \in Threads
  <2> HAVE holds[u].lwp # None
  <2>1. holds[u].lwp \in LwpSlots
    BY DEF TypeOK
  <2>2. holds[u].proc # None
    BY DEF InPlace
  <2>3. \A x \in dead : holds[u].lwp \notin proc[x].lwps
    BY <1>3, <1>17, <2>2 DEF OwnLwp
  <2>4. QED
    BY <1>5, <2>1, <2>3
<1>19. /\ at'["perf"] = "lwps" /\ at'["disp"] = at["disp"]
       /\ \A u \in Threads : holds'[u] = holds[u]
       /\ holds["perf"].proc = None /\ holds["perf"].lwp = None
  BY <1>2 DEF TypeOK, InPlace
<1>20. TypeOK'
  <2>1. \A x \in ProcSlots : proc'[x] \in Procs
    BY <1>5, <1>8, <1>9, <1>10 DEF TypeOK
  <2>2. FreedLwp \in Lwps
    BY DEF FreedLwp, Lwps
  <2>3. \A l \in LwpSlots : lwp'[l] \in Lwps
    BY <1>16, <2>2 DEF TypeOK
  <2>4. proc' \in [ProcSlots -> Procs] /\ lwp' \in [LwpSlots -> Lwps]
    <3>1. proc' = [x \in ProcSlots |-> proc'[x]]
      BY <1>1, <1>5 DEF Refresh
    <3>2. lwp' = [l \in LwpSlots |-> lwp'[l]]
      BY <1>5 DEF Refresh, LwpFree
    <3>3. proc' \in [ProcSlots -> Procs]
      BY <2>1, <3>1
    <3>4. QED
      BY <2>3, <3>2, <3>3
  <2>5. nprocs' \in Int
    <3>1. IsFiniteSet(new)
      BY FS_Subset
    <3>2. Cardinality(new) \in Nat
      BY <3>1, FS_CardinalityType
    <3>3. QED
      BY <1>2, <3>2
  <2>6. table' \subseteq ProcSlots /\ latest' \in ProcSlots \union {None}
    BY <1>3 DEF TypeOK
  <2>7. at' \in [Threads -> Steps]
    BY <1>2 DEF TypeOK, Steps
  <2>8. /\ holds' \in [Threads -> [proc : ProcSlots \union {None},
                                   lwp : LwpSlots \union {None}]]
        /\ overrun' \in BOOLEAN
    BY <1>2 DEF TypeOK
  <2>9. QED
    BY <1>2, <2>4, <2>5, <2>6, <2>7, <2>8 DEF TypeOK
<1>21. NoDangling'
  <2>1. \A x \in table' : proc'[x].alive
    BY <1>3, <1>5, <1>8 DEF NoDangling
  <2>2. latest' # None => latest' \in table'
    BY <1>3 DEF NoDangling
  <2>3. \A x \in ProcSlots : \A l \in proc'[x].lwps : lwp'[l].alive
    BY <1>13, <1>15 DEF NoDangling
  <2>4. \A u \in Threads : holds[u].proc # None => proc'[holds[u].proc].alive
    BY <1>5, <1>10, <1>17 DEF NoDangling
  <2>5. \A u \in Threads : holds[u].lwp # None => lwp'[holds[u].lwp].alive
    BY <1>18 DEF NoDangling
  <2>6. QED
    BY <1>19, <2>1, <2>2, <2>3, <2>4, <2>5 DEF NoDangling
<1>22. OneAnswer'
  <2>1. \A x, y \in table' : proc'[x].pid = proc'[y].pid => x = y
    <3> TAKE x, y \in table'
    <3> HAVE proc'[x].pid = proc'[y].pid
    <3>1. CASE x \in fresh
      <4>1. PICK pid \in Pids : /\ proc'[x] = NewProc(pid)
                                /\ \A z \in fresh : proc'[z] = NewProc(pid) => x = z
                                /\ \A z \in table \ (dead \union kept) : proc[z].pid # pid
        BY <1>4, <3>1
      <4>2. proc'[y].pid = pid
        BY <1>7, <4>1
      <4>3. y \in fresh
        BY <1>3, <1>5, <4>1, <4>2
      <4>4. proc'[y] = NewProc(pid)
        BY <1>4, <1>7, <4>2, <4>3
      <4>5. QED
        BY <4>1, <4>3, <4>4
    <3>2. CASE y \in fresh
      <4>1. PICK pid \in Pids : /\ proc'[y] = NewProc(pid)
                                /\ \A z \in fresh : proc'[z] = NewProc(pid) => y = z
                                /\ \A z \in table \ (dead \union kept) : proc[z].pid # pid
        BY <1>4, <3>2
      <4>2. proc'[x].pid = pid
        BY <1>7, <4>1
      <4>3. x \in fresh
        BY <1>3, <1>5, <4>1, <4>2
      <4>4. proc'[x] = NewProc(pid)
        BY <1>4, <1>7, <4>2, <4>3
      <4>5. QED
        BY <4>1, <4>3, <4>4
    <3>3. CASE x \notin fresh /\ y \notin fresh
      <4>1. x \in table /\ y \in table /\ proc'[x] = proc[x] /\ proc'[y] = proc[y]
        BY <1>3, <1>5, <3>3
      <4>2. QED
        BY <4>1 DEF OneAnswer
    <3>4. QED
      BY <3>1, <3>2, <3>3
  <2>2. \A x, y \in ProcSlots : \A l \in proc'[x].lwps, m \in proc'[y].lwps :
          \/ l = m /\ x = y
          \/ l # m /\ (x = y => lwp'[l].tid # lwp'[m].tid)
    <3> TAKE x, y \in ProcSlots
    <3> TAKE l \in proc'[x].lwps, m \in proc'[y].lwps
    <3>1. x \notin dead /\ y \notin dead /\ l \in proc[x].lwps /\ m \in proc[y].lwps
      BY <1>13
    <3>2. lwp'[l] = lwp[l] /\ lwp'[m] = lwp[m]
      BY <1>15, <3>1
    <3>3. QED
      BY <3>1, <3>2 DEF OneAnswer
  <2>3. QED
    BY <2>1, <2>2 DEF OneAnswer
<1>23. ExitsKept'
  <2>1. \A x \in ProcSlots \ table' :
          proc'[x].alive => /\ proc'[x].removing
                            /\ \E u \in Threads : holds'[u].proc = x
    <3> TAKE x \in ProcSlots \ table'
    <3> HAVE proc'[x].alive
    <3>1. x \notin fresh /\ x \notin dead
      BY <1>3, <1>9
    <3>2. CASE x \in kept
      <4>1. UsesProc("disp", x) \/ UsesProc("perf", x)
        BY <1>3, <3>2 DEF RefsCounted, One
      <4>2. QED
        BY <1>10, <1>19, <3>2, <4>1 DEF UsesProc
    <3>3. CASE x \notin kept
      <4>1. proc'[x] = proc[x] /\ x \notin table
        BY <1>3, <1>5, <3>1, <3>3
      <4>2. QED
        BY <1>19, <4>1 DEF ExitsKept
    <3>4. QED
      BY <3>2, <3>3
  <2>2. \A l \in LwpSlots :
          lwp'[l].alive => \/ \E x \in ProcSlots : l \in proc'[x].lwps
                           \/ /\ lwp'[l].removing
                              /\ \E u \in Threads : holds'[u].lwp = l
    <3> TAKE l \in LwpSlots
    <3> HAVE lwp'[l].alive
    <3>1. \A x \in dead : l \notin proc[x].lwps
      BY <1>5 DEF FreedLwp
    <3>2. lwp'[l] = lwp[l]
      BY <1>5, <3>1
    <3>3. CASE \E x \in ProcSlots : l \in proc[x].lwps
      BY <1>14, <3>1, <3>3
    <3>4. CASE lwp[l].removing /\ \E u \in Threads : holds[u].lwp = l
      BY <1>19, <3>2, <3>4
    <3>5. QED
      BY <3>2, <3>3, <3>4 DEF ExitsKept
  <2>3. QED
    BY <2>1, <2>2 DEF ExitsKept
<1>24. RefsCounted'
  <2>1. \A x \in ProcSlots, u \in Threads : UsesProc(u, x)' = UsesProc(u, x)
    <3>1. \A x \in ProcSlots : ~UsesProc("perf", x) /\ ~UsesProc("perf", x)'
      BY <1>2, <1>19 DEF UsesProc
    <3>2. \A x \in ProcSlots : UsesProc("disp", x)' = UsesProc("disp", x)
      BY <1>19 DEF UsesProc
    <3>3. QED
      BY <3>1, <3>2 DEF UsesProc
  <2>2. \A l \in LwpSlots, u \in Threads : UsesLwp(u, l)' = UsesLwp(u, l)
    BY <1>2, <1>19 DEF UsesLwp
  <2>3. \A l \in LwpSlots : lwp'[l].ref = lwp[l].ref
    <3> TAKE l \in LwpSlots
    <3>1. CASE lwp'[l] = lwp[l]
      BY <3>1
    <3>2. CASE lwp'[l] = FreedLwp /\ \E x \in dead : l \in proc[x].lwps
      <4>1. \A u \in Threads : holds[u].lwp # l
        BY <1>3, <1>17, <3>2 DEF OwnLwp
      <4>2. lwp[l].ref = 0
        BY <4>1 DEF RefsCounted, UsesLwp, One
      <4>3. QED
        BY <3>2, <4>2 DEF FreedLwp
    <3>3. QED
      BY <1>16, <3>1, <3>2
  <2>4. \A x \in ProcSlots :
          proc'[x].ref = One(UsesProc("disp", x)') + One(UsesProc("perf", x)')
    BY <1>12, <2>1 DEF RefsCounted, One
  <2>5. \A l \in LwpSlots :
          lwp'[l].ref = One(UsesLwp("disp", l)') + One(UsesLwp("perf", l)')
    BY <2>2, <2>3 DEF RefsCounted, One
  <2>6. QED
    BY <2>4, <2>5 DEF RefsCounted, One
<1>25. InPlace'
  BY <1>2, <1>19 DEF InPlace, TypeOK
<1>26. Marked'
  <2>1. \A x \in ProcSlots : /\ proc'[x].removing => x \notin table'
                             /\ ~proc'[x].alive => proc'[x] = FreedProc
    <3> TAKE x \in ProcSlots
    <3>1. CASE x \in fresh
      BY <1>8, <3>1
    <3>2. CASE x \in dead \ fresh
      BY <1>5, <1>9, <3>2
    <3>3. CASE x \in kept
      BY <1>3, <1>6, <1>10, <3>3
    <3>4. CASE x \notin dead \union kept \union fresh
      BY <1>3, <1>5, <3>4 DEF Marked
    <3>5. QED
      BY <3>1, <3>2, <3>3, <3>4
  <2>2. \A l \in LwpSlots :
          /\ lwp'[l].removing => \A x \in ProcSlots : l \notin proc'[x].lwps
          /\ ~lwp'[l].alive => lwp'[l] = FreedLwp
    <3> TAKE l \in LwpSlots
    <3>1. CASE lwp'[l] = lwp[l]
      BY <1>13, <3>1 DEF Marked
    <3>2. CASE lwp'[l] = FreedLwp
      BY <3>2 DEF FreedLwp
    <3>3. QED
      BY <1>16, <3>1, <3>2
  <2>3. \A u \in Threads :
          /\ at'[u] = "free" => /\ proc'[holds'[u].proc].removing
                                /\ proc'[holds'[u].proc].ref = 0
          /\ at'[u] = "lwpfree" => /\ lwp'[holds'[u].lwp].removing
                                   /\ lwp'[holds'[u].lwp].ref = 0
    <3> TAKE u \in Threads
    <3>1. CASE u = "perf"
      BY <1>19, <3>1
    <3>2. CASE u = "disp"
      <4>1. at[u] = "free" => /\ proc'[holds[u].proc].removing
                              /\ proc'[holds[u].proc].ref = 0
        <5> HAVE at[u] = "free"
        <5>1. holds[u].proc # None /\ proc[holds[u].proc].removing
              /\ proc[holds[u].proc].ref = 0
          BY DEF InPlace, Marked
        <5>2. holds[u].proc \in ProcSlots \ (dead \union fresh)
              /\ holds[u].proc \notin kept
          BY <1>3, <1>17, <5>1
        <5>3. QED
          BY <1>5, <5>1, <5>2
      <4>2. at[u] = "lwpfree" => /\ lwp'[holds[u].lwp].removing
                                 /\ lwp'[holds[u].lwp].ref = 0
        BY <1>18 DEF InPlace, Marked
      <4>3. QED
        BY <1>19, <3>2, <4>1, <4>2
    <3>3. QED
      BY <3>1, <3>2
  <2>4. QED
    BY <2>1, <2>2, <2>3 DEF Marked
<1>27. OwnLwp'
  BY <1>13, <1>19 DEF OwnLwp
<1>28. LastOne'
  BY <1>19 DEF LastOne
<1>29. QED
  BY <1>20, <1>21, <1>22, <1>23, <1>24, <1>25, <1>26, <1>27, <1>28

\* What reading the lwps of process o does: it frees the `dead` lwps, marks
\* the `kept` ones and adds the `fresh` ones to the list.
LwpsRefreshed(o, dead, kept, fresh) ==
  LET gone == dead \union kept
  IN  /\ gone \subseteq proc[o].lwps
      /\ \A l \in dead : lwp[l].ref = 0
      /\ \A l \in kept : lwp[l].ref > 0
      /\ \A l \in fresh : l \in dead \/ ~lwp[l].alive
      /\ proc' = [proc EXCEPT ![o].lwps = (@ \ gone) \union fresh]
      /\ \A l \in fresh : \E tid \in Tids :
           /\ lwp'[l] = NewLwp(tid)
           /\ \A m \in fresh : lwp'[m] = NewLwp(tid) => l = m
           /\ \A m \in proc[o].lwps : lwp[m].tid # tid
      /\ \A l \in dead \ fresh : lwp'[l] = FreedLwp
      /\ \A l \in kept : lwp'[l] = [lwp[l] EXCEPT !.removing = TRUE]
      /\ \A l \in LwpSlots \ (gone \union fresh) : lwp'[l] = lwp[l]

\* RefreshLwps is such a step.
LEMMA RefreshLwpsEffect ==
  ASSUME IInv, NEW o \in todo, NEW new \in SUBSET Tids, RefreshLwps(o, new)
  PROVE  \E dead, kept, fresh \in SUBSET LwpSlots : LwpsRefreshed(o, dead, kept, fresh)
<1> USE ProcGroupAssumption DEF IInv, Threads
<1> DEFINE gone == {l \in proc[o].lwps : lwp[l].tid \notin new}
           left == LwpFree(lwp, gone)
           added == new \ {lwp[l].tid : l \in proc[o].lwps}
           slot == Place(added, left)
           dead == {l \in gone : lwp[l].ref = 0}
           kept == gone \ dead
           fresh == {slot[tid] : tid \in added}
<1>1. /\ Fits(added, left)
      /\ lwp' = [l \in LwpSlots |->
                   IF \E tid \in added : slot[tid] = l
                   THEN NewLwp(CHOOSE tid \in added : slot[tid] = l)
                   ELSE left[l]]
      /\ proc' = [proc EXCEPT ![o].lwps = (@ \ gone) \union fresh]
  BY DEF RefreshLwps
<1>2. o \in ProcSlots /\ proc[o].lwps \subseteq LwpSlots /\ gone \subseteq proc[o].lwps
  BY DEF TypeOK, Procs
<1>3. DOMAIN left = LwpSlots
  BY DEF LwpFree
<1>4. added \subseteq new /\ IsFiniteSet(added)
  <2>1. added \in SUBSET Tids
    OBVIOUS
  <2>2. QED
    BY <2>1, FS_Subset
<1>5. /\ \A x, y \in added : slot[x] = slot[y] => x = y
      /\ \A x \in added : slot[x] \in LwpSlots /\ ~left[slot[x]].alive
  <2> HIDE DEF left, added
  <2>1. IsFiniteSet(LwpSlots)
    OBVIOUS
  <2>2. QED
    BY <1>1, <1>3, <1>4, <2>1, Placed
<1>6. /\ \A l \in gone : /\ lwp[l].ref = 0 => left[l] = FreedLwp
                         /\ lwp[l].ref > 0 =>
                              left[l] = [lwp[l] EXCEPT !.removing = TRUE]
      /\ \A l \in LwpSlots \ gone : left[l] = lwp[l]
  BY <1>2 DEF LwpFree
<1>7. \A l \in gone : lwp[l].ref = 0 \/ lwp[l].ref > 0
  BY <1>2 DEF TypeOK, Lwps
<1>8. \A l \in dead : lwp[l].ref = 0
  OBVIOUS
<1>9. \A l \in kept : lwp[l].ref > 0
  BY <1>7
<1>10. \A l \in kept : left[l].alive
  <2> TAKE l \in kept
  <2>1. l \in gone /\ lwp[l].ref > 0 /\ lwp[l] \in Lwps /\ lwp[l].alive
    BY <1>2, <1>9 DEF TypeOK, NoDangling
  <2> HIDE DEF gone, left
  <2>2. left[l] = [lwp[l] EXCEPT !.removing = TRUE]
    BY <1>6, <2>1
  <2>3. QED
    BY <2>1, <2>2 DEF Lwps
<1>11. fresh \subseteq LwpSlots /\ \A l \in fresh : l \in dead \/ ~lwp[l].alive
  <2>1. \A l \in gone : l \in dead \/ l \in kept
    OBVIOUS
  <2> HIDE DEF gone, left, dead, kept, slot, added
  <2>2. QED
    BY <1>5, <1>6, <1>10, <2>1
<1>12. kept \intersect fresh = {}
  <2> HIDE DEF left, kept, slot, added
  <2>1. QED
    BY <1>5, <1>10
<1>13. gone = dead \union kept
  OBVIOUS
<1>14. \A l \in fresh : \E tid \in Tids :
         /\ lwp'[l] = NewLwp(tid)
         /\ \A m \in fresh : lwp'[m] = NewLwp(tid) => l = m
         /\ \A m \in proc[o].lwps : lwp[m].tid # tid
  <2>1. \A tid \in added : lwp'[slot[tid]] = NewLwp(tid)
    <3> TAKE tid \in added
    <3>1. slot[tid] \in LwpSlots /\ (CHOOSE q \in added : slot[q] = slot[tid]) = tid
      BY <1>5
    <3>2. QED
      BY <1>1, <3>1
  <2>2. \A tid, q : NewLwp(tid) = NewLwp(q) => tid = q
    BY DEF NewLwp, FreedLwp
  <2>3. \A tid \in added : tid \in Tids /\ \A m \in proc[o].lwps : lwp[m].tid # tid
    BY <1>4
  <2> HIDE DEF slot, added, gone
  <2>4. QED
    BY <2>1, <2>2, <2>3
<1>15. \A l \in LwpSlots \ fresh : lwp'[l] = left[l]
  BY <1>1
<1>16. dead \subseteq LwpSlots /\ kept \subseteq LwpSlots /\ gone \subseteq LwpSlots
  BY <1>2
<1>17. \A l \in dead \ fresh : lwp'[l] = FreedLwp
  BY <1>6, <1>15, <1>16
<1>18. \A l \in kept : lwp'[l] = [lwp[l] EXCEPT !.removing = TRUE]
  BY <1>6, <1>9, <1>12, <1>15, <1>16
<1>19. \A l \in LwpSlots \ (gone \union fresh) : lwp'[l] = lwp[l]
  BY <1>6, <1>15
<1> HIDE DEF dead, kept, fresh, gone, left, added, slot
<1>20. LwpsRefreshed(o, dead, kept, fresh)
  BY <1>1, <1>2, <1>8, <1>9, <1>11, <1>13, <1>14, <1>17, <1>18, <1>19
     DEF LwpsRefreshed
<1>21. QED
  BY <1>11, <1>16, <1>20, Zenon

\* No thread holds an lwp that is freed or used again when a process's list is
\* read.
LEMMA RefreshLwpsStep ==
  ASSUME IInv, NEW o \in todo, NEW new \in SUBSET Tids, RefreshLwps(o, new)
  PROVE  IInv'
<1> USE ProcGroupAssumption DEF IInv, Threads
<1>1. PICK dead, kept, fresh \in SUBSET LwpSlots : LwpsRefreshed(o, dead, kept, fresh)
  BY RefreshLwpsEffect
<1>2. /\ at["perf"] = "lwps"
      /\ todo' = todo \ {o}
      /\ UNCHANGED <<table, latest, nprocs, overrun, lock, at, holds>>
      /\ lwp' = [l \in LwpSlots |-> lwp'[l]]
  BY DEF RefreshLwps
<1>3. /\ dead \subseteq proc[o].lwps /\ kept \subseteq proc[o].lwps
      /\ \A l \in dead : lwp[l].ref = 0
      /\ \A l \in kept : lwp[l].ref > 0
      /\ \A l \in fresh : l \in dead \/ ~lwp[l].alive
      /\ proc' = [proc EXCEPT ![o].lwps = (@ \ (dead \union kept)) \union fresh]
  BY <1>1 DEF LwpsRefreshed
<1>4. \A l \in fresh : \E tid \in Tids :
        /\ lwp'[l] = NewLwp(tid)
        /\ \A m \in fresh : lwp'[m] = NewLwp(tid) => l = m
        /\ \A m \in proc[o].lwps : lwp[m].tid # tid
  BY <1>1 DEF LwpsRefreshed
<1>5. /\ \A l \in dead \ fresh : lwp'[l] = FreedLwp
      /\ \A l \in kept : lwp'[l] = [lwp[l] EXCEPT !.removing = TRUE]
      /\ \A l \in LwpSlots \ (dead \union kept \union fresh) : lwp'[l] = lwp[l]
  BY <1>1 DEF LwpsRefreshed
<1>6. /\ o \in table /\ o \in ProcSlots /\ proc[o].alive
      /\ proc[o].lwps \subseteq LwpSlots
  BY DEF InPlace, TypeOK, Procs, NoDangling
<1>7. /\ \A p \in ProcSlots : p # o => proc'[p] = proc[p]
      /\ proc'[o].lwps = (proc[o].lwps \ (dead \union kept)) \union fresh
      /\ \A p \in ProcSlots :
           /\ proc'[p].alive = proc[p].alive /\ proc'[p].pid = proc[p].pid
           /\ proc'[p].ref = proc[p].ref /\ proc'[p].removing = proc[p].removing
  <2>1. \A p \in ProcSlots : proc[p] \in Procs
    BY DEF TypeOK
  <2>2. \A p \in ProcSlots : p # o => proc'[p] = proc[p]
    BY <1>3, <1>6 DEF TypeOK
  <2>3. proc'[o] = [proc[o] EXCEPT !.lwps = (@ \ (dead \union kept)) \union fresh]
    BY <1>3, <1>6 DEF TypeOK
  <2>4. /\ proc'[o].lwps = (proc[o].lwps \ (dead \union kept)) \union fresh
        /\ proc'[o].alive = proc[o].alive /\ proc'[o].pid = proc[o].pid
        /\ proc'[o].ref = proc[o].ref /\ proc'[o].removing = proc[o].removing
    BY <1>6, <2>1, <2>3 DEF Procs
  <2>5. QED
    BY <1>6, <2>2, <2>4
<1>8. \A p \in ProcSlots : p # o => \A l \in proc[p].lwps :
        l \in LwpSlots /\ l \notin proc[o].lwps /\ l \notin fresh /\ lwp'[l] = lwp[l]
  <2> TAKE p \in ProcSlots
  <2> HAVE p # o
  <2> TAKE l \in proc[p].lwps
  <2>1. l \in LwpSlots /\ lwp[l].alive
    BY DEF TypeOK, Procs, NoDangling
  <2>2. l \notin proc[o].lwps
    BY <1>6 DEF OneAnswer
  <2>3. l \notin fresh
    BY <1>3, <2>1, <2>2
  <2>4. QED
    BY <1>3, <1>5, <2>1, <2>2, <2>3
<1>9. \A l \in proc[o].lwps \ (dead \union kept) : l \notin fresh /\ lwp'[l] = lwp[l]
  BY <1>3, <1>5, <1>6 DEF NoDangling
<1>10. \A tid \in Tids : /\ NewLwp(tid) \in Lwps
                         /\ NewLwp(tid).alive = TRUE /\ NewLwp(tid).tid = tid
                         /\ NewLwp(tid).ref = 0 /\ NewLwp(tid).removing = FALSE
  BY DEF NewLwp, FreedLwp, Lwps
<1>11. \A l \in fresh : /\ lwp'[l] \in Lwps
                        /\ lwp'[l].alive = TRUE /\ lwp'[l].ref = 0
                        /\ lwp'[l].removing = FALSE
  BY <1>4, <1>10
<1>12. \A l \in dead \ fresh : /\ lwp'[l] \in Lwps /\ lwp'[l] = FreedLwp
                               /\ lwp'[l].alive = FALSE /\ lwp'[l].ref = 0
                               /\ lwp'[l].removing = FALSE
  <2>1. FreedLwp \in Lwps
    BY DEF FreedLwp, Lwps
  <2>2. FreedLwp.alive = FALSE /\ FreedLwp.ref = 0 /\ FreedLwp.removing = FALSE
    BY DEF FreedLwp
  <2>3. QED
    BY <1>5, <2>1, <2>2
<1>13. \A l \in kept :
         /\ lwp'[l] \in Lwps /\ lwp'[l].alive = TRUE
         /\ lwp'[l].ref = lwp[l].ref /\ lwp'[l].removing = TRUE
         /\ l \notin fresh /\ l \notin dead
  <2> TAKE l \in kept
  <2>1. lwp[l] \in Lwps /\ lwp[l].alive
    BY <1>3, <1>6 DEF TypeOK, NoDangling
  <2>2. lwp'[l] = [lwp[l] EXCEPT !.removing = TRUE]
    BY <1>5
  <2>3. lwp'[l] \in Lwps
    BY <2>1, <2>2 DEF Lwps
  <2>4. /\ lwp'[l].alive = lwp[l].alive /\ lwp'[l].removing = TRUE
        /\ lwp'[l].ref = lwp[l].ref
    BY <2>1, <2>2 DEF Lwps
  <2>5. l \notin dead
    BY <1>3
  <2>6. QED
    BY <1>3, <2>1, <2>3, <2>4, <2>5 DEF Lwps
<1>14. \A l \in fresh : lwp[l].ref = 0
  BY <1>3 DEF Marked, FreedLwp
<1>15. \A l \in LwpSlots : lwp'[l].ref = lwp[l].ref
  BY <1>3, <1>5, <1>11, <1>12, <1>13, <1>14
<1>16. \A u \in Threads : holds[u].lwp # None =>
         /\ holds[u].lwp \in LwpSlots
         /\ holds[u].lwp \notin dead /\ holds[u].lwp \notin fresh
  <2> TAKE u \in Threads
  <2> HAVE holds[u].lwp # None
  <2>1. holds[u].lwp \in LwpSlots /\ lwp[holds[u].lwp].alive
    BY DEF TypeOK, NoDangling
  <2>2. holds[u].lwp \notin dead
    <3> SUFFICES ASSUME holds[u].lwp \in dead PROVE FALSE
      OBVIOUS
    <3>1. lwp[holds[u].lwp].ref = 0 /\ holds[u].lwp \in proc[o].lwps
      BY <1>3
    <3>2. ~UsesLwp(u, holds[u].lwp)
      BY <2>1, <3>1 DEF RefsCounted, One
    <3>3. at[u] = "lwpfree"
      BY <3>2 DEF UsesLwp, InPlace
    <3>4. QED
      BY <1>6, <3>1, <3>3, <2>1 DEF Marked
  <2>3. QED
    BY <1>3, <2>1, <2>2
<1>17. TypeOK'
  <2>1. \A l \in LwpSlots : lwp'[l] \in Lwps
    BY <1>5, <1>11, <1>12, <1>13 DEF TypeOK
  <2>2. lwp' \in [LwpSlots -> Lwps]
    BY <1>2, <2>1
  <2>3. proc' \in [ProcSlots -> Procs]
    BY <1>3, <1>6 DEF TypeOK, Procs
  <2>4. QED
    BY <1>2, <2>2, <2>3 DEF TypeOK
<1>18. NoDangling'
  <2>1. \A p \in table' : proc'[p].alive
    BY <1>2, <1>7 DEF NoDangling, TypeOK
  <2>2. latest' # None => latest' \in table'
    BY <1>2 DEF NoDangling
  <2>3. \A p \in ProcSlots : \A l \in proc'[p].lwps : lwp'[l].alive
    <3>1. \A l \in proc'[o].lwps : lwp'[l].alive
      BY <1>6, <1>7, <1>9, <1>11 DEF NoDangling
    <3>2. \A p \in ProcSlots : p # o => \A l \in proc'[p].lwps : lwp'[l].alive
      BY <1>7, <1>8 DEF NoDangling
    <3>3. QED
      BY <3>1, <3>2
  <2>4. \A u \in Threads : holds[u].proc # None => proc'[holds[u].proc].alive
    BY <1>7 DEF NoDangling, TypeOK
  <2>5. \A u \in Threads : holds[u].lwp # None => lwp'[holds[u].lwp].alive
    BY <1>5, <1>13, <1>16 DEF NoDangling
  <2>6. QED
    BY <1>2, <2>1, <2>2, <2>3, <2>4, <2>5 DEF NoDangling
<1>19. OneAnswer'
  <2>1. \A p, q \in table' : proc'[p].pid = proc'[q].pid => p = q
    <3>1. table' = table /\ \A p \in table : proc'[p].pid = proc[p].pid
      BY <1>2, <1>7 DEF TypeOK
    <3>2. QED
      BY <3>1 DEF OneAnswer
  <2>2. \A l, m \in proc'[o].lwps : l # m => lwp'[l].tid # lwp'[m].tid
    <3> TAKE l, m \in proc'[o].lwps
    <3> HAVE l # m
    <3>1. CASE l \in fresh /\ m \in fresh
      <4>1. PICK t1 \in Tids : /\ lwp'[l] = NewLwp(t1)
                               /\ \A x \in fresh : lwp'[x] = NewLwp(t1) => l = x
        BY <1>4, <3>1
      <4>2. PICK t2 \in Tids : lwp'[m] = NewLwp(t2)
        BY <1>4, <3>1
      <4>3. QED
        BY <1>10, <3>1, <4>1, <4>2
    <3>2. CASE l \in fresh /\ m \notin fresh
      <4>1. m \in proc[o].lwps /\ lwp'[m] = lwp[m]
        BY <1>7, <1>9, <3>2
      <4>2. QED
        BY <1>4, <1>10, <3>2, <4>1
    <3>3. CASE l \notin fresh /\ m \in fresh
      <4>1. l \in proc[o].lwps /\ lwp'[l] = lwp[l]
        BY <1>7, <1>9, <3>3
      <4>2. QED
        BY <1>4, <1>10, <3>3, <4>1
    <3>4. CASE l \notin fresh /\ m \notin fresh
      <4>1. /\ l \in proc[o].lwps /\ lwp'[l] = lwp[l]
            /\ m \in proc[o].lwps /\ lwp'[m] = lwp[m]
        BY <1>7, <1>9, <3>4
      <4>2. QED
        BY <1>6, <4>1 DEF OneAnswer
    <3>5. QED
      BY <3>1, <3>2, <3>3, <3>4
  <2>3. \A p, q \in ProcSlots : \A l \in proc'[p].lwps, m \in proc'[q].lwps :
          \/ l = m /\ p = q
          \/ l # m /\ (p = q => lwp'[l].tid # lwp'[m].tid)
    <3> TAKE p, q \in ProcSlots
    <3> TAKE l \in proc'[p].lwps, m \in proc'[q].lwps
    <3>1. CASE p = o /\ q = o
      BY <2>2, <3>1
    <3>2. CASE p = o /\ q # o
      <4>1. m \notin proc[o].lwps /\ m \notin fresh
        BY <1>7, <1>8, <3>2
      <4>2. QED
        BY <1>7, <3>2, <4>1
    <3>3. CASE p # o /\ q = o
      <4>1. l \notin proc[o].lwps /\ l \notin fresh
        BY <1>7, <1>8, <3>3
      <4>2. QED
        BY <1>7, <3>3, <4>1
    <3>4. CASE p # o /\ q # o
      <4>1. /\ l \in proc[p].lwps /\ lwp'[l] = lwp[l]
            /\ m \in proc[q].lwps /\ lwp'[m] = lwp[m]
        BY <1>7, <1>8, <3>4
      <4>2. QED
        BY <4>1 DEF OneAnswer
    <3>5. QED
      BY <3>1, <3>2, <3>3, <3>4
  <2>4. QED
    BY <2>1, <2>3 DEF OneAnswer
<1>20. ExitsKept'
  <2>1. \A p \in ProcSlots \ table' :
          proc'[p].alive => /\ proc'[p].removing
                            /\ \E u \in Threads : holds'[u].proc = p
    BY <1>2, <1>7 DEF ExitsKept
  <2>2. \A l \in LwpSlots :
          lwp'[l].alive => \/ \E p \in ProcSlots : l \in proc'[p].lwps
                           \/ /\ lwp'[l].removing
                              /\ \E u \in Threads : holds'[u].lwp = l
    <3> TAKE l \in LwpSlots
    <3> HAVE lwp'[l].alive
    <3>1. CASE l \in fresh
      BY <1>6, <1>7, <3>1
    <3>2. CASE l \in kept
      <4>1. UsesLwp("disp", l) \/ UsesLwp("perf", l)
        BY <1>3, <3>2 DEF RefsCounted, One
      <4>2. QED
        BY <1>2, <1>13, <3>2, <4>1 DEF UsesLwp
    <3>3. CASE l \notin fresh /\ l \notin kept
      <4>1. l \notin dead
        BY <1>12, <3>3
      <4>2. lwp'[l] = lwp[l]
        BY <1>5, <3>3, <4>1
      <4>3. CASE \E p \in ProcSlots : l \in proc[p].lwps
        BY <1>6, <1>7, <3>3, <4>1, <4>3
      <4>4. CASE lwp[l].removing /\ \E u \in Threads : holds[u].lwp = l
        BY <1>2, <4>2, <4>4
      <4>5. QED
        BY <4>2, <4>3, <4>4 DEF ExitsKept
    <3>4. QED
      BY <3>1, <3>2, <3>3
  <2>3. QED
    BY <2>1, <2>2 DEF ExitsKept
<1>21. RefsCounted'
  <2>1. \A p \in ProcSlots, u \in Threads : UsesProc(u, p)' = UsesProc(u, p)
    BY <1>2 DEF UsesProc
  <2>2. \A l \in LwpSlots, u \in Threads : UsesLwp(u, l)' = UsesLwp(u, l)
    BY <1>2 DEF UsesLwp
  <2>3. \A p \in ProcSlots :
          proc'[p].ref = One(UsesProc("disp", p)') + One(UsesProc("perf", p)')
    BY <1>7, <2>1 DEF RefsCounted, One
  <2>4. \A l \in LwpSlots :
          lwp'[l].ref = One(UsesLwp("disp", l)') + One(UsesLwp("perf", l)')
    BY <1>15, <2>2 DEF RefsCounted, One
  <2>5. QED
    BY <2>3, <2>4 DEF RefsCounted, One
<1>22. InPlace'
  BY <1>2 DEF InPlace
<1>23. Marked'
  <2>1. \A p \in ProcSlots : /\ proc'[p].removing => p \notin table'
                             /\ ~proc'[p].alive => proc'[p] = FreedProc
    BY <1>2, <1>6, <1>7 DEF Marked
  <2>2. \A l \in LwpSlots :
          /\ lwp'[l].removing => \A p \in ProcSlots : l \notin proc'[p].lwps
          /\ ~lwp'[l].alive => lwp'[l] = FreedLwp
    <3> TAKE l \in LwpSlots
    <3>1. CASE l \in fresh
      BY <1>11, <3>1
    <3>2. CASE l \in dead \ fresh
      BY <1>12, <3>2
    <3>3. CASE l \in kept
      BY <1>3, <1>7, <1>8, <1>13, <3>3
    <3>4. CASE l \notin dead \union kept \union fresh
      BY <1>5, <1>6, <1>7, <3>4 DEF Marked
    <3>5. QED
      BY <3>1, <3>2, <3>3, <3>4
  <2>3. \A u \in Threads :
          /\ at'[u] = "free" => /\ proc'[holds'[u].proc].removing
                                /\ proc'[holds'[u].proc].ref = 0
          /\ at'[u] = "lwpfree" => /\ lwp'[holds'[u].lwp].removing
                                   /\ lwp'[holds'[u].lwp].ref = 0
    <3> TAKE u \in Threads
    <3>1. at[u] = "free" => /\ proc'[holds[u].proc].removing
                            /\ proc'[holds[u].proc].ref = 0
      BY <1>7 DEF Marked, InPlace, TypeOK
    <3>2. at[u] = "lwpfree" => /\ lwp'[holds[u].lwp].removing
                               /\ lwp'[holds[u].lwp].ref = 0
      <4> HAVE at[u] = "lwpfree"
      <4>1. /\ holds[u].lwp # None /\ lwp[holds[u].lwp].removing
            /\ lwp[holds[u].lwp].ref = 0
        BY DEF InPlace, Marked
      <4>2. /\ holds[u].lwp \in LwpSlots \ (dead \union fresh)
            /\ holds[u].lwp \notin kept
        BY <1>3, <1>16, <4>1
      <4>3. QED
        BY <1>5, <4>1, <4>2
    <3>3. QED
      BY <1>2, <3>1, <3>2
  <2>4. QED
    BY <2>1, <2>2, <2>3 DEF Marked
<1>24. OwnLwp'
  <2> SUFFICES ASSUME NEW u \in Threads, NEW p \in ProcSlots,
                      holds[u].lwp \in proc'[p].lwps
               PROVE  holds[u].proc = p
    BY <1>2 DEF OwnLwp
  <2>1. holds[u].lwp # None
    BY <1>6, <1>7, <1>8
  <2>2. holds[u].lwp \in proc[p].lwps
    BY <1>7, <1>16, <2>1
  <2>3. QED
    BY <2>2 DEF OwnLwp
<1>25. LastOne'
  BY <1>2 DEF LastOne
<1>26. QED
  BY <1>17, <1>18, <1>19, <1>20, <1>21, <1>22, <1>23, <1>24, <1>25

\* What the refresh does without touching a process, and a resort.
LEMMA OtherSteps ==
  ASSUME IInv, \/ \E o \in todo : RefreshLwpsFails(o)
               \/ RefreshEnd \/ Resort \/ UNCHANGED vars
  PROVE  IInv'
<1> USE ProcGroupAssumption DEF IInv, Threads
<1>1. /\ UNCHANGED <<proc, lwp, table, latest, nprocs, holds>>
      /\ todo' \subseteq todo
      /\ at' \in [Threads -> Steps]
      /\ at'["disp"] = at["disp"]
      /\ \/ at'["perf"] = at["perf"] /\ lock' = lock
         \/ /\ at["perf"] = "lwps" /\ at'["perf"] = "idle"
            /\ lock' = None /\ todo = {}
      /\ overrun' \in BOOLEAN
  <2>1. CASE \E o \in todo : RefreshLwpsFails(o)
    BY <2>1 DEF RefreshLwpsFails, TypeOK
  <2>2. CASE RefreshEnd
    BY <2>2 DEF RefreshEnd, TypeOK, Steps
  <2>3. CASE Resort
    BY <2>3 DEF Resort, TypeOK
  <2>4. CASE UNCHANGED vars
    BY <2>4 DEF vars, TypeOK
  <2>5. QED
    BY <2>1, <2>2, <2>3, <2>4
<1>2. TypeOK'
  BY <1>1 DEF TypeOK
<1>3. NoDangling' /\ OneAnswer' /\ ExitsKept'
  BY <1>1 DEF NoDangling, OneAnswer, ExitsKept
<1>4. RefsCounted'
  <2>1. \A p \in ProcSlots, u \in Threads : UsesProc(u, p)' = UsesProc(u, p)
    BY <1>1 DEF UsesProc
  <2>2. \A l \in LwpSlots, u \in Threads : UsesLwp(u, l)' = UsesLwp(u, l)
    BY <1>1 DEF UsesLwp
  <2>3. QED
    BY <1>1, <2>1, <2>2 DEF RefsCounted, One
<1>5. InPlace'
  BY <1>1 DEF InPlace
<1>6. Marked'
  BY <1>1 DEF Marked
<1>7. OwnLwp' /\ LastOne'
  BY <1>1 DEF OwnLwp, LastOne
<1>8. QED
  BY <1>2, <1>3, <1>4, <1>5, <1>6, <1>7

\* IInv is an invariant of the specification.
LEMMA Inductive == Spec => []IInv
<1>1. IInv /\ [Next]_vars => IInv'
  <2> SUFFICES ASSUME IInv, [Next]_vars PROVE IInv'
    OBVIOUS
  <2>1. CASE \E t \in Threads, pid \in Pids : Find(t, pid)
    BY <2>1, FindStep
  <2>2. CASE \E t \in Threads, tid \in Tids : FindLwp(t, tid)
    BY <2>2, FindLwpStep
  <2>3. CASE \E t \in Threads : Release(t)
    BY <2>3, DropLwpStep, FreeLwpStep, DropProcStep, FreeProcStep DEF Release
  <2>4. CASE \E new \in SUBSET Pids : Self \in new /\ Refresh(new)
    BY <2>4, RefreshStep
  <2>5. CASE RefreshGoesOn
    BY <2>5, RefreshLwpsStep, OtherSteps DEF RefreshGoesOn
  <2>6. CASE Resort \/ UNCHANGED vars
    BY <2>6, OtherSteps
  <2>7. QED
    BY <2>1, <2>2, <2>3, <2>4, <2>5, <2>6 DEF Next
<1>2. QED
  BY <1>1, InitIInv, PTL DEF Spec

-----------------------------------------------------------------------------
(* The properties.                                                         *)

\* proc.c and lwp.c keep every variable in its type; in particular no
\* reference count ever goes below zero.
THEOREM TypeCorrect == Spec => []TypeOK
<1>1. IInv => TypeOK
  BY DEF IInv
<1>2. QED
  BY <1>1, Inductive, PTL

\* Whatever proc_find and proc_lwp_find return, and whatever a refresh keeps,
\* has not been freed by proc_free or lwp_free.
THEOREM NothingDangles == Spec => []NoDangling
<1>1. IInv => NoDangling
  BY DEF IInv
<1>2. QED
  BY <1>1, Inductive, PTL

\* The hash table and the lists of lwps have one entry for an id.
THEOREM AnswersUnique == Spec => []OneAnswer
<1>1. IInv => OneAnswer
  BY DEF IInv
<1>2. QED
  BY <1>1, Inductive, PTL

\* What leaves the table or a list while it is in use stays in the hands of a
\* thread that frees it.
THEOREM NothingForgotten == Spec => []ExitsKept
<1>1. IInv => ExitsKept
  BY DEF IInv
<1>2. QED
  BY <1>1, Inductive, PTL

=============================================================================
