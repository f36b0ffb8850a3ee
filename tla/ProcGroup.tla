------------------------------ MODULE ProcGroup ------------------------------
(***************************************************************************)
(* The tracked processes and threads (common/proc.c, common/lwp.c).        *)
(*                                                                         *)
(* The perf thread reads /proc before a sampling and brings the hash table *)
(* and each process's list of lwps up to date.  Both it and the disp       *)
(* thread look processes and lwps up, use them under a reference and give  *)
(* the reference back; what has left the table meanwhile is freed by       *)
(* whoever gives back the last one.                                        *)
(*                                                                         *)
(* `lock` is the mutex of s_proc_group.  What a process's or an lwp's own  *)
(* mutex protects is one step.  A slot is the memory of a track_proc_t or  *)
(* a track_lwp_t, used again after it is freed.  Left out: the counts and  *)
(* chains in them, nlwps (it is only shown), and failing allocations.      *)
(***************************************************************************)
EXTENDS Integers, FiniteSets, Functions

CONSTANTS Pids, Tids,
          Self,                  \* numatop's own pid, which /proc always has
          Bucket,                \* PROC_HASHTBL_INDEX
          ProcSlots, LwpSlots,   \* bounds on the memory
          None

ASSUME ProcGroupAssumption ==
  /\ IsFiniteSet(Pids) /\ IsFiniteSet(Tids)
  /\ Self \in Pids
  /\ Bucket \in [Pids -> Nat]
  /\ IsFiniteSet(ProcSlots) /\ IsFiniteSet(LwpSlots)
  /\ None \notin Pids \union Tids \union ProcSlots \union LwpSlots
  /\ None # "perf"

Threads == {"disp", "perf"}

VARIABLES
  proc,    \* track_proc_t
  lwp,     \* track_lwp_t
  table,   \* the processes in hashtbl
  latest,  \* the process found last
  nprocs,
  overrun, \* proc_sortkey has written past the end of sort_arr
  lock,    \* who holds the mutex of the group over several steps
  at,      \* where each thread is
  holds,   \* what each thread uses
  todo     \* processes whose lwps the refresh has still to read

vars == <<proc, lwp, table, latest, nprocs, overrun, lock, at, holds, todo>>

FreedProc == [alive |-> FALSE, pid |-> None, ref |-> 0, removing |-> FALSE,
              lwps |-> {}]
FreedLwp == [alive |-> FALSE, tid |-> None, ref |-> 0, removing |-> FALSE]
NewProc(pid) == [FreedProc EXCEPT !.alive = TRUE, !.pid = pid]
NewLwp(tid) == [FreedLwp EXCEPT !.alive = TRUE, !.tid = tid]
Nothing == [proc |-> None, lwp |-> None]

Init ==
  /\ proc = [o \in ProcSlots |-> FreedProc]
  /\ lwp = [l \in LwpSlots |-> FreedLwp]
  /\ table = {}
  /\ latest = None
  /\ nprocs = 0
  /\ overrun = FALSE
  /\ lock = None
  /\ at = [t \in Threads |-> "idle"]
  /\ holds = [t \in Threads |-> Nothing]
  /\ todo = {}

-----------------------------------------------------------------------------
\* Distinct free slots of `memory` for the members of S.
Free(memory) == {o \in DOMAIN memory : ~memory[o].alive}
Place(S, memory) == CHOOSE f \in [S -> Free(memory)] : IsInjective(f)
Fits(S, memory) == Cardinality(S) <= Cardinality(Free(memory))

\* The processes proc_traverse visits.  It counts them and stops after the
\* bucket with which the count is nprocs.
UpTo(i) == {o \in table : Bucket[proc[o].pid] <= i}
Visited ==
  LET full == {i \in Range(Bucket) : Cardinality(UpTo(i)) = nprocs}
  IN  IF full = {} THEN table
                   ELSE UpTo(CHOOSE i \in full : \A j \in full : i <= j)

\* lwp_free on each lwp of S.
LwpFree(memory, S) ==
  [l \in LwpSlots |->
     IF l \notin S THEN memory[l]
     ELSE IF memory[l].ref > 0 THEN [memory[l] EXCEPT !.removing = TRUE]
     ELSE FreedLwp]

\* Fault: a process in use is not marked.
ProcFreeUnmarked(memory, S) ==
  [o \in ProcSlots |->
     IF o \in S /\ memory[o].ref = 0 THEN FreedProc ELSE memory[o]]

\* proc_free on each process of S.
ProcFree(memory, S) ==
  [o \in ProcSlots |->
     IF o \notin S THEN memory[o]
     ELSE IF memory[o].ref > 0 THEN [memory[o] EXCEPT !.removing = TRUE]
     ELSE FreedProc]

LwpsOf(S) == UNION {proc[o].lwps : o \in {s \in S : proc[s].ref = 0}}

-----------------------------------------------------------------------------
(* Both threads: look up, use, give back.                                  *)

\* proc_find_nolock: the latest one first, then the hash chain.
Lookup(pid) ==
  IF latest # None /\ proc[latest].pid = pid THEN {latest}
  ELSE {o \in table : proc[o].pid = pid}

\* Fault: the latest process is returned without a reference.
FindUncounted(t, pid) ==
  /\ at[t] = "idle"
  /\ lock = None
  /\ \E o \in Lookup(pid) :
       /\ proc' = [proc EXCEPT ![o].ref = IF o = latest THEN @ ELSE @ + 1]
       /\ latest' = o
       /\ holds' = [holds EXCEPT ![t].proc = o]
  /\ at' = [at EXCEPT ![t] = "proc"]
  /\ UNCHANGED <<lwp, table, nprocs, overrun, lock, todo>>

\* proc_find
Find(t, pid) ==
  /\ at[t] = "idle"
  /\ lock = None
  /\ \E o \in Lookup(pid) :
       IF proc[o].removing
       THEN /\ latest' = IF latest = o THEN None ELSE latest
            /\ UNCHANGED <<proc, at, holds>>
       ELSE /\ proc' = [proc EXCEPT ![o].ref = @ + 1]
            /\ latest' = o
            /\ at' = [at EXCEPT ![t] = "proc"]
            /\ holds' = [holds EXCEPT ![t].proc = o]
  /\ UNCHANGED <<lwp, table, nprocs, overrun, lock, todo>>

\* proc_lwp_find, when it finds one; otherwise the caller goes to DropProc.
FindLwp(t, tid) ==
  /\ at[t] = "proc"
  /\ \E l \in proc[holds[t].proc].lwps :
       /\ lwp[l].tid = tid
       /\ ~lwp[l].removing
       /\ lwp' = [lwp EXCEPT ![l].ref = @ + 1]
       /\ holds' = [holds EXCEPT ![t].lwp = l]
  /\ at' = [at EXCEPT ![t] = "lwp"]
  /\ UNCHANGED <<proc, table, latest, nprocs, overrun, lock, todo>>

\* lwp_refcount_dec up to its unlock ...
DropLwp(t) ==
  LET l == holds[t].lwp
      last == lwp[l].ref = 1 /\ lwp[l].removing
  IN  /\ at[t] = "lwp"
      /\ lwp' = [lwp EXCEPT ![l].ref = @ - 1]
      /\ at' = [at EXCEPT ![t] = IF last THEN "lwpfree" ELSE "put"]
      /\ holds' = IF last THEN holds ELSE [holds EXCEPT ![t].lwp = None]
      /\ UNCHANGED <<proc, table, latest, nprocs, overrun, lock, todo>>

\* ... and its lwp_free.
FreeLwp(t) ==
  /\ at[t] = "lwpfree"
  /\ lwp' = LwpFree(lwp, {holds[t].lwp})
  /\ at' = [at EXCEPT ![t] = "put"]
  /\ holds' = [holds EXCEPT ![t].lwp = None]
  /\ UNCHANGED <<proc, table, latest, nprocs, overrun, lock, todo>>

\* Fault: the count is tested before it is decremented.
DropProcEarly(t) ==
  /\ at[t] \in {"proc", "put"}
  /\ proc' = [proc EXCEPT ![holds[t].proc].ref = @ - 1]
  /\ at' = [at EXCEPT ![t] = "idle"]
  /\ holds' = [holds EXCEPT ![t] = Nothing]
  /\ UNCHANGED <<lwp, table, latest, nprocs, overrun, lock, todo>>

\* proc_refcount_dec up to its unlock ...
DropProc(t) ==
  LET o == holds[t].proc
      last == proc[o].ref = 1 /\ proc[o].removing
  IN  /\ at[t] \in {"proc", "put"}
      /\ proc' = [proc EXCEPT ![o].ref = @ - 1]
      /\ at' = [at EXCEPT ![t] = IF last THEN "free" ELSE "idle"]
      /\ holds' = IF last THEN holds ELSE [holds EXCEPT ![t] = Nothing]
      /\ UNCHANGED <<lwp, table, latest, nprocs, overrun, lock, todo>>

\* ... and its proc_free, which counts the process a second time:
\* proc_group_remove has done so when the process left the table.
FreeProc(t) ==
  LET o == holds[t].proc
  IN  /\ at[t] = "free"
      /\ lock = None
      /\ lwp' = LwpFree(lwp, LwpsOf({o}))
      /\ proc' = ProcFree(proc, {o})
      /\ nprocs' = IF proc[o].ref > 0 THEN nprocs ELSE nprocs - 1
      /\ at' = [at EXCEPT ![t] = "idle"]
      /\ holds' = [holds EXCEPT ![t] = Nothing]
      /\ UNCHANGED <<table, latest, overrun, lock, todo>>

-----------------------------------------------------------------------------
(* The perf thread: proc_enum_update(0) before each sampling.              *)

\* Fault: proc_group_remove leaves latest alone.
UnlatchNot(gone) == latest

\* What proc_group_remove does to latest.
Unlatch(gone) == IF latest \in gone THEN None ELSE latest

\* Fault: exist_arr is not set.
UnknownAll(new, kept) == new

\* The pids that exist_arr does not tick off.
Unknown(new, kept) == new \ {proc[o].pid : o \in kept}

\* proc_group_refresh up to `nlwps = 0`; `new` is what /proc shows.
Refresh(new) ==
  LET gone == {o \in table : proc[o].pid \notin new}
      left == ProcFree(proc, gone)
      added == Unknown(new, table \ gone)
      slot == Place(added, left)
  IN  /\ at["perf"] = "idle"
      /\ lock = None
      /\ Fits(added, left)
      /\ lwp' = LwpFree(lwp, LwpsOf(gone))
      /\ proc' = [o \in ProcSlots |->
                    IF \E pid \in added : slot[pid] = o
                    THEN NewProc(CHOOSE pid \in added : slot[pid] = o)
                    ELSE left[o]]
      /\ table' = (table \ gone) \union {slot[pid] : pid \in added}
      /\ latest' = Unlatch(gone)
      /\ nprocs' = Cardinality(new)
      /\ lock' = "perf"
      /\ at' = [at EXCEPT !["perf"] = "lwps"]
      /\ todo' = table'
      /\ UNCHANGED <<overrun, holds>>

\* lwp_enum_update; `new` is what /proc/<pid>/task shows.
RefreshLwps(o, new) ==
  LET gone == {l \in proc[o].lwps : lwp[l].tid \notin new}
      left == LwpFree(lwp, gone)
      added == new \ {lwp[l].tid : l \in proc[o].lwps}
      slot == Place(added, left)
  IN  /\ at["perf"] = "lwps"
      /\ Fits(added, left)
      /\ lwp' = [l \in LwpSlots |->
                   IF \E tid \in added : slot[tid] = l
                   THEN NewLwp(CHOOSE tid \in added : slot[tid] = l)
                   ELSE left[l]]
      /\ proc' = [proc EXCEPT ![o].lwps =
                    (@ \ gone) \union {slot[tid] : tid \in added}]
      /\ todo' = todo \ {o}
      /\ UNCHANGED <<table, latest, nprocs, overrun, lock, at, holds>>

\* os_procfs_lwp_enum fails for a process that has just exited.
RefreshLwpsFails(o) ==
  /\ at["perf"] = "lwps"
  /\ todo' = todo \ {o}
  /\ UNCHANGED <<proc, lwp, table, latest, nprocs, overrun, lock, at, holds>>

RefreshEnd ==
  /\ at["perf"] = "lwps"
  /\ todo = {}
  /\ lock' = None
  /\ at' = [at EXCEPT !["perf"] = "idle"]
  /\ UNCHANGED <<proc, lwp, table, latest, nprocs, overrun, holds, todo>>

-----------------------------------------------------------------------------
\* The disp thread: proc_resort, and proc_sort_next under the same lock.
\* proc_sortkey allocates nprocs entries, and leaves its loop as
\* proc_traverse does.
Resort ==
  /\ at["disp"] = "idle"
  /\ lock = None
  /\ overrun' = (overrun \/ (nprocs >= 0 /\ Cardinality(Visited) > nprocs))
  /\ UNCHANGED <<proc, lwp, table, latest, nprocs, lock, at, holds, todo>>

Release(t) ==
  DropLwp(t) \/ FreeLwp(t) \/ DropProc(t) \/ FreeProc(t)

RefreshGoesOn ==
  \/ \E o \in todo : \/ \E new \in SUBSET Tids : RefreshLwps(o, new)
                     \/ RefreshLwpsFails(o)
  \/ RefreshEnd

Next ==
  \/ \E t \in Threads : \/ \E pid \in Pids : Find(t, pid)
                        \/ \E tid \in Tids : FindLwp(t, tid)
                        \/ Release(t)
  \/ \E new \in SUBSET Pids : Self \in new /\ Refresh(new)
  \/ RefreshGoesOn
  \/ Resort

Spec == Init /\ [][Next]_vars

\* A thread gives back what it uses, and a refresh goes on.  The disp thread
\* gets the mutex if it is free again and again: the perf thread takes it a
\* few times per sampling, and a sampling follows a request.
FairSpec ==
  /\ Spec
  /\ \A t \in Threads : WF_vars(DropLwp(t)) /\ WF_vars(FreeLwp(t))
                        /\ WF_vars(DropProc(t)) /\ SF_vars(FreeProc(t))
  /\ WF_vars(RefreshGoesOn)

-----------------------------------------------------------------------------
(* Properties.                                                             *)

Steps == {"idle", "proc", "lwp", "lwpfree", "put", "free", "lwps"}
Procs == [alive : BOOLEAN, pid : Pids \union {None}, ref : Nat,
          removing : BOOLEAN, lwps : SUBSET LwpSlots]
Lwps == [alive : BOOLEAN, tid : Tids \union {None}, ref : Nat,
         removing : BOOLEAN]

\* Every variable has its type.  No reference count goes below zero: each
\* lookup is given back once.
TypeOK ==
  /\ proc \in [ProcSlots -> Procs]
  /\ lwp \in [LwpSlots -> Lwps]
  /\ table \subseteq ProcSlots
  /\ latest \in ProcSlots \union {None}
  /\ nprocs \in Int
  /\ overrun \in BOOLEAN
  /\ lock \in {None, "perf"}
  /\ at \in [Threads -> Steps]
  /\ holds \in [Threads -> [proc : ProcSlots \union {None},
                            lwp : LwpSlots \union {None}]]
  /\ todo \subseteq ProcSlots

\* Nothing that can be reached has been freed: not through the table, the
\* latest process, a list of lwps, or what a thread uses while the other one
\* refreshes or gives back.
NoDangling ==
  /\ \A o \in table : proc[o].alive
  /\ latest # None => latest \in table
  /\ \A o \in ProcSlots : \A l \in proc[o].lwps : lwp[l].alive
  /\ \A t \in Threads :
       /\ holds[t].proc # None => proc[holds[t].proc].alive
       /\ holds[t].lwp # None => lwp[holds[t].lwp].alive

\* A lookup has one answer, also while an exited process whose pid is in use
\* again is still referenced: no two processes of the table share a pid, no
\* two lwps of a process an id, and no lwp is in two lists.
OneAnswer ==
  /\ \A o, p \in table : proc[o].pid = proc[p].pid => o = p
  /\ \A o, p \in ProcSlots : \A l \in proc[o].lwps, m \in proc[p].lwps :
       \/ l = m /\ o = p
       \/ l # m /\ (o = p => lwp[l].tid # lwp[m].tid)

\* A process that has left the table, and an lwp that has left its list, is
\* marked and in the hands of a thread that will free it (lwp.c:258): nobody
\* forgets a track_proc_t or a track_lwp_t.
ExitsKept ==
  /\ \A o \in ProcSlots \ table :
       proc[o].alive => /\ proc[o].removing
                        /\ \E t \in Threads : holds[t].proc = o
  /\ \A l \in LwpSlots :
       lwp[l].alive => \/ \E o \in ProcSlots : l \in proc[o].lwps
                       \/ lwp[l].removing /\ \E t \in Threads : holds[t].lwp = l

\* The array that proc_sortkey allocates has room for the processes it
\* writes to it: nprocs is their number ("the total number of processes",
\* proc.c:393) whenever the mutex of the group is free.
SortFits == ~overrun

\* A process that exits while it is in use is freed in the end.
RemovedFreed ==
  \A o \in ProcSlots : proc[o].removing ~> ~proc[o].removing

=============================================================================
