------------------------------ MODULE NodeGroup ------------------------------
(***************************************************************************)
(* Nodes and CPUs that come and go (common/os/node.c, and the arrays of    *)
(* CPUs and their events in common/os/os_perf.c and os/pfwrapper.c).       *)
(*                                                                         *)
(* The disp thread reads /sys each time it shows a page and marks what has *)
(* come (hotadd) and gone (hotremove), under the mutex of the group; when  *)
(* it refreshes a page it samples first, and reads /sys when it shows the  *)
(* result.  The perf thread walks over the CPUs without that mutex, opens, *)
(* reads and closes their events, and acts on the marks.  The two overlap  *)
(* when the user refreshes while a sampling is under way.                  *)
(*                                                                         *)
(* One step of the walk is one CPU; one step of the refresh is one node.   *)
(* An offline CPU is the only cause of failure here: descriptors that run  *)
(* out are in PerfCtl.  Memory sizes, the uncore units of a node, and the  *)
(* counts themselves are left out.                                         *)
(***************************************************************************)
EXTENDS Integers, FiniteSets, Sequences, Functions, FiniteSetsExt

CONSTANTS
  MaxNode,    \* nodes are 0..MaxNode: nnodes_max is MaxNode + 1
  CpuIds,     \* the CPUs of the machine: ncpus_max is their number
  NodeOf,     \* the node a CPU belongs to
  AtBoot,     \* the CPUs online when numatop starts
  MaxChanges, \* bound on the changes of the hardware
  MinNodes,   \* bound on nnodes, which every failing refresh lowers
  None

Nodes == 0..MaxNode
Slots == 1..Cardinality(CpuIds)
Kinds == {"profiling", "ll"}

ASSUME NodeGroupAssumption ==
  /\ MaxNode \in Nat /\ MaxChanges \in Nat /\ MinNodes \in Int /\ MinNodes <= 0
  /\ CpuIds \subseteq Nat /\ IsFiniteSet(CpuIds)
  /\ NodeOf \in [CpuIds -> Nodes]
  /\ AtBoot \subseteq CpuIds /\ AtBoot # {}
  /\ None \notin Nat \union Kinds \union {"smpl", "restore"}

VARIABLES
  present,  \* nodes that /sys shows
  online,   \* CPUs that /sys shows
  changes,  \* how often the hardware has changed
  node,     \* s_node_group.nodes
  cpus,     \* node_t.cpus
  nnodes,
  cpuidMax, \* s_node_group.cpuid_max
  room,     \* cpuid_max of a process: the length of its countval_arr
  status,   \* the events that are set up
  task,     \* the task the perf thread has still to take
  passes,   \* the walks left of the task at hand
  at,       \* where the walk is: a node and a slot of it
  dpc,      \* where the disp thread is
  seen,     \* the nodes it has read
  leaked,   \* open descriptors have been overwritten
  failures, \* what has failed: a start, a refresh, the events of a CPU; or
            \* a node was counted down twice, or given up with CPUs in it
  raced,    \* a refresh has overlapped a walk
  faults    \* accesses outside of what is there

vars == <<present, online, changes, node, cpus, nnodes, cpuidMax, room, status,
          task, passes, at, dpc, seen, leaked, failures, raced,
          faults>>

hardware == <<present, online, changes>>
perf == <<status, task, passes, at>>
group == <<node, cpus, nnodes, cpuidMax>>
disp == <<dpc, seen>>
marks == <<leaked, failures, raced, faults>>

NoCpu == [cpu |-> None, hotadd |-> FALSE, hotremove |-> FALSE,
          events |-> "none"]
NoNode == [state |-> "invalid", hotremove |-> FALSE, ncpus |-> 0]

\* NODE_VALID.  A node that node_init has just cleared has nid 0, which is
\* valid, and no CPUs yet.
Valid(n) == node[n].state # "invalid"

OnlineOf(n) == {c \in online : NodeOf[c] = n}
CpusOf(arr) == {arr[j].cpu : j \in Slots} \ {None}

-----------------------------------------------------------------------------
(* The refresh of the array of CPUs.                                       *)

\* Fault: a CPU that is there already is not looked for.
CpuarrRefreshAnew(arr, ids, init) ==
  LET free == {j \in Slots : arr[j].cpu = None}
      new  == IF Cardinality(ids) <= Cardinality(free) THEN ids
                                                       ELSE ids \ CpusOf(arr)
      put  == CHOOSE f \in [new -> free] : IsInjective(f)
  IN  [j \in Slots |->
         IF \E c \in new : put[c] = j
         THEN [NoCpu EXCEPT !.cpu = CHOOSE c \in new : put[c] = j,
                            !.hotadd = ~init]
         ELSE [arr[j] EXCEPT !.hotremove =
                 @ \/ (arr[j].cpu # None /\ arr[j].cpu \notin ids)]]

\* os_perf_cpuarr_refresh: new CPUs get free slots, with no events; those
\* that are not among `ids` are marked.  A mark that is there stays.
CpuarrRefresh(arr, ids, init) ==
  LET free == {j \in Slots : arr[j].cpu = None}
      new  == ids \ CpusOf(arr)
      put  == CHOOSE f \in [new -> free] : IsInjective(f)
  IN  [j \in Slots |->
         IF \E c \in new : put[c] = j
         THEN [NoCpu EXCEPT !.cpu = CHOOSE c \in new : put[c] = j,
                            !.hotadd = ~init, !.hotremove = arr[j].hotremove]
         ELSE [arr[j] EXCEPT !.hotremove =
                 @ \/ (arr[j].cpu # None /\ arr[j].cpu \notin ids)]]

\* free_idx_get finds a slot for every new CPU.
HasRoom(arr, ids) ==
  Cardinality(ids \ CpusOf(arr))
    <= Cardinality({j \in Slots : arr[j].cpu = None})

\* os_perf_cpuarr_init of a node that is hot-added.
CpuarrInit(hotadd) == [j \in Slots |-> [NoCpu EXCEPT !.hotadd = hotadd]]

\* os_perf_cpuarr_fini with hotremove set.
CpuarrFini(arr) ==
  [j \in Slots |-> [arr[j] EXCEPT !.hotremove = @ \/ arr[j].cpu # None]]

Init ==
  /\ present \in {S \in SUBSET Nodes : {0} \union {NodeOf[c] : c \in AtBoot} \subseteq S}
  /\ online = AtBoot
  /\ changes = 0
  /\ node = [n \in Nodes |->
               IF n \in present
               THEN [NoNode EXCEPT !.state = "here",
                                   !.ncpus = Cardinality(OnlineOf(n))]
               ELSE NoNode]
  /\ cpus = [n \in Nodes |->
               CpuarrRefresh(CpuarrInit(FALSE), OnlineOf(n), TRUE)]
  /\ nnodes = Cardinality(present)
  /\ cpuidMax = Max(AtBoot)
  /\ room = Max(AtBoot) + 1
  /\ status = "none"
  /\ task = None
  /\ passes = <<>>
  /\ at = <<0, 1>>
  /\ dpc = "idle"
  /\ seen = {}
  /\ leaked = FALSE
  /\ failures = {}
  /\ raced = FALSE
  /\ faults = {}

-----------------------------------------------------------------------------
(* The hardware.                                                           *)

Change ==
  /\ changes < MaxChanges
  /\ changes' = changes + 1
  /\ UNCHANGED <<group, perf, disp, marks, room>>

CpuGoes == \E c \in online :
  /\ Change
  /\ online' = online \ {c}
  /\ UNCHANGED present

CpuComes == \E c \in CpuIds \ online :
  /\ NodeOf[c] \in present
  /\ Change
  /\ online' = online \union {c}
  /\ UNCHANGED present

\* Node 0 is never taken away.
NodeGoes == \E n \in present \ {0} :
  /\ Change
  /\ present' = present \ {n}
  /\ online' = {c \in online : NodeOf[c] # n}

NodeComes == \E n \in Nodes \ present :
  /\ Change
  /\ present' = present \union {n}
  /\ UNCHANGED online

-----------------------------------------------------------------------------
(* The disp thread: node_group_refresh, then a task or a drawing.          *)

Walking == passes # <<>>
Alive == dpc # "dead"

Refreshing == raced' = (raced \/ Walking)

\* The lock and os_sysfs_node_enum.
RefreshStart ==
  /\ dpc = "idle"
  /\ seen' = present
  /\ dpc' = "remove"
  /\ Refreshing
  /\ UNCHANGED <<hardware, group, perf, room, leaked, failures, faults>>

\* node_hotremove.  The node stays valid until the perf thread has walked
\* over it, and is counted down once more by every refresh until then.
RefreshRemove ==
  LET gone == {n \in Nodes \ seen : Valid(n)}
  IN  /\ dpc = "remove"
      /\ node' = [n \in Nodes |-> IF n \in gone
                                  THEN [node[n] EXCEPT !.hotremove = TRUE]
                                  ELSE node[n]]
      /\ cpus' = [n \in Nodes |-> IF n \in gone THEN CpuarrFini(cpus[n])
                                                ELSE cpus[n]]
      /\ nnodes' = Max({nnodes - Cardinality(gone), MinNodes})
      /\ failures' = IF \E n \in gone : node[n].hotremove
                     THEN failures \union {"twice"} ELSE failures
      /\ dpc' = "add"
      /\ Refreshing
      /\ UNCHANGED <<hardware, perf, cpuidMax, room, seen, leaked, faults>>

\* The first line of node_init clears the node.
RefreshAdd ==
  /\ dpc = "add"
  /\ \E n \in seen :
       /\ ~Valid(n)
       /\ \A k \in seen : ~Valid(k) => n <= k
       /\ node' = [node EXCEPT ![n] = [NoNode EXCEPT !.state = "cleared"]]
  /\ dpc' = "fill"
  /\ Refreshing
  /\ UNCHANGED <<hardware, perf, cpus, nnodes, cpuidMax, room, seen, leaked,
                 failures, faults>>

\* Fault: a node that is hot-added is not counted.
RefreshFillUncounted ==
  /\ dpc = "fill"
  /\ \E n \in seen :
       /\ node[n].state = "cleared"
       /\ node' = [node EXCEPT ![n].state = "here"]
       /\ cpus' = [cpus EXCEPT ![n] = CpuarrInit(TRUE)]
  /\ dpc' = "add"
  /\ Refreshing
  /\ UNCHANGED <<hardware, perf, nnodes, cpuidMax, room, seen, leaked,
                 failures, faults>>

\* The rest of node_init.
RefreshFill ==
  /\ dpc = "fill"
  /\ \E n \in seen :
       /\ node[n].state = "cleared"
       /\ node' = [node EXCEPT ![n].state = "here"]
       /\ cpus' = [cpus EXCEPT ![n] = CpuarrInit(TRUE)]
  /\ nnodes' = nnodes + 1
  /\ dpc' = "add"
  /\ Refreshing
  /\ UNCHANGED <<hardware, perf, cpuidMax, room, seen, leaked, failures,
                 faults>>

\* The largest id there has been.
CpuidMax(S, old) == Max(S \union {old})

\* cpu_refresh.  It ends with an error at the first valid node whose list of
\* CPUs is not there: one that has gone.
CpuRefresh ==
  LET bad   == {n \in Nodes :
                  Valid(n) /\ (n \in present => ~HasRoom(cpus[n], OnlineOf(n)))}
      reads == {n \in Nodes : Valid(n) /\ \A b \in bad : n < b}
  IN  /\ dpc = "add"
      /\ \A n \in seen : Valid(n)
      /\ cpus' = [n \in Nodes |->
           IF n \in reads THEN CpuarrRefresh(cpus[n], OnlineOf(n), FALSE)
                          ELSE cpus[n]]
      /\ node' = [n \in Nodes |->
           IF n \in reads
           THEN [node[n] EXCEPT !.ncpus = Cardinality(OnlineOf(n))]
           ELSE node[n]]
      /\ IF bad = {}
         THEN /\ cpuidMax' = CpuidMax(online, cpuidMax)
              /\ dpc' = "info"
              /\ UNCHANGED failures
         ELSE /\ failures' = failures \union {"refresh"}
              /\ dpc' = "idle"
              /\ UNCHANGED cpuidMax
      /\ Refreshing
      /\ UNCHANGED <<hardware, perf, nnodes, room, seen, leaked, faults>>

\* countval_sum reads a process's counts of the first ncpus CPUs of a node.
Summed(n) ==
  {j \in Slots : /\ cpus[n][j].cpu # None
                 /\ Cardinality({k \in 1..(j - 1) : cpus[n][k].cpu # None})
                      < node[n].ncpus}
SumFits == \A n \in Nodes : node[n].state = "here" =>
             \A j \in Summed(n) : cpus[n][j].cpu < room

\* meminfo_refresh, which reads a file of each valid node, and the end of
\* page_show.
Refreshed ==
  /\ dpc = "info"
  /\ dpc' = "idle"
  /\ UNCHANGED <<hardware, group, room, status, passes, at, seen, leaked,
                 raced>>
AllThere == \A n \in Nodes : Valid(n) => n \in present

RefreshFails ==
  /\ Refreshed
  /\ ~AllThere
  /\ failures' = failures \union {"refresh"}
  /\ UNCHANGED <<task, faults>>

\* After READY: a window that adds a process's counts up.
Draw ==
  /\ Refreshed
  /\ AllThere
  /\ faults' = IF SumFits THEN faults ELSE faults \union {"sum"}
  /\ UNCHANGED <<task, failures>>

\* Otherwise, when the command asks for it: a sampling that nobody waits for.
Sample ==
  /\ Refreshed
  /\ AllThere
  /\ task' = IF status # "none" THEN "smpl" ELSE task
  /\ UNCHANGED <<faults, failures>>

\* op_refresh, of 'R' and of the 5 s time-out: a sampling without a refresh.
SampleAgain ==
  /\ dpc = "idle"
  /\ status # "none"
  /\ task' = "smpl"
  /\ UNCHANGED <<hardware, group, disp, marks, room, status, passes, at>>

\* A pre-operation asks for other events and waits until they are set up.
\* Leaving the call chain page restores what it has paused.
AskStart(kind) ==
  /\ dpc = "idle"
  /\ status # kind
  /\ task' = kind
  /\ dpc' = "wait"
  /\ UNCHANGED <<hardware, group, marks, room, status, passes, at, seen>>

AskRestore ==
  /\ dpc = "idle"
  /\ status = "profiling"
  /\ task' = "restore"
  /\ dpc' = "wait"
  /\ UNCHANGED <<hardware, group, marks, room, status, passes, at, seen>>

Answered ==
  /\ dpc = "wait"
  /\ task = None /\ ~Walking
  /\ dpc' = "idle"
  /\ UNCHANGED <<hardware, group, perf, marks, room, seen>>

-----------------------------------------------------------------------------
(* The perf thread.                                                        *)

Pass(op, kind) == <<op, kind>>

\* os_allstop
StopWalks == IF status \in Kinds
             THEN <<Pass("stop", status), Pass("free", status)>>
             ELSE <<>>

\* profiling_start, ll_start
StartWalks(kind) ==
  IF kind = "profiling"
  THEN <<Pass("setup", kind), Pass("stop", kind), Pass("start", kind)>>
  ELSE <<Pass("setup", kind), Pass("start", kind)>>

\* perf_handler: profiling_smpl and ll_smpl are one walk, and so is
\* profiling_restore.
TakeTask ==
  /\ Alive
  /\ task # None /\ ~Walking
  /\ passes' = CASE task \in Kinds  -> StopWalks \o StartWalks(task)
                 [] task = "smpl"   -> <<Pass("smpl", status)>>
                 [] task = "restore" -> <<Pass("restore", status)>>
  /\ task' = None
  /\ raced' = (raced \/ dpc \notin {"idle", "wait"})
  /\ UNCHANGED <<hardware, group, disp, room, status, at, leaked, failures,
                 faults>>

N == at[1]
J == at[2]
Here == cpus[N][J]
Op == passes[1][1]
Kind == passes[1][2]

\* node_cpu_traverse goes on to node n, slot 1; a walk that is over is
\* followed by the next, or by the answer.
GoOn(n) ==
  IF n <= MaxNode
  THEN /\ at' = <<n, 1>>
       /\ UNCHANGED <<passes, status>>
  ELSE /\ at' = <<0, 1>>
       /\ passes' = Tail(passes)
       /\ status' = IF Op = "start" THEN Kind ELSE status

\* The CPU is c from now on.  A node that has gone is invalid once its last
\* CPU has been visited.
Leave(c) ==
  /\ cpus' = [cpus EXCEPT ![N][J] = c]
  /\ IF J < Cardinality(CpuIds)
     THEN /\ at' = <<N, J + 1>>
          /\ UNCHANGED <<node, passes, status>>
     ELSE /\ node' = IF node[N].hotremove THEN [node EXCEPT ![N] = NoNode]
                                          ELSE node
          /\ GoOn(N + 1)

\* What goes wrong unnoticed when the last CPU is left: a CPU that has come
\* back since the node was marked goes with it.
GivenUp == IF /\ J = Cardinality(CpuIds) /\ node[N].hotremove
              /\ CpusOf(cpus'[N]) # {}
           THEN {"node"} ELSE {}
Fails(what) == failures' = failures \union GivenUp \union what

Walk == Alive /\ Walking

SkipNode ==
  /\ Walk
  /\ ~Valid(N)
  /\ GoOn(N + 1)
  /\ UNCHANGED <<hardware, group, disp, marks, room, task>>

\* Whoever touches what is not there takes the process down.
Crash(fault) ==
  /\ faults' = faults \union {fault}
  /\ dpc' = "dead"
  /\ UNCHANGED <<hardware, group, perf, room, seen, leaked, failures, raced>>

NoCpusYet ==
  /\ Walk
  /\ node[N].state = "cleared"
  /\ Crash("walk")

OnCpu == Walk /\ node[N].state = "here"

\* pf_resource_free
Freed(c) == [c EXCEPT !.events = "none"]

\* Fault: the events of a CPU that has gone are not closed.
VisitRemovedOpen ==
  /\ OnCpu
  /\ Here.hotremove
  /\ Leave([NoCpu EXCEPT !.hotadd = Here.hotadd, !.events = Here.events])
  /\ Fails({})
  /\ UNCHANGED <<hardware, disp, nnodes, cpuidMax, room, task, leaked, raced,
                 faults>>

VisitRemoved ==
  /\ OnCpu
  /\ Here.hotremove
  /\ Leave([Freed(Here) EXCEPT !.hotremove = FALSE, !.cpu = None])
  /\ Fails({})
  /\ UNCHANGED <<hardware, disp, nnodes, cpuidMax, room, task, leaked, raced,
                 faults>>

\* cpu_profiling_setup and cpu_ll_setup, with pf_profiling_setup and
\* pf_ll_setup: all the events of the CPU, or none.  They begin with cpu_init,
\* which forgets what is open.
Setup(c, kind) ==
  IF c.cpu \in online THEN [c EXCEPT !.events = kind] ELSE Freed(c)

\* Fault: whatever the kind, profiling is set up.
HotaddedProfiling(c) == IF Op = "smpl" /\ c.hotadd
                        THEN [Setup(c, "profiling") EXCEPT !.hotadd = FALSE]
                        ELSE c

\* A sampling sets up what is hot-added (cpu_profiling_setupstart,
\* cpu_ll_setupstart), and takes the mark away although that may have failed.
Hotadded(c) == IF Op = "smpl" /\ c.hotadd
               THEN [Setup(c, Kind) EXCEPT !.hotadd = FALSE]
               ELSE c
NotHotadded(c) == IF Here.hotadd /\ c.events = "none" THEN {"cpu"} ELSE {}
Usable(c) == c.cpu # None /\ ~c.hotadd

OnUsable(op) == OnCpu /\ ~Here.hotremove /\ Op = op

VisitUnusable ==
  /\ OnCpu
  /\ ~Here.hotremove
  /\ ~Usable(Hotadded(Here))
  /\ Leave(Hotadded(Here))
  /\ Fails({})
  /\ UNCHANGED <<hardware, disp, nnodes, cpuidMax, room, task, leaked, raced,
                 faults>>

\* A failure ends the walk and the task: the program, if it was profiling.
VisitSetup ==
  LET c == Setup(Here, Kind)
  IN  /\ OnUsable("setup")
      /\ Usable(Here)
      /\ leaked' = (leaked \/ Here.events # "none")
      /\ IF c.events = Kind
         THEN /\ Leave(c)
              /\ Fails({})
              /\ UNCHANGED dpc
         ELSE /\ cpus' = [cpus EXCEPT ![N][J] = c]
              /\ passes' = <<>>
              /\ at' = <<0, 1>>
              /\ status' = "none"
              /\ failures' = failures \union {"start"}
              /\ dpc' = IF Kind = "profiling" THEN "dead" ELSE dpc
              /\ UNCHANGED node
      /\ UNCHANGED <<hardware, nnodes, cpuidMax, room, task, seen, raced,
                     faults>>

\* cpu_op: an ioctl on a CPU that is offline may fail, and then its events
\* are closed.
VisitIoctl ==
  /\ OnUsable("stop") \/ OnUsable("start")
  /\ Usable(Here)
  /\ \/ Leave(Here) /\ Fails({})
     \/ /\ Here.cpu \notin online
        /\ Leave(Freed(Here))
        /\ Fails({"cpu"})
  /\ UNCHANGED <<hardware, disp, nnodes, cpuidMax, room, task, leaked, raced,
                 faults>>

\* cpu_resource_free
VisitFree ==
  /\ OnUsable("free")
  /\ Usable(Here)
  /\ Leave(Freed(Here))
  /\ Fails({})
  /\ UNCHANGED <<hardware, disp, nnodes, cpuidMax, room, task, leaked, raced,
                 faults>>

\* Fault: a CPU that is one beyond the end is taken to fit.
CountvalRoomShort(cpu) == IF cpu > room THEN cpuidMax + 1 ELSE room

\* proc_countval_update: the array grows to node_cpuid_max.
CountvalRoom(cpu) == IF cpu >= room THEN cpuidMax + 1 ELSE room

\* cpu_profiling_smpl of a CPU that has a record of the process or not.
VisitProfiling ==
  LET c == Hotadded(Here)
  IN  /\ OnUsable("smpl") /\ Kind = "profiling"
      /\ Usable(c)
      /\ \/ UNCHANGED <<room, faults>>
         \/ /\ c.events = "profiling" /\ c.cpu \in online
            /\ room' = CountvalRoom(c.cpu)
            /\ faults' = IF c.cpu < room' THEN faults
                                          ELSE faults \union {"grow"}
      /\ Leave(c)
      /\ Fails(NotHotadded(c))
      /\ UNCHANGED <<hardware, disp, nnodes, cpuidMax, task, leaked, raced>>

\* cpu_ll_smpl does not look whether there is a ring buffer.
VisitLL ==
  LET c == Hotadded(Here)
  IN  /\ OnUsable("smpl") /\ Kind = "ll"
      /\ Usable(c)
      /\ IF c.events = "none" THEN Crash("unmapped")
         ELSE /\ Leave(c)
              /\ Fails(NotHotadded(c))
              /\ UNCHANGED <<hardware, disp, nnodes, cpuidMax, room, task,
                             leaked, raced, faults>>

\* Nor does cpu_profiling_restore, when it discards the old records.
VisitRestore ==
  /\ OnUsable("restore")
  /\ Usable(Here)
  /\ IF Here.events = "none" THEN Crash("unmapped")
     ELSE /\ Leave(Here)
          /\ Fails({})
          /\ UNCHANGED <<hardware, disp, nnodes, cpuidMax, room, task, leaked,
                         raced, faults>>

-----------------------------------------------------------------------------
Hardware == Alive /\ (CpuGoes \/ CpuComes \/ NodeGoes \/ NodeComes)

DispStep ==
  \/ RefreshStart \/ RefreshRemove \/ RefreshAdd \/ RefreshFill \/ CpuRefresh
  \/ RefreshFails \/ Draw \/ Sample \/ SampleAgain \/ Answered

Asks == AskRestore \/ \E kind \in Kinds : AskStart(kind)

PerfStep ==
  \/ TakeTask \/ SkipNode \/ NoCpusYet \/ VisitRemoved \/ VisitUnusable
  \/ VisitSetup \/ VisitIoctl \/ VisitFree \/ VisitProfiling \/ VisitLL
  \/ VisitRestore

Next == Hardware \/ DispStep \/ Asks \/ PerfStep

Spec == Init /\ [][Next]_vars

\* Both threads go on; the time-out asks for a sampling again and again, and
\* the end of a sampling shows the page.
FairSpec == /\ Spec
            /\ WF_vars(DispStep) /\ WF_vars(PerfStep)
            /\ SF_vars(SampleAgain) /\ SF_vars(RefreshStart)

-----------------------------------------------------------------------------
\* However refreshes and walks overlap, a CPU is in one slot of its node, and
\* there is a free slot for every CPU that comes: cpu_find and free_idx_get
\* (os_perf.c) work on an array the perf thread takes CPUs out of.
OneSlot ==
  \A n \in Nodes : node[n].state = "here" =>
    /\ \A j, k \in Slots : cpus[n][j].cpu = cpus[n][k].cpu /\ j # k
                            => cpus[n][j].cpu = None
    /\ HasRoom(cpus[n], {c \in CpuIds : NodeOf[c] = n})

\* Unless a refresh overlapped a walk, a start failed, or a node was given up
\* with CPUs in it, no descriptor is forgotten; whatever is open is of the kind
\* the status says, in a slot with a CPU of a valid node, where the next
\* os_allstop closes it; and nothing is open when a start sets the events up,
\* after its walks to stop and free: through any order of CPUs that come, go,
\* and come back before the perf thread has noticed, and of switches between
\* kinds.
EventsKept ==
  raced \/ failures \intersect {"start", "node"} # {} \/
  /\ ~leaked
  /\ Walking \/ \A n \in Nodes, j \in Slots : cpus[n][j].events # "none" =>
       /\ cpus[n][j].events = status
       /\ node[n].state = "here" /\ cpus[n][j].cpu # None
  /\ Walking /\ Op = "setup" /\ at = <<0, 1>> =>
       \A n \in Nodes, j \in Slots : cpus[n][j].events = "none"

\* node_num, for which the windows allocate their lines, is the number of
\* nodes that are there and stay, whenever no node is being filled in; unless
\* a refresh counted a node down that an earlier one had, because the perf
\* thread has not walked since.
NodesCounted ==
  \/ \E n \in Nodes : node[n].state = "cleared"
  \/ "twice" \in failures
  \/ nnodes = Cardinality({n \in Nodes : Valid(n) /\ ~node[n].hotremove})

\* proc_countval_update's ASSERT (cpuid_max > proc->cpuid_max) and its array,
\* and the walk over a node's CPUs, are safe unless a refresh overlapped the
\* walk, or failed; countval_sum reads within a process's array unless a CPU
\* came whose id is larger than any there was when the array was allocated,
\* or a refresh failed after it had put such a CPU in.
InBounds ==
  /\ "walk" \in faults => raced
  /\ "grow" \in faults => raced \/ "refresh" \in failures
  /\ "sum" \in faults => cpuidMax > Max(AtBoot) \/ "refresh" \in failures

\* Once the hardware is left alone and the user only looks, every CPU that is
\* online has its events open and no node that has gone is kept, even if the
\* refreshes failed while it was: unless the program ended, a refresh overlapped
\* a walk, no events are set up since a start failed, or the events of some CPU
\* could not be opened (nobody tries again).
Sampled ==
  <>[][~Asks]_vars =>
  <>[]( \/ dpc = "dead" \/ raced \/ "cpu" \in failures
        \/ status = "none"
        \/ /\ AllThere
           /\ \A c \in online : \E j \in Slots :
                /\ cpus[NodeOf[c]][j].cpu = c
                /\ cpus[NodeOf[c]][j].events = status)

\* cpu_op closes the events of a CPU that is offline; a later sampling must
\* not read the ring buffer that is unmapped with them.
MapsRead == "unmapped" \notin faults
=============================================================================
