------------------------------ MODULE Windows ------------------------------
(***************************************************************************)
(* Commands, pages and their windows (common/cmd.c, page.c, win.c, the     *)
(* handlers of disp.c, os/os_cmd.c, os_page.c and os_win.c).               *)
(*                                                                         *)
(* The disp thread takes one message or key at a time.  A command looks up *)
(* what to do in a table indexed by the type of the current window: first  *)
(* a preop, which has the perf thread change what it counts, then an op,   *)
(* which goes one page forward or back in the list of pages.  The page is  *)
(* drawn at once, or a sampling is asked for and the page is drawn when    *)
(* the perf thread posts READY.  Between the two the user types on.        *)
(*                                                                         *)
(* A page outlives its window: a resize frees the windows of all pages and *)
(* each is made again when it is shown next.  What is on the lines is left *)
(* out; how many lines there are, which one is highlighted and how long    *)
(* the buffer behind them is, is not.                                      *)
(*                                                                         *)
(* A handler is a function from the state it finds, a record with the      *)
(* fields of Now, to the set of the states it may leave behind.            *)
(***************************************************************************)
EXTENDS Region, Sequences, FiniteSets

CONSTANTS
  Height,     \* lines of the screen that a list can have
  Many,       \* WIN_NLINES_MAX
  ListSizes,  \* lengths of the lists of processes, threads, buffers, chains
  NodeCounts, \* what node_num returns
  Counts,     \* the events that the call-chain window can show
  Rma,        \* the one it begins with
  MaxPages    \* bound on the list of pages

ASSUME WindowsAssumption ==
  /\ Height \in Nat \ {0} /\ Many \in Nat \ {0} /\ MaxPages \in Nat \ {0}
  /\ ListSizes \subseteq 0..Many /\ NodeCounts \subseteq Nat
  /\ Rma \in Counts /\ "all" \notin Counts

VARIABLES
  pages,   \* s_page_list, from head to tail
  cur,     \* s_page_list.cur, 0 for NULL
  next,    \* s_page_list.next_run, 0 for NULL
  small,   \* the terminal is smaller than 80x24
  first,   \* s_first_load
  nnodes,  \* what node_num returned last
  mail,    \* what is in the mailbox of the disp thread
  task,    \* the sampling the perf thread has still to take
  status,  \* s_perf_ctl.status, as far as the preops ask for it
  counted, \* the event that is counted, or "all"
  missed,  \* the events and the call-chain window have lost each other
  fault    \* what has stopped the program, and what it was doing

vars == <<pages, cur, next, small, first, nnodes, mail, task, status, counted,
          missed, fault>>

Now == [pages |-> pages, cur |-> cur, next |-> next, small |-> small,
        first |-> first, nnodes |-> nnodes, mail |-> mail, task |-> task,
        status |-> status, counted |-> counted, missed |-> missed,
        fault |-> fault]

Becomes(u) ==
  /\ pages' = u.pages /\ cur' = u.cur /\ next' = u.next /\ small' = u.small
  /\ first' = u.first /\ nnodes' = u.nnodes /\ mail' = u.mail
  /\ task' = u.task /\ status' = u.status /\ counted' = u.counted
  /\ missed' = u.missed /\ fault' = u.fault

NoFault == [what |-> "none", by |-> "none"]
Fails(u, what, by) == [u EXCEPT !.fault = [what |-> what, by |-> by]]

\* What follows a step that may have stopped the program.
Then(S, Op(_)) == UNION {IF u.fault = NoFault THEN Op(u) ELSE {u} : u \in S}

-----------------------------------------------------------------------------
(* Pages and the types of their windows.                                   *)

NoRegion == [height |-> 0, cap |-> 0, total |-> 0, start |-> 0, hl |-> NoLine]

\* dyn: "unmade" while win_dyn_init has never succeeded, "none" when it has
\* failed since, "freed" when the window is gone and the pointer is not.
NewPage(c, who) == [cmd |-> c, who |-> who, inited |-> FALSE, dyn |-> "unmade",
                    reg |-> NoRegion, count |-> Rma]

WinType(p) ==
  CASE p.dyn = "unmade" \/ p.cmd = "HOME" -> "RAW_NUM"
    [] OTHER ->
       CASE p.cmd = "IR_NORMALIZE" -> "TOPNPROC"
         [] p.cmd = "MONITOR" -> IF p.who = "proc" THEN "MONIPROC"
                                 ELSE "MONILWP"
         [] p.cmd = "LWP" -> "TOPNLWP"
         [] OTHER -> p.cmd

Current(u) == u.pages[u.cur]
CurType(u) == IF u.cur = 0 THEN "RAW_NUM" ELSE WinType(Current(u))

-----------------------------------------------------------------------------
(* win_dyn_init, by type of window.  None of these fails for want of       *)
(* memory here; with no node, a list of nodes has no lines and reg_init    *)
(* fails; and a node that is gone has no detail.                           *)

TopnprocCreate == NewRegion(Height, Many)
MoniprocCreate(n) == NewRegion(n, n)
MonilwpCreate(n) == NewRegion(n, n)
TopnlwpCreate == NewRegion(Height, Many)
NodeoverviewCreate(n) == NewRegion(n, n)
NodedetailCreate == {NoRegion}
CallchainCreate == NewRegion(Height, 0)
LatCreate == NewRegion(Height, 0)
LatnodeCreate == NewRegion(Height, 0)
AccdstCreate(n) == NewRegion(n, n)
LlcallchainCreate == NewRegion(Height, 0)
PqosCmtCreate == NewRegion(Height, Many)
PqosMbmCreate == NewRegion(Height, Many)

MoniCreate(p, n) ==
  IF p.who = "proc" THEN MoniprocCreate(n) ELSE MonilwpCreate(n)

DynCreate(p, n) ==
  CASE p.cmd \in {"HOME", "IR_NORMALIZE"} -> TopnprocCreate
    [] p.cmd = "MONITOR" -> MoniCreate(p, n)
    [] p.cmd = "LWP" -> TopnlwpCreate
    [] p.cmd = "NODE_OVERVIEW" -> NodeoverviewCreate(n)
    [] p.cmd = "NODE_DETAIL" -> NodedetailCreate
    [] p.cmd = "CALLCHAIN" -> CallchainCreate
    [] p.cmd = "LAT" -> LatCreate
    [] p.cmd = "LATNODE" -> LatnodeCreate
    [] p.cmd = "ACCDST" -> AccdstCreate(n)
    [] p.cmd = "LLCALLCHAIN" -> LlcallchainCreate
    [] p.cmd = "PQOS_CMT" -> PqosCmtCreate
    [] p.cmd = "PQOS_MBM" -> PqosMbmCreate

MayFail(p, n) == DynCreate(p, n) = {} \/ p.cmd = "NODE_DETAIL"

WinDynInit(u) ==
  LET p == u.pages[u.next] IN
  {[u EXCEPT !.pages[u.next] = [@ EXCEPT !.inited = TRUE, !.dyn = "live",
                                         !.reg = r, !.count = Rma],
             !.missed = @ \/ (p.cmd = "CALLCHAIN" /\ p.dyn # "unmade")]
     : r \in DynCreate(p, u.nnodes)}
  \union (IF MayFail(p, u.nnodes)
          THEN {[u EXCEPT !.pages[u.next].dyn =
                   IF @ = "unmade" THEN @ ELSE "none"]}
          ELSE {})

\* win_dyn_fini of a page: its window is given back once.
\* Fault: the page is not marked.
WinDynFiniUnmarked(p) == IF p.inited THEN [p EXCEPT !.dyn = "freed"] ELSE p
WinDynFini(p) ==
  IF p.inited THEN [p EXCEPT !.inited = FALSE, !.dyn = "freed"] ELSE p

\* A window that is freed again.
FreedTwice(ps) == \E i \in DOMAIN ps : ps[i].inited /\ ps[i].dyn # "live"

-----------------------------------------------------------------------------
(* Drawing.                                                                *)

\* The lines are written to the buffer first and shown then.
List(u, r, n) ==
  LET v == [u EXCEPT !.pages[u.next].reg = ScrollShow([r EXCEPT !.total = n], n)]
  IN IF n > r.cap THEN Fails(v, "write", "draw") ELSE v

\* The buffer that is there, of as many lines as when the window was made.
InPlace(u, n) == List(u, u.pages[u.next].reg, n)
\* A new buffer takes the place of the old one.
InNew(u, n, cap) == List(u, [u.pages[u.next].reg EXCEPT !.cap = cap], n)

\* disp_go_home on the disp thread: it waits for a mailbox that only it
\* empties when a key or a READY has come in first.
DispGoHome(u) ==
  {Fails(u, "hung", "draw")}
  \union (IF u.mail = "none" THEN {[u EXCEPT !.mail = "home"]} ELSE {})

\* The process, or the thread, is gone; three seconds later the first page is
\* asked for.
WinInvalidProc(u) == DispGoHome(u)
WinInvalidLwp(u) == DispGoHome(u)

TopnprocDraw(u) ==
  IF u.first THEN {[u EXCEPT !.first = FALSE]}
  ELSE {InPlace(u, n) : n \in ListSizes \ {0}}

MoniprocDraw(u) == WinInvalidProc(u) \union {InPlace(u, u.nnodes)}
MonilwpDraw(u) ==
  WinInvalidProc(u) \union WinInvalidLwp(u) \union {InPlace(u, u.nnodes)}

\* A process has at least one thread.
TopnlwpDraw(u) ==
  WinInvalidProc(u) \union {InPlace(u, n) : n \in ListSizes \ {0}}

NodeoverviewDraw(u) == {InPlace(u, u.nnodes)}
NodedetailDraw(u) == {u}

\* Without a call-chain, or without symbols, the old list stays.
ChainlistShow(u) == {u} \union {InNew(u, n, n + 1) : n \in ListSizes \ {0}}

CallchainDraw(u) == WinInvalidProc(u) \union ChainlistShow(u)
LlcallchainDraw(u) == {u} \union ChainlistShow(u)

\* A process that has a map has a line of it.
LatLines(u) == {u} \union {InNew(u, n, n) : n \in ListSizes \ {0}}
LatDraw(u) ==
  IF u.status # "ll" THEN {u}
  ELSE {u} \union LatLines(u)
           \union (IF u.pages[u.next].who = "lwp" THEN WinInvalidLwp(u) ELSE {})

\* A buffer may have no page in memory.
LatnodeLines(u) == {u} \union {InNew(u, n, n) : n \in ListSizes}
LatnodeDraw(u) == {u} \union LatnodeLines(u)

AccdstDraw(u) == WinInvalidProc(u) \union {u, InPlace(u, u.nnodes)}

\* The number of lines is set before the process is looked up.
PqosCmtDraw(u) ==
  WinInvalidProc([u EXCEPT !.pages[u.next].reg.total = 1]) \union {InPlace(u, 1)}
PqosMbmDraw(u) ==
  WinInvalidProc([u EXCEPT !.pages[u.next].reg.total = 1]) \union {InPlace(u, 1)}

WinDraw(u) ==
  LET t == WinType(u.pages[u.next]) IN
  CASE u.pages[u.next].dyn # "live" -> {Fails(u, "freed", "draw")}
    [] OTHER ->
       CASE t \in {"RAW_NUM", "TOPNPROC"} -> TopnprocDraw(u)
         [] t = "MONIPROC" -> MoniprocDraw(u)
         [] t = "MONILWP" -> MonilwpDraw(u)
         [] t = "TOPNLWP" -> TopnlwpDraw(u)
         [] t = "NODE_OVERVIEW" -> NodeoverviewDraw(u)
         [] t = "NODE_DETAIL" -> NodedetailDraw(u)
         [] t = "CALLCHAIN" -> CallchainDraw(u)
         [] t = "LAT" -> LatDraw(u)
         [] t = "LATNODE" -> LatnodeDraw(u)
         [] t = "ACCDST" -> AccdstDraw(u)
         [] t = "LLCALLCHAIN" -> LlcallchainDraw(u)
         [] t = "PQOS_CMT" -> PqosCmtDraw(u)
         [] t = "PQOS_MBM" -> PqosMbmDraw(u)

-----------------------------------------------------------------------------
(* Sampling.                                                               *)

\* What the perf thread posts when it takes task t: load latency is silent
\* unless its events are set up, the detail of a node when the node is gone.
Answers(u, t) ==
  CASE t = "profiling" -> {"ready"}
    [] t = "ll" -> IF u.status = "ll" THEN {"ready"} ELSE {"none"}
    [] t = "pqos_cmt" -> {"ready"}
    [] t = "uncore" -> {"ready", "fail", "none"}

\* A task that is put in the place of another one: the perf thread has
\* answered the other by now, or never will.
TaskSet(u) ==
  {[u EXCEPT !.task = "none"]}
  \union (IF u.task # "none" /\ u.mail = "none"
          THEN {[u EXCEPT !.task = "none", !.mail = a]
                  : a \in Answers(u, u.task)}
          ELSE {})

Ask(u, t) == {[v EXCEPT !.task = t] : v \in TaskSet(u)}

\* os_page_smpl_start, which never fails: a profiling sample that the disp
\* thread waits for comes before those of a node, a cache or a bandwidth.
PageSmplStart(u, p) ==
  CASE p.cmd \in {"HOME", "IR_NORMALIZE", "MONITOR", "LWP", "NODE_OVERVIEW",
                  "CALLCHAIN"} -> Ask(u, "profiling")
    [] p.cmd = "NODE_DETAIL" -> Ask(u, "uncore")
    [] p.cmd \in {"LAT", "LLCALLCHAIN", "LATNODE", "ACCDST"} -> Ask(u, "ll")
    [] p.cmd = "PQOS_CMT" -> IF WinType(p) = "PQOS_CMT"
                             THEN Ask(u, "pqos_cmt") ELSE TaskSet(u)
    [] p.cmd = "PQOS_MBM" -> Ask(u, "pqos_cmt")

-----------------------------------------------------------------------------
(* The list of pages.                                                      *)

ShowWindow(u, smpl) ==
  LET p == u.pages[u.next]
      Shown(v) == IF ~v.pages[v.next].inited THEN {v}
                  ELSE IF smpl THEN PageSmplStart(v, v.pages[v.next])
                  ELSE WinDraw(v)
  IN Then(IF p.inited THEN {u} ELSE WinDynInit(u), Shown)

\* node_group_refresh comes first, and fails.
PageShow(u, smpl) ==
  IF u.small THEN {u}
  ELSE {u} \union UNION {ShowWindow([u EXCEPT !.nnodes = n], smpl)
                           : n \in NodeCounts}

PageNextExecute(u, smpl) ==
  IF u.next = 0 THEN {u}
  ELSE {[v EXCEPT !.cur = v.next, !.next = IF smpl THEN @ ELSE 0]
          : v \in PageShow(u, smpl)}

\* Pages i and on are given up, and their windows.
PageDrop(u, i) ==
  LET gone == SubSeq(u.pages, i, Len(u.pages))
      v == [u EXCEPT !.pages = SubSeq(@, 1, i - 1)]
  IN IF FreedTwice(gone) THEN Fails(v, "freed", "draw") ELSE v

\* page_create: the pages after the current one make room for the new one.
PageCreate(u, c, who) ==
  LET v == PageDrop(u, u.cur + 1) IN
  [v EXCEPT !.pages = Append(@, NewPage(c, who)), !.next = Len(v.pages) + 1]

OpPageNext(u, c, who, smpl) == PageNextExecute(PageCreate(u, c, who), smpl)

\* Fault: the page that is left stays in the list.
OpPagePrevKeeping(u, smpl) ==
  IF u.cur <= 1 THEN {u}
  ELSE PageNextExecute([u EXCEPT !.cur = @ - 1, !.next = u.cur - 1], smpl)
OpPagePrev(u, smpl) ==
  IF u.cur <= 1 THEN {u}
  ELSE PageNextExecute([PageDrop(u, u.cur) EXCEPT !.cur = @ - 1,
                                                  !.next = u.cur - 1], smpl)

OpRefresh(u) == PageSmplStart([u EXCEPT !.next = u.cur], Current(u))
OpSort(u) == OpRefresh(u)

OpHome(u, smpl) ==
  OpPageNext([PageDrop(u, 1) EXCEPT !.cur = 0, !.next = 0], "HOME", "all", smpl)

\* page_win_destroy
PageWinDestroy(u) ==
  LET v == [u EXCEPT !.pages = [i \in DOMAIN @ |-> WinDynFini(@[i])]] IN
  IF FreedTwice(u.pages) THEN Fails(v, "freed", "draw") ELSE v

-----------------------------------------------------------------------------
(* The preops.  Each returns the state and whether to sample.              *)

Result(S, smpl) == {[u |-> u, smpl |-> smpl] : u \in S}

\* A handler reads the window of the current page.
UseDyn(u) ==
  LET p == Current(u) IN
  IF p.dyn = "live" THEN {u}
  ELSE {Fails(u, IF p.dyn = "freed" THEN "freed" ELSE "null", "key")}

Switch2profiling(u) ==
  IF u.status = "profiling" THEN Result({u}, FALSE)
  ELSE Result({[v EXCEPT !.status = "profiling",
                         !.counted = IF u.status = "none" \/ u.status = "ll"
                                     THEN "all" ELSE @]
                 : v \in TaskSet(u)}, TRUE)

\* perf_ll_start fails on a machine without load latency.
Switch2ll(u) ==
  IF u.status = "ll" THEN Result({u}, FALSE)
  ELSE UNION {Result({[v EXCEPT !.status = "ll"]}, TRUE) \union
              Result({[v EXCEPT !.status = "none"]}, FALSE) : v \in TaskSet(u)}

Switch2callchain(u) ==
  Result({[v EXCEPT !.counted = IF v.fault = NoFault THEN Rma ELSE @]
            : v \in Then(UseDyn(u), TaskSet)}, TRUE)

\* Fault: the other events stay paused.
LeavecallchainPaused(u) == Result(Then(UseDyn(u), TaskSet), TRUE)
Leavecallchain(u) ==
  Result({[v EXCEPT !.counted = IF v.fault = NoFault THEN "all" ELSE @]
            : v \in Then(UseDyn(u), TaskSet)}, TRUE)

Switch2accdst(u) == Result(UseDyn(u), FALSE)

\* The monitoring of the process is set up, or was already, or cannot be.
Setup(u, what) ==
  {[v EXCEPT !.status = s] : v \in TaskSet(u), s \in {what, "profiling", "none"}}

Switch2pqoscmt(u) ==
  LET Set(v) == Setup(v, "pqos_cmt") IN Result(Then(UseDyn(u), Set), FALSE)
Switch2pqosmbm(u) ==
  LET Set(v) == Setup(v, "pqos_cmt") IN Result(Then(UseDyn(u), Set), FALSE)

Switch2uncore(u) ==
  Result({v \in Setup(u, "uncore") : v.status # "profiling"}, FALSE)

-----------------------------------------------------------------------------
(* Commands: switch_table_init and cmd_execute.                            *)

Ll == {"LAT", "LATNODE", "ACCDST", "LLCALLCHAIN"}

\* The commands that the window type t has an op for.
Offers(t) ==
  {"REFRESH", "HOME"}
  \union (IF t = "RAW_NUM" THEN {} ELSE {"BACK"})
  \union (IF t \in Ll \union {"NODE_OVERVIEW", "CALLCHAIN"} THEN {}
          ELSE {"NODE_OVERVIEW"})
  \union CASE t = "RAW_NUM" -> {"MONITOR", "IR_NORMALIZE", "SORT"}
           [] t = "TOPNPROC" -> {"MONITOR", "SORT"}
           [] t = "MONIPROC" -> {"LAT", "LWP", "CALLCHAIN", "PQOS_CMT"}
           [] t = "MONILWP" -> {"LAT", "CALLCHAIN", "PQOS_CMT"}
           [] t = "TOPNLWP" -> {"MONITOR"}
           [] t = "LAT" -> {"LLCALLCHAIN", "LATNODE", "ACCDST", "MAP_GET"}
           [] t = "LATNODE" -> {"MAP_GET"}
           [] t = "NODE_OVERVIEW" -> {"NODE_DETAIL"}
           [] t = "CALLCHAIN" -> {"COUNT"}
           [] t = "PQOS_CMT" -> {"PQOS_MBM"}
           [] OTHER -> {}

\* The commands that add a page.
Forward == {"HOME", "NODE_OVERVIEW", "MONITOR", "IR_NORMALIZE", "LAT", "LWP",
            "CALLCHAIN", "PQOS_CMT", "PQOS_MBM", "LLCALLCHAIN", "LATNODE",
            "ACCDST", "NODE_DETAIL"}

\* Which process or thread the new page is about.
Who(t, c) ==
  CASE c \in {"HOME", "NODE_OVERVIEW", "IR_NORMALIZE", "NODE_DETAIL"} -> "all"
    [] c = "MONITOR" -> IF t = "TOPNLWP" THEN "lwp" ELSE "proc"
    [] OTHER -> "same"

Preop(u, c) ==
  LET t == CurType(u) IN
  CASE c = "HOME" /\ t # "CALLCHAIN" -> Switch2profiling(u)
    [] c = "NODE_OVERVIEW" -> Switch2profiling(u)
    [] c = "BACK" /\ t \in {"LAT", "NODE_DETAIL", "PQOS_CMT"} ->
         Switch2profiling(u)
    [] c = "BACK" /\ t = "PQOS_MBM" -> Switch2pqoscmt(u)
    [] c \in {"BACK", "HOME"} /\ t = "CALLCHAIN" -> Leavecallchain(u)
    [] c = "LAT" -> Switch2ll(u)
    [] c = "CALLCHAIN" -> Switch2callchain(u)
    [] c = "ACCDST" -> Switch2accdst(u)
    [] c = "PQOS_CMT" -> Switch2pqoscmt(u)
    [] c = "PQOS_MBM" -> Switch2pqosmbm(u)
    [] c = "NODE_DETAIL" -> Switch2uncore(u)
    [] OTHER -> Result({u}, FALSE)

\* The line that is highlighted when the window of a buffer is asked for.
LineRead(u) ==
  LET r == Current(u).reg IN
  IF r.hl \in 0 .. r.cap - 1 THEN {u} ELSE {Fails(u, "read", "key")}

OpSwitch2ll(u, c, who, smpl) ==
  LET Go(v) == OpPageNext(v, c, who, smpl) IN Then(UseDyn(u), Go)

OpSwitch2llcallchain(u, c, who, smpl) ==
  LET Go(v) == OpPageNext(v, c, who, smpl)
      Read(v) == IF Current(v).reg.hl = NoLine THEN {v}
                 ELSE Then(LineRead(v), Go)
  IN Then(UseDyn(u), Read)

\* callchain_countid_set and os_op_callchain_count: another event.
CountidSet(u, n) == [u EXCEPT !.counted = n, !.pages[u.cur].count = n]
OpCallchainCount(u) ==
  LET Counted(v) == UNION {OpRefresh(CountidSet(w, n))
                             : w \in TaskSet(v), n \in Counts}
  IN Then(UseDyn(u), Counted)

Op(u, c, smpl) ==
  LET t == CurType(u)
      who == IF Who(t, c) = "same" THEN Current(u).who ELSE Who(t, c)
  IN CASE c = "HOME" -> OpHome(u, smpl)
       [] c = "BACK" -> OpPagePrev(u, smpl)
       [] c \in {"REFRESH", "MAP_GET"} -> OpRefresh(u)
       [] c = "SORT" -> OpSort(u)
       [] c = "COUNT" -> OpCallchainCount(u)
       [] c = "LAT" -> OpSwitch2ll(u, c, who, smpl)
       [] c = "LLCALLCHAIN" -> OpSwitch2llcallchain(u, c, who, smpl)
       [] OTHER -> OpPageNext(u, c, who, smpl)

\* A call-chain window that was never made is of the type RAW_NUM: a command
\* that leaves it does not know that the other events are paused.
Unnoticed(u, c) ==
  u.cur # 0 /\ Current(u).cmd = "CALLCHAIN" /\ Current(u).dyn = "unmade"
  /\ c \in Forward

CmdExecute(u, c) ==
  IF c \notin Offers(CurType(u)) THEN {u}
  ELSE LET v == [u EXCEPT !.missed = @ \/ Unnoticed(u, c)] IN
       UNION {IF r.u.fault = NoFault THEN Op(r.u, c, r.smpl) ELSE {r.u}
                : r \in Preop(v, c)}

-----------------------------------------------------------------------------
(* The keys that move the highlight, and ENTER.                            *)

\* The windows have one of these each; all scroll the one list they have.
WinScroll(u, key) ==
  LET r == Current(u).reg
      s == LineScroll(r, key)
      v == [u EXCEPT !.pages[u.cur].reg = s]
  IN IF LinesAsked(r, s) \subseteq 0 .. r.cap - 1 THEN {v}
     ELSE {Fails(v, "read", "key")}

KeyScroll(u, key) ==
  LET Move(v) == WinScroll(v, key) IN
  IF Current(u).dyn = "unmade" \/ WinType(Current(u)) = "NODE_DETAIL" THEN {u}
  ELSE Then(UseDyn(u), Move)

\* The command that ENTER gives in a window of type t.
TopnprocEnter == "MONITOR"
MoniprocEnter == "LWP"
TopnlwpEnter == "MONITOR"
NodeoverviewEnter == "NODE_DETAIL"
LatEnter == "LATNODE"

WinEnter(t) ==
  CASE t \in {"RAW_NUM", "TOPNPROC"} -> TopnprocEnter
    [] t = "MONIPROC" -> MoniprocEnter
    [] t = "TOPNLWP" -> TopnlwpEnter
    [] t = "NODE_OVERVIEW" -> NodeoverviewEnter
    [] t = "LAT" -> LatEnter
    [] OTHER -> "none"

ScrollEnter(u) ==
  LET c == WinEnter(CurType(u))
      Go(v) == CmdExecute(v, c)
      Read(v) == IF Current(v).reg.hl = NoLine THEN {v}
                 ELSE Then(LineRead(v), Go)
  IN IF c = "none" \/ Current(u).dyn = "unmade" THEN {u}
     ELSE Then(UseDyn(u), Read)

-----------------------------------------------------------------------------
Init ==
  /\ pages = <<>> /\ cur = 0 /\ next = 0
  /\ small = FALSE /\ first = TRUE /\ nnodes \in NodeCounts
  /\ mail = "home" /\ task = "none"
  /\ status = "profiling" /\ counted = "all"
  /\ missed = FALSE /\ fault = NoFault

\* Commands that need a highlighted line come from ENTER.
Keys == {"REFRESH", "HOME", "BACK", "NODE_OVERVIEW", "IR_NORMALIZE", "SORT",
         "LAT", "CALLCHAIN", "PQOS_CMT", "PQOS_MBM", "LLCALLCHAIN", "ACCDST",
         "MAP_GET", "COUNT"}

Idle == fault = NoFault /\ mail = "none" /\ cur # 0

Command ==
  /\ Idle
  /\ \E c \in Keys : /\ c \in Forward \ {"HOME"} => cur < MaxPages
                     /\ \E u \in CmdExecute(Now, c) : Becomes(u)

Scroll ==
  /\ Idle
  /\ \E key \in {"UP", "DOWN"} : \E u \in KeyScroll(Now, key) : Becomes(u)

Enter ==
  /\ Idle /\ cur < MaxPages
  /\ \E u \in ScrollEnter(Now) : Becomes(u)

\* cmd_received of RESIZE.
Resize ==
  /\ Idle
  /\ \E s \in BOOLEAN :
       LET v == [PageWinDestroy(Now) EXCEPT !.small = s] IN
       \E u \in IF s THEN {v} ELSE CmdExecute(v, "REFRESH") : Becomes(u)

\* The deadline of the disp thread: a refresh.
Timeout ==
  /\ Idle
  /\ \E u \in CmdExecute(Now, "REFRESH") : Becomes(u)

\* The perf thread takes the task and posts what comes of it.
PerfAnswer ==
  /\ fault = NoFault /\ mail = "none" /\ task # "none"
  /\ \E a \in Answers(Now, task) : mail' = a
  /\ task' = "none"
  /\ UNCHANGED <<pages, cur, next, small, first, nnodes, status, counted,
                 missed, fault>>

Taken == [Now EXCEPT !.mail = "none"]

GoHome ==
  /\ fault = NoFault /\ mail = "home"
  /\ \E u \in CmdExecute(Taken, "HOME") : Becomes(u)

Ready ==
  /\ fault = NoFault /\ mail = "ready"
  /\ \E u \in PageNextExecute(Taken, FALSE) : Becomes(u)

Fail ==
  /\ fault = NoFault /\ mail = "fail"
  /\ \E u \in DispGoHome(Taken) : Becomes(u)

Next == Command \/ Scroll \/ Enter \/ Resize \/ Timeout \/ PerfAnswer \/ GoHome
        \/ Ready \/ Fail

Spec == Init /\ [][Next]_vars

-----------------------------------------------------------------------------
\* The current page is the last of the list, and the page to be shown next is
\* the current one (page.c: every command either goes on from the current
\* page, dropping what is after it, or goes back and drops the page it
\* leaves).  Otherwise a READY would draw a page that has been freed, or one
\* that BACK has left.
OneLine == fault = NoFault => cur = Len(pages) /\ next \in {0, cur}

\* Whenever a list has lines its highlighted line is one of them and is on
\* the screen, however the list has grown, shrunk and scrolled since
\* (reg_line_scroll, reg_scroll_show).
InView == \A i \in DOMAIN pages : LineInView(pages[i].reg)

\* No handler reads or writes outside of the buffer of a list, except for the
\* two that do: a list of nodes is drawn with more nodes than there were when
\* its window was made, and the window of the pages of a buffer, none of which
\* is in memory any more, reads the line that was highlighted.
LinesInBuffer ==
  /\ fault.what = "write" =>
       WinType(pages[Len(pages)]) \in {"MONIPROC", "MONILWP", "NODE_OVERVIEW", "ACCDST"}
  /\ fault.what = "read" => WinType(pages[Len(pages)]) = "LATNODE"

\* A window is used by a draw, and freed, only while it is there, whatever
\* resizes, steps back and failures to make it anew came between: only a key
\* finds a window that is gone (win_dyn_init, win_dyn_fini, page_win_destroy).
DrawsLive == fault.what \in {"freed", "null"} => fault.by = "key"

\* The events that are counted are those the window on the screen shows: one
\* in the call-chain window, the one it names, and all of them in any other,
\* in whichever way the call-chain window was left (os_preop_leavecallchain,
\* os_op_callchain_count).  missed excuses the two ways the code forgets: a
\* resize makes the call-chain window anew, which names the first event again,
\* and a call-chain window that was never made is left as if it were another.
EventsShown ==
  fault = NoFault /\ cur # 0 /\ ~missed /\ pages[cur].dyn # "unmade" =>
    counted = IF pages[cur].cmd = "CALLCHAIN" THEN pages[cur].count ELSE "all"

=============================================================================
