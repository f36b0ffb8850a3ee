------------------------------- MODULE PerfCtl -------------------------------
(***************************************************************************)
(* The perf thread and its client (common/perf.c, common/os/os_perf.c).    *)
(*                                                                         *)
(* A client puts a task into the only slot of s_perf_ctl and signals cond; *)
(* for most tasks it then waits on status_cond, at most 60 s, until the    *)
(* status is the one it asked for or tells of a failure.  The perf thread  *)
(* takes a task, works on the counters, sets the status and, for a         *)
(* sampling, posts to the disp thread, which may take any time.            *)
(*                                                                         *)
(* The client is the main thread until perf_init returns and then the disp *)
(* thread, which moves between pages: each command looks at the status and *)
(* asks for the counters its page needs (cmd.c, os/os_cmd.c, os/os_page.c).*)
(* A page is its kind: what counters it needs and what leaving it takes.   *)
(* The command that leaves it goes by the type of its window, and a window *)
(* that could not be made has the type of the first page's.                *)
(***************************************************************************)
EXTENDS Integers, Sequences

CONSTANTS RmaPause,  (* "part" on x86; "multi" where RMA is two events     *)
          MaxPages,  (* bound on the pages in the list                     *)
          None

\* perf_taskid_t.  RESTORE stands for MULTI_RESTORE too; SMPL1 and SMPL2 are
\* a PROFILING_SMPL that ends with a notification and one that sets flag2.
StatusTasks == {"START", "STOP", "LL_START", "PARTPAUSE", "MULTIPAUSE",
                "RESTORE", "CMT_START", "CMT_STOP", "UNCORE_START",
                "UNCORE_STOP"}
SampleTasks == {"SMPL1", "LL_SMPL", "CMT_SMPL", "UNCORE_SMPL"}
Tasks == StatusTasks \union SampleTasks \union {"SMPL2", "QUIT"}

ASSUME PerfCtlAssumption ==
  /\ RmaPause \in {"part", "multi"}
  /\ MaxPages \in Nat
  /\ None \notin Tasks

\* perf_status_t
Failures == {"PROFILING_FAILED", "LL_FAILED", "CMT_FAILED", "UNCORE_FAILED"}
Statuses == {"IDLE", "PROFILING", "PART", "MULTI", "LL", "CMT", "UNCORE"}
              \union Failures

\* The status a client waits for.
Wanted == [t \in StatusTasks |->
             CASE t = "STOP"         -> "IDLE"
               [] t = "LL_START"     -> "LL"
               [] t = "PARTPAUSE"    -> "PART"
               [] t = "MULTIPAUSE"   -> "MULTI"
               [] t = "CMT_START"    -> "CMT"
               [] t = "UNCORE_START" -> "UNCORE"
               [] OTHER              -> "PROFILING"]

FailureOf == [t \in {"START", "LL_START", "CMT_START", "UNCORE_START"} |->
                CASE t = "START"     -> "PROFILING_FAILED"
                  [] t = "LL_START"  -> "LL_FAILED"
                  [] t = "CMT_START" -> "CMT_FAILED"
                  [] OTHER           -> "UNCORE_FAILED"]

\* status_failed, os_profiling_started
StatusFailed == {"PROFILING_FAILED", "LL_FAILED"}
ProfilingStarted == {"PROFILING", "PART", "CMT"}

\* Kinds of pages: "plain" is any page that shows the profiling data;
\* "part" and "multi" are the call-chain page, with one or two events left
\* running; "lldetail" is a page opened from the latency page.
CallChain == {"part", "multi"}
Kinds == {"plain", "lat", "lldetail", "uncore", "cmt", "mbm"} \union CallChain

\* What a command has still to do: tasks, and the steps that look first.
Steps == Tasks \union {"leave_cmt", "leave_uncore", "restart", "to_ll",
                       "setup_cmt", "sampled", "show"}

VARIABLES
  slot,    (* s_perf_ctl.task, or None                                     *)
  ppc,     (* where the perf thread is                                     *)
  job,     (* the task it works on, or None                                *)
  status,  (* s_perf_ctl.status                                            *)
  cpu,     (* what the events of the CPUs are set up for                   *)
  uncore,  (* the uncore events are set up                                 *)
  pause,   (* s_partpause_enabled: samples are not accounted               *)
  leaked,  (* history: events were set up over others, which stay open     *)
  cpc,     (* where the client is                                          *)
  asked,   (* the task whose status the client waits for, or None          *)
  flag2,   (* s_disp_ctl.flag2                                             *)
  pages,   (* the page list up to the current page                         *)
  unmade,  (* the places of the pages whose windows have never been made;  *)
           (* plain pages, which have the type all the same, are left out  *)
  todo,    (* what the current command has still to do                     *)
  smpl,    (* boolean smpl of cmd_execute                                  *)
  hurt     (* history: a task failed, a wait ended before its task, or a   *)
           (* page was left for one it does not lead to, its window unmade *)

events == <<cpu, uncore, pause, leaked>>
perfVars == <<slot, ppc, job, status, events>>
command == <<pages, unmade, todo, smpl>>
vars == <<perfVars, cpc, asked, flag2, command, hurt>>

PerfStates == {"test", "sleep", "work", "post", "gone"}
ClientStates == {"idle", "asked", "wait", "woken", "expired",
                 "flag2", "flag2_sleep", "join", "gone"}

TypeOK ==
  /\ slot \in Tasks \union {None}
  /\ ppc \in PerfStates
  /\ job \in Tasks \union {None}
  /\ status \in Statuses
  /\ cpu \in {"none", "profiling", "ll"}
  /\ uncore \in BOOLEAN
  /\ pause \in BOOLEAN
  /\ leaked \in BOOLEAN
  /\ cpc \in ClientStates
  /\ asked \in StatusTasks \union {None}
  /\ flag2 \in BOOLEAN
  /\ pages \in Seq(Kinds)
  /\ unmade \in SUBSET (1..Len(pages))
  /\ todo \in Seq(Steps)
  /\ smpl \in BOOLEAN
  /\ hurt \in BOOLEAN

\* perf_init has started the perf thread and is about to ask for START.
Init ==
  /\ slot = None /\ ppc = "test" /\ job = None
  /\ status = "IDLE"
  /\ cpu = "none" /\ uncore = FALSE /\ pause = FALSE /\ leaked = FALSE
  /\ cpc = "idle" /\ asked = None /\ flag2 = FALSE
  /\ pages = <<>> /\ unmade = {} /\ todo = <<"START">> /\ smpl = FALSE
  /\ hurt = FALSE

(***************************************************************************)
(* The client's calls                                                      *)
(***************************************************************************)

\* Fault: cond is not signalled.
TaskSetSilent(t) ==
  /\ slot' = t
  /\ UNCHANGED ppc

\* perf_task_set: whatever is in the slot is replaced.
TaskSet(t) ==
  /\ slot' = t
  /\ ppc' = IF ppc = "sleep" THEN "test" ELSE ppc

\* os_page_smpl_start
Sampling(k) == CASE k \in {"plain"} \union CallChain -> <<"SMPL1">>
                 [] k \in {"lat", "lldetail"} -> <<"LL_SMPL">>
                 [] k = "uncore" -> <<"SMPL2", "UNCORE_SMPL">>
                 [] OTHER -> <<"SMPL2", "CMT_SMPL">>

\* Fault: the end of a sampling is waited for as a status.
AskAny ==
  /\ cpc = "idle" /\ todo # <<>> /\ Head(todo) \in Tasks
  /\ TaskSet(Head(todo))
  /\ todo' = Tail(todo)
  /\ asked' = Head(todo)
  /\ cpc' = IF Head(todo) = "SMPL2" THEN "flag2" ELSE "asked"
  /\ UNCHANGED <<job, status, events, flag2, pages, unmade, smpl, hurt>>

Ask ==
  /\ cpc = "idle" /\ todo # <<>> /\ Head(todo) \in Tasks
  /\ TaskSet(Head(todo))
  /\ todo' = Tail(todo)
  /\ asked' = IF Head(todo) \in StatusTasks THEN Head(todo) ELSE None
  /\ cpc' = CASE Head(todo) \in StatusTasks -> "asked"
              [] Head(todo) = "SMPL2" -> "flag2"
              [] OTHER -> "idle"
  /\ UNCHANGED <<job, status, events, flag2, pages, unmade, smpl, hurt>>

\* perf_status_wait goes to sleep without a look at the status.
StatusWait ==
  /\ cpc = "asked"
  /\ cpc' = "wait"
  /\ UNCHANGED <<perfVars, asked, flag2, command, hurt>>

\* pthread_cond_timedwait returns ETIMEDOUT.
Expire ==
  /\ cpc = "wait"
  /\ cpc' = "expired"
  /\ UNCHANGED <<perfVars, asked, flag2, command, hurt>>

\* A condition variable wakes its sleeper for no reason.
Spurious ==
  /\ \/ cpc = "wait" /\ cpc' = "woken" /\ UNCHANGED ppc
     \/ cpc = "flag2_sleep" /\ cpc' = "flag2" /\ UNCHANGED ppc
     \/ ppc = "sleep" /\ ppc' = "test" /\ UNCHANGED cpc
  /\ UNCHANGED <<slot, job, status, events, asked, flag2, command, hurt>>

\* Neither the wanted status nor a failure, and time is left.
WaitAgain ==
  /\ cpc = "woken"
  /\ status \notin StatusFailed \union {Wanted[asked]}
  /\ cpc' = "wait"
  /\ UNCHANGED <<perfVars, asked, flag2, command, hurt>>

\* perf_status_wait returns.  When perf_init could not start the profiling,
\* the program ends; every other caller goes on.
Answer ==
  /\ cpc \in {"woken", "expired"}
  /\ \/ cpc = "expired"
     \/ status \in StatusFailed \union {Wanted[asked]}
  /\ LET ok == status = Wanted[asked]
     IN  /\ smpl' = (smpl \/ (ok /\ asked \in {"START", "LL_START"}))
         /\ cpc' = IF pages = <<>> /\ ~ok THEN "gone" ELSE "idle"
  /\ hurt' = (hurt \/ asked \in {slot, job})
  /\ asked' = None
  /\ UNCHANGED <<perfVars, flag2, pages, unmade, todo>>

\* disp_flag2_wait
Flag2Wait ==
  /\ cpc = "flag2"
  /\ cpc' = IF flag2 THEN "idle" ELSE "flag2_sleep"
  /\ flag2' = FALSE
  /\ UNCHANGED <<perfVars, asked, command, hurt>>

Top == pages[Len(pages)]
Below == SubSeq(pages, 1, Len(pages) - 1)

\* PAGE_WIN_TYPE: that of a page without a window is WIN_TYPE_RAW_NUM, whose
\* commands a plain page has too.
Type == IF Len(pages) \in unmade THEN "raw" ELSE Top

\* A step that looks at the status, or whether the process is measured yet,
\* before it asks for anything.
Resolve(s) ==
  CASE s = "leave_cmt" ->
         {IF status = "CMT" THEN <<"CMT_STOP", "sampled">> ELSE <<>>}
    [] s = "leave_uncore" ->
         {IF status = "UNCORE" THEN <<"UNCORE_STOP", "sampled">> ELSE <<>>}
    [] s = "restart" ->
         {IF status \notin ProfilingStarted THEN <<"STOP", "START">> ELSE <<>>}
    [] s = "to_ll" -> {IF status # "LL" THEN <<"STOP", "LL_START">> ELSE <<>>}
    [] s = "setup_cmt" -> {<<"CMT_START">>, <<>>}
    [] OTHER -> {<<>>}

Decide ==
  /\ cpc = "idle" /\ todo # <<>> /\ Head(todo) \notin Tasks \union {"show"}
  /\ \E steps \in Resolve(Head(todo)) : todo' = steps \o Tail(todo)
  /\ smpl' = (smpl \/ Head(todo) = "sampled")
  /\ UNCHANGED <<perfVars, cpc, asked, flag2, pages, unmade, hurt>>

\* page_show makes the window if there is none, and samples for the page if
\* need be; or the terminal is too small, the nodes cannot be refreshed or
\* the window cannot be made.
Show ==
  /\ cpc = "idle" /\ todo # <<>> /\ Head(todo) = "show"
  /\ \/ /\ unmade' = unmade \ {Len(pages)}
        /\ todo' = (IF smpl THEN Sampling(Top) ELSE <<>>) \o Tail(todo)
     \/ todo' = Tail(todo) /\ UNCHANGED unmade
  /\ smpl' = FALSE
  /\ UNCHANGED <<perfVars, cpc, asked, flag2, pages, hurt>>

\* The notification of a sampling shows the page again.
ShowLater ==
  /\ cpc = "idle" /\ todo = <<>>
  /\ Len(pages) \in unmade
  /\ unmade' = unmade \ {Len(pages)}
  /\ UNCHANGED <<perfVars, cpc, asked, flag2, pages, todo, smpl, hurt>>

(***************************************************************************)
(* The commands (the switch table of cmd.c)                                *)
(***************************************************************************)
ToProfiling == <<"leave_cmt", "leave_uncore", "restart", "show">>
LeaveCallChain == <<"RESTORE", "sampled", "show">>
SetupCmt == <<"CMT_STOP", "SMPL2", "setup_cmt", "show">>
Pause(k) == IF k = "part" THEN <<"PARTPAUSE">> ELSE <<"MULTIPAUSE">>

\* A command leads to a page of the list, or to a new page after the others.
To(p, steps) == [pages |-> p, new |-> FALSE, steps |-> steps]
New(p, k, steps) == [pages |-> Append(p, k), new |-> TRUE, steps |-> steps]
Push(k, steps) == New(pages, k, steps)

\* Fault: leaving the call-chain page for home is like leaving any other.
HomePlain == {New(<<>>, "plain", ToProfiling)}

Home == {New(<<>>, "plain", IF pages # <<>> /\ Type \in CallChain
                            THEN LeaveCallChain ELSE ToProfiling)}

\* The pages that can be opened from the current one.
Open ==
  CASE Type = "plain" -> {Push("plain", <<"show">>), Push("plain", ToProfiling),
                          Push(RmaPause, Pause(RmaPause) \o <<"sampled", "show">>),
                          Push("lat", <<"to_ll", "show">>),
                          Push("uncore", <<"SMPL2", "UNCORE_STOP",
                                           "UNCORE_START", "show">>),
                          Push("cmt", SetupCmt)}
    [] Type = "raw" -> {Push("plain", <<"show">>), Push("plain", ToProfiling)}
    [] Type = "lat" -> {Push("lldetail", <<"show">>)}
    [] Type = "cmt" -> {Push("plain", ToProfiling),
                        Push("mbm", <<"SMPL2", "CMT_STOP", "setup_cmt", "show">>)}
    [] Type \in {"uncore", "mbm"} -> {Push("plain", ToProfiling)}
    [] OTHER -> {}

\* The first page's window has no command that goes back.
Back ==
  IF Type = "raw" THEN {}
  ELSE {To(Below, CASE Type \in CallChain -> LeaveCallChain
                    [] Type \in {"lat", "uncore", "cmt"} -> ToProfiling
                    [] Type = "mbm" -> SetupCmt
                    [] OTHER -> <<"show">>)}

\* 'R', the refresh after 5 s, and the keys that choose an event.
Refresh ==
  {To(pages, IF Type = "raw" /\ Top = "cmt" THEN <<"SMPL2">> ELSE Sampling(Top))}
    \union IF Type \in CallChain
           THEN {To(Append(Below, k), Pause(k) \o <<"SMPL1">>) : k \in {"part", RmaPause}}
           ELSE {}

Commands == Home \union (IF pages = <<>> THEN {} ELSE Open \union Refresh)
                 \union (IF Len(pages) < 2 THEN {} ELSE Back)

\* The current page is left as if it were a plain one, and it is not.
Astray(c) == c.new /\ pages # <<>> /\ Type = "raw"

Execute ==
  /\ cpc = "idle" /\ todo = <<>>
  /\ \E c \in Commands :
       /\ Len(c.pages) <= MaxPages
       /\ pages' = c.pages
       /\ unmade' = (unmade \intersect 1..Len(c.pages))
                     \union {i \in {Len(c.pages)} : c.new /\ c.pages[i] # "plain"}
       /\ todo' = c.steps
       /\ hurt' = (hurt \/ Astray(c))
  /\ smpl' = FALSE
  /\ UNCHANGED <<perfVars, cpc, asked, flag2>>

\* perf_fini: ask the perf thread to quit, and join it.
Quit ==
  /\ cpc = "idle" /\ todo = <<>>
  /\ TaskSet("QUIT")
  /\ cpc' = "join"
  /\ UNCHANGED <<job, status, events, asked, flag2, command, hurt>>

Join ==
  /\ cpc = "join" /\ ppc = "gone"
  /\ cpc' = "gone"
  /\ UNCHANGED <<perfVars, asked, flag2, command, hurt>>

(***************************************************************************)
(* The perf thread                                                         *)
(***************************************************************************)
PerfTake ==
  /\ ppc = "test" /\ slot # None
  /\ job' = slot
  /\ slot' = None
  /\ ppc' = "work"
  /\ UNCHANGED <<status, events, cpc, asked, flag2, command, hurt>>

PerfSleep ==
  /\ ppc = "test" /\ slot = None
  /\ ppc' = "sleep"
  /\ UNCHANGED <<slot, job, status, events, cpc, asked, flag2, command, hurt>>

Finish(next) ==
  /\ ppc' = next
  /\ job' = IF next = "post" THEN job ELSE None
  /\ UNCHANGED <<slot, asked, command>>

\* perf_status_set signals status_cond.
StatusSet(s) ==
  /\ status' = s
  /\ cpc' = IF cpc = "wait" THEN "woken" ELSE cpc
  /\ UNCHANGED flag2

\* Fault: the load latency events are forgotten.
AfterStopProfiling ==
  [cpu    |-> IF status \in ProfilingStarted THEN "none" ELSE cpu,
   uncore |-> uncore /\ status # "UNCORE"]

\* os_allstop: what it closes depends on what the status says is open.
AfterStop ==
  [cpu    |-> IF status \in ProfilingStarted \union {"LL"} THEN "none" ELSE cpu,
   uncore |-> uncore /\ status # "UNCORE"]

\* os_allstop, and PERF_STATUS_IDLE.
DoStop ==
  /\ ppc = "work" /\ job = "STOP"
  /\ cpu' = AfterStop.cpu /\ uncore' = AfterStop.uncore
  /\ StatusSet("IDLE")
  /\ Finish("test")
  /\ UNCHANGED <<pause, leaked, hurt>>

\* os_profiling_start and os_ll_start: stop everything and set the events up
\* on every CPU, whatever their descriptors hold (cpu_init).  After a
\* failure the CPUs before the failing one stay set up; the perf thread
\* exits when the profiling cannot be started.
SetUp(t, for) ==
  /\ leaked' = (leaked \/ AfterStop.cpu # "none")
  /\ uncore' = AfterStop.uncore
  /\ \/ /\ cpu' = for
        /\ StatusSet(Wanted[t])
        /\ Finish("test")
        /\ UNCHANGED hurt
     \/ /\ cpu' \in {"none", for}
        /\ StatusSet(FailureOf[t])
        /\ Finish(IF t = "START" THEN "gone" ELSE "test")
        /\ hurt' = TRUE
  /\ UNCHANGED pause

DoStart ==
  /\ ppc = "work" /\ job = "START"
  /\ status \notin ProfilingStarted
  /\ SetUp("START", "profiling")

DoStarted ==
  /\ ppc = "work" /\ job = "START"
  /\ status \in ProfilingStarted
  /\ StatusSet("PROFILING")
  /\ Finish("test")
  /\ UNCHANGED <<events, hurt>>

DoLLStart ==
  /\ ppc = "work" /\ job = "LL_START"
  /\ SetUp("LL_START", "ll")

\* os_profiling_partpause, _multipause, _restore and _multi_restore
DoPause ==
  /\ ppc = "work" /\ job \in {"PARTPAUSE", "MULTIPAUSE", "RESTORE"}
  /\ pause' = (job # "RESTORE")
  /\ StatusSet(Wanted[job])
  /\ Finish("test")
  /\ UNCHANGED <<cpu, uncore, leaked, hurt>>

\* os_pqos_cmt_start; stopping frees nothing.
DoCmt ==
  /\ ppc = "work" /\ job \in {"CMT_START", "CMT_STOP"}
  /\ \/ StatusSet(Wanted[job]) /\ UNCHANGED hurt
     \/ job = "CMT_START" /\ StatusSet(FailureOf[job]) /\ hurt' = TRUE
  /\ Finish("test")
  /\ UNCHANGED events

\* os_uncore_start frees what it has set up when it fails.
DoUncoreStart ==
  /\ ppc = "work" /\ job = "UNCORE_START"
  /\ leaked' = (leaked \/ uncore)
  /\ \/ uncore' = TRUE /\ StatusSet("UNCORE") /\ UNCHANGED hurt
     \/ uncore' = FALSE /\ StatusSet(FailureOf[job]) /\ hurt' = TRUE
  /\ Finish("test")
  /\ UNCHANGED <<cpu, pause>>

\* Fault: the status is not set.
DoUncoreStopQuiet ==
  /\ ppc = "work" /\ job = "UNCORE_STOP"
  /\ uncore' = FALSE
  /\ Finish("test")
  /\ UNCHANGED <<status, cpc, flag2, cpu, pause, leaked, hurt>>

DoUncoreStop ==
  /\ ppc = "work" /\ job = "UNCORE_STOP"
  /\ uncore' = FALSE
  /\ StatusSet("PROFILING")
  /\ Finish("test")
  /\ UNCHANGED <<cpu, pause, leaked, hurt>>

\* The samplings end in disp_*_data_ready or disp_*_data_fail; that of the
\* latencies does nothing at all when the status is another one, nor does
\* that of a node that is gone.
DoSample ==
  /\ ppc = "work" /\ job \in SampleTasks
  /\ \/ (job = "LL_SMPL" => status = "LL") /\ Finish("post")
     \/ job = "LL_SMPL" /\ status # "LL" /\ Finish("test")
     \/ job = "UNCORE_SMPL" /\ Finish("test")
  /\ UNCHANGED <<status, events, cpc, flag2, hurt>>

\* Fault: cond2 is not signalled.
DoSample2Silent ==
  /\ ppc = "work" /\ job = "SMPL2"
  /\ flag2' = TRUE
  /\ Finish("test")
  /\ UNCHANGED <<cpc, status, events, hurt>>

\* disp_flag2_set
DoSample2 ==
  /\ ppc = "work" /\ job = "SMPL2"
  /\ flag2' = TRUE
  /\ cpc' = IF cpc = "flag2_sleep" THEN "flag2" ELSE cpc
  /\ Finish("test")
  /\ UNCHANGED <<status, events, hurt>>

DoQuit ==
  /\ ppc = "work" /\ job = "QUIT"
  /\ cpu' = AfterStop.cpu /\ uncore' = AfterStop.uncore
  /\ Finish("gone")
  /\ UNCHANGED <<status, pause, leaked, cpc, flag2, hurt>>

\* The disp thread's mailbox has taken the notification.  It need not: when
\* another notification is in it, the perf thread spins until the disp thread
\* has taken that one, which may itself be waiting for the perf thread.
Posted ==
  /\ ppc = "post"
  /\ Finish("test")
  /\ UNCHANGED <<status, events, cpc, flag2, hurt>>

(***************************************************************************)
(* The specification                                                       *)
(***************************************************************************)
PerfDo == \/ DoStop \/ DoStart \/ DoStarted \/ DoLLStart \/ DoPause \/ DoCmt
          \/ DoUncoreStart \/ DoUncoreStop \/ DoSample \/ DoSample2 \/ DoQuit

ClientStep == Ask \/ StatusWait \/ WaitAgain \/ Answer \/ Flag2Wait \/ Decide
              \/ Show \/ Join

Next ==
  \/ ClientStep \/ ShowLater \/ Expire \/ Spurious \/ Execute \/ Quit
  \/ PerfTake \/ PerfSleep \/ PerfDo \/ Posted

Spec == Init /\ [][Next]_vars

\* Both threads run and the 60 s pass.  Nobody need wake up without a reason,
\* no command need come, and no notification need be taken.
Fairness ==
  /\ WF_vars(ClientStep)
  /\ WF_vars(PerfTake \/ PerfDo)
  /\ SF_vars(Expire)

FairSpec == Spec /\ Fairness

(***************************************************************************)
(* Properties                                                              *)
(***************************************************************************)

\* The perf thread never sleeps on cond with a task in the slot: no call of
\* perf_task_set is lost on it.
TaskNoticed == ppc = "sleep" => slot = None

\* The status that makes the callers skip a set-up is true: whatever failed,
\* came late or was replaced, it names events that are open, until the
\* perf thread exits.
StatusHonest ==
  ppc # "gone" => /\ status = "LL" => cpu = "ll"
                  /\ status = "UNCORE" => uncore

\* Unless something failed or came late, or a page was left astray (hurt), no
\* set of open events is forgotten by setting up another one over it.
NothingLeaked == leaked => hurt

\* Unless something failed or came late, or a page was left astray (hurt), the
\* events fit the page when a command is done, shown or not: load latency for
\* the latency pages, else profiling, with samples accounted everywhere but on
\* the call-chain page.
EventsFitPage ==
  cpc = "idle" /\ todo = <<>> /\ pages # <<>> /\ ~hurt =>
    /\ cpu = IF Top \in {"lat", "lldetail"} THEN "ll" ELSE "profiling"
    /\ pause <=> Top \in CallChain
    /\ uncore => Top = "uncore"

\* The two waits that have no deadline end: the one for flag2 (disp_flag2_wait),
\* unless the perf thread has exited, and the one of perf_fini for the exit of
\* the perf thread.  Neither ends while the perf thread spins to post, and it
\* may do so for ever: the disp thread that waits empties no mailbox.
WaitsEnd ==
  LET Waiting == cpc \in {"flag2", "flag2_sleep", "join"}
  IN  Waiting ~> \/ ~Waiting
                 \/ [](ppc = "gone" /\ cpc # "join")
                 \/ [](ppc = "post")
=============================================================================
