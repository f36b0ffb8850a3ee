------------------------------- MODULE Numatop -------------------------------
(***************************************************************************)
(* The threads of numatop and how they start, work together and stop       *)
(* (common/numatop.c, disp.c, perf.c):                                     *)
(*                                                                         *)
(*   main  starts the others, joins the disp thread and then the cons      *)
(*         thread; the signal handler Sig runs on top of it;               *)
(*   Cons  waits for stdin and for the pipe, and tells the disp thread;    *)
(*   disp  executes commands and draws pages; for counters and samples it  *)
(*         asks the perf thread;                                           *)
(*   Perf  performs one task after the other and tells the disp thread     *)
(*         when a sample is ready.                                         *)
(*                                                                         *)
(* The mailbox is DispMailbox with each critical section as one step; the  *)
(* task slot and the status are those of PerfCtl.  What the tasks do to    *)
(* the counters is left to other modules, and so are their failures, but   *)
(* for those the disp thread answers with a HOME it posts to itself.       *)
(***************************************************************************)
EXTENDS Naturals, Sequences

CONSTANTS Cons, Perf, Sig, Self,   (* the posters; Self is the disp thread *)
          Keys,                    (* the keys the user may hit            *)
          MaxKeys, MaxSignals, MaxResizes,  (* bounds on the environment   *)
          None

Posters == {Cons, Perf, Sig, Self}
Commands == {"HOME", "RESIZE", "QUIT"}
\* SAMPLED stands for the four *_DATA_READY / CMT_READY and the four
\* *_DATA_FAIL / CMT_FAIL flags, which end a sampling.
Messages == Commands \union {"SAMPLED", "GETCH"}
Pages == {"home", "moni", "lat", "overview", "node"}

\* perf_taskid_t: the tasks whose issuer waits for a status, the samplings
\* that end with a notification, the one that answers through flag2.
StatusTasks == {"STOP", "START", "LL_START", "UNCORE_STOP", "UNCORE_START"}
SampleTasks == {"SMPL1", "LL_SMPL", "UNCORE_SMPL"}
Tasks == StatusTasks \union SampleTasks \union {"SMPL2", "QUIT"}

ASSUME NumatopAssumption ==
  /\ Cons # Perf /\ Cons # Sig /\ Perf # Sig /\ Self \notin {Cons, Perf, Sig}
  /\ MaxKeys \in Nat /\ MaxSignals \in Nat /\ MaxResizes \in Nat
  /\ None \notin Messages \union Tasks \union {"gone"}

\* perf_status_t: what each task sets, and its issuer waits for.
Status == [t \in StatusTasks |->
             CASE t = "STOP"         -> "IDLE"
               [] t = "LL_START"     -> "LL"
               [] t = "UNCORE_START" -> "UNCORE"
               [] OTHER              -> "PROFILING"]

\* What a command has still to do (todo) is tasks to ask for, and "to_profiling",
\* "restart", "to_ll" and "show": the parts of os_preop_switch2profiling,
\* os_preop_switch2ll and op_page_next that look at the status first.

VARIABLES
  main,      (* where the main thread is                                   *)
  cons,      (* where the cons thread is                                   *)
  post,      (* the message each poster spins with, or None                *)
  flag, cmd, (* s_disp_ctl.flag and s_disp_ctl.cmd                         *)
  stdin,     (* the keys nobody has read yet                               *)
  pipe,      (* s_cons_ctl.pipe                                            *)
  disp,      (* where the disp thread is                                   *)
  page,      (* the current page, or None                                  *)
  todo,      (* the steps the current command has still to make            *)
  smpl,      (* boolean smpl of cmd_execute                                *)
  asked,     (* the task the disp thread waits for, or None                *)
  slot,      (* s_perf_ctl.task                                            *)
  job,       (* what the perf thread works on: a task, None or "gone"      *)
  status,    (* s_perf_ctl.status                                          *)
  told,      (* the status was set since the disp thread asked for one     *)
  flag2,     (* s_disp_ctl.flag2 is set                                    *)
  late,      (* a signal came after disp_fini had destroyed the mailbox    *)
  spent      (* [keys, signals, resizes]: how many the environment sent    *)

mailbox == <<flag, cmd, post>>
input == <<stdin, pipe, spent>>
dispVars == <<disp, page, todo, smpl, asked>>
perfVars == <<slot, job, status, told, flag2>>
vars == <<main, cons, mailbox, input, dispVars, perfVars, late>>

\* perf_init has started the perf thread and the counters.
Init ==
  /\ main = "init" /\ cons = "none" /\ disp = "none"
  /\ post = [p \in Posters |-> None]
  /\ flag = "NONE" /\ cmd = None
  /\ stdin = <<>> /\ pipe = <<>>
  /\ page = None /\ todo = <<>> /\ smpl = FALSE /\ asked = None
  /\ slot = None /\ job = None /\ status = "PROFILING" /\ told = FALSE
  /\ flag2 = FALSE /\ late = FALSE
  /\ spent = [keys |-> 0, signals |-> 0, resizes |-> 0]

(***************************************************************************)
(* The mailbox                                                             *)
(***************************************************************************)
FlagOf(m) == IF m \in Commands THEN "CMD" ELSE m

\* A poster takes the mutex and writes its command; it sets the flag if the
\* flag is NONE, else it spins.
Post(p, m) ==
  /\ cmd' = IF m \in Commands THEN m ELSE cmd
  /\ IF flag = "NONE" THEN flag' = FlagOf(m) /\ UNCHANGED post
     ELSE post' = [post EXCEPT ![p] = m] /\ UNCHANGED flag

\* A spinning poster finds the flag NONE; its command is long written.
Deliver(p) ==
  /\ post[p] # None
  /\ flag = "NONE"
  /\ flag' = FlagOf(post[p])
  /\ post' = [post EXCEPT ![p] = None]
  /\ UNCHANGED <<main, cons, cmd, input, dispVars, perfVars, late>>

(***************************************************************************)
(* The environment                                                         *)
(***************************************************************************)
\* The handlers stay installed until the process is gone.
Running == main \notin {"exit", "killed"}

TypeKey(k) ==
  /\ Running
  /\ spent.keys < MaxKeys
  /\ spent' = [spent EXCEPT !.keys = @ + 1]
  /\ stdin' = Append(stdin, k)
  /\ UNCHANGED <<main, cons, mailbox, pipe, dispVars, perfVars, late>>

\* sigint_handler, on the main thread.  After disp_fini the mutex and the
\* condition variable it uses are destroyed: late remembers it.  Locking the
\* one fails and signalling the other wakes nobody; the flag is set all the
\* same, or waited for.
Signal ==
  /\ Running
  /\ spent.signals < MaxSignals
  /\ post[Sig] = None
  /\ spent' = [spent EXCEPT !.signals = @ + 1]
  /\ Post(Sig, "QUIT")
  /\ late' = (late \/ main = "over")
  /\ UNCHANGED <<main, cons, stdin, pipe, dispVars, perfVars>>

\* disp_on_resize, the handler of SIGWINCH.
Winch ==
  /\ Running /\ disp # "none"
  /\ spent.resizes < MaxResizes
  /\ spent' = [spent EXCEPT !.resizes = @ + 1]
  /\ pipe' = Append(pipe, "r")
  /\ UNCHANGED <<main, cons, mailbox, stdin, dispVars, perfVars, late>>

(***************************************************************************)
(* The main thread                                                         *)
(***************************************************************************)

\* disp_init: disp_ctl_init clears the mailbox and disp_start starts the disp
\* and the cons thread.
StartDisp ==
  /\ main = "init" /\ post[Sig] = None
  /\ main' = "disp"
  /\ flag' = "NONE" /\ cmd' = None
  /\ disp' = "start" /\ cons' = "start"
  /\ UNCHANGED <<post, input, page, todo, smpl, asked, perfVars, late>>

\* disp_dispthr_quit_wait returns; disp_consthr_quit writes to the pipe.
JoinDisp ==
  /\ main = "disp" /\ post[Sig] = None
  /\ disp = "gone"
  /\ main' = "cons"
  /\ pipe' = Append(pipe, "q")
  /\ UNCHANGED <<cons, mailbox, stdin, spent, dispVars, perfVars, late>>

\* disp_consthr_quit returns and disp_fini destroys the mailbox.
JoinCons ==
  /\ main = "cons" /\ post[Sig] = None
  /\ cons = "gone"
  /\ main' = "over"
  /\ UNCHANGED <<cons, mailbox, input, dispVars, perfVars, late>>

\* The rest of main: it frees what is left and returns.
Return ==
  /\ main = "over" /\ post[Sig] = None
  /\ main' = "exit"
  /\ UNCHANGED <<cons, mailbox, input, dispVars, perfVars, late>>

(***************************************************************************)
(* The cons thread                                                         *)
(***************************************************************************)
ConsHome ==
  /\ cons = "start"
  /\ cons' = "run"
  /\ Post(Cons, "HOME")
  /\ UNCHANGED <<main, input, dispVars, perfVars, late>>

\* select finds the pipe readable.
ConsPipe ==
  /\ cons = "run" /\ post[Cons] = None
  /\ pipe # <<>>
  /\ pipe' = Tail(pipe)
  /\ IF Head(pipe) = "q"
     THEN cons' = "gone" /\ UNCHANGED mailbox
     ELSE Post(Cons, "RESIZE") /\ UNCHANGED cons
  /\ UNCHANGED <<main, stdin, spent, dispVars, perfVars, late>>

\* select finds stdin readable; the key is left for the disp thread to read.
ConsStdin ==
  /\ cons = "run" /\ post[Cons] = None
  /\ pipe = <<>> /\ stdin # <<>>
  /\ Post(Cons, "GETCH")
  /\ UNCHANGED <<main, cons, input, dispVars, perfVars, late>>

(***************************************************************************)
(* The disp thread                                                         *)
(***************************************************************************)

\* reg_curses_init succeeds and consthr_init_wait sees the first command, or
\* one of them fails.
DispStart ==
  /\ disp = "start"
  /\ \/ flag = "CMD" /\ disp' = "loop"
     \/ disp' = "fini"
  /\ UNCHANGED <<main, cons, mailbox, input, page, todo, smpl, asked, perfVars, late>>

\* os_page_smpl_start: how the data of a page are sampled.
Sampling(p) == IF p = "lat" THEN <<"LL_SMPL">>
               ELSE IF p = "node" THEN <<"SMPL2", "UNCORE_SMPL">>
               ELSE <<"SMPL1">>

\* cmd_execute: the page a command leads to and what it takes to get there.
Command(c) ==
  CASE c \in {"HOME", "h"} -> [to |-> "home", steps |-> <<"to_profiling", "show">>]
    [] c \in {"RESIZE", "r"} -> [to |-> page, steps |-> Sampling(page)]
    [] c = "n" /\ page \notin {"lat", "overview"} ->
         [to |-> "overview", steps |-> <<"to_profiling", "show">>]
    [] c = "l" /\ page = "moni" -> [to |-> "lat", steps |-> <<"to_ll", "show">>]
    [] c = "enter" /\ page = "home" -> [to |-> "moni", steps |-> <<"show">>]
    [] c = "enter" /\ page = "overview" ->
         [to |-> "node",
          steps |-> <<"SMPL2", "UNCORE_STOP", "UNCORE_START", "show">>]
    [] OTHER -> [to |-> page, steps |-> <<>>]

\* 'q' and QUIT leave the loop.
Execute(c) ==
  /\ smpl' = FALSE
  /\ IF c \in {"QUIT", "q"} THEN disp' = "fini" /\ UNCHANGED <<page, todo>>
     ELSE /\ disp' = "run"
          /\ page' = Command(c).to
          /\ todo' = Command(c).steps

\* RESIZE before there is a page (it was written over HOME): op_refresh hands
\* os_page_smpl_start a NULL page, and the process is killed.
Unwell == flag = "CMD" /\ cmd = "RESIZE" /\ page = None

DispKilled ==
  /\ disp = "loop" /\ Unwell
  /\ main' = "killed" /\ cons' = "gone" /\ disp' = "gone" /\ job' = "gone"
  /\ flag' = "NONE"
  /\ post' = [p \in Posters |-> None]
  /\ UNCHANGED <<cmd, input, page, todo, smpl, asked, slot, status, told, flag2, late>>

\* The page is shown and the command is over, or its process is gone and
\* win_invalid_proc goes home, as the disp thread does when a sampling failed.
Draw == disp' \in {"loop", "home"}

\* Fault: the flag GETCH is taken, and the key not read.
DispTakeKeyless ==
  /\ disp = "loop"
  /\ flag # "NONE" /\ ~Unwell
  /\ flag' = "NONE"
  /\ \/ flag = "CMD" /\ Execute(cmd)
     \/ flag # "CMD" /\ UNCHANGED <<disp, page, todo, smpl>>
  /\ UNCHANGED <<main, cons, cmd, post, input, asked, perfVars, late>>

\* disp_handler takes the flag.
DispTake ==
  /\ disp = "loop"
  /\ flag # "NONE" /\ ~Unwell
  /\ flag' = "NONE"
  /\ \/ flag = "CMD" /\ Execute(cmd)
     \/ flag = "SAMPLED" /\ Draw /\ UNCHANGED <<page, todo, smpl>>
     \/ flag = "GETCH" /\ disp' = "getch" /\ UNCHANGED <<page, todo, smpl>>
  /\ UNCHANGED <<main, cons, cmd, post, input, asked, perfVars, late>>

\* disp_go_home of the disp thread itself: if another notification has come
\* since it took the last one, it waits for ever, as only it takes any.
DispGoHome ==
  /\ disp = "home"
  /\ Post(Self, "HOME")
  /\ disp' = IF flag = "NONE" THEN "loop" ELSE "self"
  /\ UNCHANGED <<main, cons, input, page, todo, smpl, asked, perfVars, late>>

\* The wait for a flag times out: refresh the page, if there is one.
DispTimeout ==
  /\ disp = "loop"
  /\ flag = "NONE" /\ page # None
  /\ Execute("r")
  /\ UNCHANGED <<main, cons, mailbox, input, asked, perfVars, late>>

\* handle_getch: getch() blocks until there is a key.
Getch ==
  /\ disp = "getch"
  /\ stdin # <<>>
  /\ stdin' = Tail(stdin)
  /\ Execute(Head(stdin))
  /\ UNCHANGED <<main, cons, mailbox, pipe, spent, asked, perfVars, late>>

\* One step of a command that looks at the status.  Showing a page that need
\* not be sampled first is drawing it.
DispDecide ==
  /\ disp = "run"
  /\ todo # <<>> /\ Head(todo) \notin Tasks
  /\ todo' = (CASE Head(todo) = "to_profiling" ->
                      IF status = "UNCORE" THEN <<"UNCORE_STOP", "restart">>
                                           ELSE <<"restart">>
                 [] Head(todo) = "restart" ->
                      IF status # "PROFILING" THEN <<"STOP", "START">> ELSE <<>>
                 [] Head(todo) = "to_ll" ->
                      IF status # "LL" THEN <<"STOP", "LL_START">> ELSE <<>>
                 [] Head(todo) = "show" ->
                      IF smpl THEN Sampling(page) ELSE <<>>)
             \o Tail(todo)
  /\ IF Head(todo) = "show" /\ ~smpl THEN Draw ELSE UNCHANGED disp
  /\ UNCHANGED <<main, cons, mailbox, input, page, smpl, asked, perfVars, late>>

\* perf_task_set, and the wait for the answer if the task has one.
DispAsk ==
  /\ disp = "run"
  /\ todo # <<>> /\ Head(todo) \in Tasks
  /\ slot' = Head(todo)
  /\ todo' = Tail(todo)
  /\ \/ /\ Head(todo) \in StatusTasks
        /\ disp' = "status" /\ asked' = Head(todo) /\ told' = FALSE
     \/ /\ Head(todo) = "SMPL2"
        /\ disp' = "flag2" /\ UNCHANGED <<asked, told>>
     \/ /\ Head(todo) \in SampleTasks
        /\ UNCHANGED <<disp, asked, told>>
  /\ UNCHANGED <<main, cons, mailbox, input, page, smpl, job, status, flag2,
                 late>>

LeavesNode == asked = "UNCORE_STOP" /\ page # "node"

\* perf_status_wait returns: with the status it waits for, or after 60 s.
\* A page that needs other counters is sampled, if they could be started.
DispAnswer ==
  /\ disp = "status"
  /\ disp' = "run" /\ asked' = None /\ told' = FALSE
  /\ \/ /\ told /\ status = Status[asked]
        /\ smpl' = (smpl \/ asked \in {"START", "LL_START"} \/ LeavesNode)
     \/ smpl' = (smpl \/ LeavesNode)
  /\ UNCHANGED <<main, cons, mailbox, input, page, todo, slot, job, status,
                 flag2, late>>

\* Fault: flag2 is not reset.
DispFlag2Kept ==
  /\ disp = "flag2" /\ flag2
  /\ disp' = "run"
  /\ UNCHANGED <<main, cons, mailbox, input, page, todo, smpl, asked, perfVars, late>>

\* disp_flag2_wait returns.
DispFlag2 ==
  /\ disp = "flag2" /\ flag2
  /\ flag2' = FALSE
  /\ disp' = "run"
  /\ UNCHANGED <<main, cons, mailbox, input, page, todo, smpl, asked, slot, job,
                 status, told, late>>

\* The command is done.
DispDone ==
  /\ disp = "run" /\ todo = <<>>
  /\ disp' = "loop" /\ smpl' = FALSE
  /\ UNCHANGED <<main, cons, mailbox, input, page, todo, asked, perfVars, late>>

\* L_EXIT: the pages are freed and perfthr_quit_wait asks the perf thread to
\* quit.
DispFini ==
  /\ disp = "fini"
  /\ disp' = "join"
  /\ page' = None
  /\ slot' = "QUIT"
  /\ UNCHANGED <<main, cons, mailbox, input, todo, smpl, asked, job, status, told,
                 flag2, late>>

\* Fault: the perf thread is not joined.
DispExitAtOnce ==
  /\ disp = "join"
  /\ disp' = "gone"
  /\ flag' = "NONE"
  /\ UNCHANGED <<main, cons, cmd, post, input, page, todo, smpl, asked, perfVars, late>>

\* perf_fini returns when the perf thread has exited.
DispExit ==
  /\ disp = "join" /\ job = "gone"
  /\ disp' = "gone"
  /\ flag' = "NONE"
  /\ UNCHANGED <<main, cons, cmd, post, input, page, todo, smpl, asked, perfVars, late>>

(***************************************************************************)
(* The perf thread                                                         *)
(***************************************************************************)
PerfTake ==
  /\ job = None /\ post[Perf] = None
  /\ slot # None
  /\ job' = slot
  /\ slot' = None
  /\ UNCHANGED <<main, cons, mailbox, input, dispVars, status, told, flag2, late>>

PerfDo ==
  /\ job \in Tasks
  /\ job' = IF job = "QUIT" THEN "gone" ELSE None
  /\ IF job \in SampleTasks THEN Post(Perf, "SAMPLED") ELSE UNCHANGED mailbox
  /\ IF job \in StatusTasks THEN status' = Status[job] /\ told' = (asked # None)
                            ELSE UNCHANGED <<status, told>>
  /\ flag2' = (flag2 \/ job = "SMPL2")
  /\ UNCHANGED <<main, cons, input, dispVars, slot, late>>

(***************************************************************************)
(* The specification                                                       *)
(***************************************************************************)
MainStep == StartDisp \/ JoinDisp \/ JoinCons \/ Return
ConsStep == ConsHome \/ ConsPipe \/ ConsStdin
DispStep == \/ DispStart \/ DispKilled \/ DispTake \/ DispGoHome
            \/ DispTimeout \/ Getch \/ DispDecide
            \/ DispAsk \/ DispAnswer \/ DispFlag2 \/ DispDone
            \/ DispFini \/ DispExit
PerfStep == PerfTake \/ PerfDo
Environment == Signal \/ Winch \/ \E k \in Keys : TypeKey(k)

Next ==
  \/ MainStep \/ ConsStep \/ DispStep \/ PerfStep
  \/ \E p \in Posters : Deliver(p)
  \/ Environment

Spec == Init /\ [][Next]_vars

\* Every thread that can run does; the clock runs, so waits with a deadline
\* end; a poster that spins gets its turn.  Keys and signals need not come.
Fairness ==
  /\ WF_vars(MainStep) /\ WF_vars(ConsStep) /\ WF_vars(PerfStep)
  /\ WF_vars(DispStep)
  /\ \A p \in Posters : SF_vars(Deliver(p))

FairSpec == Spec /\ Fairness

(***************************************************************************)
(* Properties                                                              *)
(***************************************************************************)

\* What a thread still uses is not torn down: the disp thread frees the
\* sample buffers (os_perf_fini) after the perf thread has exited, and main
\* destroys the mailbox (disp_fini) when nobody is posting to it.  The threads
\* are gone then; the signal handler is not, and a signal before the process
\* ends uses what is destroyed (late).
Teardown ==
  /\ disp = "gone" => job = "gone" /\ post[Perf] = None
  /\ main \in {"over", "exit"} =>
       /\ disp = "gone" /\ cons = "gone"
       /\ \A p \in {Cons, Perf, Self} : post[p] = None
       /\ post[Sig] # None => late

\* flag2 has no owner: an answer left in it would end a later wait before
\* its sample is taken.  It is set for the one who waits, and nobody waits
\* unless exactly one of the task, the work and the answer is on its way.
Flag2Exact ==
  LET onTheWay == {slot = "SMPL2", job = "SMPL2", flag2}
  IN  /\ disp = "flag2" <=> TRUE \in onTheWay
      /\ ~(slot = "SMPL2" /\ job = "SMPL2")
      /\ flag2 => slot # "SMPL2" /\ job # "SMPL2"

\* Every key is read, whatever the disp thread asks of the perf thread, unless
\* it blocks for good: in the wait for flag2, which has no deadline, waiting
\* for itself to take the HOME it posts, or on its way out.
KeysRead ==
  stdin # <<>> ~> \/ stdin = <<>>
                  \/ [](disp \in {"flag2", "self", "fini", "join", "gone"})

\* perf_fini "let[s] the perf thread exit first", and returns.
PerfExits == disp = "join" ~> disp = "gone"
=============================================================================
