----------------------------- MODULE DispMailbox -----------------------------
(***************************************************************************)
(* The mailbox through which every other thread talks to the disp thread   *)
(* (common/disp.c, struct s_disp_ctl): a flag, the command that goes with  *)
(* the flag CMD, a mutex and a condition variable.                         *)
(*                                                                         *)
(* A poster takes the mutex, writes its command, and waits until the flag  *)
(* is NONE by giving the mutex up, sleeping and taking it again; then it   *)
(* sets the flag and signals.  The disp thread sleeps on the condition     *)
(* variable with a deadline, copies the flag and the command, resets the   *)
(* flag and works on what it took with the mutex free.                     *)
(*                                                                         *)
(* Two posters have no thread of their own: Sig, the signal handler, runs  *)
(* on top of the thread the signal is delivered to and stops it until the  *)
(* handler returns, and Self is the disp thread itself, which posts a HOME *)
(* command when the data it was going to show is not there.                *)
(***************************************************************************)
CONSTANTS Posters,   (* Cons, Perf, Sig, Self: whoever posts               *)
          Cons,      (* the cons thread                                    *)
          Perf,      (* the perf thread                                    *)
          Sig,       (* the poster that is the signal handler              *)
          Self,      (* the poster that is the disp thread                 *)
          Disp,      (* the disp thread, as an owner of the mutex          *)
          Hosts,     (* the threads a signal may be delivered to           *)
          Commands,  (* what s_disp_ctl.cmd may be                         *)
          Messages,  (* Messages[p]: the [flag, cmd] records p may post    *)
          Home,      (* the message of disp_go_home                        *)
          NoThread, NoCmd

NoFlag == "NONE"
\* READY and FAIL stand for the four *_DATA_READY / CMT_READY and the four
\* *_DATA_FAIL / CMT_FAIL flags, which disp.c treats alike.
Flags == {"CMD", "READY", "FAIL", "GETCH"}

Message == [flag : Flags, cmd : Commands \union {NoCmd}]

NoMessage == [flag |-> NoFlag, cmd |-> NoCmd]

Nothing == [flag |-> NoFlag, cmd |-> NoCmd, sent |-> NoCmd]

ASSUME ThreadAssumption ==
  /\ Cons \in Posters /\ Perf \in Posters
  /\ Cons # Sig /\ Cons # Self /\ Sig # Self
  /\ Perf \notin {Cons, Sig, Self}
  /\ Disp \notin Posters
  /\ NoThread \notin Posters \union Hosts \union {Disp}

ASSUME MessagesAssumption ==
  /\ Messages \in [Posters -> SUBSET Message]
  /\ Home \in Message

VARIABLES
  mutex,    (* owner of s_disp_ctl.mutex, or NoThread                      *)
  flag,     (* s_disp_ctl.flag                                             *)
  cmd,      (* s_disp_ctl.cmd                                              *)
  pc,       (* where each poster is                                        *)
  msg,      (* the message each poster is posting                          *)
  host,     (* the thread the signal handler runs on, or NoThread          *)
  dpc,      (* where the disp thread is                                    *)
  expired,  (* status == ETIMEDOUT in the disp thread's last wait          *)
  got,      (* what the disp thread works on: the flag and the command it  *)
            (* took, and what the command was when it was sent             *)
  sent      (* history: the command sent with the flag in the mailbox      *)

vars == <<mutex, flag, cmd, pc, msg, host, dpc, expired, got, sent>>

PosterStates == {"idle", "enter", "test", "spin", "leave"}
DispStates == {"init", "init_test", "init_sleep", "init_wake",
               "loop", "test", "sleep", "wake",
               "work", "getch", "flag2", "home", "exit", "done"}

TypeOK ==
  /\ mutex \in Posters \union {Disp, NoThread}
  /\ flag \in Flags \union {NoFlag}
  /\ cmd \in Commands \union {NoCmd}
  /\ pc \in [Posters -> PosterStates]
  /\ msg \in [Posters -> Message \union {NoMessage}]
  /\ host \in Hosts \union {NoThread}
  /\ dpc \in DispStates
  /\ expired \in BOOLEAN
  /\ got \in [flag : Flags \union {NoFlag}, cmd : Commands \union {NoCmd},
             sent : Commands \union {NoCmd}]
  /\ sent \in Commands \union {NoCmd}

\* cons_handler begins with disp_go_home.
Init ==
  /\ mutex = NoThread
  /\ flag = NoFlag
  /\ cmd = NoCmd
  /\ pc = [p \in Posters |-> IF p = Cons THEN "enter" ELSE "idle"]
  /\ msg = [p \in Posters |-> IF p = Cons THEN Home ELSE NoMessage]
  /\ host = NoThread
  /\ dpc = "init"
  /\ expired = FALSE
  /\ got = Nothing
  /\ sent = NoCmd

\* A thread runs unless the signal handler has interrupted it; the disp
\* thread posting to itself is the disp thread.
Runs(t) == host # t /\ (t = Self => host # Disp)

Move(p, from, to) == pc[p] = from /\ pc' = [pc EXCEPT ![p] = to]

MoveDisp(from, to) == dpc = from /\ dpc' = to

dispVars == <<dpc, expired, got>>

(***************************************************************************)
(* Posters                                                                 *)
(***************************************************************************)
Begin(p, m) == Move(p, "idle", "enter") /\ msg' = [msg EXCEPT ![p] = m]

\* The cons thread and the perf thread call a disp_* function; the perf
\* thread has nothing to post before the disp thread is in its main loop,
\* and the disp thread outlives it.
Post(p) ==
  /\ p \notin {Sig, Self}
  /\ p = Perf => dpc \notin {"init", "init_test", "init_sleep", "init_wake",
                            "done"}
  /\ Runs(p)
  /\ \E m \in Messages[p] : Begin(p, m)
  /\ UNCHANGED <<mutex, flag, cmd, host, dispVars, sent>>

\* sigint_handler: a signal reaches thread t, which stops until it returns.
Interrupt(t) ==
  /\ host = NoThread
  /\ t \in {Disp, Perf} => dpc # "done"
  /\ Sig \in Posters
  /\ \E m \in Messages[Sig] : Begin(Sig, m)
  /\ host' = t
  /\ UNCHANGED <<mutex, flag, cmd, dispVars, sent>>

\* disp_go_home, disp_*_data_ready, disp_dispthr_quit_start, cons_handler:
\* take the mutex and write the command, before knowing that the flag is NONE.
Enter(p) ==
  /\ Runs(p)
  /\ mutex = NoThread
  /\ Move(p, "enter", "test")
  /\ mutex' = p
  /\ cmd' = IF msg[p].flag = "CMD" THEN msg[p].cmd ELSE cmd
  /\ UNCHANGED <<flag, msg, host, dispVars, sent>>

\* dispthr_flagset_nolock: the last notification is still there.
Spin(p) ==
  /\ Runs(p)
  /\ flag # NoFlag
  /\ Move(p, "test", "spin")
  /\ mutex' = NoThread
  /\ UNCHANGED <<flag, cmd, msg, host, dispVars, sent>>

\* Fault: the mutex is not taken again after the sleep.
RetryUnlocked(p) ==
  /\ Runs(p)
  /\ Move(p, "spin", "test")
  /\ UNCHANGED <<mutex, flag, cmd, msg, host, dispVars, sent>>

\* Back from usleep(1).
Retry(p) ==
  /\ Runs(p)
  /\ mutex = NoThread
  /\ Move(p, "spin", "test")
  /\ mutex' = p
  /\ UNCHANGED <<flag, cmd, msg, host, dispVars, sent>>

\* Fault: pthread_cond_signal is forgotten.
SignalledNot == dpc

\* Fault: the notification is set whatever the mailbox holds.
SetFlagAtOnce(p) ==
  /\ Runs(p)
  /\ Move(p, "test", "leave")
  /\ flag' = msg[p].flag
  /\ sent' = msg[p].cmd
  /\ dpc' = IF dpc = "sleep" THEN "wake"
            ELSE IF dpc = "init_sleep" THEN "init_wake" ELSE dpc
  /\ UNCHANGED <<mutex, cmd, msg, host, expired, got>>

\* pthread_cond_signal wakes the disp thread if it sleeps.
Signalled == IF dpc = "sleep" THEN "wake"
             ELSE IF dpc = "init_sleep" THEN "init_wake" ELSE dpc

SetFlag(p) ==
  /\ Runs(p)
  /\ flag = NoFlag
  /\ Move(p, "test", "leave")
  /\ flag' = msg[p].flag
  /\ sent' = msg[p].cmd
  /\ dpc' = Signalled
  /\ UNCHANGED <<mutex, cmd, msg, host, expired, got>>

\* The caller gives the mutex up; the signal handler also returns.
Leave(p) ==
  /\ Runs(p)
  /\ Move(p, "leave", "idle")
  /\ mutex' = NoThread
  /\ msg' = [msg EXCEPT ![p] = NoMessage]
  /\ host' = IF p = Sig THEN NoThread ELSE host
  /\ UNCHANGED <<flag, cmd, dispVars, sent>>

(***************************************************************************)
(* The disp thread                                                         *)
(***************************************************************************)
DispLock ==
  /\ Runs(Disp)
  /\ mutex = NoThread
  /\ \/ MoveDisp("init", "init_test") \/ MoveDisp("init_wake", "init_test")
     \/ MoveDisp("loop", "test") \/ MoveDisp("wake", "test")
  /\ mutex' = Disp
  /\ UNCHANGED <<flag, cmd, pc, msg, host, expired, got, sent>>

\* consthr_init_wait: wait at start-up until the cons thread has posted its
\* first command, without taking it; give up when the deadline passes.
InitWait ==
  /\ Runs(Disp)
  /\ \/ flag # "CMD" /\ ~expired /\ MoveDisp("init_test", "init_sleep")
     \/ flag = "CMD" /\ ~expired /\ MoveDisp("init_test", "loop")
     \/ expired /\ MoveDisp("init_test", "exit")
  /\ mutex' = NoThread
  /\ UNCHANGED <<flag, cmd, pc, msg, host, expired, got, sent>>

\* disp_handler finds no flag and its deadline has not passed.
Sleep ==
  /\ Runs(Disp)
  /\ flag = NoFlag /\ ~expired
  /\ MoveDisp("test", "sleep")
  /\ mutex' = NoThread
  /\ UNCHANGED <<flag, cmd, pc, msg, host, expired, got, sent>>

\* pthread_cond_timedwait returns ETIMEDOUT, or for no reason at all.
WakeAlone ==
  /\ Runs(Disp)
  /\ MoveDisp("sleep", "wake") \/ MoveDisp("init_sleep", "init_wake")
  /\ expired' \in BOOLEAN
  /\ UNCHANGED <<mutex, flag, cmd, pc, msg, host, got, sent>>

\* Fault: the flag is reset to the value that means "no command".
TakeFlagMixedUp ==
  /\ Runs(Disp)
  /\ flag # NoFlag \/ expired
  /\ MoveDisp("test", "work")
  /\ got' = [flag |-> flag, cmd |-> IF flag = "CMD" THEN cmd ELSE NoCmd,
             sent |-> sent]
  /\ flag' = NoCmd /\ sent' = NoCmd
  /\ mutex' = NoThread
  /\ UNCHANGED <<cmd, pc, msg, host, expired>>

\* disp_handler copies the flag, and the command if it is one, and resets
\* the flag.
TakeFlag ==
  /\ Runs(Disp)
  /\ flag # NoFlag \/ expired
  /\ MoveDisp("test", "work")
  /\ got' = [flag |-> flag, cmd |-> IF flag = "CMD" THEN cmd ELSE NoCmd,
             sent |-> sent]
  /\ flag' = NoFlag /\ sent' = NoCmd
  /\ mutex' = NoThread
  /\ UNCHANGED <<cmd, pc, msg, host, expired>>

IsQuit == got.flag = "CMD" /\ got.cmd = "QUIT"

\* Drawing a page whose process is gone ends in win_invalid_proc, which posts
\* HOME, as FAIL does.
GoHome ==
  /\ Self \in Posters
  /\ Begin(Self, Home)
  /\ dpc' = "home"

\* A command or a key, and the refresh after the time-out: the command may
\* wait for flag2; 'q', QUIT, a getch() that fails and the end of the run
\* time (-t) make the thread exit.
CarryOut ==
  \/ dpc' \in {"loop", "flag2", "exit"} /\ UNCHANGED <<pc, msg>>
  \/ GoHome

\* It works on what it took.
Work ==
  /\ Runs(Disp)
  /\ dpc = "work"
  /\ \/ IsQuit /\ dpc' = "exit" /\ UNCHANGED <<pc, msg>>
     \/ got.flag \in {"CMD", NoFlag} /\ ~IsQuit /\ CarryOut
     \/ got.flag = "GETCH" /\ dpc' \in {"getch", "exit"} /\ UNCHANGED <<pc, msg>>
     \/ got.flag = "READY" /\ dpc' \in {"loop", "exit"} /\ UNCHANGED <<pc, msg>>
     \/ got.flag = "FAIL" /\ dpc' = "exit" /\ UNCHANGED <<pc, msg>>
     \/ got.flag \in {"READY", "FAIL"} /\ GoHome
  /\ expired' = FALSE /\ got' = Nothing
  /\ UNCHANGED <<mutex, flag, cmd, host, sent>>

\* handle_getch: getch() blocks until there is a key, and there need not be
\* one: two notifications may have been posted for the same key.
KeyRead ==
  /\ Runs(Disp)
  /\ dpc = "getch"
  /\ CarryOut
  /\ UNCHANGED <<mutex, flag, cmd, host, expired, got, sent>>

\* disp_flag2_wait has no deadline: it returns when the perf thread, which
\* must not be busy posting, has performed the task.
Answered ==
  /\ Runs(Disp) /\ host # Perf
  /\ dpc = "flag2" /\ pc[Perf] = "idle"
  /\ \/ dpc' = "loop" /\ UNCHANGED <<pc, msg>>
     \/ GoHome
  /\ UNCHANGED <<mutex, flag, cmd, host, expired, got, sent>>

WentHome ==
  /\ Runs(Disp)
  /\ MoveDisp("home", "loop")
  /\ pc[Self] = "idle"
  /\ UNCHANGED <<mutex, flag, cmd, pc, msg, host, expired, got, sent>>

\* L_EXIT: perf_fini joins the perf thread, which first has to get rid of
\* what it is posting; then the flag is reset with no lock held.
Exit ==
  /\ Runs(Disp)
  /\ pc[Perf] = "idle"
  /\ MoveDisp("exit", "done")
  /\ flag' = NoFlag /\ sent' = NoCmd
  /\ UNCHANGED <<mutex, cmd, pc, msg, host, expired, got>>

(***************************************************************************)
(* The specification                                                       *)
(***************************************************************************)
PostStep(p) == Enter(p) \/ Spin(p) \/ Retry(p) \/ SetFlag(p) \/ Leave(p)

DispStep == \/ DispLock \/ InitWait \/ Sleep \/ TakeFlag \/ Work \/ WentHome
            \/ Exit

Next ==
  \/ \E p \in Posters : Post(p) \/ PostStep(p)
  \/ \E t \in Hosts : Interrupt(t)
  \/ DispStep
  \/ WakeAlone \/ KeyRead \/ Answered

Spec == Init /\ [][Next]_vars

\* A thread that can run does, and a thread that wants the mutex gets it in
\* the end: a spinning poster gives it up and sleeps between two attempts.
\* Nothing is assumed of the environment: keys and signals need not come,
\* the deadline of the disp thread's wait need not pass, and the sample that
\* sets flag2 need not be taken.
Fairness ==
  /\ \A p \in Posters : SF_vars(PostStep(p))
  /\ SF_vars(DispLock)
  /\ WF_vars(DispStep)

FairSpec == Spec /\ Fairness

(***************************************************************************)
(* Properties                                                              *)
(***************************************************************************)

\* The critical sections of dispthr_flagset_nolock, whose loop opens and
\* closes them itself, and of the disp thread exclude each other, even when
\* the signal handler interrupts one of them.
MutexHeld ==
  /\ \A p \in Posters : pc[p] \in {"test", "leave"} <=> mutex = p
  /\ dpc \in {"init_test", "test"} <=> mutex = Disp

\* The disp thread never sleeps on its condition variable with a
\* notification in the mailbox that would let it go on.
NoSleepOnFlag ==
  /\ dpc = "sleep" => flag = NoFlag
  /\ dpc = "init_sleep" => flag # "CMD"

\* The mailbox keeps the promise of FlagSlot: no notification is replaced.
Slot == INSTANCE FlagSlot WITH slot <- flag
SlotSpec == Slot!Spec

\* Where the disp thread may stay for ever with the mailbox full: in getch()
\* without a key, in the wait for flag2, waiting for itself to take the HOME
\* it posts, joining a perf thread that spins, and when it has exited.
Stuck == {"getch", "flag2", "home", "exit", "done"}

\* Every notification is taken, without help of the 5 s deadline, unless the
\* disp thread blocks for good on its way (Stuck), or a signal handler waits
\* for ever for what the thread below it holds.
FlagTaken == flag # NoFlag ~> \/ flag = NoFlag
                              \/ [](dpc \in Stuck)
                              \/ [](host # NoThread)

\* dispthr_flagset_nolock waits "in case the disp thread hasn't processed
\* the flag yet": what a taken CMD carries is what its poster sent with it.
CmdIntact == dpc = "work" /\ got.flag = "CMD" => got.cmd = got.sent

=============================================================================
