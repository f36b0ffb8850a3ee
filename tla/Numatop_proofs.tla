---------------------------- MODULE Numatop_proofs ----------------------------
(***************************************************************************)
(* Proofs about Numatop, for any keys and any bounds on what the user and  *)
(* the system do: what a thread uses outlives its use, and flag2 answers   *)
(* whoever waits for it.                                                   *)
(***************************************************************************)
EXTENDS Numatop, TLAPS

-----------------------------------------------------------------------------
(* The inductive invariant.                                                *)

\* The types, as far as the rest asks for them.
Typed ==
  /\ slot \in Tasks \union {None}
  /\ job \in Tasks \union {None, "gone"}
  /\ flag2 \in BOOLEAN /\ late \in BOOLEAN
  /\ post \in [Posters -> Messages \union {None}]

\* The other threads are started once, and joined one after the other.
Started ==
  /\ main = "init" => disp = "none" /\ cons = "none"
  /\ main \in {"cons", "over", "exit"} => disp = "gone"
  /\ main \in {"over", "exit"} => cons = "gone"

\* A thread that works on something, or has exited, does not spin.
PostedAll ==
  /\ cons = "gone" => post[Cons] = None
  /\ job # None => post[Perf] = None
  /\ post[Self] # None => disp = "self"
  /\ disp = "gone" => job = "gone"

\* The handler runs on top of main, which destroys the mailbox only when it
\* has returned: what it still posts afterwards it began afterwards.
LatePost == main \in {"over", "exit"} /\ post[Sig] # None => late

\* A sample taken for flag2 is in one place at a time, and the disp thread
\* waits for it.
OneWait ==
  /\ disp = "flag2" <=> slot = "SMPL2" \/ job = "SMPL2" \/ flag2
  /\ ~(slot = "SMPL2" /\ job = "SMPL2")
  /\ flag2 => slot # "SMPL2" /\ job # "SMPL2"

IInv == Typed /\ Started /\ PostedAll /\ LatePost /\ OneWait

-----------------------------------------------------------------------------
(* Every step keeps the invariant.                                         *)

\* perf_init has left everything idle.
LEMMA InitIInv == Init => IInv
<1> SUFFICES ASSUME Init PROVE IInv
  OBVIOUS
<1> USE NumatopAssumption
<1>1. Typed
  <2>1. flag2 \in BOOLEAN /\ late \in BOOLEAN
    BY Zenon DEF Init
  <2>2. QED
    BY <2>1 DEF Typed, Init
<1>2. Started
  BY DEF Started, Init
<1>3. PostedAll
  BY DEF PostedAll, Init, Posters
<1>4. OneWait
  <2>1. flag2 = FALSE
    BY DEF Init
  <2>2. QED
    BY <2>1 DEF OneWait, Init, Tasks
<1>5. LatePost
  BY DEF LatePost, Init
<1>6. QED
  BY <1>1, <1>2, <1>3, <1>4, <1>5 DEF IInv

\* A post changes the mailbox of its poster alone.
LEMMA PostStep ==
  ASSUME Typed, NEW p \in Posters, NEW m \in Messages,
         Post(p, m)
  PROVE  /\ post' \in [Posters -> Messages \union {None}]
         /\ \A q \in Posters : q # p => post'[q] = post[q]
BY DEF Typed, Post

\* The main thread starts and joins the others.
LEMMA MainIInv == IInv /\ MainStep => IInv'
<1> SUFFICES ASSUME IInv, MainStep PROVE IInv'
  OBVIOUS
<1> USE NumatopAssumption DEF IInv, LatePost, mailbox, input, dispVars, perfVars
<1>1. CASE StartDisp
  BY <1>1 DEF StartDisp, Typed, Started, PostedAll, OneWait
<1>2. CASE JoinDisp
  BY <1>2 DEF JoinDisp, Typed, Started, PostedAll, OneWait
<1>3. CASE JoinCons
  BY <1>3 DEF JoinCons, Typed, Started, PostedAll, OneWait
<1>4. CASE Return
  BY <1>4 DEF Return, Typed, Started, PostedAll, OneWait
<1>5. QED
  BY <1>1, <1>2, <1>3, <1>4 DEF MainStep

\* The cons thread posts, or exits with nothing left to post.
LEMMA ConsIInv == IInv /\ ConsStep => IInv'
<1> SUFFICES ASSUME IInv, ConsStep PROVE IInv'
  OBVIOUS
<1> USE NumatopAssumption DEF IInv, LatePost, mailbox, input, dispVars, perfVars
<1>1. \A m \in Messages : Post(Cons, m) =>
        /\ post' \in [Posters -> Messages \union {None}]
        /\ \A p \in {Perf, Sig, Self} : post'[p] = post[p]
  BY PostStep DEF Posters
<1>2. CASE ConsHome
  BY <1>1, <1>2 DEF ConsHome, Messages, Commands, Typed, Started, PostedAll, OneWait
<1>3. CASE ConsPipe
  <2>1. CASE Head(pipe) = "q"
    BY <1>3, <2>1 DEF ConsPipe, Typed, Started, PostedAll, OneWait
  <2>2. CASE Head(pipe) # "q"
    BY <1>1, <1>3, <2>2 DEF ConsPipe, Messages, Commands, Typed, Started, PostedAll, OneWait
  <2>3. QED
    BY <2>1, <2>2
<1>4. CASE ConsStdin
  BY <1>1, <1>4 DEF ConsStdin, Messages, Typed, Started, PostedAll, OneWait
<1>5. QED
  BY <1>2, <1>3, <1>4 DEF ConsStep

\* The disp thread asks the perf thread for one thing at a time, and exits
\* after it.
LEMMA DispIInv == IInv /\ DispStep => IInv'
<1> SUFFICES ASSUME IInv, DispStep PROVE IInv'
  OBVIOUS
<1> USE NumatopAssumption DEF IInv, LatePost, mailbox, input, dispVars, perfVars
<1>1. CASE DispStart
  BY <1>1 DEF DispStart, Typed, Started, PostedAll, OneWait
<1>2. CASE DispKilled
  BY <1>2 DEF DispKilled, Typed, Started, PostedAll, OneWait, Tasks, Posters
<1>3. \A c : Execute(c) => disp' \in {"fini", "run"}
  BY DEF Execute
<1>4. CASE DispTake
  <2>1. disp' \in {"fini", "run", "loop", "home", "getch"} /\ disp = "loop"
    BY <1>3, <1>4 DEF DispTake, Draw
  <2>2. QED
    BY <1>4, <2>1 DEF DispTake, Typed, Started, PostedAll, OneWait
<1>5. CASE DispTimeout
  BY <1>3, <1>5 DEF DispTimeout, Typed, Started, PostedAll, OneWait
<1>6. CASE Getch
  BY <1>3, <1>6 DEF Getch, Typed, Started, PostedAll, OneWait
<1>7. CASE DispDecide
  BY <1>7 DEF Draw, DispDecide, Typed, Started, PostedAll, OneWait
<1>8. CASE DispAsk
  BY <1>8 DEF DispAsk, Typed, Started, PostedAll, OneWait, Tasks, StatusTasks,
              SampleTasks
<1>9. CASE DispAnswer
  BY <1>9 DEF DispAnswer, Typed, Started, PostedAll, OneWait
<1>10. CASE DispFlag2
  BY <1>10 DEF DispFlag2, Typed, Started, PostedAll, OneWait
<1>11. CASE DispDone
  BY <1>11 DEF DispDone, Typed, Started, PostedAll, OneWait
<1>12. CASE DispFini
  BY <1>12 DEF DispFini, Typed, Started, PostedAll, OneWait, Tasks
<1>13. CASE DispExit
  BY <1>13 DEF DispExit, Typed, Started, PostedAll, OneWait
<1>14. CASE DispGoHome
  <2>1. /\ post' \in [Posters -> Messages \union {None}]
        /\ \A q \in Posters : q # Self => post'[q] = post[q]
        /\ disp' = "loop" => post'[Self] = post[Self]
        /\ disp = "home" /\ disp' \in {"loop", "self"}
    BY <1>14, PostStep DEF DispGoHome, Post, Posters, Messages, Commands
  <2>2. QED
    BY <1>14, <2>1 DEF DispGoHome, Typed, Started, PostedAll, OneWait, Posters
<1>15. QED
  BY <1>1, <1>2, <1>14, <1>4, <1>5, <1>6, <1>7, <1>8, <1>9, <1>10, <1>11, <1>12, <1>13
     DEF DispStep

\* The perf thread works on one task, and spins only between two.
LEMMA PerfIInv == IInv /\ PerfStep => IInv'
<1> SUFFICES ASSUME IInv, PerfStep PROVE IInv'
  OBVIOUS
<1> USE NumatopAssumption DEF IInv, LatePost, mailbox, input, dispVars, perfVars
<1>1. CASE PerfTake
  BY <1>1 DEF PerfTake, Typed, Started, PostedAll, OneWait
<1>2. CASE PerfDo
  <2>1. CASE job \in SampleTasks
    <3>1. /\ post' \in [Posters -> Messages \union {None}]
          /\ \A p \in {Cons, Sig, Self} : post'[p] = post[p]
      BY <1>2, <2>1, PostStep DEF PerfDo, Posters, Messages
    <3>2. job' = None /\ flag2' = flag2 /\ job # "SMPL2" /\ job # "gone"
      BY <1>2, <2>1 DEF PerfDo, SampleTasks, Typed
    <3>3. QED
      BY <1>2, <3>1, <3>2 DEF PerfDo, Typed, Started, PostedAll, OneWait, Tasks
  <2>2. CASE job \notin SampleTasks
    <3>1. UNCHANGED post /\ job' \in {None, "gone"} /\ post[Perf] = None
      BY <1>2, <2>2 DEF PerfDo, PostedAll, Typed
    <3>2. (job' = "gone") <=> (job = "QUIT")
      BY <1>2 DEF PerfDo
    <3>3. flag2' = (flag2 \/ job = "SMPL2")
      BY <1>2 DEF PerfDo
    <3>4. disp # "gone"
      BY <1>2 DEF PerfDo, PostedAll, Tasks, StatusTasks, SampleTasks
    <3>5. Typed'
      <4>1. flag2' \in BOOLEAN
        BY <3>3 DEF Typed
      <4>2. QED
        BY <1>2, <3>1, <4>1 DEF PerfDo, Typed
    <3>6. OneWait'
      BY <1>2, <3>1, <3>3 DEF PerfDo, OneWait, Tasks
    <3>7. QED
      BY <1>2, <3>1, <3>4, <3>5, <3>6 DEF PerfDo, Started, PostedAll
  <2>3. QED
    BY <2>1, <2>2
<1>3. QED
  BY <1>1, <1>2 DEF PerfStep

\* A delivered message, a key, a signal or a resize changes nobody's state.
LEMMA OtherIInv ==
  IInv /\ ((\E p \in Posters : Deliver(p)) \/ Environment \/ UNCHANGED vars) => IInv'
<1> SUFFICES ASSUME IInv, \/ \E p \in Posters : Deliver(p)
                          \/ Environment \/ UNCHANGED vars
             PROVE  IInv'
  OBVIOUS
<1> USE NumatopAssumption DEF IInv, LatePost, mailbox, input, dispVars, perfVars
<1>1. CASE \E p \in Posters : Deliver(p)
  BY <1>1 DEF Deliver, Typed, Started, PostedAll, OneWait, Posters
<1>2. CASE Signal
  <2>1. /\ post' \in [Posters -> Messages \union {None}]
        /\ \A p \in {Cons, Perf, Self} : post'[p] = post[p]
    BY <1>2, PostStep DEF Signal, Posters, Messages, Commands
  <2>2. main \notin {"exit", "killed"} /\ late' = (late \/ main = "over")
    BY <1>2 DEF Signal, Running
  <2>3. late' \in BOOLEAN /\ (late \/ main = "over" => late')
    BY <2>2
  <2>4. QED
    BY <1>2, <2>1, <2>2, <2>3 DEF Signal, Typed, Started, PostedAll, OneWait
<1>3. CASE Winch \/ (\E k \in Keys : TypeKey(k)) \/ UNCHANGED vars
  BY <1>3 DEF Winch, TypeKey, vars, Typed, Started, PostedAll, OneWait
<1>4. QED
  BY <1>1, <1>2, <1>3 DEF Environment

\* IInv is an invariant of the specification.
LEMMA Inductive == Spec => []IInv
<1>1. IInv /\ [Next]_vars => IInv'
  BY MainIInv, ConsIInv, DispIInv, PerfIInv, OtherIInv DEF Next
<1>2. QED
  BY <1>1, InitIInv, PTL DEF Spec

-----------------------------------------------------------------------------
(* The properties.                                                         *)

\* Whichever thread ends first, by a key, a signal, a start that fails or a
\* resize too early: perf_fini frees what nobody uses any more, and disp_fini
\* destroys a mailbox that only a later signal uses.
THEOREM TornDownLast == Spec => []Teardown
<1>1. IInv => Teardown
  BY NumatopAssumption DEF IInv, Started, PostedAll, LatePost, Teardown
<1>2. QED
  BY <1>1, Inductive, PTL

\* disp_flag2_wait ends with the answer to its own sample.
THEOREM AnswerOwn == Spec => []Flag2Exact
<1>1. IInv => Flag2Exact
  <2> SUFFICES ASSUME OneWait PROVE Flag2Exact
    BY DEF IInv
  <2>1. TRUE \in {slot = "SMPL2", job = "SMPL2", flag2}
          <=> slot = "SMPL2" \/ job = "SMPL2" \/ flag2 = TRUE
    OBVIOUS
  <2>2. QED
    BY <2>1 DEF OneWait, Flag2Exact
<1>2. QED
  BY <1>1, Inductive, PTL


-----------------------------------------------------------------------------
(* The mailbox.  Numatop makes each critical section of DispMailbox one     *)
(* step, lets the handler of SIGINT post on top of the main thread, and     *)
(* clears the flag when the disp thread starts, exits or is killed.  What   *)
(* FlagSlot promises, and DispMailbox keeps in its finer steps, must still  *)
(* hold here.                                                               *)

Mailbox == INSTANCE FlagSlot
             WITH slot <- flag, Flags <- {"CMD", "SAMPLED", "GETCH"}, NoFlag <- "NONE"
MailboxSpec == Mailbox!Spec

\* A post fills an empty flag with one notification, or leaves the flag alone.
LEMMA PostFlag ==
  ASSUME NEW p, NEW m \in Messages, Post(p, m)
  PROVE  Mailbox!Next \/ UNCHANGED flag
<1>1. FlagOf(m) \in {"CMD", "SAMPLED", "GETCH"}
  BY DEF FlagOf, Messages
<1>2. QED
  BY <1>1 DEF Post, Mailbox!Next, Mailbox!Put

\* No step of any thread, handler or join replaces a notification that the
\* disp thread has not taken: across the whole program the flag goes from NONE
\* to a notification and back.
THEOREM MailboxKept == Spec => MailboxSpec
<1> USE DEF mailbox, input, dispVars, perfVars
<1>1. Init => Mailbox!Init
  BY DEF Init, Mailbox!Init
<1>2. ASSUME IInv, [Next]_vars PROVE [Mailbox!Next]_flag
  <2>1. CASE StartDisp \/ DispKilled \/ DispTake \/ DispExit
    <3>1. flag' = "NONE"
      BY <2>1 DEF StartDisp, DispKilled, DispTake, DispExit
    <3>2. QED
      BY <3>1 DEF Mailbox!Next, Mailbox!Take
  <2>2. CASE JoinDisp \/ JoinCons \/ Return
    BY <2>2 DEF JoinDisp, JoinCons, Return
  <2>3. CASE ConsStep
    <3>1. \/ \E m \in {"HOME", "RESIZE", "GETCH"} : Post(Cons, m)
          \/ UNCHANGED flag
      BY <2>3 DEF ConsStep, ConsHome, ConsPipe, ConsStdin
    <3>2. QED
      BY <3>1, PostFlag DEF Messages, Commands
  <2>4. CASE DispStart \/ DispTimeout \/ Getch \/ DispDecide \/ DispAsk
               \/ DispAnswer \/ DispFlag2 \/ DispDone \/ DispFini
    BY <2>4 DEF DispStart, DispTimeout, Getch, DispDecide, DispAsk, DispAnswer,
                DispFlag2, DispDone, DispFini
  <2>5. CASE PerfStep
    <3>1. Post(Perf, "SAMPLED") \/ UNCHANGED flag
      BY <2>5 DEF PerfStep, PerfTake, PerfDo
    <3>2. QED
      BY <3>1, PostFlag DEF Messages
  <2>6. ASSUME NEW p \in Posters, Deliver(p) PROVE Mailbox!Next
    <3>1. post[p] \in Messages
      BY <1>2, <2>6 DEF IInv, Typed, Deliver
    <3>2. FlagOf(post[p]) \in {"CMD", "SAMPLED", "GETCH"}
      BY <3>1 DEF FlagOf, Messages
    <3>3. Mailbox!Put(FlagOf(post[p]))
      BY <2>6 DEF Deliver, Mailbox!Put
    <3>4. QED
      BY <3>2, <3>3 DEF Mailbox!Next
  <2>7. CASE Environment
    <3>1. Post(Sig, "QUIT") \/ UNCHANGED flag
      BY <2>7 DEF Environment, Signal, Winch, TypeKey
    <3>2. QED
      BY <3>1, PostFlag DEF Messages, Commands
  <2>8. CASE UNCHANGED vars
    BY <2>8 DEF vars
  <2>9. CASE DispGoHome
    BY <2>9, PostFlag DEF DispGoHome, Messages, Commands
  <2>10. QED
    BY <1>2, <2>9, <2>1, <2>2, <2>3, <2>4, <2>5, <2>6, <2>7, <2>8
       DEF Next, MainStep, DispStep
<1>3. QED
  BY <1>1, <1>2, Inductive, PTL DEF Spec, MailboxSpec, Mailbox!Spec
=============================================================================
