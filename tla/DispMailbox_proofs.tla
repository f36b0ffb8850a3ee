------------------------- MODULE DispMailbox_proofs -------------------------
(***************************************************************************)
(* Proofs about DispMailbox, for any set of posters, any messages and any  *)
(* set of threads that signals interrupt: the state is well typed, the     *)
(* critical sections exclude each other, the disp thread never sleeps on a *)
(* notification, and no notification is replaced (DispMailbox implements   *)
(* FlagSlot).                                                              *)
(***************************************************************************)
EXTENDS DispMailbox, TLAPS

\* A poster that is on its way has a message to post.
MsgPending == \A p \in Posters : pc[p] # "idle" => msg[p] \in Message

\* The inductive invariant.
IInv == TypeOK /\ MsgPending /\ MutexHeld /\ NoSleepOnFlag

\* Initially nobody owns the mutex and the cons thread is on its way to post
\* HOME (disp_ctl_init and the first lines of cons_handler).
LEMMA InitIInv == Init => IInv
<1> SUFFICES ASSUME Init PROVE IInv
  OBVIOUS
<1>1. TypeOK
  BY MessagesAssumption
     DEF Init, TypeOK, PosterStates, DispStates, NoMessage, Nothing
<1>2. MsgPending
  BY MessagesAssumption DEF Init, MsgPending
<1>3. MutexHeld
  BY ThreadAssumption DEF Init, MutexHeld
<1>4. NoSleepOnFlag
  BY DEF Init, NoSleepOnFlag
<1>5. QED
  BY <1>1, <1>2, <1>3, <1>4 DEF IInv

\* Every step keeps the variables in their types and gives every poster that
\* sets out a message.
LEMMA TypeStep ==
  ASSUME TypeOK, MsgPending, [Next]_vars
  PROVE  TypeOK' /\ MsgPending'
<1> USE ThreadAssumption, MessagesAssumption
    DEF TypeOK, MsgPending, PosterStates, DispStates, Message, NoMessage,
        Nothing, dispVars
<1>1. ASSUME NEW p \in Posters, Post(p) PROVE TypeOK' /\ MsgPending'
  BY <1>1 DEF Post, Begin, Move
<1>2. ASSUME NEW p \in Posters, Enter(p) PROVE TypeOK' /\ MsgPending'
  BY <1>2 DEF Enter, Move
<1>3. ASSUME NEW p \in Posters, Spin(p) PROVE TypeOK' /\ MsgPending'
  BY <1>3 DEF Spin, Move
<1>4. ASSUME NEW p \in Posters, Retry(p) PROVE TypeOK' /\ MsgPending'
  BY <1>4 DEF Retry, Move
<1>5. ASSUME NEW p \in Posters, SetFlag(p) PROVE TypeOK' /\ MsgPending'
  BY <1>5 DEF SetFlag, Move, Signalled
<1>6. ASSUME NEW p \in Posters, Leave(p) PROVE TypeOK' /\ MsgPending'
  BY <1>6 DEF Leave, Move
<1>7. ASSUME NEW t \in Hosts, Interrupt(t) PROVE TypeOK' /\ MsgPending'
  <2>1. PICK m \in Messages[Sig] : Begin(Sig, m)
    BY <1>7 DEF Interrupt
  <2>2. Sig \in Posters /\ m \in Message
    BY <1>7 DEF Interrupt
  <2>3. QED
    BY <1>7, <2>1, <2>2 DEF Interrupt, Begin, Move
<1>8. CASE DispLock
  BY <1>8 DEF DispLock, MoveDisp
<1>9. CASE InitWait
  BY <1>9 DEF InitWait, MoveDisp
<1>10. CASE Sleep
  BY <1>10 DEF Sleep, MoveDisp
<1>11. CASE TakeFlag
  BY <1>11 DEF TakeFlag, MoveDisp
<1>12. CASE Work \/ KeyRead \/ Answered
  <2>1. /\ dpc' \in DispStates /\ expired' \in BOOLEAN
        /\ got' \in {got, Nothing}
        /\ UNCHANGED <<mutex, flag, cmd, host, sent>>
    BY <1>12 DEF Work, KeyRead, Answered, CarryOut, GoHome
  <2>2. CASE UNCHANGED <<pc, msg>>
    BY <2>1, <2>2
  <2>3. CASE Self \in Posters /\ Begin(Self, Home)
    <3>1. /\ pc' = [pc EXCEPT ![Self] = "enter"]
          /\ msg' = [msg EXCEPT ![Self] = Home]
          /\ Self \in Posters /\ Home \in Message
      BY <2>3 DEF Begin, Move
    <3>2. QED
      BY <2>1, <3>1
  <2>4. QED
    BY <1>12, <2>2, <2>3 DEF Work, KeyRead, Answered, CarryOut, GoHome
<1>13. CASE WentHome
  BY <1>13 DEF WentHome, MoveDisp
<1>14. CASE Exit
  BY <1>14 DEF Exit, MoveDisp
<1>15. CASE WakeAlone
  BY <1>15 DEF WakeAlone, MoveDisp
<1>16. CASE UNCHANGED vars
  BY <1>16 DEF vars
<1>17. QED
  BY <1>1, <1>2, <1>3, <1>4, <1>5, <1>6, <1>7, <1>8, <1>9, <1>10, <1>11,
     <1>12, <1>13, <1>14, <1>15, <1>16 DEF Next, PostStep, DispStep

\* Every step keeps the mutex with the one poster, or the disp thread, that
\* is inside its critical section.
LEMMA MutexStep ==
  ASSUME TypeOK, MutexHeld, [Next]_vars
  PROVE  MutexHeld'
<1> USE ThreadAssumption DEF MutexHeld, TypeOK, dispVars
<1>1. ASSUME NEW p \in Posters, Post(p) PROVE MutexHeld'
  BY <1>1 DEF Post, Begin, Move
<1>2. ASSUME NEW p \in Posters, Enter(p) PROVE MutexHeld'
  BY <1>2 DEF Enter, Move
<1>3. ASSUME NEW p \in Posters, Spin(p) PROVE MutexHeld'
  BY <1>3 DEF Spin, Move
<1>4. ASSUME NEW p \in Posters, Retry(p) PROVE MutexHeld'
  BY <1>4 DEF Retry, Move
<1>5. ASSUME NEW p \in Posters, SetFlag(p) PROVE MutexHeld'
  BY <1>5 DEF SetFlag, Move, Signalled
<1>6. ASSUME NEW p \in Posters, Leave(p) PROVE MutexHeld'
  BY <1>6 DEF Leave, Move
<1>7. ASSUME NEW t \in Hosts, Interrupt(t) PROVE MutexHeld'
  BY <1>7 DEF Interrupt, Begin, Move
<1>8. CASE DispLock
  BY <1>8 DEF DispLock, MoveDisp
<1>9. CASE InitWait
  BY <1>9 DEF InitWait, MoveDisp
<1>10. CASE Sleep
  BY <1>10 DEF Sleep, MoveDisp
<1>11. CASE TakeFlag
  BY <1>11 DEF TakeFlag, MoveDisp
<1>12. CASE Work \/ KeyRead \/ Answered
  BY <1>12 DEF Work, KeyRead, Answered, CarryOut, GoHome, Begin, Move
<1>13. CASE WentHome
  BY <1>13 DEF WentHome, MoveDisp
<1>14. CASE Exit
  BY <1>14 DEF Exit, MoveDisp
<1>15. CASE WakeAlone
  BY <1>15 DEF WakeAlone, MoveDisp
<1>16. CASE UNCHANGED vars
  BY <1>16 DEF vars
<1>17. QED
  BY <1>1, <1>2, <1>3, <1>4, <1>5, <1>6, <1>7, <1>8, <1>9, <1>10, <1>11,
     <1>12, <1>13, <1>14, <1>15, <1>16 DEF Next, PostStep, DispStep

\* The flag is tested and the mutex given up in one step of the sleep, and
\* the step that sets the flag wakes the disp thread.
LEMMA SleepStep ==
  ASSUME NoSleepOnFlag, [Next]_vars
  PROVE  NoSleepOnFlag'
<1> USE DEF NoSleepOnFlag, dispVars
<1>1. ASSUME NEW p \in Posters, SetFlag(p) PROVE NoSleepOnFlag'
  BY <1>1 DEF SetFlag, Signalled
<1>2. ASSUME NEW p \in Posters,
             Post(p) \/ Enter(p) \/ Spin(p) \/ Retry(p) \/ Leave(p)
      PROVE NoSleepOnFlag'
  BY <1>2 DEF Post, Enter, Spin, Retry, Leave
<1>3. ASSUME NEW t \in Hosts, Interrupt(t) PROVE NoSleepOnFlag'
  BY <1>3 DEF Interrupt
<1>4. CASE DispLock
  BY <1>4 DEF DispLock, MoveDisp
<1>5. CASE InitWait
  BY <1>5 DEF InitWait, MoveDisp
<1>6. CASE Sleep \/ TakeFlag \/ WentHome \/ Exit \/ WakeAlone
  BY <1>6 DEF Sleep, TakeFlag, WentHome, Exit, WakeAlone, MoveDisp
<1>7. CASE Work \/ KeyRead \/ Answered
  BY <1>7 DEF Work, KeyRead, Answered, CarryOut, GoHome
<1>8. CASE UNCHANGED vars
  BY <1>8 DEF vars
<1>9. QED
  BY <1>1, <1>2, <1>3, <1>4, <1>5, <1>6, <1>7, <1>8
     DEF Next, PostStep, DispStep

\* The conjunction of the three is inductive.
LEMMA Inductive == Spec => []IInv
<1>1. IInv /\ [Next]_vars => IInv'
  BY TypeStep, MutexStep, SleepStep DEF IInv
<1>2. QED
  BY InitIInv, <1>1, PTL DEF Spec

\* The state of disp.c's mailbox is well typed whatever the threads do.
THEOREM TypeCorrect == Spec => []TypeOK
BY Inductive, PTL DEF IInv

\* s_disp_ctl.mutex has at most one owner, and its owner is the thread inside
\* the critical section: the wait loop of dispthr_flagset_nolock, which gives
\* the mutex up and takes it again, never leaves two posters inside.
THEOREM MutualExclusion == Spec => []MutexHeld
BY Inductive, PTL DEF IInv

\* No wakeup is lost between a poster and disp_handler or consthr_init_wait.
THEOREM NoLostWakeup == Spec => []NoSleepOnFlag
BY Inductive, PTL DEF IInv

\* Every step of disp.c is a step or a stutter of FlagSlot: a notification is
\* set on an empty flag only, and only the disp thread resets it.
THEOREM ImplementsFlagSlot == Spec => SlotSpec
<1> USE DEF Slot!Put, Slot!Take, dispVars
<1>1. Init => Slot!Init
  BY DEF Init, Slot!Init
<1>2. ASSUME IInv, [Next]_vars PROVE [Slot!Next]_flag
  <2>1. ASSUME NEW p \in Posters, SetFlag(p) PROVE Slot!Next
    <3>1. msg[p] \in Message
      BY <1>2, <2>1 DEF IInv, MsgPending, SetFlag, Move
    <3>2. msg[p].flag \in Flags
      BY <3>1 DEF Message
    <3>3. Slot!Put(msg[p].flag)
      BY <2>1 DEF SetFlag
    <3>4. QED
      BY <3>2, <3>3 DEF Slot!Next
  <2>2. ASSUME NEW p \in Posters,
               Post(p) \/ Enter(p) \/ Spin(p) \/ Retry(p) \/ Leave(p)
        PROVE UNCHANGED flag
    BY <2>2 DEF Post, Enter, Spin, Retry, Leave
  <2>3. ASSUME NEW t \in Hosts, Interrupt(t) PROVE UNCHANGED flag
    BY <2>3 DEF Interrupt
  <2>4. CASE TakeFlag \/ Exit
    BY <2>4 DEF TakeFlag, Exit, Slot!Next
  <2>5. CASE \/ DispLock \/ InitWait \/ Sleep \/ Work \/ WentHome
             \/ WakeAlone \/ KeyRead \/ Answered
    BY <2>5 DEF DispLock, InitWait, Sleep, Work, WentHome, WakeAlone, KeyRead,
                Answered
  <2>6. CASE UNCHANGED vars
    BY <2>6 DEF vars
  <2>7. QED
    BY <1>2, <2>1, <2>2, <2>3, <2>4, <2>5, <2>6 DEF Next, PostStep, DispStep
<1>3. QED
  BY <1>1, <1>2, Inductive, PTL DEF Spec, SlotSpec, Slot!Spec
=============================================================================
