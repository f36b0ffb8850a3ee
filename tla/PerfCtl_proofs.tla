--------------------------- MODULE PerfCtl_proofs ---------------------------
(***************************************************************************)
(* Proofs about PerfCtl, for either kind of pausing and any bound on the   *)
(* pages: the state is well typed, the perf thread never sleeps on a task, *)
(* and a status that names load latency or uncore events is true.  Unless  *)
(* something failed or came late, or a page was left astray (hurt), the    *)
(* status tells everything that is open, no events are forgotten, and a    *)
(* page, shown or not, has the events it needs.                            *)
(***************************************************************************)
EXTENDS PerfCtl, SequenceTheorems, TLAPS

\* The first command of a page list that is not empty can be taken off.
LEMMA HeadTail ==
  ASSUME NEW S, NEW s \in Seq(S), s # <<>>
  PROVE  Head(s) \in S /\ Tail(s) \in Seq(S)
  OBVIOUS

\* A page is sampled with tasks of the perf thread (os_page_smpl_start).
LEMMA SamplingType == ASSUME NEW k PROVE Sampling(k) \in Seq(Steps)
<1>1. /\ <<"SMPL1">> \in Seq(Steps)
      /\ <<"LL_SMPL">> \in Seq(Steps)
      /\ <<"SMPL2", "UNCORE_SMPL">> \in Seq(Steps)
      /\ <<"SMPL2", "CMT_SMPL">> \in Seq(Steps)
  BY DEF Steps, Tasks, SampleTasks
<1>2. \/ Sampling(k) = <<"SMPL1">>
      \/ Sampling(k) = <<"LL_SMPL">>
      \/ Sampling(k) = <<"SMPL2", "UNCORE_SMPL">>
      \/ Sampling(k) = <<"SMPL2", "CMT_SMPL">>
  BY DEF Sampling, CallChain
<1>3. QED
  BY <1>1, <1>2

\* A step that looks first is replaced by tasks of the perf thread.
LEMMA ResolveType ==
  ASSUME NEW s, NEW steps \in Resolve(s)
  PROVE  steps \in Seq(Steps)
<1>1. /\ <<>> \in Seq(Steps)
      /\ <<"CMT_STOP", "sampled">> \in Seq(Steps)
      /\ <<"UNCORE_STOP", "sampled">> \in Seq(Steps)
      /\ <<"STOP", "START">> \in Seq(Steps)
      /\ <<"STOP", "LL_START">> \in Seq(Steps)
      /\ <<"CMT_START">> \in Seq(Steps)
  BY DEF Steps, Tasks, StatusTasks
<1>2. steps \in {<<>>, <<"CMT_STOP", "sampled">>, <<"UNCORE_STOP", "sampled">>,
                 <<"STOP", "START">>, <<"STOP", "LL_START">>, <<"CMT_START">>}
  BY DEF Resolve
<1>3. QED
  BY <1>1, <1>2

\* The steps of the entries of the switch table (cmd.c).
LEMMA StepsType ==
  /\ {<<"show">>, ToProfiling, LeaveCallChain, SetupCmt, <<"to_ll", "show">>,
      <<"SMPL2", "UNCORE_STOP", "UNCORE_START", "show">>,
      <<"SMPL2", "CMT_STOP", "setup_cmt", "show">>} \subseteq Seq(Steps)
  /\ \A k : /\ Pause(k) \o <<"sampled", "show">> \in Seq(Steps)
            /\ Pause(k) \o <<"SMPL1">> \in Seq(Steps)
<1>1. /\ <<"show">> \in Seq(Steps)
      /\ ToProfiling \in Seq(Steps)
      /\ LeaveCallChain \in Seq(Steps)
      /\ SetupCmt \in Seq(Steps)
      /\ <<"to_ll", "show">> \in Seq(Steps)
  BY DEF Steps, Tasks, StatusTasks, SampleTasks, ToProfiling, LeaveCallChain,
         SetupCmt
<1>2. /\ <<"SMPL2", "UNCORE_STOP", "UNCORE_START", "show">> \in Seq(Steps)
      /\ <<"SMPL2", "CMT_STOP", "setup_cmt", "show">> \in Seq(Steps)
  BY DEF Steps, Tasks, StatusTasks, SampleTasks
<1>3. ASSUME NEW k
      PROVE  /\ Pause(k) \o <<"sampled", "show">> \in Seq(Steps)
             /\ Pause(k) \o <<"SMPL1">> \in Seq(Steps)
  <2>1. /\ <<"sampled", "show">> \in Seq(Steps) /\ <<"SMPL1">> \in Seq(Steps)
        /\ <<"PARTPAUSE">> \in Seq(Steps) /\ <<"MULTIPAUSE">> \in Seq(Steps)
    BY DEF Steps, Tasks, StatusTasks, SampleTasks
  <2>2. Pause(k) \in Seq(Steps)
    BY <2>1 DEF Pause
  <2>3. QED
    BY <2>1, <2>2
<1>4. QED
  BY <1>1, <1>2, <1>3

\* What a command leads to: pages, the last of them new or not, and the steps
\* to get there.
Targets == {c \in [pages : Seq(Kinds), new : BOOLEAN, steps : Seq(Steps)] :
              c.new => c.pages # <<>>}

\* Every command has pages and steps of the right type.
LEMMA CommandsType ==
  ASSUME pages \in Seq(Kinds), NEW c \in Commands
  PROVE  c \in Targets
<1>1. \A p \in Seq(Kinds), k \in Kinds, t \in Seq(Steps) : New(p, k, t) \in Targets
  BY DEF New, Targets
<1>2. \A k \in Kinds, t \in Seq(Steps) : Push(k, t) \in Targets
  BY <1>1 DEF Push
<1>3. \A p \in Seq(Kinds), t \in Seq(Steps) : To(p, t) \in Targets
  BY DEF To, Targets
<1>4. {"plain", "part", "multi", "lat", "lldetail", "uncore", "cmt", "mbm"} = Kinds
  BY DEF Kinds, CallChain
<1>5. ASSUME pages # <<>> PROVE Below \in Seq(Kinds)
  <2>1. \A i \in 1 .. Len(pages) - 1 : pages[i] \in Kinds
    OBVIOUS
  <2>2. QED
    BY <2>1, SubSeqProperties, <1>5 DEF Below
<1>6. CASE c \in Home
  <2>1. <<>> \in Seq(Kinds) /\ "plain" \in Kinds
    BY <1>4
  <2>2. c \in {New(<<>>, "plain", LeaveCallChain), New(<<>>, "plain", ToProfiling)}
    BY <1>6 DEF Home
  <2>3. QED
    BY <1>1, <2>1, <2>2, StepsType
<1>7. CASE pages # <<>> /\ c \in Open
  <2>1. \/ \E k \in Kinds : c \in {Push(k, <<"show">>), Push(k, ToProfiling),
                                   Push(k, SetupCmt), Push(k, <<"to_ll", "show">>),
                                   Push(k, <<"SMPL2", "UNCORE_STOP",
                                             "UNCORE_START", "show">>),
                                   Push(k, <<"SMPL2", "CMT_STOP", "setup_cmt",
                                             "show">>)}
        \/ c = Push(RmaPause, Pause(RmaPause) \o <<"sampled", "show">>)
    BY <1>4, <1>7 DEF Open
  <2>2. RmaPause \in Kinds
    BY <1>4, PerfCtlAssumption
  <2>3. QED
    BY <1>2, <2>1, <2>2, StepsType
<1>8. CASE pages # <<>> /\ c \in Refresh
  <2>1. CASE c \in {To(pages, Sampling(Top)), To(pages, <<"SMPL2">>)}
    <3>1. <<"SMPL2">> \in Seq(Steps)
      BY DEF Steps, Tasks
    <3>2. QED
      BY <2>1, <3>1, <1>3, SamplingType
  <2>2. CASE \E k \in {"part", RmaPause} :
               c = To(Append(Below, k), Pause(k) \o <<"SMPL1">>)
    <3>1. PICK k \in {"part", RmaPause} :
            c = To(Append(Below, k), Pause(k) \o <<"SMPL1">>)
      BY <2>2
    <3>2. k \in Kinds
      BY <1>4, PerfCtlAssumption
    <3>3. Append(Below, k) \in Seq(Kinds)
      BY <1>5, <1>8, <3>2
    <3>4. QED
      BY <1>3, <3>1, <3>3, StepsType
  <2>3. QED
    BY <1>8, <2>1, <2>2 DEF Refresh
<1>9. CASE pages # <<>> /\ c \in Back
  <2>1. c \in {To(Below, LeaveCallChain), To(Below, ToProfiling),
               To(Below, SetupCmt), To(Below, <<"show">>)}
    BY <1>9 DEF Back
  <2>2. QED
    BY <2>1, <1>3, <1>5, <1>9, StepsType
<1>10. Len(pages) >= 2 => pages # <<>>
  OBVIOUS
<1>11. QED
  BY <1>6, <1>7, <1>8, <1>9, <1>10 DEF Commands

(***************************************************************************)
(* Type correctness                                                        *)
(***************************************************************************)

\* The status a task announces, or its failure, is one of perf_status_t.
LEMMA StatusesType ==
  /\ \A t \in StatusTasks : Wanted[t] \in Statuses
  /\ \A t \in {"START", "LL_START", "CMT_START", "UNCORE_START"} :
       FailureOf[t] \in Statuses
BY DEF Wanted, FailureOf, StatusTasks, Statuses, Failures

\* perf_init hands over an empty slot, no pages and closed events.
LEMMA InitType == Init => TypeOK
<1> SUFFICES ASSUME Init PROVE TypeOK
  OBVIOUS
<1>1. todo \in Seq(Steps)
  BY DEF Init, Steps, Tasks, StatusTasks
<1>2. pages \in Seq(Kinds)
  BY DEF Init
<1>3. QED
  BY <1>1, <1>2 DEF Init, TypeOK, PerfStates, ClientStates, Statuses, Failures

\* Every step of the client keeps the variables in their types.
LEMMA ClientType ==
  ASSUME TypeOK, ClientStep \/ ShowLater \/ Expire \/ Spurious \/ Execute \/ Quit
  PROVE  TypeOK'
<1> USE DEF TypeOK, perfVars, events, command
<1>1. CASE Ask
  <2>1. Head(todo) \in Steps /\ Tail(todo) \in Seq(Steps) /\ Head(todo) \in Tasks
    BY <1>1, HeadTail DEF Ask
  <2>2. slot' \in Tasks \union {None} /\ ppc' \in PerfStates
    BY <1>1, <2>1 DEF Ask, TaskSet, PerfStates
  <2>3. cpc' \in ClientStates
    BY <1>1 DEF Ask, ClientStates
  <2>4. asked' \in StatusTasks \union {None}
    BY <1>1 DEF Ask
  <2>5. QED
    BY <1>1, <2>1, <2>2, <2>3, <2>4 DEF Ask
<1>2. CASE StatusWait
  BY <1>2 DEF StatusWait, ClientStates
<1>3. CASE WaitAgain
  BY <1>3 DEF WaitAgain, ClientStates
<1>4. CASE Answer
  <2>1. smpl' \in BOOLEAN /\ hurt' \in BOOLEAN /\ cpc' \in ClientStates
    BY <1>4 DEF Answer, ClientStates
  <2>2. QED
    BY <1>4, <2>1 DEF Answer
<1>5. CASE Flag2Wait
  BY <1>5 DEF Flag2Wait, ClientStates
<1>6. CASE Decide
  <2>1. Tail(todo) \in Seq(Steps)
    BY <1>6, HeadTail DEF Decide
  <2>2. PICK steps \in Resolve(Head(todo)) : todo' = steps \o Tail(todo)
    BY <1>6 DEF Decide
  <2>3. todo' \in Seq(Steps)
    BY <2>1, <2>2, ResolveType
  <2>4. smpl' \in BOOLEAN
    BY <1>6 DEF Decide
  <2>5. QED
    BY <1>6, <2>3, <2>4 DEF Decide
<1>7. CASE Join
  BY <1>7 DEF Join, ClientStates
<1>8. CASE Expire
  BY <1>8 DEF Expire, ClientStates
<1>9. CASE Spurious
  BY <1>9 DEF Spurious, ClientStates, PerfStates
<1>10. CASE Execute
  <2>1. PICK c \in Commands :
          /\ pages' = c.pages /\ todo' = c.steps
          /\ unmade' = (unmade \intersect 1..Len(c.pages))
                        \union {i \in {Len(c.pages)} : c.new /\ c.pages[i] # "plain"}
          /\ hurt' = (hurt \/ Astray(c))
    BY <1>10 DEF Execute
  <2>2. pages' \in Seq(Kinds) /\ todo' \in Seq(Steps) /\ (c.new => pages' # <<>>)
    BY <2>1, CommandsType DEF Targets
  <2>3. unmade' \in SUBSET (1..Len(pages'))
    BY <2>1, <2>2
  <2>4. hurt' \in BOOLEAN
    BY <2>1, Zenon
  <2>5. QED
    BY <1>10, <2>2, <2>3, <2>4 DEF Execute
<1>11. CASE Quit
  <2>1. slot' \in Tasks \union {None} /\ ppc' \in PerfStates /\ cpc' \in ClientStates
    BY <1>11 DEF Quit, TaskSet, Tasks, PerfStates, ClientStates
  <2>2. QED
    BY <1>11, <2>1 DEF Quit
<1>12. CASE Show
  <2>1. Tail(todo) \in Seq(Steps)
    BY <1>12, HeadTail DEF Show
  <2>2. todo' \in Seq(Steps)
    <3>1. (IF smpl THEN Sampling(Top) ELSE <<>>) \in Seq(Steps)
      BY SamplingType
    <3>2. \/ todo' = (IF smpl THEN Sampling(Top) ELSE <<>>) \o Tail(todo)
          \/ todo' = Tail(todo)
      BY <1>12 DEF Show
    <3>3. \A a, b \in Seq(Steps) : a \o b \in Seq(Steps)
      OBVIOUS
    <3>4. QED
      BY <2>1, <3>1, <3>2, <3>3
  <2>3. unmade' \in SUBSET (1..Len(pages)) /\ smpl' = FALSE
    BY <1>12 DEF Show
  <2>4. QED
    BY <1>12, <2>2, <2>3 DEF Show
<1>13. CASE ShowLater
  BY <1>13 DEF ShowLater
<1>14. QED
  BY <1>1, <1>2, <1>3, <1>4, <1>5, <1>6, <1>7, <1>8, <1>9, <1>10, <1>11,
     <1>12, <1>13 DEF ClientStep

\* os_allstop leaves the events in a state they can be in.
LEMMA AfterStopType ==
  ASSUME TypeOK
  PROVE  /\ AfterStop.cpu \in {"none", "profiling", "ll"}
         /\ AfterStop.uncore \in BOOLEAN
BY DEF TypeOK, AfterStop

\* Setting events up, or failing to, keeps the variables in their types.
LEMMA SetUpType ==
  ASSUME TypeOK, NEW t \in {"START", "LL_START"},
         NEW for \in {"profiling", "ll"}, SetUp(t, for)
  PROVE  TypeOK'
<1> USE DEF TypeOK, events, command
<1>1. Wanted[t] \in Statuses /\ FailureOf[t] \in Statuses
  BY StatusesType DEF StatusTasks
<1>2. leaked' \in BOOLEAN /\ uncore' \in BOOLEAN /\ UNCHANGED pause
  BY AfterStopType DEF SetUp
<1>3. cpu' \in {"none", "profiling", "ll"} /\ hurt' \in BOOLEAN
  BY DEF SetUp
<1>4. status' \in Statuses /\ cpc' \in ClientStates /\ UNCHANGED flag2
  BY <1>1 DEF SetUp, StatusSet, ClientStates
<1>5. ppc' \in PerfStates /\ job' \in Tasks \union {None}
      /\ UNCHANGED <<slot, asked, command>>
  BY DEF SetUp, Finish, PerfStates
<1>6. QED
  BY <1>2, <1>3, <1>4, <1>5

\* Every step of the perf thread keeps the variables in their types.
LEMMA PerfType ==
  ASSUME TypeOK, PerfTake \/ PerfSleep \/ PerfDo \/ Posted
  PROVE  TypeOK'
<1> USE DEF TypeOK, events, command, PerfStates
<1>1. CASE PerfTake
  BY <1>1 DEF PerfTake
<1>2. CASE PerfSleep
  BY <1>2 DEF PerfSleep
<1>3. CASE DoStop
  BY <1>3, AfterStopType
     DEF DoStop, StatusSet, Finish, Statuses, ClientStates
<1>4. CASE DoStart
  BY <1>4, SetUpType DEF DoStart
<1>5. CASE DoStarted
  BY <1>5 DEF DoStarted, StatusSet, Finish, Statuses, ClientStates
<1>6. CASE DoLLStart
  BY <1>6, SetUpType DEF DoLLStart
<1>7. CASE DoPause
  <2>1. Wanted[job] \in Statuses
    BY <1>7, StatusesType DEF DoPause, StatusTasks
  <2>2. QED
    BY <1>7, <2>1 DEF DoPause, StatusSet, Finish, ClientStates
<1>8. CASE DoCmt
  <2>1. /\ Wanted[job] \in Statuses
        /\ job = "CMT_START" => FailureOf[job] \in Statuses
    BY <1>8, StatusesType DEF DoCmt, StatusTasks
  <2>2. /\ status' \in Statuses /\ cpc' \in ClientStates /\ UNCHANGED flag2
        /\ hurt' \in BOOLEAN
    BY <1>8, <2>1 DEF DoCmt, StatusSet, ClientStates
  <2>3. /\ ppc' = "test" /\ job' = None
        /\ UNCHANGED <<slot, asked, command, events>>
    BY <1>8 DEF DoCmt, Finish
  <2>4. QED
    BY <2>2, <2>3
<1>9. CASE DoUncoreStart
  <2>1. FailureOf[job] \in Statuses /\ "UNCORE" \in Statuses
    BY <1>9, StatusesType DEF DoUncoreStart, Statuses
  <2>2. /\ status' \in Statuses /\ cpc' \in ClientStates /\ UNCHANGED flag2
        /\ hurt' \in BOOLEAN /\ uncore' \in BOOLEAN
    BY <1>9, <2>1 DEF DoUncoreStart, StatusSet, ClientStates
  <2>3. leaked' \in BOOLEAN
    BY Zenon, <1>9 DEF DoUncoreStart
  <2>4. /\ ppc' = "test" /\ job' = None
        /\ UNCHANGED <<slot, asked, command, cpu, pause>>
    BY <1>9 DEF DoUncoreStart, Finish
  <2>5. QED
    BY <2>2, <2>3, <2>4
<1>10. CASE DoUncoreStop
  BY <1>10 DEF DoUncoreStop, StatusSet, Finish, Statuses, ClientStates
<1>11. CASE DoSample
  BY <1>11 DEF DoSample, Finish
<1>12. CASE DoSample2
  BY <1>12 DEF DoSample2, Finish, ClientStates
<1>13. CASE DoQuit
  BY <1>13, AfterStopType DEF DoQuit, Finish
<1>14. CASE Posted
  BY <1>14 DEF Posted, Finish
<1>15. QED
  BY <1>1, <1>2, <1>3, <1>4, <1>5, <1>6, <1>7, <1>8, <1>9, <1>10, <1>11,
     <1>12, <1>13, <1>14 DEF PerfDo

\* Every variable has its type, in every reachable state.
THEOREM TypeCorrect == Spec => []TypeOK
<1>1. Init => TypeOK
  BY InitType
<1>2. TypeOK /\ [Next]_vars => TypeOK'
  <2> SUFFICES ASSUME TypeOK, [Next]_vars PROVE TypeOK'
    OBVIOUS
  <2>1. CASE Next
    BY <2>1, ClientType, PerfType DEF Next
  <2>2. CASE UNCHANGED vars
    BY <2>2 DEF vars, TypeOK, perfVars, events, command
  <2>3. QED
    BY <2>1, <2>2
<1>3. QED
  BY <1>1, <1>2, PTL DEF Spec

(***************************************************************************)
(* No task is lost, and the status is true                                 *)
(***************************************************************************)

\* What the steps do to the slot and to the perf thread's sleep: who fills the
\* slot ends the sleep, and only an empty slot begins one.
LEMMA FilledAwake == [Next]_vars => \/ ppc' # "sleep" \/ slot' = None
                                    \/ UNCHANGED <<slot, ppc>>
<1> DEFINE Kept == \/ ppc' # "sleep" \/ slot' = None
                   \/ UNCHANGED <<slot, ppc>>
<1>1. CASE UNCHANGED vars \/ Execute \/ ShowLater \/ Expire \/ Spurious
  BY <1>1 DEF vars, perfVars, Execute, ShowLater, Expire, Spurious
<1>2. Ask \/ Quit => Kept
  BY DEF Ask, Quit, TaskSet
<1>3. CASE ClientStep
  <2>1. StatusWait \/ WaitAgain \/ Answer \/ Flag2Wait \/ Decide \/ Show \/ Join
          => UNCHANGED <<slot, ppc>>
    BY DEF StatusWait, WaitAgain, Answer, Flag2Wait, Decide, Show, Join, perfVars
  <2>2. QED
    BY <1>2, <1>3, <2>1 DEF ClientStep
<1>4. PerfTake \/ PerfSleep \/ Posted => Kept
  BY DEF PerfTake, PerfSleep, Posted, Finish
<1>5. PerfDo => ppc' # "sleep"
  BY DEF PerfDo, DoStop, DoStart, DoStarted, DoLLStart, SetUp, DoPause, DoCmt,
         DoUncoreStart, DoUncoreStop, DoSample, DoSample2, DoQuit, Finish
<1>6. QED
  BY <1>1, <1>2, <1>3, <1>4, <1>5 DEF Next

\* The perf thread never sleeps on a task (perf_task_set signals cond, and
\* perf_handler looks into the slot before it sleeps).
THEOREM NoTaskLost == Spec => []TaskNoticed
<1>1. ASSUME Init PROVE TaskNoticed
  BY <1>1 DEF Init, TaskNoticed
<1>2. ASSUME TaskNoticed, [Next]_vars PROVE TaskNoticed'
  BY <1>2, FilledAwake DEF TaskNoticed
<1>3. QED
  BY <1>1, <1>2, PTL DEF Spec

\* A thread that has exited stays that way; no other thread revives it.
LEMMA GoneStays ==
  ASSUME [Next]_vars, ppc = "gone"
  PROVE  ppc' = "gone"
<1> USE DEF perfVars
<1>1. CASE ClientStep
  BY <1>1 DEF ClientStep, Ask, TaskSet, StatusWait, WaitAgain, Answer,
              Flag2Wait, Decide, Show, Join
<1>2. CASE ShowLater \/ Expire \/ Spurious \/ Execute \/ Quit
  BY <1>2 DEF ShowLater, Expire, Spurious, Execute, Quit, TaskSet
<1>3. CASE PerfTake \/ PerfSleep \/ PerfDo \/ Posted
  BY <1>3 DEF PerfTake, PerfSleep, Posted, PerfDo, DoStop, DoStart, DoStarted,
              DoLLStart, DoPause, DoCmt, DoUncoreStart, DoUncoreStop, DoSample,
              DoSample2, DoQuit
<1>4. CASE UNCHANGED vars
  BY <1>4 DEF vars
<1>5. QED
  BY <1>1, <1>2, <1>3, <1>4 DEF Next

\* A status of load latency or uncore events is set only when they have been
\* set up, and every task that closes them sets another one, whatever tasks
\* fail, come late or are replaced (os_ll_start, os_uncore_start, os_allstop,
\* os_uncore_stop).
THEOREM StatusTrue == Spec => []StatusHonest
<1>1. Init => StatusHonest
  BY DEF Init, StatusHonest
<1>2. StatusHonest /\ [Next]_vars => StatusHonest'
  <2> SUFFICES ASSUME StatusHonest, [Next]_vars, ppc # "gone"
               PROVE  StatusHonest'
    BY GoneStays DEF StatusHonest
  <2> USE DEF StatusHonest, perfVars, events
  <2>1. CASE ClientStep
    BY <2>1 DEF ClientStep, Ask, StatusWait, WaitAgain, Answer, Flag2Wait,
                Decide, Show, Join
  <2>2. CASE ShowLater \/ Expire \/ Spurious \/ Execute \/ Quit
    BY <2>2 DEF ShowLater, Expire, Spurious, Execute, Quit
  <2>3. CASE PerfTake \/ PerfSleep \/ Posted
    BY <2>3 DEF PerfTake, PerfSleep, Posted
  <2>4. CASE DoStop \/ DoStarted \/ DoUncoreStop
    BY <2>4 DEF DoStop, DoStarted, DoUncoreStop, StatusSet
  <2>5. CASE DoStart
    <3>1. status' \in {"PROFILING", "PROFILING_FAILED"}
      BY <2>5 DEF DoStart, SetUp, StatusSet, Wanted, FailureOf, StatusTasks
    <3>2. QED
      BY <3>1
  <2>6. CASE DoLLStart
    <3>1. \/ status' = "LL" /\ cpu' = "ll"
          \/ status' = "LL_FAILED"
      BY <2>6 DEF DoLLStart, SetUp, StatusSet, Wanted, FailureOf, StatusTasks
    <3>2. QED
      BY <3>1
  <2>7. CASE DoPause
    <3>1. status' \in {"PART", "MULTI", "PROFILING"}
      BY <2>7 DEF DoPause, StatusSet, Wanted, StatusTasks
    <3>2. QED
      BY <3>1
  <2>8. CASE DoCmt
    <3>1. status' \in {"CMT", "PROFILING", "CMT_FAILED"}
      BY <2>8 DEF DoCmt, StatusSet, Wanted, FailureOf, StatusTasks
    <3>2. QED
      BY <3>1
  <2>9. CASE DoUncoreStart
    <3>1. \/ status' = "UNCORE" /\ uncore' = TRUE
          \/ status' = "UNCORE_FAILED"
      BY <2>9 DEF DoUncoreStart, StatusSet, FailureOf
    <3>2. QED
      BY <3>1
  <2>10. CASE DoSample \/ DoSample2
    BY <2>10 DEF DoSample, DoSample2
  <2>11. CASE DoQuit
    BY <2>11 DEF DoQuit, Finish
  <2>12. CASE UNCHANGED vars
    BY <2>12 DEF vars
  <2>13. QED
    BY <2>1, <2>2, <2>3, <2>4, <2>5, <2>6, <2>7, <2>8, <2>9, <2>10, <2>11,
       <2>12 DEF Next, PerfDo
<1>3. QED
  BY <1>1, <1>2, PTL DEF Spec

(***************************************************************************)
(* What is open while nothing has failed or come late                      *)
(***************************************************************************)

\* The statuses in which a page may be shown.
Rest(k) == CASE k = "part" -> {"PART"}
             [] k = "multi" -> {"MULTI"}
             [] k \in {"lat", "lldetail"} -> {"LL"}
             [] k = "uncore" -> {"UNCORE", "PROFILING"}
             [] k \in {"cmt", "mbm"} -> {"CMT", "PROFILING"}
             [] OTHER -> {"PROFILING"}

\* On the way to a page of kind k, with the steps t left to do, the status
\* may be s: one line for each rest of an entry of the switch table.
OnWay(k, t, s) ==
  \/ /\ t \in {<<>>, <<"show">>, <<"sampled", "show">>, <<"SMPL2">>,
               Sampling(k), Tail(Sampling(k))}
     /\ s \in Rest(k)
  \/ /\ k = "plain"
     /\ \/ t = ToProfiling /\ s \in {"PROFILING", "CMT", "UNCORE", "LL"}
        \/ t = <<"CMT_STOP", "sampled", "leave_uncore", "restart", "show">> /\ s = "CMT"
        \/ t = <<"sampled", "leave_uncore", "restart", "show">> /\ s = "PROFILING"
        \/ t = <<"leave_uncore", "restart", "show">> /\ s \in {"PROFILING", "UNCORE", "LL"}
        \/ t = <<"UNCORE_STOP", "sampled", "restart", "show">> /\ s = "UNCORE"
        \/ t = <<"sampled", "restart", "show">> /\ s = "PROFILING"
        \/ t = <<"restart", "show">> /\ s \in {"PROFILING", "LL"}
        \/ t = <<"STOP", "START", "show">> /\ s = "LL"
        \/ t = <<"START", "show">> /\ s = "IDLE"
        \/ t = <<"RESTORE", "sampled", "show">> /\ s \in {"PART", "MULTI"}
  \/ /\ k \in CallChain
     /\ \/ t = Pause(k) \o <<"sampled", "show">> /\ s = "PROFILING"
        \/ t = Pause(k) \o <<"SMPL1">> /\ s \in {"PART", "MULTI"}
  \/ /\ k = "lat"
     /\ \/ t = <<"to_ll", "show">> /\ s = "PROFILING"
        \/ t = <<"STOP", "LL_START", "show">> /\ s = "PROFILING"
        \/ t = <<"LL_START", "show">> /\ s = "IDLE"
  \/ /\ k = "uncore" /\ s = "PROFILING"
     /\ t \in {<<"SMPL2", "UNCORE_STOP", "UNCORE_START", "show">>,
               <<"UNCORE_STOP", "UNCORE_START", "show">>,
               <<"UNCORE_START", "show">>}
  \/ /\ k \in {"cmt", "mbm"} /\ s \in {"PROFILING", "CMT"}
     /\ t \in {SetupCmt, <<"SMPL2", "CMT_STOP", "setup_cmt", "show">>,
               <<"CMT_STOP", "setup_cmt", "show">>}
  \/ /\ k \in {"cmt", "mbm"} /\ s = "PROFILING"
     /\ t \in {<<"SMPL2", "setup_cmt", "show">>, <<"setup_cmt", "show">>,
               <<"CMT_START", "show">>}

\* The statuses in which a task is asked for.
From == [t \in StatusTasks |->
           CASE t \in {"START", "LL_START"} -> {"IDLE"}
             [] t = "STOP" -> {"PROFILING", "LL"}
             [] t \in {"PARTPAUSE", "MULTIPAUSE"} -> {"PROFILING", "PART", "MULTI"}
             [] t = "RESTORE" -> {"PART", "MULTI"}
             [] t = "CMT_STOP" -> {"PROFILING", "CMT"}
             [] t = "UNCORE_STOP" -> {"PROFILING", "UNCORE"}
             [] OTHER -> {"PROFILING"}]

\* The status there will be when the task under way is done.
Settled == IF asked = None THEN status ELSE Wanted[asked]

\* The pages that are opened from a page of kind k.
Opens(k) == CASE k = "plain" -> {"plain", "lat", "uncore", "cmt"} \union CallChain
              [] k = "lat" -> {"lldetail"}
              [] k = "cmt" -> {"plain", "mbm"}
              [] k \in {"uncore", "mbm"} -> {"plain"}
              [] OTHER -> {}

\* The page list begins with the home page, and each page was opened from the
\* one below.
Stacked(p) ==
  p # <<>> => /\ p[1] = "plain"
              /\ \A i \in 1 .. Len(p) - 1 : p[i + 1] \in Opens(p[i])

\* It stays so while no page is left astray.
Orderly == ~hurt => Stacked(pages)

\* The perf thread works on a task only while it has one, and posts only
\* after a sampling.
Working ==
  /\ ppc = "work" <=> job # None /\ ppc # "post"
  /\ ppc = "post" => job \in SampleTasks

\* A client that waits has asked, and one that has asked to quit asks no more.
Asking ==
  /\ asked # None <=> cpc \in {"asked", "wait", "woken", "expired"}
  /\ (ppc = "gone" \/ "QUIT" \in {slot, job}) /\ ~hurt => cpc \in {"join", "gone"}

\* Until its wait ends, the task a client has asked for is in the slot or under way,
\* and the status is as it was when it asked, or it is done; no other task of
\* this kind is about.
InHand ==
  ~hurt => /\ {slot, job} \intersect StatusTasks \subseteq {asked}
           /\ ~(slot = job /\ slot = asked /\ asked # None)
           /\ asked # None =>
                IF asked \in {slot, job} THEN status \in From[asked]
                                         ELSE status = Wanted[asked]

\* The status says everything that is open.
Booked ==
  ~hurt /\ ppc # "gone" =>
    /\ status \notin Failures
    /\ cpu = CASE status = "IDLE" -> "none" [] status = "LL" -> "ll"
                  [] OTHER -> "profiling"
    /\ uncore <=> status = "UNCORE"
    /\ pause <=> status \in {"PART", "MULTI"}

\* The rest of the command at hand leads from the status to the page.
Underway ==
  ~hurt /\ cpc \notin {"join", "gone"} =>
    IF pages = <<>>
    THEN \/ todo = <<"START">> /\ Settled = "IDLE"
         \/ todo = <<>> /\ Settled = "PROFILING"
    ELSE OnWay(Top, todo, Settled)

\* The inductive invariant.
IInv == /\ TypeOK /\ Working /\ Asking /\ InHand /\ Booked /\ Underway
        /\ NothingLeaked /\ Orderly

\* Short sequences, one after the other.
LEMMA Joined ==
  ASSUME NEW S, NEW a \in Seq(S), NEW b \in Seq(S), NEW c \in Seq(S),
         Len(c) = Len(a) + Len(b),
         \A i \in 1 .. Len(c) : c[i] = IF i <= Len(a) THEN a[i] ELSE b[i - Len(a)]
  PROVE  a \o b = c
<1> DEFINE s == a \o b
<1>1. s \in Seq(S)
  OBVIOUS
<1>2. Len(s) = Len(c)
  OBVIOUS
<1>3. \A i \in 1 .. Len(s) : s[i] = c[i]
  BY ConcatProperties, <1>2
<1> HIDE DEF s
<1>4. s = c
  BY <1>1, <1>2, <1>3, SeqEqual, Zenon
<1>5. QED
  BY <1>4 DEF s

\* One step before another.
LEMMA Join11 ==
  ASSUME NEW a \in Steps, NEW b \in Steps
  PROVE  <<a>> \o <<b>> = <<a, b>>
<1> DEFINE p == <<a>>  q == <<b>>  r == <<a, b>>
<1>1. p \in Seq(Steps) /\ q \in Seq(Steps) /\ r \in Seq(Steps)
  OBVIOUS
<1>2. Len(p) = 1 /\ Len(q) = 1 /\ Len(r) = 2
  OBVIOUS
<1>3. /\ r[1] = p[1] /\ r[2] = q[1]
  OBVIOUS
<1> HIDE DEF p, q, r
<1>4. \A i \in 1 .. Len(r) : r[i] = IF i <= Len(p) THEN p[i] ELSE q[i - Len(p)]
  <2> TAKE i \in 1 .. Len(r)
  <2>1. i \in {1, 2}
    BY <1>2
  <2>2. QED
    BY <1>2, <1>3, <2>1
<1>5. Len(r) = Len(p) + Len(q)
  BY <1>2
<1>6. p \o q = r
  BY <1>1, <1>4, <1>5, Joined
<1>7. QED
  BY <1>6 DEF p, q, r

\* One step before two others.
LEMMA Join12 ==
  ASSUME NEW a \in Steps, NEW b \in Steps, NEW c \in Steps
  PROVE  <<a>> \o <<b, c>> = <<a, b, c>>
<1> DEFINE p == <<a>>  q == <<b, c>>  r == <<a, b, c>>
<1>1. p \in Seq(Steps) /\ q \in Seq(Steps) /\ r \in Seq(Steps)
  OBVIOUS
<1>2. Len(p) = 1 /\ Len(q) = 2 /\ Len(r) = 3
  OBVIOUS
<1>3. /\ r[1] = p[1] /\ r[2] = q[1] /\ r[3] = q[2]
  OBVIOUS
<1> HIDE DEF p, q, r
<1>4. \A i \in 1 .. Len(r) : r[i] = IF i <= Len(p) THEN p[i] ELSE q[i - Len(p)]
  <2> TAKE i \in 1 .. Len(r)
  <2>1. i \in {1, 2, 3}
    BY <1>2
  <2>2. QED
    BY <1>2, <1>3, <2>1
<1>5. Len(r) = Len(p) + Len(q)
  BY <1>2
<1>6. p \o q = r
  BY <1>1, <1>4, <1>5, Joined
<1>7. QED
  BY <1>6 DEF p, q, r

\* Two steps before another.
LEMMA Join21 ==
  ASSUME NEW a \in Steps, NEW b \in Steps, NEW c \in Steps
  PROVE  <<a, b>> \o <<c>> = <<a, b, c>>
<1> DEFINE p == <<a, b>>  q == <<c>>  r == <<a, b, c>>
<1>1. p \in Seq(Steps) /\ q \in Seq(Steps) /\ r \in Seq(Steps)
  OBVIOUS
<1>2. Len(p) = 2 /\ Len(q) = 1 /\ Len(r) = 3
  OBVIOUS
<1>3. /\ r[1] = p[1] /\ r[2] = p[2] /\ r[3] = q[1]
  OBVIOUS
<1> HIDE DEF p, q, r
<1>4. \A i \in 1 .. Len(r) : r[i] = IF i <= Len(p) THEN p[i] ELSE q[i - Len(p)]
  <2> TAKE i \in 1 .. Len(r)
  <2>1. i \in {1, 2, 3}
    BY <1>2
  <2>2. QED
    BY <1>2, <1>3, <2>1
<1>5. Len(r) = Len(p) + Len(q)
  BY <1>2
<1>6. p \o q = r
  BY <1>1, <1>4, <1>5, Joined
<1>7. QED
  BY <1>6 DEF p, q, r

\* Leaving the uncore page, before the rest of the way.
LEMMA UncoreStopped ==
  <<"UNCORE_STOP", "sampled">> \o <<"restart", "show">>
    = <<"UNCORE_STOP", "sampled", "restart", "show">>
<1> DEFINE p == <<"UNCORE_STOP", "sampled">>  q == <<"restart", "show">>
           r == <<"UNCORE_STOP", "sampled", "restart", "show">>
<1>1. p \in Seq(Steps) /\ q \in Seq(Steps) /\ r \in Seq(Steps)
  BY DEF Steps, Tasks, StatusTasks
<1>2. Len(p) = 2 /\ Len(q) = 2 /\ Len(r) = 4
  OBVIOUS
<1>3. /\ r[1] = p[1] /\ r[2] = p[2] /\ r[3] = q[1] /\ r[4] = q[2]
  OBVIOUS
<1> HIDE DEF p, q, r
<1>4. \A i \in 1 .. Len(r) : r[i] = IF i <= Len(p) THEN p[i] ELSE q[i - Len(p)]
  <2> TAKE i \in 1 .. Len(r)
  <2>1. i \in {1, 2, 3, 4}
    BY <1>2
  <2>2. QED
    BY <1>2, <1>3, <2>1
<1>5. Len(r) = Len(p) + Len(q)
  BY <1>2
<1>6. p \o q = r
  BY <1>1, <1>4, <1>5, Joined
<1>7. QED
  BY <1>6 DEF p, q, r

\* Leaving the CMT page, before the rest of the way.
LEMMA CmtStopped ==
  <<"CMT_STOP", "sampled">> \o <<"leave_uncore", "restart", "show">>
    = <<"CMT_STOP", "sampled", "leave_uncore", "restart", "show">>
<1> DEFINE p == <<"CMT_STOP", "sampled">>
           q == <<"leave_uncore", "restart", "show">>
           r == <<"CMT_STOP", "sampled", "leave_uncore", "restart", "show">>
<1>1. p \in Seq(Steps) /\ q \in Seq(Steps) /\ r \in Seq(Steps)
  BY DEF Steps, Tasks, StatusTasks
<1>2. Len(p) = 2 /\ Len(q) = 3 /\ Len(r) = 5
  OBVIOUS
<1>3. /\ r[1] = p[1] /\ r[2] = p[2] /\ r[3] = q[1]
      /\ r[4] = q[2] /\ r[5] = q[3]
  OBVIOUS
<1> HIDE DEF p, q, r
<1>4. \A i \in 1 .. Len(r) : r[i] = IF i <= Len(p) THEN p[i] ELSE q[i - Len(p)]
  <2> TAKE i \in 1 .. Len(r)
  <2>1. i \in {1, 2, 3, 4, 5}
    BY <1>2
  <2>2. QED
    BY <1>2, <1>3, <2>1
<1>5. Len(r) = Len(p) + Len(q)
  BY <1>2
<1>6. p \o q = r
  BY <1>1, <1>4, <1>5, Joined
<1>7. QED
  BY <1>6 DEF p, q, r

\* How a page is sampled, by its kind.
LEMMA SamplingCases ==
  ASSUME NEW k \in Kinds
  PROVE  \/ Sampling(k) = <<"SMPL1">> /\ Tail(Sampling(k)) = <<>>
         \/ Sampling(k) = <<"LL_SMPL">> /\ Tail(Sampling(k)) = <<>>
         \/ /\ Sampling(k) = <<"SMPL2", "UNCORE_SMPL">>
            /\ Tail(Sampling(k)) = <<"UNCORE_SMPL">>
         \/ /\ Sampling(k) = <<"SMPL2", "CMT_SMPL">>
            /\ Tail(Sampling(k)) = <<"CMT_SMPL">>
BY DEF Sampling, Kinds, CallChain

\* A task is asked for in a status it is made for, and leads on.
LEMMA AskWay ==
  ASSUME NEW k \in Kinds, NEW t, NEW s,
         OnWay(k, t, s), t # <<>>, Head(t) \in Tasks
  PROVE  IF Head(t) \in StatusTasks
         THEN s \in From[Head(t)] /\ OnWay(k, Tail(t), Wanted[Head(t)])
         ELSE Head(t) # "QUIT" /\ OnWay(k, Tail(t), s)
<1> DEFINE Leads == IF Head(t) \in StatusTasks
                    THEN s \in From[Head(t)] /\ OnWay(k, Tail(t), Wanted[Head(t)])
                    ELSE Head(t) # "QUIT" /\ OnWay(k, Tail(t), s)
<1>1. CASE /\ t \in {<<>>, <<"show">>, <<"sampled", "show">>, <<"SMPL2">>,
                     Sampling(k), Tail(Sampling(k))}
           /\ s \in Rest(k)
  <2>1. t = <<"SMPL2">> \/ t = Sampling(k) \/ t = Tail(Sampling(k))
    BY <1>1 DEF Tasks, StatusTasks, SampleTasks
  <2>2. Head(t) \notin StatusTasks \union {"QUIT"}
    BY <2>1, SamplingCases DEF StatusTasks
  <2>3. Tail(t) \in {<<>>, Tail(Sampling(k))}
    BY <2>1, SamplingCases
  <2>4. QED
    BY <1>1, <2>2, <2>3 DEF OnWay
<1>2. CASE k = "plain" /\ t = <<"CMT_STOP", "sampled", "leave_uncore", "restart", "show">>
                       /\ s = "CMT"
  <2>1. Head(t) = "CMT_STOP" /\ Tail(t) = <<"sampled", "leave_uncore", "restart", "show">>
    BY <1>2
  <2>2. s \in From["CMT_STOP"] /\ Wanted["CMT_STOP"] = "PROFILING"
    BY <1>2 DEF From, Wanted, StatusTasks
  <2>3. QED
    BY <1>2, <2>1, <2>2 DEF OnWay, StatusTasks
<1>3. CASE k = "plain" /\ t = <<"UNCORE_STOP", "sampled", "restart", "show">>
                       /\ s = "UNCORE"
  <2>1. Head(t) = "UNCORE_STOP" /\ Tail(t) = <<"sampled", "restart", "show">>
    BY <1>3
  <2>2. s \in From["UNCORE_STOP"] /\ Wanted["UNCORE_STOP"] = "PROFILING"
    BY <1>3 DEF From, Wanted, StatusTasks
  <2>3. QED
    BY <1>3, <2>1, <2>2 DEF OnWay, StatusTasks
<1>4. CASE k = "plain" /\ t = <<"STOP", "START", "show">> /\ s = "LL"
  <2>1. Head(t) = "STOP" /\ Tail(t) = <<"START", "show">>
    BY <1>4
  <2>2. s \in From["STOP"] /\ Wanted["STOP"] = "IDLE"
    BY <1>4 DEF From, Wanted, StatusTasks
  <2>3. QED
    BY <1>4, <2>1, <2>2 DEF OnWay, StatusTasks
<1>5. CASE k = "plain" /\ t = <<"START", "show">> /\ s = "IDLE"
  <2>1. Head(t) = "START" /\ Tail(t) = <<"show">>
    BY <1>5
  <2>2. s \in From["START"] /\ Wanted["START"] = "PROFILING"
    BY <1>5 DEF From, Wanted, StatusTasks
  <2>3. QED
    BY <1>5, <2>1, <2>2 DEF OnWay, StatusTasks, Rest
<1>6. CASE k = "plain" /\ t = <<"RESTORE", "sampled", "show">> /\ s \in {"PART", "MULTI"}
  <2>1. Head(t) = "RESTORE" /\ Tail(t) = <<"sampled", "show">>
    BY <1>6
  <2>2. s \in From["RESTORE"] /\ Wanted["RESTORE"] = "PROFILING"
    BY <1>6 DEF From, Wanted, StatusTasks
  <2>3. QED
    BY <1>6, <2>1, <2>2 DEF OnWay, StatusTasks, Rest
<1>7. CASE /\ k = "plain"
           /\ t \in {ToProfiling, <<"sampled", "leave_uncore", "restart", "show">>,
                     <<"leave_uncore", "restart", "show">>,
                     <<"sampled", "restart", "show">>, <<"restart", "show">>}
  BY <1>7 DEF ToProfiling, Tasks, StatusTasks, SampleTasks
<1>8. CASE /\ k \in CallChain
           /\ \/ t = Pause(k) \o <<"sampled", "show">> /\ s = "PROFILING"
              \/ t = Pause(k) \o <<"SMPL1">> /\ s \in {"PART", "MULTI"}
  <2> DEFINE a == IF k = "part" THEN "PARTPAUSE" ELSE "MULTIPAUSE"
  <2>1. Pause(k) = <<a>>
    BY DEF Pause
  <2>2. a \in StatusTasks
    BY DEF StatusTasks
  <2>3. s \in From[a] /\ Wanted[a] \in Rest(k)
    BY <1>8, <2>2 DEF From, Wanted, StatusTasks, Rest, CallChain
  <2>4. <<"sampled", "show">> \in Seq(Steps) /\ <<"SMPL1">> \in Seq(Steps)
    BY DEF Steps, Tasks, StatusTasks, SampleTasks
  <2>5. a \in Steps
    BY <2>2 DEF Steps, Tasks
  <2>6. /\ Head(t) = a
        /\ Tail(t) = <<"sampled", "show">> \/ Tail(t) = <<"SMPL1">>
    <3>1. ASSUME NEW u \in Seq(Steps), t = <<a>> \o u
          PROVE  Head(t) = a /\ Tail(t) = u
      BY <2>5, <3>1
    <3>2. QED
      BY <1>8, <2>1, <2>4, <3>1
  <2>7. Sampling(k) = <<"SMPL1">>
    BY <1>8 DEF Sampling, CallChain
  <2>8. QED
    BY <2>2, <2>3, <2>6, <2>7 DEF OnWay
<1>9. CASE k = "lat" /\ t = <<"STOP", "LL_START", "show">> /\ s = "PROFILING"
  <2>1. Head(t) = "STOP" /\ Tail(t) = <<"LL_START", "show">>
    BY <1>9
  <2>2. s \in From["STOP"] /\ Wanted["STOP"] = "IDLE"
    BY <1>9 DEF From, Wanted, StatusTasks
  <2>3. QED
    BY <1>9, <2>1, <2>2 DEF OnWay, StatusTasks
<1>10. CASE k = "lat" /\ t = <<"LL_START", "show">> /\ s = "IDLE"
  <2>1. Head(t) = "LL_START" /\ Tail(t) = <<"show">>
    BY <1>10
  <2>2. s \in From["LL_START"] /\ Wanted["LL_START"] = "LL"
    BY <1>10 DEF From, Wanted, StatusTasks
  <2>3. QED
    BY <1>10, <2>1, <2>2 DEF OnWay, StatusTasks, Rest
<1>11. CASE k = "lat" /\ t = <<"to_ll", "show">>
  BY <1>11 DEF Tasks, StatusTasks, SampleTasks
<1>12. CASE /\ k = "uncore" /\ s = "PROFILING"
            /\ t = <<"SMPL2", "UNCORE_STOP", "UNCORE_START", "show">>
  <2>1. Head(t) = "SMPL2" /\ Tail(t) = <<"UNCORE_STOP", "UNCORE_START", "show">>
    BY <1>12
  <2>2. QED
    BY <1>12, <2>1 DEF OnWay, StatusTasks
<1>13. CASE /\ k = "uncore" /\ s = "PROFILING"
            /\ t = <<"UNCORE_STOP", "UNCORE_START", "show">>
  <2>1. Head(t) = "UNCORE_STOP" /\ Tail(t) = <<"UNCORE_START", "show">>
    BY <1>13
  <2>2. s \in From["UNCORE_STOP"] /\ Wanted["UNCORE_STOP"] = "PROFILING"
    BY <1>13 DEF From, Wanted, StatusTasks
  <2>3. QED
    BY <1>13, <2>1, <2>2 DEF OnWay, StatusTasks
<1>14. CASE k = "uncore" /\ s = "PROFILING" /\ t = <<"UNCORE_START", "show">>
  <2>1. Head(t) = "UNCORE_START" /\ Tail(t) = <<"show">>
    BY <1>14
  <2>2. s \in From["UNCORE_START"] /\ Wanted["UNCORE_START"] = "UNCORE"
    BY <1>14 DEF From, Wanted, StatusTasks
  <2>3. QED
    BY <1>14, <2>1, <2>2 DEF OnWay, StatusTasks, Rest
<1>15. CASE k \in {"cmt", "mbm"} /\ s \in {"PROFILING", "CMT"} /\ t = SetupCmt
  <2>1. t = <<"CMT_STOP", "SMPL2", "setup_cmt", "show">>
    BY <1>15 DEF SetupCmt
  <2>2. Head(t) = "CMT_STOP" /\ Tail(t) = <<"SMPL2", "setup_cmt", "show">>
    BY <2>1
  <2>3. s \in From["CMT_STOP"] /\ Wanted["CMT_STOP"] = "PROFILING"
    BY <1>15 DEF From, Wanted, StatusTasks
  <2>4. QED
    BY <1>15, <2>2, <2>3 DEF OnWay, StatusTasks
<1>16. CASE /\ k \in {"cmt", "mbm"} /\ s \in {"PROFILING", "CMT"}
            /\ t = <<"SMPL2", "CMT_STOP", "setup_cmt", "show">>
  <2>1. Head(t) = "SMPL2" /\ Tail(t) = <<"CMT_STOP", "setup_cmt", "show">>
    BY <1>16
  <2>2. QED
    BY <1>16, <2>1 DEF OnWay, StatusTasks
<1>17. CASE /\ k \in {"cmt", "mbm"} /\ s \in {"PROFILING", "CMT"}
            /\ t = <<"CMT_STOP", "setup_cmt", "show">>
  <2>1. Head(t) = "CMT_STOP" /\ Tail(t) = <<"setup_cmt", "show">>
    BY <1>17
  <2>2. s \in From["CMT_STOP"] /\ Wanted["CMT_STOP"] = "PROFILING"
    BY <1>17 DEF From, Wanted, StatusTasks
  <2>3. QED
    BY <1>17, <2>1, <2>2 DEF OnWay, StatusTasks
<1>18. CASE /\ k \in {"cmt", "mbm"} /\ s = "PROFILING"
            /\ t = <<"SMPL2", "setup_cmt", "show">>
  <2>1. Head(t) = "SMPL2" /\ Tail(t) = <<"setup_cmt", "show">>
    BY <1>18
  <2>2. QED
    BY <1>18, <2>1 DEF OnWay, StatusTasks
<1>19. CASE /\ k \in {"cmt", "mbm"} /\ s = "PROFILING"
            /\ t = <<"CMT_START", "show">>
  <2>1. Head(t) = "CMT_START" /\ Tail(t) = <<"show">>
    BY <1>19
  <2>2. s \in From["CMT_START"] /\ Wanted["CMT_START"] = "CMT"
    BY <1>19 DEF From, Wanted, StatusTasks
  <2>3. QED
    BY <1>19, <2>1, <2>2 DEF OnWay, StatusTasks, Rest
<1>20. CASE k \in {"cmt", "mbm"} /\ t = <<"setup_cmt", "show">>
  BY <1>20 DEF Tasks, StatusTasks, SampleTasks
<1>21. QED
  BY <1>1, <1>2, <1>3, <1>4, <1>5, <1>6, <1>7, <1>8, <1>9, <1>10, <1>11,
     <1>12, <1>13, <1>14, <1>15, <1>16, <1>17, <1>18, <1>19, <1>20 DEF OnWay

\* What is left to do when the next step is one that looks first: the way is
\* known by that step.
LEMMA OnlyWay ==
  ASSUME NEW k \in Kinds, NEW t, NEW s, OnWay(k, t, s), t # <<>>,
         Head(t) \notin Tasks
  PROVE  \/ t \in {<<"show">>, <<"sampled", "show">>} /\ s \in Rest(k)
         \/ /\ k = "plain"
            /\ \/ t = ToProfiling /\ s \in {"PROFILING", "CMT", "UNCORE", "LL"}
               \/ /\ t \in {<<"sampled", "leave_uncore", "restart", "show">>,
                            <<"sampled", "restart", "show">>}
                  /\ s = "PROFILING"
               \/ /\ t = <<"leave_uncore", "restart", "show">>
                  /\ s \in {"PROFILING", "UNCORE", "LL"}
               \/ t = <<"restart", "show">> /\ s \in {"PROFILING", "LL"}
         \/ k = "lat" /\ t = <<"to_ll", "show">> /\ s = "PROFILING"
         \/ k \in {"cmt", "mbm"} /\ t = <<"setup_cmt", "show">> /\ s = "PROFILING"
<1>1. {"CMT_STOP", "UNCORE_STOP", "STOP", "START", "RESTORE", "LL_START", "SMPL2",
       "UNCORE_START", "CMT_START", "PARTPAUSE", "MULTIPAUSE", "SMPL1", "LL_SMPL",
       "UNCORE_SMPL", "CMT_SMPL"} \subseteq Tasks
  BY DEF Tasks, StatusTasks, SampleTasks
<1>2. t # <<"SMPL2">> /\ t # Sampling(k) /\ t # Tail(Sampling(k))
  <2>1. Head(Sampling(k)) \in Tasks
    BY <1>1, SamplingCases
  <2>2. \/ Tail(Sampling(k)) = <<>>
        \/ Head(Tail(Sampling(k))) \in Tasks
    BY <1>1, SamplingCases
  <2>3. Head(<<"SMPL2">>) \in Tasks
    BY <1>1
  <2>4. QED
    BY <2>1, <2>2, <2>3
<1>3. t \notin {Pause(k) \o <<"sampled", "show">>, Pause(k) \o <<"SMPL1">>}
  <2>1. Pause(k) \in {<<"PARTPAUSE">>, <<"MULTIPAUSE">>}
    BY DEF Pause
  <2>2. "PARTPAUSE" \in Steps /\ "MULTIPAUSE" \in Steps /\ "SMPL1" \in Steps
        /\ "sampled" \in Steps /\ "show" \in Steps
    BY <1>1 DEF Steps
  <2>3. \A a \in {"PARTPAUSE", "MULTIPAUSE"} :
          /\ <<a>> \o <<"sampled", "show">> = <<a, "sampled", "show">>
          /\ <<a>> \o <<"SMPL1">> = <<a, "SMPL1">>
    <3> TAKE a \in {"PARTPAUSE", "MULTIPAUSE"}
    <3>1. a \in Steps
      BY <2>2
    <3>2. QED
      BY <2>2, <3>1, Join11, Join12
  <2>4. QED
    BY <1>1, <2>1, <2>3
<1>4. t \notin {SetupCmt, <<"CMT_STOP", "sampled", "leave_uncore", "restart", "show">>,
                <<"UNCORE_STOP", "sampled", "restart", "show">>,
                <<"STOP", "START", "show">>, <<"START", "show">>,
                <<"RESTORE", "sampled", "show">>, <<"STOP", "LL_START", "show">>,
                <<"LL_START", "show">>,
                <<"SMPL2", "UNCORE_STOP", "UNCORE_START", "show">>,
                <<"UNCORE_STOP", "UNCORE_START", "show">>,
                <<"UNCORE_START", "show">>,
                <<"SMPL2", "CMT_STOP", "setup_cmt", "show">>,
                <<"CMT_STOP", "setup_cmt", "show">>,
                <<"SMPL2", "setup_cmt", "show">>, <<"CMT_START", "show">>}
  BY <1>1 DEF SetupCmt
<1>5. QED
  BY <1>2, <1>3, <1>4 DEF OnWay

\* A step that looks first takes the way that the status asks for.
LEMMA DecideWay ==
  ASSUME NEW k \in Kinds, NEW t, OnWay(k, t, status), t # <<>>,
         Head(t) \notin Tasks \union {"show"},
         NEW steps \in Resolve(Head(t))
  PROVE  OnWay(k, steps \o Tail(t), status)
<1>0. \/ t \in {<<"show">>, <<"sampled", "show">>} /\ status \in Rest(k)
      \/ /\ k = "plain"
         /\ \/ t = ToProfiling /\ status \in {"PROFILING", "CMT", "UNCORE", "LL"}
            \/ /\ t \in {<<"sampled", "leave_uncore", "restart", "show">>,
                         <<"sampled", "restart", "show">>}
               /\ status = "PROFILING"
            \/ /\ t = <<"leave_uncore", "restart", "show">>
               /\ status \in {"PROFILING", "UNCORE", "LL"}
            \/ t = <<"restart", "show">> /\ status \in {"PROFILING", "LL"}
      \/ k = "lat" /\ t = <<"to_ll", "show">> /\ status = "PROFILING"
      \/ /\ k \in {"cmt", "mbm"} /\ status = "PROFILING"
         /\ t = <<"setup_cmt", "show">>
  BY OnlyWay
<1>1. /\ "CMT_STOP" \in Steps /\ "UNCORE_STOP" \in Steps /\ "STOP" \in Steps
      /\ "START" \in Steps /\ "LL_START" \in Steps /\ "CMT_START" \in Steps
      /\ "sampled" \in Steps /\ "leave_uncore" \in Steps /\ "restart" \in Steps
      /\ "show" \in Steps /\ "setup_cmt" \in Steps
  BY DEF Steps, Tasks, StatusTasks
<1>2. ASSUME NEW u \in Seq(Steps)
      PROVE  u \o <<>> = u /\ <<>> \o u = u
  BY <1>2, ConcatEmptySeq
<1>h. /\ Head(ToProfiling) = "leave_cmt" /\ Head(<<"show">>) = "show"
      /\ Head(<<"sampled", "show">>) = "sampled"
      /\ Head(<<"sampled", "leave_uncore", "restart", "show">>) = "sampled"
      /\ Head(<<"sampled", "restart", "show">>) = "sampled"
      /\ Head(<<"leave_uncore", "restart", "show">>) = "leave_uncore"
      /\ Head(<<"restart", "show">>) = "restart"
      /\ Head(<<"to_ll", "show">>) = "to_ll"
      /\ Head(<<"setup_cmt", "show">>) = "setup_cmt"
  BY DEF ToProfiling
<1>j. /\ <<"CMT_STOP", "sampled">> \o <<"leave_uncore", "restart", "show">>
           = <<"CMT_STOP", "sampled", "leave_uncore", "restart", "show">>
      /\ <<"UNCORE_STOP", "sampled">> \o <<"restart", "show">>
           = <<"UNCORE_STOP", "sampled", "restart", "show">>
      /\ <<"STOP", "START">> \o <<"show">> = <<"STOP", "START", "show">>
      /\ <<"STOP", "LL_START">> \o <<"show">> = <<"STOP", "LL_START", "show">>
      /\ <<"CMT_START">> \o <<"show">> = <<"CMT_START", "show">>
  <2>1. <<"CMT_STOP", "sampled">> \o <<"leave_uncore", "restart", "show">>
          = <<"CMT_STOP", "sampled", "leave_uncore", "restart", "show">>
    BY CmtStopped
  <2>2. <<"UNCORE_STOP", "sampled">> \o <<"restart", "show">>
          = <<"UNCORE_STOP", "sampled", "restart", "show">>
    BY UncoreStopped
  <2>3. /\ <<"STOP", "START">> \o <<"show">> = <<"STOP", "START", "show">>
        /\ <<"STOP", "LL_START">> \o <<"show">> = <<"STOP", "LL_START", "show">>
    BY <1>1, Join21, Zenon
  <2>4. <<"CMT_START">> \o <<"show">> = <<"CMT_START", "show">>
    BY <1>1, Join11, Zenon
  <2>5. QED
    BY <2>1, <2>2, <2>3, <2>4
<1>3. t # <<"show">>
  BY <1>h
<1>4. CASE Head(t) = "sampled"
  <2>1. steps = <<>>
    BY <1>4 DEF Resolve
  <2>2. \/ t = <<"sampled", "show">> /\ status \in Rest(k)
        \/ /\ k = "plain" /\ status = "PROFILING"
           /\ t \in {<<"sampled", "leave_uncore", "restart", "show">>,
                     <<"sampled", "restart", "show">>}
    <3>1. t # ToProfiling /\ t # <<"show">> /\ t # <<"to_ll", "show">>
      BY <1>4 DEF ToProfiling
    <3>2. /\ t # <<"leave_uncore", "restart", "show">>
          /\ t # <<"restart", "show">> /\ t # <<"setup_cmt", "show">>
      BY <1>4
    <3>3. QED
      BY <1>0, <3>1, <3>2
  <2>3. \/ Tail(t) = <<"show">> /\ status \in Rest(k)
        \/ /\ k = "plain" /\ status = "PROFILING"
           /\ Tail(t) \in {<<"leave_uncore", "restart", "show">>,
                           <<"restart", "show">>}
    <3>1. Tail(<<"sampled", "show">>) = <<"show">>
      OBVIOUS
    <3>2. /\ Tail(<<"sampled", "leave_uncore", "restart", "show">>)
               = <<"leave_uncore", "restart", "show">>
          /\ Tail(<<"sampled", "restart", "show">>) = <<"restart", "show">>
      OBVIOUS
    <3>3. QED
      BY <2>2, <3>1, <3>2
  <2>4. Tail(t) \in Seq(Steps)
    <3>1. <<"show">> \in Seq(Steps)
      BY <1>1
    <3>2. /\ <<"leave_uncore", "restart", "show">> \in Seq(Steps)
          /\ <<"restart", "show">> \in Seq(Steps)
      BY <1>1
    <3>3. QED
      BY <2>3, <3>1, <3>2
  <2>5. OnWay(k, Tail(t), status)
    BY <2>3 DEF OnWay
  <2>6. QED
    BY <1>2, <2>1, <2>4, <2>5
<1>5. CASE t = ToProfiling
  <2>1. Head(t) = "leave_cmt" /\ Tail(t) = <<"leave_uncore", "restart", "show">>
    BY <1>5 DEF ToProfiling
  <2>2. k = "plain" /\ status \in {"PROFILING", "CMT", "UNCORE", "LL"}
    BY <1>0, <1>h, <2>1
  <2>3. CASE status = "CMT"
    <3>1. steps = <<"CMT_STOP", "sampled">>
      BY <2>1, <2>3 DEF Resolve
    <3>2. steps \o Tail(t) = <<"CMT_STOP", "sampled", "leave_uncore", "restart", "show">>
      BY <1>1, <2>1, <3>1, <1>j
    <3>3. QED
      BY <2>2, <2>3, <3>2 DEF OnWay
  <2>4. CASE status # "CMT"
    <3>1. steps = <<>>
      BY <2>1, <2>4 DEF Resolve
    <3>2. steps \o Tail(t) = <<"leave_uncore", "restart", "show">>
      BY <1>1, <1>2, <2>1, <3>1
    <3>3. QED
      BY <2>2, <2>4, <3>2 DEF OnWay
  <2>5. QED
    BY <2>3, <2>4
<1>6. CASE t = <<"leave_uncore", "restart", "show">>
  <2>1. Head(t) = "leave_uncore" /\ Tail(t) = <<"restart", "show">>
    BY <1>6
  <2>2. k = "plain" /\ status \in {"PROFILING", "UNCORE", "LL"}
    BY <1>0, <1>h, <2>1
  <2>3. CASE status = "UNCORE"
    <3>1. steps = <<"UNCORE_STOP", "sampled">>
      BY <2>1, <2>3 DEF Resolve
    <3>2. steps \o Tail(t) = <<"UNCORE_STOP", "sampled", "restart", "show">>
      BY <1>1, <2>1, <3>1, <1>j
    <3>3. QED
      BY <2>2, <2>3, <3>2 DEF OnWay
  <2>4. CASE status # "UNCORE"
    <3>1. steps = <<>>
      BY <2>1, <2>4 DEF Resolve
    <3>2. steps \o Tail(t) = <<"restart", "show">>
      BY <1>1, <1>2, <2>1, <3>1
    <3>3. QED
      BY <2>2, <2>4, <3>2 DEF OnWay
  <2>5. QED
    BY <2>3, <2>4
<1>7. CASE t = <<"restart", "show">>
  <2>1. Head(t) = "restart" /\ Tail(t) = <<"show">>
    BY <1>7
  <2>2. k = "plain" /\ status \in {"PROFILING", "LL"}
    BY <1>0, <1>h, <2>1
  <2>3. CASE status = "LL"
    <3>1. steps = <<"STOP", "START">>
      BY <2>1, <2>3 DEF Resolve, ProfilingStarted
    <3>2. steps \o Tail(t) = <<"STOP", "START", "show">>
      BY <1>1, <2>1, <3>1, <1>j
    <3>3. QED
      BY <2>2, <2>3, <3>2 DEF OnWay
  <2>4. CASE status = "PROFILING"
    <3>1. steps = <<>>
      BY <2>1, <2>4 DEF Resolve, ProfilingStarted
    <3>2. steps \o Tail(t) = <<"show">>
      BY <1>1, <1>2, <2>1, <3>1
    <3>3. QED
      BY <2>2, <2>4, <3>2 DEF OnWay, Rest
  <2>5. QED
    BY <2>2, <2>3, <2>4
<1>8. CASE t = <<"to_ll", "show">>
  <2>1. Head(t) = "to_ll" /\ Tail(t) = <<"show">>
    BY <1>8
  <2>2. k = "lat" /\ status = "PROFILING"
    BY <1>0, <1>h, <2>1
  <2>3. steps = <<"STOP", "LL_START">>
    BY <2>1, <2>2 DEF Resolve
  <2>4. steps \o Tail(t) = <<"STOP", "LL_START", "show">>
    BY <1>1, <2>1, <2>3, <1>j
  <2>5. QED
    BY <2>2, <2>4 DEF OnWay
<1>9. CASE t = <<"setup_cmt", "show">>
  <2>1. Head(t) = "setup_cmt" /\ Tail(t) = <<"show">>
    BY <1>9
  <2>2. k \in {"cmt", "mbm"} /\ status \in {"PROFILING", "CMT"}
    BY <1>0, <1>h, <2>1
  <2>3. steps \in {<<"CMT_START">>, <<>>}
    BY <2>1 DEF Resolve
  <2>4. CASE steps = <<"CMT_START">>
    <3>1. steps \o Tail(t) = <<"CMT_START", "show">>
      BY <1>1, <2>1, <2>4, <1>j
    <3>2. status = "PROFILING"
      BY <1>0, <1>h, <2>1
    <3>3. QED
      BY <2>2, <3>1, <3>2 DEF OnWay
  <2>5. CASE steps = <<>>
    <3>1. steps \o Tail(t) = <<"show">>
      BY <1>1, <1>2, <2>1, <2>5
    <3>2. QED
      BY <2>2, <3>1 DEF OnWay, Rest
  <2>6. QED
    BY <2>3, <2>4, <2>5
<1>10. QED
  BY <1>3, <1>4, <1>5, <1>6, <1>7, <1>8, <1>9, <1>0

\* The page is shown at the end of the way, with a sampling or without, or it
\* is not shown.
LEMMA ShowWay ==
  ASSUME NEW k \in Kinds, NEW t, NEW s, OnWay(k, t, s), t # <<>>, Head(t) = "show"
  PROVE  /\ Tail(t) = <<>>
         /\ OnWay(k, <<>>, s) /\ OnWay(k, Sampling(k), s)
         /\ \A u \in {<<>>, Sampling(k)} : u \o Tail(t) = u
<1>1. t = <<"show">> /\ s \in Rest(k)
  <2>1. "show" \notin Tasks
    BY DEF Tasks, StatusTasks, SampleTasks
  <2>2. QED
    BY <2>1, OnlyWay DEF ToProfiling
<1>2. Tail(t) = <<>>
  BY <1>1
<1>3. \A u \in {<<>>, Sampling(k)} : u \o <<>> = u
  <2>1. Sampling(k) \in Seq(Steps) /\ <<>> \in Seq(Steps)
    BY SamplingType
  <2>2. QED
    BY <2>1, ConcatEmptySeq
<1>4. QED
  BY <1>1, <1>2, <1>3 DEF OnWay

\* When nothing is left to do, the page may be shown.
LEMMA WayEnd ==
  ASSUME NEW k \in Kinds, NEW s, OnWay(k, <<>>, s)
  PROVE  s \in Rest(k)
<1>1. <<>> # Pause(k) \o <<"sampled", "show">> /\ <<>> # Pause(k) \o <<"SMPL1">>
  <2>1. Pause(k) \in {<<"PARTPAUSE">>, <<"MULTIPAUSE">>}
    BY DEF Pause
  <2>2. /\ Pause(k) \in Seq(Steps) /\ Len(Pause(k)) = 1
        /\ <<"sampled", "show">> \in Seq(Steps) /\ <<"SMPL1">> \in Seq(Steps)
    <3>1. /\ <<"sampled", "show">> \in Seq(Steps) /\ <<"SMPL1">> \in Seq(Steps)
          /\ <<"PARTPAUSE">> \in Seq(Steps) /\ <<"MULTIPAUSE">> \in Seq(Steps)
      BY DEF Steps, Tasks, StatusTasks, SampleTasks
    <3>2. QED
      BY <2>1, <3>1
  <2>3. Len(Pause(k) \o <<"sampled", "show">>) >= 1 /\ Len(Pause(k) \o <<"SMPL1">>) >= 1
    BY <2>2
  <2>4. QED
    BY <2>3
<1>2. QED
  BY <1>1 DEF OnWay, ToProfiling, SetupCmt

\* A page that is opened keeps the order of the page list.
LEMMA PushStacked ==
  ASSUME NEW p \in Seq(Kinds), p # <<>>, Stacked(p),
         NEW k \in Kinds, k \in Opens(p[Len(p)])
  PROVE  /\ Append(p, k) # <<>> /\ Append(p, k)[Len(Append(p, k))] = k
         /\ Stacked(Append(p, k))
<1> DEFINE q == Append(p, k)
<1>1. /\ q \in Seq(Kinds) /\ Len(q) = Len(p) + 1 /\ q[Len(p) + 1] = k
      /\ \A i \in 1 .. Len(p) : q[i] = p[i]
  BY AppendProperties
<1>2. Len(p) \in Nat /\ Len(p) >= 1
  OBVIOUS
<1> HIDE DEF q
<1>3. q # <<>>
  BY <1>1, <1>2
<1>4. q[1] = "plain"
  BY <1>1, <1>2 DEF Stacked
<1>5. ASSUME NEW i \in 1 .. Len(q) - 1 PROVE q[i + 1] \in Opens(q[i])
  <2>1. CASE i < Len(p)
    <3>1. i \in 1 .. Len(p) /\ i + 1 \in 1 .. Len(p) /\ i \in 1 .. Len(p) - 1
      BY <1>1, <1>2, <2>1
    <3>2. p[i + 1] \in Opens(p[i])
      BY <3>1 DEF Stacked
    <3>3. QED
      BY <1>1, <3>1, <3>2
  <2>2. CASE i = Len(p)
    BY <1>1, <1>2, <2>2
  <2>3. QED
    BY <1>1, <1>2, <2>1, <2>2
<1>6. QED
  BY <1>1, <1>3, <1>4, <1>5 DEF Stacked, q

\* The page below, and what was opened from it.
LEMMA BelowStacked ==
  ASSUME pages \in Seq(Kinds), pages # <<>>, Stacked(pages), Len(pages) >= 2
  PROVE  /\ Below \in Seq(Kinds) /\ Below # <<>> /\ Stacked(Below)
         /\ Top \in Opens(Below[Len(Below)])
         /\ Below[Len(Below)] \in Kinds
<1> DEFINE q == Below
<1>0. Len(pages) \in Nat
  OBVIOUS
<1>1. /\ q \in Seq(Kinds) /\ Len(q) = Len(pages) - 1
      /\ \A i \in 1 .. Len(pages) - 1 : q[i] = pages[i]
  <2>1. \A i \in 1 .. Len(pages) - 1 : pages[i] \in Kinds
    OBVIOUS
  <2>2. QED
    BY <2>1, SubSeqProperties DEF Below
<1>2. Top = pages[Len(pages)]
  BY DEF Top
<1> HIDE DEF q
<1>3. q # <<>>
  BY <1>0, <1>1
<1>4. Stacked(q)
  BY <1>0, <1>1 DEF Stacked
<1>5. Top \in Opens(q[Len(q)])
  <2>1. Len(pages) - 1 \in 1 .. Len(pages) - 1
    BY <1>0
  <2>2. pages[Len(pages) - 1 + 1] \in Opens(pages[Len(pages) - 1])
    BY <2>1 DEF Stacked
  <2>3. Len(pages) - 1 + 1 = Len(pages)
    BY <1>0
  <2>4. QED
    BY <1>1, <1>2, <2>1, <2>2, <2>3
<1>6. q[Len(q)] \in Kinds
  BY <1>0, <1>1
<1>7. QED
  BY <1>1, <1>3, <1>4, <1>5, <1>6 DEF q

\* The call-chain page is left for a page with the profiling data.
LEMMA LeaveWay ==
  ASSUME NEW s \in {"PART", "MULTI"}
  PROVE  OnWay("plain", LeaveCallChain, s)
BY DEF OnWay, LeaveCallChain

\* The entries of the switch table: each leads from the status of the page
\* that is shown to the page it opens, refreshes or goes back to.
LEMMA ExecuteWay ==
  ASSUME pages \in Seq(Kinds), Stacked(pages), NEW c \in Commands, NEW s,
         IF pages = <<>> THEN s = "PROFILING" ELSE s \in Rest(Top),
         ~Astray(c)
  PROVE  /\ c.pages # <<>> /\ Stacked(c.pages)
         /\ OnWay(c.pages[Len(c.pages)], c.steps, s)
<1> DEFINE Led(p, t) == p # <<>> /\ Stacked(p) /\ OnWay(p[Len(p)], t, s)
<1>1. /\ \A p, t : Led(p, t) /\ c.pages = p /\ c.steps = t =>
           /\ c.pages # <<>> /\ Stacked(c.pages)
           /\ OnWay(c.pages[Len(c.pages)], c.steps, s)
      /\ \A p, t : c = To(p, t) => c.pages = p /\ c.steps = t /\ ~c.new
      /\ \A p, k, t : c = New(p, k, t) => /\ c.pages = Append(p, k) /\ c.steps = t
                                         /\ c.new
      /\ \A k, t : c = Push(k, t) => c.pages = Append(pages, k) /\ c.steps = t /\ c.new
  BY DEF To, New, Push
<1>2. {"plain", "part", "multi", "lat", "lldetail", "uncore", "cmt", "mbm"} = Kinds
  BY DEF Kinds, CallChain
<1>3. /\ pages # <<>> => Top \in Kinds /\ Top = pages[Len(pages)] /\ Top # "raw"
      /\ Type = "raw" \/ Type = Top
      /\ pages # <<>> /\ c.new => Type = Top
  <2>1. pages # <<>> => Top \in Kinds /\ Top = pages[Len(pages)]
    BY DEF Top
  <2>2. Type = "raw" \/ Type = Top
    BY DEF Type
  <2>3. "raw" \notin Kinds
    BY DEF Kinds, CallChain
  <2>4. QED
    BY <2>1, <2>2, <2>3 DEF Astray
<1>4. ASSUME pages # <<>>, NEW k \in Kinds, k \in Opens(Top), NEW t,
             OnWay(k, t, s), c = Push(k, t)
      PROVE  \E p, u : Led(p, u) /\ c.pages = p /\ c.steps = u
  <2>1. Led(Append(pages, k), t)
    BY <1>3, <1>4, PushStacked
  <2>2. QED
    BY <1>1, <1>4, <2>1
<1>5. CASE c \in Home
  <2>1. Led(<<"plain">>, LeaveCallChain) \/ ~(pages # <<>> /\ Top \in CallChain)
    <3>1. pages # <<>> /\ Top \in CallChain => s \in {"PART", "MULTI"}
      BY DEF Rest, CallChain
    <3>2. QED
      BY <3>1, LeaveWay DEF Stacked
  <2>2. Led(<<"plain">>, ToProfiling) \/ (pages # <<>> /\ Top \in CallChain)
    <3>1. ~(pages # <<>> /\ Top \in CallChain)
             => s \in {"PROFILING", "CMT", "UNCORE", "LL"}
      BY DEF Rest, CallChain
    <3>2. QED
      BY <3>1 DEF Stacked, OnWay
  <2>3. \/ /\ c = New(<<>>, "plain", LeaveCallChain)
           /\ pages # <<>> /\ Type \in CallChain
        \/ /\ c = New(<<>>, "plain", ToProfiling)
           /\ ~(pages # <<>> /\ Type \in CallChain)
    BY <1>5 DEF Home
  <2>4. c.pages = <<"plain">> /\ (pages # <<>> => Type = Top)
    <3>1. Append(<<>>, "plain") = <<"plain">>
      OBVIOUS
    <3>2. QED
      BY <1>1, <1>3, <2>3, <3>1
  <2>5. \/ c.steps = LeaveCallChain /\ pages # <<>> /\ Top \in CallChain
        \/ c.steps = ToProfiling /\ ~(pages # <<>> /\ Top \in CallChain)
    BY <1>1, <2>3, <2>4
  <2>6. QED
    BY <1>1, <2>1, <2>2, <2>4, <2>5
<1>6. CASE pages # <<>> /\ c \in Open
  <2> DEFINE Opened(k, t) == k \in Opens(Top) /\ OnWay(k, t, s) /\ c = Push(k, t)
  <2>0. Type = Top
    <3>1. c.new
      BY <1>1, <1>6 DEF Open
    <3>2. QED
      BY <1>3, <1>6, <3>1
  <2>1. ASSUME NEW k \in Kinds, NEW t, Opened(k, t)
        PROVE  \E p, u : Led(p, u) /\ c.pages = p /\ c.steps = u
    BY <1>4, <1>6, <2>1
  <2>2. CASE Top = "plain"
    <3>1. s = "PROFILING"
      BY <1>6, <2>2 DEF Rest
    <3>2. /\ OnWay("plain", <<"show">>, s) /\ OnWay("plain", ToProfiling, s)
          /\ OnWay("lat", <<"to_ll", "show">>, s)
          /\ OnWay("uncore", <<"SMPL2", "UNCORE_STOP", "UNCORE_START", "show">>, s)
          /\ OnWay("cmt", SetupCmt, s)
      <4>1. OnWay("plain", <<"show">>, s) /\ OnWay("plain", ToProfiling, s)
        BY <3>1 DEF OnWay, Rest
      <4>2. OnWay("lat", <<"to_ll", "show">>, s)
        BY <3>1 DEF OnWay
      <4>3. OnWay("uncore", <<"SMPL2", "UNCORE_STOP", "UNCORE_START", "show">>, s)
        BY <3>1 DEF OnWay
      <4>4. OnWay("cmt", SetupCmt, s)
        BY <3>1 DEF OnWay
      <4>5. QED
        BY <4>1, <4>2, <4>3, <4>4
    <3>3. OnWay(RmaPause, Pause(RmaPause) \o <<"sampled", "show">>, s)
      BY <3>1, PerfCtlAssumption DEF OnWay, CallChain
    <3>4. /\ {"plain", "lat", "uncore", "cmt", RmaPause} \subseteq Opens(Top)
          /\ {"plain", "lat", "uncore", "cmt", RmaPause} \subseteq Kinds
      BY <1>2, <2>2, PerfCtlAssumption DEF Opens, CallChain
    <3>5. c \in {Push("plain", <<"show">>), Push("plain", ToProfiling),
                 Push(RmaPause, Pause(RmaPause) \o <<"sampled", "show">>),
                 Push("lat", <<"to_ll", "show">>),
                 Push("uncore", <<"SMPL2", "UNCORE_STOP", "UNCORE_START", "show">>),
                 Push("cmt", SetupCmt)}
      BY <1>6, <2>0, <2>2 DEF Open
    <3>6. \E k \in Kinds : \E t : Opened(k, t)
      BY <3>2, <3>3, <3>4, <3>5
    <3>7. QED
      BY <1>1, <2>1, <3>6
  <2>3. CASE Top = "lat"
    <3>1. OnWay("lldetail", <<"show">>, s)
      BY <1>6, <2>3 DEF OnWay, Rest
    <3>2. c = Push("lldetail", <<"show">>) /\ "lldetail" \in Opens(Top)
      BY <1>6, <2>0, <2>3 DEF Open, Opens
    <3>3. QED
      BY <1>1, <1>2, <2>1, <3>1, <3>2
  <2>4. CASE Top = "cmt"
    <3>1. s \in {"PROFILING", "CMT"}
      BY <1>6, <2>4 DEF Rest
    <3>2. /\ OnWay("plain", ToProfiling, s)
          /\ OnWay("mbm", <<"SMPL2", "CMT_STOP", "setup_cmt", "show">>, s)
      BY <3>1 DEF OnWay
    <3>3. /\ \/ c = Push("plain", ToProfiling)
             \/ c = Push("mbm", <<"SMPL2", "CMT_STOP", "setup_cmt", "show">>)
          /\ {"plain", "mbm"} \subseteq Opens(Top)
      BY <1>6, <2>0, <2>4 DEF Open, Opens
    <3>4. QED
      BY <1>1, <1>2, <2>1, <3>2, <3>3
  <2>5. CASE Top \in {"uncore", "mbm"}
    <3>1. OnWay("plain", ToProfiling, s)
      BY <1>6, <2>5 DEF OnWay, Rest
    <3>2. c = Push("plain", ToProfiling) /\ "plain" \in Opens(Top)
      BY <1>6, <2>0, <2>5 DEF Open, Opens
    <3>3. QED
      BY <1>1, <1>2, <2>1, <3>1, <3>2
  <2>6. QED
    BY <1>3, <1>6, <2>0, <2>2, <2>3, <2>4, <2>5 DEF Open
<1>7. CASE pages # <<>> /\ c \in {To(pages, Sampling(Top)), To(pages, <<"SMPL2">>)}
  <2>1. Led(pages, Sampling(Top)) /\ Led(pages, <<"SMPL2">>)
    BY <1>3, <1>7 DEF OnWay
  <2>2. QED
    BY <1>1, <1>7, <2>1
<1>8. CASE /\ pages # <<>> /\ Type \in CallChain
           /\ \E k \in {"part", RmaPause} :
                c = To(Append(Below, k), Pause(k) \o <<"SMPL1">>)
  <2>1. PICK k \in {"part", RmaPause} :
          c = To(Append(Below, k), Pause(k) \o <<"SMPL1">>)
    BY <1>8
  <2>0. Top \in CallChain
    BY <1>3, <1>8 DEF CallChain
  <2>2. k \in CallChain /\ k \in Kinds
    BY <1>2, PerfCtlAssumption DEF CallChain
  <2>3. Len(pages) >= 2
    BY <1>3, <1>8, <2>0 DEF Stacked, CallChain
  <2>4. /\ Below \in Seq(Kinds) /\ Below # <<>> /\ Stacked(Below)
        /\ Top \in Opens(Below[Len(Below)])
    BY <1>8, <2>3, BelowStacked
  <2>5. Below[Len(Below)] = "plain"
    BY <2>0, <2>4 DEF Opens, CallChain
  <2>6. k \in Opens(Below[Len(Below)])
    BY <2>2, <2>5 DEF Opens
  <2>7. s \in {"PART", "MULTI"}
    BY <1>8, <2>0 DEF Rest, CallChain
  <2>8. OnWay(k, Pause(k) \o <<"SMPL1">>, s)
    BY <2>2, <2>7 DEF OnWay
  <2>9. Led(Append(Below, k), Pause(k) \o <<"SMPL1">>)
    BY <2>2, <2>4, <2>6, <2>8, PushStacked
  <2>10. QED
    BY <1>1, <2>1, <2>9
<1>9. CASE Len(pages) >= 2 /\ c \in Back
  <2>0. pages # <<>> /\ Type = Top
    BY <1>3, <1>9 DEF Back
  <2>1. /\ Below # <<>> /\ Stacked(Below)
        /\ Top \in Opens(Below[Len(Below)]) /\ Below[Len(Below)] \in Kinds
    BY <1>9, <2>0, BelowStacked
  <2> DEFINE b == Below[Len(Below)]
  <2>2. s \in Rest(Top)
    BY <2>0
  <2>3. CASE Top \in CallChain
    <3>1. b = "plain" /\ s \in {"PART", "MULTI"}
      BY <2>1, <2>2, <2>3 DEF Opens, CallChain, Rest
    <3>2. OnWay("plain", LeaveCallChain, s)
      BY <3>1, LeaveWay
    <3>3. c = To(Below, LeaveCallChain)
      BY <1>3, <1>9, <2>0, <2>3 DEF Back, CallChain
    <3>4. QED
      BY <1>1, <2>1, <3>1, <3>2, <3>3
  <2>4. CASE Top \in {"lat", "uncore", "cmt"}
    <3>1. b = "plain" /\ s \in {"PROFILING", "CMT", "UNCORE", "LL"}
      BY <2>1, <2>2, <2>4 DEF Opens, Rest
    <3>2. OnWay(b, ToProfiling, s)
      BY <3>1 DEF OnWay
    <3>3. c = To(Below, ToProfiling)
      BY <1>3, <1>9, <2>0, <2>4 DEF Back, CallChain
    <3>4. QED
      BY <1>1, <2>1, <3>2, <3>3
  <2>5. CASE Top = "mbm"
    <3>1. b = "cmt" /\ s \in {"PROFILING", "CMT"}
      BY <2>1, <2>2, <2>5 DEF Opens, Rest, CallChain
    <3>2. OnWay(b, SetupCmt, s)
      BY <3>1 DEF OnWay
    <3>3. c = To(Below, SetupCmt)
      BY <1>3, <1>9, <2>0, <2>5 DEF Back, CallChain
    <3>4. QED
      BY <1>1, <2>1, <3>2, <3>3
  <2>6. CASE Top \in {"plain", "lldetail"}
    <3>1. s \in Rest(b)
      BY <2>1, <2>2, <2>6 DEF Opens, Rest, CallChain
    <3>2. OnWay(b, <<"show">>, s)
      BY <3>1 DEF OnWay
    <3>3. c = To(Below, <<"show">>)
      BY <1>3, <1>9, <2>0, <2>6 DEF Back, CallChain
    <3>4. QED
      BY <1>1, <2>1, <3>2, <3>3
  <2>7. QED
    BY <1>2, <1>3, <2>0, <2>3, <2>4, <2>5, <2>6 DEF CallChain
<1>10. Len(pages) >= 2 => pages # <<>>
  OBVIOUS
<1>11. QED
  BY <1>5, <1>6, <1>7, <1>8, <1>9, <1>10 DEF Commands, Refresh

\* perf_init's first task leads to the home page.
LEMMA InitIInv == Init => IInv
<1> SUFFICES ASSUME Init PROVE IInv
  OBVIOUS
<1>1. TypeOK
  BY InitType
<1>2. Working /\ Asking /\ InHand /\ NothingLeaked
  BY PerfCtlAssumption
     DEF Init, Working, Asking, InHand, NothingLeaked, Tasks, StatusTasks
<1>3. Booked
  BY DEF Init, Booked, Failures
<1>4. Underway /\ Orderly
  BY DEF Init, Underway, Orderly, Stacked, Settled
<1>5. QED
  BY <1>1, <1>2, <1>3, <1>4 DEF IInv

\* A task that sets a status has done its work.
LEMMA TaskDone ==
  ASSUME IInv, TypeOK', ppc = "work", job \in StatusTasks,
         job' = None, ppc' = "test" \/ (ppc' = "gone" /\ hurt'),
         cpc' = IF cpc = "wait" THEN "woken" ELSE cpc,
         UNCHANGED <<slot, asked, pages, todo>>,
         hurt => hurt', ~hurt' => status' = Wanted[job], Booked', NothingLeaked'
  PROVE  IInv'
<1> USE DEF IInv
<1>0. ppc' \in {"test", "gone"} /\ job' = None
  OBVIOUS
<1>1. Working'
  BY <1>0 DEF Working
<1>2. Asking'
  <2>1. None # "QUIT"
    BY PerfCtlAssumption DEF Tasks
  <2>2. QED
    BY <1>0, <2>1 DEF Asking
<1>3. ~hurt' => asked = job /\ slot \notin StatusTasks
  BY PerfCtlAssumption DEF InHand, TypeOK, Tasks
<1>4. InHand'
  BY <1>3, PerfCtlAssumption DEF InHand, Tasks
<1>5. ~hurt' => Settled' = Settled
  BY <1>3, PerfCtlAssumption DEF Settled, Tasks
<1>6. Underway'
  BY <1>5 DEF Underway, Top
<1>7. Orderly'
  BY DEF Orderly, Stacked
<1>8. QED
  BY <1>1, <1>2, <1>4, <1>6, <1>7

\* The other steps of the perf thread leave the status and the events alone.
LEMMA PerfElse ==
  ASSUME IInv, TypeOK', PerfTake \/ PerfSleep \/ DoSample \/ DoSample2 \/ Posted
  PROVE  IInv'
<1> USE DEF IInv
<1>0. None \notin StatusTasks \union {"QUIT"}
  BY PerfCtlAssumption DEF Tasks
<1>1. /\ UNCHANGED <<status, cpu, uncore, pause, leaked, asked, pages, todo, hurt>>
      /\ cpc' = cpc \/ (cpc = "flag2_sleep" /\ cpc' = "flag2")
      /\ ppc # "gone" /\ ppc' # "gone"
  <2>1. CASE PerfTake
    BY <2>1 DEF PerfTake, events, command
  <2>2. CASE PerfSleep
    BY <2>2 DEF PerfSleep, events, command
  <2>3. CASE DoSample
    BY <2>3 DEF DoSample, Finish, events, command
  <2>4. CASE DoSample2
    BY <2>4 DEF DoSample2, Finish, events, command
  <2>5. CASE Posted
    BY <2>5 DEF Posted, Finish, events, command
  <2>6. QED
    BY <2>1, <2>2, <2>3, <2>4, <2>5
<1>2. /\ Working'
      /\ \/ slot' = None /\ job' = slot /\ job = None
         \/ slot' = slot /\ job' = job
         \/ slot' = slot /\ job' = None /\ job \notin StatusTasks \union {"QUIT"}
  <2>1. CASE PerfTake
    BY <2>1, PerfCtlAssumption DEF PerfTake, Working
  <2>2. CASE PerfSleep
    BY <2>2 DEF PerfSleep, Working
  <2>3. CASE DoSample
    <3>1. job \notin StatusTasks \union {"QUIT"}
      BY <2>3 DEF DoSample, SampleTasks, StatusTasks
    <3>2. QED
      BY <2>3, <3>1 DEF DoSample, Finish, Working
  <2>4. CASE DoSample2
    <3>1. job \notin StatusTasks \union {"QUIT"}
      BY <2>4 DEF DoSample2, StatusTasks
    <3>2. QED
      BY <2>4, <3>1 DEF DoSample2, Finish, Working
  <2>5. CASE Posted
    <3>1. job \notin StatusTasks \union {"QUIT"}
      BY <2>5 DEF Posted, Working, SampleTasks, StatusTasks
    <3>2. QED
      BY <2>5, <3>1 DEF Posted, Finish, Working
  <2>6. QED
    BY <2>1, <2>2, <2>3, <2>4, <2>5
<1>3. Asking'
  BY <1>0, <1>1, <1>2 DEF Asking
<1>4. InHand'
  <2>1. asked \in StatusTasks \union {None} /\ asked' = asked
    BY <1>1 DEF TypeOK
  <2>2. CASE slot' = None /\ job' = slot /\ job = None
    BY <1>0, <1>1, <2>1, <2>2 DEF InHand
  <2>3. CASE slot' = slot /\ job' = job
    BY <1>1, <2>3 DEF InHand
  <2>4. CASE slot' = slot /\ job' = None /\ job \notin StatusTasks \union {"QUIT"}
    BY <1>0, <1>1, <2>1, <2>4 DEF InHand
  <2>5. QED
    BY <1>2, <2>2, <2>3, <2>4
<1>5. Booked' /\ NothingLeaked'
  BY <1>1 DEF Booked, NothingLeaked
<1>6. Underway'
  BY <1>1 DEF Underway, Settled, Top
<1>7. Orderly'
  BY <1>1 DEF Orderly, Stacked
<1>8. QED
  BY <1>2, <1>3, <1>4, <1>5, <1>6, <1>7

\* The tasks that set a status.
LEMMA PerfStatus ==
  ASSUME IInv, TypeOK', ppc = "work",
         \/ DoStop \/ DoStart \/ DoStarted \/ DoLLStart \/ DoPause \/ DoCmt
         \/ DoUncoreStart \/ DoUncoreStop
  PROVE  IInv'
<1> USE DEF IInv
<1>1. /\ job \in StatusTasks
      /\ job' = None /\ UNCHANGED <<slot, asked, pages, todo>>
      /\ cpc' = IF cpc = "wait" THEN "woken" ELSE cpc
  <2>1. CASE DoStop \/ DoStarted \/ DoPause \/ DoCmt \/ DoUncoreStart \/ DoUncoreStop
    BY <2>1 DEF DoStop, DoStarted, DoPause, DoCmt, DoUncoreStart, DoUncoreStop,
                StatusSet, Finish, StatusTasks, command
  <2>2. CASE DoStart \/ DoLLStart
    BY <2>2 DEF DoStart, DoLLStart, SetUp, StatusSet, Finish, StatusTasks, command
  <2>3. QED
    BY <2>1, <2>2
<1>2. ~hurt => /\ status \in From[job] /\ status \notin Failures
               /\ cpu = CASE status = "IDLE" -> "none" [] status = "LL" -> "ll"
                            [] OTHER -> "profiling"
               /\ uncore <=> status = "UNCORE"
               /\ pause <=> status \in {"PART", "MULTI"}
  <2>1. ~hurt => asked = job /\ asked # None
    BY <1>1, PerfCtlAssumption DEF InHand, Tasks
  <2>2. QED
    BY <2>1 DEF InHand, Booked
<1> DEFINE Settles == /\ ppc' = "test" \/ (ppc' = "gone" /\ hurt')
                      /\ hurt => hurt'
                      /\ ~hurt' => status' = Wanted[job]
                      /\ Booked' /\ NothingLeaked'
<1>3. CASE DoStop
  <2>1. ~hurt => status \in {"PROFILING", "LL"}
    BY <1>1, <1>2, <1>3 DEF DoStop, From
  <2>2. ~hurt => AfterStop.cpu = "none" /\ AfterStop.uncore = FALSE
    BY <1>2, <2>1 DEF AfterStop, ProfilingStarted
  <2>3. Wanted["STOP"] = "IDLE"
    BY DEF Wanted, StatusTasks
  <2>4. Settles
    BY <1>2, <1>3, <2>1, <2>2, <2>3
       DEF DoStop, StatusSet, Finish, Booked, NothingLeaked, Failures
  <2>5. QED
    BY <1>1, <2>4, TaskDone
<1>4. CASE DoStart
  <2>1. ~hurt => status = "IDLE"
    BY <1>1, <1>2, <1>4 DEF DoStart, From
  <2>2. ~hurt => AfterStop.cpu = "none" /\ AfterStop.uncore = FALSE
    BY <1>2, <2>1 DEF AfterStop, ProfilingStarted
  <2>3. Wanted["START"] = "PROFILING"
    BY DEF Wanted, StatusTasks
  <2>4. /\ pause' = pause /\ uncore' = AfterStop.uncore
        /\ leaked' = (leaked \/ AfterStop.cpu # "none")
        /\ \/ /\ cpu' = "profiling" /\ status' = "PROFILING"
              /\ ppc' = "test" /\ hurt' = hurt
           \/ ppc' = "gone" /\ hurt' = TRUE
    BY <1>4, <2>3 DEF DoStart, SetUp, StatusSet, Finish
  <2>5. Settles
    BY <1>2, <1>4, <2>1, <2>2, <2>3, <2>4
       DEF DoStart, Booked, NothingLeaked, Failures
  <2>6. QED
    BY <1>1, <2>5, TaskDone
<1>5. CASE DoStarted
  <2>1. hurt
    BY <1>1, <1>2, <1>5 DEF DoStarted, From, ProfilingStarted
  <2>2. Settles
    BY <1>5, <2>1 DEF DoStarted, Finish, Booked, NothingLeaked
  <2>3. QED
    BY <1>1, <2>2, TaskDone
<1>6. CASE DoLLStart
  <2>1. ~hurt => status = "IDLE"
    BY <1>1, <1>2, <1>6 DEF DoLLStart, From
  <2>2. ~hurt => AfterStop.cpu = "none" /\ AfterStop.uncore = FALSE
    BY <1>2, <2>1 DEF AfterStop, ProfilingStarted
  <2>3. Wanted["LL_START"] = "LL"
    BY DEF Wanted, StatusTasks
  <2>4. Settles
    BY <1>2, <1>6, <2>1, <2>2, <2>3
       DEF DoLLStart, SetUp, StatusSet, Finish, Booked, NothingLeaked, Failures
  <2>5. QED
    BY <1>1, <2>4, TaskDone
<1>7. CASE DoPause
  <2>1. ~hurt => status \in {"PROFILING", "PART", "MULTI"}
    BY <1>1, <1>2, <1>7 DEF DoPause, From
  <2>2. /\ job = "PARTPAUSE" => Wanted[job] = "PART"
        /\ job = "MULTIPAUSE" => Wanted[job] = "MULTI"
        /\ job = "RESTORE" => Wanted[job] = "PROFILING"
    BY DEF Wanted, StatusTasks
  <2>3. Settles
    BY <1>2, <1>7, <2>1, <2>2
       DEF DoPause, StatusSet, Finish, Booked, NothingLeaked, Failures
  <2>4. QED
    BY <1>1, <2>3, TaskDone
<1>8. CASE DoCmt
  <2>1. ~hurt => status \in {"PROFILING", "CMT"}
    BY <1>1, <1>2, <1>8 DEF DoCmt, From
  <2>2. /\ job = "CMT_START" => Wanted[job] = "CMT"
        /\ job = "CMT_STOP" => Wanted[job] = "PROFILING"
    BY DEF Wanted, StatusTasks
  <2>3. Settles
    BY <1>2, <1>8, <2>1, <2>2
       DEF DoCmt, StatusSet, Finish, Booked, NothingLeaked, Failures, events
  <2>4. QED
    BY <1>1, <2>3, TaskDone
<1>9. CASE DoUncoreStart
  <2>1. ~hurt => status = "PROFILING"
    BY <1>1, <1>2, <1>9 DEF DoUncoreStart, From
  <2>2. Wanted["UNCORE_START"] = "UNCORE"
    BY DEF Wanted, StatusTasks
  <2>3. Settles
    BY <1>2, <1>9, <2>1, <2>2
       DEF DoUncoreStart, StatusSet, Finish, Booked, NothingLeaked, Failures
  <2>4. QED
    BY <1>1, <2>3, TaskDone
<1>10. CASE DoUncoreStop
  <2>1. ~hurt => status \in {"PROFILING", "UNCORE"}
    BY <1>1, <1>2, <1>10 DEF DoUncoreStop, From
  <2>2. Wanted["UNCORE_STOP"] = "PROFILING"
    BY DEF Wanted, StatusTasks
  <2>3. Settles
    BY <1>2, <1>10, <2>1, <2>2
       DEF DoUncoreStop, StatusSet, Finish, Booked, NothingLeaked, Failures
  <2>4. QED
    BY <1>1, <2>3, TaskDone
<1>11. QED
  BY <1>3, <1>4, <1>5, <1>6, <1>7, <1>8, <1>9, <1>10

\* The client asks for a task.
LEMMA AskStep ==
  ASSUME IInv, TypeOK', Ask
  PROVE  IInv'
<1> USE DEF IInv
<1> DEFINE h == Head(todo)
<1>0. /\ cpc = "idle" /\ todo # <<>> /\ h \in Tasks
      /\ slot' = h /\ todo' = Tail(todo)
      /\ asked' = IF h \in StatusTasks THEN h ELSE None
      /\ cpc' = CASE h \in StatusTasks -> "asked" [] h = "SMPL2" -> "flag2"
                     [] OTHER -> "idle"
      /\ ppc' = IF ppc = "sleep" THEN "test" ELSE ppc
      /\ UNCHANGED <<job, status, cpu, uncore, pause, leaked, pages, hurt>>
  BY DEF Ask, TaskSet, events
<1>1. asked = None /\ Settled = status
  BY <1>0 DEF Asking, Settled
<1>2. /\ cpc' \in {"asked", "flag2", "idle"}
      /\ h \in StatusTasks => cpc' = "asked"
      /\ h \notin StatusTasks => cpc' # "asked"
  BY <1>0 DEF StatusTasks
<1>3. ~hurt => IF h \in StatusTasks
               THEN status \in From[h] /\ Underway'
               ELSE h # "QUIT" /\ Underway'
  <2> SUFFICES ASSUME ~hurt
               PROVE  IF h \in StatusTasks
                      THEN status \in From[h] /\ Underway'
                      ELSE h # "QUIT" /\ Underway'
    OBVIOUS
  <2>1. Settled' = IF h \in StatusTasks THEN Wanted[h] ELSE status
    BY <1>0, PerfCtlAssumption DEF Settled, Tasks
  <2>2. CASE pages = <<>>
    <3>1. todo = <<"START">> /\ status = "IDLE"
      BY <1>0, <1>1, <2>2 DEF Underway
    <3>2. h = "START" /\ todo' = <<>>
      BY <1>0, <3>1
    <3>3. "START" \in StatusTasks /\ Wanted["START"] = "PROFILING"
          /\ status \in From["START"]
      BY <3>1 DEF StatusTasks, Wanted, From
    <3>4. QED
      BY <1>0, <2>1, <2>2, <3>2, <3>3 DEF Underway
  <2>3. CASE pages # <<>>
    <3>1. OnWay(Top, todo, status) /\ Top \in Kinds
      BY <1>0, <1>1, <2>3 DEF Underway, Top, TypeOK
    <3>2. IF h \in StatusTasks
          THEN status \in From[h] /\ OnWay(Top, Tail(todo), Wanted[h])
          ELSE h # "QUIT" /\ OnWay(Top, Tail(todo), status)
      BY <1>0, <3>1, AskWay
    <3>3. Top' = Top
      BY <1>0 DEF Top
    <3>4. QED
      BY <1>0, <2>1, <2>3, <3>2, <3>3 DEF Underway
  <2>4. QED
    BY <2>2, <2>3
<1>4. hurt => Underway'
  BY <1>0 DEF Underway
<1> HIDE DEF h
<1>5. Working'
  BY <1>0 DEF Working
<1>6. None \notin StatusTasks /\ None # "QUIT" /\ "QUIT" \notin StatusTasks
  BY PerfCtlAssumption DEF Tasks, StatusTasks
<1>7. Asking'
  <2>1. asked' # None <=> cpc' \in {"asked", "wait", "woken", "expired"}
    BY <1>0, <1>2, <1>6
  <2>2. ~hurt => ~(ppc' = "gone" \/ "QUIT" \in {slot', job'})
    BY <1>0, <1>3, <1>6 DEF Asking
  <2>3. QED
    BY <1>0, <2>1, <2>2 DEF Asking
<1>8. InHand'
  <2> SUFFICES ASSUME ~hurt PROVE InHand'
    BY <1>0 DEF InHand
  <2>1. job \notin StatusTasks
    BY <1>1, <1>6 DEF InHand
  <2>2. CASE h \in StatusTasks
    BY <1>0, <1>3, <2>1, <2>2 DEF InHand
  <2>3. CASE h \notin StatusTasks
    BY <1>0, <1>6, <2>1, <2>3 DEF InHand
  <2>4. QED
    BY <2>2, <2>3
<1>9. Booked' /\ NothingLeaked'
  BY <1>0 DEF Booked, NothingLeaked
<1>10. Orderly'
  BY <1>0 DEF Orderly, Stacked
<1>11. Underway'
  BY <1>3, <1>4
<1>12. QED
  BY <1>5, <1>7, <1>8, <1>9, <1>10, <1>11

\* A step that looks first is replaced by what it finds.
LEMMA DecideStep ==
  ASSUME IInv, TypeOK', Decide
  PROVE  IInv'
<1> USE DEF IInv
<1>0. /\ cpc = "idle" /\ todo # <<>> /\ Head(todo) \notin Tasks \union {"show"}
      /\ UNCHANGED <<slot, ppc, job, status, cpu, uncore, pause, leaked, cpc,
                     asked, pages, hurt>>
  BY DEF Decide, perfVars, events
<1>1. asked = None /\ Settled = status /\ Settled' = status
  BY <1>0 DEF Asking, Settled
<1>2. PICK steps \in Resolve(Head(todo)) : todo' = steps \o Tail(todo)
  BY DEF Decide
<1>3. Underway'
  <2> SUFFICES ASSUME ~hurt PROVE Underway'
    BY <1>0 DEF Underway
  <2>1. pages # <<>>
    <3> SUFFICES ASSUME pages = <<>> PROVE FALSE
      OBVIOUS
    <3>1. todo = <<"START">>
      BY <1>0 DEF Underway
    <3>2. Head(todo) \in Tasks
      BY <3>1 DEF Tasks, StatusTasks
    <3>3. QED
      BY <1>0, <3>2
  <2>2. OnWay(Top, todo, status) /\ Top \in Kinds
    BY <1>0, <1>1, <2>1 DEF Underway, Top, TypeOK
  <2>3. OnWay(Top, todo', status)
    BY <1>0, <1>2, <2>1, <2>2, DecideWay
  <2>4. Top' = Top
    BY <1>0 DEF Top
  <2>5. QED
    BY <1>0, <1>1, <2>1, <2>3, <2>4 DEF Underway
<1>4. Working' /\ Asking' /\ InHand' /\ Booked' /\ NothingLeaked' /\ Orderly'
  BY <1>0 DEF Working, Asking, InHand, Booked, NothingLeaked, Orderly, Stacked
<1>5. QED
  BY <1>3, <1>4

\* The page is shown, and may be sampled for, or it cannot be shown.
LEMMA ShowStep ==
  ASSUME IInv, TypeOK', Show
  PROVE  IInv'
<1> USE DEF IInv
<1>0. /\ cpc = "idle" /\ todo # <<>> /\ Head(todo) = "show"
      /\ UNCHANGED <<slot, ppc, job, status, cpu, uncore, pause, leaked, cpc,
                     asked, pages, hurt>>
  BY DEF Show, perfVars, events
<1>1. asked = None /\ Settled = status /\ Settled' = status
  BY <1>0 DEF Asking, Settled
<1>2. Underway'
  <2> SUFFICES ASSUME ~hurt PROVE Underway'
    BY <1>0 DEF Underway
  <2>1. pages # <<>>
    <3> SUFFICES ASSUME pages = <<>> PROVE FALSE
      OBVIOUS
    <3>1. todo = <<"START">>
      BY <1>0 DEF Underway
    <3>2. QED
      BY <1>0, <3>1
  <2>2. OnWay(Top, todo, status) /\ Top \in Kinds
    BY <1>0, <1>1, <2>1 DEF Underway, Top, TypeOK
  <2>3. \E u \in {<<>>, Sampling(Top)} : todo' = u \o Tail(todo) \/ todo' = Tail(todo)
    BY DEF Show
  <2>4. OnWay(Top, todo', status)
    BY <1>0, <2>2, <2>3, ShowWay
  <2>5. Top' = Top
    BY <1>0 DEF Top
  <2>6. QED
    BY <1>0, <1>1, <2>1, <2>4, <2>5 DEF Underway
<1>3. Working' /\ Asking' /\ InHand' /\ Booked' /\ NothingLeaked' /\ Orderly'
  BY <1>0 DEF Working, Asking, InHand, Booked, NothingLeaked, Orderly, Stacked
<1>4. QED
  BY <1>2, <1>3

\* A command is taken when the last one is done.
LEMMA ExecuteStep ==
  ASSUME IInv, TypeOK', Execute
  PROVE  IInv'
<1> USE DEF IInv
<1>0. /\ cpc = "idle" /\ todo = <<>>
      /\ UNCHANGED <<slot, ppc, job, status, cpu, uncore, pause, leaked, cpc,
                     asked>>
  BY DEF Execute, perfVars, events
<1>1. PICK c \in Commands : /\ pages' = c.pages /\ todo' = c.steps
                            /\ hurt' = (hurt \/ Astray(c))
  BY DEF Execute
<1>2. asked = None /\ Settled = status /\ Settled' = status
  BY <1>0 DEF Asking, Settled
<1>3. (hurt => hurt') /\ (~hurt' => ~hurt /\ ~Astray(c))
  BY <1>1, Zenon
<1>4. Underway' /\ Orderly'
  <2> SUFFICES ASSUME ~hurt' PROVE Underway' /\ Orderly'
    BY DEF Underway, Orderly
  <2>1. ~hurt /\ ~Astray(c)
    BY <1>3
  <2>2. IF pages = <<>> THEN status = "PROFILING" ELSE status \in Rest(Top)
    <3>1. CASE pages = <<>>
      BY <1>0, <1>2, <2>1, <3>1 DEF Underway
    <3>2. CASE pages # <<>>
      <4>1. OnWay(Top, <<>>, status) /\ Top \in Kinds
        BY <1>0, <1>2, <2>1, <3>2 DEF Underway, Top, TypeOK
      <4>2. QED
        BY <3>2, <4>1, WayEnd
    <3>3. QED
      BY <3>1, <3>2
  <2>3. /\ c.pages # <<>> /\ Stacked(c.pages)
        /\ OnWay(c.pages[Len(c.pages)], c.steps, status)
    BY <2>1, <2>2, ExecuteWay DEF TypeOK, Orderly
  <2>4. Top' = c.pages[Len(c.pages)]
    BY <1>1 DEF Top
  <2>5. QED
    BY <1>0, <1>1, <1>2, <2>3, <2>4 DEF Underway, Orderly, Stacked
<1>5. Working' /\ Asking' /\ InHand' /\ Booked' /\ NothingLeaked'
  BY <1>0, <1>3 DEF Working, Asking, InHand, Booked, NothingLeaked
<1>6. QED
  BY <1>4, <1>5

\* A wait ends: the task is done, or else the history says that it was late.
LEMMA AnswerStep ==
  ASSUME IInv, TypeOK', Answer
  PROVE  IInv'
<1> USE DEF IInv
<1>0. /\ cpc \in {"woken", "expired"}
      /\ hurt' = (hurt \/ asked \in {slot, job}) /\ asked' = None
      /\ cpc' = IF pages = <<>> /\ status # Wanted[asked] THEN "gone" ELSE "idle"
      /\ UNCHANGED <<slot, ppc, job, status, cpu, uncore, pause, leaked, pages, todo>>
  BY DEF Answer, perfVars, events
<1>1. asked \in StatusTasks /\ hurt \in BOOLEAN
  BY <1>0 DEF Asking, TypeOK
<1>2. ~hurt' => /\ ~hurt /\ asked \notin {slot, job} /\ status = Wanted[asked]
                /\ cpc' = "idle"
  BY <1>0, <1>1, PerfCtlAssumption DEF InHand, Tasks
<1>3. Working' /\ Orderly'
  BY <1>0, <1>2 DEF Working, Orderly, Stacked
<1>4. Asking'
  <2>1. cpc' \in {"idle", "gone"}
    BY <1>0
  <2>2. QED
    BY <1>0, <1>1, <1>2, <2>1 DEF Asking
<1>5. InHand'
  BY <1>0, <1>1, <1>2, PerfCtlAssumption DEF InHand, TypeOK, Tasks
<1>6. Booked' /\ NothingLeaked'
  BY <1>0, <1>1, <1>2 DEF Booked, NothingLeaked
<1>7. Underway'
  <2>1. ~hurt' => Settled' = Settled
    BY <1>0, <1>1, <1>2, PerfCtlAssumption DEF Settled, Tasks
  <2>2. Top' = Top
    BY <1>0 DEF Top
  <2>3. QED
    BY <1>0, <1>2, <2>1, <2>2 DEF Underway
<1>8. QED
  BY <1>3, <1>4, <1>5, <1>6, <1>7

\* The other steps of the client, and those of nobody, change no task, no
\* status and no page; to quit is asked for when nothing is left to do.
LEMMA ClientElse ==
  ASSUME IInv, TypeOK',
         \/ StatusWait \/ WaitAgain \/ Flag2Wait \/ Join \/ Expire \/ Spurious
         \/ ShowLater \/ Quit \/ UNCHANGED vars
  PROVE  IInv'
<1> USE DEF IInv
<1>1. CASE Quit
  <2>0. /\ cpc = "idle" /\ slot' = "QUIT" /\ cpc' = "join"
        /\ ppc' = IF ppc = "sleep" THEN "test" ELSE ppc
        /\ UNCHANGED <<job, status, cpu, uncore, pause, leaked, asked, pages, todo,
                       hurt>>
    BY <1>1 DEF Quit, TaskSet, events, command
  <2>1. asked = None /\ "QUIT" \notin StatusTasks /\ None \notin StatusTasks
    BY <2>0, PerfCtlAssumption DEF Asking, StatusTasks, Tasks
  <2>2. Working' /\ Asking' /\ Underway'
    BY <2>0, <2>1 DEF Working, Asking, Underway
  <2>3. InHand'
    BY <2>0, <2>1 DEF InHand
  <2>4. Booked' /\ NothingLeaked' /\ Orderly'
    BY <2>0 DEF Booked, NothingLeaked, Orderly, Stacked
  <2>5. QED
    BY <2>2, <2>3, <2>4
<1>2. CASE \/ StatusWait \/ WaitAgain \/ Flag2Wait \/ Join \/ Expire \/ Spurious
           \/ ShowLater \/ UNCHANGED vars
  <2>0. /\ UNCHANGED <<slot, job, status, cpu, uncore, pause, leaked, asked,
                       pages, todo, hurt>>
        /\ ppc' = ppc \/ (ppc = "sleep" /\ ppc' = "test")
        /\ \/ cpc' = cpc
           \/ {cpc, cpc'} \subseteq {"asked", "wait", "woken", "expired"}
           \/ {cpc, cpc'} \subseteq {"idle", "flag2", "flag2_sleep"}
           \/ {cpc, cpc'} \subseteq {"join", "gone"}
    <3>1. CASE StatusWait
      BY <3>1 DEF StatusWait, perfVars, events, command
    <3>2. CASE WaitAgain
      BY <3>2 DEF WaitAgain, perfVars, events, command
    <3>3. CASE Flag2Wait
      BY <3>3 DEF Flag2Wait, perfVars, events, command
    <3>4. CASE Join
      BY <3>4 DEF Join, perfVars, events, command
    <3>5. CASE Expire
      BY <3>5 DEF Expire, perfVars, events, command
    <3>6. CASE Spurious
      BY <3>6 DEF Spurious, events, command
    <3>7. CASE ShowLater
      BY <3>7 DEF ShowLater, perfVars, events
    <3>8. CASE UNCHANGED vars
      BY <3>8 DEF vars, perfVars, events, command
    <3>9. QED
      BY <1>2, <3>1, <3>2, <3>3, <3>4, <3>5, <3>6, <3>7, <3>8
  <2>1. Working'
    BY <2>0 DEF Working
  <2>2. Asking'
    BY <2>0 DEF Asking
  <2>3. InHand' /\ NothingLeaked' /\ Orderly'
    BY <2>0 DEF InHand, NothingLeaked, Orderly, Stacked
  <2>4. Booked'
    BY <2>0 DEF Booked
  <2>5. Underway'
    <3>1. Settled' = Settled /\ Top' = Top
      BY <2>0 DEF Settled, Top
    <3>2. QED
      BY <2>0, <3>1 DEF Underway
  <2>6. QED
    BY <2>1, <2>2, <2>3, <2>4, <2>5
<1>3. QED
  BY <1>1, <1>2

\* The perf thread exits because it was asked to.
LEMMA QuitStep ==
  ASSUME IInv, TypeOK', DoQuit
  PROVE  IInv'
<1> USE DEF IInv
<1>0. /\ ppc = "work" /\ job = "QUIT" /\ ppc' = "gone" /\ job' = None
      /\ UNCHANGED <<slot, asked, pages, todo, status, pause, leaked, cpc, hurt>>
  BY DEF DoQuit, Finish, command
<1>1. "QUIT" \notin StatusTasks /\ None \notin StatusTasks
  BY PerfCtlAssumption DEF StatusTasks, Tasks
<1>2. Working' /\ Asking'
  BY <1>0 DEF Working, Asking
<1>3. InHand'
  BY <1>0, <1>1 DEF InHand, TypeOK
<1>4. Booked' /\ NothingLeaked' /\ Orderly'
  BY <1>0 DEF Booked, NothingLeaked, Orderly, Stacked
<1>5. Underway'
  BY <1>0 DEF Underway, Asking
<1>6. QED
  BY <1>2, <1>3, <1>4, <1>5

\* The invariant is inductive.
LEMMA Inductive == IInv /\ [Next]_vars => IInv'
<1> SUFFICES ASSUME IInv, [Next]_vars PROVE IInv'
  OBVIOUS
<1>1. TypeOK'
  <2>1. CASE Next
    BY <2>1, ClientType, PerfType DEF Next, IInv
  <2>2. CASE UNCHANGED vars
    BY <2>2 DEF vars, TypeOK, perfVars, events, command, IInv
  <2>3. QED
    BY <2>1, <2>2
<1>2. CASE ClientStep
  BY <1>1, <1>2, AskStep, DecideStep, ShowStep, AnswerStep, ClientElse
     DEF ClientStep
<1>3. CASE Execute
  BY <1>1, <1>3, ExecuteStep
<1>4. CASE ShowLater \/ Expire \/ Spurious \/ Quit \/ UNCHANGED vars
  BY <1>1, <1>4, ClientElse
<1>5. CASE PerfDo
  <2>1. ppc = "work"
    BY <1>5 DEF PerfDo, DoStop, DoStart, DoStarted, DoLLStart, DoPause, DoCmt,
                DoUncoreStart, DoUncoreStop, DoSample, DoSample2, DoQuit
  <2>2. QED
    BY <1>1, <1>5, <2>1, PerfStatus, PerfElse, QuitStep DEF PerfDo
<1>6. CASE PerfTake \/ PerfSleep \/ Posted
  BY <1>1, <1>6, PerfElse
<1>7. QED
  BY <1>2, <1>3, <1>4, <1>5, <1>6 DEF Next

\* IInv holds always.
LEMMA InvariantHolds == Spec => []IInv
BY InitIInv, Inductive, PTL DEF Spec

\* Events are set up only when the status, on which os_allstop relies, says
\* that none are open: unless a task failed or came late, or a page was left
\* whose window was never made, none are leaked, whatever page follows which
\* and whichever of them cannot be shown.
THEOREM NoLeak == Spec => []NothingLeaked
<1>1. IInv => NothingLeaked
  BY DEF IInv
<1>2. QED
  BY <1>1, InvariantHolds, PTL

\* When a command is done the events are those that its page needs, for any
\* number of pages on top of each other, even if its window could not be made;
\* unless a task failed or came late, or a page was left whose window was
\* never made, by a command of the first page's table (hurt).
THEOREM PageServed == Spec => []EventsFitPage
<1>1. IInv => EventsFitPage
  <2> SUFFICES ASSUME IInv, cpc = "idle", todo = <<>>, pages # <<>>, ~hurt
               PROVE  /\ cpu = IF Top \in {"lat", "lldetail"} THEN "ll"
                                                              ELSE "profiling"
                      /\ pause <=> Top \in CallChain
                      /\ uncore => Top = "uncore"
    BY DEF EventsFitPage
  <2>1. asked = None /\ Settled = status
    BY DEF IInv, Asking, Settled
  <2>2. Top \in Kinds /\ OnWay(Top, <<>>, status)
    BY <2>1 DEF IInv, Underway, Top, TypeOK
  <2>3. status \in Rest(Top)
    BY <2>2, WayEnd
  <2>4. ppc # "gone"
    BY DEF IInv, Asking
  <2>5. /\ cpu = CASE status = "IDLE" -> "none" [] status = "LL" -> "ll"
                      [] OTHER -> "profiling"
        /\ uncore <=> status = "UNCORE"
        /\ pause <=> status \in {"PART", "MULTI"}
    BY <2>4 DEF IInv, Booked
  <2>6. QED
    BY <2>2, <2>3, <2>5 DEF Rest, CallChain, Kinds
<1>2. QED
  BY <1>1, InvariantHolds, PTL
=============================================================================
