---------------------------- MODULE MCDispMailbox ----------------------------
(* The mailbox with the threads and the messages numatop has.              *)
EXTENDS DispMailbox

MCCommands == {"HOME", "RESIZE", "QUIT"}

MCHome == [flag |-> "CMD", cmd |-> "HOME"]

\* The cons thread reports window resizes and keys, the perf thread the end
\* of a sampling, the signal handler asks for the exit.
\* FAIL makes the disp thread post: it needs Self.
MCMessages ==
  [p \in Posters |->
     CASE p = Cons -> {[flag |-> "CMD", cmd |-> "RESIZE"],
                       [flag |-> "GETCH", cmd |-> NoCmd]}
       [] p = Perf -> {[flag |-> f, cmd |-> NoCmd] :
                       f \in IF Self \in Posters THEN {"READY", "FAIL"}
                                                ELSE {"READY"}}
       [] p = Sig  -> {[flag |-> "CMD", cmd |-> "QUIT"]}
       [] p = Self -> {MCHome}]
=============================================================================
