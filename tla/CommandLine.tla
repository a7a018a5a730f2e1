---------------------------- MODULE CommandLine ----------------------------
(***************************************************************************)
(* What the executor promises the user of the prompt, with processes,      *)
(* pipes and descriptors left out: a line runs, the shell prompts again    *)
(* and $? is one of the statuses the line may have.  A pipeline's status   *)
(* is its right side's; only a line that runs exit in the shell itself     *)
(* ends the shell.                                                         *)
(***************************************************************************)
EXTENDS CommandTree

VARIABLES
  mode,     \* "prompt", "running" or "gone"
  line,     \* the line that runs, NoNode when none does
  status    \* g_exit_code; the shell's exit status once it is gone

lineVars == <<mode, line, status>>

\* The statuses of a simple command when $? is last; 1 is also what a failed
\* dup or fork gives, 130 and 131 a program killed from the terminal.
CommandOutcomes(c, last) ==
  CASE c = "exit" -> {last, 1, 2}
    [] c \in {"echo", "cd", "empty"} -> {0, 1}
    [] c = "missing" -> {127, 1, 130, 131}
    [] c = "noexec" -> {126, 1, 130, 131}
    [] c \in Program -> {0, 1, 130, 131}

\* What a node yields of itself: 1 is a redirection or pipeline that failed, 2
\* one without its command or a side.
OwnOutcomes(n, last) ==
  CASE Kind[n] = "COMMAND" -> CommandOutcomes(Cmd[n], last)
    [] Kind[n] = "WORD" -> {127}
    [] Kind[n] = "ASSIGNMENT" -> {0}
    [] Kind[n] = "EOF" -> {1}
    [] Kind[n] \in RedirKind -> IF Left[n] = NoNode THEN {1, 2} ELSE {1}
    [] Kind[n] = "PIPE" -> IF NoNode \in {Left[n], Right[n]} THEN {2} ELSE {1}

\* The node whose statuses are n's as well: a redirection's command, a
\* pipeline's right side.
Deciding(n) ==
  IF Kind[n] \in RedirKind THEN Left[n]
  ELSE IF Kind[n] = "PIPE" /\ Left[n] # NoNode THEN Right[n] ELSE NoNode

\* The statuses of the tree at n, whose output is not a pipe.
Outcomes[n \in Node] == [last \in Status |->
  OwnOutcomes(n, last) \cup
    (IF Deciding(n) = NoNode THEN {} ELSE Outcomes[Deciding(n)][last])]

\* Does the shell itself, not a child, reach an exit?
RunsExit[n \in Node] ==
  \/ Kind[n] = "COMMAND" /\ Cmd[n] = "exit"
  \/ Kind[n] \in RedirKind /\ Left[n] # NoNode /\ RunsExit[Left[n]]

LineInit == mode = "prompt" /\ line = NoNode /\ status = 0

Begin ==
  /\ mode = "prompt" /\ mode' = "running"
  /\ line' \in Line
  /\ UNCHANGED status

\* The command of a redirection sets $? before the redirection itself does.
Inner ==
  /\ mode = "running" /\ Kind[line] \in RedirKind /\ Left[line] # NoNode
  /\ status' \in Outcomes[Left[line]][status]
  /\ UNCHANGED <<mode, line>>

Finish ==
  /\ mode = "running" /\ mode' = "prompt"
  /\ status' \in Outcomes[line][status]
  /\ line' = NoNode

Leave ==
  /\ mode' = "gone" /\ line' = NoNode
  /\ \/ mode = "prompt" /\ UNCHANGED status
     \/ mode = "running" /\ RunsExit[line] /\ status' \in {status, 2}

LineNext == Begin \/ Inner \/ Finish \/ Leave

LineSpec == LineInit /\ [][LineNext]_lineVars
=============================================================================
