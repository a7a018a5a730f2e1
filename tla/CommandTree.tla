---------------------------- MODULE CommandTree ----------------------------
(***************************************************************************)
(* The abstract syntax trees execute_ast walks (t_node_tree, minishell.h), *)
(* as a heap: a node is a value, and what a node holds is a function of    *)
(* it.  Only what the executor tells apart is kept of a node's strings: is *)
(* there a file name, and which sort of command is args[0].                *)
(***************************************************************************)
EXTENDS Naturals, FiniteSets

CONSTANTS
  Node,      \* the nodes of the trees
  NoNode,    \* the NULL pointer
  Kind,      \* node -> its type field
  Left,      \* node -> its left child or NoNode
  Right,     \* node -> its right child or NoNode
  HasFile,   \* node -> file is not NULL
  Cmd,       \* node -> the sort of command its args name
  Height,    \* node -> a bound on the height of the tree below it
  Line       \* the roots of the trees the parser may hand to execute_ast

RedirKind == {"REDIR_IN", "REDIR_OUT", "APPEND", "HEREDOC"}

\* Node types dispatch_ast_node tells apart; EOF stands for every other type.
NodeKind == RedirKind \cup {"PIPE", "COMMAND", "ASSIGNMENT", "WORD", "EOF"}

\* Builtins, by what the executor can see of them: echo (and pwd, export with
\* no argument) write to stdout, cd, unset and export NAME do not, exit ends
\* the process.  "empty" is a command whose args[0] is the empty string.
Builtin == {"echo", "cd", "exit"}

\* External programs, by how they use their standard descriptors: "produce"
\* only writes, "copy" copies its input to its output until end of file,
\* "head" reads one item at most.  "missing" is on no PATH, "noexec" is found
\* and cannot be executed.
Program == {"produce", "copy", "head"}
External == Program \cup {"missing", "noexec"}

Command == Builtin \cup External \cup {"empty"}

\* What $? may be: 128 and the signal's number for a process that was killed.
Status == {0, 1, 2, 126, 127, 130, 131, 141}

\* make_yggdrasil builds trees: going from a node to a child ends.
ASSUME TreeAssumption ==
  /\ NoNode \notin Node
  /\ Kind \in [Node -> NodeKind]
  /\ Left \in [Node -> Node \cup {NoNode}]
  /\ Right \in [Node -> Node \cup {NoNode}]
  /\ HasFile \in [Node -> BOOLEAN]
  /\ Cmd \in [Node -> Command]
  /\ Height \in [Node -> Nat]
  /\ \A n \in Node : \A m \in {Left[n], Right[n]} \ {NoNode} :
       Height[m] < Height[n]
  /\ Line \subseteq Node
=============================================================================
