----------------------------- MODULE MCExecutor -----------------------------
(***************************************************************************)
(* The trees and bounds on which TLC checks Executor.  A tree is a tuple:  *)
(* a leaf <<type>> or <<"COMMAND", command>>, a redirection <<type, file,  *)
(* child>>, a pipe <<"PIPE", left, right>>; <<>> is NULL.  No node occurs  *)
(* twice in a tree.                                                        *)
(***************************************************************************)
EXTENDS Executor

MCNoNode == <<>>
C(c) == <<"COMMAND", c>>
P(l, r) == <<"PIPE", l, r>>
R(type, n) == <<type, "file", n>>
NoFile(type, n) == <<type, "", n>>

Children(n) ==
  (CASE n = <<>> -> {}
     [] n[1] = "PIPE" -> {n[2], n[3]}
     [] n[1] \in RedirKind -> {n[3]}
     [] OTHER -> {}) \ {<<>>}

\* The trees here are at most four levels deep.
Subtrees(S) == LET Close(T) == T \cup UNION {Children(n) : n \in T}
               IN Close(Close(Close(S)))

\* The fields of the nodes of the run.
MCKind == [n \in Node |-> n[1]]
MCLeft == [n \in Node |-> CASE n[1] = "PIPE" -> n[2]
                            [] n[1] \in RedirKind -> n[3]
                            [] OTHER -> <<>>]
MCRight == [n \in Node |-> IF n[1] = "PIPE" THEN n[3] ELSE <<>>]
MCFile == [n \in Node |-> n[1] \in RedirKind /\ n[2] = "file"]
MCCmd == [n \in Node |-> IF n[1] = "COMMAND" THEN n[2] ELSE "empty"]

MCHeight == [n \in Node |-> Cardinality(Subtrees({n}))]

\* Pipelines of two stages; a redirection in one has lost its command.
PipeLines ==
  {P(C("produce"), C("copy")), P(C("produce"), C("head")),
   P(C("missing"), C("copy")), P(C("echo"), C("head")),
   P(<<"WORD">>, C("copy")), P(C("copy"), C("noexec")),
   P(C("produce"), C("exit")), P(C("exit"), C("copy")),
   P(C("produce"), R("REDIR_OUT", <<>>)), P(C("produce"), <<"WORD">>),
   P(C("produce"), <<>>), P(R("HEREDOC", <<>>), C("head")),
   P(C("echo"), R("HEREDOC", <<>>))}
PipeNodes == Subtrees(PipeLines)

\* Longer pipelines, as the parser builds them: a | b | d and a | (b | ) | e.
NestedLines ==
  {P(C("produce"), P(C("cd"), C("head"))), P(C("echo"), P(C("copy"), C("cd"))),
   P(C("echo"), P(P(C("copy"), <<>>), C("missing")))}
NestedNodes == Subtrees(NestedLines)

\* Everything but a pipeline.
SimpleLines ==
  {C("produce"), C("copy"), C("head"), C("missing"), C("noexec"), C("echo"),
   C("cd"), C("exit"), C("empty"), <<"WORD">>, <<"ASSIGNMENT">>, <<"EOF">>,
   R("REDIR_IN", C("copy")), R("REDIR_OUT", C("exit")),
   R("APPEND", C("echo")), R("HEREDOC", C("copy")), R("HEREDOC", C("head")),
   R("HEREDOC", <<"WORD">>), R("REDIR_IN", <<"WORD">>),
   R("REDIR_OUT", <<>>), NoFile("REDIR_IN", C("echo")),
   NoFile("HEREDOC", C("echo"))}
SimpleNodes == Subtrees(SimpleLines)

\* Lines during which the user types Ctrl-C or Ctrl-\.
SignalLines == {P(C("copy"), C("head")), P(C("echo"), C("cd")), C("copy"),
                R("HEREDOC", C("copy"))}
SignalNodes == Subtrees(SignalLines)

\* One external command.
OneLines == {C("copy")}
=============================================================================
