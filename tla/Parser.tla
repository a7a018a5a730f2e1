------------------------------- MODULE Parser -------------------------------
(***************************************************************************)
(* input_handler (src/parser/handlers/input_handler.c): the passes of a    *)
(* line, from readline to the tree that execute_ast gets, over one token   *)
(* list, while other processes install and remove programs in the          *)
(* directories of PATH.  The shell reads lines until MaxLines.             *)
(***************************************************************************)
EXTENDS Yggdrasil, Reading

CONSTANTS
  Session,         \* the sorts of sessions; for each of them:
  Line(_),         \* the lines the user may type
  Environments(_), \* what the shell may be started with: names to values
  Program(_),      \* texts that may name a program
  MaxLines(_),     \* bound: lines typed
  MaxChanges(_)    \* bound: programs installed or removed

PathVar == <<"PATH">>   \* its value is one directory here

ASSUME LineAssumption ==
  \A s \in Session :
    /\ Line(s) \subseteq Seq(Symbol) \ {<<>>}
    /\ Program(s) \subseteq Seq(Symbol)
    /\ \A e \in Environments(s) :
         DOMAIN e \subseteq Seq(Name) /\ \A n \in DOMAIN e : e[n] \in Seq(Symbol)
    /\ MaxLines(s) \in Nat /\ MaxChanges(s) \in Nat

VARIABLES
  session,      \* the sort of this one
  env,          \* shell->env
  bin,          \* the programs there are in the directory PATH begins with
  pc,           \* the pass the line is at
  list,         \* the token list
  tree,         \* the tree
  calls,        \* the calls of make_yggdrasil that have not returned
  i,            \* the token typealize or parser_cmd_no_found is at
  g_exit_code,
  lines, changes,
  line,         \* history: the line
  before,       \* history: env when it was read
  some, always  \* history: what search_list found some time, all the time,
                \* since parser_cmd_no_found began

vars == <<session, env, bin, pc, list, tree, calls, i, g_exit_code, lines, changes,
          line, before, some, always>>
past == <<session, lines, line, before>>
built == <<tree, calls>>

(* search_list: PATH as the environment has it now.                        *)
search_list(e) == IF PathVar \in DOMAIN e /\ e[PathVar] = <<"bin">>
                  THEN bin ELSE {}

Init ==
  /\ session \in Session
  /\ env \in Environments(session)
  /\ bin \in SUBSET Program(session)
  /\ pc = "prompt" /\ list = <<>> /\ i = 1
  /\ tree = NoTree(<<>>) /\ calls = <<>>
  /\ g_exit_code = 0 /\ lines = 0 /\ changes = 0
  /\ line = <<>> /\ before = env /\ some = {} /\ always = {}

(* readline_loop, and the first pass.                                      *)
SplitInput ==
  /\ pc = "prompt" /\ lines < MaxLines(session)
  /\ \E l \in Line(session) : line' = l /\ list' = split_input(l)
  /\ pc' = "quotes" /\ lines' = lines + 1 /\ before' = env
  /\ tree' = NoTree(<<>>) /\ i' = 1
  /\ UNCHANGED <<session, env, bin, calls, g_exit_code, changes, some, always>>

QuoteHandler ==
  /\ pc = "quotes" /\ pc' = "types"
  /\ list' = quote_handler_call_loop(list, env)
  /\ UNCHANGED <<env, bin, built, i, g_exit_code, changes, past, some, always>>

(* One token after the other: each reads the directories of PATH anew.     *)
Typealize ==
  /\ pc = "types" /\ i <= Len(list)
  /\ list' = [list EXCEPT ![i] = typealize(@, search_list(env))]
  /\ i' = i + 1
  /\ UNCHANGED <<env, bin, pc, built, g_exit_code, changes, past, some, always>>

Merge ==
  /\ pc = "types" /\ i > Len(list) /\ pc' = "errors"
  /\ list' = merg_tok_excep_cll_revloop(list)
  /\ UNCHANGED <<env, bin, built, i, g_exit_code, changes, past, some, always>>

(* A slip: the status other shells give a syntax error.                    *)
ParseError_Other ==
  /\ pc = "errors" /\ has_parser_error(list)
  /\ pc' = "prompt" /\ g_exit_code' = 258
  /\ UNCHANGED <<env, bin, list, built, i, changes, past, some, always>>

ParseError ==
  /\ pc = "errors" /\ has_parser_error(list)
  /\ pc' = "prompt" /\ g_exit_code' = 2
  /\ UNCHANGED <<env, bin, list, built, i, changes, past, some, always>>

(* The assignments take effect, and are marked.                            *)
Assign ==
  /\ pc = "errors" /\ ~has_parser_error(list)
  /\ pc' = "expand"
  /\ env' = AssignedEnv(list, Assignments(list), env)
  /\ list' = MarkedAssignments(list)
  /\ UNCHANGED <<bin, built, i, g_exit_code, changes, past, some, always>>

(* Expansion, then arguments and files: nobody else is involved.           *)
ExpandAndAttach ==
  /\ pc = "expand" /\ pc' = "again" /\ i' = 1
  /\ list' = handler_args_file(expand_token_list_no_assignments(list, env))
  /\ some' = search_list(env) /\ always' = search_list(env)
  /\ UNCHANGED <<env, bin, built, g_exit_code, changes, past>>

LookAgain ==
  /\ pc = "again" /\ i <= Len(list)
  /\ list' = [list EXCEPT ![i] = parser_cmd_no_found(@, search_list(env))]
  /\ i' = i + 1
  /\ UNCHANGED <<env, bin, pc, built, g_exit_code, changes, past, some, always>>

InitYggdrasil ==
  /\ pc = "again" /\ i > Len(list)
  /\ tree' = init_yggdrasil(list)
  /\ pc' = IF tree'.crashed THEN "crashed"
           ELSE IF tree'.eof THEN "execute" ELSE "build"
  /\ calls' = IF pc' = "build" THEN <<Call(tree'.root, 0, tree'.root)>> ELSE <<>>
  /\ UNCHANGED <<env, bin, list, i, g_exit_code, changes, past, some, always>>

(* make_yggdrasil up to its first call of itself ...                       *)
MakeChildren ==
  LET c == Head(calls) IN
  /\ pc = "build" /\ calls # <<>> /\ ~c.made
  /\ tree' = Children(list, tree, c)
  /\ calls' = CallsLeft(list, tree', c) \o <<[c EXCEPT !.made = TRUE]>> \o Tail(calls)
  /\ UNCHANGED <<env, bin, pc, list, i, g_exit_code, changes, past, some, always>>

(* ... and after it, when the left side is done.                           *)
GoRight ==
  LET c == Head(calls) IN
  /\ pc = "build" /\ calls # <<>> /\ c.made
  /\ calls' = CallsRight(list, tree, c) \o Tail(calls)
  /\ UNCHANGED <<env, bin, pc, list, tree, i, g_exit_code, changes, past, some,
                 always>>

TreeMade ==
  /\ pc = "build" /\ calls = <<>> /\ pc' = "execute"
  /\ UNCHANGED <<env, bin, list, built, i, g_exit_code, changes, past, some, always>>

(* execute_ast, of which Executor.tla tells more.                          *)
Execute ==
  /\ pc = "execute" /\ pc' = "prompt" /\ g_exit_code' \in {0, 1}
  /\ UNCHANGED <<env, bin, list, built, i, changes, past, some, always>>

(* Another process installs or removes a program.                          *)
Change ==
  /\ changes < MaxChanges(session) /\ pc \notin {"prompt", "crashed"}
  /\ changes' = changes + 1
  /\ \E p \in Program(session) :
       bin' = IF p \in bin THEN bin \ {p} ELSE bin \cup {p}
  /\ LET now == IF PathVar \in DOMAIN env /\ env[PathVar] = <<"bin">>
                THEN bin' ELSE {}
     IN some' = some \cup now /\ always' = always \cap now
  /\ UNCHANGED <<env, pc, list, built, i, g_exit_code, past>>

Next == \/ SplitInput \/ QuoteHandler \/ Typealize \/ Merge \/ ParseError
        \/ Assign \/ ExpandAndAttach \/ LookAgain \/ InitYggdrasil \/ MakeChildren
        \/ GoRight \/ TreeMade \/ Execute
        \/ Change

Spec == Init /\ [][Next]_vars
-----------------------------------------------------------------------------
Token ==
  [id : Nat, value : Seq(Symbol) \cup {NULL},
   type : {"PIPE", "REDIR_IN", "REDIR_OUT", "APPEND", "HEREDOC", "CMD", "WORD",
           "ASSIGNMENT"},
   coretype : {"PIPE", "REDIR", "CMD", "WORD"},
   rank : {0, RANK_C, RANK_B, RANK_A, RANK_S}, literal : BOOLEAN,
   err : BOOLEAN, args : Seq(Seq(Symbol)), file : Seq(Symbol) \cup {NULL},
   merge_next : BOOLEAN]

TypeOK ==
  /\ DOMAIN env \subseteq Seq(Name)
  /\ \A n \in DOMAIN env : env[n] \in Seq(Symbol)
  /\ session \in Session /\ bin \subseteq Program(session)
  /\ pc \in {"prompt", "quotes", "types", "errors", "expand", "again",
             "build", "execute", "crashed"}
  /\ list \in Seq(Token)
  /\ i \in 1..(Len(line) + 2)
  /\ g_exit_code \in {0, 1, 2}
  /\ {tree.root} \cup Range(tree.left) \cup Range(tree.right)
       \subseteq 0..Len(list)
  /\ calls \in Seq([t : 0..Len(list), e : 0..Len(list), n : 1..Len(list),
                    made : BOOLEAN])
  /\ tree.used \subseteq 1..Len(list) /\ {tree.eof, tree.crashed} \subseteq BOOLEAN
  /\ always \subseteq some /\ some \subseteq Program(session)

Word(item) == item.kind = "word"
Op(item) == item.kind = "op"
Has(item, s) == s \in Range(Text(item))

(* merg_tok_excep_cll_revloop undoes what split_input cut too fine: after  *)
(* it the list is the words and operators of the line in their order, and  *)
(* a token is an operator exactly if it stands bare in the line, whatever  *)
(* quotes and spaces are around it.  A word has an error exactly if it     *)
(* begins with a quote that is never closed.  (Of lines without a "$".)    *)
WordsRead ==
  LET items == Items(line) IN
  (pc = "errors" /\ "$" \notin Range(line)) =>
    /\ Len(list) = Len(items) + (IF items = <<>> THEN 0 ELSE 1)
    /\ \A k \in DOMAIN items :
         /\ list[k].value = Text(items[k])
         /\ Op(items[k]) <=> list[k].coretype \in {"PIPE", "REDIR"}
         /\ list[k].err <=> items[k].open /\ ~items[k].glued

(* Words the passes are supposed to agree about: without a "$", or with    *)
(* one part, in which every "$" has a name behind it, ended in double      *)
(* quotes by a space or a quote.                                           *)
EndsName(text, p) ==
  LET n == RunLength(Rest(text, p + 1), Name)
  IN n > 0 /\ (p + n = Len(text) \/ text[p + n + 1] \in {Space, "'", "$"})
Agreed(w) ==
  /\ ~w.open
  /\ Has(w, "$") =>
       /\ Len(w.parts) = 1
       /\ \A p \in DOMAIN w.parts[1].text :
            w.parts[1].text[p] = "$" =>
              CASE w.parts[1].mode = "'" -> TRUE
                [] w.parts[1].mode = "bare" ->
                     RunLength(Rest(w.parts[1].text, p + 1), Name) > 0
                [] OTHER -> EndsName(w.parts[1].text, p)
PlainValues == \A n \in DOMAIN before : "$" \notin Range(before[n])

(* A word as it is when assignments and operators are told from others:    *)
(* the variables in double quotes have been replaced.                      *)
Early(w) == IF Has(w, "$") /\ w.parts[1].mode = "\"" THEN Meaning(w, before)
            ELSE Text(w)

AllOps == RedirText \cup {<<"|">>}
AgreedLine(items) ==
  /\ PlainValues
  /\ items # <<>>
  /\ \A k \in DOMAIN items :
       Word(items[k]) =>
         Agreed(items[k]) /\ (Has(items[k], "$") => Early(items[k]) \notin AllOps)
  /\ Word(items[1]) => ~IsAssignment(Early(items[1]))

(* What a node runs, and what the words of a line ask for.                 *)
Argv(n) == IF list[n].args = <<>> THEN <<list[n].value>> ELSE list[n].args
Asked(words) == [k \in DOMAIN words |-> Meaning(words[k], env)]
Leaf(n) == n # 0 /\ tree.left[n] = 0 /\ tree.right[n] = 0

(* A line of words runs as one command, each word an argument of it: one   *)
(* argument whatever quotes and variables it is put together of, with the  *)
(* values the variables have when the line is run.                         *)
CommandRead ==
  LET items == Items(line) IN
  (pc = "execute" /\ AgreedLine(items) /\ (\A k \in DOMAIN items : Word(items[k])))
    => Leaf(tree.root) /\ ~tree.eof /\ Argv(tree.root) = Asked(items)

Cuts(items, text) == {k \in DOMAIN items : Op(items[k]) /\ Text(items[k]) \in text}

(* A line with one pipe and no redirection becomes that pipe, the command  *)
(* before it on its left and the command behind it on its right, whatever  *)
(* quoted operators and names of commands are among the arguments.         *)
PipelineRead ==
  LET items == Items(line) IN
  (pc = "execute" /\ AgreedLine(items)) =>
    \A p \in 2..(Len(items) - 1) :
      (Cuts(items, AllOps) = {p} /\ Text(items[p]) = <<"|">>) =>
        LET r == tree.root IN
        /\ ~tree.eof /\ list[r].type = "PIPE"
        /\ Leaf(tree.left[r]) /\ Leaf(tree.right[r])
        /\ Argv(tree.left[r]) = Asked(SubSeq(items, 1, p - 1))
        /\ Argv(tree.right[r]) = Asked(Rest(items, p + 1))

(* A line that ends with its only redirection becomes that redirection,    *)
(* of its file, over the command before it; the file's name is not the     *)
(* name of a program.                                                      *)
NoProgram(w) == \A k \in DOMAIN w.parts : w.parts[k].text \notin Program(session)
RedirectionRead ==
  LET items == Items(line)
      p == Len(items) - 1 IN
  (/\ pc = "execute" /\ AgreedLine(items) /\ p > 0
   /\ Cuts(items, AllOps) = {p} /\ Text(items[p]) # <<"|">>
   /\ ~Has(items[p + 1], "$") /\ NoProgram(items[p + 1])) =>
        LET r == tree.root IN
        /\ ~tree.eof /\ list[r].type = RedirType(Text(items[p]))
        /\ list[r].file = Text(items[p + 1])
        /\ IF p = 1 THEN tree.left[r] = 0
           ELSE Argv(tree.left[r]) = Asked(SubSeq(items, 1, p - 1))

(* make_yggdrasil searches the list for children again and again: still no *)
(* token is the child of two nodes, or twice of one, the root is the child *)
(* of none, and there are no cycles.                                       *)
Child(a) == IF a[2] = "left" THEN tree.left[a[1]] ELSE tree.right[a[1]]
Edges == {a \in (DOMAIN list) \X {"left", "right"} : Child(a) # 0}
TreeIsTree ==
  pc = "execute" =>
    /\ \A a, b \in Edges : Child(a) = Child(b) => a = b
    /\ \A a \in Edges : Child(a) # tree.root
    /\ \A S \in SUBSET DOMAIN list :
         S # {} => \E k \in S : tree.left[k] \notin S /\ tree.right[k] \notin S

(* An operator in the tree stands bare in the line, or is a variable in    *)
(* double quotes: no other quoting and no value of a bare variable makes   *)
(* one.                                                                    *)
OperatorsAreBare ==
  pc = "execute" =>
    \A t \in Range(list) :
      t.coretype \in {"PIPE", "REDIR"} =>
        \/ line[t.id] \in Operator
        \/ line[t.id] = "\"" /\ \E p \in (t.id + 1)..Len(line) : line[p] = "$"

(* parser_cmd_no_found: what runs as a command was a builtin or there when *)
(* it was looked for the second time, and a word that is not run was       *)
(* absent, merged and expanded as it is now; the first look, on other      *)
(* texts and at another time, decides nothing.                             *)
TypesAreFresh ==
  pc = "execute" =>
    \A t \in Range(list) :
      /\ t.type = "CMD" => t.value \in Builtin \cup some
      /\ t.type = "WORD" => t.value \notin Builtin \cup always

(* init_yggdrasil finds a root for every line but one of spaces.           *)
OnlyBlankCrashes == pc = "crashed" => Range(line) = {Space}

(* The assignments a line begins with, the last one of a name deciding,    *)
(* are in the environment when its words are expanded, and nothing else    *)
(* has changed there; a line with a word whose quote is never closed       *)
(* does not come that far.                                                 *)
AssignmentsRead ==
  LET items == Items(line)
      Is(k) == Word(items[k]) /\ IsAssignment(Text(items[k]))
      first == {k \in DOMAIN items : \A j \in 1..k : Is(j)}
      Gives(k, n) == LET t == Text(items[k])
                     IN SubSeq(t, 1, Len(n) + 1) = Append(n, "=")
  IN /\ pc = "expand" => \A item \in Range(items) : item.open => item.glued
     /\ (pc \in {"expand", "again", "execute"} /\ PlainValues
         /\ \A item \in Range(items) : Word(item) => Agreed(item) /\ ~Has(item, "$"))
        => /\ \A n \in DOMAIN env \ DOMAIN before : \E k \in first : Gives(k, n)
           /\ \A n \in DOMAIN before : n \in DOMAIN env
           /\ \A n \in DOMAIN env :
                LET K == {k \in first : Gives(k, n)}
                IN env[n] = IF K = {} THEN before[n]
                            ELSE Rest(Text(items[Max(K)]), Len(n) + 2)
-----------------------------------------------------------------------------
(* What the evaluation sheet of the project and comments ask for, and the  *)
(* code does not do.                                                       *)

(* The nodes execute_ast gets to: both sides of a pipe, the command of a   *)
(* redirection.                                                            *)
Reached ==
  LET from[n \in 0..Len(list)] ==
        IF n = 0 THEN {}
        ELSE {n} \cup (IF list[n].type = "PIPE"
                       THEN from[tree.left[n]] \cup from[tree.right[n]]
                       ELSE IF list[n].coretype = "REDIR"
                       THEN from[tree.left[n]] ELSE {})
  IN from[tree.root]
Runs(words) == Asked(words) \in {Argv(n) : n \in Reached}

(* The words between two neighbouring cuts of a line, all that are not     *)
(* part of a redirection.                                                  *)
Stages(items) ==
  LET ends == Cuts(items, {<<"|">>}) \cup {0, Len(items) + 1}
      StageAfter(a) == SubSeq(items, a + 1, Min({b \in ends : b > a}) - 1)
  IN {StageAfter(a) : a \in ends \ {Len(items) + 1}}
Command(stage) ==
  LET redirs == Cuts(stage, RedirText)
  IN IF redirs = {} THEN stage ELSE SubSeq(stage, 1, Min(redirs) - 1)

(* A line of spaces does not crash the shell.                              *)
SpacesDoNothing == pc # "crashed"

(* Every stage of a pipeline runs, redirected or not.                      *)
EveryStageRuns ==
  LET items == Items(line) IN
  (/\ pc = "execute" /\ AgreedLine(items)
   /\ \A stage \in Stages(items) : /\ Command(stage) # <<>>
                                   /\ Word(Last(stage))
                                   /\ Len(stage) <= Len(Command(stage)) + 2)
    => \A stage \in Stages(items) : Runs(Command(stage))
=============================================================================
