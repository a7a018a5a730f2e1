----------------------------- MODULE Yggdrasil ------------------------------
(***************************************************************************)
(* From the token list to the tree: files and arguments                    *)
(* (handler_args_file.c), the second look for commands                     *)
(* (parser_cmd_no_found.c) and the tree builder (src/parser/yggdrasil).    *)
(*                                                                         *)
(* A node of the tree is the place of its token in the list, 0 is NULL;    *)
(* a tree is the record of the functions left and right, the tokens used,  *)
(* its root, whether it is the single EOF node of an error, and whether    *)
(* the builder went through a null pointer.                                *)
(***************************************************************************)
EXTENDS Tokens

(* The word behind a redirection is its file and leaves the list.          *)
redir_handler_file(list, k) ==
  IF list[k].coretype = "REDIR" /\ k < Len(list) /\ list[k + 1].type = "WORD"
  THEN Absorbed(list, k, [list[k] EXCEPT !.file = list[k + 1].value])
  ELSE list

(* The first argument brings the command's own name with it.               *)
join_and_split(t, arg) ==
  IF arg.value = NULL THEN t
  ELSE IF t.args = <<>>
  THEN IF t.value = NULL THEN t ELSE [t EXCEPT !.args = <<t.value, arg.value>>]
  ELSE [t EXCEPT !.args = Append(@, arg.value)]

(* Slips: a command takes the tokens behind a pipe, or a redirection, too. *)
TakeArgument_NoPipe(x, k) ==
  IF ~x.on \/ k = Len(x.list) \/ x.list[k + 1].coretype = "REDIR" THEN x
  ELSE LET t == join_and_split(x.list[k], x.list[k + 1])
       IN [list |-> Absorbed(x.list, k, t), on |-> t.args # <<>>]

TakeArgument_NoRedir(x, k) ==
  IF ~x.on \/ k = Len(x.list) \/ x.list[k + 1].rank = RANK_S THEN x
  ELSE LET t == join_and_split(x.list[k], x.list[k + 1])
       IN [list |-> Absorbed(x.list, k, t), on |-> t.args # <<>>]

(* A command takes the next token, up to a pipe or a redirection, and      *)
(* stops (on) behind one that gave it no argument.                         *)
TakeArgument(x, k) ==
  IF \/ ~x.on \/ k = Len(x.list)
     \/ x.list[k + 1].rank = RANK_S \/ x.list[k + 1].coretype = "REDIR"
  THEN x
  ELSE LET t == join_and_split(x.list[k], x.list[k + 1])
       IN [list |-> Absorbed(x.list, k, t), on |-> t.args # <<>>]

cmd_handler_args(list, k) ==
  Turns(LAMBDA x, j : TakeArgument(x, k), [list |-> list, on |-> TRUE],
        Len(list) - k).list

(* One turn of the loop over the list, which gets shorter meanwhile.       *)
AttachTo(list, k) ==
  IF k > Len(list) THEN list
  ELSE LET l == redir_handler_file(list, k)
       IN IF l[k].coretype \in {"CMD", "WORD"} THEN cmd_handler_args(l, k) ELSE l

handler_args_file(list) == Turns(AttachTo, list, Len(list))

(* A slip: what was a command once is not looked up again.                 *)
parser_cmd_no_found_Once(t, found) ==
  IF t.type \in {"PIPE", "ASSIGNMENT", "CMD"} \/ t.coretype = "REDIR" THEN t
  ELSE IF t.value \notin found \cup Builtin THEN [t EXCEPT !.type = "WORD"]
  ELSE Typed(t, "CMD", "CMD", RANK_B)

(* Expansion and merging may have made a command of a word, and other      *)
(* processes a word of a command: the types are looked up again.           *)
parser_cmd_no_found(t, found) ==
  IF t.type \in {"PIPE", "ASSIGNMENT"} \/ t.coretype = "REDIR" THEN t
  ELSE IF t.value \notin found \cup Builtin THEN [t EXCEPT !.type = "WORD"]
  ELSE IF t.type = "WORD" THEN Typed(t, "CMD", "CMD", RANK_B) ELSE t
-----------------------------------------------------------------------------
NoTree(list) ==
  [left |-> [k \in DOMAIN list |-> 0], right |-> [k \in DOMAIN list |-> 0],
   used |-> {}, root |-> 0, eof |-> FALSE, crashed |-> FALSE]

(* The last of the tokens of the highest rank.                             *)
Highest(list, S) ==
  IF S = {} THEN 0
  ELSE CHOOSE k \in S : \A j \in S : list[j].rank < list[k].rank
                          \/ (list[j].rank = list[k].rank /\ j <= k)

find_left_token(list, y, t) ==
  Highest(list, IF t = 0 THEN {} ELSE (1..(t - 1)) \ y.used)

find_right_token(list, y, t, e) ==
  Highest(list, IF t = 0 THEN {}
                ELSE ((t + 1)..(IF e = 0 THEN Len(list) ELSE e - 1)) \ y.used)

(* new_yggnode makes a node of a token that is not one yet.                *)
new_yggnode(y, t) == IF t \in y.used THEN 0 ELSE t

SetLeft(y, n, t) ==
  [y EXCEPT !.left[n] = new_yggnode(y, t), !.used = @ \cup ({t} \ {0})]

(* A slip: a token on the right is not marked.                             *)
SetRight_Unmarked(y, n, t) == [y EXCEPT !.right[n] = new_yggnode(y, t)]

SetRight(y, n, t) ==
  [y EXCEPT !.right[n] = new_yggnode(y, t), !.used = @ \cup ({t} \ {0})]

(* The tokens before the redirection t become a chain on the left of n.     *)
build_command_subtree(list, y, t, n) ==
  LET S == {k \in 1..(t - 1) : k \notin y.used /\ list[k].coretype # "REDIR"}
      After(k) == {j \in S : j > k}
  IN [y EXCEPT !.left[n] = IF S = {} THEN 0 ELSE Min(S),
               !.right = [k \in DOMAIN list |->
                            IF k \in S /\ After(k) # {}
                            THEN Min(After(k)) ELSE y.right[k]],
               !.used = @ \cup S]

(* A call of make_yggdrasil: the token t it starts from, the token e its   *)
(* right side ends at, the node n it fills, and whether it has made the    *)
(* children.  t, if there, need not be the token of the node n.            *)
Call(t, e, n) == [t |-> t, e |-> e, n |-> n, made |-> FALSE]

(* The children of n: a redirection has its command on the left, any other *)
(* token the highest ones on its sides.                                    *)
Children(list, y, c) ==
  IF c.t # 0 /\ list[c.t].coretype = "REDIR"
  THEN LET y1 == build_command_subtree(list, y, c.t, c.n)
       IN IF c.t < Len(list) /\ c.t + 1 \notin y1.used
          THEN SetRight(y1, c.n, c.t + 1) ELSE y1
  ELSE LET y1 == SetLeft(y, c.n, find_left_token(list, y, c.t))
       IN SetRight(y1, c.n, find_right_token(list, y1, c.t, c.e))

(* The children's own come from a second search, which sees what the first *)
(* one used.                                                               *)
CallsLeft(list, y, c) ==
  LET child == y.left[c.n]
  IN IF child # 0 /\ list[child].value # NULL
     THEN <<Call(find_left_token(list, y, c.t), c.t, child)>> ELSE <<>>
CallsRight(list, y, c) ==
  LET child == y.right[c.n]
  IN IF child # 0 /\ list[child].value # NULL
     THEN <<Call(find_right_token(list, y, c.t, c.e), c.e, child)>> ELSE <<>>

(* A slip: words are no roots.                                             *)
Root_NoWord(list) ==
  LET top == {k \in DOMAIN list :
                list[k].rank >= RANK_B /\
                \A j \in DOMAIN list : list[j].rank <= list[k].rank}
  IN IF top = {} THEN 0 ELSE Max(top)

(* The root is the first token of the highest rank, the last one when it   *)
(* is a redirection.                                                       *)
Root(list) ==
  LET top == {k \in DOMAIN list :
                \A j \in DOMAIN list : list[j].rank <= list[k].rank}
      redirs == {k \in top : list[k].coretype = "REDIR"}
  IN IF top = {} THEN 0 ELSE IF redirs # {} THEN Max(redirs) ELSE Min(top)

(* A redirection at the root needs a word behind it.                       *)
SyntaxError(list, root) ==
  /\ list[root].coretype = "REDIR"
  /\ root = Len(list) \/ list[root + 1].coretype # "WORD"

(* The tree before make_yggdrasil is called for its root.                  *)
init_yggdrasil(list) ==
  LET root == Root(list)
      y == NoTree(list)
  IN IF root = 0 THEN [y EXCEPT !.crashed = TRUE]
     ELSE IF SyntaxError(list, root)
     THEN [y EXCEPT !.eof = TRUE, !.root = 1, !.used = {1}]
     ELSE [y EXCEPT !.root = root, !.used = {root}]
=============================================================================
