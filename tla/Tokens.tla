------------------------------- MODULE Tokens -------------------------------
(***************************************************************************)
(* The list of tokens of a line and the passes over it that come before    *)
(* the arguments are attached: splitting, quotes, types, merging,          *)
(* assignments and expansion (src/parser/tokenlst, src/parser/             *)
(* quote_handling, src/execution/expander*.c).                             *)
(*                                                                         *)
(* A line is a sequence of symbols.  A letter or a word of letters is one  *)
(* symbol, a member of Name; the others are the characters the parser      *)
(* tells apart.  A token list is a sequence: the successor of list[k] in   *)
(* the code's linked list is list[k + 1].                                  *)
(***************************************************************************)
EXTENDS Naturals, Sequences, FiniteSets, FiniteSetsExt, SequencesExt

CONSTANTS
  Name,       \* runs of letters
  Builtin     \* the words that are names of builtins

Space == " "
Quote == {"'", "\""}
Operator == {"|", "<", ">"}
Symbol == Name \cup Quote \cup Operator \cup {Space, "$", "="}

ASSUME NamesAreNoPunctuation ==
  /\ Name \cap (Quote \cup Operator \cup {Space, "$", "=", "NULL"}) = {}
  /\ Builtin \subseteq {<<n>> : n \in Name}

NULL == <<"NULL">>   \* no string

(* Ranks, in their order; RANK_F to RANK_D are not given to any token that *)
(* is compared.                                                            *)
RANK_C == 3
RANK_B == 4
RANK_A == 5
RANK_S == 6

RedirText == {<<"<">>, <<">">>, <<"<", "<">>, <<">", ">">>}
RedirType(v) == CASE v = <<"<", "<">> -> "HEREDOC" [] v = <<">", ">">> -> "APPEND"
                  [] v = <<"<">> -> "REDIR_IN" [] v = <<">">> -> "REDIR_OUT"

Rest(s, k) == SubSeq(s, k, Len(s))

(* The list with the token k, which is t now, and no successor of it.      *)
Absorbed(list, k, t) == SubSeq(list, 1, k - 1) \o <<t>> \o Rest(list, k + 2)

(* What the variables of a loop are after n turns, x at first.             *)
Turns(Turn(_, _), x, n) ==
  LET after[k \in 0..n] == IF k = 0 THEN x ELSE Turn(after[k - 1], k)
  IN after[n]

(* How many symbols s begins with that are in S.                           *)
RunLength(s, S) ==
  LET ends == {k \in 1..Len(s) : s[k] \notin S}
  IN IF ends = {} THEN Len(s) ELSE Min(ends) - 1
-----------------------------------------------------------------------------
(* split_input                                                             *)

(* A quoted token runs to the next quote of its sort, or is the lone quote *)
(* when there is none; a word runs to a space, a quote or an operator.     *)
get_token_len(s) ==
  IF s[1] \in Quote
  THEN LET n == RunLength(Tail(s), Symbol \ {s[1]})
       IN IF n = Len(s) - 1 THEN 1 ELSE n + 2
  ELSE IF s[1] \in Operator
  THEN IF s[1] # "|" /\ Len(s) > 1 /\ s[2] = s[1] THEN 2 ELSE 1
  ELSE RunLength(s, Symbol \ (Quote \cup Operator \cup {Space}))

(* A slip: a space behind a token does not keep the next one apart.        *)
NewToken_AcrossSpace(id, s, n) ==
  [id |-> id, value |-> SubSeq(s, 1, n), type |-> "PIPE", coretype |-> "WORD",
   rank |-> RANK_C, literal |-> FALSE, err |-> FALSE, args |-> <<>>,
   file |-> NULL,
   merge_next |-> /\ s[1] \notin Operator /\ n < Len(s) /\ s[n + 1] \notin Operator
                  /\ n + RunLength(Rest(s, n + 1), {Space}) < Len(s)]

(* The token s begins with; id is its place in the line.                   *)
NewToken(id, s, n) ==
  [id |-> id, value |-> SubSeq(s, 1, n), type |-> "PIPE", coretype |-> "WORD",
   rank |-> RANK_C, literal |-> FALSE, err |-> FALSE, args |-> <<>>,
   file |-> NULL,
   merge_next |-> /\ s[1] \notin Operator
                  /\ n < Len(s) /\ s[n + 1] \notin Operator \cup {Space}]

(* Behind the last token there is always one more, without a value.        *)
Sentinel(id) ==
  [id |-> id, value |-> NULL, type |-> "PIPE", coretype |-> "PIPE", rank |-> 0,
   literal |-> FALSE, err |-> FALSE, args |-> <<>>, file |-> NULL,
   merge_next |-> FALSE]

(* One turn of the loop of split_input: spaces, then a token, if there is  *)
(* one.                                                                    *)
NextToken(line, x) ==
  LET start == x.at + RunLength(Rest(line, x.at), {Space})
      s == Rest(line, start)
  IN IF s = <<>> THEN x
     ELSE [at |-> start + get_token_len(s),
           list |-> Append(x.list, NewToken(start, s, get_token_len(s)))]

(* A line of spaces has no list.                                           *)
split_input(line) ==
  IF RunLength(line, {Space}) = Len(line) THEN <<>>
  ELSE LET all == Turns(LAMBDA x, k : NextToken(line, x),
                        [at |-> 1, list |-> <<>>], Len(line))
       IN Append(all.list, Sentinel(Len(line) + 1))
-----------------------------------------------------------------------------
(* Values of variables.  env maps names to values.                         *)

get_envar(env, n) == IF n \in DOMAIN env THEN env[n] ELSE <<>>

(* v with each "$" and the run of S behind it replaced by the value of     *)
(* that name, a "$" with no such run by lone: what comes next, and all.    *)
NextPiece(v, S, lone, env, x) ==
  IF x.at > Len(v) THEN x
  ELSE IF v[x.at] # "$" THEN [at |-> x.at + 1, text |-> Append(x.text, v[x.at])]
  ELSE LET n == RunLength(Rest(v, x.at + 1), S)
           name == SubSeq(v, x.at + 1, x.at + n)
       IN [at |-> x.at + n + 1,
           text |-> x.text \o (IF n = 0 THEN lone ELSE get_envar(env, name))]

Expand(v, S, lone, env) ==
  Turns(LAMBDA x, k : NextPiece(v, S, lone, env, x), [at |-> 1, text |-> <<>>],
        Len(v)).text

(* In double quotes a name runs to the next member of QUOTE_SET, a lone    *)
(* "$" stays when there is nothing else but spaces.                        *)
LoneDollar(v) ==
  \E k \in DOMAIN v : v[k] = "$" /\ \A j \in DOMAIN v \ {k} : v[j] = Space
quote_handler_cpy(v, env) ==
  IF LoneDollar(v) THEN <<"$">>
  ELSE Expand(v, Symbol \ {Space, "'", "$"}, <<>>, env)

expand_variables(v, env) == Expand(v, Name, <<"$">>, env)
-----------------------------------------------------------------------------
(* quote_handler: a quote that is not closed is an error; the text in      *)
(* single quotes, and an operator in double quotes, is literal.            *)
quote_handler(t, env) ==
  IF t.value = NULL \/ t.value[1] \notin Quote THEN t
  ELSE IF Len(t.value) = 1 THEN [t EXCEPT !.err = TRUE]
  ELSE LET inner == SubSeq(t.value, 2, Len(t.value) - 1)
           literal == t.value[1] = "'" \/ inner \in RedirText \cup {<<"|">>}
       IN [t EXCEPT !.literal = literal,
                    !.value = IF literal THEN inner
                              ELSE quote_handler_cpy(inner, env)]

quote_handler_call_loop(list, env) ==
  [k \in DOMAIN list |-> quote_handler(list[k], env)]

(* typealize: what a token is, by its value; found holds the values        *)
(* search_list finds: names in a directory of PATH and paths of programs.  *)
(* A literal operator is a word, and no program is looked for.             *)
Typed(t, type, coretype, rank) ==
  [t EXCEPT !.type = type, !.coretype = coretype, !.rank = rank]

(* A slip: literal operators are operators.                                *)
typealize_NoLiteral(t, found) ==
  IF t.value = <<"|">> THEN Typed(t, "PIPE", "PIPE", RANK_S)
  ELSE IF t.value \in RedirText
  THEN Typed(t, RedirType(t.value), "REDIR", RANK_A)
  ELSE IF t.value \in found THEN Typed(t, "CMD", "CMD", RANK_B)
  ELSE Typed(t, "WORD", "WORD", RANK_C)

typealize(t, found) ==
  IF t.value = <<"|">> /\ ~t.literal THEN Typed(t, "PIPE", "PIPE", RANK_S)
  ELSE IF t.value \in RedirText /\ ~t.literal
  THEN Typed(t, RedirType(t.value), "REDIR", RANK_A)
  ELSE IF t.value \in found \ (RedirText \cup {<<"|">>})
  THEN Typed(t, "CMD", "CMD", RANK_B)
  ELSE Typed(t, "WORD", "WORD", RANK_C)

typealize_call_loop(list, found) ==
  [k \in DOMAIN list |-> typealize(list[k], found)]

(* merge_to_token_exception: the successor's text is appended, its type    *)
(* and its marks are lost with it.                                         *)
merge_to_token_exception(list, k) ==
  IF ~list[k].merge_next THEN list
  ELSE Absorbed(list, k, [list[k] EXCEPT !.value = @ \o list[k + 1].value,
                                         !.merge_next = FALSE])

(* From the end of the list to its beginning.                              *)
merg_tok_excep_cll_revloop(list) ==
  IF Len(list) < 2 THEN list
  ELSE Turns(LAMBDA l, k : merge_to_token_exception(l, Len(list) - k),
             list, Len(list) - 1)

has_parser_error(list) == \E k \in DOMAIN list : list[k].err
-----------------------------------------------------------------------------
(* The assignments a line begins with                                      *)

is_valid_assignment(v) ==
  LET n == RunLength(v, Name) IN n > 0 /\ n < Len(v) /\ v[n + 1] = "="

Assignments(list) ==
  RunLength([k \in DOMAIN list |-> is_valid_assignment(list[k].value)], {TRUE})

(* A slip: a variable that is there already keeps its value.               *)
Assigned_KeepsOld(v, env) ==
  LET e == RunLength(v, Name)
      name == SubSeq(v, 1, e)
  IN [n \in DOMAIN env \cup {name} |->
        IF n \in DOMAIN env THEN env[n] ELSE Rest(v, e + 2)]

(* The environment with the assignment v.                                  *)
Assigned(v, env) ==
  LET e == RunLength(v, Name)
      name == SubSeq(v, 1, e)
  IN [n \in DOMAIN env \cup {name} |->
        IF n = name THEN Rest(v, e + 2) ELSE env[n]]

(* The environment once the first n tokens were assigned.                  *)
AssignedEnv(list, n, env) ==
  Turns(LAMBDA e, k : Assigned(list[k].value, e), env, n)

MarkedAssignments(list) ==
  [k \in DOMAIN list |-> IF k <= Assignments(list)
                         THEN [list[k] EXCEPT !.type = "ASSIGNMENT"]
                         ELSE list[k]]

(* A slip: literal tokens are expanded too.                                *)
expand_token_list_no_assignments_All(list, env) ==
  [k \in DOMAIN list |->
     IF list[k].value = NULL \/ list[k].type = "ASSIGNMENT" THEN list[k]
     ELSE [list[k] EXCEPT !.value = expand_variables(@, env)]]

expand_token_list_no_assignments(list, env) ==
  [k \in DOMAIN list |->
     IF list[k].value = NULL \/ list[k].literal \/ list[k].type = "ASSIGNMENT"
     THEN list[k]
     ELSE [list[k] EXCEPT !.value = expand_variables(@, env)]]
=============================================================================
