------------------------------ MODULE Reading -------------------------------
(***************************************************************************)
(* What a line says, read symbol by symbol, once from left to right, with  *)
(* none of the parser's passes: the words and operators it consists of.    *)
(* Parser.tla compares this with the trees the parser builds.              *)
(***************************************************************************)
EXTENDS Tokens

(* An item is an operator or a word; a word's parts are what stands in     *)
(* quotes of one sort, or in none (bare).  open: a quote in it is not      *)
(* closed; glued: the first such quote is not where the word begins.       *)
Item(kind, parts) ==
  [kind |-> kind, parts |-> parts, open |-> FALSE, glued |-> FALSE]
Part(mode, text) == [mode |-> mode, text |-> text]

Text(item) == FlattenSeq([k \in DOMAIN item.parts |-> item.parts[k].text])

(* The reader: the items read, the one it is in, the quote it is in.       *)
Finished(r) ==
  IF r.item.kind = "none" THEN r
  ELSE [r EXCEPT !.items = Append(@, r.item), !.item = Item("none", <<>>)]

InWord(r) ==
  IF r.item.kind = "word" THEN r
  ELSE [Finished(r) EXCEPT !.item = Item("word", <<>>)]

NewPart(r, mode) == [InWord(r) EXCEPT !.item.parts = Append(@, Part(mode, <<>>))]

Read(r, s) == [r EXCEPT !.item.parts[Len(r.item.parts)].text = Append(@, s)]

ReadBare(r, s) ==
  LET w == InWord(r)
  IN Read(IF w.item.parts # <<>> /\ Last(w.item.parts).mode = "bare" THEN w
          ELSE NewPart(w, "bare"), s)

(* A quote counts when there is another one of its sort behind it.         *)
Closes(line, p) == \E q \in (p + 1)..Len(line) : line[q] = line[p]

ReadSymbol(line, r, p) ==
  LET s == line[p] IN
  IF r.mode # "bare"
  THEN IF s = r.mode THEN [r EXCEPT !.mode = "bare"] ELSE Read(r, s)
  ELSE IF s \in Quote
  THEN IF Closes(line, p) THEN [NewPart(r, s) EXCEPT !.mode = s]
       ELSE [ReadBare(r, s) EXCEPT
               !.item.open = TRUE,
               !.item.glued = IF r.item.open THEN @ ELSE r.item.kind = "word"]
  ELSE IF s = Space THEN Finished(r)
  ELSE IF s \in Operator
  THEN IF r.item.kind = "op" /\ Text(r.item) = <<s>> /\ s # "|"
       THEN Read(r, s)
       ELSE [Finished(r) EXCEPT !.item = Item("op", <<Part("bare", <<s>>)>>)]
  ELSE ReadBare(r, s)

Unread == [items |-> <<>>, item |-> Item("none", <<>>), mode |-> "bare"]

Items(line) ==
  Finished(Turns(LAMBDA r, p : ReadSymbol(line, r, p), Unread, Len(line))).items

(* The symbols of a text with the variables in it replaced: a reader that  *)
(* collects a name behind a "$".                                           *)
Flushed(x, env) ==
  IF ~x.on THEN x.out
  ELSE x.out \o (IF x.name = <<>> THEN <<"$">>
                 ELSE IF x.name \in DOMAIN env THEN env[x.name] ELSE <<>>)

Substitute(x, s, env) ==
  IF s = "$" THEN [out |-> Flushed(x, env), on |-> TRUE, name |-> <<>>]
  ELSE IF x.on /\ s \in Name THEN [x EXCEPT !.name = Append(@, s)]
  ELSE [out |-> Append(Flushed(x, env), s), on |-> FALSE, name |-> <<>>]

Interpolated(text, env) ==
  Flushed(Turns(LAMBDA x, p : Substitute(x, text[p], env),
                [out |-> <<>>, on |-> FALSE, name |-> <<>>], Len(text)), env)

(* What a word stands for: nothing is replaced in single quotes.           *)
Meaning(w, env) ==
  FlattenSeq([k \in DOMAIN w.parts |->
                IF w.parts[k].mode = "'" THEN w.parts[k].text
                ELSE Interpolated(w.parts[k].text, env)])

(* A name and a "=".                                                       *)
IsAssignment(text) ==
  \E e \in 2..Len(text) :
    text[e] = "=" /\ \A k \in 1..(e - 1) : text[k] \in Name
=============================================================================
