---------------------------- MODULE MCLineReader ----------------------------
(* Inputs small enough for TLC.                                            *)
EXTENDS LineReader

Texts(S, n) == UNION {[1..m -> S] : m \in 0..n}

MCChar == {"x", "nl", "zero"}
MCDelim == {<<"x">>, <<>>}
(* A file or what a user types; the left side of a pipeline writes a line. *)
MCInputs ==
  {[s \in Source |-> IF s = "stdin" THEN t ELSE <<"x", "nl">>] :
     t \in Texts({"x", "nl"}, 4) \cup {<<"nl", "x", "zero">>}
           \cup {<<"x", "nl", "x", "x", "nl">>}}
=============================================================================
