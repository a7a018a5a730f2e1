--------------------------- MODULE MCCommandList ---------------------------
(* Two directories, one of them in PATH twice or also the working one.     *)
EXTENDS CommandList, TLC

MCPathValues == {<<"a", ":", "b">>, <<":", "a", ":", ":", "a">>}
MCCwd == <<"b">>
Content(word, other) == (Word :> word) @@ [n \in Others |-> other]
MCContents == {Content("none", "none"), Content("program", "none"),
               Content("dir", "plain")}
=============================================================================
