--------------------------- MODULE HereDocuments ---------------------------
(***************************************************************************)
(* What a user who types at a shell expects of here-documents: the text    *)
(* typed is command lines and, after a command with <<, the lines of its   *)
(* document up to the delimiter or the end of file, in the order they were *)
(* typed, each of them used once.  LineReader.tla implements it by a       *)
(* buffer per process.                                                     *)
(***************************************************************************)
EXTENDS Naturals, Sequences

CONSTANTS
  NL,       \* the newline
  Delim     \* the delimiters a document may have: no newline in them

VARIABLES
  unread,   \* what is typed and not used yet
  mode,     \* who uses the next line: a "command" or a "document"
  delim,    \* the document's delimiter
  body,     \* the document so far
  eof,      \* the user typed an end of file
  exact     \* the promise holds: the input is a terminal and nothing failed

hereVars == <<unread, mode, delim, body, eof, exact>>

\* The first n characters are a line, of which only the last may lack its end.
LineOf(n, mayEnd) ==
  /\ n \in 1..Len(unread)
  /\ \A k \in 1..(n - 1) : unread[k] # NL
  /\ unread[n] = NL \/ mayEnd
Front(n) == SubSeq(unread, 1, n)
Use(n) == unread' = SubSeq(unread, n + 1, Len(unread))

HereInit == mode = "command" /\ delim = <<>> /\ body = <<>> /\ ~eof

Command ==
  /\ mode = "command"
  /\ \E n \in 1..Len(unread) : LineOf(n, n = Len(unread)) /\ Use(n)
  /\ UNCHANGED <<mode, delim, body, eof>>

Begin ==
  /\ mode = "command" /\ mode' = "document"
  /\ delim' \in Delim /\ body' = <<>>
  /\ UNCHANGED <<unread, eof>>

Delimiter(l) == l \in {delim, Append(delim, NL)}

Line ==
  /\ mode = "document"
  /\ \E n \in 1..Len(unread) :
       /\ LineOf(n, eof) /\ ~Delimiter(Front(n))
       /\ Use(n) /\ body' = body \o Front(n)
  /\ UNCHANGED <<mode, delim, eof>>

End ==
  /\ mode = "document" /\ mode' = "command"
  /\ \/ \E n \in 1..Len(unread) :
          LineOf(n, eof) /\ Delimiter(Front(n)) /\ Use(n)
     \/ eof /\ UNCHANGED unread
  /\ delim' = <<>> /\ body' = <<>> /\ ~eof'

\* An end of file ends the line it is typed in, or the document; without
\* effect on more than one line.
EndOfFile ==
  /\ mode = "document" /\ eof' = ~eof
  /\ UNCHANGED <<unread, mode, delim, body>>

HereNext ==
  exact' => exact /\ (Command \/ Begin \/ Line \/ End \/ EndOfFile)

HereSpec == HereInit /\ [][HereNext]_hereVars
=============================================================================
