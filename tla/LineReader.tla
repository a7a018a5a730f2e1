----------------------------- MODULE LineReader -----------------------------
(***************************************************************************)
(* get_next_line (src/libft) and the here-documents that read through it   *)
(* (src/execution/executor_signals.c).  What a read gave beyond the line   *)
(* asked for waits in a static buffer: it outlives the here-document, is   *)
(* copied by fork into the children of a pipeline, and is not bound to a   *)
(* descriptor.  readline, at the prompt, reads the same input past it.     *)
(*                                                                         *)
(* A character of an input is known by its place <<source, index>>, so     *)
(* that a copy can be told from the next one that looks the same.          *)
(***************************************************************************)
EXTENDS Naturals, Sequences, FiniteSets

CONSTANTS
  Char, NL, NUL,   \* characters, among them the newline and the zero byte
  NULL,            \* the NULL pointer
  Inputs,          \* what the two sources may hold
  Delim,           \* delimiters
  BUFFER_SIZE,     \* bytes asked of one read
  PipeCap,         \* bound: characters the pipe of a here-document takes
  MaxFailures      \* bound: allocations and reads that fail

\* The shell's standard input, and the pipe the right side of a pipeline reads.
Source == {"stdin", "pipe"}
Process == {"shell", "left", "right"}
SourceOf(p) == IF p = "right" THEN "pipe" ELSE "stdin"
Item == Source \X (Nat \ {0})

ASSUME ReaderAssumption ==
  /\ NL \in Char /\ NUL \in Char /\ NL # NUL
  /\ NULL \notin Seq(Item)
  /\ Inputs \subseteq [Source -> Seq(Char)]
  /\ Delim \subseteq Seq(Char \ {NL, NUL})
  /\ BUFFER_SIZE \in Nat \ {0} /\ PipeCap \in Nat /\ MaxFailures \in Nat

VARIABLES
  input,     \* source -> its text
  tty,       \* the shell's standard input is a terminal
  next,      \* source -> how much of it has been read
  pc,        \* process -> where it is
  buffer,    \* process -> get_next_line's static buffer, NULL or text
  line,      \* process -> what get_next_line returned
  delim,     \* process -> the delimiter of its here-document
  body,      \* process -> what its here-document's pipe holds
  failures,
  eof,       \* history: process -> its last read returned 0
  got,       \* history: process -> all it read, after what it inherited
  handed     \* history: process -> the lines get_next_line gave it

vars == <<input, tty, next, pc, buffer, line, delim, body, failures, eof, got,
          handed>>
local == <<delim, body, failures>>

CharAt(item) == input[item[1]][item[2]]
Chars(s) == [k \in DOMAIN s |-> CharAt(s[k])]
Text(b) == IF b = NULL THEN <<>> ELSE b

\* The place of the first c in s, or the one behind its end.
Has(s, c) == \E k \in DOMAIN s : CharAt(s[k]) = c
First(s, c) ==
  IF Has(s, c)
  THEN CHOOSE k \in DOMAIN s :
         CharAt(s[k]) = c /\ \A j \in 1..(k - 1) : CharAt(s[j]) # c
  ELSE Len(s) + 1

Init ==
  /\ input \in Inputs /\ tty \in BOOLEAN
  /\ next = [s \in Source |-> 0]
  /\ pc = [p \in Process |-> IF p = "shell" THEN "prompt" ELSE "none"]
  /\ buffer = [p \in Process |-> NULL]
  /\ line = [p \in Process |-> NULL]
  /\ delim = [p \in Process |-> <<>>]
  /\ body = [p \in Process |-> <<>>]
  /\ failures = 0
  /\ eof = [p \in Process |-> FALSE]
  /\ got = [p \in Process |-> <<>>]
  /\ handed = [p \in Process |-> <<>>]
-----------------------------------------------------------------------------
(* The shell and the children of a pipeline, around their here-documents.  *)

Rest(s) == Len(input[s]) - next[s]
Goto(p, l) == pc' = [pc EXCEPT ![p] = l]

\* readline takes one line of standard input, byte by byte.
Command ==
  /\ pc["shell"] = "prompt" /\ Goto("shell", "run")
  /\ \E n \in 1..Rest("stdin") :
       LET read == [k \in 1..n |-> <<"stdin", next["stdin"] + k>>] IN
       /\ n = First(read, NL) \/ (n = Rest("stdin") /\ ~Has(read, NL))
       /\ next' = [next EXCEPT !["stdin"] = @ + n]
  /\ UNCHANGED <<input, tty, buffer, line, local, eof, got, handed>>

\* readline gives NULL.
Leave ==
  /\ pc["shell"] = "prompt" /\ (tty \/ Rest("stdin") = 0)
  /\ Goto("shell", "gone")
  /\ UNCHANGED <<input, tty, next, buffer, line, local, eof, got, handed>>

\* The two forks of a pipeline: each child has its own copy of the buffer.
Fork ==
  /\ pc["shell"] = "run"
  /\ pc' = [p \in Process |-> IF p = "shell" THEN "wait" ELSE "run"]
  /\ buffer' = [p \in Process |-> buffer["shell"]]
  /\ got' = [p \in Process |->
               IF p = "shell" THEN got[p] ELSE Text(buffer["shell"])]
  /\ handed' = [p \in Process |-> IF p = "shell" THEN handed[p] ELSE <<>>]
  /\ UNCHANGED <<input, tty, next, line, local, eof>>

\* The two waits: with a child its buffer is gone.
Join ==
  /\ pc["left"] = "done" /\ pc["right"] = "done"
  /\ pc' = [p \in Process |-> IF p = "shell" THEN "prompt" ELSE "none"]
  /\ buffer' = [p \in Process |-> IF p = "shell" THEN buffer[p] ELSE NULL]
  /\ got' = [p \in Process |-> IF p = "shell" THEN got[p] ELSE <<>>]
  /\ handed' = [p \in Process |-> IF p = "shell" THEN handed[p] ELSE <<>>]
  /\ UNCHANGED <<input, tty, next, line, local, eof>>

After(p) == IF p = "shell" THEN "prompt" ELSE "done"

\* A command without a here-document.
OtherCommand(p) ==
  /\ pc[p] = "run" /\ Goto(p, After(p))
  /\ UNCHANGED <<input, tty, next, buffer, line, local, eof, got, handed>>

\* handle_heredoc, read_heredoc_lines.
HereDocument(p) ==
  /\ pc[p] = "run" /\ Goto(p, "call")
  /\ \E d \in Delim : delim' = [delim EXCEPT ![p] = d]
  /\ UNCHANGED <<input, tty, next, buffer, line, body, failures, eof, got,
                 handed>>
-----------------------------------------------------------------------------
(* get_next_line.                                                          *)

\* What one read of n bytes gives: a terminal gives at most one line, or 0 when
\* the user types Ctrl-D; a file or a pipe gives 0 only at its end.
ChunkOf(s, n) == [k \in 1..n |-> <<s, next[s] + k>>]
Chunks(s) ==
  {n \in 0..BUFFER_SIZE :
     /\ n <= Rest(s)
     /\ IF s = "stdin" /\ tty
        THEN \A k \in 1..(n - 1) : CharAt(<<s, next[s] + k>>) # NL
        ELSE n = 0 <=> Rest(s) = 0}

\* ft_strjoin_gnl sees a chunk up to its first zero byte.
Visible(chunk) == SubSeq(chunk, 1, First(chunk, NUL) - 1)

\* ft_take_date before its loop.
Call(p) ==
  /\ pc[p] = "call"
  /\ Goto(p, IF Has(Text(buffer[p]), NL) THEN "take" ELSE "read")
  /\ UNCHANGED <<input, tty, next, buffer, line, local, eof, got, handed>>

\* Mutant: the loop goes on at the end of the input.
Read_Forever(p) ==
  /\ pc[p] = "read"
  /\ \E n \in Chunks(SourceOf(p)) :
       LET chunk == ChunkOf(SourceOf(p), n)
           joined == Text(buffer[p]) \o Visible(chunk)
       IN
       /\ next' = [next EXCEPT ![SourceOf(p)] = @ + n]
       /\ got' = [got EXCEPT ![p] = @ \o chunk]
       /\ eof' = [eof EXCEPT ![p] = n = 0]
       /\ buffer' = [buffer EXCEPT ![p] = IF joined = <<>> THEN NULL ELSE joined]
       /\ line' = [line EXCEPT ![p] = NULL]
       /\ Goto(p, IF joined = <<>> THEN "line"
                  ELSE IF Has(joined, NL) THEN "take" ELSE "read")
  /\ UNCHANGED <<input, tty, local, handed>>

\* Mutant: what one read gives is taken for a line.
Read_Once(p) ==
  /\ pc[p] = "read"
  /\ \E n \in Chunks(SourceOf(p)) :
       LET chunk == ChunkOf(SourceOf(p), n)
           joined == Text(buffer[p]) \o Visible(chunk)
       IN
       /\ next' = [next EXCEPT ![SourceOf(p)] = @ + n]
       /\ got' = [got EXCEPT ![p] = @ \o chunk]
       /\ eof' = [eof EXCEPT ![p] = n = 0]
       /\ buffer' = [buffer EXCEPT ![p] = IF joined = <<>> THEN NULL ELSE joined]
       /\ line' = [line EXCEPT ![p] = NULL]
       /\ Goto(p, IF joined = <<>> THEN "line" ELSE "take")
  /\ UNCHANGED <<input, tty, local, handed>>

\* One turn of its loop: read and ft_strjoin_gnl, which gives NULL when there is
\* nothing on either side.
Read(p) ==
  /\ pc[p] = "read"
  /\ \E n \in Chunks(SourceOf(p)) :
       LET chunk == ChunkOf(SourceOf(p), n)
           joined == Text(buffer[p]) \o Visible(chunk)
       IN
       /\ next' = [next EXCEPT ![SourceOf(p)] = @ + n]
       /\ got' = [got EXCEPT ![p] = @ \o chunk]
       /\ eof' = [eof EXCEPT ![p] = n = 0]
       /\ buffer' = [buffer EXCEPT ![p] = IF joined = <<>> THEN NULL ELSE joined]
       /\ line' = [line EXCEPT ![p] = NULL]
       /\ Goto(p, IF joined = <<>> THEN "line"
                  ELSE IF n = 0 \/ Has(joined, NL) THEN "take" ELSE "read")
  /\ UNCHANGED <<input, tty, local, handed>>

\* Up to the newline and with it; NULL when there is nothing.
ft_take_line(b) ==
  IF b = <<>> THEN NULL
  ELSE IF Has(b, NL) THEN SubSeq(b, 1, First(b, NL)) ELSE b

\* Mutant: the copy starts one too far.
ft_rebuffer_SkipsOne(b) ==
  IF Has(b, NL) THEN SubSeq(b, First(b, NL) + 2, Len(b)) ELSE NULL

\* What is behind the newline; NULL without one.
ft_rebuffer(b) ==
  IF Has(b, NL) THEN SubSeq(b, First(b, NL) + 1, Len(b)) ELSE NULL

Take(p) ==
  LET b == Text(buffer[p]) IN
  /\ pc[p] = "take" /\ Goto(p, "line")
  /\ line' = [line EXCEPT ![p] = ft_take_line(b)]
  /\ buffer' = [buffer EXCEPT ![p] = ft_rebuffer(b)]
  /\ handed' = [handed EXCEPT ![p] = @ \o Text(ft_take_line(b))]
  /\ UNCHANGED <<input, tty, next, local, eof, got>>

\* The error paths: malloc in ft_take_date, read, and the allocations of
\* ft_strjoin_gnl give the buffer up; those of ft_take_line and ft_rebuffer the
\* line, or what is behind it.
Fail(p) ==
  LET b == Text(buffer[p]) IN
  /\ failures < MaxFailures /\ failures' = failures + 1
  /\ pc[p] \in {"call", "read", "take"} /\ Goto(p, "line")
  /\ \/ /\ pc[p] # "take"
        /\ line' = [line EXCEPT ![p] = NULL]
        /\ buffer' = [buffer EXCEPT ![p] = NULL]
        /\ \/ next' = next
           \/ /\ pc[p] = "read"
              /\ \E n \in Chunks(SourceOf(p)) :
                   next' = [next EXCEPT ![SourceOf(p)] = @ + n]
        /\ UNCHANGED handed
     \/ /\ pc[p] = "take"
        /\ line' = [line EXCEPT ![p] = NULL]
        /\ buffer' = [buffer EXCEPT ![p] = ft_rebuffer(b)]
        /\ UNCHANGED <<next, handed>>
     \/ /\ pc[p] = "take" /\ Has(b, NL)
        /\ line' = [line EXCEPT ![p] = ft_take_line(b)]
        /\ buffer' = [buffer EXCEPT ![p] = NULL]
        /\ handed' = [handed EXCEPT ![p] = @ \o ft_take_line(b)]
        /\ UNCHANGED next
  /\ UNCHANGED <<input, tty, delim, body, eof, got>>
-----------------------------------------------------------------------------
(* read_heredoc_lines.                                                     *)

\* Mutant: match_end is forgotten.
is_heredoc_delim_Prefix(l, d) ==
  Len(d) <= Len(l) /\ \A k \in DOMAIN d : CharAt(l[k]) = d[k]

is_heredoc_delim(l, d) ==
  /\ Len(d) <= Len(l) /\ \A k \in DOMAIN d : CharAt(l[k]) = d[k]
  /\ Len(d) < Len(l) => CharAt(l[Len(d) + 1]) = NL

\* The line goes into the pipe, for which there must be room ...
HereLine(p) ==
  /\ pc[p] = "line" /\ line[p] # NULL /\ ~is_heredoc_delim(line[p], delim[p])
  /\ Len(body[p]) + Len(line[p]) <= PipeCap
  /\ body' = [body EXCEPT ![p] = @ \o line[p]]
  /\ Goto(p, "call")
  /\ UNCHANGED <<input, tty, next, buffer, line, delim, failures, eof, got,
                 handed>>

\* ... until there is none, or the delimiter.  The document is handed over.
HereEnd(p) ==
  /\ pc[p] = "line"
  /\ line[p] # NULL => is_heredoc_delim(line[p], delim[p])
  /\ Goto(p, After(p))
  /\ line' = [line EXCEPT ![p] = NULL]
  /\ delim' = [delim EXCEPT ![p] = <<>>]
  /\ body' = [body EXCEPT ![p] = <<>>]
  /\ eof' = [eof EXCEPT ![p] = FALSE]
  /\ UNCHANGED <<input, tty, next, buffer, failures, got, handed>>
-----------------------------------------------------------------------------
Step(p) ==
  \/ HereDocument(p) \/ OtherCommand(p) \/ Call(p) \/ Read(p) \/ Take(p)
  \/ Fail(p) \/ HereLine(p) \/ HereEnd(p)

Next == Command \/ Leave \/ Fork \/ Join \/ \E p \in Process : Step(p)

Spec == Init /\ [][Next]_vars /\ \A p \in Process : WF_vars(Step(p))
-----------------------------------------------------------------------------
Location == {"none", "prompt", "run", "call", "read", "take", "line", "done",
             "wait", "gone"}
Reading(p) == pc[p] \in {"call", "read", "take", "line"}

TypeOK ==
  /\ input \in Inputs /\ tty \in BOOLEAN
  /\ next \in [Source -> Nat] /\ \A s \in Source : next[s] <= Len(input[s])
  /\ pc \in [Process -> Location]
  /\ buffer \in [Process -> Seq(Item) \cup {NULL}]
  /\ line \in [Process -> Seq(Item) \cup {NULL}]
  /\ delim \in [Process -> Delim \cup {<<>>}]
  /\ body \in [Process -> Seq(Item)]
  /\ failures \in 0..MaxFailures
  /\ eof \in [Process -> BOOLEAN]
  /\ got \in [Process -> Seq(Item)] /\ handed \in [Process -> Seq(Item)]

NoZeroes == \A s \in Source : \A k \in DOMAIN input[s] : input[s][k] # NUL

\* The lines get_next_line gives a process, one after the other, and what its
\* buffer still holds are all the text it read, behind what its parent had in
\* the buffer at the fork: nothing is lost, repeated or moved, however reads cut
\* the lines and however many documents and descriptors they are for.  A failed
\* allocation or read, and a zero byte, do lose text.
NothingLost ==
  failures = 0 /\ NoZeroes =>
    \A p \in Process : got[p] = handed[p] \o Text(buffer[p])

\* A line of an input, of which e says that it has ended: a newline is its last
\* character and no other, and only the last line may be without.
EndsLine(s) == \A k \in 1..(Len(s) - 1) : CharAt(s[k]) # NL
IsLine(s, e) == s # <<>> /\ EndsLine(s) /\ (Has(s, NL) \/ e)

\* What get_next_line gives read_heredoc_lines is one line up to and with its
\* newline, never a part of it or more than it, however many reads it comes in
\* and whatever an earlier document or the parent left in the buffer (of a line
\* that a failure cuts, the end comes as a line of its own).  NULL, which ends a
\* document as Ctrl-D does, is the end of the input, unless something failed or
\* was a zero byte.
LinesAreWhole ==
  \A p \in Process : pc[p] = "line" =>
    IF line[p] = NULL THEN eof[p] \/ failures > 0 \/ ~NoZeroes
    ELSE IsLine(line[p], eof[p])

\* Between its documents a shell at a terminal holds no text back: the buffer is
\* NULL or empty, so that neither the prompt nor a child misses or repeats any.
\* (A shell that reads a file does: see the README.)
TerminalHoldsNothing ==
  tty => \A p \in {"shell", "left"} : ~Reading(p) => Text(buffer[p]) = <<>>

\* At a terminal, documents are what was typed for them, and the prompt gets
\* the line behind the delimiter: see HereDocuments.
Reader == IF Reading("left") THEN "left" ELSE "shell"
InDocument == Reading(Reader)
Held == IF ~InDocument THEN <<>>
        ELSE (IF pc[Reader] = "line" THEN Text(line[Reader]) ELSE <<>>)
               \o Text(buffer[Reader])
Coming == SubSeq(input["stdin"], next["stdin"] + 1, Len(input["stdin"]))

unreadBar == Chars(Held) \o Coming
modeBar == IF InDocument THEN "document" ELSE "command"
delimBar == IF InDocument THEN delim[Reader] ELSE <<>>
bodyBar == IF InDocument THEN Chars(body[Reader]) ELSE <<>>
eofBar == InDocument /\ eof[Reader]
exactBar == tty /\ failures = 0 /\ NoZeroes

Promise == INSTANCE HereDocuments WITH
  unread <- unreadBar, mode <- modeBar, delim <- delimBar, body <- bodyBar,
  eof <- eofBar, exact <- exactBar

KeepsOrder == Promise!HereSpec

\* A here-document ends, if its body fits the pipe: nobody empties it before
\* the document is read.
DocumentEnds ==
  \A p \in Process :
    []<>(~Reading(p) \/ (/\ pc[p] = "line" /\ line[p] # NULL
                         /\ Len(body[p]) + Len(line[p]) > PipeCap))
=============================================================================
