------------------------------ MODULE Executor ------------------------------
(***************************************************************************)
(* execute_ast and everything below it: the shell process, the children it *)
(* forks for the two sides of a pipe, the grandchildren it forks for       *)
(* external commands, their descriptor tables, the pipes between them, the *)
(* terminal's signals and the exit statuses that flow back.                *)
(*                                                                         *)
(* A process is one entry of `proc': the kernel's part (descriptors,       *)
(* signal dispositions, parent, wait status) and the locals of its C       *)
(* frames.  Every step is one system call, or several made by a process    *)
(* that nobody else can tell from one.                                     *)
(***************************************************************************)
EXTENDS CommandTree, Sequences, FiniteSetsExt

CONSTANTS
  Pid,        \* process identifiers; fork fails when all are in use
  Shell,      \* the minishell process
  Reaper,     \* the process orphans are handed to
  FdLimits,   \* the RLIMIT_NOFILE values the shell may be started with
  MaxFd,      \* bound on them
  PipeCap,    \* bound: items a pipe buffers before a writer blocks
  Work,       \* bound: items a program produces, or reads from a terminal
  MaxBody,    \* bound: lines of a here-document body
  MaxLines,   \* bound: command lines typed
  MaxSignals  \* bound: Ctrl-C and Ctrl-\ typed

ASSUME ExecutorAssumption ==
  /\ Shell \in Pid
  /\ Reaper \notin Pid
  /\ MaxFd \in Nat \ (0 .. 4)
  /\ FdLimits \subseteq 5 .. MaxFd
  /\ PipeCap \in Nat /\ Work \in Nat /\ MaxBody \in Nat
  /\ MaxLines \in Nat /\ MaxSignals \in Nat

VARIABLES
  proc,     \* process table
  buf,      \* pipe -> items buffered; a pipe bears the name of the node whose
            \* execution created it
  limit,    \* RLIMIT_NOFILE
  lines,    \* command lines typed so far
  signals   \* signals typed so far

vars == <<proc, buf, limit, lines, signals>>

-----------------------------------------------------------------------------
(* Descriptors. *)

Fd == 0 .. (MaxFd - 1)

Closed == [end |-> "closed", node |-> NoNode]
Terminal == [end |-> "tty", node |-> NoNode]
FileOf(n) == [end |-> "file", node |-> n]
ReadEnd(n) == [end |-> "r", node |-> n]
WriteEnd(n) == [end |-> "w", node |-> n]

Object == [end : {"closed", "tty", "file", "r", "w"}, node : Node \cup {NoNode}]

AllClosed == [f \in Fd |-> Closed]

\* 0, 1, 2 and the two copies init_shell keeps in saved_stdin, saved_stdout.
ShellFds == [f \in Fd |-> IF f < 5 THEN Terminal ELSE Closed]

Free(p) == {f \in Fd : f < limit /\ proc[p].fd[f] = Closed}
Lowest(p) == Min(Free(p))
Second(p) == Min(Free(p) \ {Lowest(p)})

\* pipe: both ends, at the lowest free descriptors.
PipeOpened(p, n) ==
  [proc[p].fd EXCEPT ![Lowest(p)] = ReadEnd(n), ![Second(p)] = WriteEnd(n)]

Readers(n) == {p \in Pid : \E f \in Fd : proc[p].fd[f] = ReadEnd(n)}
Writers(n) == {p \in Pid : \E f \in Fd : proc[p].fd[f] = WriteEnd(n)}

-----------------------------------------------------------------------------
(* Processes. *)

Location ==
  {"unused", "prompt", "exec", "redirect", "here_prompt", "here_read",
   "here_write", "word", "command", "echo", "restore", "return",
   "fork_left", "fork_right", "wait_only_left", "close_ends", "wait_left",
   "wait_right", "left_child", "right_child", "ignore_signals",
   "wait_external", "external_child", "search", "program", "program_write",
   "zombie", "killed"}

\* The C frames of handle_redir_execution and handle_command_execution that
\* are active: the node, and original_fds.
Frame == [node : Node, fds : Fd \X Fd]

Process ==
  [pc : Location, cur : Node \cup {NoNode}, frames : Seq(Frame),
   fd : [Fd -> Object], disp : {"handler", "ignore", "default"},
   pending : {"no", "int", "quit"}, stat : Status, g_exit_code : Status,
   pid1 : Pid, pid2 : Pid, pipefd : Fd \X Fd, parent : Pid \cup {Reaper},
   todo : 0 .. (Work + MaxBody)]

\* An entry of the process table nobody uses.
Unused ==
  [pc |-> "unused", cur |-> NoNode, frames |-> <<>>, fd |-> AllClosed,
   disp |-> "default", pending |-> "no", stat |-> 0, g_exit_code |-> 0,
   pid1 |-> Shell, pid2 |-> Shell, pipefd |-> <<0, 0>>, parent |-> Reaper,
   todo |-> 0]

FreePid == {p \in Pid : proc[p].pc = "unused"}
Ended == {"zombie", "killed"}

\* p can take a step of its own: a signal is delivered before anything else.
At(p, l) == proc[p].pc = l /\ proc[p].pending = "no"
AtNode(p, l, kinds) ==
  At(p, l) /\ proc[p].cur # NoNode /\ Kind[proc[p].cur] \in kinds

\* exit: the kernel closes every descriptor and keeps the status.
Exit(p, s) ==
  proc' = [proc EXCEPT ![p].pc = "zombie", ![p].stat = s, ![p].fd = AllClosed]

\* Death by a signal; the children of the dead are handed to init.
Die(p, s) ==
  proc' = [q \in Pid |->
             IF q = p THEN [proc[p] EXCEPT !.pc = "killed", !.stat = s,
                                           !.fd = AllClosed, !.pending = "no"]
             ELSE IF proc[q].parent = p
             THEN [proc[q] EXCEPT !.parent = Reaper]
             ELSE proc[q]]

Goto(p, l, s) == proc' = [proc EXCEPT ![p].pc = l, ![p].stat = s]

\* Writing one item to standard output; a pipe without readers is SIGPIPE.
Out(p) == proc[p].fd[1]
CanWrite(p) ==
  Out(p).end = "w" => Readers(Out(p).node) # {} /\ buf[Out(p).node] < PipeCap
Broken(p) == Out(p).end = "w" /\ Readers(Out(p).node) = {}
Write(p) ==
  buf' = IF Out(p).end = "w" THEN [buf EXCEPT ![Out(p).node] = @ + 1] ELSE buf

\* Reading standard input when it is a pipe.
In(p) == proc[p].fd[0]
CanRead(p) == In(p).end = "r" /\ buf[In(p).node] > 0
AtEOF(p) == In(p).end = "r" /\ buf[In(p).node] = 0 /\ Writers(In(p).node) = {}
Read(p) == buf' = [buf EXCEPT ![In(p).node] = @ - 1]

Init ==
  /\ proc = [p \in Pid |->
               IF p = Shell
               THEN [Unused EXCEPT !.pc = "prompt", !.fd = ShellFds,
                                   !.disp = "handler"]
               ELSE Unused]
  /\ buf = [n \in Node |-> 0]
  /\ limit \in FdLimits
  /\ lines = 0
  /\ signals = 0

-----------------------------------------------------------------------------
(* The read loop. *)

\* readline returns a line whose tree is rooted at n.
ReadLine(n) ==
  /\ At(Shell, "prompt")
  /\ lines < MaxLines
  /\ proc' = [proc EXCEPT ![Shell].pc = "exec", ![Shell].cur = n]
  /\ lines' = lines + 1
  /\ UNCHANGED <<buf, limit, signals>>

\* readline returns NULL.
EndOfInput ==
  /\ At(Shell, "prompt")
  /\ Exit(Shell, proc[Shell].g_exit_code)
  /\ UNCHANGED <<buf, limit, lines, signals>>

-----------------------------------------------------------------------------
(* execute_ast: dispatch on the node, then the epilogue that stores the    *)
(* status and returns to the caller.                                       *)

\* Nodes that only yield a status.
ExecTrivial(p) ==
  /\ AtNode(p, "exec", {"ASSIGNMENT", "EOF"})
  /\ Goto(p, "return", IF Kind[proc[p].cur] = "ASSIGNMENT" THEN 0 ELSE 1)
  /\ UNCHANGED <<buf, limit, lines, signals>>

\* The "command not found" message goes to standard output.
ExecWord(p) ==
  /\ AtNode(p, "exec", {"WORD"})
  /\ Goto(p, "word", 127)
  /\ UNCHANGED <<buf, limit, lines, signals>>

\* save_original_fds: two dups or, the table full, none.
SaveFds(p) ==
  /\ AtNode(p, "exec", RedirKind \cup {"COMMAND"})
  /\ \/ /\ Cardinality(Free(p)) < 2
        /\ Goto(p, "return", 1)
     \/ /\ Cardinality(Free(p)) >= 2
        /\ proc' = [proc EXCEPT
             ![p].pc = IF Kind[proc[p].cur] = "COMMAND"
                      THEN "command" ELSE "redirect",
             ![p].fd = [@ EXCEPT ![Lowest(p)] = proc[p].fd[0],
                                 ![Second(p)] = proc[p].fd[1]],
             ![p].frames = <<[node |-> proc[p].cur,
                              fds |-> <<Lowest(p), Second(p)>>]>> \o @]
  /\ UNCHANGED <<buf, limit, lines, signals>>

\* Mutant: close_fds is forgotten.
RestoreFds_KeepsCopies(p) ==
  /\ At(p, "restore") /\ proc[p].frames # <<>>
  /\ LET saved == Head(proc[p].frames).fds IN
       proc' = [proc EXCEPT
         ![p].pc = "return", ![p].cur = Head(proc[p].frames).node,
         ![p].frames = Tail(@),
         ![p].fd = [@ EXCEPT ![0] = proc[p].fd[saved[1]],
                             ![1] = proc[p].fd[saved[2]]]]
  /\ UNCHANGED <<buf, limit, lines, signals>>

\* restore_fds and close_fds.
RestoreFds(p) ==
  /\ At(p, "restore") /\ proc[p].frames # <<>>
  /\ LET saved == Head(proc[p].frames).fds IN
       proc' = [proc EXCEPT
         ![p].pc = "return",
         ![p].cur = Head(proc[p].frames).node,
         ![p].frames = Tail(@),
         ![p].fd = [f \in Fd |-> CASE f = 0 -> @[saved[1]]
                                   [] f = 1 -> @[saved[2]]
                                   [] f \in {saved[1], saved[2]} -> Closed
                                   [] OTHER -> @[f]]]
  /\ UNCHANGED <<buf, limit, lines, signals>>

\* execute_ast returns: to the redirection it was called for, to the prompt,
\* or to left_child or right_child, which exit.
Return(p) ==
  /\ At(p, "return")
  /\ LET s == proc[p].stat IN
     \/ /\ proc[p].frames # <<>>
        /\ proc' = [proc EXCEPT
             ![p].pc = "restore", ![p].g_exit_code = s,
             ![p].stat = IF Kind[proc[p].cur] = "WORD" THEN 127 ELSE s]
     \/ /\ proc[p].frames = <<>> /\ p = Shell
        /\ proc' = [proc EXCEPT ![p].pc = "prompt", ![p].g_exit_code = s,
                                ![p].cur = NoNode]
     \/ /\ proc[p].frames = <<>> /\ p # Shell
        /\ Exit(p, s)
  /\ UNCHANGED <<buf, limit, lines, signals>>

-----------------------------------------------------------------------------
(* Redirections. *)

\* After a redirection that worked: execute_redir_cmd_node.
RedirectedCommand(p, fd) ==
  LET n == proc[p].cur IN
  proc' = IF Left[n] = NoNode
          THEN [proc EXCEPT ![p].fd = fd, ![p].pc = "restore", ![p].stat = 2]
          ELSE [proc EXCEPT ![p].fd = fd, ![p].pc = "exec", ![p].cur = Left[n]]

\* handle_redir_in, handle_redir_out, handle_append: open, dup2, close.
RedirectFile(p) ==
  /\ AtNode(p, "redirect", RedirKind \ {"HEREDOC"})
  /\ LET n == proc[p].cur
         std == IF Kind[n] = "REDIR_IN" THEN 0 ELSE 1
     IN
     \/ ~HasFile[n] /\ RedirectedCommand(p, proc[p].fd)
     \/ HasFile[n] /\ Goto(p, "restore", 1)
     \/ /\ HasFile[n] /\ Free(p) # {}
        /\ RedirectedCommand(p, [proc[p].fd EXCEPT ![std] = FileOf(n)])
  /\ UNCHANGED <<buf, limit, lines, signals>>

\* handle_heredoc up to its first "> ".
HereDocument(p) ==
  /\ AtNode(p, "redirect", {"HEREDOC"})
  /\ LET n == proc[p].cur IN
     \/ /\ ~HasFile[n] \/ Cardinality(Free(p)) < 2
        /\ Goto(p, "restore", 1)
        /\ UNCHANGED buf
     \/ /\ HasFile[n] /\ Cardinality(Free(p)) >= 2
        /\ proc' = [proc EXCEPT
             ![p].pc = "here_prompt",
             ![p].pipefd = <<Lowest(p), Second(p)>>,
             ![p].fd = PipeOpened(p, n),
             ![p].todo = MaxBody]
        /\ buf' = [buf EXCEPT ![n] = 0]
  /\ UNCHANGED <<limit, lines, signals>>

HerePrompt(p) ==
  /\ At(p, "here_prompt") /\ CanWrite(p)
  /\ Write(p)
  /\ proc' = [proc EXCEPT ![p].pc = "here_read"]
  /\ UNCHANGED <<limit, lines, signals>>

\* get_next_line on standard input gives a line of the body ...
HereLine(p) ==
  /\ At(p, "here_read") /\ proc[p].todo > 0
  /\ IF In(p).end = "r" THEN CanRead(p) /\ Read(p) ELSE UNCHANGED buf
  /\ proc' = [proc EXCEPT ![p].pc = "here_write", ![p].todo = @ - 1]
  /\ UNCHANGED <<limit, lines, signals>>

\* ... which is written into the pipe this process alone can read ...
HereWrite(p) ==
  LET n == proc[p].cur IN
  /\ At(p, "here_write") /\ n # NoNode
  /\ buf[n] < PipeCap
  /\ buf' = [buf EXCEPT ![n] = @ + 1]
  /\ proc' = [proc EXCEPT ![p].pc = "here_prompt"]
  /\ UNCHANGED <<limit, lines, signals>>

\* Mutant: the write end of the pipe stays open.
HereEnd_KeepsWriteEnd(p) ==
  /\ AtNode(p, "here_read", {"HEREDOC"})
  /\ In(p).end # "r" \/ AtEOF(p)
  /\ RedirectedCommand(p, [proc[p].fd EXCEPT
       ![0] = proc[p].fd[proc[p].pipefd[1]], ![proc[p].pipefd[1]] = Closed])
  /\ UNCHANGED <<buf, limit, lines, signals>>

\* ... until it gives the delimiter or the end of the input.
HereEnd(p) ==
  LET here == proc[p].pipefd IN
  /\ AtNode(p, "here_read", {"HEREDOC"})
  /\ \/ In(p).end = "r" /\ CanRead(p) /\ Read(p)
     \/ AtEOF(p) /\ UNCHANGED buf
     \/ In(p).end # "r" /\ UNCHANGED buf
  /\ RedirectedCommand(p, [proc[p].fd EXCEPT ![0] = proc[p].fd[here[1]],
                                             ![here[1]] = Closed,
                                             ![here[2]] = Closed])
  /\ UNCHANGED <<limit, lines, signals>>

\* printing "command not found" for a word.
Word(p) ==
  /\ At(p, "word") /\ CanWrite(p)
  /\ Write(p)
  /\ proc' = [proc EXCEPT ![p].pc = "return"]
  /\ UNCHANGED <<limit, lines, signals>>

-----------------------------------------------------------------------------
(* Simple commands. *)

AtCommand(p, l, commands) ==
  At(p, l) /\ proc[p].cur # NoNode /\ Cmd[proc[p].cur] \in commands

\* execute_command: nothing to run, or a builtin that writes nothing.
QuietBuiltin(p) ==
  /\ AtCommand(p, "command", {"empty", "cd"})
  /\ \E s \in IF Cmd[proc[p].cur] = "cd" THEN {0, 1} ELSE {0} :
       Goto(p, "restore", s)
  /\ UNCHANGED <<buf, limit, lines, signals>>

\* A builtin that writes to standard output.
Echo(p) ==
  /\ \/ /\ AtCommand(p, "command", {"echo"})
        /\ Goto(p, "echo", 0)
        /\ UNCHANGED buf
     \/ /\ At(p, "echo") /\ CanWrite(p)
        /\ Write(p)
        /\ Goto(p, "restore", 0)
  /\ UNCHANGED <<limit, lines, signals>>

\* ft_exit: with the last status, or with its argument's (2 stands for any).
ExitBuiltin(p) ==
  /\ AtCommand(p, "command", {"exit"})
  /\ \E s \in {proc[p].g_exit_code, 2} : Exit(p, s)
  /\ UNCHANGED <<buf, limit, lines, signals>>

\* A copy of p's entry that starts at l: what fork makes of it.
Fork(p, l) ==
  [proc[p] EXCEPT !.pc = l, !.parent = p, !.pending = "no"]

\* The child's identifier: which one tells nothing apart.
NewPid == CHOOSE c \in FreePid : TRUE

\* execute_external_command up to the fork.
ForkExternal(p) ==
  /\ AtCommand(p, "command", External)
  /\ \/ Goto(p, "restore", 1)
     \/ /\ FreePid # {}
        /\ proc' = [proc EXCEPT ![NewPid] = Fork(p, "external_child"),
                                ![p].pc = "ignore_signals", ![p].pid1 = NewPid]
  /\ UNCHANGED <<buf, limit, lines, signals>>

\* Mutant: the parent takes the default dispositions too.
IgnoreSignals_Resets(p) ==
  /\ At(p, "ignore_signals")
  /\ proc' = [proc EXCEPT ![p].pc = "wait_external", ![p].disp = "default"]
  /\ UNCHANGED <<buf, limit, lines, signals>>

\* parent_wait_external: handle_parent_signals ...
IgnoreSignals(p) ==
  /\ At(p, "ignore_signals")
  /\ proc' = [proc EXCEPT ![p].pc = "wait_external", ![p].disp = "ignore"]
  /\ UNCHANGED <<buf, limit, lines, signals>>

\* Mutant: the wait status is not looked at.
WaitExternal_DropsStatus(p) ==
  /\ At(p, "wait_external") /\ proc[proc[p].pid1].pc \in Ended
  /\ proc' = [proc EXCEPT ![proc[p].pid1] = Unused, ![p].pc = "restore",
                          ![p].stat = 0]
  /\ UNCHANGED <<buf, limit, lines, signals>>

\* ... then waitpid and the status it yields.
WaitExternal(p) ==
  LET c == proc[p].pid1 IN
  /\ At(p, "wait_external") /\ proc[c].pc \in Ended
  /\ proc' = [proc EXCEPT ![c] = Unused, ![p].pc = "restore",
                          ![p].stat = proc[c].stat]
  /\ UNCHANGED <<buf, limit, lines, signals>>

\* child_exec_external: handle_child_signals ...
ResetSignals(p) ==
  /\ At(p, "external_child")
  /\ proc' = [proc EXCEPT ![p].pc = "search", ![p].disp = "default"]
  /\ UNCHANGED <<buf, limit, lines, signals>>

\* ... then find the program and execve.
StartProgram(p) ==
  /\ AtCommand(p, "search", External)
  /\ LET name == Cmd[proc[p].cur] IN
     \/ name = "missing" /\ Exit(p, 127)
     \/ name = "noexec" /\ \E s \in {126, 1} : Exit(p, s)
     \/ /\ name \in Program
        /\ proc' = [proc EXCEPT ![p].pc = "program", ![p].todo = Work]
  /\ UNCHANGED <<buf, limit, lines, signals>>

-----------------------------------------------------------------------------
(* The programs: what execve starts is not part of the shell. *)

ProgramExit(p) == \E s \in {0, 1} : Exit(p, s)

\* An item was read: "copy" goes on to write it, "head" has seen enough.
Consume(p) ==
  \/ /\ Cmd[proc[p].cur] = "copy"
     /\ proc' = [proc EXCEPT ![p].pc = "program_write",
                             ![p].todo = IF @ > 0 THEN @ - 1 ELSE 0]
  \/ Cmd[proc[p].cur] = "head" /\ ProgramExit(p)

ProgramRead(p) ==
  /\ AtCommand(p, "program", {"copy", "head"})
  /\ \/ CanRead(p) /\ Read(p) /\ Consume(p)
     \/ In(p).end # "r" /\ proc[p].todo > 0 /\ UNCHANGED buf /\ Consume(p)
     \/ (AtEOF(p) \/ In(p).end # "r") /\ UNCHANGED buf /\ ProgramExit(p)
  /\ UNCHANGED <<limit, lines, signals>>

ProgramProduce(p) ==
  /\ AtCommand(p, "program", {"produce"})
  /\ \/ /\ proc[p].todo > 0
        /\ proc' = [proc EXCEPT ![p].pc = "program_write", ![p].todo = @ - 1]
     \/ proc[p].todo = 0 /\ ProgramExit(p)
  /\ UNCHANGED <<buf, limit, lines, signals>>

ProgramWrite(p) ==
  /\ At(p, "program_write") /\ CanWrite(p)
  /\ Write(p)
  /\ proc' = [proc EXCEPT ![p].pc = "program"]
  /\ UNCHANGED <<limit, lines, signals>>

\* A program, or a shell process, writing to a pipe nobody reads.
SigPipe(p) ==
  /\ proc[p].pc \in {"word", "echo", "here_prompt", "program_write"}
  /\ proc[p].pending = "no"
  /\ Broken(p)
  /\ Die(p, 141)
  /\ UNCHANGED <<buf, limit, lines, signals>>

-----------------------------------------------------------------------------
(* Pipelines: execute_pipe_command. *)

ExecPipe(p) ==
  /\ AtNode(p, "exec", {"PIPE"})
  /\ LET n == proc[p].cur IN
     \/ /\ Left[n] = NoNode \/ Right[n] = NoNode
        /\ Goto(p, "return", 2)
        /\ UNCHANGED buf
     \/ /\ Left[n] # NoNode /\ Right[n] # NoNode /\ Cardinality(Free(p)) < 2
        /\ Goto(p, "return", 1)
        /\ UNCHANGED buf
     \/ /\ Left[n] # NoNode /\ Right[n] # NoNode /\ Cardinality(Free(p)) >= 2
        /\ proc' = [proc EXCEPT
             ![p].pc = "fork_left",
             ![p].pipefd = <<Lowest(p), Second(p)>>,
             ![p].fd = PipeOpened(p, n)]
        /\ buf' = [buf EXCEPT ![n] = 0]
  /\ UNCHANGED <<limit, lines, signals>>

\* p's descriptors once both ends of its pipe are closed.
PipeClosed(p) ==
  [proc[p].fd EXCEPT ![proc[p].pipefd[1]] = Closed,
                     ![proc[p].pipefd[2]] = Closed]

\* Mutant: the ends stay open when the first fork fails.
ForkLeft_LeaksEnds(p) ==
  /\ At(p, "fork_left")
  /\ \/ Goto(p, "return", 1)
     \/ /\ FreePid # {}
        /\ proc' = [proc EXCEPT ![NewPid] = Fork(p, "left_child"),
                                ![p].pc = "fork_right", ![p].pid1 = NewPid]
  /\ UNCHANGED <<buf, limit, lines, signals>>

\* fork_left_checked.
ForkLeft(p) ==
  /\ At(p, "fork_left")
  /\ \/ proc' = [proc EXCEPT ![p].pc = "return", ![p].stat = 1,
                             ![p].fd = PipeClosed(p)]
     \/ /\ FreePid # {}
        /\ proc' = [proc EXCEPT ![NewPid] = Fork(p, "left_child"),
                                ![p].pc = "fork_right", ![p].pid1 = NewPid]
  /\ UNCHANGED <<buf, limit, lines, signals>>

\* Mutants: when the second fork fails the first child is not waited for ...
ForkRight_LeavesLeft(p) ==
  /\ At(p, "fork_right")
  /\ \/ proc' = [proc EXCEPT ![p].pc = "return", ![p].stat = 1,
                             ![p].fd = PipeClosed(p)]
     \/ /\ FreePid # {}
        /\ proc' = [proc EXCEPT ![NewPid] = Fork(p, "right_child"),
                                ![p].pc = "close_ends", ![p].pid2 = NewPid]
  /\ UNCHANGED <<buf, limit, lines, signals>>

\* ... or is waited for before the ends of the pipe are closed.
ForkRight_WaitsFirst(p) ==
  /\ At(p, "fork_right")
  /\ \/ proc' = [proc EXCEPT ![p].pc = "wait_only_left"]
     \/ /\ FreePid # {}
        /\ proc' = [proc EXCEPT ![NewPid] = Fork(p, "right_child"),
                                ![p].pc = "close_ends", ![p].pid2 = NewPid]
  /\ UNCHANGED <<buf, limit, lines, signals>>

\* fork_right_checked.
ForkRight(p) ==
  /\ At(p, "fork_right")
  /\ \/ proc' = [proc EXCEPT ![p].pc = "wait_only_left",
                             ![p].fd = PipeClosed(p)]
     \/ /\ FreePid # {}
        /\ proc' = [proc EXCEPT ![NewPid] = Fork(p, "right_child"),
                                ![p].pc = "close_ends", ![p].pid2 = NewPid]
  /\ UNCHANGED <<buf, limit, lines, signals>>

\* left_child: standard output becomes the pipe, then execute_ast(left).
LeftChild(p) ==
  /\ AtNode(p, "left_child", {"PIPE"})
  /\ proc' = [proc EXCEPT
       ![p].pc = "exec", ![p].cur = Left[@], ![p].frames = <<>>,
       ![p].fd = [PipeClosed(p) EXCEPT ![1] = proc[p].fd[proc[p].pipefd[2]]]]
  /\ UNCHANGED <<buf, limit, lines, signals>>

\* Mutants: right_child does not close the end it does not use ...
RightChild_KeepsWriteEnd(p) ==
  /\ AtNode(p, "right_child", {"PIPE"})
  /\ LET ends == proc[p].pipefd IN
       proc' = [proc EXCEPT
         ![p].pc = "exec", ![p].cur = Right[@], ![p].frames = <<>>,
         ![p].fd = [@ EXCEPT ![0] = proc[p].fd[ends[1]], ![ends[1]] = Closed]]
  /\ UNCHANGED <<buf, limit, lines, signals>>

\* ... or runs the left side.
RightChild_RunsLeft(p) ==
  /\ AtNode(p, "right_child", {"PIPE"})
  /\ proc' = [proc EXCEPT
       ![p].pc = "exec", ![p].cur = Left[@], ![p].frames = <<>>,
       ![p].fd = [PipeClosed(p) EXCEPT ![0] = proc[p].fd[proc[p].pipefd[1]]]]
  /\ UNCHANGED <<buf, limit, lines, signals>>


\* right_child: standard input becomes the pipe, then execute_ast(right).
RightChild(p) ==
  /\ AtNode(p, "right_child", {"PIPE"})
  /\ proc' = [proc EXCEPT
       ![p].pc = "exec", ![p].cur = Right[@], ![p].frames = <<>>,
       ![p].fd = [PipeClosed(p) EXCEPT ![0] = proc[p].fd[proc[p].pipefd[1]]]]
  /\ UNCHANGED <<buf, limit, lines, signals>>

\* Mutant: the parent keeps the ends while it waits.
CloseEnds_Forgotten(p) ==
  /\ At(p, "close_ends")
  /\ proc' = [proc EXCEPT ![p].pc = "wait_left"]
  /\ UNCHANGED <<buf, limit, lines, signals>>

\* The parent closes both ends before it waits.
CloseEnds(p) ==
  /\ At(p, "close_ends")
  /\ proc' = [proc EXCEPT ![p].pc = "wait_left", ![p].fd = PipeClosed(p)]
  /\ UNCHANGED <<buf, limit, lines, signals>>

\* waitpid for the left side: its status is dropped.
WaitLeft(p) ==
  LET c == proc[p].pid1 IN
  /\ \/ At(p, "wait_left") /\ proc[c].pc \in Ended
        /\ proc' = [proc EXCEPT ![c] = Unused, ![p].pc = "wait_right"]
     \/ At(p, "wait_only_left") /\ proc[c].pc \in Ended
        /\ proc' = [proc EXCEPT ![c] = Unused, ![p].pc = "return",
                                ![p].stat = 1]
  /\ UNCHANGED <<buf, limit, lines, signals>>

\* Mutant: the status word as waitpid stores it, not what WEXITSTATUS makes of it.
WaitRight_Raw(p) ==
  LET c == proc[p].pid2 IN
  /\ At(p, "wait_right") /\ proc[c].pc \in Ended
  /\ proc' = [proc EXCEPT ![c] = Unused, ![p].pc = "return",
                          ![p].stat = 256 * proc[c].stat]
  /\ UNCHANGED <<buf, limit, lines, signals>>

\* waitpid for the right side: its status is the pipeline's.
WaitRight(p) ==
  LET c == proc[p].pid2 IN
  /\ At(p, "wait_right") /\ proc[c].pc \in Ended
  /\ proc' = [proc EXCEPT ![c] = Unused, ![p].pc = "return",
                          ![p].stat = proc[c].stat]
  /\ UNCHANGED <<buf, limit, lines, signals>>

-----------------------------------------------------------------------------
(* Signals typed at the terminal reach every process in the foreground. *)

Live(p) == proc[p].pc \notin Ended \cup {"unused"}

Typed(sig, dispositions) ==
  /\ signals < MaxSignals /\ Live(Shell)
  /\ signals' = signals + 1
  /\ proc' = [p \in Pid |->
       IF Live(p) /\ proc[p].disp \in dispositions /\ proc[p].pending = "no"
       THEN [proc[p] EXCEPT !.pending = sig] ELSE proc[p]]
  /\ UNCHANGED <<buf, limit, lines>>

Interrupt == Typed("int", {"handler", "default"})   \* Ctrl-C
Quit == Typed("quit", {"default"})                  \* Ctrl-\

\* Mutants: a handled signal ends the waitpid it interrupts ...
Deliver_EndsWait(p) ==
  /\ Live(p) /\ proc[p].pending # "no" /\ proc[p].disp = "handler"
  /\ proc' = [proc EXCEPT ![p].pending = "no",
       ![p].pc = IF @ \in {"wait_left", "wait_right"} THEN "return" ELSE @]
  /\ UNCHANGED <<buf, limit, lines, signals>>

\* ... or the status of a killed process lacks its 128.
Deliver_NoOffset(p) ==
  /\ Live(p) /\ proc[p].pending # "no" /\ proc[p].disp = "default"
  /\ Die(p, 2)
  /\ UNCHANGED <<buf, limit, lines, signals>>

\* The default action kills; handle_ctrl_c writes a newline to standard output.
Deliver(p) ==
  /\ Live(p) /\ proc[p].pending # "no"
  /\ \/ /\ proc[p].disp = "default"
        /\ Die(p, IF proc[p].pending = "int" THEN 130 ELSE 131)
        /\ UNCHANGED buf
     \/ /\ proc[p].disp = "handler" /\ CanWrite(p)
        /\ Write(p)
        /\ proc' = [proc EXCEPT ![p].pending = "no"]
     \/ /\ proc[p].disp = "handler" /\ Broken(p)
        /\ Die(p, 141)
        /\ UNCHANGED buf
  /\ UNCHANGED <<limit, lines, signals>>

\* init waits for the processes it is handed.
ReapOrphan(p) ==
  /\ p # Shell /\ proc[p].pc \in Ended /\ proc[p].parent = Reaper
  /\ proc' = [proc EXCEPT ![p] = Unused]
  /\ UNCHANGED <<buf, limit, lines, signals>>

-----------------------------------------------------------------------------

\* A step of process p: of the shell's own code, or of a program.
Step(p) ==
  \/ ExecTrivial(p) \/ ExecWord(p) \/ Word(p)
  \/ SaveFds(p) \/ RestoreFds(p) \/ Return(p)
  \/ RedirectFile(p) \/ HereDocument(p) \/ HerePrompt(p)
  \/ HereLine(p) \/ HereWrite(p) \/ HereEnd(p)
  \/ QuietBuiltin(p) \/ Echo(p) \/ ExitBuiltin(p)
  \/ ForkExternal(p) \/ IgnoreSignals(p) \/ WaitExternal(p)
  \/ ResetSignals(p) \/ StartProgram(p) \/ ProgramRead(p) \/ ProgramProduce(p)
  \/ ProgramWrite(p) \/ SigPipe(p)
  \/ ExecPipe(p) \/ ForkLeft(p) \/ ForkRight(p) \/ LeftChild(p)
  \/ RightChild(p) \/ CloseEnds(p) \/ WaitLeft(p) \/ WaitRight(p)
  \/ Deliver(p)

\* The shell has left: nothing happens any more.
Gone == (\A p \in Pid : ~Live(p)) /\ UNCHANGED vars

Next ==
  \/ \E n \in Line : ReadLine(n)
  \/ EndOfInput
  \/ \E p \in Pid : Step(p)
  \/ Interrupt \/ Quit
  \/ \E p \in Pid : ReapOrphan(p)
  \/ Gone

\* Every process is scheduled; the user answers a program, or a
\* here-document, that reads the terminal.
Fairness == \A p \in Pid : WF_vars(Step(p))

Spec == Init /\ [][Next]_vars /\ Fairness

-----------------------------------------------------------------------------
(* Properties. *)

\* The table and the pipes stay within their types.
TypeOK ==
  /\ proc \in [Pid -> Process]
  /\ buf \in [Node -> 0 .. PipeCap]
  /\ limit \in FdLimits
  /\ lines \in 0 .. MaxLines
  /\ signals \in 0 .. MaxSignals

\* A process that exits, or the shell when it prompts again, has waited for
\* every child it forked, whatever fork, dup, pipe or open failed on the way:
\* the waitpid calls of execute_pipe_command and parent_wait_external.
ChildrenReaped ==
  \A p, c \in Pid :
    proc[p].pc \in {"prompt", "zombie"} =>
      proc[c].pc = "unused" \/ proc[c].parent # p

\* The children p will still call waitpid for, where it is.
Awaited(p) ==
  (IF proc[p].pc \in {"fork_right", "wait_only_left", "close_ends", "wait_left",
                      "ignore_signals", "wait_external"}
   THEN {proc[p].pid1} ELSE {})
  \cup
  (IF proc[p].pc \in {"close_ends", "wait_left", "wait_right"}
   THEN {proc[p].pid2} ELSE {})

\* More than that: at every moment each child of a process is one it will still
\* wait for, by the identifier it kept: pid1 and pid2 of execute_pipe_command,
\* pid of execute_external_command.
ChildrenAwaited ==
  \A p, c \in Pid :
    proc[c].pc # "unused" /\ proc[c].parent = p => c \in Awaited(p)

\* Back at the prompt the shell's descriptors are those it started with: no
\* error path of the executor leaks one or leaves one redirected.
DescriptorsRestored == proc[Shell].pc = "prompt" => proc[Shell].fd = ShellFds

\* Only a process that is still setting a pipeline up holds both ends of its
\* pipe.  Any other would keep its own input from ending, or its own output
\* from breaking: the close calls of left_child, right_child and
\* execute_pipe_command.
NobodyFeedsItself ==
  \A p \in Pid :
    proc[p].pc \notin {"fork_left", "fork_right", "close_ends", "left_child",
                       "right_child"} =>
      \A f, g \in Fd :
        LET r == proc[p].fd[f]
            w == proc[p].fd[g]
        IN r.end = "r" /\ w.end = "w" /\ Kind[r.node] = "PIPE" =>
             r.node # w.node

\* The shell goes away only at the end of the input or by running exit itself:
\* no signal, broken pipe or failed command, and no exit inside a pipeline,
\* takes it down.
ShellLeaves ==
  Live(Shell) /\ ~Live(Shell)' =>
    /\ proc'[Shell].pc = "zombie"
    /\ \/ proc[Shell].pc = "prompt"
       \/ AtCommand(Shell, "command", {"exit"})
ShellStays == [][ShellLeaves]_vars

\* What all this amounts to for the user: see CommandLine.  A pipeline's status
\* is the right side's, exit in a pipeline does not end the shell.
CurrentLine ==
  IF proc[Shell].pc \in {"prompt", "zombie"} THEN NoNode
  ELSE IF proc[Shell].frames = <<>> THEN proc[Shell].cur
  ELSE proc[Shell].frames[Len(proc[Shell].frames)].node

Promise == INSTANCE CommandLine WITH
  mode <- CASE proc[Shell].pc = "prompt" -> "prompt"
            [] proc[Shell].pc = "zombie" -> "gone"
            [] OTHER -> "running",
  line <- CurrentLine,
  status <- IF proc[Shell].pc = "zombie" THEN proc[Shell].stat
            ELSE proc[Shell].g_exit_code

KeepsPromise == Promise!LineSpec

\* Every command line ends and the shell prompts again or has left: no side of
\* a pipeline waits for ever on the other, and no waitpid on a process that
\* cannot end.
EveryLineEnds == []<>(proc[Shell].pc \in {"prompt", "zombie"})

\* The shell that prompts handles Ctrl-C.
PromptHandlesInterrupt ==
  proc[Shell].pc = "prompt" => proc[Shell].disp = "handler"
=============================================================================
