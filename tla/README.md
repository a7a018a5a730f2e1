# A verification model of konosubash

konosubash is a small interactive shell in C (a "minishell"): it reads a line,
splits it into tokens, builds a tree and runs the tree with fork, pipe, dup2,
execve and waitpid. This directory holds TLA+ modules translated from its
source, the TLC configurations that check them on small instances, and theorems
TLAPS proves for every value of the constants.

Paths below are relative to the repository (`execution/...` is
`src/execution/...` in `PROJECT.json`).

## The system

| part | sources | state | operations |
|---|---|---|---|
| shell loop | `main.c`, `parser/readline_loop`, `executor_utils_shell.c` | `t_shell`, `g_exit_code`, two saved descriptors | read a line, hand it on, leave at the end of the input |
| signals | `handler_ctrl_c.c`, `executor_signals.c:16`, `executor_fd_utils.c:73` | dispositions of SIGINT and SIGQUIT | install a handler, ignore, reset, deliver |
| tokenizer, quotes | `parser/tokenlst`, `parser/quote_handling`, `main.c:23-69` | linked list of tokens | split, strip and expand quotes, type, merge |
| assignments, expansion | `execution/expander*.c` | token values, environment | leading `NAME=value`, `$NAME`, `$?` |
| arguments, tree builder | `handler_args_file.c`, `parser_cmd_no_found.c`, `parser/yggdrasil` | token list with `used` marks, tree | attach files and arguments, pick roots, build |
| executor | `execution/executor*.c` | processes, descriptor tables, pipes, wait statuses | walk the tree, fork, redirect, wait |
| here-documents | `executor_signals.c:23-67`, `executor_redirections.c:76-112`, `libft/get_next_line.c` | a pipe, a static line buffer | prompt, read, write, hand over |
| builtins, environment | `executor_utils_*.c` | NULL-terminated array `NAME=value`, working directory | echo, cd, pwd, export, unset, exit |
| command list | `parser/tokenlst/tokenlst.c` | list of the commands on PATH | count, fill, search |
| allocation tracker | `libft/garbege_colector.c` | table of pointers | record |

One line goes through them in this order: `readline_loop` calls
`input_handler`, which runs the token passes on one list in place, then the tree
builder, then `execute_ast`. The parts share `shell->env` (assignments,
builtins, expansion, execve), `g_exit_code` (set by every `execute_ast`, read by
`$?`, `exit` and the end of the input), the descriptors 0 and 1 and the signal
dispositions. All concurrency is between processes: the shell, the children it
forks for the sides of a pipe, their own children, the programs they start and
the user at the terminal.

What is hard in it: the order of close, fork and wait around a pipe; the error
path of every dup, pipe, open and fork; a signal that arrives between any two
system calls; here-documents written into a pipe by their own reader; the
status that flows back through waits, child shells and redirections; token
passes that each undo or overlook what another did; a buffer that outlives the
call it was filled in; directories that change between two looks at them.

What makes each part correct:

* executor: every child is waited for; the shell's descriptors are the same at
  every prompt; nobody but a process setting a pipeline up holds both ends of
  its pipe; every line ends; the status is the right side's; only `exit` and the
  end of the input end the shell.
* signals: neither Ctrl-C nor Ctrl-\ takes the shell down, or makes it lose a
  child.
* environment: the array implements a map from names to values; `cd` keeps
  PWD and OLDPWD in step with the directory.
* tokenizer to tree: the tokens are the words and operators the line consists of,
  each ends up in at most one node, a quoted operator is a word, the tree of a
  simple command or of a two-stage pipeline is the one the line says, and what runs
  as a command was there when it was looked up last.
* here-documents: each gets what was typed for it, and what is typed behind it
  reaches the prompt; no text is lost, repeated or moved by the buffer or by fork.
* command list: what is filled in fits what was counted; a word is a command when a
  directory of PATH had it, and the program that runs is the first of that name.

## Modules

| module | models |
|---|---|
| `CommandTree` | the trees `execute_ast` walks, as a heap of nodes: constants and what a node may be |
| `Executor` | the executor, the processes and the kernel under it, and the signals |
| `CommandLine` | what the executor promises the user: a line runs, `$?` is one of its statuses |
| `ExecutorProofs` | theorems about `Executor`: types, who waits for whom, descriptors and signals |
| `CommandLineProofs` | the theorem that `Executor` implements `CommandLine` |
| `Environment` | the array `shell->env` and the builtins that write it: `export`, `unset`, assignments, `cd` with the directories under it |
| `Variables` | what the array promises: a map from names to values |
| `SortedEnv` | the listing of `export` without arguments: a copy, sorted by bubble sort |
| `EnvironmentProofs`, `SortedEnvProofs` | theorems about them |
| `Tokens` | the token list and the passes over it up to the expansion |
| `Yggdrasil` | files and arguments, the second look for commands, the tree builder |
| `Parser` | `input_handler`: the passes in their order over one list, while other processes install and remove programs |
| `Reading` | what a line says, read once from left to right with none of the passes: the reference `Parser` is compared with |
| `LineReader` | `get_next_line`, its static buffer and the here-documents that read through it, in the shell and both children of a pipeline |
| `HereDocuments` | what the user expects of here-documents: each line is used once, in order, by the one it was typed for |
| `CommandList` | how a word becomes a command: `search_list`, `find_command_path` and `execve`, while other processes change the directories |
| `ParserProofs` | theorems about `Parser`, and that its passes, up to the assignments, agree with `Reading` |
| `CommandProofs` | theorems that a line becomes the command, the pipe or the redirection its words ask for |
| `LineReaderProofs`, `CommandListProofs` | theorems about `LineReader` and `CommandList` |
| `MCExecutor`, `MCEnvironment`, `MCSortedEnv`, `MCParser`, `MCLineReader`, `MCCommandList` | the instances TLC checks |

`Executor` and `CommandLine` build on `CommandTree`; `Environment` is related to
`Variables` by an INSTANCE, `LineReader` to `HereDocuments` by another; `Parser`
composes `Tokens`, `Yggdrasil` and `Reading`.

Two parts are seen at two levels. A here-document is in `Executor` a number of lines that
come, or not, and what its pipe does to the processes around it; `LineReader` says which
characters those lines are. A lookup is one step of `Parser`, which asks whether a program
is there now; `CommandList` opens it into its system calls.

### How Executor corresponds to the code

`proc` is the process table. The entry of a process holds the kernel's part (`fd`,
`disp`, `pending`, `parent`, and `stat` once it has ended) and the locals of the C
frames active in it: `cur` is the node `execute_ast` is at, `frames` the
`original_fds` of the `handle_redir_execution` and `handle_command_execution`
calls that have not returned, `pid1`, `pid2`, `pipefd` those of
`execute_pipe_command`. A pipe's child starts with no frames: when
`execute_ast` returns there it exits, as `left_child` and `right_child` do. No
frame of `execute_pipe_command` is ever below another in one process, because
its sides run in children; this is why one `pid1`, `pid2` and `pipefd` each
suffice.

`pc` names the next system call (or the next few that nobody else can tell
apart). An action is one such step:

| actions | code |
|---|---|
| `ReadLine`, `EndOfInput` | `readline_loop` |
| `ExecTrivial`, `ExecWord`, `Word`, `ExecPipe`, `SaveFds` | `dispatch_ast_node` and the start of each handler |
| `RestoreFds`, `Return` | the ends of `handle_redir_execution`, `handle_command_execution`, `execute_ast` |
| `RedirectFile`, `HereDocument`, `HerePrompt`, `HereLine`, `HereWrite`, `HereEnd` | `handle_redirections`, `read_heredoc_lines`, `execute_redir_cmd_node` |
| `QuietBuiltin`, `Echo`, `ExitBuiltin` | `execute_command` |
| `ForkExternal`, `IgnoreSignals`, `WaitExternal`, `ResetSignals`, `StartProgram` | `execute_external_command` in parent and child |
| `ForkLeft`, `ForkRight`, `LeftChild`, `RightChild`, `CloseEnds`, `WaitLeft`, `WaitRight` | `execute_pipe_command` in parent and children |
| `Program...`, `SigPipe`, `ReapOrphan`, `Interrupt`, `Quit`, `Deliver` | programs, the kernel, init and the user (external), except the handler `Deliver` runs |

Failures: `fork` may fail at any time, `open` too; `dup`, `pipe` fail exactly when
the table has no room under the limit `limit`, which is chosen at the start. `dup2`
onto 0 and 1, `close` and `malloc` do not fail. A write to a full pipe blocks, to a
pipe without readers raises SIGPIPE; a read of an empty pipe blocks while
somebody holds the write end. Commands are abstracted to what the executor sees
of them (`CommandTree`): a program that only writes, one that copies, one that
reads once. Messages to standard error are left out; writes to standard output
are kept, because that may be a pipe.

A handled or ignored signal never ends a `waitpid` or a `write`: `signal()` of
glibc restarts them. The trees TLC runs are those the tree builder produces,
among them the odd ones (a redirection in a pipeline without its command, a pipe
without a right side).

### How Environment and SortedEnv correspond to the code

`env` is the array: a sequence of records for its `NAME=value` strings, in their
order, searched from the beginning as `get_env_value` and `find_and_remove_var` do.
A command begins (`Export`, `Unset`, `Assign`, `Cd`), its loop takes one argument
after the other (`ExportArg`, `UnsetArg`, `Assignment`, `NoMore`), and `cd` takes one
system call after the other: `getcwd`, the choice of the target, `chdir`, `OLDPWD`,
`getcwd`, `PWD`. Between the steps of `cd` other processes may rename, remove and
make directories (`World`); a path leads to a directory or nowhere, and a directory
whose path is gone still is a place the shell may be in. `update_env` fails when an
allocation does, and then leaves the array as it was; `short` remembers that.

Two things the properties do not say, because the code does otherwise: `cd` ignores
what `update_env` returns, and when the second `getcwd` fails it returns 1 in the new
directory, with the new `OLDPWD` and the old `PWD` (`CdLeavesTrail` says what is left to
rely on). In a directory that was removed every `cd`, the one with an absolute path
too, fails at the first `getcwd`.

`SortedEnv` has one action for the copy, one for each comparison, one for each end of
a pass. A string is its rank in the order of `strcmp`.

### How Tokens, Yggdrasil and Parser correspond to the code

`list` is the linked list, a sequence of records with the fields of `t_token`; the
sentinel without a value that `split_input` leaves at the end is kept, because later
passes do see it. `id` is the token's place in the line (in the code it is a counter).
The line is a sequence of symbols. A run of letters is one symbol, and so are
the characters the parser tells apart: the space, the two quotes, `|`, `<`,
`>`, `$` and `=`. Each pass over the list is an operator named after its function;
`Parser` applies them in the order `input_handler` does, one action per pass, except
the two passes that look commands up (`Typealize`, `LookAgain`): they are one action
per token, because each token reads the directories of PATH anew and other
processes may `Change` them in between.

A pass that walks along the list and changes it on the way (`split_input`, the merging,
files and arguments, the expansion, the assignments) is `Turns` of the operator for one
turn of its loop, `NextToken`, `merge_to_token_exception`, `AttachTo` and so on. Once the
loop of the code has ended the remaining turns change nothing. `Absorbed` is the list
without the successor of a token, which `rm_node_lst` unlinked.

A tree node is the place of its token in the list. `make_yggdrasil` calls itself for each
child. The calls that have not returned are the stack `calls`; `MakeChildren` is a call up
to the one for its left child, `GoRight` the rest of it, and `TreeMade` the return of the
first one. They follow the code's double search exactly: once to make a child, and once
more, when marks have changed, to find the token its own children are looked for from.

An earlier form of these definitions, with recursive operators in place of `Turns` and
`calls`, was compared with the compiled functions of the repository, from `split_input`
to `init_yggdrasil`, on 20 000 random lines; the trees were the same. TLC found that the
two forms reach the same lists and trees on a smaller instance of `MCParser`.

What the properties leave out because the code does otherwise, apart from the
findings below: of two redirections only the last one on the line is in the tree;
`x"y` prints the message of an unclosed quote and runs; in double quotes a name runs
up to the next character of `QUOTE_SET`, so that `"$HOME/bin"` is empty, and `"$?"` is;
single quotes behind other text of a word do not keep their text from being
expanded; `A=1 echo x` runs nothing, because the assignment takes the words behind it as its
arguments; `A=$B` stores the text `$B`; a value that came in through double quotes is
expanded once more; `< in cat` and a file whose name is also the name of a program are
syntax errors; and a variable in double quotes is replaced before operators and
assignments are told from words, so that where `A` is `|` the word `"$A"` is a pipe and where
it is `B=c` the line `"$A"` is an assignment. `Agreed`, `Early`, `PlainValues` and `NoProgram` in
`Parser` are these exceptions, and nothing else is excepted: a value may hold any text
without a `$`, operators and spaces included.

### How LineReader and HereDocuments correspond to the code

A character is known by its place, `<<source, index>>`, so that a copy is not mistaken for
the next one that looks the same. `buffer[p]` is the static `buffer` of `get_next_line` in
process `p`: one for all descriptors, copied by `Fork` into the two children of a
pipeline, gone with them at `Join`. `Command` and `Leave` are readline at the prompt, which
reads the same standard input and does not look into `buffer`.

| actions | code |
|---|---|
| `HereDocument`, `OtherCommand`, `HereLine`, `HereEnd` | `handle_heredoc` and the loop of `read_heredoc_lines` |
| `Call` | `get_next_line` and `ft_take_date` before its loop |
| `Read` | one turn of the loop: `read`, `ft_strjoin_gnl` |
| `Take` | `ft_take_line`, `ft_rebuffer` |
| `Fail` | the error paths of the three: an allocation or the read fails |

A read of a terminal gives at most one line, or nothing when the user types Ctrl-D; a
read of a file or a pipe gives up to `BUFFER_SIZE` characters and nothing only at the end.
The left child of a pipeline reads the shell's standard input, the right one the
pipe, in which the left one's output is; nothing else reads it meanwhile. Programs that
read standard input themselves, before or after a here-document, are in `Executor` only.

`KeepsOrder` relates this to `HereDocuments`, whose state is what is typed and not used
yet, and who uses the next line. There a line is used by one step; here it goes through
any number of reads, so the text still to come is the line returned, the buffer and the
rest of the input, in this order. The promise is `exact` only for a terminal, as long as no
call failed and no zero byte was typed. Each of these conditions is needed: a failed
allocation or read gives the buffer up (`Fail`); `ft_strjoin_gnl` drops what is behind a
zero byte; and when standard input is a file, a here-document reads ahead and the
prompt does not see what it read, and a child of a pipeline takes its part of it with
it. `NothingLost` holds for files as well: the buffer of each process
accounts for all that process read.

### How CommandList corresponds to the code

The parser asks `search_list` about a word, and a word that was found and typed as a
command is looked up once more, in the child, by `find_command_path`. Every system call
is an action; `World` creates, removes and replaces entries, and renames directories, in
between.

| actions | code |
|---|---|
| `StatCwd`, `AccessCwd` | `is_valid_exc` of the bare word |
| `GetPath`, `CountEntry` | `get_path_list`, `count_commands_in_path`, `count_dir_entries` |
| `Allocate`, `FillEntry` | `command_list_malloc`, `init_command_list`, `populate_command_list`, `populate_list_from_dir` |
| `OpenDir`, `CloseDir` | `opendir`, the end of `readdir`, `closedir`, in either pass |
| `Search` | `search_list` |
| `FindCommandPath`, `Access`, `Stat` | `find_command_path`, `search_in_path_env`, `check_path_access` |
| `Execve` | the end of `child_exec_external` |

`ft_split` is translated, because empty parts of PATH and a directory that is in it twice
matter. A directory stream gives what it must (`scan.must`, entries that have been there
since it was opened), may or may not give what came since (`scan.may`), and after a
rename stays with the directory it was opened on.

What comes into being between the two passes is not counted and does get stored: the
state `overrun` is a write behind the allocation, and `freed_garbage` one where
`init_command_list` frees an array it has not written, because the second split of PATH
failed. TLC reaches both. No document says they cannot happen, so they are no finding;
`FilledFits` says what the code does guarantee, that nothing else leads to an overrun.

### Fairness

`WF_vars(Step(p))` for every process: the scheduler runs every process that can
run, the user answers a program or a here-document that reads the terminal
(`HereLine`, `HereEnd` and `ProgramRead` are steps of the reader), and a bounded body or
input ends. Nothing is assumed of the user typing lines or signals, or of init.

`SortedEnv` assumes weak fairness of its only process. `LineReader` assumes
`WF_vars(Step(p))` of every process that is not at the prompt, which includes that the user
who was asked for a line types one, or Ctrl-D; it assumes nothing of `Command`.
`CommandList` states `WF_vars(Step)`, but only safety properties are checked of it, as of
`Environment` and `Parser`.

## What is checked

| run | question | bounds |
|---|---|---|
| `pipelines` | do thirteen two-stage pipelines leak, deadlock, lose a child or report the wrong status, whatever fails? | one line, 5 processes, limits 5 to 9, pipe of 1 item, 2 items of work |
| `nested` | does a pipe inside a pipe feed itself, or block? | 8 processes, limit 9 |
| `simple` | two lines in a row of every other kind, whatever fails | pipe of 2 items, a body of at most 2 lines |
| `signals` | a signal at every moment of four lines | one signal |
| `commands` | is the array a map, and does each builtin do what it was asked, whatever fails and moves? | four names, commands of up to three words, two directories, two paths and a link |
| `listing` | is the listing of `export` sorted and complete, and does it end? | every environment of up to five strings of three kinds |
| `lines` | do the passes read the line, does the builder make its tree, and are types and assignments those of the moment? | every line of up to 5 symbols out of 6; every line of up to 5 pieces out of 6, with two environments; two lines in a row of up to two words out of 5 with two programs and two changes |
| `documents` | does `get_next_line` give lines, and a here-document get what was typed for it, and end? | every input of up to 4 characters, one with a zero byte and one of five; two delimiters, `BUFFER_SIZE` 2, a pipe of 2 characters, one failure |
| `search` | does the list fit and tell the truth, and is the first program of the PATH run? | two directories, PATH of two or of twice the same one, two names, two changes, one failure |
| `ctrl_c` (violation) | does the prompt handle Ctrl-C? Not after the first external command | one line |
| `blank` (violation) | does a line of spaces do nothing? It crashes the shell | one line |
| `stages` (violation) | does every stage of a pipeline run? Not the third, nor a redirected second | two lines |

Executor. `ChildrenAwaited`: each child is at every moment one its parent still holds
in `pid1` or `pid2` on its way to `waitpid`. `DescriptorsRestored` compares the shell's
whole table at the prompt with the one it started with. `NobodyFeedsItself` is what
makes ends of file and broken pipes happen. `ShellStays` is an action property.
`KeepsPromise` is refinement: `Executor` implements `CommandLine` under a mapping that
hides processes, pipes and descriptors. `EveryLineEnds` is liveness.

Environment. `IsMap` is refinement: the array, read by `get_env_value`, implements
`Variables`. `ExportTells`, `UnsetTells` and `CdTells` compare the array at the end of a
command with the one it began with; `CdLeavesTrail` is an action property about `cd`
under any interference.

Parser. `WordsRead`, `CommandRead`, `PipelineRead` and `RedirectionRead` compare the token
list, or the tree, with what `Reading` reads; `TypesAreFresh` and `AssignmentsRead` relate
the list that runs to the directories and the environment at each time;
`TreeIsTree`, `OperatorsAreBare` and `OnlyBlankCrashes` speak of every line.

Here-documents. `LinesAreWhole` says that what `get_next_line` gives is a line, no part of one
and no two, and that NULL is the end of the input, however reads cut it and whatever waited in
the buffer; `NothingLost` relates all a process read to all `get_next_line` gave it;
`KeepsOrder` is refinement, `LineReader` implements `HereDocuments`; `DocumentEnds` is
liveness: the only thing that keeps a here-document from ending is a body that does not
fit its pipe.

Command list. `FilledFits` compares the two passes over the directories; `ListTells` and
`RunsFirstOnPath` compare an answer with what was in the directories at any moment of the
search. "At some time during the call" is the most a search can promise that is not atomic.

Why the bounds are enough. A pipe of one item already blocks its writer; two items
of work make a writer block, be released and block again; a limit of 5 leaves no
descriptor free, and 6 to 9 put the failure at each of the dups and pipes a two-stage
pipeline makes in parent and children; five processes are what a two-stage pipeline
of external commands uses, eight what one of three stages does. One line is enough where
the state at the prompt is checked to be the initial one (`DescriptorsRestored`,
`ChildrenReaped`), and `simple` runs two. The body of a here-document is at most as long as the
pipe's buffer (`MaxBody <= PipeCap`): the shell writes all of it before anybody reads, and
blocks for ever when it does not fit. Three words to a command are a good one, a
bad one and one that overrides; two paths and two directories suffice for a
directory to move away and another to take its place. Five symbols are enough for
two quoted parts, a part between them, or a variable in quotes with text on its side;
five pieces for an operator with two words on both sides, or for two operators
in every place. With `BUFFER_SIZE` 2 a read ends before, at and behind a newline, a line
takes more than one read and a read gives more than one line; four characters are two lines
and the delimiter between them. Two changes suffice to remove and create, or to
rename a directory and put another in its place, one in each pass.

The violation runs are disagreements between what a comment, or the evaluation sheet
`Intra Projects minishell Edit.pdf`, says and what the code does; see `findings` in
`PROJECT.json`. The compiled shell behaves as the counterexamples say.

## What is proved

`ExecutorProofs` proves, from `TreeAssumption` and `ExecutorAssumption` alone, hence
for every tree, number of processes, descriptor limit and bound:

* `TypeCorrect`: `Spec => []TypeOK`. `TypeOK` is inductive. `FreeFds` shows that the
  descriptors dup and pipe return exist and differ; one lemma per set of updated
  fields shows that an entry stays a `Process`; `TypeStep` has one step per action.
* `Awaits`: `Spec => []ChildrenAwaited`. The invariant is inductive once it is known
  that no process is its own parent (`ReapInv`): otherwise a dying process would be
  its own orphan. A step either leaves everybody's children alone
  (`AwaitedAlone`), forks (`AwaitedForked`), waits (`AwaitedReaped`) or dies of a
  signal (`AwaitedDead`).
* `Reaped`: `Spec => []ChildrenReaped`, from `Awaits`: at the prompt, and once it has
  exited, a process awaits nobody.

Its second half is about the descriptors, for pipelines and redirections nested
to any depth. `TreeAssumption` says that going down a tree ends: `Height` falls from a
node to its children (`make_yggdrasil` builds trees). The inductive invariant `DescInv`
has a part for every entry of the process table (`EntryInv`), one for the shell's
(`ShellInv`) and one that ties entries together (`Links`):

* `Shape`: standard input and output, the copies each frame holds and the two ends
  of a pipe in the making are open, and all at different descriptors. Without it a
  restore could close what another frame still has to put back.
* `Upstream`: the pipes a process was born with belong to nodes above all it still has to
  do, and it has one end of each at most. This is why a pipe inside a pipe,
  made at a node further down, is never one it holds already.
* `Clean` and `Own`, of the shell: its output is no pipe, now and after any restore;
  nothing is open but the descriptors of `init_shell`, the copies and the pipe being made; and
  the outermost frame holds the terminal. A process without frames, as the shell is at
  the prompt, then has what it started with.
* `Links`: whom a process waits for is its child, and `pid1` is not `pid2`.

Every action has one of a few effects on an entry: nothing, a dup of both, a restore,
a redirection, a pipe made or closed, a fork, an end (`Stays`, `Saves`, `Restores`,
`Redirects`, ...). One lemma per effect and part of the invariant, and one per action that
names its effect, give:

* `FdsRestored`: `Spec => []DescriptorsRestored`.
* `EndsApart`: `Spec => []NobodyFeedsItself`.
* `ShellSurvives`: `Spec => ShellStays`. The shell does not die of SIGPIPE, because its
  output is `Clean`, nor of a signal from the terminal, because its disposition is never
  the default one.

`CommandLineProofs` proves the refinement `PromiseKept`: `Spec => KeepsPromise`. In the
mapping `ReadLine` is `Begin`; the return from the command of a redirection is `Inner`
and the one to the prompt `Finish`; `EndOfInput` and `exit` in the shell are `Leave`; every
other step, of whichever process, changes nothing the user sees. What has to be
known is that the status that comes up is one the line may have. `StatusInv` says it of the
three ways a status takes:

* `ShellJob`: the shell is at some node of the line it read, the frames lead there from
  the root (`Job`), and the statuses of that node are statuses of the root.
* `RightSide`: as long as a process waits for the right side of a pipeline, `pid2` is
  about to run, runs or has run that side, and once it has ended its status is one the side
  may have. This holds for pipelines whose output is not a pipe: another may be killed by
  SIGPIPE, but it is on the left of one above, and nobody uses a left side's status.
* `ProgramSide`: the same of a program and the process that waits for it.

`Goes` is what a step can make of a job; one lemma per kind of step. `RightMoves` and
`ProgramMoves` are about the steps of the child, `SidesOwn` about those of the process that
waits, `SidesOther` about everybody else's. `Outcomes` and `RunsExit` are recursive functions: that the trees are finite makes them
what their equations say, which is proved from `Height` (`Walk`).

`EnvironmentProofs`, from the assumptions of `Environment`, among them that the program
that starts the shell gives every name once (`InheritedOnce`; the kernel does not
guarantee it, every shell and login program does it):

* `EnvironmentTyped`, `NamesStayUnique`: the inductive invariant is `Consistent`, the types
  together with the uniqueness of names. Uniqueness is what makes the first string
  of a name the only one (`OnlyFirst`), and with it one step of `Updated` an assignment
  and one of `Removed` a removal of the map (`UpdatedIsAssignment`, `RemovedIsUnset`).
* `ImplementsMap`: `Spec => IsMap`, from these two lemmas: every step is an assignment, an
  `Unset` or a stutter of `Variables`.
* `UnsetIsExact`, `ExportIsExact`: each from an invariant of the loop that says what the
  words before `i` have done so far (`UnsetSoFar`, `ExportSoFar`).
* `CdIsAtomic`, `CdTrail`: from `CdSoFar`, which says at each of the steps of `cd` what holds
  of the two variables and the directory while nothing has moved and nothing failed.

`SortedEnvProofs`, for environments of every length: `ListingIsSorted` and
`ListingIsComplete`. The invariant of the bubble sort is that the strings behind the
last place of a pass are in order and no smaller than any before them, that the
largest one met so far is carried along, and that a pass without a swap has met an
ordered front.

`LineReaderProofs`, from `ReaderAssumption`, for inputs of every length and every
`BUFFER_SIZE`:

* `TypeCorrect`: `Spec => []TypeOK`, which no run checks.
* `ReaderLosesNothing`: `Spec => []NothingLost`. `NothingLost` is inductive with
  `TypeOK`, because a read adds the same text to what was read and to the buffer
  (`AllVisible`, `Associative`), and what is taken and what is left make up the buffer.
* `TerminalKeepsNothing`: at a terminal the buffer holds no text between documents
  (`TerminalHoldsNothing`), from `AtMostALine`, which says when a newline can be in it.
* `WholeLinesGiven`: `Spec => []LinesAreWhole`. Inductive is `LinesAreWhole` with `Taken`: when the
  loop of `ft_take_date` ends, the buffer has a newline, or is not empty and the input has
  ended. `LineTaken` says what `ft_take_line` makes of such a buffer.
* `ReaderKeepsOrder`: `Spec => KeepsOrder`. The invariant `Inv` says: the children run while the
  shell waits (`Turns`), outside a document there is no body and no end of file (`Quiet`); at
  a terminal the buffer never holds more than a line (`AtMostALine`) and, as long as nothing
  failed, `get_next_line` gives all of it (`GivesLine`, which follows from `Taken` and
  `LinesAreWhole`). `Outside` and `Inside` spell the mapping
  out for the two modes.
  One lemma for each kind of step shows that it is a step of `HereDocuments` or a stutter.

`ParserProofs`, from `LineAssumption` and `NamesAreNoPunctuation`, for every line,
environment, set of programs and bound. A line has any length, so every pass is a loop or
a map over lists of any length: `Iterates` says that `Turns` has a value when each turn
goes from one of a family of sets to the next, and each pass has a lemma for its turn
(`SplitStep`, `MergeStep`, `AttachStep`, `TakeStep`, `PieceStep`, `AssignStep`) and one for
the whole of it (`SplitKeeps`, `MergeKeeps`, ...). `PassesAgree` proves the inductive
invariant `IInv`, what each pass hands to the next one:

* `Passed`: `split_input` makes tokens that are pieces of the line (`Cut`); behind
  `quote_handler` what reads like an operator is literal, or stands bare or comes from a variable
  in double quotes (`Unquoted`); behind `typealize` what *is* an operator does (`Marked`), and
  this, unlike the text, no later pass changes (`Closed`). Until they are merged,
  a token that asks for its successor has one (`Chained`): without it the merging would read
  behind the end of the list. The list never has more tokens than the line has
  symbols, and one for the end, and is empty only for a line of spaces.
* `LookedUp`: what `LookAgain` has passed agrees with what was there at some time, or
  all the time, since it began.
* `Built`: at each call of `make_yggdrasil` the tree has no shared node (`Forest`), there are
  heights that fall from each node to its children (`Descends`), and each call that has not
  returned is about a node (`CallsOn`). A child is always a token that was not
  used before, and becomes used with it: it can be put below everything (`ChildDescends`).
  The chain on the left of a redirection goes through ascending places of the list
  (`ChainKeeps`).

From it follow `ParserTyped` (`TypeOK`), `TreesAreBuilt` (`TreeIsTree`),
`QuotesHideOperators` (`OperatorsAreBare`), `SecondLookDecides` (`TypesAreFresh`) and
`OtherLinesHaveRoots` (`OnlyBlankCrashes`). The heights are what
`TreeAssumption` demands of the trees the executor is given; they need every call to be
about a node, and every token with children to be one.

`CommandListProofs`, for every PATH, all directories and any number of changes:

* `TypeCorrect`, with the bound on the length of the list.
* `ListIsRight`: `Spec => []ListTells`. The invariant (`Loops`) says of the loop of the second
  pass that what has been stored was in a directory of PATH since the list was begun,
  and that each directory gone through either gave the word or lacked it at some time.
* `FirstProgramRuns`: `Spec => []RunsFirstOnPath`, from the same kind of invariant about the
  loop of `find_command_path` (`Choosing`). Both use that `kinds` has what is there now
  (`KindsNow`).

* `ListFits`: `Spec => []FilledFits`. The invariant (`Room`) compares sets instead of sums: the
  places of PATH and names the first pass has counted and left behind (`Counted`)
  are no more than `count`, and what the second has stored, together with all it may still come
  upon (`Ahead`), is no more either. As long as nothing comes into being both sets only
  lose members, whatever other processes do (`WorldTakesAway`).

The second half of `ParserProofs`, for every line of whatever length, every environment and
all programs: the passes, which cut, quote, type and merge, say of a line what `Reading` says of it, which
reads it once, symbol by symbol. Each of the two is a loop over the line with state of
its own; the proof runs them side by side.

* The readers a line goes through (`ReadersOf`) exist and are known at each place of the line.
  `TokenIsRead` says what the reader does over the symbols of one token, of each of the sorts
  `get_token_len` tells apart (`IsQuoted`, `IsLone`, `IsOp`, `IsRun`): it goes on with the
  word it is in, or begins an item, and the text it takes is the token without its quotes
  (`Inner`). `SplitReads` puts this together along the loop of `split_input`: the reader
  before a token is the one behind the last one (`Joined`), but for the spaces between, and
  `merge_next` is set exactly where it is in the middle of a word.
* `TokensDivide`: so each token is a part of one item, and begins it exactly where the token
  before it is not to be merged (`Divided`): `g` is the place of that item, `begun` what
  stands in it before the token.
* `LookedPieces` carries this through `quote_handler` and `typealize`, whatever each look in the
  directories found (`Looked`). `MergeReads` is the loop of merging, from the last
  token to the first: the list behind the turn for the token `m` is the tokens before it
  as they were, and the items from the one `m` belongs to on (`Merged`). It ends with
  the items themselves and the sentinel (`Says`).
* Error marks are right for every line; texts and types are where the items have no
  variable (`plain`), because what stands in double quotes is replaced before the merging.

With `PassesFollowLine` (`OfTheLine`, an invariant: at each pass the list is what the passes so
far make of this line) this gives

* `LinesAreRead`: `Spec => []WordsRead`.
* `AssignmentsTakeEffect`: `Spec => []AssignmentsRead`. `BeginningIs` says that
  `is_valid_assignment` takes the same items for assignments as `Reading` does, no operator
  and not the sentinel among them, `AssignedEnvIs` that the loop over them leaves the last
  value of each name, and `NameGiven` that an assignment is to one name only.

`CommandProofs` goes on from there to the tree that is run, again for every line, every
environment and all programs. What it needs of a line is `AgreedLine`.

* The expansion: `ExpandReads` shows that replacing one name after another, as
  `expand_variables` does, gives what a reader collects that goes over the text symbol
  by symbol; `WordSettled`, `LineSeen` (`Understood`) that each merged token has the text that,
  expanded in the environment of now, is the `Meaning` of its item; `LineReady` (`Ready`) that it
  is so also behind the assignments.
* The arguments: `TakesAll` and `FoldedCommand` show that `cmd_handler_args` folds all tokens
  up to the next operator into the first one, each with its `Meaning`, and `AttachLoop`
  that the loop over the list does this for the command before and behind the pipe and
  leaves the pipe alone (`WordsAttached`, `PipeAttached`).
* The file of a redirection: `TokenSeen` and `MergeReads` also say what type the token of a
  word gets from its first piece: a word no piece of which is the name of a program
  (`HasPart`) is a WORD (`Filed`), whatever the looks in the directories found. So
  `redir_handler_file` takes its text and unlinks it (`FileReady`, `FileTaken`), and the
  sentinel behind it is left alone (`EndStays`). `RedirAlone` is a redirection without a
  command, `RedirAttached` one behind the words of a command, whose loop stops before
  the redirection as it does before a pipe (`Stops`).
* The second look (`LookKeeps`) changes only what is a command and what a word, never
  a text, an argument or an operator.
* The tree: the invariant `TreeFits`. The tree builder takes many steps, and between them
  other processes install and remove programs; so what is known at the end has to be said
  at every step: `Shaped` of the list (one command; a command, a pipe and a command; a redirection
  alone, or behind a command), `Sprouts` of the tree so far and the calls that have not
  returned (`SingleGrows`, `TripleGrows`, `PairGrows`, `ChainGrows`, `SpreadStays`).

With these: `TreesFitLines`, `CommandsAreRead` (`Spec => []CommandRead`), `PipelinesAreRead`
(`Spec => []PipelineRead`) and `RedirectionsAreRead` (`Spec => []RedirectionRead`).
Of `LineAssumption` the last one needs that what may name a program is a text
(`Program(s) \subseteq Seq(Symbol)`), so that the sentinel, which has none, is never found
in a directory.

Only model-checked: liveness (`EveryLineEnds`, `DocumentEnds`, `ListingEnds`), which
the prover cannot do. Every invariant the passing runs check is a theorem.

## Not modelled

The parts `PROJECT.json` lists as `not_modelled`, each with its reason. Within the
modelled parts: text, messages and the prompt's decoration; allocation failures in
the executor and the parser; what readline does inside; job control and process groups
(the shell has none: every process is in the terminal's foreground group). In the
parser: `$?`, digits in names, a PATH of several directories, and the characters of
`QUOTE_SET` other than the space, the single quote and `$`. `env` and `pwd`, which only print.
In `CommandList`: words with a `/`, the entries `.` and `..` (they are counted and
stored alike and match no word), a directory that cannot be read, and
links. In `LineReader`: programs that read standard input, and a `write` into the shell's own
pipe that fails (it has a reader, the shell itself). In `Parser`, `search_list` asks the
directories of PATH only; the file where the shell is, which it asks first, is in
`CommandList`. The table of the allocation tracker is written and never read.
In `init_yggdrasil` the branch that answers NULL is never taken: a list without a root
crashes before.

## Plan

1. Done: `CommandTree`, `Executor`, `CommandLine`, their runs and first theorems.
2. Done: `Environment`, `Variables`, `SortedEnv`, their runs and theorems.
3. Done: `Tokens`, `Yggdrasil`, `Reading`, `Parser` and their runs.
4. Done: `LineReader`, `HereDocuments`, their run and the theorem that one implements the
   other.
5. Done: `CommandList`, its run and theorems.
6. Left: `Shell`, the composition of the passes, the environment and `CommandLine`: the trees
   `MCExecutor` is given are those the parser builds.
7. Done: theorems about the descriptors, the shell's survival, the refinement of
   `CommandLine` and the size of the list of commands.
8. Done: theorems about the parser, its passes written as functions and its tree builder
   as steps.
9. Done: that the passes agree with `Reading` up to the assignments, for every line.
10. Done: the same behind the expansion, the arguments and the tree builder, for commands,
   pipes and redirections.
