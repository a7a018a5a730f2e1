-------------------------- MODULE CommandLineProofs --------------------------
(***************************************************************************)
(* The executor keeps the promise made at the prompt (CommandLine), for    *)
(* every tree, every number of processes and descriptors and every bound:  *)
(* one line at a time, a pipeline's status is its right side's whatever    *)
(* the left side does, and only a line that runs exit itself ends the      *)
(* shell.                                                                  *)
(***************************************************************************)
EXTENDS ExecutorProofs

-----------------------------------------------------------------------------
(* Trees.  Outcomes and RunsExit are recursive functions; that they satisfy *)
(* their equations has to be shown: a solution of each is made from the    *)
(* nodes its recursion reaches.                                            *)

\* The nodes a walk along next from n comes through.
Walk(next, n) ==
  {m \in Node : \A T \in SUBSET Node :
     n \in T /\ (\A k \in T : next[k] \in Node => next[k] \in T) => m \in T}

LEMMA WalkFirst ==
  ASSUME NEW next, NEW n \in Node
  PROVE  n \in Walk(next, n)
  BY DEF Walk

LEMMA WalkOn ==
  ASSUME NEW next, NEW n \in Node, NEW m \in Walk(next, n), next[m] \in Node
  PROVE  next[m] \in Walk(next, n)
  BY DEF Walk

LEMMA WalkWithin ==
  ASSUME NEW next, NEW n \in Node, NEW T \in SUBSET Node, n \in T,
         \A k \in T : next[k] \in Node => next[k] \in T
  PROVE  Walk(next, n) \subseteq T
  BY DEF Walk

LEMMA WalkNext ==
  ASSUME NEW next, NEW n \in Node
  PROVE  Walk(next, n) =
           {n} \cup (IF next[n] \in Node THEN Walk(next, next[n]) ELSE {})
<1> DEFINE T == {n} \cup (IF next[n] \in Node THEN Walk(next, next[n]) ELSE {})
<1>1. Walk(next, n) \subseteq T
  <2>1. T \in SUBSET Node /\ n \in T
    BY DEF Walk
  <2>2. \A k \in T : next[k] \in Node => next[k] \in T
    BY WalkFirst, WalkOn
  <2> HIDE DEF T
  <2> QED
    BY <2>1, <2>2, WalkWithin
<1>2. T \subseteq Walk(next, n)
  <2>1. n \in Walk(next, n)
    BY WalkFirst
  <2>2. ASSUME next[n] \in Node
        PROVE  Walk(next, next[n]) \subseteq Walk(next, n)
    <3>1. /\ Walk(next, n) \in SUBSET Node /\ next[n] \in Walk(next, n)
          /\ \A k \in Walk(next, n) :
               next[k] \in Node => next[k] \in Walk(next, n)
      BY <2>1, <2>2, WalkOn DEF Walk
    <3> QED
      BY <2>2, <3>1, WalkWithin
  <2> QED
    BY <2>1, <2>2
<1> QED
  BY <1>1, <1>2

LEMMA TreeFacts ==
  /\ NoNode \notin Node
  /\ \A n \in Node :
       /\ Kind[n] \in {"REDIR_IN", "REDIR_OUT", "APPEND", "HEREDOC", "PIPE",
                       "COMMAND", "ASSIGNMENT", "WORD", "EOF"}
       /\ Left[n] \in Node \cup {NoNode} /\ Right[n] \in Node \cup {NoNode}
       /\ Cmd[n] \in {"echo", "cd", "exit", "produce", "copy", "head",
                      "missing", "noexec", "empty"}
  /\ Promise!RedirKind = RedirKind /\ Promise!Status = Status
  BY TreeAssumption
  DEF NodeKind, Command, Builtin, External, Program, RedirKind,
      Promise!RedirKind, Status, Promise!Status

\* From a node to the one that decides its status, and from a redirection to
\* its command.
Decisive == [n \in Node |-> Promise!Deciding(n)]
Beneath == [n \in Node |-> IF Kind[n] \in RedirKind THEN Left[n] ELSE NoNode]

Yield(n, g) == Promise!Outcomes[n][g]
Exits(n) == Promise!RunsExit[n]

LEMMA Deciders ==
  ASSUME NEW n \in Node
  PROVE  /\ Promise!Deciding(n) \in Node \cup {NoNode}
         /\ Decisive[n] = Promise!Deciding(n)
         /\ Beneath[n] \in Node \cup {NoNode}
         /\ Beneath[n] \in Node => Beneath[n] = Promise!Deciding(n)
         /\ Promise!Deciding(n) # NoNode =>
              Height[Promise!Deciding(n)] < Height[n]
  BY TreeFacts, Heights DEF Promise!Deciding, Decisive, Beneath, RedirKind

LEMMA YieldUnfold ==
  ASSUME NEW n \in Node, NEW g \in Status
  PROVE  Yield(n, g) =
           Promise!OwnOutcomes(n, g) \cup
             (IF Promise!Deciding(n) = NoNode THEN {}
              ELSE Yield(Promise!Deciding(n), g))
<1> DEFINE Self(m, h) == Promise!OwnOutcomes(m, h)
           D(m) == Promise!Deciding(m)
           All(m, h) == UNION {Self(k, h) : k \in Walk(Decisive, m)}
           f == [m \in Node |-> [h \in Status |-> All(m, h)]]
           U(u) == [m \in Node |-> [h \in Status |->
                     Self(m, h) \cup (IF D(m) = NoNode THEN {} ELSE u[D(m)][h])]]
<1>1. ASSUME NEW m \in Node, NEW h \in Status
      PROVE  All(m, h) =
               Self(m, h) \cup (IF D(m) = NoNode THEN {} ELSE All(D(m), h))
  <2>1. Walk(Decisive, m) =
          {m} \cup (IF D(m) = NoNode THEN {} ELSE Walk(Decisive, D(m)))
    BY WalkNext, Deciders, TreeFacts
  <2> HIDE DEF Self, D
  <2> QED
    BY <2>1
<1>2. f = U(f)
  <2> HIDE DEF Self, All
  <2>1. \A m \in Node : D(m) \in Node \cup {NoNode}
    BY Deciders
  <2> HIDE DEF D
  <2> QED
    BY <1>1, <2>1
<1>3. Promise!Outcomes = CHOOSE u : u = U(u)
  BY TreeFacts DEF Promise!Outcomes
<1>4. Promise!Outcomes = U(Promise!Outcomes)
  <2> HIDE DEF f, U
  <2> QED
    BY <1>2, <1>3
<1> HIDE DEF Self, D
<1> QED
  BY <1>4 DEF Yield, Self, D

LEMMA ExitsUnfold ==
  ASSUME NEW n \in Node
  PROVE  Exits(n) <=> \/ Kind[n] = "COMMAND" /\ Cmd[n] = "exit"
                      \/ Beneath[n] \in Node /\ Exits(Beneath[n])
<1> DEFINE Self(m) == Kind[m] = "COMMAND" /\ Cmd[m] = "exit"
           f == [m \in Node |-> \E k \in Walk(Beneath, m) : Self(k)]
           U(u) == [m \in Node |->
                      \/ Kind[m] = "COMMAND" /\ Cmd[m] = "exit"
                      \/ Kind[m] \in RedirKind /\ Left[m] # NoNode /\ u[Left[m]]]
<1>b. \A m \in Node : /\ Beneath[m] \in Node <=>
                           Kind[m] \in RedirKind /\ Left[m] # NoNode
                      /\ Beneath[m] \in Node => Beneath[m] = Left[m]
  BY TreeFacts DEF Beneath
<1>1. ASSUME NEW m \in Node
      PROVE  f[m] = (Self(m) \/ (Beneath[m] \in Node /\ f[Beneath[m]]))
  <2>1. Walk(Beneath, m) =
          {m} \cup (IF Beneath[m] \in Node THEN Walk(Beneath, Beneath[m]) ELSE {})
    BY WalkNext
  <2> HIDE DEF Self
  <2>2. \A k \in Node : f[k] = (\E j \in Walk(Beneath, k) : Self(j))
    OBVIOUS
  <2>3. f[m] \in BOOLEAN /\ (Beneath[m] \in Node => f[Beneath[m]] \in BOOLEAN)
    OBVIOUS
  <2>4. f[m] <=> (Self(m) \/ (Beneath[m] \in Node /\ f[Beneath[m]]))
    BY <2>1, <2>2
  <2> HIDE DEF f
  <2>5. (Self(m) \/ (Beneath[m] \in Node /\ f[Beneath[m]])) \in BOOLEAN
    BY <2>3
  <2> QED
    BY <2>3, <2>4, <2>5
<1>2. f = U(f)
  <2>1. \A m \in Node :
          f[m] = (Self(m) \/ (Kind[m] \in RedirKind /\ Left[m] # NoNode /\ f[Left[m]]))
    BY <1>1, <1>b
  <2>2. f = [m \in Node |-> f[m]]
    OBVIOUS
  <2> HIDE DEF f
  <2> QED
    BY <2>1, <2>2
<1>3. Promise!RunsExit = CHOOSE u : u = U(u)
  BY TreeFacts DEF Promise!RunsExit
<1>4. Promise!RunsExit = U(Promise!RunsExit)
  <2> HIDE DEF f, U
  <2> QED
    BY <1>2, <1>3
<1> QED
  BY <1>4, <1>b DEF Exits

\* The nodes reached from n through redirections alone.
Under(m, n) == m \in Walk(Beneath, n)

LEMMA UnderSelf == \A n \in Node : Under(n, n)
  BY WalkFirst DEF Under

LEMMA UnderBeneath ==
  ASSUME NEW n \in Node, Kind[n] \in RedirKind, Left[n] # NoNode
  PROVE  Left[n] \in Node /\ Under(Left[n], n)
<1>1. Left[n] \in Node /\ Beneath[n] = Left[n]
  BY TreeFacts DEF Beneath
<1> QED
  BY <1>1, WalkFirst, WalkOn DEF Under

LEMMA UnderTrans ==
  ASSUME NEW n \in Node, NEW m \in Node, NEW k \in Node,
         Under(m, n), Under(k, m)
  PROVE  Under(k, n)
<1>1. /\ Walk(Beneath, n) \in SUBSET Node
      /\ \A j \in Walk(Beneath, n) :
           Beneath[j] \in Node => Beneath[j] \in Walk(Beneath, n)
  BY WalkOn DEF Walk
<1> QED
  BY <1>1, WalkWithin DEF Under

\* What a redirection's command yields it yields, and what exits in it exits.
LEMMA UnderYields ==
  ASSUME NEW n \in Node, NEW m \in Node, NEW g \in Status, Under(m, n)
  PROVE  Yield(m, g) \subseteq Yield(n, g)
<1> DEFINE T == {k \in Node : Yield(k, g) \subseteq Yield(n, g)}
<1>1. n \in T /\ T \in SUBSET Node
  OBVIOUS
<1>2. ASSUME NEW k \in T, Beneath[k] \in Node
      PROVE  Beneath[k] \in T
  <2>1. Yield(Beneath[k], g) \subseteq Yield(k, g)
    BY <1>2, YieldUnfold, Deciders, TreeFacts
  <2> QED
    BY <1>2, <2>1
<1>3. Walk(Beneath, n) \subseteq T
  <2> HIDE DEF T
  <2> QED
    BY <1>1, <1>2, WalkWithin
<1> QED
  BY <1>3 DEF Under

LEMMA UnderExits ==
  ASSUME NEW n \in Node, NEW m \in Node, Under(m, n), Exits(m)
  PROVE  Exits(n)
<1> DEFINE T == {k \in Node : Exits(k) => Exits(n)}
<1>1. n \in T /\ T \in SUBSET Node
  OBVIOUS
<1>2. ASSUME NEW k \in T, Beneath[k] \in Node
      PROVE  Beneath[k] \in T
  BY <1>2, ExitsUnfold
<1>3. Walk(Beneath, n) \subseteq T
  <2> HIDE DEF T
  <2> QED
    BY <1>1, <1>2, WalkWithin
<1> QED
  BY <1>3 DEF Under

\* The statuses of each kind of node.
LEMMA LeafYields ==
  ASSUME NEW n \in Node, NEW g \in Status
  PROVE  /\ Kind[n] = "WORD" => Yield(n, g) = {127}
         /\ Kind[n] = "ASSIGNMENT" => Yield(n, g) = {0}
         /\ Kind[n] = "EOF" => Yield(n, g) = {1}
         /\ Kind[n] = "COMMAND" =>
              Yield(n, g) = Promise!CommandOutcomes(Cmd[n], g)
<1>1. Kind[n] \in {"WORD", "ASSIGNMENT", "EOF", "COMMAND"} =>
        Yield(n, g) = Promise!OwnOutcomes(n, g)
  BY YieldUnfold DEF Promise!Deciding, RedirKind, Promise!RedirKind
<1>2. CASE Kind[n] = "WORD"
  BY <1>1, <1>2 DEF Promise!OwnOutcomes, Promise!RedirKind
<1>3. CASE Kind[n] = "ASSIGNMENT"
  BY <1>1, <1>3 DEF Promise!OwnOutcomes, Promise!RedirKind
<1>4. CASE Kind[n] = "EOF"
  BY <1>1, <1>4 DEF Promise!OwnOutcomes, Promise!RedirKind
<1>5. CASE Kind[n] = "COMMAND"
  BY <1>1, <1>5 DEF Promise!OwnOutcomes, Promise!RedirKind
<1> QED
  BY <1>2, <1>3, <1>4, <1>5

LEMMA CommandYields ==
  ASSUME NEW c \in Command, NEW g
  PROVE  /\ 1 \in Promise!CommandOutcomes(c, g)
         /\ c = "exit" => Promise!CommandOutcomes(c, g) = {g, 1, 2}
         /\ c \in {"echo", "cd", "empty"} =>
              Promise!CommandOutcomes(c, g) = {0, 1}
         /\ c = "missing" => Promise!CommandOutcomes(c, g) = {127, 1, 130, 131}
         /\ c = "noexec" => Promise!CommandOutcomes(c, g) = {126, 1, 130, 131}
         /\ c \in Program => Promise!CommandOutcomes(c, g) = {0, 1, 130, 131}
<1>1. CASE c = "exit"
  BY <1>1 DEF Promise!CommandOutcomes, Program, Promise!Program
<1>2. CASE c \in {"echo", "cd", "empty"}
  BY <1>2 DEF Promise!CommandOutcomes, Program, Promise!Program
<1>3. CASE c = "missing"
  BY <1>3 DEF Promise!CommandOutcomes, Program, Promise!Program
<1>4. CASE c = "noexec"
  BY <1>4 DEF Promise!CommandOutcomes, Program, Promise!Program
<1>5. CASE c \in Program
  BY <1>5 DEF Promise!CommandOutcomes, Program, Promise!Program
<1> QED
  BY <1>1, <1>2, <1>3, <1>4, <1>5 DEF Command, Builtin, External

LEMMA RedirYields ==
  ASSUME NEW n \in Node, NEW g \in Status, Kind[n] \in RedirKind
  PROVE  /\ 1 \in Yield(n, g)
         /\ Left[n] = NoNode => Yield(n, g) = {1, 2}
         /\ Left[n] # NoNode => Yield(n, g) = {1} \cup Yield(Left[n], g)
<1>1. /\ Promise!Deciding(n) = Left[n]
      /\ Kind[n] \notin {"COMMAND", "WORD", "ASSIGNMENT", "EOF", "PIPE"}
  BY DEF Promise!Deciding, RedirKind, Promise!RedirKind
<1>2. Promise!OwnOutcomes(n, g) = IF Left[n] = NoNode THEN {1, 2} ELSE {1}
  BY <1>1, TreeFacts DEF Promise!OwnOutcomes, Promise!RedirKind
<1> QED
  BY <1>1, <1>2, YieldUnfold

LEMMA PipeYields ==
  ASSUME NEW n \in Node, NEW g \in Status, Kind[n] = "PIPE"
  PROVE  /\ NoNode \in {Left[n], Right[n]} => Yield(n, g) = {2}
         /\ NoNode \notin {Left[n], Right[n]} =>
              Yield(n, g) = {1} \cup Yield(Right[n], g)
<1>1. Promise!Deciding(n) = IF Left[n] # NoNode THEN Right[n] ELSE NoNode
  BY DEF Promise!Deciding, Promise!RedirKind
<1>2. Promise!OwnOutcomes(n, g) = IF NoNode \in {Left[n], Right[n]} THEN {2} ELSE {1}
  BY DEF Promise!OwnOutcomes, Promise!RedirKind
<1> QED
  BY <1>1, <1>2, YieldUnfold

\* A status a tree may have it may have again once $? is that status.
LEMMA Rebased ==
  ASSUME NEW g \in Status, NEW s \in Status, NEW r \in Node, s \in Yield(r, g)
  PROVE  s \in Yield(r, s)
<1> DEFINE Bad == {n \in Node : s \in Yield(n, g) /\ s \notin Yield(n, s)}
           H == {Height[n] : n \in Bad}
<1> SUFFICES ASSUME Bad # {}
             PROVE  FALSE
  OBVIOUS
<1>1. H \in SUBSET Nat /\ H # {}
  BY Heights
<1>2. PICK n \in Bad : \A m \in Bad : Height[n] <= Height[m]
  <2>1. Min(H) \in H /\ \A x \in H : Min(H) <= x
    <3> HIDE DEF H
    <3> QED
      BY <1>1, MinExists
  <2>2. PICK n \in Bad : Height[n] = Min(H)
    BY <2>1
  <2> HIDE DEF Bad
  <2> QED
    BY <2>1, <2>2
<1>3. n \in Node /\ s \in Yield(n, g) /\ s \notin Yield(n, s)
  OBVIOUS
<1>4. ASSUME NEW m \in Node, Height[m] < Height[n], s \in Yield(m, g)
      PROVE  s \in Yield(m, s)
  BY <1>2, <1>3, <1>4, Heights
<1> HIDE DEF Bad
<1>5. CASE Kind[n] \in {"WORD", "ASSIGNMENT", "EOF"}
  BY <1>3, <1>5, LeafYields
<1>6. CASE Kind[n] = "COMMAND"
  <2>1. /\ Cmd[n] \in Command
        /\ Yield(n, g) = Promise!CommandOutcomes(Cmd[n], g)
        /\ Yield(n, s) = Promise!CommandOutcomes(Cmd[n], s)
    BY <1>3, <1>6, LeafYields, TreeAssumption
  <2>2. CASE Cmd[n] = "exit"
    BY <1>3, <2>1, <2>2, CommandYields
  <2>3. CASE Cmd[n] # "exit"
    <3>1. \/ Cmd[n] \in {"echo", "cd", "empty"} \/ Cmd[n] = "missing"
          \/ Cmd[n] = "noexec" \/ Cmd[n] \in Program
      BY <2>1, <2>3 DEF Command, Builtin, External
    <3>2. Promise!CommandOutcomes(Cmd[n], g) = Promise!CommandOutcomes(Cmd[n], s)
      BY <2>1, <3>1, CommandYields
    <3> QED
      BY <1>3, <2>1, <3>2
  <2> QED
    BY <2>2, <2>3
<1>7. CASE Kind[n] \in RedirKind
  BY <1>3, <1>4, <1>7, RedirYields, Heights
<1>8. CASE Kind[n] = "PIPE"
  BY <1>3, <1>4, <1>8, PipeYields, Heights
<1> QED
  BY <1>3, <1>5, <1>6, <1>7, <1>8, TreeFacts DEF RedirKind

-----------------------------------------------------------------------------
(* What a process that runs a tree for the shell owes: the invariant.      *)

\* Where it is: in the function of the innermost frame, or between frames, in
\* execute_ast or execute_pipe_command.
Inside == Here \cup {"redirect", "command", "echo", "ignore_signals",
                     "wait_external"}
Piping == {"fork_left", "fork_right", "wait_only_left", "close_ends",
           "wait_left", "wait_right"}
Between == Piping \cup {"exec", "word", "return"}
Working == Inside \cup Between \cup {"restore"}

\* Redirection n has the command m.
Leads(n, m) ==
  n \in Node /\ m \in Node /\ Kind[n] \in RedirKind /\ Left[n] = m

\* The node execute_ast was first called for.
Root(e) ==
  IF e.frames = <<>> THEN e.cur ELSE e.frames[Len(e.frames)].node

\* The frames are those of redirections, each the command of the next.
Nested(e) ==
  /\ \A k \in DOMAIN e.frames :
       k # 1 => Leads(e.frames[k].node, e.frames[k - 1].node)
  /\ \A k \in DOMAIN e.frames :
       k # Len(e.frames) => Under(e.frames[k].node, Left[Root(e)])

\* What it has found out where it is, $? being g when it began.
Ready(e, g) ==
  /\ e.pc \notin {"return", "restore"} => e.g_exit_code = g
  /\ e.pc = "return" => e.stat \in Yield(e.cur, g)
  /\ e.pc = "restore" => e.stat \in Yield(e.frames[1].node, g)
  /\ e.pc = "word" => Kind[e.cur] = "WORD" /\ e.stat = 127
  /\ e.pc \in Here \cup {"redirect"} => Kind[e.cur] \in RedirKind
  /\ e.pc \in {"command", "echo", "ignore_signals", "wait_external"} =>
       Kind[e.cur] = "COMMAND"
  /\ e.pc = "echo" => Cmd[e.cur] = "echo"
  /\ e.pc \in {"ignore_signals", "wait_external"} => Cmd[e.cur] \in External
  /\ e.pc \in Piping =>
       Kind[e.cur] = "PIPE" /\ Left[e.cur] \in Node /\ Right[e.cur] \in Node

\* It is running a tree, and $? was g when it began.
Job(e, g) ==
  /\ e.pc \in Working /\ e.cur \in Node
  /\ Nested(e)
  /\ e.pc \in Between /\ e.frames # <<>> => Leads(e.frames[1].node, e.cur)
  /\ e.pc \in Inside \cup {"restore"} => e.frames # <<>>
  /\ e.pc \in Inside => e.frames[1].node = e.cur
  /\ Ready(e, g)

\* No signal and no broken pipe ends it.
Tame(e) == Clean(e) /\ e.disp # "default"

\* The right side of a pipeline whose output is not a pipe: until it ends it
\* runs its tree, with the $? of the process that waits for it.
RightJob(d, n, g) ==
  \/ d.pc = "right_child" /\ d.cur = n /\ d.g_exit_code = g /\ Tame(d)
  \/ Job(d, g) /\ Root(d) = Right[n] /\ Tame(d)
  \/ d.pc = "zombie" /\ d.stat \in Yield(Right[n], g)

RightSide(q) ==
  LET e == proc[q] IN
  e.pc \in {"close_ends", "wait_left", "wait_right"} /\ Tame(e)
  /\ e.cur \in Node /\ Right[e.cur] \in Node
    => RightJob(proc[e.pid2], e.cur, e.g_exit_code)

\* The program a simple command waits for.
ProgramJob(d, n) ==
  \/ d.pc \in Programs /\ d.cur = n /\ Clean(d)
  \/ d.pc \in Ended /\ d.stat \in Promise!CommandOutcomes(Cmd[n], 0)

ProgramSide(q) ==
  LET e == proc[q] IN
  e.pc \in {"ignore_signals", "wait_external"} /\ Clean(e)
  /\ e.cur \in Node /\ Cmd[e.cur] \in External
    => ProgramJob(proc[e.pid1], e.cur)

ShellJob ==
  proc[Shell].pc \notin {"prompt", "zombie"} =>
    Job(proc[Shell], proc[Shell].g_exit_code)

StatusInv == ShellJob /\ \A q \in Pid : RightSide(q) /\ ProgramSide(q)

\* Both parts of where a process is.
LEMMA Places ==
  /\ Inside \cap Between = {} /\ "restore" \notin Inside \cup Between
  /\ Working \cap (Gones \cup Programs \cup
       {"prompt", "left_child", "right_child"}) = {}
  BY DEF Inside, Between, Working, Here, Piping, Gones, Programs

-----------------------------------------------------------------------------
(* How a job goes on.                                                      *)

LEMMA JobStays ==
  ASSUME NEW g, NEW e, NEW u, Job(e, g), Ready(u, g),
         u.cur = e.cur, u.frames = e.frames,
         \/ e.pc \in Between /\ u.pc \in Between
         \/ e.pc \in Inside /\ u.pc \in Inside \cup {"restore"}
  PROVE  Job(u, g) /\ Root(u) = Root(e)
<1>1. Root(u) = Root(e) /\ (Nested(e) => Nested(u))
  BY DEF Root, Nested
<1> QED
  BY <1>1, Places DEF Job, Working

\* From a redirection to its command.
LEMMA JobDescends ==
  ASSUME NEW g, NEW e, NEW u, Job(e, g),
         e.pc \in Inside, u.pc = "exec", Kind[e.cur] \in RedirKind,
         Left[e.cur] # NoNode, u.cur = Left[e.cur], u.frames = e.frames,
         u.g_exit_code = g
  PROVE  Job(u, g) /\ Root(u) = Root(e)
<1>1. Root(u) = Root(e) /\ (Nested(e) => Nested(u))
  BY DEF Root, Nested, Job
<1>2. Leads(e.frames[1].node, u.cur) /\ u.cur \in Node
  BY TreeFacts DEF Leads, Job
<1> QED
  BY <1>1, <1>2, Places
  DEF Job, Ready, Working, Between, Inside, Here, Piping

\* save_original_fds.
LEMMA JobPushes ==
  ASSUME NEW g, NEW e \in Process, NEW u \in Process, Job(e, g),
         e.pc = "exec",
         \/ u.pc = "redirect" /\ Kind[e.cur] \in RedirKind
         \/ u.pc = "command" /\ Kind[e.cur] = "COMMAND",
         u.cur = e.cur, u.g_exit_code = g,
         NEW x \in Frame, x.node = e.cur, u.frames = <<x>> \o e.frames
  PROVE  Job(u, g) /\ Root(u) = Root(e)
<1> DEFINE F == e.frames
           H == u.frames
<1>1. F \in Seq(Frame) /\ H = <<x>> \o F
  BY EntryTypes
<1>2. /\ H # <<>> /\ H[1] = x /\ Len(H) = Len(F) + 1 /\ Len(F) \in Nat
      /\ DOMAIN H = 1 .. (Len(F) + 1) /\ DOMAIN F = 1 .. Len(F)
      /\ \A k \in DOMAIN H : k # 1 => k - 1 \in DOMAIN F /\ H[k] = F[k - 1]
  BY <1>1, PushedFrames
<1>3. F # <<>> => Len(F) # 0 /\ 1 \in DOMAIN F
  BY <1>1
<1>e. F = <<>> => Len(F) = 0
  BY <1>1
<1>j. /\ e.cur \in Node /\ Nested(e)
      /\ F # <<>> => Leads(F[1].node, e.cur)
  BY DEF Job, Between
<1>4. Root(u) = Root(e)
  <2>1. CASE F = <<>>
    BY <1>2, <1>e, <2>1 DEF Root
  <2>2. CASE F # <<>>
    <3>1. H[Len(H)] = F[Len(F)]
      BY <1>2, <1>3, <2>2
    <3> QED
      BY <1>2, <2>2, <3>1 DEF Root
  <2> QED
    BY <2>1, <2>2
<1>5. \A k \in DOMAIN H : k # 1 => Leads(H[k].node, H[k - 1].node)
  <2> SUFFICES ASSUME NEW k \in DOMAIN H, k # 1
               PROVE  Leads(H[k].node, H[k - 1].node)
    OBVIOUS
  <2>1. k \in Nat /\ k - 1 \in DOMAIN F /\ H[k] = F[k - 1] /\ F # <<>>
    BY <1>2, <1>e
  <2>2. CASE k = 2
    BY <1>2, <1>j, <2>1, <2>2
  <2>3. CASE k # 2
    <3>1. k - 1 \in DOMAIN H /\ k - 1 # 1 /\ H[k - 1] = F[(k - 1) - 1]
      BY <1>2, <2>1, <2>3
    <3>2. Leads(F[k - 1].node, F[(k - 1) - 1].node)
      BY <1>j, <2>1, <3>1 DEF Nested
    <3> QED
      BY <2>1, <3>1, <3>2
  <2> QED
    BY <2>2, <2>3
<1>6. \A k \in DOMAIN H : k # Len(H) => Under(H[k].node, Left[Root(e)])
  <2> SUFFICES ASSUME NEW k \in DOMAIN H, k # Len(H)
               PROVE  Under(H[k].node, Left[Root(e)])
    OBVIOUS
  <2>1. k \in Nat /\ F # <<>> /\ k \in 1 .. Len(F) /\ Len(F) \in DOMAIN F
    BY <1>2, <1>e
  <2>2. CASE k # 1
    <3>1. k - 1 \in DOMAIN F /\ H[k] = F[k - 1] /\ k - 1 # Len(F)
      BY <1>2, <2>1, <2>2
    <3> QED
      BY <1>j, <3>1 DEF Nested
  <2>3. CASE k = 1 /\ Len(F) = 1
    <3>1. Root(e) = F[1].node /\ Left[Root(e)] = e.cur
      BY <1>j, <2>1, <2>3 DEF Root, Leads
    <3> QED
      BY <1>2, <1>j, <2>3, <3>1, UnderSelf
  <2>4. CASE k = 1 /\ Len(F) # 1
    <3>1. Under(F[1].node, Left[Root(e)]) /\ Leads(F[1].node, e.cur)
      BY <1>3, <1>j, <2>1, <2>4 DEF Nested
    <3>2. Under(e.cur, F[1].node)
      BY <3>1, UnderBeneath, TreeFacts DEF Leads
    <3>3. Left[Root(e)] \in Node
      <4>1. /\ Root(e) = F[Len(F)].node
            /\ Leads(F[Len(F)].node, F[Len(F) - 1].node)
        BY <1>j, <2>1, <2>4 DEF Root, Nested
      <4> QED
        BY <4>1 DEF Leads
    <3>4. F[1].node \in Node
      BY <3>1 DEF Leads
    <3> QED
      BY <1>2, <1>j, <2>4, <3>1, <3>2, <3>3, <3>4, UnderTrans
  <2> QED
    BY <2>2, <2>3, <2>4
<1>7. Nested(u)
  BY <1>4, <1>5, <1>6 DEF Nested
<1>8. Ready(u, g)
  BY DEF Ready, Here, Piping
<1> QED
  BY <1>2, <1>4, <1>7, <1>8, <1>j DEF Job, Inside, Between, Working, Piping, Here

\* restore_fds, close_fds and the return from the frame's function.
LEMMA JobPops ==
  ASSUME NEW g, NEW e \in Process, NEW u \in Process, Job(e, g),
         e.pc = "restore", u.pc = "return", u.cur = e.frames[1].node,
         u.frames = Tail(e.frames), u.stat = e.stat
  PROVE  Job(u, g) /\ Root(u) = Root(e)
<1> DEFINE F == e.frames
           H == u.frames
<1>1. F \in Seq(Frame) /\ F # <<>> /\ Nested(e) /\ u.cur \in Node
  <2>1. F \in Seq(Frame) /\ F # <<>> /\ Nested(e)
    BY EntryTypes DEF Job
  <2>2. 1 \in DOMAIN F
    BY <2>1
  <2> QED
    BY <2>1, <2>2, EntryTypes
<1>2. /\ H \in Seq(Frame) /\ Len(H) = Len(F) - 1 /\ Len(H) \in Nat
      /\ DOMAIN H = 1 .. (Len(F) - 1) /\ DOMAIN F = 1 .. Len(F)
      /\ 1 \in DOMAIN F /\ Len(F) \in DOMAIN F
      /\ \A k \in DOMAIN H : k + 1 \in DOMAIN F /\ H[k] = F[k + 1]
  BY <1>1, PoppedFrames
<1>e. /\ H = <<>> <=> Len(H) = 0
      /\ Len(F) \in Nat /\ Len(F) >= 1
  <2> HIDE DEF F, H
  <2> QED
    BY <1>1, <1>2
<1>3. Root(u) = Root(e)
  <2>1. CASE H = <<>>
    <3>1. Len(F) = 1
      <4>1. Len(H) = 0
        BY <1>e, <2>1
      <4> HIDE DEF F, H
      <4> QED
        BY <1>e, <1>2, <4>1
    <3> QED
      BY <1>1, <2>1, <3>1 DEF Root
  <2>2. CASE H # <<>>
    <3>1. H[Len(H)] = F[Len(F)]
      BY <1>e, <1>2, <2>2
    <3> QED
      BY <1>1, <2>2, <3>1 DEF Root
  <2> QED
    BY <2>1, <2>2
<1>4. \A k \in DOMAIN H : k # 1 => Leads(H[k].node, H[k - 1].node)
  <2> SUFFICES ASSUME NEW k \in DOMAIN H, k # 1
               PROVE  Leads(H[k].node, H[k - 1].node)
    OBVIOUS
  <2>1. /\ k + 1 \in DOMAIN F /\ k + 1 # 1 /\ (k + 1) - 1 = k
        /\ H[k] = F[k + 1] /\ k - 1 \in DOMAIN H /\ H[k - 1] = F[k]
    BY <1>2
  <2>2. Leads(F[k + 1].node, F[(k + 1) - 1].node)
    BY <1>1, <2>1 DEF Nested
  <2> QED
    BY <2>1, <2>2
<1>5. \A k \in DOMAIN H : k # Len(H) => Under(H[k].node, Left[Root(e)])
  <2> SUFFICES ASSUME NEW k \in DOMAIN H, k # Len(H)
               PROVE  Under(H[k].node, Left[Root(e)])
    OBVIOUS
  <2>1. k + 1 \in DOMAIN F /\ k + 1 # Len(F) /\ H[k] = F[k + 1]
    BY <1>2
  <2> QED
    BY <1>1, <2>1 DEF Nested
<1>6. H # <<>> => Leads(H[1].node, u.cur)
  <2> SUFFICES ASSUME H # <<>>
               PROVE  Leads(H[1].node, u.cur)
    OBVIOUS
  <2>1. 1 \in DOMAIN H /\ 2 \in DOMAIN F /\ H[1] = F[2]
    BY <1>2, <1>e
  <2>2. Leads(F[2].node, F[2 - 1].node)
    <3>1. 2 # 1
      OBVIOUS
    <3> QED
      BY <1>1, <2>1, <3>1, Zenon DEF Nested
  <2>3. 2 - 1 = 1
    OBVIOUS
  <2> QED
    BY <1>1, <2>1, <2>2, <2>3 DEF Job
<1>7. Nested(u)
  BY <1>3, <1>4, <1>5 DEF Nested
<1>8. Ready(u, g)
  BY DEF Ready, Job, Here, Piping
<1> QED
  BY <1>1, <1>3, <1>6, <1>7, <1>8 DEF Job, Inside, Between, Working, Piping, Here

LEMMA JobReturns ==
  ASSUME NEW g, NEW e, NEW u, Job(e, g), e.pc \in Between, u.pc = "return",
         u.cur = e.cur, u.frames = e.frames, u.stat \in Yield(e.cur, g)
  PROVE  Job(u, g) /\ Root(u) = Root(e)
<1>1. Ready(u, g)
  BY DEF Ready, Here, Piping
<1> QED
  BY <1>1, JobStays DEF Between

LEMMA JobRestores ==
  ASSUME NEW g, NEW e, NEW u, Job(e, g), e.pc \in Inside, u.pc = "restore",
         u.cur = e.cur, u.frames = e.frames, u.stat \in Yield(e.cur, g)
  PROVE  Job(u, g) /\ Root(u) = Root(e)
<1>1. Ready(u, g)
  BY DEF Ready, Here, Piping, Job
<1> QED
  BY <1>1, JobStays

\* What a step makes of the job of p: it goes on; it sets $? to the status of
\* the root's command, or to the root's and prompts; it ends with the root's,
\* or runs exit.
Goes(p, g) ==
  LET e == proc[p]
      u == proc'[p]
      r == Root(e)
  IN
  \/ Job(u, g) /\ Root(u) = r /\ u.g_exit_code = e.g_exit_code
  \/ /\ Job(u, g) /\ Root(u) = r /\ u.pc = "restore" /\ u.g_exit_code = u.stat
     /\ r \in Node /\ Kind[r] \in RedirKind /\ Left[r] \in Node
     /\ u.stat \in Yield(Left[r], g)
  \/ p = Shell /\ u.pc = "prompt" /\ u.g_exit_code \in Yield(r, g)
  \/ p # Shell /\ u.pc = "zombie" /\ u.stat \in Yield(r, g)
  \/ /\ u.pc = "zombie" /\ u.stat \in Yield(r, g) /\ r \in Node /\ Exits(r)
     /\ u.stat \in {e.g_exit_code, 2}

\* execute_ast's dispatch.
LEMMA ExecGoes ==
  ASSUME TypeOK, TypeOK', NEW g \in Status, NEW p \in Pid, Job(proc[p], g),
         ExecTrivial(p) \/ ExecWord(p) \/ SaveFds(p) \/ ExecPipe(p)
  PROVE  Goes(p, g)
<1> DEFINE e == proc[p]
           u == proc'[p]
           n == e.cur
<1>d. /\ DOMAIN proc = Pid
      /\ DOMAIN e =
           {"pc", "cur", "frames", "fd", "disp", "pending", "stat",
            "g_exit_code", "pid1", "pid2", "pipefd", "parent", "todo"}
      /\ e \in Process /\ u \in Process
  BY DEF TypeOK, Process
<1>p. e.pc = "exec" /\ n \in Node /\ e.g_exit_code = g /\ e.pc \in Between
  BY DEF ExecTrivial, ExecWord, SaveFds, ExecPipe, AtNode, At, Job, Ready, Between
<1>1. ASSUME NEW s, s \in Yield(n, g), Goto(p, "return", s)
      PROVE  Goes(p, g)
  <2>1. /\ u.pc = "return" /\ u.stat = s /\ u.cur = e.cur
        /\ u.frames = e.frames /\ u.g_exit_code = e.g_exit_code
    BY <1>d, <1>1 DEF Goto
  <2>2. Job(u, g) /\ Root(u) = Root(e)
    BY <1>1, <1>p, <2>1, JobReturns
  <2> QED
    BY <2>1, <2>2 DEF Goes
<1>2. CASE ExecTrivial(p)
  BY <1>1, <1>2, <1>p, LeafYields DEF ExecTrivial, AtNode
<1>3. CASE ExecWord(p)
  <2>1. /\ u.pc = "word" /\ u.stat = 127 /\ u.cur = e.cur
        /\ u.frames = e.frames /\ u.g_exit_code = e.g_exit_code
        /\ Kind[n] = "WORD"
    BY <1>d, <1>3 DEF Goto, ExecWord, AtNode
  <2>2. Ready(u, g)
    BY <1>p, <2>1 DEF Ready, Here, Piping
  <2>3. Job(u, g) /\ Root(u) = Root(e)
    BY <1>p, <2>1, <2>2, JobStays DEF Between
  <2> QED
    BY <2>1, <2>3 DEF Goes
<1>4. CASE SaveFds(p)
  <2>1. Kind[n] \in RedirKind \cup {"COMMAND"}
    BY <1>4 DEF SaveFds, AtNode
  <2>2. CASE Goto(p, "return", 1)
    <3>1. 1 \in Yield(n, g)
      BY <1>p, <2>1, RedirYields, LeafYields, CommandYields, TreeAssumption
    <3> QED
      BY <1>1, <2>2, <3>1
  <2>3. CASE ~Goto(p, "return", 1)
    <3> DEFINE x == [node |-> n, fds |-> <<Lowest(p), Second(p)>>]
    <3>1. /\ Cardinality(Free(p)) >= 2
          /\ u.pc = IF Kind[n] = "COMMAND" THEN "command" ELSE "redirect"
          /\ u.frames = <<x>> \o e.frames /\ u.cur = e.cur
          /\ u.g_exit_code = e.g_exit_code
      BY <1>d, <1>4, <2>3 DEF SaveFds
    <3>2. x \in Frame /\ x.node = n
      BY <1>p, <3>1, FreeFds DEF Frame
    <3> HIDE DEF x
    <3>3. \/ u.pc = "redirect" /\ Kind[e.cur] \in RedirKind
          \/ u.pc = "command" /\ Kind[e.cur] = "COMMAND"
      BY <2>1, <3>1
    <3>4. Job(u, g) /\ Root(u) = Root(e)
      BY <1>d, <1>p, <3>1, <3>2, <3>3, JobPushes
    <3> QED
      BY <3>1, <3>4 DEF Goes
  <2> QED
    BY <2>2, <2>3
<1>5. CASE ExecPipe(p)
  <2>1. Kind[n] = "PIPE"
    BY <1>5 DEF ExecPipe, AtNode
  <2>2. CASE NoNode \in {Left[n], Right[n]} /\ Goto(p, "return", 2)
    BY <1>1, <1>p, <2>1, <2>2, PipeYields
  <2>3. CASE NoNode \notin {Left[n], Right[n]} /\ Goto(p, "return", 1)
    BY <1>1, <1>p, <2>1, <2>3, PipeYields
  <2>4. CASE /\ NoNode \notin {Left[n], Right[n]}
             /\ proc' = [proc EXCEPT
                  ![p].pc = "fork_left",
                  ![p].pipefd = <<Lowest(p), Second(p)>>,
                  ![p].fd = PipeOpened(p, n)]
    <3>1. /\ u.pc = "fork_left" /\ u.cur = e.cur
          /\ u.frames = e.frames /\ u.g_exit_code = e.g_exit_code
      BY <1>d, <2>4
    <3>2. Left[n] \in Node /\ Right[n] \in Node
      BY <1>p, <2>4, TreeFacts
    <3>3. Ready(u, g)
      BY <1>p, <2>1, <3>1, <3>2 DEF Ready, Here
    <3>4. Job(u, g) /\ Root(u) = Root(e)
      BY <1>p, <3>1, <3>3, JobStays DEF Between, Piping
    <3> QED
      BY <3>1, <3>4 DEF Goes
  <2> QED
    BY <1>5, <2>2, <2>3, <2>4 DEF ExecPipe
<1> QED
  BY <1>2, <1>3, <1>4, <1>5

\* The redirections.
LEMMA RedirectGoes ==
  ASSUME TypeOK, TypeOK', NEW g \in Status, NEW p \in Pid, Job(proc[p], g),
         \/ RedirectFile(p) \/ HereDocument(p) \/ HerePrompt(p)
         \/ HereLine(p) \/ HereWrite(p) \/ HereEnd(p)
  PROVE  Goes(p, g)
<1> DEFINE e == proc[p]
           u == proc'[p]
           n == e.cur
<1>d. /\ DOMAIN proc = Pid
      /\ DOMAIN e =
           {"pc", "cur", "frames", "fd", "disp", "pending", "stat",
            "g_exit_code", "pid1", "pid2", "pipefd", "parent", "todo"}
  BY DEF TypeOK, Process
<1>p. /\ e.pc \in Here \cup {"redirect"} /\ e.pc \in Inside
      /\ n \in Node /\ e.g_exit_code = g /\ Kind[n] \in RedirKind
  <2>1. e.pc \in Here \cup {"redirect"}
    BY DEF RedirectFile, HereDocument, HerePrompt, HereLine, HereWrite,
           HereEnd, AtNode, At, Here
  <2> QED
    BY <2>1 DEF Job, Ready, Inside, Here
<1>1. ASSUME NEW s, s \in Yield(n, g), u.pc = "restore", u.stat = s,
             u.cur = e.cur, u.frames = e.frames,
             u.g_exit_code = e.g_exit_code
      PROVE  Goes(p, g)
  BY <1>1, <1>p, JobRestores DEF Goes
<1>2. ASSUME Goto(p, "restore", 1)
      PROVE  Goes(p, g)
  <2>1. /\ u.pc = "restore" /\ u.stat = 1 /\ u.cur = e.cur
        /\ u.frames = e.frames /\ u.g_exit_code = e.g_exit_code
    BY <1>d, <1>2 DEF Goto
  <2> QED
    BY <1>1, <1>p, <2>1, RedirYields
<1>3. ASSUME NEW fd, RedirectedCommand(p, fd)
      PROVE  Goes(p, g)
  <2>1. CASE Left[n] = NoNode
    <3>1. /\ u.pc = "restore" /\ u.stat = 2 /\ u.cur = e.cur
          /\ u.frames = e.frames /\ u.g_exit_code = e.g_exit_code
      BY <1>d, <1>3, <2>1 DEF RedirectedCommand
    <3> QED
      BY <1>1, <1>p, <2>1, <3>1, RedirYields
  <2>2. CASE Left[n] # NoNode
    <3>1. /\ u.pc = "exec" /\ u.cur = Left[n]
          /\ u.frames = e.frames /\ u.g_exit_code = e.g_exit_code
      BY <1>d, <1>3, <2>2 DEF RedirectedCommand
    <3> QED
      BY <1>p, <2>2, <3>1, JobDescends DEF Goes
  <2> QED
    BY <2>1, <2>2
<1>4. ASSUME u.pc \in Here, u.cur = e.cur, u.frames = e.frames,
             u.g_exit_code = e.g_exit_code
      PROVE  Goes(p, g)
  <2>1. Ready(u, g)
    BY <1>4, <1>p DEF Ready, Here, Piping
  <2>2. Job(u, g) /\ Root(u) = Root(e)
    BY <1>4, <1>p, <2>1, JobStays DEF Inside
  <2> QED
    BY <1>4, <2>2 DEF Goes
<1>5. CASE RedirectFile(p)
  BY <1>2, <1>3, <1>5 DEF RedirectFile
<1>6. CASE HereDocument(p)
  <2>1. CASE Goto(p, "restore", 1)
    BY <1>2, <2>1
  <2>2. CASE ~Goto(p, "restore", 1)
    BY <1>d, <1>4, <1>6, <2>2 DEF HereDocument, Here
  <2> QED
    BY <2>1, <2>2
<1>7. CASE HerePrompt(p)
  BY <1>d, <1>4, <1>7 DEF HerePrompt, Here
<1>8. CASE HereLine(p)
  BY <1>d, <1>4, <1>8 DEF HereLine, Here
<1>9. CASE HereWrite(p)
  BY <1>d, <1>4, <1>9 DEF HereWrite, Here
<1>10. CASE HereEnd(p)
  BY <1>3, <1>10 DEF HereEnd
<1> QED
  BY <1>5, <1>6, <1>7, <1>8, <1>9, <1>10

\* Where the node it is at stands in the tree.
LEMMA BetweenUnder ==
  ASSUME NEW g, NEW e \in Process, Job(e, g), e.pc \in Between,
         e.frames # <<>>
  PROVE  /\ Root(e) \in Node /\ Kind[Root(e)] \in RedirKind
         /\ Left[Root(e)] \in Node /\ Under(e.cur, Left[Root(e)])
<1> DEFINE F == e.frames
           L == Len(F)
<1>1. F \in Seq(Frame) /\ Nested(e) /\ Leads(F[1].node, e.cur)
  BY EntryTypes DEF Job
<1>2. L \in Nat /\ L # 0 /\ DOMAIN F = 1 .. L /\ Root(e) = F[L].node
  BY <1>1 DEF Root
<1> HIDE DEF F
<1>3. CASE L = 1
  BY <1>1, <1>2, <1>3, UnderSelf DEF Leads
<1>4. CASE L # 1
  <2>1. 1 \in DOMAIN F /\ L \in DOMAIN F /\ 1 # L
    BY <1>2, <1>4
  <2>2. Under(F[1].node, Left[Root(e)]) /\ Leads(F[L].node, F[L - 1].node)
    BY <1>1, <2>1, <1>4 DEF Nested, F
  <2>3. Under(e.cur, F[1].node)
    BY <1>1, UnderBeneath, TreeFacts DEF Leads
  <2>4. /\ Root(e) \in Node /\ Kind[Root(e)] \in RedirKind
        /\ Left[Root(e)] \in Node /\ e.cur \in Node /\ F[1].node \in Node
    BY <1>1, <1>2, <2>2 DEF Leads
  <2> QED
    BY <2>2, <2>3, <2>4, UnderTrans
<1> QED
  BY <1>3, <1>4

LEMMA InsideUnder ==
  ASSUME NEW g, NEW e \in Process, Job(e, g), e.pc \in Inside
  PROVE  Root(e) \in Node /\ Under(e.cur, Root(e))
<1> DEFINE F == e.frames
           L == Len(F)
<1>1. /\ F \in Seq(Frame) /\ F # <<>> /\ Nested(e)
      /\ F[1].node = e.cur /\ e.cur \in Node
  BY EntryTypes DEF Job
<1>2. L \in Nat /\ L # 0 /\ DOMAIN F = 1 .. L /\ Root(e) = F[L].node
  BY <1>1 DEF Root
<1> HIDE DEF F
<1>3. CASE L = 1
  BY <1>1, <1>2, <1>3, UnderSelf
<1>4. CASE L # 1
  <2>1. 1 \in DOMAIN F /\ L \in DOMAIN F /\ 1 # L
    BY <1>2, <1>4
  <2>2. Under(e.cur, Left[Root(e)]) /\ Leads(F[L].node, F[L - 1].node)
    BY <1>1, <2>1, <1>4 DEF Nested, F
  <2>3. Root(e) \in Node /\ Left[Root(e)] \in Node /\ Under(Left[Root(e)], Root(e))
    BY <1>2, <2>2, UnderBeneath, TreeFacts DEF Leads
  <2> QED
    BY <1>1, <2>2, <2>3, UnderTrans
<1> QED
  BY <1>3, <1>4

\* Simple commands.
LEMMA CommandGoes ==
  ASSUME TypeOK, TypeOK', NEW g \in Status, NEW p \in Pid, Job(proc[p], g),
         QuietBuiltin(p) \/ Echo(p) \/ ExitBuiltin(p)
  PROVE  Goes(p, g)
<1> DEFINE e == proc[p]
           u == proc'[p]
           n == e.cur
<1>d. /\ DOMAIN proc = Pid
      /\ DOMAIN e =
           {"pc", "cur", "frames", "fd", "disp", "pending", "stat",
            "g_exit_code", "pid1", "pid2", "pipefd", "parent", "todo"}
      /\ e \in Process
  BY DEF TypeOK, Process
<1>p. /\ e.pc \in {"command", "echo"} /\ e.pc \in Inside
      /\ n \in Node /\ e.g_exit_code = g /\ Kind[n] = "COMMAND"
      /\ Yield(n, g) = Promise!CommandOutcomes(Cmd[n], g)
      /\ Cmd[n] \in Command
  <2>1. e.pc \in {"command", "echo"}
    BY DEF QuietBuiltin, Echo, ExitBuiltin, AtCommand, At
  <2>2. n \in Node /\ e.g_exit_code = g /\ Kind[n] = "COMMAND"
    BY <2>1 DEF Job, Ready
  <2> QED
    BY <2>1, <2>2, LeafYields, TreeAssumption DEF Inside
<1>1. ASSUME NEW s \in Promise!CommandOutcomes(Cmd[n], g), Goto(p, "restore", s)
      PROVE  Goes(p, g)
  <2>1. /\ u.pc = "restore" /\ u.stat = s /\ u.cur = e.cur
        /\ u.frames = e.frames /\ u.g_exit_code = e.g_exit_code
    BY <1>d, <1>1 DEF Goto
  <2> QED
    BY <1>1, <1>p, <2>1, JobRestores DEF Goes
<1>2. CASE QuietBuiltin(p)
  <2>1. PICK s \in {0, 1} : Goto(p, "restore", s)
    BY <1>2 DEF QuietBuiltin
  <2>2. Promise!CommandOutcomes(Cmd[n], g) = {0, 1}
    BY <1>2, <1>p, CommandYields DEF QuietBuiltin, AtCommand
  <2> QED
    BY <1>1, <2>1, <2>2
<1>3. CASE Echo(p)
  <2>1. CASE AtCommand(p, "command", {"echo"}) /\ Goto(p, "echo", 0)
    <3>1. /\ u.pc = "echo" /\ u.cur = e.cur
          /\ u.frames = e.frames /\ u.g_exit_code = e.g_exit_code
          /\ Cmd[n] = "echo"
      BY <1>d, <2>1 DEF Goto, AtCommand
    <3>2. Ready(u, g)
      BY <1>p, <3>1 DEF Ready, Here, Piping
    <3>3. Job(u, g) /\ Root(u) = Root(e)
      BY <1>p, <3>1, <3>2, JobStays DEF Inside
    <3> QED
      BY <3>1, <3>3 DEF Goes
  <2>2. CASE At(p, "echo") /\ Goto(p, "restore", 0)
    <3>1. Cmd[n] = "echo"
      BY <2>2 DEF At, Job, Ready
    <3>2. Promise!CommandOutcomes(Cmd[n], g) = {0, 1}
      BY <1>p, <3>1, CommandYields
    <3> QED
      BY <1>1, <2>2, <3>2
  <2> QED
    BY <1>3, <2>1, <2>2 DEF Echo
<1>4. CASE ExitBuiltin(p)
  <2>1. PICK s \in {e.g_exit_code, 2} : Exit(p, s)
    BY <1>4 DEF ExitBuiltin
  <2>2. u.pc = "zombie" /\ u.stat = s
    BY <1>d, <2>1 DEF Exit
  <2>3. Cmd[n] = "exit"
    BY <1>4 DEF ExitBuiltin, AtCommand
  <2>4. s \in Yield(n, g) /\ Exits(n)
    BY <1>p, <2>3, CommandYields, ExitsUnfold
  <2>5. Root(e) \in Node /\ Under(n, Root(e))
    BY <1>d, <1>p, InsideUnder
  <2>6. s \in Yield(Root(e), g) /\ Exits(Root(e))
    BY <1>p, <2>4, <2>5, UnderYields, UnderExits
  <2> QED
    BY <2>1, <2>2, <2>5, <2>6 DEF Goes
<1> QED
  BY <1>2, <1>3, <1>4

\* External commands: what the shell does while the program runs.
LEMMA ExternalGoes ==
  ASSUME TypeOK, TypeOK', NEW g \in Status, NEW p \in Pid, Job(proc[p], g),
         ForkExternal(p) \/ IgnoreSignals(p) \/ WaitExternal(p),
         ProgramSide(p), Clean(proc[p]), \A c \in Awaited(p) : c # p
  PROVE  Goes(p, g)
<1> DEFINE e == proc[p]
           u == proc'[p]
           n == e.cur
<1>d. /\ DOMAIN proc = Pid
      /\ DOMAIN e =
           {"pc", "cur", "frames", "fd", "disp", "pending", "stat",
            "g_exit_code", "pid1", "pid2", "pipefd", "parent", "todo"}
      /\ e \in Process
  BY DEF TypeOK, Process
<1>p. /\ e.pc \in {"command", "ignore_signals", "wait_external"}
      /\ e.pc \in Inside
      /\ n \in Node /\ e.g_exit_code = g /\ Kind[n] = "COMMAND"
      /\ Cmd[n] \in External /\ Cmd[n] \in Command
      /\ Yield(n, g) = Promise!CommandOutcomes(Cmd[n], g)
  <2>1. e.pc \in {"command", "ignore_signals", "wait_external"}
    BY DEF ForkExternal, IgnoreSignals, WaitExternal, AtCommand, At
  <2>2. n \in Node /\ e.g_exit_code = g /\ Kind[n] = "COMMAND"
    BY <2>1 DEF Job, Ready
  <2>3. e.pc = "command" => Cmd[n] \in External
    BY DEF ForkExternal, IgnoreSignals, WaitExternal, AtCommand, At
  <2>4. e.pc # "command" => Cmd[n] \in External
    BY <2>1 DEF Job, Ready
  <2> QED
    BY <2>1, <2>2, <2>3, <2>4, LeafYields, TreeAssumption DEF Inside
<1>1. ASSUME NEW s \in Promise!CommandOutcomes(Cmd[n], g),
             u.pc = "restore", u.stat = s, u.cur = e.cur,
             u.frames = e.frames, u.g_exit_code = e.g_exit_code
      PROVE  Goes(p, g)
  BY <1>1, <1>p, JobRestores DEF Goes
<1>2. ASSUME u.pc \in {"ignore_signals", "wait_external"},
             u.cur = e.cur, u.frames = e.frames,
             u.g_exit_code = e.g_exit_code
      PROVE  Goes(p, g)
  <2>1. Ready(u, g)
    BY <1>2, <1>p DEF Ready, Here, Piping
  <2>2. Job(u, g) /\ Root(u) = Root(e)
    BY <1>2, <1>p, <2>1, JobStays DEF Inside
  <2> QED
    BY <1>2, <2>2 DEF Goes
<1>3. CASE ForkExternal(p)
  <2>1. CASE Goto(p, "restore", 1)
    <3>1. /\ u.pc = "restore" /\ u.stat = 1 /\ u.cur = e.cur
          /\ u.frames = e.frames /\ u.g_exit_code = e.g_exit_code
      BY <1>d, <2>1 DEF Goto
    <3> QED
      BY <1>1, <1>p, <3>1, CommandYields
  <2>2. ASSUME NEW c, FreePid # {}, c = NewPid,
               proc' = [proc EXCEPT ![c] = Fork(p, "external_child"),
                          ![p].pc = "ignore_signals", ![p].pid1 = c]
        PROVE  Goes(p, g)
    <3>1. c # p
      BY <1>p, <2>2, NewPidFree
    <3> QED
      BY <1>2, <1>d, <2>2, <3>1
  <2> QED
    BY <1>3, <2>1, <2>2 DEF ForkExternal
<1>4. CASE IgnoreSignals(p)
  BY <1>2, <1>d, <1>4 DEF IgnoreSignals
<1>5. CASE WaitExternal(p)
  <2>1. ASSUME NEW c, c = e.pid1, proc[c].pc \in Ended,
               proc' = [proc EXCEPT ![c] = Unused, ![p].pc = "restore",
                                    ![p].stat = proc[c].stat]
        PROVE  Goes(p, g)
    <3>p. c # p
      BY <1>5, <2>1 DEF WaitExternal, At, Awaited
    <3>1. /\ u.pc = "restore" /\ u.stat = proc[c].stat /\ u.cur = e.cur
          /\ u.frames = e.frames /\ u.g_exit_code = e.g_exit_code
      BY <1>d, <2>1, <3>p
    <3>2. proc[c].stat \in Promise!CommandOutcomes(Cmd[n], 0)
      <4>1. ProgramJob(proc[c], n)
        BY <1>5, <1>p, <2>1 DEF ProgramSide, WaitExternal, At
      <4> QED
        BY <2>1, <4>1 DEF ProgramJob, Ended, Programs
    <3>3. Promise!CommandOutcomes(Cmd[n], 0) = Promise!CommandOutcomes(Cmd[n], g)
      BY <1>p, CommandYields DEF External
    <3> QED
      BY <1>1, <3>1, <3>2, <3>3
  <2> QED
    BY <1>5, <2>1 DEF WaitExternal
<1> QED
  BY <1>3, <1>4, <1>5

\* Returning.
LEMMA ReturnGoes ==
  ASSUME TypeOK, TypeOK', NEW g \in Status, NEW p \in Pid, Job(proc[p], g),
         Word(p) \/ RestoreFds(p) \/ Return(p)
  PROVE  Goes(p, g)
<1> DEFINE e == proc[p]
           u == proc'[p]
           n == e.cur
<1>d. /\ DOMAIN proc = Pid
      /\ DOMAIN e =
           {"pc", "cur", "frames", "fd", "disp", "pending", "stat",
            "g_exit_code", "pid1", "pid2", "pipefd", "parent", "todo"}
      /\ e \in Process /\ u \in Process
  BY DEF TypeOK, Process
<1>1. CASE Word(p)
  <2>1. /\ e.pc = "word" /\ u.pc = "return" /\ u.stat = e.stat /\ u.cur = e.cur
        /\ u.frames = e.frames /\ u.g_exit_code = e.g_exit_code
    BY <1>d, <1>1 DEF Word, At
  <2>2. e.pc \in Between /\ n \in Node /\ Kind[n] = "WORD" /\ e.stat = 127
    BY <2>1 DEF Between, Job, Ready
  <2>3. u.stat \in Yield(n, g)
    BY <2>1, <2>2, LeafYields
  <2> QED
    BY <2>1, <2>2, <2>3, JobReturns DEF Goes
<1>2. CASE RestoreFds(p)
  <2>1. /\ e.pc = "restore" /\ u.pc = "return" /\ u.stat = e.stat
        /\ u.cur = Head(e.frames).node /\ e.frames # <<>>
        /\ u.frames = Tail(e.frames) /\ u.g_exit_code = e.g_exit_code
    BY <1>d, <1>2 DEF RestoreFds, At
  <2>2. u.cur = e.frames[1].node
    BY <1>d, <2>1, EntryTypes
  <2>3. Job(u, g) /\ Root(u) = Root(e)
    BY <1>d, <2>1, <2>2, JobPops
  <2> QED
    BY <2>1, <2>3 DEF Goes
<1>3. CASE Return(p)
  <2>1. e.pc = "return" /\ e.pc \in Between /\ n \in Node /\ e.stat \in Yield(n, g)
    BY <1>3 DEF Return, At, Between, Job, Ready
  <2>2. CASE e.frames # <<>>
    <3>1. /\ u.pc = "restore" /\ u.g_exit_code = e.stat
          /\ u.stat = IF Kind[n] = "WORD" THEN 127 ELSE e.stat
          /\ u.cur = e.cur /\ u.frames = e.frames
      BY <1>d, <1>3, <2>2 DEF Return
    <3>2. u.stat = e.stat
      BY <2>1, <3>1, LeafYields
    <3>3. Leads(e.frames[1].node, n)
      BY <2>1, <2>2 DEF Job
    <3>4. u.stat \in Yield(e.frames[1].node, g)
      BY <2>1, <3>2, <3>3, RedirYields, TreeFacts DEF Leads
    <3>5. Root(u) = Root(e) /\ Nested(u)
      BY <3>1 DEF Root, Nested, Job
    <3>6. Job(u, g)
      BY <2>1, <2>2, <3>1, <3>4, <3>5
      DEF Job, Ready, Working, Between, Inside, Here, Piping
    <3>7. /\ Root(e) \in Node /\ Kind[Root(e)] \in RedirKind
          /\ Left[Root(e)] \in Node /\ Under(n, Left[Root(e)])
      BY <1>d, <2>1, <2>2, BetweenUnder
    <3>8. u.stat \in Yield(Left[Root(e)], g)
      BY <2>1, <3>2, <3>7, UnderYields
    <3> QED
      BY <3>1, <3>2, <3>5, <3>6, <3>7, <3>8 DEF Goes
  <2>3. CASE e.frames = <<>> /\ p = Shell
    <3>1. u.pc = "prompt" /\ u.g_exit_code = e.stat
      BY <1>d, <1>3, <2>3 DEF Return
    <3> QED
      BY <2>1, <2>3, <3>1 DEF Goes, Root
  <2>4. CASE e.frames = <<>> /\ p # Shell
    <3>1. u.pc = "zombie" /\ u.stat = e.stat
      BY <1>d, <1>3, <2>4 DEF Return, Exit
    <3> QED
      BY <2>1, <2>4, <3>1 DEF Goes, Root
  <2> QED
    BY <2>2, <2>3, <2>4
<1> QED
  BY <1>1, <1>2, <1>3

\* Pipelines: what the process that makes one does.
LEMMA PipeGoes ==
  ASSUME TypeOK, TypeOK', NEW g \in Status, NEW p \in Pid, Job(proc[p], g),
         \/ ForkLeft(p) \/ ForkRight(p) \/ CloseEnds(p)
         \/ WaitLeft(p) \/ WaitRight(p),
         RightSide(p), Tame(proc[p]), \A c \in Awaited(p) : c # p
  PROVE  Goes(p, g)
<1> DEFINE e == proc[p]
           u == proc'[p]
           n == e.cur
<1>d. /\ DOMAIN proc = Pid
      /\ DOMAIN e =
           {"pc", "cur", "frames", "fd", "disp", "pending", "stat",
            "g_exit_code", "pid1", "pid2", "pipefd", "parent", "todo"}
      /\ e \in Process
  BY DEF TypeOK, Process
<1>p. /\ e.pc \in Piping /\ e.pc \in Between /\ e.g_exit_code = g
      /\ n \in Node /\ Kind[n] = "PIPE" /\ Left[n] \in Node /\ Right[n] \in Node
  <2>1. e.pc \in Piping
    BY DEF ForkLeft, ForkRight, CloseEnds, WaitLeft, WaitRight, At, Piping
  <2> QED
    BY <2>1 DEF Job, Ready, Between, Piping
<1>y. 1 \in Yield(n, g) /\ Yield(Right[n], g) \subseteq Yield(n, g)
  BY <1>p, PipeYields, TreeFacts
<1>1. ASSUME u.pc = "return", u.stat \in Yield(n, g), u.cur = e.cur,
             u.frames = e.frames, u.g_exit_code = e.g_exit_code
      PROVE  Goes(p, g)
  BY <1>1, <1>p, JobReturns DEF Goes
<1>2. ASSUME u.pc \in Piping, u.cur = e.cur, u.frames = e.frames,
             u.g_exit_code = e.g_exit_code
      PROVE  Goes(p, g)
  <2>1. Ready(u, g)
    BY <1>2, <1>p DEF Ready, Here, Piping
  <2>2. Job(u, g) /\ Root(u) = Root(e)
    BY <1>2, <1>p, <2>1, JobStays DEF Between
  <2> QED
    BY <1>2, <2>2 DEF Goes
<1>f. ASSUME FreePid # {} PROVE NewPid # p
  BY <1>f, <1>p, NewPidFree DEF Piping
<1>3. CASE ForkLeft(p)
  <2>1. CASE proc' = [proc EXCEPT ![p].pc = "return", ![p].stat = 1,
                                  ![p].fd = PipeClosed(p)]
    BY <1>1, <1>d, <1>y, <2>1
  <2>2. ASSUME NEW c, c # p,
               proc' = [proc EXCEPT ![c] = Fork(p, "left_child"),
                                    ![p].pc = "fork_right", ![p].pid1 = c]
        PROVE  Goes(p, g)
    BY <1>2, <1>d, <2>2 DEF Piping
  <2> QED
    BY <1>3, <1>f, <2>1, <2>2 DEF ForkLeft
<1>4. CASE ForkRight(p)
  <2>1. CASE proc' = [proc EXCEPT ![p].pc = "wait_only_left",
                                  ![p].fd = PipeClosed(p)]
    BY <1>2, <1>d, <2>1 DEF Piping
  <2>2. ASSUME NEW c, c # p,
               proc' = [proc EXCEPT ![c] = Fork(p, "right_child"),
                                    ![p].pc = "close_ends", ![p].pid2 = c]
        PROVE  Goes(p, g)
    BY <1>2, <1>d, <2>2 DEF Piping
  <2> QED
    BY <1>4, <1>f, <2>1, <2>2 DEF ForkRight
<1>5. CASE CloseEnds(p)
  BY <1>2, <1>d, <1>5 DEF CloseEnds, Piping
<1>6. CASE WaitLeft(p)
  <2>1. e.pid1 # p
    BY <1>6 DEF WaitLeft, At, Awaited
  <2>2. ASSUME NEW c, c # p,
               proc' = [proc EXCEPT ![c] = Unused, ![p].pc = "wait_right"]
        PROVE  Goes(p, g)
    BY <1>2, <1>d, <2>2 DEF Piping
  <2>3. ASSUME NEW c, c # p,
               proc' = [proc EXCEPT ![c] = Unused, ![p].pc = "return",
                                    ![p].stat = 1]
        PROVE  Goes(p, g)
    BY <1>1, <1>d, <1>y, <2>3
  <2> QED
    BY <1>6, <2>1, <2>2, <2>3 DEF WaitLeft
<1>7. CASE WaitRight(p)
  <2>1. ASSUME NEW c, c = e.pid2, c # p, proc[c].pc \in Ended,
               proc' = [proc EXCEPT ![c] = Unused, ![p].pc = "return",
                                    ![p].stat = proc[c].stat]
        PROVE  Goes(p, g)
    <3>1. RightJob(proc[c], n, g)
      BY <1>7, <1>p, <2>1 DEF RightSide, WaitRight, At
    <3>2. proc[c].stat \in Yield(Right[n], g)
      BY <2>1, <3>1, Places DEF RightJob, Ended, Gones, Job
    <3> QED
      BY <1>1, <1>d, <1>y, <2>1, <3>2
  <2>2. e.pid2 # p
    BY <1>7 DEF WaitRight, At, Awaited
  <2> QED
    BY <1>7, <2>1, <2>2 DEF WaitRight
<1> QED
  BY <1>3, <1>4, <1>5, <1>6, <1>7

LEMMA JobSame ==
  ASSUME NEW g, NEW e, NEW u, Job(e, g), u.pc = e.pc, u.cur = e.cur,
         u.frames = e.frames, u.stat = e.stat, u.g_exit_code = e.g_exit_code
  PROVE  Job(u, g) /\ Root(u) = Root(e)
  BY DEF Job, Root, Nested, Ready

\* Whatever the step: no signal ends the job of a tame process.
LEMMA JobStep ==
  ASSUME TypeOK, TypeOK', NEW g \in Status, NEW p \in Pid, Job(proc[p], g),
         RightSide(p), ProgramSide(p), Tame(proc[p]),
         \A c \in Awaited(p) : c # p, Step(p)
  PROVE  Goes(p, g)
<1> DEFINE e == proc[p]
           u == proc'[p]
<1>d. /\ DOMAIN proc = Pid
      /\ DOMAIN e =
           {"pc", "cur", "frames", "fd", "disp", "pending", "stat",
            "g_exit_code", "pid1", "pid2", "pipefd", "parent", "todo"}
  BY DEF TypeOK, Process
<1>t. e.disp # "default" /\ e.fd[1].end # "w" /\ e.pc \in Working
  BY DEF Tame, Clean, Job
<1>1. CASE Deliver(p)
  <2>1. proc' = [proc EXCEPT ![p].pending = "no"]
    BY <1>1, <1>t DEF Deliver, Broken, Out
  <2>2. /\ u.pc = e.pc /\ u.cur = e.cur /\ u.frames = e.frames
        /\ u.stat = e.stat /\ u.g_exit_code = e.g_exit_code
    BY <1>d, <2>1
  <2> QED
    BY <2>2, JobSame DEF Goes
<1>2. ~SigPipe(p)
  BY <1>t DEF SigPipe, Broken, Out
<1>3. /\ ~ResetSignals(p) /\ ~StartProgram(p) /\ ~ProgramRead(p)
      /\ ~ProgramProduce(p) /\ ~ProgramWrite(p)
      /\ ~LeftChild(p) /\ ~RightChild(p)
  BY <1>t, Places
  DEF ResetSignals, StartProgram, ProgramRead, ProgramProduce, ProgramWrite,
      LeftChild, RightChild, AtNode, AtCommand, At, Programs
<1>4. CASE ForkExternal(p) \/ IgnoreSignals(p) \/ WaitExternal(p)
  BY <1>4, ExternalGoes DEF Tame
<1>5. CASE \/ ExecTrivial(p) \/ ExecWord(p) \/ SaveFds(p) \/ ExecPipe(p)
           \/ RedirectFile(p) \/ HereDocument(p) \/ HerePrompt(p)
           \/ HereLine(p) \/ HereWrite(p) \/ HereEnd(p)
           \/ QuietBuiltin(p) \/ Echo(p) \/ ExitBuiltin(p)
           \/ Word(p) \/ RestoreFds(p) \/ Return(p)
           \/ ForkLeft(p) \/ ForkRight(p) \/ CloseEnds(p)
           \/ WaitLeft(p) \/ WaitRight(p)
  BY <1>5, ExecGoes, RedirectGoes, CommandGoes, ReturnGoes, PipeGoes
<1> QED
  BY <1>1, <1>2, <1>3, <1>4, <1>5 DEF Step

-----------------------------------------------------------------------------
(* What a step leaves of the others.                                       *)

\* Nothing the invariant looks at is different.
Alike(e, u) ==
  /\ u.pc = e.pc /\ u.cur = e.cur /\ u.frames = e.frames /\ u.fd = e.fd
  /\ u.disp = e.disp /\ u.stat = e.stat /\ u.g_exit_code = e.g_exit_code
  /\ u.pid1 = e.pid1 /\ u.pid2 = e.pid2

LEMMA CleanSame ==
  ASSUME NEW e, NEW u, u.fd = e.fd, u.frames = e.frames
  PROVE  Clean(u) <=> Clean(e)
  BY DEF Clean, Copy

LEMMA AlikeJobs ==
  ASSUME NEW e, NEW u, Alike(e, u)
  PROVE  /\ Tame(u) <=> Tame(e)
         /\ \A g : Job(e, g) => Job(u, g)
         /\ \A n, g : RightJob(e, n, g) => RightJob(u, n, g)
         /\ \A n : ProgramJob(e, n) => ProgramJob(u, n)
<1>1. (Tame(u) <=> Tame(e)) /\ (Clean(u) <=> Clean(e))
  BY CleanSame DEF Alike, Tame
<1>2. \A g : Job(e, g) => Job(u, g) /\ Root(u) = Root(e)
  BY JobSame DEF Alike
<1>3. ASSUME NEW n, NEW g, RightJob(e, n, g)
      PROVE  RightJob(u, n, g)
  BY <1>1, <1>2, <1>3 DEF Alike, RightJob
<1>4. ASSUME NEW n, ProgramJob(e, n)
      PROVE  ProgramJob(u, n)
  BY <1>1, <1>4 DEF Alike, ProgramJob
<1> QED
  BY <1>1, <1>2, <1>3, <1>4

\* A tame process stays tame but where it becomes the left side of a pipeline
\* or a program.
LEMMA TameStays ==
  ASSUME NEW e \in Process, NEW u \in Process, Tame(e),
         Shape(e), Upstream(e), Keeps(e, u), Moves(e, u),
         e.pc \notin Programs \cup {"left_child"}
  PROVE  Tame(u)
<1>1. Clean(u)
  BY MovesInv DEF Tame
<1>2. u.disp # "default"
  BY DEF Keeps, Tame
<1> QED
  BY <1>1, <1>2 DEF Tame

LEMMA TameStep ==
  ASSUME TypeOK, TypeOK', DescInv, NEW p \in Pid, Effect(p), Tame(proc[p]),
         proc[p].pc \notin Programs \cup {"left_child"},
         proc'[p].pc \notin Gones
  PROVE  Tame(proc'[p])
<1> DEFINE e == proc[p]
           u == proc'[p]
<1>1. e \in Process /\ u \in Process /\ Shape(e) /\ Upstream(e)
  BY DEF TypeOK, Effect, DescInv, EntryInv
<1>2. Keeps(e, u) /\ Moves(e, u)
  BY DEF Effect, Leaves, Gones, Moves
<1> QED
  BY <1>1, <1>2, TameStays

\* The others stay as they are, are freed or begin.
LEMMA OthersStep ==
  ASSUME TypeOK, DescInv, NEW p \in Pid, NEW q \in Pid, q # p, Effect(p)
  PROVE  \/ Alike(proc[q], proc'[q])
         \/ /\ proc[q].pc = "unused" \/ q \in Awaited(p)
            /\ proc'[q].pc \in Forked \cup {"unused"}
<1>1. \/ proc'[q] = proc[q]
      \/ proc'[q] = [proc[q] EXCEPT !.parent = Reaper]
      \/ /\ proc[q].pc = "unused" \/ q \in Awaited(p)
         /\ proc'[q].pc \in Forked \cup {"unused"}
  BY DEF Effect, Unused
<1>2. ASSUME proc'[q] = [proc[q] EXCEPT !.parent = Reaper]
      PROVE  Alike(proc[q], proc'[q])
  BY <1>2 DEF TypeOK, Process, Alike
<1> QED
  BY <1>1, <1>2 DEF Alike

\* Whom another process waits for stays as it is.
LEMMA AwaitedStay ==
  ASSUME TypeOK, DescInv, NEW p \in Pid, NEW q \in Pid, q # p, Effect(p),
         NEW c \in Awaited(q), c # p
  PROVE  Alike(proc[c], proc'[c])
<1>1. c \in Pid /\ proc[c].pc # "unused" /\ c \notin Awaited(p)
  BY AwaitedPids DEF DescInv, Links
<1> QED
  BY <1>1, OthersStep

LEMMA AwaitedSelf ==
  ASSUME DescInv, ReapInv, NEW p \in Pid
  PROVE  \A c \in Awaited(p) : c # p
  BY DEF DescInv, Links, ReapInv

\* The steps that lead to where it waits.
LEMMA Waiting ==
  ASSUME TypeOK, NEW p \in Pid, Step(p),
         proc'[p].pc \in {"close_ends", "wait_left", "wait_right",
                          "ignore_signals", "wait_external"}
  PROVE  \/ ForkRight(p) \/ CloseEnds(p) \/ WaitLeft(p)
         \/ ForkExternal(p) \/ IgnoreSignals(p) \/ Deliver(p)
<1> DEFINE W == {"close_ends", "wait_left", "wait_right", "ignore_signals",
                 "wait_external"}
           u == proc'[p]
<1>d. /\ DOMAIN proc = Pid
      /\ DOMAIN proc[p] =
           {"pc", "cur", "frames", "fd", "disp", "pending", "stat",
            "g_exit_code", "pid1", "pid2", "pipefd", "parent", "todo"}
      /\ proc[p].pid1 \in Pid /\ proc[p].pid2 \in Pid
  BY DEF TypeOK, Process
<1>g. ASSUME NEW l, NEW s, Goto(p, l, s), l \notin W
      PROVE  FALSE
  BY <1>d, <1>g DEF Goto
<1>x. ASSUME NEW s, Exit(p, s) \/ Die(p, s)
      PROVE  FALSE
  <2>1. CASE Exit(p, s)
    BY <1>d, <1>x, <2>1 DEF Exit
  <2>2. CASE Die(p, s)
    <3>1. u = [proc[p] EXCEPT !.pc = "killed", !.stat = s, !.fd = AllClosed,
                              !.pending = "no"]
      BY <2>2 DEF Die
    <3>2. u.pc = "killed"
      BY <1>d, <3>1
    <3> QED
      BY <1>x, <3>2
  <2> QED
    BY <1>x, <2>1, <2>2
<1>r. ASSUME NEW f, RedirectedCommand(p, f)
      PROVE  FALSE
  BY <1>d, <1>r DEF RedirectedCommand
<1>1. ~ExecTrivial(p) /\ ~ExecWord(p)
  BY <1>g DEF ExecTrivial, ExecWord
<1>2. ~Word(p) /\ ~ResetSignals(p) /\ ~ProgramWrite(p)
  BY <1>d DEF Word, ResetSignals, ProgramWrite
<1>3. ~HerePrompt(p) /\ ~HereLine(p) /\ ~HereWrite(p)
  BY <1>d DEF HerePrompt, HereLine, HereWrite
<1>4. ~HereEnd(p) /\ ~RedirectFile(p)
  BY <1>g, <1>r DEF HereEnd, RedirectFile
<1>5. ~HereDocument(p)
  BY <1>d, <1>g DEF HereDocument
<1>6. ~SaveFds(p)
  BY <1>d, <1>g DEF SaveFds
<1>7. ~RestoreFds(p)
  <2> SUFFICES ASSUME RestoreFds(p) PROVE FALSE
    OBVIOUS
  <2>1. PICK c, fr, f : proc' = [proc EXCEPT ![p].pc = "return", ![p].cur = c,
                                             ![p].frames = fr, ![p].fd = f]
    BY Zenon DEF RestoreFds
  <2> QED
    BY <1>d, <2>1
<1>8. ~Return(p)
  BY <1>d, <1>x DEF Return
<1>9. ~QuietBuiltin(p) /\ ~Echo(p)
  BY <1>g DEF QuietBuiltin, Echo
<1>10. ~ExitBuiltin(p) /\ ~SigPipe(p)
  BY <1>x DEF ExitBuiltin, SigPipe
<1>11. ~WaitExternal(p)
  BY <1>d DEF WaitExternal, At, Ended
<1>12. ~StartProgram(p)
  BY <1>d, <1>x DEF StartProgram
<1>13. ~ProgramRead(p)
  BY <1>d, <1>x DEF ProgramRead, Consume, ProgramExit
<1>14. ~ProgramProduce(p)
  BY <1>d, <1>x DEF ProgramProduce, ProgramExit
<1>15. ~ExecPipe(p)
  BY <1>d, <1>g DEF ExecPipe
<1>16. ~ForkLeft(p)
  <2>1. ASSUME NEW c, proc' = [proc EXCEPT ![c] = Fork(p, "left_child"),
                                           ![p].pc = "fork_right", ![p].pid1 = c]
        PROVE  FALSE
    BY <1>d, <2>1 DEF Fork
  <2> QED
    BY <1>d, <2>1 DEF ForkLeft
<1>17. ~LeftChild(p) /\ ~RightChild(p)
  BY <1>d DEF LeftChild, RightChild
<1>18. ~WaitRight(p)
  BY <1>d DEF WaitRight, At, Ended
<1> QED
  BY <1>1, <1>2, <1>3, <1>4, <1>5, <1>6, <1>7, <1>8, <1>9, <1>10, <1>11,
     <1>12, <1>13, <1>14, <1>15, <1>16, <1>17, <1>18 DEF Step

-----------------------------------------------------------------------------
(* The sides of a pipeline, and programs.                                  *)

\* A step of a right side.
LEMMA RightMoves ==
  ASSUME TypeOK, TypeOK', DescInv, ReapInv, StatusInv,
         NEW p \in Pid, p # Shell,
         Step(p), NEW n \in Node, Right[n] \in Node, NEW g \in Status,
         RightJob(proc[p], n, g)
  PROVE  RightJob(proc'[p], n, g)
<1> DEFINE e == proc[p]
           u == proc'[p]
<1>d. /\ DOMAIN proc = Pid
      /\ DOMAIN e =
           {"pc", "cur", "frames", "fd", "disp", "pending", "stat",
            "g_exit_code", "pid1", "pid2", "pipefd", "parent", "todo"}
  BY DEF TypeOK, Process
<1>e. Effect(p) /\ e.pc \notin Gones
  BY StepEffect DEF DescInv, Effect
<1>a. \A c \in Awaited(p) : c # p
  BY AwaitedSelf
<1>1. CASE e.pc = "right_child" /\ e.cur = n /\ e.g_exit_code = g /\ Tame(e)
  <2>1. RightChild(p) \/ Deliver(p)
    BY <1>1 DEF Step, ExecTrivial, ExecWord, Word, SaveFds, RestoreFds, Return,
       RedirectFile, HereDocument, HerePrompt, HereLine, HereWrite, HereEnd,
       QuietBuiltin, Echo, ExitBuiltin, ForkExternal, IgnoreSignals,
       WaitExternal, ResetSignals, StartProgram, ProgramRead, ProgramProduce,
       ProgramWrite, SigPipe, ExecPipe, ForkLeft, ForkRight, LeftChild,
       CloseEnds, WaitLeft, WaitRight, AtNode, AtCommand, At
  <2>2. CASE RightChild(p)
    <3>1. /\ u.pc = "exec" /\ u.cur = Right[n] /\ u.frames = <<>>
          /\ u.g_exit_code = g
      BY <1>d, <1>1, <2>2 DEF RightChild
    <3>2. Job(u, g) /\ Root(u) = Right[n]
      BY <3>1 DEF Job, Ready, Nested, Root, Working, Between, Inside, Piping, Here
    <3>3. Tame(u)
      BY <1>1, <1>e, <3>1, TameStep DEF Programs, Gones
    <3> QED
      BY <3>2, <3>3 DEF RightJob
  <2>3. CASE Deliver(p)
    <3>1. proc' = [proc EXCEPT ![p].pending = "no"]
      BY <1>1, <2>3 DEF Deliver, Broken, Out, Tame, Clean
    <3>2. Alike(e, u)
      BY <1>d, <3>1 DEF Alike
    <3> QED
      BY <3>2, AlikeJobs
  <2> QED
    BY <2>1, <2>2, <2>3
<1>2. CASE Job(e, g) /\ Root(e) = Right[n] /\ Tame(e)
  <2>1. Goes(p, g)
    BY <1>2, <1>a, JobStep DEF StatusInv
  <2>2. CASE Job(u, g) /\ Root(u) = Right[n]
    <3>1. e.pc \in Working /\ u.pc \in Working
      BY <1>2, <2>2 DEF Job
    <3>2. e.pc \notin Programs \cup {"left_child"} /\ u.pc \notin Gones
      BY <3>1, Places
    <3>3. Tame(u)
      BY <1>2, <1>e, <3>2, TameStep
    <3> QED
      BY <2>2, <3>3 DEF RightJob
  <2> QED
    BY <1>2, <2>1, <2>2 DEF Goes, RightJob
<1>3. e.pc # "zombie"
  BY <1>e DEF Gones
<1> QED
  BY <1>1, <1>2, <1>3 DEF RightJob

\* A step of a program.
LEMMA ProgramMoves ==
  ASSUME TypeOK, TypeOK', DescInv, NEW p \in Pid, Step(p),
         NEW n \in Node, Cmd[n] \in External, ProgramJob(proc[p], n)
  PROVE  ProgramJob(proc'[p], n)
<1> DEFINE e == proc[p]
           u == proc'[p]
<1>d. /\ DOMAIN proc = Pid
      /\ DOMAIN e =
           {"pc", "cur", "frames", "fd", "disp", "pending", "stat",
            "g_exit_code", "pid1", "pid2", "pipefd", "parent", "todo"}
      /\ e.pending \in {"no", "int", "quit"}
  BY DEF TypeOK, Process
<1>e. Effect(p) /\ e.pc \notin Gones
  BY StepEffect DEF DescInv, Effect
<1>p. e.pc \in Programs /\ e.cur = n /\ Clean(e) /\ e.fd[1].end # "w"
  BY <1>e DEF ProgramJob, Ended, Gones, Clean
<1>c. Cmd[n] \in Command
  BY TreeAssumption
<1>x. ASSUME NEW s \in Promise!CommandOutcomes(Cmd[n], 0), Exit(p, s) \/ Die(p, s)
      PROVE  ProgramJob(u, n)
  <2>1. CASE Exit(p, s)
    BY <1>d, <1>x, <2>1 DEF Exit, ProgramJob, Ended
  <2>2. CASE Die(p, s)
    <3>1. u = [e EXCEPT !.pc = "killed", !.stat = s, !.fd = AllClosed,
                        !.pending = "no"]
      BY <2>2 DEF Die
    <3>2. u.pc = "killed" /\ u.stat = s
      BY <1>d, <3>1
    <3> QED
      BY <1>x, <3>2 DEF ProgramJob, Ended
  <2> QED
    BY <1>x, <2>1, <2>2
<1>g. ASSUME u.pc \in Programs, u.cur = e.cur, u.fd = e.fd, u.frames = e.frames
      PROVE  ProgramJob(u, n)
  BY <1>g, <1>p, CleanSame DEF ProgramJob
<1>1. \/ ResetSignals(p) \/ StartProgram(p) \/ ProgramRead(p)
      \/ ProgramProduce(p) \/ ProgramWrite(p) \/ SigPipe(p) \/ Deliver(p)
  BY <1>p DEF Programs, Step, ExecTrivial, ExecWord, Word, SaveFds, RestoreFds,
     Return, RedirectFile, HereDocument, HerePrompt, HereLine, HereWrite,
     HereEnd, QuietBuiltin, Echo, ExitBuiltin, ForkExternal, IgnoreSignals,
     WaitExternal, ExecPipe, ForkLeft, ForkRight, LeftChild, RightChild,
     CloseEnds, WaitLeft, WaitRight, AtNode, AtCommand, At
<1>2. CASE ResetSignals(p)
  BY <1>d, <1>g, <1>2 DEF ResetSignals, Programs
<1>3. CASE StartProgram(p)
  <2>1. CASE Cmd[n] = "missing" /\ Exit(p, 127)
    BY <1>c, <1>x, <2>1, CommandYields
  <2>2. CASE Cmd[n] = "noexec" /\ \E s \in {126, 1} : Exit(p, s)
    BY <1>c, <1>x, <2>2, CommandYields
  <2>3. CASE proc' = [proc EXCEPT ![p].pc = "program", ![p].todo = Work]
    BY <1>d, <1>g, <2>3 DEF Programs
  <2> QED
    BY <1>3, <1>p, <2>1, <2>2, <2>3 DEF StartProgram
<1>4. ASSUME Cmd[n] \in Program, ProgramExit(p)
      PROVE  ProgramJob(u, n)
  BY <1>c, <1>4, <1>x, CommandYields DEF ProgramExit
<1>5. CASE ProgramRead(p)
  <2>1. Consume(p) \/ ProgramExit(p)
    BY <1>5 DEF ProgramRead
  <2>2. Cmd[n] \in Program
    BY <1>5, <1>p DEF ProgramRead, AtCommand, Program
  <2>3. CASE proc' = [proc EXCEPT ![p].pc = "program_write",
                                  ![p].todo = IF @ > 0 THEN @ - 1 ELSE 0]
    BY <1>d, <1>g, <2>3 DEF Programs
  <2> QED
    BY <1>4, <2>1, <2>2, <2>3 DEF Consume
<1>6. CASE ProgramProduce(p)
  <2>1. Cmd[n] \in Program
    BY <1>6, <1>p DEF ProgramProduce, AtCommand, Program
  <2>2. CASE proc' = [proc EXCEPT ![p].pc = "program_write", ![p].todo = @ - 1]
    BY <1>d, <1>g, <2>2 DEF Programs
  <2> QED
    BY <1>4, <1>6, <2>1, <2>2 DEF ProgramProduce
<1>7. CASE ProgramWrite(p)
  BY <1>d, <1>g, <1>7 DEF ProgramWrite, Programs
<1>8. ~SigPipe(p)
  BY <1>p DEF SigPipe, Broken, Out
<1>9. CASE Deliver(p)
  <2>1. {130, 131} \subseteq Promise!CommandOutcomes(Cmd[n], 0)
    BY <1>c, CommandYields DEF External
  <2>2. CASE Die(p, IF e.pending = "int" THEN 130 ELSE 131)
    BY <1>x, <2>1, <2>2
  <2>3. CASE proc' = [proc EXCEPT ![p].pending = "no"]
    BY <1>d, <1>g, <1>p, <2>3
  <2> QED
    BY <1>9, <1>p, <2>2, <2>3 DEF Deliver, Broken, Out
<1> QED
  BY <1>1, <1>2, <1>3, <1>5, <1>6, <1>7, <1>8, <1>9

\* Whom the process that steps waits for.
LEMMA SidesOwn ==
  ASSUME TypeOK, TypeOK', DescInv, ReapInv, NEW p \in Pid, Step(p),
         RightSide(p), ProgramSide(p)
  PROVE  RightSide(p)' /\ ProgramSide(p)'
<1> DEFINE e == proc[p]
           u == proc'[p]
           n == u.cur
<1>d. /\ DOMAIN proc = Pid
      /\ DOMAIN e =
           {"pc", "cur", "frames", "fd", "disp", "pending", "stat",
            "g_exit_code", "pid1", "pid2", "pipefd", "parent", "todo"}
      /\ e \in Process /\ u \in Process
      /\ e.pid1 \in Pid /\ e.pid2 \in Pid
  BY DEF TypeOK, Process
<1>a. \A c \in Awaited(p) : c # p
  BY AwaitedSelf
<1>r. e.pc \in {"close_ends", "wait_left", "wait_right"} => e.pid2 # p
  BY <1>a DEF Awaited
<1>l. e.pc \in {"close_ends", "wait_left"} => e.pid1 # e.pid2
  BY DEF DescInv, Links
<1>x. e.pc \in {"ignore_signals", "wait_external"} => e.pid1 # p
  BY <1>a DEF Awaited
<1>f. FreePid # {} => NewPid \in Pid /\ proc[NewPid].pc = "unused"
  BY NewPidFree
<1>g. ASSUME NEW s, Goto(p, "restore", s)
      PROVE  u.pc = "restore"
  BY <1>d, <1>g DEF Goto
<1>k. ASSUME NEW s, Die(p, s)
      PROVE  u.pc = "killed"
  <2>1. u = [e EXCEPT !.pc = "killed", !.stat = s, !.fd = AllClosed,
                      !.pending = "no"]
    BY <1>k DEF Die
  <2> QED
    BY <1>d, <2>1
<1>s. ASSUME Deliver(p), u.pc # "killed"
      PROVE  Alike(e, u) /\ \A q \in Pid \ {p} : proc'[q] = proc[q]
  <2>1. proc' = [proc EXCEPT ![p].pending = "no"]
    BY <1>k, <1>s DEF Deliver
  <2> QED
    BY <1>d, <2>1 DEF Alike
<1>1. ASSUME u.pc \in {"close_ends", "wait_left", "wait_right"}, Tame(u),
             n \in Node, Right[n] \in Node
      PROVE  RightJob(proc'[u.pid2], n, u.g_exit_code)
  <2>1. \/ ForkRight(p) \/ CloseEnds(p) \/ WaitLeft(p)
        \/ ForkExternal(p) \/ IgnoreSignals(p) \/ Deliver(p)
    BY <1>1, Waiting
  <2>2. CASE ForkRight(p)
    <3>1. ASSUME NEW c, c # p, c \in Pid,
                 proc' = [proc EXCEPT ![c] = Fork(p, "right_child"),
                                      ![p].pc = "close_ends", ![p].pid2 = c]
          PROVE  RightJob(proc'[u.pid2], n, u.g_exit_code)
      <4>1. /\ u.pid2 = c /\ u.cur = e.cur /\ u.g_exit_code = e.g_exit_code
            /\ u.fd = e.fd /\ u.frames = e.frames /\ u.disp = e.disp
            /\ proc'[c] = Fork(p, "right_child")
        BY <1>d, <3>1
      <4> DEFINE k == proc'[c]
      <4>2. /\ k.pc = "right_child" /\ k.cur = e.cur
            /\ k.g_exit_code = e.g_exit_code
            /\ k.fd = e.fd /\ k.frames = e.frames /\ k.disp = e.disp
        BY <1>d, <4>1 DEF Fork
      <4>3. Tame(k)
        BY <1>1, <4>1, <4>2, CleanSame DEF Tame
      <4> QED
        BY <4>1, <4>2, <4>3 DEF RightJob
    <3>2. ASSUME proc' = [proc EXCEPT ![p].pc = "wait_only_left",
                                      ![p].fd = PipeClosed(p)]
          PROVE  FALSE
      BY <1>1, <1>d, <3>2
    <3>3. FreePid # {} => NewPid # p
      BY <1>f, <2>2 DEF ForkRight, At
    <3> QED
      BY <1>f, <2>2, <3>1, <3>2, <3>3 DEF ForkRight
  <2>3. CASE CloseEnds(p)
    <3>1. /\ e.pc = "close_ends" /\ u.cur = e.cur /\ u.frames = e.frames
          /\ u.disp = e.disp /\ u.g_exit_code = e.g_exit_code
          /\ u.pid2 = e.pid2 /\ u.fd = PipeClosed(p)
          /\ \A q \in Pid \ {p} : proc'[q] = proc[q]
      BY <1>d, <2>3 DEF CloseEnds, At
    <3>2. \A f \in Fd : u.fd[f].end \in {"tty", "file"} => u.fd[f] = e.fd[f]
      <4>1. \A f \in Fd : u.fd[f] \in {e.fd[f], Closed}
        BY <1>d, <3>1, EntryTypes DEF PipeClosed
      <4> QED
        BY <4>1, Objects
    <3>3. Clean(e)
      <4>1. e.fd[1].end \in {"tty", "file"}
        BY <1>1, <3>2, StdFds DEF Tame, Clean
      <4>2. \A k \in DOMAIN e.frames : Copy(u, k, 2) = Copy(e, k, 2)
        BY <3>1 DEF Copy
      <4>3. \A k \in DOMAIN e.frames : Copy(e, k, 2) \in Fd
        BY <1>d, EntryTypes DEF Std
      <4> QED
        BY <1>1, <3>1, <3>2, <4>1, <4>2, <4>3 DEF Tame, Clean
    <3>4. RightJob(proc[e.pid2], e.cur, e.g_exit_code)
      BY <1>1, <3>1, <3>3 DEF RightSide, Tame
    <3> QED
      BY <1>d, <1>r, <3>1, <3>4
  <2>4. CASE WaitLeft(p)
    <3>1. /\ e.pc = "wait_left"
          /\ proc' = [proc EXCEPT ![e.pid1] = Unused, ![p].pc = "wait_right"]
      <4>1. ASSUME NEW c, proc' = [proc EXCEPT ![c] = Unused,
                                     ![p].pc = "return", ![p].stat = 1]
            PROVE  FALSE
        <5>1. u.pc \in {"return", "unused"}
          BY <1>d, <4>1 DEF Unused
        <5> QED
          BY <1>1, <5>1
      <4> QED
        BY <2>4, <4>1 DEF WaitLeft, At
    <3>2. e.pid1 # p
      BY <1>a, <3>1 DEF Awaited
    <3>3. /\ u.cur = e.cur /\ u.frames = e.frames /\ u.fd = e.fd
          /\ u.disp = e.disp /\ u.g_exit_code = e.g_exit_code
          /\ u.pid2 = e.pid2
          /\ \A q \in Pid \ {p, e.pid1} : proc'[q] = proc[q]
      BY <1>d, <3>1, <3>2
    <3>4. RightJob(proc[e.pid2], e.cur, e.g_exit_code)
      BY <1>1, <3>1, <3>3, CleanSame DEF RightSide, Tame
    <3> QED
      BY <1>d, <1>l, <1>r, <3>1, <3>3, <3>4
  <2>5. ~ForkExternal(p)
    <3>1. ASSUME NEW c, proc' = [proc EXCEPT ![c] = Fork(p, "external_child"),
                                   ![p].pc = "ignore_signals", ![p].pid1 = c]
          PROVE  FALSE
      <4>1. u.pc = "ignore_signals"
        BY <1>d, <3>1 DEF Fork
      <4> QED
        BY <1>1, <4>1
    <3> QED
      BY <1>1, <1>g, <3>1 DEF ForkExternal
  <2>6. ~IgnoreSignals(p)
    BY <1>1, <1>d DEF IgnoreSignals
  <2>7. CASE Deliver(p)
    <3>1. Alike(e, u) /\ \A q \in Pid \ {p} : proc'[q] = proc[q]
      BY <1>1, <1>s, <2>7
    <3>2. Tame(e)
      BY <1>1, <3>1, AlikeJobs
    <3>3. RightJob(proc[e.pid2], e.cur, e.g_exit_code)
      BY <1>1, <3>1, <3>2 DEF RightSide, Alike
    <3> QED
      BY <1>1, <1>d, <1>r, <3>1, <3>3 DEF Alike
  <2> QED
    BY <2>1, <2>2, <2>3, <2>4, <2>5, <2>6, <2>7
<1>2. ASSUME u.pc \in {"ignore_signals", "wait_external"}, Clean(u),
             n \in Node, Cmd[n] \in External
      PROVE  ProgramJob(proc'[u.pid1], n)
  <2>1. \/ ForkRight(p) \/ CloseEnds(p) \/ WaitLeft(p)
        \/ ForkExternal(p) \/ IgnoreSignals(p) \/ Deliver(p)
    BY <1>2, Waiting
  <2>2. ~ForkRight(p)
    <3>1. ASSUME NEW c, proc' = [proc EXCEPT ![c] = Fork(p, "right_child"),
                                   ![p].pc = "close_ends", ![p].pid2 = c]
          PROVE  FALSE
      <4>1. u.pc = "close_ends"
        BY <1>d, <3>1 DEF Fork
      <4> QED
        BY <1>2, <4>1
    <3> QED
      BY <1>2, <1>d, <3>1 DEF ForkRight
  <2>3. ~CloseEnds(p)
    BY <1>2, <1>d DEF CloseEnds
  <2>4. ~WaitLeft(p)
    <3>1. ASSUME NEW c, \/ proc' = [proc EXCEPT ![c] = Unused,
                                      ![p].pc = "return", ![p].stat = 1]
                        \/ proc' = [proc EXCEPT ![c] = Unused,
                                      ![p].pc = "wait_right"]
          PROVE  FALSE
      <4>1. u.pc \in {"return", "unused", "wait_right"}
        BY <1>d, <3>1 DEF Unused
      <4> QED
        BY <1>2, <4>1
    <3> QED
      BY <3>1 DEF WaitLeft
  <2>5. CASE ForkExternal(p)
    <3>1. ASSUME NEW c, c # p, c \in Pid,
                 proc' = [proc EXCEPT ![c] = Fork(p, "external_child"),
                                      ![p].pc = "ignore_signals", ![p].pid1 = c]
          PROVE  ProgramJob(proc'[u.pid1], n)
      <4>1. /\ u.pid1 = c /\ u.cur = e.cur
            /\ u.fd = e.fd /\ u.frames = e.frames
            /\ proc'[c] = Fork(p, "external_child")
        BY <1>d, <3>1
      <4> DEFINE k == proc'[c]
      <4>2. /\ k.pc = "external_child" /\ k.cur = e.cur
            /\ k.fd = e.fd /\ k.frames = e.frames
        BY <1>d, <4>1 DEF Fork
      <4>3. Clean(k)
        BY <1>2, <4>1, <4>2, CleanSame
      <4> QED
        BY <4>1, <4>2, <4>3 DEF ProgramJob, Programs
    <3>2. FreePid # {} => NewPid # p
      BY <1>f, <2>5 DEF ForkExternal, AtCommand, At
    <3> QED
      BY <1>2, <1>f, <1>g, <2>5, <3>1, <3>2 DEF ForkExternal
  <2>6. CASE IgnoreSignals(p)
    <3>1. /\ e.pc = "ignore_signals" /\ u.cur = e.cur /\ u.frames = e.frames
          /\ u.fd = e.fd /\ u.pid1 = e.pid1
          /\ \A q \in Pid \ {p} : proc'[q] = proc[q]
      BY <1>d, <2>6 DEF IgnoreSignals, At
    <3>2. ProgramJob(proc[e.pid1], e.cur)
      BY <1>2, <3>1, CleanSame DEF ProgramSide
    <3> QED
      BY <1>d, <1>x, <3>1, <3>2
  <2>7. CASE Deliver(p)
    <3>1. Alike(e, u) /\ \A q \in Pid \ {p} : proc'[q] = proc[q]
      BY <1>2, <1>s, <2>7
    <3>2. ProgramJob(proc[e.pid1], e.cur)
      BY <1>2, <3>1, CleanSame DEF ProgramSide, Alike
    <3> QED
      BY <1>2, <1>d, <1>x, <3>1, <3>2 DEF Alike
  <2> QED
    BY <2>1, <2>2, <2>3, <2>4, <2>5, <2>6, <2>7
<1> QED
  BY <1>1, <1>2 DEF RightSide, ProgramSide

\* Whom another process waits for.
LEMMA SidesOther ==
  ASSUME TypeOK, TypeOK', DescInv, ReapInv, StatusInv, NEW p \in Pid, Step(p),
         NEW q \in Pid, q # p
  PROVE  RightSide(q)' /\ ProgramSide(q)'
<1> DEFINE e == proc[q]
           u == proc'[q]
           n == e.cur
<1>e. Effect(p)
  BY StepEffect DEF DescInv
<1>i. /\ RightSide(q) /\ ProgramSide(q) /\ Awaited(q) \subseteq Pid
      /\ e.g_exit_code \in Status
      /\ \A c \in Awaited(q) : proc[c].parent = q
      /\ proc[Shell].parent \notin Pid
  BY AwaitedPids, ExecutorAssumption
  DEF StatusInv, DescInv, Links, ShellInv, TypeOK, Process
<1>1. CASE u.pc \in Forked \cup {"unused"}
  BY <1>1 DEF RightSide, ProgramSide, Forked
<1>2. CASE Alike(e, u)
  <2>1. ASSUME u.pc \in {"close_ends", "wait_left", "wait_right"}, Tame(u),
               u.cur \in Node, Right[u.cur] \in Node
        PROVE  RightJob(proc'[u.pid2], u.cur, u.g_exit_code)
    <3> DEFINE c == e.pid2
    <3>1. c \in Awaited(q) /\ c = u.pid2 /\ u.cur = n /\ n \in Node
          /\ u.g_exit_code = e.g_exit_code /\ Right[n] \in Node
      BY <1>2, <2>1 DEF Alike, Awaited
    <3>2. RightJob(proc[c], n, e.g_exit_code)
      BY <1>2, <1>i, <2>1, <3>1, AlikeJobs DEF Alike, RightSide
    <3>3. RightJob(proc'[c], n, e.g_exit_code)
      <4>1. CASE c = p
        <5>1. p # Shell
          BY <1>i, <3>1, <4>1
        <5> QED
          BY <1>i, <3>1, <3>2, <4>1, <5>1, RightMoves
      <4>2. CASE c # p
        BY <1>e, <3>1, <3>2, <4>2, AwaitedStay, AlikeJobs
      <4> QED
        BY <4>1, <4>2
    <3> QED
      BY <3>1, <3>3
  <2>2. ASSUME u.pc \in {"ignore_signals", "wait_external"}, Clean(u),
               u.cur \in Node, Cmd[u.cur] \in External
        PROVE  ProgramJob(proc'[u.pid1], u.cur)
    <3> DEFINE c == e.pid1
    <3>1. c \in Awaited(q) /\ c = u.pid1 /\ u.cur = n /\ n \in Node
          /\ Cmd[n] \in External
      BY <1>2, <2>2 DEF Alike, Awaited
    <3>2. ProgramJob(proc[c], n)
      BY <1>2, <1>i, <2>2, <3>1, CleanSame DEF Alike, ProgramSide
    <3>3. ProgramJob(proc'[c], n)
      <4>1. CASE c = p
        BY <3>1, <3>2, <4>1, ProgramMoves
      <4>2. CASE c # p
        BY <1>e, <3>1, <3>2, <4>2, AwaitedStay, AlikeJobs
      <4> QED
        BY <4>1, <4>2
    <3> QED
      BY <3>1, <3>3
  <2> QED
    BY <2>1, <2>2 DEF RightSide, ProgramSide
<1> QED
  BY <1>1, <1>2, <1>e, OthersStep

-----------------------------------------------------------------------------
(* The shell itself.                                                       *)

LEMMA ShellTame ==
  ASSUME TypeOK, DescInv
  PROVE  /\ Shell \in Pid /\ proc[Shell].parent = Reaper /\ Reaper \notin Pid
         /\ proc[Shell].g_exit_code \in Status
         /\ proc[Shell].pc # "unused"
         /\ proc[Shell].pc # "zombie" => Tame(proc[Shell])
         /\ \A q \in Pid : Shell \notin Awaited(q)
<1>1. Shell \in Pid /\ Reaper \notin Pid
  BY ExecutorAssumption
<1>2. proc[Shell].g_exit_code \in Status
  BY <1>1 DEF TypeOK, Process
<1>3. /\ proc[Shell].parent = Reaper /\ proc[Shell].pc # "unused"
      /\ proc[Shell].pc # "zombie" => Tame(proc[Shell])
  BY DEF DescInv, ShellInv, Tame
<1>4. \A q \in Pid : Shell \notin Awaited(q)
  BY <1>1, <1>3 DEF DescInv, Links
<1> QED
  BY <1>1, <1>2, <1>3, <1>4

\* Another's step leaves the shell as it is.
LEMMA ShellRests ==
  ASSUME TypeOK, DescInv, NEW p \in Pid, p # Shell, Effect(p)
  PROVE  Alike(proc[Shell], proc'[Shell])
  BY OthersStep, ShellTame

\* At the prompt it only handles signals.
LEMMA PromptStep ==
  ASSUME TypeOK, DescInv, Step(Shell), proc[Shell].pc = "prompt"
  PROVE  Alike(proc[Shell], proc'[Shell])
<1>1. Deliver(Shell)
  BY DEF Step, ExecTrivial, ExecWord, Word, SaveFds, RestoreFds, Return,
     RedirectFile, HereDocument, HerePrompt, HereLine, HereWrite, HereEnd,
     QuietBuiltin, Echo, ExitBuiltin, ForkExternal, IgnoreSignals,
     WaitExternal, ResetSignals, StartProgram, ProgramRead, ProgramProduce,
     ProgramWrite, SigPipe, ExecPipe, ForkLeft, ForkRight, LeftChild,
     RightChild, CloseEnds, WaitLeft, WaitRight, AtNode, AtCommand, At
<1>2. proc[Shell].disp # "default" /\ ~Broken(Shell)
  BY ShellTame DEF Tame, Clean, Broken, Out
<1>3. proc' = [proc EXCEPT ![Shell].pending = "no"]
  BY <1>1, <1>2 DEF Deliver
<1>4. /\ DOMAIN proc = Pid /\ Shell \in Pid
      /\ DOMAIN proc[Shell] =
           {"pc", "cur", "frames", "fd", "disp", "pending", "stat",
            "g_exit_code", "pid1", "pid2", "pipefd", "parent", "todo"}
  BY ExecutorAssumption DEF TypeOK, Process
<1> QED
  BY <1>3, <1>4 DEF Alike

LEMMA ShellGoes ==
  ASSUME TypeOK, TypeOK', DescInv, ReapInv, StatusInv, Step(Shell),
         proc[Shell].pc # "prompt"
  PROVE  /\ proc[Shell].pc # "zombie"
         /\ Job(proc[Shell], proc[Shell].g_exit_code)
         /\ Goes(Shell, proc[Shell].g_exit_code)
<1>1. Shell \in Pid /\ proc[Shell].g_exit_code \in Status
  BY ShellTame
<1>2. proc[Shell].pc # "zombie"
  BY <1>1, StepEffect DEF DescInv, Effect, Gones
<1>3. Job(proc[Shell], proc[Shell].g_exit_code)
  BY <1>2 DEF StatusInv, ShellJob
<1>4. Tame(proc[Shell]) /\ \A c \in Awaited(Shell) : c # Shell
  BY <1>2, ShellTame
<1> QED
  BY <1>1, <1>2, <1>3, <1>4, JobStep DEF StatusInv

\* What is owed for the status found inside a redirection is owed still when
\* that status is $?.
LEMMA JobRebased ==
  ASSUME NEW g \in Status, NEW u \in Process, Job(u, g), u.pc = "restore",
         u.g_exit_code = u.stat
  PROVE  Job(u, u.g_exit_code)
<1> DEFINE s == u.stat
<1>1. s \in Status /\ u.frames \in Seq(Frame) /\ u.frames # <<>>
  BY EntryTypes DEF Process, Job
<1>2. u.frames[1].node \in Node
  <2>1. 1 \in DOMAIN u.frames
    BY <1>1
  <2> QED
    BY <2>1, EntryTypes
<1>3. s \in Yield(u.frames[1].node, s)
  BY <1>1, <1>2, Rebased DEF Job, Ready
<1>4. Ready(u, s)
  BY <1>3 DEF Ready, Here, Piping, Job
<1> QED
  BY <1>4 DEF Job

LEMMA ShellJobStep ==
  ASSUME TypeOK, TypeOK', DescInv, ReapInv, StatusInv, NEW p \in Pid, Step(p)
  PROVE  ShellJob'
<1> DEFINE e == proc[Shell]
           u == proc'[Shell]
<1>1. ASSUME Alike(e, u)
      PROVE  ShellJob'
  BY <1>1, AlikeJobs DEF ShellJob, StatusInv, Alike
<1>2. CASE p # Shell
  BY <1>1, <1>2, ShellRests, StepEffect DEF DescInv
<1>3. CASE p = Shell /\ e.pc = "prompt"
  BY <1>1, <1>3, PromptStep
<1>4. CASE p = Shell /\ e.pc # "prompt"
  <2>1. Goes(Shell, e.g_exit_code) /\ e.g_exit_code \in Status
    BY <1>4, ShellGoes, ShellTame
  <2>2. u \in Process
    BY ShellTame DEF TypeOK
  <2>3. CASE Job(u, e.g_exit_code) /\ u.g_exit_code = e.g_exit_code
    BY <2>3 DEF ShellJob
  <2>4. CASE /\ Job(u, e.g_exit_code) /\ u.pc = "restore"
             /\ u.g_exit_code = u.stat
    BY <2>1, <2>2, <2>4, JobRebased DEF ShellJob
  <2>5. CASE u.pc \in {"prompt", "zombie"}
    BY <2>5 DEF ShellJob
  <2> QED
    BY <2>1, <2>3, <2>4, <2>5 DEF Goes
<1> QED
  BY <1>2, <1>3, <1>4

LEMMA StatusStep ==
  ASSUME TypeOK, TypeOK', DescInv, ReapInv, StatusInv, NEW p \in Pid, Step(p)
  PROVE  StatusInv'
<1>1. ShellJob'
  BY ShellJobStep
<1>2. ASSUME NEW q \in Pid
      PROVE  RightSide(q)' /\ ProgramSide(q)'
  BY SidesOwn, SidesOther DEF StatusInv
<1> QED
  BY <1>1, <1>2 DEF StatusInv

\* Steps that are not the processes' own.
Still(q) ==
  \/ Alike(proc[q], proc'[q])
  \/ proc'[q].pc = "unused" /\ proc[q].parent = Reaper

LEMMA SidesStill ==
  ASSUME TypeOK, DescInv, StatusInv, \A q \in Pid \ {Shell} : Still(q),
         Alike(proc[Shell], proc'[Shell]) \/ proc'[Shell].pc \in {"exec", "zombie"},
         NEW q \in Pid
  PROVE  RightSide(q)' /\ ProgramSide(q)'
<1>1. CASE proc'[q].pc \in {"exec", "zombie", "unused"}
  BY <1>1 DEF RightSide, ProgramSide
<1>2. CASE Alike(proc[q], proc'[q])
  <2>1. \A c \in Awaited(q) : Alike(proc[c], proc'[c])
    BY AwaitedPids, ShellTame DEF DescInv, Links, Still
  <2>2. RightSide(q)'
    BY <1>2, <2>1, AlikeJobs DEF StatusInv, RightSide, Alike, Awaited
  <2>3. ProgramSide(q)'
    BY <1>2, <2>1, AlikeJobs, CleanSame DEF StatusInv, ProgramSide, Alike, Awaited
  <2> QED
    BY <2>2, <2>3
<1> QED
  BY <1>1, <1>2 DEF Still

LEMMA TypedStill ==
  ASSUME TypeOK, NEW q \in Pid,
         Interrupt \/ Quit \/ Gone \/ UNCHANGED vars
  PROVE  Alike(proc[q], proc'[q])
<1>1. \/ proc'[q] = proc[q]
      \/ \E sig \in {"int", "quit"} : proc'[q] = [proc[q] EXCEPT !.pending = sig]
  BY DEF Interrupt, Quit, Gone, vars, Typed
<1> QED
  BY <1>1 DEF Alike, TypeOK, Process

LEMMA OrphanStill ==
  ASSUME TypeOK, NEW p \in Pid, ReapOrphan(p), NEW q \in Pid
  PROVE  /\ Still(q)
         /\ q = Shell => Alike(proc[q], proc'[q])
  BY DEF ReapOrphan, TypeOK, Still, Alike, Unused

\* The shell begins a line, or leaves.
LEMMA LineBegins ==
  ASSUME TypeOK, DescInv, NEW n \in Line, ReadLine(n)
  PROVE  LET e == proc[Shell]
             u == proc'[Shell]
         IN /\ e.pc = "prompt" /\ u.pc = "exec" /\ u.cur = n
            /\ u.frames = <<>> /\ u.g_exit_code = e.g_exit_code
            /\ \A q \in Pid \ {Shell} : proc'[q] = proc[q]
<1>1. /\ DOMAIN proc = Pid /\ Shell \in Pid
      /\ DOMAIN proc[Shell] =
           {"pc", "cur", "frames", "fd", "disp", "pending", "stat",
            "g_exit_code", "pid1", "pid2", "pipefd", "parent", "todo"}
  BY ExecutorAssumption DEF TypeOK, Process
<1>2. proc[Shell].pc = "prompt" /\ proc[Shell].frames = <<>>
  BY <1>1 DEF ReadLine, At, DescInv, EntryInv, Shape, Gones
<1> QED
  BY <1>1, <1>2 DEF ReadLine

LEMMA LineEnds ==
  ASSUME TypeOK, DescInv, EndOfInput
  PROVE  LET e == proc[Shell]
             u == proc'[Shell]
         IN /\ e.pc = "prompt" /\ u.pc = "zombie" /\ u.stat = e.g_exit_code
            /\ \A q \in Pid \ {Shell} : proc'[q] = proc[q]
<1>1. /\ DOMAIN proc = Pid /\ Shell \in Pid
      /\ DOMAIN proc[Shell] =
           {"pc", "cur", "frames", "fd", "disp", "pending", "stat",
            "g_exit_code", "pid1", "pid2", "pipefd", "parent", "todo"}
  BY ExecutorAssumption DEF TypeOK, Process
<1> QED
  BY <1>1 DEF EndOfInput, Exit, At

LEMMA StatusNext ==
  TypeOK /\ TypeOK' /\ DescInv /\ ReapInv /\ StatusInv /\ [Next]_vars
    => StatusInv'
<1> SUFFICES ASSUME TypeOK, TypeOK', DescInv, ReapInv, StatusInv, [Next]_vars
             PROVE  StatusInv'
  OBVIOUS
<1>1. ASSUME NEW n \in Line, ReadLine(n)
      PROVE  StatusInv'
  <2> DEFINE u == proc'[Shell]
  <2>1. /\ u.pc = "exec" /\ u.cur = n /\ u.frames = <<>>
        /\ \A q \in Pid \ {Shell} : proc'[q] = proc[q]
    BY <1>1, LineBegins
  <2>2. n \in Node
    BY TreeAssumption
  <2>3. Job(u, u.g_exit_code)
    BY <2>1, <2>2 DEF Job, Ready, Nested, Working, Between, Inside, Piping, Here
  <2>4. \A q \in Pid : RightSide(q)' /\ ProgramSide(q)'
    BY <2>1, SidesStill DEF Still, Alike
  <2> QED
    BY <2>3, <2>4 DEF StatusInv, ShellJob
<1>2. CASE EndOfInput
  BY <1>2, LineEnds, SidesStill DEF Still, Alike, StatusInv, ShellJob
<1>3. ASSUME NEW p \in Pid, Step(p)
      PROVE  StatusInv'
  BY <1>3, StatusStep
<1>4. ASSUME \A q \in Pid : Still(q), Alike(proc[Shell], proc'[Shell])
      PROVE  StatusInv'
  BY <1>4, SidesStill, AlikeJobs DEF StatusInv, ShellJob, Alike
<1>5. CASE Interrupt \/ Quit \/ Gone \/ UNCHANGED vars
  BY <1>4, <1>5, TypedStill, ShellTame DEF Still
<1>6. ASSUME NEW p \in Pid, ReapOrphan(p)
      PROVE  StatusInv'
  BY <1>4, <1>6, OrphanStill, ShellTame
<1> QED
  BY <1>1, <1>2, <1>3, <1>5, <1>6 DEF Next

LEMMA StatusInit == Init => StatusInv
<1> SUFFICES ASSUME Init
             PROVE  StatusInv
  OBVIOUS
<1>1. \A q \in Pid : proc[q].pc \in {"prompt", "unused"}
  BY DEF Init, Unused
<1>2. proc[Shell].pc = "prompt"
  BY ExecutorAssumption DEF Init, Unused
<1> QED
  BY <1>1, <1>2 DEF StatusInv, ShellJob, RightSide, ProgramSide

-----------------------------------------------------------------------------
(* The refinement.                                                         *)

\* What the user of the prompt can see of the shell's entry.
Mode(e) ==
  CASE e.pc = "prompt" -> "prompt"
    [] e.pc = "zombie" -> "gone"
    [] OTHER -> "running"
LineOf(e) == IF e.pc \in {"prompt", "zombie"} THEN NoNode ELSE Root(e)
StatusOf(e) == IF e.pc = "zombie" THEN e.stat ELSE e.g_exit_code

LEMMA SeenSame ==
  ASSUME Mode(proc'[Shell]) = Mode(proc[Shell]),
         LineOf(proc'[Shell]) = LineOf(proc[Shell]),
         StatusOf(proc'[Shell]) = StatusOf(proc[Shell])
  PROVE  UNCHANGED Promise!lineVars
  BY DEF Promise!lineVars, CurrentLine, Mode, LineOf, StatusOf, Root

LEMMA SeenAlike ==
  ASSUME Alike(proc[Shell], proc'[Shell])
  PROVE  UNCHANGED Promise!lineVars
<1>1. Root(proc'[Shell]) = Root(proc[Shell])
  BY DEF Alike, Root
<1> QED
  BY <1>1, SeenSame DEF Alike, Mode, LineOf, StatusOf

LEMMA SeenBegin ==
  ASSUME Mode(proc[Shell]) = "prompt", Mode(proc'[Shell]) = "running",
         LineOf(proc'[Shell]) \in Line,
         StatusOf(proc'[Shell]) = StatusOf(proc[Shell])
  PROVE  Promise!LineNext
  BY DEF Promise!LineNext, Promise!Begin, CurrentLine, Mode, LineOf, StatusOf, Root

LEMMA SeenInner ==
  ASSUME Mode(proc[Shell]) = "running", Mode(proc'[Shell]) = "running",
         LineOf(proc'[Shell]) = LineOf(proc[Shell]),
         Kind[LineOf(proc[Shell])] \in RedirKind,
         Left[LineOf(proc[Shell])] # NoNode,
         StatusOf(proc'[Shell])
           \in Yield(Left[LineOf(proc[Shell])], StatusOf(proc[Shell]))
  PROVE  Promise!LineNext
<1>1. Promise!RedirKind = RedirKind
  BY TreeFacts
<1> QED
  BY <1>1 DEF Promise!LineNext, Promise!Inner, CurrentLine, Mode, LineOf,
              StatusOf, Root, Yield

LEMMA SeenFinish ==
  ASSUME Mode(proc[Shell]) = "running", Mode(proc'[Shell]) = "prompt",
         StatusOf(proc'[Shell])
           \in Yield(LineOf(proc[Shell]), StatusOf(proc[Shell]))
  PROVE  Promise!LineNext
  BY DEF Promise!LineNext, Promise!Finish, CurrentLine, Mode, LineOf, StatusOf,
         Root, Yield

LEMMA SeenLeave ==
  ASSUME Mode(proc'[Shell]) = "gone",
         \/ /\ Mode(proc[Shell]) = "prompt"
            /\ StatusOf(proc'[Shell]) = StatusOf(proc[Shell])
         \/ /\ Mode(proc[Shell]) = "running"
            /\ Exits(LineOf(proc[Shell]))
            /\ StatusOf(proc'[Shell]) \in {StatusOf(proc[Shell]), 2}
  PROVE  Promise!LineNext
  BY DEF Promise!LineNext, Promise!Leave, CurrentLine, Mode, LineOf, StatusOf,
         Root, Exits

\* A step of the shell that runs a line.
LEMMA LineStep ==
  ASSUME Job(proc[Shell], proc[Shell].g_exit_code),
         Goes(Shell, proc[Shell].g_exit_code)
  PROVE  Promise!LineNext \/ UNCHANGED Promise!lineVars
<1> DEFINE e == proc[Shell]
           u == proc'[Shell]
           g == e.g_exit_code
<1>1. Mode(e) = "running" /\ LineOf(e) = Root(e) /\ StatusOf(e) = g
  <2>1. e.pc \notin {"prompt", "zombie"}
    BY Places DEF Job, Gones
  <2> QED
    BY <2>1 DEF Mode, LineOf, StatusOf
<1>2. ASSUME Job(u, g), Root(u) = Root(e)
      PROVE  Mode(u) = "running" /\ LineOf(u) = LineOf(e)
             /\ StatusOf(u) = u.g_exit_code
  <2>1. u.pc \notin {"prompt", "zombie"}
    BY <1>2, Places DEF Job, Gones
  <2> QED
    BY <1>1, <1>2, <2>1 DEF Mode, LineOf, StatusOf
<1>3. CASE Job(u, g) /\ Root(u) = Root(e) /\ u.g_exit_code = g
  BY <1>1, <1>2, <1>3, SeenSame
<1>4. CASE /\ Job(u, g) /\ Root(u) = Root(e) /\ u.g_exit_code = u.stat
           /\ Kind[Root(e)] \in RedirKind /\ Left[Root(e)] \in Node
           /\ u.stat \in Yield(Left[Root(e)], g)
  <2>1. Left[Root(e)] # NoNode
    BY <1>4, TreeFacts
  <2> QED
    BY <1>1, <1>2, <1>4, <2>1, SeenInner
<1>5. CASE u.pc = "prompt" /\ u.g_exit_code \in Yield(Root(e), g)
  <2>1. Mode(u) = "prompt" /\ StatusOf(u) = u.g_exit_code
    BY <1>5 DEF Mode, StatusOf
  <2> QED
    BY <1>1, <1>5, <2>1, SeenFinish
<1>6. CASE u.pc = "zombie" /\ Exits(Root(e)) /\ u.stat \in {g, 2}
  <2>1. Mode(u) = "gone" /\ StatusOf(u) = u.stat
    BY <1>6 DEF Mode, StatusOf
  <2> QED
    BY <1>1, <1>6, <2>1, SeenLeave
<1> QED
  BY <1>3, <1>4, <1>5, <1>6 DEF Goes

LEMMA PromiseNext ==
  TypeOK /\ TypeOK' /\ DescInv /\ ReapInv /\ StatusInv /\ [Next]_vars
    => [Promise!LineNext]_(Promise!lineVars)
<1> SUFFICES ASSUME TypeOK, TypeOK', DescInv, ReapInv, StatusInv, [Next]_vars
             PROVE  Promise!LineNext \/ UNCHANGED Promise!lineVars
  OBVIOUS
<1> DEFINE e == proc[Shell]
           u == proc'[Shell]
<1>1. ASSUME NEW n \in Line, ReadLine(n)
      PROVE  Promise!LineNext
  <2>1. /\ e.pc = "prompt" /\ u.pc = "exec" /\ u.cur = n
        /\ u.frames = <<>> /\ u.g_exit_code = e.g_exit_code
    BY <1>1, LineBegins
  <2>2. /\ Mode(e) = "prompt" /\ Mode(u) = "running" /\ LineOf(u) = n
        /\ StatusOf(u) = StatusOf(e)
    BY <2>1 DEF Mode, LineOf, StatusOf, Root
  <2> QED
    BY <2>2, SeenBegin
<1>2. CASE EndOfInput
  <2>1. e.pc = "prompt" /\ u.pc = "zombie" /\ u.stat = e.g_exit_code
    BY <1>2, LineEnds
  <2>2. Mode(e) = "prompt" /\ Mode(u) = "gone" /\ StatusOf(u) = StatusOf(e)
    BY <2>1 DEF Mode, StatusOf
  <2> QED
    BY <2>2, SeenLeave
<1>3. ASSUME NEW p \in Pid, Step(p)
      PROVE  Promise!LineNext \/ UNCHANGED Promise!lineVars
  <2>1. CASE p # Shell
    BY <1>3, <2>1, ShellRests, StepEffect, SeenAlike DEF DescInv
  <2>2. CASE p = Shell /\ e.pc = "prompt"
    BY <1>3, <2>2, PromptStep, SeenAlike
  <2>3. CASE p = Shell /\ e.pc # "prompt"
    BY <1>3, <2>3, ShellGoes, LineStep
  <2> QED
    BY <2>1, <2>2, <2>3
<1>4. CASE Interrupt \/ Quit \/ Gone \/ UNCHANGED vars
  BY <1>4, TypedStill, ShellTame, SeenAlike
<1>5. ASSUME NEW p \in Pid, ReapOrphan(p)
      PROVE  UNCHANGED Promise!lineVars
  BY <1>5, OrphanStill, ShellTame, SeenAlike
<1> QED
  BY <1>1, <1>2, <1>3, <1>4, <1>5 DEF Next

LEMMA PromiseInit == Init => Promise!LineInit
<1> SUFFICES ASSUME Init
             PROVE  Promise!LineInit
  OBVIOUS
<1>1. proc[Shell].pc = "prompt" /\ proc[Shell].g_exit_code = 0
  BY ExecutorAssumption DEF Init, Unused
<1> QED
  BY <1>1 DEF Promise!LineInit, CurrentLine

\* Whatever the tree, the number of processes and descriptors, the signals and
\* what fork, dup, pipe and open refuse, and whichever process runs next: each
\* step of the executor is a step the user of the prompt was promised, or one
\* nobody at the prompt can see.  A pipeline's status is its right side's, a
\* redirection's its command's, a simple command's its builtin's or program's;
\* an exit in a pipeline leaves the shell alone, and one in the shell itself
\* ends it with the status asked for: execute_ast and all it calls.
THEOREM PromiseKept == Spec => KeepsPromise
<1>1. Init => TypeOK /\ DescInv /\ ReapInv /\ StatusInv /\ Promise!LineInit
  BY InitType, DescInit, ReapInit, StatusInit, PromiseInit
<1>2. /\ TypeOK /\ DescInv /\ ReapInv /\ StatusInv /\ [Next]_vars
      => /\ TypeOK' /\ DescInv' /\ ReapInv' /\ StatusInv'
         /\ [Promise!LineNext]_(Promise!lineVars)
  BY TypeNext, DescNext, ReapNext, StatusNext, PromiseNext
<1> QED
  BY <1>1, <1>2, PTL DEF Spec, KeepsPromise, Promise!LineSpec
=============================================================================
