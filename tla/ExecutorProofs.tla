--------------------------- MODULE ExecutorProofs ---------------------------
(***************************************************************************)
(* Theorems about Executor for every tree, every number of processes and   *)
(* descriptors and every bound: everything stays in its type, every child  *)
(* is waited for, the shell gets its descriptors back, no process feeds    *)
(* itself, and nothing takes the shell down.                               *)
(***************************************************************************)
EXTENDS Executor, TLAPS, FiniteSetTheorems

-----------------------------------------------------------------------------
(* What the helpers return. *)

\* A set of naturals that is not empty has a least element.
LEMMA MinExists ==
  ASSUME NEW S \in SUBSET Nat, S # {}
  PROVE  Min(S) \in S /\ \A x \in S : Min(S) <= x
<1> DEFINE R == {ss \in Nat \X Nat : ss[1] < ss[2]}
<1>1. IsWellFoundedOn(R, Nat)
  BY NatLessThanWellFounded DEF OpToRel
<1> HIDE DEF R
<1>2. PICK x \in S : \A y \in S : ~ (<<y, x>> \in R)
  BY <1>1, WFMin, Zenon
<1>3. ASSUME NEW y \in S
      PROVE  x <= y
  <2>1. x \in Nat /\ y \in Nat /\ <<y, x>> \notin R
    BY <1>2
  <2>2. ~ (y < x)
    BY <2>1 DEF R
  <2> QED
    BY <2>1, <2>2
<1> QED
  BY <1>3 DEF Min

\* dup and pipe return descriptors that were free, and two different ones.
LEMMA FreeFds ==
  ASSUME NEW p \in Pid
  PROVE  /\ Free(p) \subseteq Fd /\ \A f \in Free(p) : proc[p].fd[f] = Closed
         /\ Free(p) # {} => Lowest(p) \in Free(p)
         /\ Cardinality(Free(p)) >= 2 =>
              Lowest(p) \in Free(p) /\ Second(p) \in Free(p) \ {Lowest(p)}
<1>1. Free(p) \subseteq Fd /\ \A f \in Free(p) : proc[p].fd[f] = Closed
  BY DEF Free
<1>2. Fd \subseteq Nat /\ IsFiniteSet(Fd)
  BY ExecutorAssumption, FS_Interval DEF Fd
<1>3. IsFiniteSet(Free(p))
  BY <1>1, <1>2, FS_Subset
<1>4. Free(p) # {} => Lowest(p) \in Free(p)
  BY <1>1, <1>2, MinExists DEF Lowest
<1>5. ASSUME Cardinality(Free(p)) >= 2
      PROVE  Lowest(p) \in Free(p) /\ Second(p) \in Free(p) \ {Lowest(p)}
  <2>1. Free(p) # {}
    BY <1>5, FS_EmptySet
  <2>2. Lowest(p) \in Free(p)
    BY <2>1, <1>4
  <2>3. Free(p) \ {Lowest(p)} # {}
    <3>1. Cardinality(Free(p)) \in Nat
      BY <1>3, FS_CardinalityType
    <3>2. Cardinality(Free(p) \ {Lowest(p)}) = Cardinality(Free(p)) - 1
      BY <1>3, <2>2, FS_RemoveElement
    <3> QED
      BY <3>1, <3>2, <1>5, FS_EmptySet
  <2>4. Min(Free(p) \ {Lowest(p)}) \in Free(p) \ {Lowest(p)}
    BY <2>3, <1>1, <1>2, MinExists
  <2> QED
    BY <2>2, <2>4 DEF Second
<1> QED
  BY <1>1, <1>4, <1>5

\* fork returns an identifier that was not in use.
LEMMA NewPidFree ==
  FreePid # {} => NewPid \in Pid /\ proc[NewPid].pc = "unused"
  BY DEF NewPid, FreePid

-----------------------------------------------------------------------------
(* Types. *)

LEMMA ObjectTypes ==
  /\ Closed \in Object /\ Terminal \in Object
  /\ \A n \in Node : {FileOf(n), ReadEnd(n), WriteEnd(n)} \subseteq Object
  BY DEF Closed, Terminal, FileOf, ReadEnd, WriteEnd, Object

LEMMA UnusedType == Unused \in Process
  BY ExecutorAssumption, ObjectTypes
  DEF Unused, Process, Location, Status, AllClosed, Fd

LEMMA ForkType ==
  ASSUME TypeOK, NEW p \in Pid, NEW l \in Location
  PROVE  Fork(p, l) \in Process
<1> DEFINE e == proc[p]
<1>1. e \in Process
  BY DEF TypeOK
<1> HIDE DEF e
<1>2. [e EXCEPT !.pc = l, !.parent = p, !.pending = "no"] \in Process
  BY <1>1 DEF Process
<1> QED
  BY <1>2 DEF Fork, e

LEMMA PipeClosedType ==
  ASSUME TypeOK, NEW p \in Pid
  PROVE  PipeClosed(p) \in [Fd -> Object]
<1>1. proc[p].fd \in [Fd -> Object]
  BY DEF TypeOK, Process
<1> QED
  BY <1>1, ObjectTypes DEF PipeClosed

\* A pipe that stays within its capacity, whether n is a pipe or not.
LEMMA BufferType ==
  ASSUME TypeOK, NEW n, NEW v, n \in Node => v \in 0 .. PipeCap
  PROVE  [buf EXCEPT ![n] = v] \in [Node -> 0 .. PipeCap]
<1>1. buf \in [Node -> 0 .. PipeCap]
  BY DEF TypeOK
<1>2. CASE n \in Node
  BY <1>1, <1>2
<1>3. CASE n \notin Node
  <2>1. [buf EXCEPT ![n] = v] = buf
    BY <1>1, <1>3
  <2> QED
    BY <1>1, <2>1
<1> QED
  BY <1>2, <1>3

\* Writing to standard output and reading standard input keep the pipes within
\* their capacity.
LEMMA WriteType ==
  ASSUME TypeOK, NEW p \in Pid, CanWrite(p), Write(p)
  PROVE  buf' \in [Node -> 0 .. PipeCap]
<1>1. CASE Out(p).end # "w"
  BY <1>1 DEF TypeOK, Write
<1>2. CASE Out(p).end = "w"
  <2> DEFINE n == Out(p).node
  <2>1. buf[n] < PipeCap /\ buf' = [buf EXCEPT ![n] = buf[n] + 1]
    BY <1>2 DEF CanWrite, Write
  <2>2. PipeCap \in Nat /\ buf \in [Node -> 0 .. PipeCap]
    BY ExecutorAssumption DEF TypeOK
  <2> HIDE DEF n
  <2>3. n \in Node => buf[n] + 1 \in 0 .. PipeCap
    BY <2>1, <2>2
  <2> QED
    BY <2>1, <2>3, BufferType
<1> QED
  BY <1>1, <1>2

LEMMA ReadType ==
  ASSUME TypeOK, NEW p \in Pid, CanRead(p), Read(p)
  PROVE  buf' \in [Node -> 0 .. PipeCap]
<1> DEFINE n == In(p).node
<1>1. buf[n] > 0 /\ buf' = [buf EXCEPT ![n] = buf[n] - 1]
  BY DEF CanRead, Read
<1>2. PipeCap \in Nat /\ buf \in [Node -> 0 .. PipeCap]
  BY ExecutorAssumption DEF TypeOK
<1> HIDE DEF n
<1>3. n \in Node => buf[n] - 1 \in 0 .. PipeCap
  BY <1>1, <1>2
<1> QED
  BY <1>1, <1>3, BufferType

LEMMA TableType ==
  ASSUME TypeOK, NEW p \in Pid, NEW e \in Process
  PROVE  [proc EXCEPT ![p] = e] \in [Pid -> Process]
  BY DEF TypeOK

\* One lemma for each set of fields an action updates in the entry of p.
LEMMA PcType ==
  ASSUME TypeOK, NEW p \in Pid, NEW l \in Location,
         proc' = [proc EXCEPT ![p].pc = l]
  PROVE  proc' \in [Pid -> Process]
<1> DEFINE e == proc[p]
           u == [e EXCEPT !.pc = l]
<1>1. e \in Process
  BY DEF TypeOK
<1>2. proc' = [proc EXCEPT ![p] = u]
  OBVIOUS
<1> HIDE DEF e
<1>3. u \in Process
  BY <1>1 DEF Process
<1> HIDE DEF u
<1>4. [proc EXCEPT ![p] = u] \in [Pid -> Process]
  BY <1>3, TableType
<1> QED
  BY <1>2, <1>4

LEMMA GotoType ==
  ASSUME TypeOK, NEW p \in Pid, NEW l \in Location, NEW s \in Status,
         Goto(p, l, s)
  PROVE  proc' \in [Pid -> Process]
<1> DEFINE e == proc[p]
           u == [e EXCEPT !.pc = l, !.stat = s]
<1>1. e \in Process
  BY DEF TypeOK
<1>2. proc' = [proc EXCEPT ![p] = u]
  BY DEF Goto
<1> HIDE DEF e
<1>3. u \in Process
  BY <1>1 DEF Process
<1> HIDE DEF u
<1>4. [proc EXCEPT ![p] = u] \in [Pid -> Process]
  BY <1>3, TableType
<1> QED
  BY <1>2, <1>4

LEMMA FdType ==
  ASSUME TypeOK, NEW p \in Pid, NEW l \in Location, NEW f \in [Fd -> Object],
         proc' = [proc EXCEPT ![p].pc = l, ![p].fd = f]
  PROVE  proc' \in [Pid -> Process]
<1> DEFINE e == proc[p]
           u == [e EXCEPT !.pc = l, !.fd = f]
<1>1. e \in Process
  BY DEF TypeOK
<1>2. proc' = [proc EXCEPT ![p] = u]
  OBVIOUS
<1> HIDE DEF e
<1>3. u \in Process
  BY <1>1 DEF Process
<1> HIDE DEF u
<1>4. [proc EXCEPT ![p] = u] \in [Pid -> Process]
  BY <1>3, TableType
<1> QED
  BY <1>2, <1>4

LEMMA FdStatType ==
  ASSUME TypeOK, NEW p \in Pid, NEW l \in Location, NEW s \in Status,
         NEW f \in [Fd -> Object],
         proc' = [proc EXCEPT ![p].fd = f, ![p].pc = l, ![p].stat = s]
  PROVE  proc' \in [Pid -> Process]
<1> DEFINE e == proc[p]
           u == [e EXCEPT !.fd = f, !.pc = l, !.stat = s]
<1>1. e \in Process
  BY DEF TypeOK
<1>2. proc' = [proc EXCEPT ![p] = u]
  OBVIOUS
<1> HIDE DEF e
<1>3. u \in Process
  BY <1>1 DEF Process
<1> HIDE DEF u
<1>4. [proc EXCEPT ![p] = u] \in [Pid -> Process]
  BY <1>3, TableType
<1> QED
  BY <1>2, <1>4

LEMMA FdCurType ==
  ASSUME TypeOK, NEW p \in Pid, NEW l \in Location, NEW n \in Node \cup {NoNode},
         NEW f \in [Fd -> Object],
         proc' = [proc EXCEPT ![p].fd = f, ![p].pc = l, ![p].cur = n]
  PROVE  proc' \in [Pid -> Process]
<1> DEFINE e == proc[p]
           u == [e EXCEPT !.fd = f, !.pc = l, !.cur = n]
<1>1. e \in Process
  BY DEF TypeOK
<1>2. proc' = [proc EXCEPT ![p] = u]
  OBVIOUS
<1> HIDE DEF e
<1>3. u \in Process
  BY <1>1 DEF Process
<1> HIDE DEF u
<1>4. [proc EXCEPT ![p] = u] \in [Pid -> Process]
  BY <1>3, TableType
<1> QED
  BY <1>2, <1>4

LEMMA FramesType ==
  ASSUME TypeOK, NEW p \in Pid, NEW l \in Location, NEW n \in Node \cup {NoNode},
         NEW s \in Seq(Frame), NEW f \in [Fd -> Object],
         proc' = [proc EXCEPT ![p].pc = l, ![p].cur = n, ![p].frames = s,
                        ![p].fd = f]
  PROVE  proc' \in [Pid -> Process]
<1> DEFINE e == proc[p]
           u == [e EXCEPT !.pc = l, !.cur = n, !.frames = s, !.fd = f]
<1>1. e \in Process
  BY DEF TypeOK
<1>2. proc' = [proc EXCEPT ![p] = u]
  OBVIOUS
<1> HIDE DEF e
<1>3. u \in Process
  BY <1>1 DEF Process
<1> HIDE DEF u
<1>4. [proc EXCEPT ![p] = u] \in [Pid -> Process]
  BY <1>3, TableType
<1> QED
  BY <1>2, <1>4

LEMMA SaveType ==
  ASSUME TypeOK, NEW p \in Pid, NEW l \in Location, NEW s \in Seq(Frame),
         NEW f \in [Fd -> Object],
         proc' = [proc EXCEPT ![p].pc = l, ![p].fd = f, ![p].frames = s]
  PROVE  proc' \in [Pid -> Process]
<1> DEFINE e == proc[p]
           u == [e EXCEPT !.pc = l, !.fd = f, !.frames = s]
<1>1. e \in Process
  BY DEF TypeOK
<1>2. proc' = [proc EXCEPT ![p] = u]
  OBVIOUS
<1> HIDE DEF e
<1>3. u \in Process
  BY <1>1 DEF Process
<1> HIDE DEF u
<1>4. [proc EXCEPT ![p] = u] \in [Pid -> Process]
  BY <1>3, TableType
<1> QED
  BY <1>2, <1>4

LEMMA PipeType ==
  ASSUME TypeOK, NEW p \in Pid, NEW l \in Location, NEW d \in Fd \X Fd,
         NEW f \in [Fd -> Object],
         proc' = [proc EXCEPT ![p].pc = l, ![p].pipefd = d, ![p].fd = f]
  PROVE  proc' \in [Pid -> Process]
<1> DEFINE e == proc[p]
           u == [e EXCEPT !.pc = l, !.pipefd = d, !.fd = f]
<1>1. e \in Process
  BY DEF TypeOK
<1>2. proc' = [proc EXCEPT ![p] = u]
  OBVIOUS
<1> HIDE DEF e
<1>3. u \in Process
  BY <1>1 DEF Process
<1> HIDE DEF u
<1>4. [proc EXCEPT ![p] = u] \in [Pid -> Process]
  BY <1>3, TableType
<1> QED
  BY <1>2, <1>4

LEMMA HereType ==
  ASSUME TypeOK, NEW p \in Pid, NEW l \in Location, NEW d \in Fd \X Fd,
         NEW f \in [Fd -> Object], NEW k \in 0 .. (Work + MaxBody),
         proc' = [proc EXCEPT ![p].pc = l, ![p].pipefd = d, ![p].fd = f,
                        ![p].todo = k]
  PROVE  proc' \in [Pid -> Process]
<1> DEFINE e == proc[p]
           u == [e EXCEPT !.pc = l, !.pipefd = d, !.fd = f, !.todo = k]
<1>1. e \in Process
  BY DEF TypeOK
<1>2. proc' = [proc EXCEPT ![p] = u]
  OBVIOUS
<1> HIDE DEF e
<1>3. u \in Process
  BY <1>1 DEF Process
<1> HIDE DEF u
<1>4. [proc EXCEPT ![p] = u] \in [Pid -> Process]
  BY <1>3, TableType
<1> QED
  BY <1>2, <1>4

LEMMA TodoType ==
  ASSUME TypeOK, NEW p \in Pid, NEW l \in Location, NEW k \in 0 .. (Work + MaxBody),
         proc' = [proc EXCEPT ![p].pc = l, ![p].todo = k]
  PROVE  proc' \in [Pid -> Process]
<1> DEFINE e == proc[p]
           u == [e EXCEPT !.pc = l, !.todo = k]
<1>1. e \in Process
  BY DEF TypeOK
<1>2. proc' = [proc EXCEPT ![p] = u]
  OBVIOUS
<1> HIDE DEF e
<1>3. u \in Process
  BY <1>1 DEF Process
<1> HIDE DEF u
<1>4. [proc EXCEPT ![p] = u] \in [Pid -> Process]
  BY <1>3, TableType
<1> QED
  BY <1>2, <1>4

LEMMA DispType ==
  ASSUME TypeOK, NEW p \in Pid, NEW l \in Location, NEW d \in {"handler", "ignore", "default"},
         proc' = [proc EXCEPT ![p].pc = l, ![p].disp = d]
  PROVE  proc' \in [Pid -> Process]
<1> DEFINE e == proc[p]
           u == [e EXCEPT !.pc = l, !.disp = d]
<1>1. e \in Process
  BY DEF TypeOK
<1>2. proc' = [proc EXCEPT ![p] = u]
  OBVIOUS
<1> HIDE DEF e
<1>3. u \in Process
  BY <1>1 DEF Process
<1> HIDE DEF u
<1>4. [proc EXCEPT ![p] = u] \in [Pid -> Process]
  BY <1>3, TableType
<1> QED
  BY <1>2, <1>4

LEMMA ReturnType ==
  ASSUME TypeOK, NEW p \in Pid, NEW l \in Location, NEW g \in Status, NEW s \in Status,
         proc' = [proc EXCEPT ![p].pc = l, ![p].g_exit_code = g, ![p].stat = s]
  PROVE  proc' \in [Pid -> Process]
<1> DEFINE e == proc[p]
           u == [e EXCEPT !.pc = l, !.g_exit_code = g, !.stat = s]
<1>1. e \in Process
  BY DEF TypeOK
<1>2. proc' = [proc EXCEPT ![p] = u]
  OBVIOUS
<1> HIDE DEF e
<1>3. u \in Process
  BY <1>1 DEF Process
<1> HIDE DEF u
<1>4. [proc EXCEPT ![p] = u] \in [Pid -> Process]
  BY <1>3, TableType
<1> QED
  BY <1>2, <1>4

LEMMA PromptType ==
  ASSUME TypeOK, NEW p \in Pid, NEW l \in Location, NEW g \in Status,
         NEW n \in Node \cup {NoNode},
         proc' = [proc EXCEPT ![p].pc = l, ![p].g_exit_code = g, ![p].cur = n]
  PROVE  proc' \in [Pid -> Process]
<1> DEFINE e == proc[p]
           u == [e EXCEPT !.pc = l, !.g_exit_code = g, !.cur = n]
<1>1. e \in Process
  BY DEF TypeOK
<1>2. proc' = [proc EXCEPT ![p] = u]
  OBVIOUS
<1> HIDE DEF e
<1>3. u \in Process
  BY <1>1 DEF Process
<1> HIDE DEF u
<1>4. [proc EXCEPT ![p] = u] \in [Pid -> Process]
  BY <1>3, TableType
<1> QED
  BY <1>2, <1>4

LEMMA LineType ==
  ASSUME TypeOK, NEW p \in Pid, NEW l \in Location, NEW n \in Node \cup {NoNode},
         proc' = [proc EXCEPT ![p].pc = l, ![p].cur = n]
  PROVE  proc' \in [Pid -> Process]
<1> DEFINE e == proc[p]
           u == [e EXCEPT !.pc = l, !.cur = n]
<1>1. e \in Process
  BY DEF TypeOK
<1>2. proc' = [proc EXCEPT ![p] = u]
  OBVIOUS
<1> HIDE DEF e
<1>3. u \in Process
  BY <1>1 DEF Process
<1> HIDE DEF u
<1>4. [proc EXCEPT ![p] = u] \in [Pid -> Process]
  BY <1>3, TableType
<1> QED
  BY <1>2, <1>4

LEMMA PendingType ==
  ASSUME TypeOK, NEW p \in Pid, NEW x \in {"no", "int", "quit"},
         proc' = [proc EXCEPT ![p].pending = x]
  PROVE  proc' \in [Pid -> Process]
<1> DEFINE e == proc[p]
           u == [e EXCEPT !.pending = x]
<1>1. e \in Process
  BY DEF TypeOK
<1>2. proc' = [proc EXCEPT ![p] = u]
  OBVIOUS
<1> HIDE DEF e
<1>3. u \in Process
  BY <1>1 DEF Process
<1> HIDE DEF u
<1>4. [proc EXCEPT ![p] = u] \in [Pid -> Process]
  BY <1>3, TableType
<1> QED
  BY <1>2, <1>4

LEMMA ExitType ==
  ASSUME TypeOK, NEW p \in Pid, NEW s \in Status, Exit(p, s)
  PROVE  proc' \in [Pid -> Process]
<1> DEFINE e == proc[p]
<1>1. e \in Process /\ AllClosed \in [Fd -> Object]
  BY ObjectTypes DEF TypeOK, AllClosed
<1> HIDE DEF e
<1>2. [e EXCEPT !.pc = "zombie", !.stat = s, !.fd = AllClosed] \in Process
  BY ZenonT(60), <1>1 DEF Process, Location
<1>3. proc' = [proc EXCEPT ![p] = [e EXCEPT !.pc = "zombie", !.stat = s,
                                            !.fd = AllClosed]]
  BY DEF Exit, e
<1> QED
  BY <1>2, <1>3, TableType

LEMMA DieType ==
  ASSUME TypeOK, NEW p \in Pid, NEW s \in Status, Die(p, s)
  PROVE  proc' \in [Pid -> Process]
<1>1. AllClosed \in [Fd -> Object]
  BY ObjectTypes DEF AllClosed
<1>2. ASSUME NEW e \in Process
      PROVE  /\ [e EXCEPT !.pc = "killed", !.stat = s, !.fd = AllClosed,
                          !.pending = "no"] \in Process
             /\ [e EXCEPT !.parent = Reaper] \in Process
  <2>1. "killed" \in Location
    BY DEF Location
  <2> QED
    BY <1>1, <2>1 DEF Process
<1>3. ASSUME NEW q \in Pid
      PROVE  (IF q = p THEN [proc[p] EXCEPT !.pc = "killed", !.stat = s,
                                            !.fd = AllClosed, !.pending = "no"]
              ELSE IF proc[q].parent = p
              THEN [proc[q] EXCEPT !.parent = Reaper]
              ELSE proc[q]) \in Process
  <2>1. proc[p] \in Process /\ proc[q] \in Process
    BY DEF TypeOK
  <2> QED
    BY <2>1, <1>2, Zenon
<1> QED
  BY <1>3 DEF Die

\* waitpid: the child's entry is freed, then p moves, with a status or without.
LEMMA WaitType ==
  ASSUME TypeOK, NEW p \in Pid, NEW c \in Pid, NEW l \in Location,
         NEW s \in Status
  PROVE  /\ [proc EXCEPT ![c] = Unused, ![p].pc = l] \in [Pid -> Process]
         /\ [proc EXCEPT ![c] = Unused, ![p].pc = l, ![p].stat = s]
              \in [Pid -> Process]
<1> DEFINE t == [proc EXCEPT ![c] = Unused]
           e == t[p]
           u == [e EXCEPT !.pc = l]
           v == [e EXCEPT !.pc = l, !.stat = s]
<1>1. t \in [Pid -> Process]
  BY UnusedType, TableType
<1>2. e \in Process
  BY <1>1
<1>3. [proc EXCEPT ![c] = Unused, ![p].pc = l] = [t EXCEPT ![p] = u]
  OBVIOUS
<1>4. [proc EXCEPT ![c] = Unused, ![p].pc = l, ![p].stat = s]
        = [t EXCEPT ![p] = v]
  OBVIOUS
<1> HIDE DEF t, e
<1>5. u \in Process /\ v \in Process
  BY <1>2 DEF Process
<1> HIDE DEF u, v
<1> QED
  BY <1>1, <1>3, <1>4, <1>5

\* fork: the child's entry is a copy of the parent's.
LEMMA ForkedType ==
  ASSUME TypeOK, NEW p \in Pid, NEW c \in Pid, NEW l \in Location,
         NEW m \in Location
  PROVE  /\ [proc EXCEPT ![c] = Fork(p, l), ![p].pc = m, ![p].pid1 = c]
              \in [Pid -> Process]
         /\ [proc EXCEPT ![c] = Fork(p, l), ![p].pc = m, ![p].pid2 = c]
              \in [Pid -> Process]
<1> DEFINE t == [proc EXCEPT ![c] = Fork(p, l)]
           e == t[p]
           u == [e EXCEPT !.pc = m, !.pid1 = c]
           v == [e EXCEPT !.pc = m, !.pid2 = c]
<1>1. t \in [Pid -> Process]
  BY ForkType, TableType
<1>2. e \in Process
  BY <1>1
<1>3. [proc EXCEPT ![c] = Fork(p, l), ![p].pc = m, ![p].pid1 = c]
        = [t EXCEPT ![p] = u]
  OBVIOUS
<1>4. [proc EXCEPT ![c] = Fork(p, l), ![p].pc = m, ![p].pid2 = c]
        = [t EXCEPT ![p] = v]
  OBVIOUS
<1> HIDE DEF t, e
<1>5. u \in Process /\ v \in Process
  BY <1>2 DEF Process
<1> HIDE DEF u, v
<1> QED
  BY ZenonT(60), <1>1, <1>3, <1>4, <1>5

\* One step of one process keeps the types.
LEMMA TypeStep ==
  ASSUME TypeOK, NEW p \in Pid, Step(p)
  PROVE  TypeOK'
<1> DEFINE n == proc[p].cur
<1>p. /\ proc[p].stat \in Status /\ proc[p].g_exit_code \in Status
      /\ proc[p].pid1 \in Pid /\ proc[p].pid2 \in Pid
      /\ n \in Node \cup {NoNode} /\ proc[p].fd \in [Fd -> Object]
      /\ proc[p].frames \in Seq(Frame) /\ proc[p].pipefd \in Fd \X Fd
      /\ proc[p].todo \in 0 .. (Work + MaxBody)
  BY DEF TypeOK, Process
<1>n. n # NoNode => Left[n] \in Node \cup {NoNode}
                    /\ Right[n] \in Node \cup {NoNode}
  BY <1>p, TreeAssumption
<1>l. Location = {"unused", "prompt", "exec", "redirect", "here_prompt",
                  "here_read", "here_write", "word", "command", "echo",
                  "restore", "return", "fork_left", "fork_right",
                  "wait_only_left", "close_ends", "wait_left", "wait_right",
                  "left_child", "right_child", "ignore_signals",
                  "wait_external", "external_child", "search", "program",
                  "program_write", "zombie", "killed"}
  BY DEF Location
<1>u. ASSUME UNCHANGED <<buf, limit, lines, signals>>,
             proc' \in [Pid -> Process]
      PROVE  TypeOK'
  BY <1>u DEF TypeOK
<1> HIDE DEF n
<1>1. CASE ExecTrivial(p)
  BY <1>1, GotoType DEF ExecTrivial, TypeOK, Location, Status
<1>2. CASE ExecWord(p)
  BY <1>2, GotoType DEF ExecWord, TypeOK, Location, Status
<1>3. CASE Word(p)
  BY <1>3, PcType, WriteType DEF Word, TypeOK, Location
<1>6. CASE Return(p)
  <2> SUFFICES proc' \in [Pid -> Process]
    BY <1>6, <1>u DEF Return
  <2> DEFINE s == proc[p].stat
             t == IF Kind[proc[p].cur] = "WORD" THEN 127 ELSE s
  <2>1. s \in Status /\ t \in Status
    BY <1>p DEF Status
  <2>2. CASE proc' = [proc EXCEPT ![p].pc = "restore", ![p].g_exit_code = s,
                                  ![p].stat = t]
    <3> HIDE DEF s, t
    <3> QED
      BY <1>l, <2>1, <2>2, ReturnType
  <2>3. CASE proc' = [proc EXCEPT ![p].pc = "prompt", ![p].g_exit_code = s,
                                  ![p].cur = NoNode]
    <3> HIDE DEF s, t
    <3> QED
      BY <1>l, <2>1, <2>3, PromptType
  <2>4. CASE Exit(p, s)
    BY <2>1, <2>4, ExitType
  <2> QED
    BY <1>6, <2>2, <2>3, <2>4 DEF Return
<1>9. CASE HerePrompt(p)
  BY <1>9, PcType, WriteType DEF HerePrompt, TypeOK, Location
<1>13. CASE QuietBuiltin(p)
  BY <1>13, GotoType DEF QuietBuiltin, TypeOK, Location, Status
<1>14. CASE Echo(p)
  BY <1>14, GotoType, WriteType DEF Echo, TypeOK, Location, Status
<1>15. CASE ExitBuiltin(p)
  BY <1>15, <1>p, ExitType DEF ExitBuiltin, TypeOK, Status
<1>f. ASSUME NEW l \in Location, NEW m \in Location, FreePid # {},
             \/ proc' = [proc EXCEPT ![NewPid] = Fork(p, l), ![p].pc = m,
                                     ![p].pid1 = NewPid]
             \/ proc' = [proc EXCEPT ![NewPid] = Fork(p, l), ![p].pc = m,
                                     ![p].pid2 = NewPid]
      PROVE  proc' \in [Pid -> Process]
  <2> DEFINE c == NewPid
  <2>1. c \in Pid
    BY <1>f, NewPidFree
  <2> HIDE DEF c
  <2>2. /\ [proc EXCEPT ![c] = Fork(p, l), ![p].pc = m, ![p].pid1 = c]
             \in [Pid -> Process]
        /\ [proc EXCEPT ![c] = Fork(p, l), ![p].pc = m, ![p].pid2 = c]
             \in [Pid -> Process]
    BY <2>1, ForkedType
  <2> QED
    BY <1>f, <2>2 DEF c
<1>16. CASE ForkExternal(p)
  <2> SUFFICES proc' \in [Pid -> Process]
    BY <1>16, <1>u DEF ForkExternal
  <2>1. CASE Goto(p, "restore", 1)
    BY <1>l, <2>1, GotoType DEF Status
  <2>2. CASE /\ FreePid # {}
             /\ proc' = [proc EXCEPT ![NewPid] = Fork(p, "external_child"),
                                     ![p].pc = "ignore_signals",
                                     ![p].pid1 = NewPid]
    BY <1>l, <1>f, <2>2
  <2> QED
    BY <1>16, <2>1, <2>2 DEF ForkExternal
<1>17. CASE IgnoreSignals(p)
  BY <1>17, DispType DEF IgnoreSignals, TypeOK, Location
<1>w. ASSUME NEW c \in Pid
      PROVE  proc[c].stat \in Status
  BY DEF TypeOK, Process
<1>18. CASE WaitExternal(p)
  <2> DEFINE c == proc[p].pid1
             s == proc[c].stat
  <2>1. c \in Pid /\ s \in Status
    BY <1>p, <1>w
  <2>2. proc' = [proc EXCEPT ![c] = Unused, ![p].pc = "restore",
                             ![p].stat = s]
    BY <1>18 DEF WaitExternal
  <2> HIDE DEF c, s
  <2>3. proc' \in [Pid -> Process]
    <3>1. "restore" \in Location
      BY <1>l
    <3>2. [proc EXCEPT ![c] = Unused, ![p].pc = "restore", ![p].stat = s]
            \in [Pid -> Process]
      BY <2>1, <3>1, WaitType
    <3> QED
      BY <2>2, <3>2
  <2> QED
    BY <1>18, <1>u, <2>3 DEF WaitExternal
<1>19. CASE ResetSignals(p)
  BY <1>19, DispType DEF ResetSignals, TypeOK, Location
<1>20. CASE StartProgram(p)
  <2> SUFFICES proc' \in [Pid -> Process]
    BY <1>20, <1>u DEF StartProgram
  <2>1. CASE Exit(p, 127) \/ \E s \in {126, 1} : Exit(p, s)
    BY <2>1, ExitType DEF Status
  <2>2. CASE proc' = [proc EXCEPT ![p].pc = "program", ![p].todo = Work]
    <3>1. Work \in 0 .. (Work + MaxBody)
      BY ExecutorAssumption
    <3> QED
      BY <1>l, <2>2, <3>1, TodoType
  <2> QED
    BY <1>20, <2>1, <2>2 DEF StartProgram
<1>23. CASE ProgramWrite(p)
  BY <1>23, PcType, WriteType DEF ProgramWrite, TypeOK, Location
<1>24. CASE SigPipe(p)
  BY <1>24, DieType DEF SigPipe, TypeOK, Status
<1>26. CASE ForkLeft(p)
  <2> SUFFICES proc' \in [Pid -> Process]
    BY <1>26, <1>u DEF ForkLeft
  <2>1. CASE proc' = [proc EXCEPT ![p].pc = "return", ![p].stat = 1,
                                  ![p].fd = PipeClosed(p)]
    <3>1. proc' = [proc EXCEPT ![p].fd = PipeClosed(p), ![p].pc = "return",
                               ![p].stat = 1]
      BY <2>1
    <3>2. 1 \in Status
      BY DEF Status
    <3> QED
      BY <1>l, <3>1, <3>2, PipeClosedType, FdStatType
  <2>2. CASE /\ FreePid # {}
             /\ proc' = [proc EXCEPT ![NewPid] = Fork(p, "left_child"),
                                     ![p].pc = "fork_right",
                                     ![p].pid1 = NewPid]
    BY <1>l, <1>f, <2>2
  <2> QED
    BY <1>26, <2>1, <2>2 DEF ForkLeft
<1>27. CASE ForkRight(p)
  <2> SUFFICES proc' \in [Pid -> Process]
    BY <1>27, <1>u DEF ForkRight
  <2>1. CASE proc' = [proc EXCEPT ![p].pc = "wait_only_left",
                                  ![p].fd = PipeClosed(p)]
    BY <1>l, <2>1, FdType, PipeClosedType
  <2>2. CASE /\ FreePid # {}
             /\ proc' = [proc EXCEPT ![NewPid] = Fork(p, "right_child"),
                                     ![p].pc = "close_ends",
                                     ![p].pid2 = NewPid]
    BY <1>l, <1>f, <2>2
  <2> QED
    BY <1>27, <2>1, <2>2 DEF ForkRight
<1>30. CASE CloseEnds(p)
  BY <1>30, FdType, PipeClosedType DEF CloseEnds, TypeOK, Location
<1>31. CASE WaitLeft(p)
  <2> DEFINE c == proc[p].pid1
  <2>1. c \in Pid /\ 1 \in Status
    BY <1>p DEF Status
  <2>2. \/ proc' = [proc EXCEPT ![c] = Unused, ![p].pc = "wait_right"]
        \/ proc' = [proc EXCEPT ![c] = Unused, ![p].pc = "return",
                                ![p].stat = 1]
    BY <1>31 DEF WaitLeft
  <2> HIDE DEF c
  <2>3. proc' \in [Pid -> Process]
    <3>1. "wait_right" \in Location /\ "return" \in Location
      BY <1>l
    <3>2. /\ [proc EXCEPT ![c] = Unused, ![p].pc = "wait_right"]
               \in [Pid -> Process]
          /\ [proc EXCEPT ![c] = Unused, ![p].pc = "return", ![p].stat = 1]
               \in [Pid -> Process]
      BY <2>1, <3>1, WaitType
    <3> QED
      BY <2>2, <3>2
  <2> QED
    BY <1>31, <1>u, <2>3 DEF WaitLeft
<1>32. CASE WaitRight(p)
  <2> DEFINE c == proc[p].pid2
             s == proc[c].stat
  <2>1. c \in Pid /\ s \in Status
    BY <1>p, <1>w
  <2>2. proc' = [proc EXCEPT ![c] = Unused, ![p].pc = "return",
                             ![p].stat = s]
    BY <1>32 DEF WaitRight
  <2> HIDE DEF c, s
  <2>3. proc' \in [Pid -> Process]
    <3>1. "return" \in Location
      BY <1>l
    <3>2. [proc EXCEPT ![c] = Unused, ![p].pc = "return", ![p].stat = s]
            \in [Pid -> Process]
      BY <2>1, <3>1, WaitType
    <3> QED
      BY <2>2, <3>2
  <2> QED
    BY <1>32, <1>u, <2>3 DEF WaitRight
<1>33. CASE Deliver(p)
  BY <1>33, DieType, PendingType, WriteType DEF Deliver, TypeOK, Status
<1>4. CASE SaveFds(p)
  <2>1. CASE Goto(p, "return", 1)
    BY <1>4, <1>u, <1>l, <2>1, GotoType DEF SaveFds, Status
  <2>2. CASE Cardinality(Free(p)) >= 2 /\ ~Goto(p, "return", 1)
    <3> DEFINE f == [proc[p].fd EXCEPT ![Lowest(p)] = proc[p].fd[0],
                                       ![Second(p)] = proc[p].fd[1]]
               l == IF Kind[proc[p].cur] = "COMMAND"
                    THEN "command" ELSE "redirect"
               s == <<[node |-> proc[p].cur,
                       fds |-> <<Lowest(p), Second(p)>>]>> \o proc[p].frames
    <3>1. l \in Location
      BY DEF Location
    <3>2. Lowest(p) \in Fd /\ Second(p) \in Fd
      BY <2>2, FreeFds
    <3>3. 0 \in Fd /\ 1 \in Fd
      BY ExecutorAssumption DEF Fd
    <3>4. f \in [Fd -> Object]
      BY <1>p, <3>2, <3>3
    <3>5. [node |-> proc[p].cur, fds |-> <<Lowest(p), Second(p)>>] \in Frame
      BY <1>4, <1>p, <3>2 DEF SaveFds, AtNode, Frame, n
    <3>6. s \in Seq(Frame)
      BY <1>p, <3>5
    <3>7. proc' = [proc EXCEPT ![p].pc = l, ![p].fd = f, ![p].frames = s]
      <4>1. proc' = [proc EXCEPT
              ![p].pc = l,
              ![p].fd = [@ EXCEPT ![Lowest(p)] = proc[p].fd[0],
                                  ![Second(p)] = proc[p].fd[1]],
              ![p].frames = <<[node |-> proc[p].cur,
                               fds |-> <<Lowest(p), Second(p)>>]>> \o @]
        BY <1>4, <2>2 DEF SaveFds
      <4> QED
        BY <4>1
    <3> HIDE DEF l, f, s
    <3>8. proc' \in [Pid -> Process]
      BY <3>1, <3>4, <3>6, <3>7, SaveType
    <3> QED
      BY <1>4, <3>8 DEF SaveFds, TypeOK
  <2> QED
    BY <1>4, <2>1, <2>2 DEF SaveFds
<1>5. CASE RestoreFds(p)
  <2> DEFINE top == Head(proc[p].frames)
             f == [g \in Fd |->
                     CASE g = 0 -> proc[p].fd[top.fds[1]]
                       [] g = 1 -> proc[p].fd[top.fds[2]]
                       [] g \in {top.fds[1], top.fds[2]} -> Closed
                       [] OTHER -> proc[p].fd[g]]
  <2>1. top \in Frame /\ Tail(proc[p].frames) \in Seq(Frame)
    <3>1. proc[p].frames # <<>>
      BY <1>5, Zenon DEF RestoreFds
    <3> QED
      BY <1>p, <3>1
  <2>2. top.node \in Node /\ top.fds[1] \in Fd /\ top.fds[2] \in Fd
    BY <2>1 DEF Frame
  <2>3. proc' = [proc EXCEPT ![p].pc = "return", ![p].cur = top.node,
                             ![p].frames = Tail(proc[p].frames), ![p].fd = f]
    BY <1>5 DEF RestoreFds
  <2> HIDE DEF top
  <2>4. f \in [Fd -> Object]
    BY <1>p, <2>2, ObjectTypes
  <2> HIDE DEF f
  <2>5. proc' \in [Pid -> Process]
    BY <2>1, <2>2, <2>3, <2>4, FramesType DEF Location
  <2> QED
    BY <1>5, <2>5 DEF RestoreFds, TypeOK
<1>c. ASSUME NEW f \in [Fd -> Object], n # NoNode, RedirectedCommand(p, f)
      PROVE  proc' \in [Pid -> Process]
  <2>1. CASE /\ Left[n] = NoNode
             /\ proc' = [proc EXCEPT ![p].fd = f, ![p].pc = "restore",
                                     ![p].stat = 2]
    <3>1. 2 \in Status
      BY DEF Status
    <3> QED
      BY <1>l, <1>c, <2>1, <3>1, FdStatType
  <2>2. CASE proc' = [proc EXCEPT ![p].fd = f, ![p].pc = "exec",
                                  ![p].cur = Left[n]]
    <3>1. Left[n] \in Node \cup {NoNode}
      BY <1>c, <1>n
    <3> QED
      BY <1>l, <1>c, <2>2, <3>1, FdCurType
  <2> QED
    BY <1>c, <2>1, <2>2 DEF RedirectedCommand, n
<1>7. CASE RedirectFile(p)
  <2>1. n \in Node
    BY <1>7, <1>p DEF RedirectFile, AtNode, n
  <2>2. CASE Goto(p, "restore", 1)
    BY <1>7, <2>2, GotoType DEF RedirectFile, TypeOK, Location, Status
  <2>3. CASE RedirectedCommand(p, proc[p].fd)
    BY <1>7, <1>c, <1>p, <2>1, <2>3, TreeAssumption DEF RedirectFile, TypeOK
  <2>4. CASE \E std \in {0, 1} :
               RedirectedCommand(p, [proc[p].fd EXCEPT ![std] = FileOf(n)])
    <3>1. PICK std \in {0, 1} :
                 RedirectedCommand(p, [proc[p].fd EXCEPT ![std] = FileOf(n)])
      BY <2>4
    <3>2. FileOf(n) \in Object
      BY <2>1, ObjectTypes
    <3>3. [proc[p].fd EXCEPT ![std] = FileOf(n)] \in [Fd -> Object]
      BY <1>p, <3>2
    <3> QED
      BY <1>7, <1>c, <2>1, <3>1, <3>3, TreeAssumption DEF RedirectFile, TypeOK
  <2> QED
    BY <1>7, <2>2, <2>3, <2>4 DEF RedirectFile, n
<1>o. ASSUME Cardinality(Free(p)) >= 2, n \in Node
      PROVE  /\ PipeOpened(p, n) \in [Fd -> Object]
             /\ <<Lowest(p), Second(p)>> \in Fd \X Fd
  <2>1. Lowest(p) \in Fd /\ Second(p) \in Fd
    BY <1>o, FreeFds
  <2>2. ReadEnd(n) \in Object /\ WriteEnd(n) \in Object
    BY <1>o, ObjectTypes
  <2> QED
    BY <1>p, <2>1, <2>2 DEF PipeOpened
<1>e. [buf EXCEPT ![n] = 0] \in [Node -> 0 .. PipeCap]
  BY BufferType, ExecutorAssumption
<1>8. CASE HereDocument(p)
  <2>1. n \in Node
    BY <1>8, <1>p DEF HereDocument, AtNode, n
  <2>2. MaxBody \in 0 .. (Work + MaxBody)
    BY ExecutorAssumption
  <2>3. CASE Goto(p, "restore", 1) /\ UNCHANGED buf
    <3>1. proc' \in [Pid -> Process]
      BY <1>l, <2>3, GotoType DEF Status
    <3> QED
      BY <1>8, <1>u, <2>3, <3>1 DEF HereDocument
  <2>4. CASE /\ Cardinality(Free(p)) >= 2
             /\ proc' = [proc EXCEPT
                  ![p].pc = "here_prompt",
                  ![p].pipefd = <<Lowest(p), Second(p)>>,
                  ![p].fd = PipeOpened(p, n), ![p].todo = MaxBody]
             /\ buf' = [buf EXCEPT ![n] = 0]
    <3> DEFINE d == <<Lowest(p), Second(p)>>
               f == PipeOpened(p, n)
    <3>1. d \in Fd \X Fd /\ f \in [Fd -> Object]
      BY <1>o, <2>1, <2>4
    <3>2. proc' = [proc EXCEPT ![p].pc = "here_prompt", ![p].pipefd = d,
                               ![p].fd = f, ![p].todo = MaxBody]
      BY <2>4
    <3> HIDE DEF d, f
    <3>3. proc' \in [Pid -> Process]
      BY <1>l, <2>2, <3>1, <3>2, HereType
    <3>4. buf' \in [Node -> 0 .. PipeCap]
      BY <1>e, <2>4
    <3> QED
      BY <1>8, <3>3, <3>4 DEF HereDocument, TypeOK
  <2> QED
    BY <1>8, <2>3, <2>4 DEF HereDocument, n
<1>10. CASE HereLine(p)
  <2>1. proc[p].todo - 1 \in 0 .. (Work + MaxBody)
    BY <1>10, <1>p, ExecutorAssumption DEF HereLine
  <2>2. proc' = [proc EXCEPT ![p].pc = "here_write",
                             ![p].todo = proc[p].todo - 1]
    BY <1>10 DEF HereLine
  <2> QED
    BY <1>10, <2>1, <2>2, TodoType, ReadType DEF HereLine, TypeOK, Location
<1>11. CASE HereWrite(p)
  <2>1. buf[n] < PipeCap /\ n \in Node /\ buf' = [buf EXCEPT ![n] = buf[n] + 1]
    BY <1>11, <1>p DEF HereWrite, n
  <2>2. buf[n] + 1 \in 0 .. PipeCap
    BY <2>1, ExecutorAssumption DEF TypeOK
  <2>3. buf' \in [Node -> 0 .. PipeCap]
    BY <2>1, <2>2, BufferType
  <2> QED
    BY <1>11, <2>3, PcType DEF HereWrite, TypeOK, Location
<1>12. CASE HereEnd(p)
  <2> DEFINE f == [proc[p].fd EXCEPT ![0] = proc[p].fd[proc[p].pipefd[1]],
                                     ![proc[p].pipefd[1]] = Closed,
                                     ![proc[p].pipefd[2]] = Closed]
  <2>1. n # NoNode /\ RedirectedCommand(p, f)
    BY <1>12 DEF HereEnd, AtNode, n
  <2>2. f \in [Fd -> Object]
    BY <1>p, ObjectTypes
  <2> HIDE DEF f
  <2>3. proc' \in [Pid -> Process]
    BY <1>c, <2>1, <2>2
  <2> QED
    BY <1>12, <2>3, ReadType DEF HereEnd, TypeOK
<1>t. ASSUME ProgramExit(p)
      PROVE  proc' \in [Pid -> Process]
  BY <1>t, ExitType DEF ProgramExit, Status
<1>21. CASE ProgramRead(p)
  <2>1. ASSUME Consume(p)
        PROVE  proc' \in [Pid -> Process]
    <3> DEFINE k == IF proc[p].todo > 0 THEN proc[p].todo - 1 ELSE 0
    <3>1. k \in 0 .. (Work + MaxBody)
      BY <1>p, ExecutorAssumption
    <3>2. CASE proc' = [proc EXCEPT ![p].pc = "program_write", ![p].todo = k]
      BY <3>1, <3>2, TodoType DEF Location
    <3> QED
      BY <1>t, <2>1, <3>2 DEF Consume
  <2> QED
    BY <1>21, <1>t, <2>1, ReadType DEF ProgramRead, TypeOK
<1>22. CASE ProgramProduce(p)
  <2>1. CASE proc[p].todo = 0 /\ ProgramExit(p)
    BY <1>22, <1>t, <2>1 DEF ProgramProduce, TypeOK
  <2>2. CASE /\ proc[p].todo > 0
             /\ proc' = [proc EXCEPT ![p].pc = "program_write",
                                     ![p].todo = proc[p].todo - 1]
    <3>1. proc[p].todo - 1 \in 0 .. (Work + MaxBody)
      BY <2>2, <1>p, ExecutorAssumption
    <3> QED
      BY <1>22, <2>2, <3>1, TodoType DEF ProgramProduce, TypeOK, Location
  <2> QED
    BY <1>22, <2>1, <2>2 DEF ProgramProduce
<1>25. CASE ExecPipe(p)
  <2>1. n \in Node
    BY <1>25, <1>p DEF ExecPipe, AtNode, n
  <2>2. CASE (Goto(p, "return", 2) \/ Goto(p, "return", 1)) /\ UNCHANGED buf
    <3>1. proc' \in [Pid -> Process]
      BY <1>l, <2>2, GotoType DEF Status
    <3> QED
      BY <1>25, <1>u, <2>2, <3>1 DEF ExecPipe
  <2>3. CASE /\ Cardinality(Free(p)) >= 2
             /\ proc' = [proc EXCEPT
                  ![p].pc = "fork_left",
                  ![p].pipefd = <<Lowest(p), Second(p)>>,
                  ![p].fd = PipeOpened(p, n)]
             /\ buf' = [buf EXCEPT ![n] = 0]
    <3> DEFINE d == <<Lowest(p), Second(p)>>
               f == PipeOpened(p, n)
    <3>1. d \in Fd \X Fd /\ f \in [Fd -> Object]
      BY <1>o, <2>1, <2>3
    <3>2. proc' = [proc EXCEPT ![p].pc = "fork_left", ![p].pipefd = d,
                               ![p].fd = f]
      BY <2>3
    <3> HIDE DEF d, f
    <3>3. proc' \in [Pid -> Process]
      BY <1>l, <3>1, <3>2, PipeType
    <3>4. buf' \in [Node -> 0 .. PipeCap]
      BY <1>e, <2>3
    <3> QED
      BY <1>25, <3>3, <3>4 DEF ExecPipe, TypeOK
  <2> QED
    BY <1>25, <2>2, <2>3 DEF ExecPipe, n
<1>28. CASE LeftChild(p)
  <2> DEFINE f == [PipeClosed(p) EXCEPT ![1] = proc[p].fd[proc[p].pipefd[2]]]
  <2>1. f \in [Fd -> Object]
    BY <1>p, PipeClosedType
  <2>2. Left[n] \in Node \cup {NoNode}
    BY <1>28, <1>n DEF LeftChild, AtNode, n
  <2>3. proc' = [proc EXCEPT ![p].pc = "exec", ![p].cur = Left[n],
                             ![p].frames = <<>>, ![p].fd = f]
    BY <1>28 DEF LeftChild, n
  <2> HIDE DEF f
  <2>4. <<>> \in Seq(Frame)
    OBVIOUS
  <2>5. proc' \in [Pid -> Process]
    BY <1>l, <2>1, <2>2, <2>3, <2>4, FramesType
  <2> QED
    BY <1>28, <1>u, <2>5 DEF LeftChild
<1>29. CASE RightChild(p)
  <2> DEFINE f == [PipeClosed(p) EXCEPT ![0] = proc[p].fd[proc[p].pipefd[1]]]
  <2>1. f \in [Fd -> Object]
    BY <1>p, PipeClosedType
  <2>2. Right[n] \in Node \cup {NoNode}
    BY <1>29, <1>n DEF RightChild, AtNode, n
  <2>3. proc' = [proc EXCEPT ![p].pc = "exec", ![p].cur = Right[n],
                             ![p].frames = <<>>, ![p].fd = f]
    BY <1>29 DEF RightChild, n
  <2> HIDE DEF f
  <2>4. <<>> \in Seq(Frame)
    OBVIOUS
  <2>5. proc' \in [Pid -> Process]
    BY <1>l, <2>1, <2>2, <2>3, <2>4, FramesType
  <2> QED
    BY <1>29, <1>u, <2>5 DEF RightChild
<1> QED
  BY <1>1, <1>2, <1>3, <1>4, <1>5, <1>6, <1>7, <1>8, <1>9, <1>10, <1>11,
     <1>12, <1>13, <1>14, <1>15, <1>16, <1>17, <1>18, <1>19, <1>20, <1>21,
     <1>22, <1>23, <1>24, <1>25, <1>26, <1>27, <1>28, <1>29, <1>30, <1>31,
     <1>32, <1>33 DEF Step

LEMMA InitType == Init => TypeOK
<1> SUFFICES ASSUME Init
             PROVE  TypeOK
  OBVIOUS
<1>1. [Unused EXCEPT !.pc = "prompt", !.fd = ShellFds, !.disp = "handler"]
        \in Process
  <2> DEFINE e == Unused
  <2>1. e \in Process
    BY UnusedType
  <2>2. ShellFds \in [Fd -> Object]
    BY ObjectTypes DEF ShellFds
  <2> HIDE DEF e
  <2>3. [e EXCEPT !.pc = "prompt", !.fd = ShellFds, !.disp = "handler"]
          \in Process
    BY ZenonT(60), <2>1, <2>2 DEF Process, Location
  <2> QED
    BY <2>3 DEF e
<1>2. proc \in [Pid -> Process]
  BY <1>1, UnusedType DEF Init
<1>3. buf \in [Node -> 0 .. PipeCap] /\ limit \in FdLimits
      /\ lines \in 0 .. MaxLines /\ signals \in 0 .. MaxSignals
  BY ExecutorAssumption DEF Init
<1> QED
  BY <1>2, <1>3 DEF TypeOK

LEMMA TypedType ==
  ASSUME TypeOK, NEW sig \in {"int", "quit"}, NEW D, Typed(sig, D)
  PROVE  TypeOK'
<1>1. ASSUME NEW e \in Process
      PROVE  [e EXCEPT !.pending = sig] \in Process
  BY <1>1 DEF Process
<1>2. \A q \in Pid : proc[q] \in Process
  BY DEF TypeOK
<1>3. proc' \in [Pid -> Process]
  BY <1>1, <1>2 DEF Typed
<1>4. signals' \in 0 .. MaxSignals
  BY ExecutorAssumption DEF Typed, TypeOK
<1> QED
  BY <1>3, <1>4 DEF Typed, TypeOK

LEMMA TypeNext == TypeOK /\ [Next]_vars => TypeOK'
<1> SUFFICES ASSUME TypeOK, [Next]_vars
             PROVE  TypeOK'
  OBVIOUS
<1>1. CASE \E n \in Line : ReadLine(n)
  <2>1. PICK n \in Line : ReadLine(n)
    BY <1>1
  <2>2. n \in Node \cup {NoNode} /\ "exec" \in Location /\ Shell \in Pid
    BY TreeAssumption, ExecutorAssumption DEF Location
  <2>3. proc' \in [Pid -> Process]
    BY <2>1, <2>2, LineType DEF ReadLine
  <2>4. lines' \in 0 .. MaxLines
    BY <2>1, ExecutorAssumption DEF ReadLine, TypeOK
  <2> QED
    BY <2>1, <2>3, <2>4 DEF ReadLine, TypeOK
<1>2. CASE EndOfInput
  <2>1. Shell \in Pid /\ proc[Shell].g_exit_code \in Status
    BY ExecutorAssumption DEF TypeOK, Process
  <2> QED
    BY <1>2, <2>1, ExitType DEF EndOfInput, TypeOK
<1>3. CASE \E p \in Pid : Step(p)
  BY <1>3, TypeStep
<1>4. CASE Interrupt
  BY <1>4, TypedType DEF Interrupt
<1>5. CASE Quit
  BY <1>5, TypedType DEF Quit
<1>6. CASE \E p \in Pid : ReapOrphan(p)
  BY <1>6, UnusedType, TableType DEF ReapOrphan, TypeOK
<1>7. CASE UNCHANGED vars
  BY <1>7 DEF vars, TypeOK
<1> QED
  BY <1>1, <1>2, <1>3, <1>4, <1>5, <1>6, <1>7 DEF Next, Gone

\* The process table, the pipes and the counters stay within their types
\* whatever is typed, forked, killed or refused by the kernel.
THEOREM TypeCorrect == Spec => []TypeOK
  BY InitType, TypeNext, PTL DEF Spec

-----------------------------------------------------------------------------
(* Every child is waited for. *)

\* ChildrenAwaited is inductive once no process is its own parent.
ReapInv == ChildrenAwaited /\ \A p \in Pid : proc[p].parent # p

\* What a process that neither forks, waits nor dies does to the others and to
\* its own children: nothing.
Alone(p) ==
  /\ proc[p].pc # "unused"
  /\ \A q \in Pid \ {p} : proc'[q] = proc[q]
  /\ proc'[p].parent = proc[p].parent
  /\ Awaited(p) \subseteq Awaited(p)'

LEMMA AwaitedAlone ==
  ASSUME ReapInv, NEW p \in Pid, Alone(p)
  PROVE  ReapInv'
<1>o. \A q \in Pid : proc'[q].parent # q
  BY DEF ReapInv, Alone
<1> SUFFICES ASSUME NEW q \in Pid, NEW c \in Pid,
                    proc'[c].pc # "unused", proc'[c].parent = q
             PROVE  c \in Awaited(q)'
  BY <1>o DEF ReapInv, ChildrenAwaited
<1>1. proc[c].pc # "unused" /\ proc[c].parent = q
  BY DEF Alone
<1>2. c \in Awaited(q)
  BY <1>1 DEF ReapInv, ChildrenAwaited
<1>3. CASE q = p
  BY <1>2, <1>3 DEF Alone
<1>4. CASE q # p
  <2>1. proc'[q] = proc[q]
    BY <1>4 DEF Alone
  <2> QED
    BY <1>2, <2>1 DEF Awaited
<1> QED
  BY <1>3, <1>4

\* waitpid: c is freed and p no longer waits for it.  A process that has ended
\* awaits nobody, so it leaves no child behind.
LEMMA AwaitedReaped ==
  ASSUME ReapInv, NEW p \in Pid \cup {Reaper}, NEW c \in Pid, c # p,
         proc[c].pc \in Ended, proc'[c] = Unused,
         \A q \in Pid \ {p, c} : proc'[q] = proc[q],
         p \in Pid => /\ proc[p].pc # "unused"
                      /\ proc'[p].parent = proc[p].parent
                      /\ Awaited(p) \subseteq Awaited(p)' \cup {c}
  PROVE  ReapInv'
<1>o. \A q \in Pid : proc'[q].parent # q
  BY ExecutorAssumption DEF ReapInv, Unused
<1> SUFFICES ASSUME NEW q \in Pid, NEW d \in Pid,
                    proc'[d].pc # "unused", proc'[d].parent = q
             PROVE  d \in Awaited(q)'
  BY <1>o DEF ReapInv, ChildrenAwaited
<1>1. d # c /\ proc[d].pc # "unused" /\ proc[d].parent = q
  <2>1. d # c
    BY DEF Unused
  <2>2. CASE d = p
    BY <2>1, <2>2
  <2>3. CASE d # p
    BY <2>1, <2>3
  <2> QED
    BY <2>1, <2>2, <2>3
<1>2. d \in Awaited(q)
  BY <1>1 DEF ReapInv, ChildrenAwaited
<1>3. q # c
  BY <1>2 DEF Awaited, Ended
<1>4. CASE q = p
  BY <1>1, <1>2, <1>4
<1>5. CASE q # p
  <2>1. proc'[q] = proc[q]
    BY <1>3, <1>5
  <2> QED
    BY <1>2, <2>1 DEF Awaited
<1> QED
  BY <1>4, <1>5

\* fork: p keeps the identifier of the child c.
LEMMA AwaitedForked ==
  ASSUME ReapInv, NEW p \in Pid, NEW c \in Pid,
         proc[c].pc = "unused", proc[p].pc # "unused",
         \A q \in Pid \ {p, c} : proc'[q] = proc[q],
         proc'[p].parent = proc[p].parent, proc'[c].parent = p,
         Awaited(p) \cup {c} \subseteq Awaited(p)'
  PROVE  ReapInv'
<1>o. \A q \in Pid : proc'[q].parent # q
  BY DEF ReapInv
<1> SUFFICES ASSUME NEW q \in Pid, NEW d \in Pid,
                    proc'[d].pc # "unused", proc'[d].parent = q
             PROVE  d \in Awaited(q)'
  BY <1>o DEF ReapInv, ChildrenAwaited
<1>1. CASE d = c
  BY <1>1
<1>2. CASE d # c
  <2>1. proc[d].pc # "unused" /\ proc[d].parent = q
    BY <1>2
  <2>2. d \in Awaited(q)
    BY <2>1 DEF ReapInv, ChildrenAwaited
  <2>3. q # c
    BY <2>2 DEF Awaited
  <2>4. CASE q = p
    BY <2>2, <2>4
  <2>5. CASE q # p
    <3>1. proc'[q] = proc[q]
      BY <2>3, <2>5
    <3> QED
      BY <2>2, <3>1 DEF Awaited
  <2> QED
    BY <2>4, <2>5
<1> QED
  BY <1>1, <1>2

\* Death by a signal: init takes the children over.
LEMMA AwaitedDead ==
  ASSUME TypeOK, ReapInv, NEW p \in Pid, NEW s \in Status, Die(p, s),
         proc[p].pc # "unused"
  PROVE  ReapInv'
<1>d. /\ DOMAIN proc = Pid
      /\ \A q \in Pid : DOMAIN proc[q] =
           {"pc", "cur", "frames", "fd", "disp", "pending", "stat",
            "g_exit_code", "pid1", "pid2", "pipefd", "parent", "todo"}
  BY DEF TypeOK, Process
<1>r. ASSUME NEW q \in Pid
      PROVE  /\ proc'[q].parent # p /\ proc'[q].parent # q
             /\ proc'[q].parent \in Pid => proc'[q].parent = proc[q].parent
             /\ proc'[q].pc # "unused" => proc[q].pc # "unused"
  <2>1. CASE q = p
    BY <1>d, <2>1 DEF Die, ReapInv
  <2>2. CASE q # p
    BY <1>d, <2>2, ExecutorAssumption DEF Die, ReapInv
  <2> QED
    BY <2>1, <2>2
<1>o. \A q \in Pid : proc'[q].parent # q
  BY <1>r
<1> SUFFICES ASSUME NEW q \in Pid, NEW c \in Pid,
                    proc'[c].pc # "unused", proc'[c].parent = q
             PROVE  c \in Awaited(q)'
  BY <1>o DEF ReapInv, ChildrenAwaited
<1>1. proc[c].parent = q /\ proc[c].pc # "unused" /\ q # p
  BY <1>r
<1>2. c \in Awaited(q)
  BY <1>1 DEF ReapInv, ChildrenAwaited
<1>4. /\ proc'[q].pc = proc[q].pc /\ proc'[q].pid1 = proc[q].pid1
      /\ proc'[q].pid2 = proc[q].pid2
  BY <1>d, <1>1 DEF Die
<1> QED
  BY <1>2, <1>4 DEF Awaited

\* One step of one process.
LEMMA AwaitedStep ==
  ASSUME TypeOK, ReapInv, NEW p \in Pid, Step(p)
  PROVE  ReapInv'
<1>d. /\ DOMAIN proc = Pid
      /\ \A q \in Pid : DOMAIN proc[q] =
           {"pc", "cur", "frames", "fd", "disp", "pending", "stat",
            "g_exit_code", "pid1", "pid2", "pipefd", "parent", "todo"}
  BY DEF TypeOK, Process
<1>e. ASSUME NEW s, Exit(p, s), proc[p].pc \notin {"unused", "close_ends",
               "fork_right", "wait_only_left", "wait_left", "wait_right",
               "ignore_signals", "wait_external"}
      PROVE  Alone(p)
  BY <1>d, <1>e DEF Exit, Alone, Awaited
<1>g. ASSUME NEW l, NEW s, Goto(p, l, s), proc[p].pc \notin {"unused",
               "close_ends", "fork_right", "wait_only_left", "wait_left",
               "wait_right", "ignore_signals", "wait_external"}
      PROVE  Alone(p)
  BY <1>d, <1>g DEF Goto, Alone, Awaited
<1>1. CASE ExecTrivial(p)
  <2>1. Alone(p)
    BY <1>d, <1>1, <1>g
    DEF ExecTrivial, Alone, Awaited, AtNode, At
  <2> QED
    BY <2>1, AwaitedAlone
<1>2. CASE ExecWord(p)
  <2>1. Alone(p)
    BY <1>d, <1>2, <1>g
    DEF ExecWord, Alone, Awaited, AtNode, At
  <2> QED
    BY <2>1, AwaitedAlone
<1>3. CASE Word(p)
  <2>1. Alone(p)
    BY <1>d, <1>3
    DEF Word, Alone, Awaited, At
  <2> QED
    BY <2>1, AwaitedAlone
<1>4. CASE SaveFds(p)
  <2>1. Alone(p)
    BY <1>d, <1>4, <1>g
    DEF SaveFds, Alone, Awaited, AtNode, At
  <2> QED
    BY <2>1, AwaitedAlone
<1>5. CASE RestoreFds(p)
  <2>1. Alone(p)
    BY <1>d, <1>5
    DEF RestoreFds, Alone, Awaited, At
  <2> QED
    BY <2>1, AwaitedAlone
<1>6. CASE Return(p)
  <2>1. Alone(p)
    BY <1>d, <1>6, <1>e
    DEF Return, Alone, Awaited, At
  <2> QED
    BY <2>1, AwaitedAlone
<1>7. CASE RedirectFile(p)
  <2>1. Alone(p)
    BY <1>d, <1>7, <1>g
    DEF RedirectFile, Alone, Awaited, AtNode, At, RedirectedCommand
  <2> QED
    BY <2>1, AwaitedAlone
<1>8. CASE HereDocument(p)
  <2>1. Alone(p)
    BY <1>d, <1>8, <1>g
    DEF HereDocument, Alone, Awaited, AtNode, At
  <2> QED
    BY <2>1, AwaitedAlone
<1>9. CASE HerePrompt(p)
  <2>1. Alone(p)
    BY <1>d, <1>9
    DEF HerePrompt, Alone, Awaited, At
  <2> QED
    BY <2>1, AwaitedAlone
<1>10. CASE HereLine(p)
  <2>1. Alone(p)
    BY <1>d, <1>10
    DEF HereLine, Alone, Awaited, At
  <2> QED
    BY <2>1, AwaitedAlone
<1>11. CASE HereWrite(p)
  <2>1. Alone(p)
    BY <1>d, <1>11
    DEF HereWrite, Alone, Awaited, At
  <2> QED
    BY <2>1, AwaitedAlone
<1>12. CASE HereEnd(p)
  <2>1. Alone(p)
    BY <1>d, <1>12
    DEF HereEnd, Alone, Awaited, AtNode, At, RedirectedCommand
  <2> QED
    BY <2>1, AwaitedAlone
<1>13. CASE QuietBuiltin(p)
  <2>1. Alone(p)
    BY <1>d, <1>13, <1>g
    DEF QuietBuiltin, Alone, Awaited, AtCommand, At
  <2> QED
    BY <2>1, AwaitedAlone
<1>14. CASE Echo(p)
  <2>1. Alone(p)
    BY <1>d, <1>14, <1>g
    DEF Echo, Alone, Awaited, AtCommand, At
  <2> QED
    BY <2>1, AwaitedAlone
<1>15. CASE ExitBuiltin(p)
  <2>1. Alone(p)
    BY <1>d, <1>15, <1>e, <1>g
    DEF ExitBuiltin, Alone, Awaited, AtCommand, At
  <2> QED
    BY <2>1, AwaitedAlone
<1>16. CASE IgnoreSignals(p)
  <2>1. Alone(p)
    BY <1>d, <1>16
    DEF IgnoreSignals, Alone, Awaited, At
  <2> QED
    BY <2>1, AwaitedAlone
<1>17. CASE ResetSignals(p)
  <2>1. Alone(p)
    BY <1>d, <1>17
    DEF ResetSignals, Alone, Awaited, At
  <2> QED
    BY <2>1, AwaitedAlone
<1>18. CASE StartProgram(p)
  <2>1. Alone(p)
    BY <1>d, <1>18, <1>e
    DEF StartProgram, Alone, Awaited, AtCommand, At
  <2> QED
    BY <2>1, AwaitedAlone
<1>19. CASE ProgramRead(p)
  <2>1. Alone(p)
    BY <1>d, <1>19, <1>e
    DEF ProgramRead, Alone, Awaited, AtCommand, At, Consume, ProgramExit
  <2> QED
    BY <2>1, AwaitedAlone
<1>20. CASE ProgramProduce(p)
  <2>1. Alone(p)
    BY <1>d, <1>20, <1>e
    DEF ProgramProduce, Alone, Awaited, AtCommand, At, ProgramExit
  <2> QED
    BY <2>1, AwaitedAlone
<1>21. CASE ProgramWrite(p)
  <2>1. Alone(p)
    BY <1>d, <1>21
    DEF ProgramWrite, Alone, Awaited, At
  <2> QED
    BY <2>1, AwaitedAlone
<1>22. CASE ExecPipe(p)
  <2>1. Alone(p)
    BY <1>d, <1>22, <1>g
    DEF ExecPipe, Alone, Awaited, AtNode, At
  <2> QED
    BY <2>1, AwaitedAlone
<1>23. CASE LeftChild(p)
  <2>1. Alone(p)
    BY <1>d, <1>23
    DEF LeftChild, Alone, Awaited, AtNode, At
  <2> QED
    BY <2>1, AwaitedAlone
<1>24. CASE RightChild(p)
  <2>1. Alone(p)
    BY <1>d, <1>24
    DEF RightChild, Alone, Awaited, AtNode, At
  <2> QED
    BY <2>1, AwaitedAlone
<1>25. CASE CloseEnds(p)
  <2>1. Alone(p)
    BY <1>d, <1>25
    DEF CloseEnds, Alone, Awaited, At
  <2> QED
    BY <2>1, AwaitedAlone
<1>26. CASE ForkExternal(p)
  <2> DEFINE c == NewPid
  <2>1. CASE /\ FreePid # {}
             /\ proc' = [proc EXCEPT ![c] = Fork(p, "external_child"),
                                     ![p].pc = "ignore_signals", ![p].pid1 = c]
    <3>1. c \in Pid /\ proc[c].pc = "unused" /\ proc[p].pc = "command"
      BY <1>26, <2>1, NewPidFree DEF ForkExternal, AtCommand, At
    <3> HIDE DEF c
    <3>2. /\ proc'[c].parent = p /\ proc'[p].parent = proc[p].parent
          /\ \A q \in Pid \ {p, c} : proc'[q] = proc[q]
      BY <1>d, <2>1, <3>1 DEF Fork
    <3>3. Awaited(p) \cup {c} \subseteq Awaited(p)'
      BY <1>d, <2>1, <3>1 DEF Awaited
    <3> QED
      BY <3>1, <3>2, <3>3, AwaitedForked
  <2>2. CASE ~(FreePid # {} /\ proc' = [proc EXCEPT
                 ![c] = Fork(p, "external_child"), ![p].pc = "ignore_signals", ![p].pid1 = c])
    <3>1. Alone(p)
      BY <1>d, <1>26, <2>2, <1>g
      DEF ForkExternal, Alone, Awaited, AtCommand, At
    <3> QED
      BY <3>1, AwaitedAlone
  <2> QED
    BY <2>1, <2>2
<1>27. CASE ForkLeft(p)
  <2> DEFINE c == NewPid
  <2>1. CASE /\ FreePid # {}
             /\ proc' = [proc EXCEPT ![c] = Fork(p, "left_child"),
                                     ![p].pc = "fork_right", ![p].pid1 = c]
    <3>1. c \in Pid /\ proc[c].pc = "unused" /\ proc[p].pc = "fork_left"
      BY <1>27, <2>1, NewPidFree DEF ForkLeft, At
    <3> HIDE DEF c
    <3>2. /\ proc'[c].parent = p /\ proc'[p].parent = proc[p].parent
          /\ \A q \in Pid \ {p, c} : proc'[q] = proc[q]
      BY <1>d, <2>1, <3>1 DEF Fork
    <3>3. Awaited(p) \cup {c} \subseteq Awaited(p)'
      BY <1>d, <2>1, <3>1 DEF Awaited
    <3> QED
      BY <3>1, <3>2, <3>3, AwaitedForked
  <2>2. CASE ~(FreePid # {} /\ proc' = [proc EXCEPT
                 ![c] = Fork(p, "left_child"), ![p].pc = "fork_right", ![p].pid1 = c])
    <3>1. Alone(p)
      BY <1>d, <1>27, <2>2
      DEF ForkLeft, Alone, Awaited, At
    <3> QED
      BY <3>1, AwaitedAlone
  <2> QED
    BY <2>1, <2>2
<1>28. CASE ForkRight(p)
  <2> DEFINE c == NewPid
  <2>1. CASE /\ FreePid # {}
             /\ proc' = [proc EXCEPT ![c] = Fork(p, "right_child"),
                                     ![p].pc = "close_ends", ![p].pid2 = c]
    <3>1. c \in Pid /\ proc[c].pc = "unused" /\ proc[p].pc = "fork_right"
      BY <1>28, <2>1, NewPidFree DEF ForkRight, At
    <3> HIDE DEF c
    <3>2. /\ proc'[c].parent = p /\ proc'[p].parent = proc[p].parent
          /\ \A q \in Pid \ {p, c} : proc'[q] = proc[q]
      BY <1>d, <2>1, <3>1 DEF Fork
    <3>3. Awaited(p) \cup {c} \subseteq Awaited(p)'
      BY <1>d, <2>1, <3>1 DEF Awaited
    <3> QED
      BY <3>1, <3>2, <3>3, AwaitedForked
  <2>2. CASE ~(FreePid # {} /\ proc' = [proc EXCEPT
                 ![c] = Fork(p, "right_child"), ![p].pc = "close_ends", ![p].pid2 = c])
    <3>1. Alone(p)
      BY <1>d, <1>28, <2>2
      DEF ForkRight, Alone, Awaited, At
    <3> QED
      BY <3>1, AwaitedAlone
  <2> QED
    BY <2>1, <2>2
<1>k. ASSUME NEW q \in Pid
      PROVE  proc[q].pid1 \in Pid /\ proc[q].pid2 \in Pid
  BY DEF TypeOK, Process
<1>29. CASE WaitExternal(p)
  <2> DEFINE c == proc[p].pid1
  <2>1. /\ c \in Pid /\ proc[c].pc \in Ended /\ c # p
        /\ proc[p].pc \notin Ended \cup {"unused"}
    BY <1>29, <1>k DEF WaitExternal, At, Ended
  <2>2. proc'[c] = Unused /\ \A q \in Pid \ {p, c} : proc'[q] = proc[q]
    BY <1>d, <1>29, <2>1 DEF WaitExternal
  <2>3. proc'[p].parent = proc[p].parent
    BY <1>d, <1>29, <2>1 DEF WaitExternal
  <2>4. Awaited(p) \subseteq Awaited(p)' \cup {c}
    BY <1>d, <1>29, <2>1 DEF WaitExternal, At, Awaited
  <2> QED
    BY <2>1, <2>2, <2>3, <2>4, AwaitedReaped
<1>30. CASE WaitLeft(p)
  <2> DEFINE c == proc[p].pid1
  <2>1. /\ c \in Pid /\ proc[c].pc \in Ended /\ c # p
        /\ proc[p].pc \notin Ended \cup {"unused"}
    BY <1>30, <1>k DEF WaitLeft, At, Ended
  <2>2. proc'[c] = Unused /\ \A q \in Pid \ {p, c} : proc'[q] = proc[q]
    BY <1>d, <1>30, <2>1 DEF WaitLeft
  <2>3. proc'[p].parent = proc[p].parent
    BY <1>d, <1>30, <2>1 DEF WaitLeft
  <2>4. Awaited(p) \subseteq Awaited(p)' \cup {c}
    BY <1>d, <1>30, <2>1 DEF WaitLeft, At, Awaited
  <2> QED
    BY <2>1, <2>2, <2>3, <2>4, AwaitedReaped
<1>31. CASE WaitRight(p)
  <2> DEFINE c == proc[p].pid2
  <2>1. /\ c \in Pid /\ proc[c].pc \in Ended /\ c # p
        /\ proc[p].pc \notin Ended \cup {"unused"}
    BY <1>31, <1>k DEF WaitRight, At, Ended
  <2>2. proc'[c] = Unused /\ \A q \in Pid \ {p, c} : proc'[q] = proc[q]
    BY <1>d, <1>31, <2>1 DEF WaitRight
  <2>3. proc'[p].parent = proc[p].parent
    BY <1>d, <1>31, <2>1 DEF WaitRight
  <2>4. Awaited(p) \subseteq Awaited(p)' \cup {c}
    BY <1>d, <1>31, <2>1 DEF WaitRight, At, Awaited
  <2> QED
    BY <2>1, <2>2, <2>3, <2>4, AwaitedReaped
<1>32. CASE SigPipe(p)
  BY <1>32, AwaitedDead DEF SigPipe, Status
<1>33. CASE Deliver(p)
  <2>1. proc[p].pc # "unused"
    BY <1>33 DEF Deliver, Live
  <2>2. CASE \E s \in Status : Die(p, s)
    BY <2>1, <2>2, AwaitedDead
  <2>3. CASE proc' = [proc EXCEPT ![p].pending = "no"]
    <3>1. Alone(p)
      BY <1>d, <2>1, <2>3 DEF Alone, Awaited
    <3> QED
      BY <3>1, AwaitedAlone
  <2> QED
    BY <1>33, <2>2, <2>3 DEF Deliver, Status
<1> QED
  BY <1>1, <1>2, <1>3, <1>4, <1>5, <1>6, <1>7, <1>8, <1>9, <1>10, <1>11,
     <1>12, <1>13, <1>14, <1>15, <1>16, <1>17, <1>18, <1>19, <1>20, <1>21,
     <1>22, <1>23, <1>24, <1>25, <1>26, <1>27, <1>28, <1>29, <1>30, <1>31,
     <1>32, <1>33 DEF Step

LEMMA ReapInit == Init => ReapInv
  BY ExecutorAssumption
  DEF Init, ReapInv, ChildrenAwaited, Unused

LEMMA ReapNext == TypeOK /\ ReapInv /\ [Next]_vars => ReapInv'
<1> SUFFICES ASSUME TypeOK, ReapInv, [Next]_vars
             PROVE  ReapInv'
  OBVIOUS
<1>d. /\ DOMAIN proc = Pid
      /\ \A q \in Pid : DOMAIN proc[q] =
           {"pc", "cur", "frames", "fd", "disp", "pending", "stat",
            "g_exit_code", "pid1", "pid2", "pipefd", "parent", "todo"}
  BY DEF TypeOK, Process
<1>1. CASE (\E n \in Line : ReadLine(n)) \/ EndOfInput
  <2>1. Shell \in Pid /\ Alone(Shell)
    BY <1>d, <1>1, ExecutorAssumption
    DEF ReadLine, EndOfInput, Exit, At, Alone, Awaited
  <2> QED
    BY <2>1, AwaitedAlone
<1>2. CASE \E p \in Pid : Step(p)
  BY <1>2, AwaitedStep
<1>3. CASE Interrupt \/ Quit
  <2>1. \A q \in Pid : /\ proc'[q].pc = proc[q].pc
                        /\ proc'[q].parent = proc[q].parent
                        /\ proc'[q].pid1 = proc[q].pid1
                        /\ proc'[q].pid2 = proc[q].pid2
    BY <1>d, <1>3 DEF Interrupt, Quit, Typed
  <2> QED
    BY <2>1 DEF ReapInv, ChildrenAwaited, Awaited
<1>4. CASE \E p \in Pid : ReapOrphan(p)
  <2>1. PICK c \in Pid : ReapOrphan(c)
    BY <1>4
  <2>2. /\ proc[c].pc \in Ended /\ proc'[c] = Unused
        /\ \A q \in Pid \ {c} : proc'[q] = proc[q]
    BY <1>d, <2>1 DEF ReapOrphan
  <2> QED
    BY <2>2, ExecutorAssumption, AwaitedReaped
<1>5. CASE UNCHANGED vars
  BY <1>5 DEF vars, ReapInv, ChildrenAwaited, Awaited
<1> QED
  BY <1>1, <1>2, <1>3, <1>4, <1>5 DEF Next, Gone

\* Every child of every process is one it will still wait for.
THEOREM Awaits == Spec => []ChildrenAwaited
<1>1. TypeOK /\ ReapInv /\ [Next]_vars => TypeOK' /\ ReapInv'
  BY TypeNext, ReapNext
<1>2. ReapInv => ChildrenAwaited
  BY DEF ReapInv
<1> QED
  BY InitType, ReapInit, <1>1, <1>2, PTL DEF Spec

\* A process that has left, and the shell at its prompt, have no child left.
THEOREM Reaped == Spec => []ChildrenReaped
<1>1. ChildrenAwaited => ChildrenReaped
  BY DEF ChildrenAwaited, ChildrenReaped, Awaited
<1> QED
  BY Awaits, <1>1, PTL

-----------------------------------------------------------------------------
(* The inductive invariant, entry by entry of the process table.           *)

\* Where a process has a pipe it has just made, or was born with one: a
\* here-document's, a pipeline's.
Here == {"here_prompt", "here_read", "here_write"}
Setup == {"fork_left", "fork_right", "close_ends", "left_child", "right_child"}
Programs == {"external_child", "search", "program", "program_write"}

\* The descriptors of that pipe.
Ends(e) ==
  IF e.pc \in Here \cup Setup THEN {e.pipefd[1], e.pipefd[2]} ELSE {}

\* The copies of standard input (1) and output (2) its active frame k holds.
Copy(e, k, i) == e.frames[k].fds[i]
Std == {1, 2}

\* Standard input, standard output, the copies and the ends of the pipe are
\* open, at descriptors that are all different.
Shape(e) ==
  /\ e.fd[0] # Closed /\ e.fd[1] # Closed
  /\ \A f \in Fd : e.fd[f].end \in {"r", "w"} => e.fd[f].node \in Node
  /\ \A k \in DOMAIN e.frames, i \in Std :
       Copy(e, k, i) \notin {0, 1} /\ e.fd[Copy(e, k, i)] # Closed
  /\ \A k, j \in DOMAIN e.frames, i, h \in Std :
       Copy(e, k, i) = Copy(e, j, h) => k = j /\ i = h
  /\ e.pc \in Here \cup Setup =>
       /\ e.cur \in Node /\ e.pipefd[1] # e.pipefd[2]
       /\ e.fd[e.pipefd[1]] = ReadEnd(e.cur)
       /\ e.fd[e.pipefd[2]] = WriteEnd(e.cur)
       /\ \A d \in Ends(e) : /\ d \notin {0, 1}
                             /\ \A k \in DOMAIN e.frames, i \in Std :
                                  d # Copy(e, k, i)
  /\ e.pc \in Here => Kind[e.cur] = "HEREDOC"
  /\ e.pc \in Setup => Kind[e.cur] = "PIPE"
  /\ e.pc \in Here \cup {"redirect"} => e.frames # <<>>
  /\ e.pc = "prompt" => e.frames = <<>>

\* The pipes of pipelines it was started in belong to nodes above all it still
\* has to do, and of none of them it has both ends.
Piped(o) == o.end \in {"r", "w"} /\ Kind[o.node] = "PIPE"
Upstream(e) ==
  \A f \in Fd \ Ends(e) : Piped(e.fd[f]) =>
    /\ e.cur # NoNode => Height[e.cur] < Height[e.fd[f].node]
    /\ \A k \in DOMAIN e.frames :
         Height[e.frames[k].node] < Height[e.fd[f].node]
    /\ \A g \in Fd \ Ends(e) :
         e.fd[f].end = "r" /\ e.fd[g].end = "w" => e.fd[f].node # e.fd[g].node

\* Its output, now and after any restore, is the terminal or a file.
Clean(e) ==
  /\ e.fd[1].end \in {"tty", "file"}
  /\ \A k \in DOMAIN e.frames : e.fd[Copy(e, k, 2)].end \in {"tty", "file"}

\* Nothing is open but the shell's own descriptors, the copies and the pipe
\* being made; the outermost frame holds the terminal.
Own(e) ==
  /\ \A f \in 2 .. 4 : e.fd[f] = Terminal
  /\ \A f \in Fd : f \in 0 .. 4 \/ f \in Ends(e) \/ e.fd[f] = Closed
                   \/ \E k \in DOMAIN e.frames, i \in Std : f = Copy(e, k, i)
  /\ e.frames = <<>> => e.fd[0] = Terminal /\ e.fd[1] = Terminal
  /\ e.frames # <<>> =>
       \A i \in Std : e.fd[Copy(e, Len(e.frames), i)] = Terminal
  /\ \A f \in 2 .. 4 : f \notin Ends(e) /\
       \A k \in DOMAIN e.frames, i \in Std : f # Copy(e, k, i)

Gones == {"unused", "zombie", "killed"}
EntryInv(e) ==
  IF e.pc \in Gones THEN e.fd = AllClosed ELSE Shape(e) /\ Upstream(e)

\* The shell is nobody's child and runs no program.
ShellInv(e) ==
  /\ e.parent = Reaper
  /\ e.pc \notin {"unused", "killed", "left_child", "right_child"}
  /\ e.pc \notin Programs
  /\ e.pc # "zombie" => e.disp # "default" /\ Clean(e) /\ Own(e)

\* Whom a process waits for is its child, and no two of them are the same.
Links ==
  \A q \in Pid :
    /\ \A c \in Awaited(q) : proc[c].pc # "unused" /\ proc[c].parent = q
    /\ proc[q].pc \in {"close_ends", "wait_left"} => proc[q].pid1 # proc[q].pid2

DescInv ==
  /\ \A p \in Pid : EntryInv(proc[p])
  /\ ShellInv(proc[Shell])
  /\ Links

-----------------------------------------------------------------------------
(* What a step may do to the descriptors of an entry e, leaving u.         *)

\* To the node m from n: no node, n, or one further down.
Within(m, n) ==
  \/ m \in {n, NoNode}
  \/ n \in Node /\ m \in Node /\ Height[m] < Height[n]

Outside(e) == e.pc \notin Here \cup Setup \cup Gones

\* Nothing.
Stays(e, u) ==
  /\ u.fd = e.fd /\ u.frames = e.frames /\ u.pipefd = e.pipefd
  /\ \/ Outside(e) /\ Outside(u) /\ Within(u.cur, e.cur)
     \/ e.pc \in Here /\ u.pc \in Here /\ u.cur = e.cur
     \/ e.pc \in Setup /\ u.pc \in Setup /\ u.cur = e.cur
  /\ u.pc = "redirect" => e.pc = "redirect"
  /\ u.pc = "prompt" => e.frames = <<>>

\* dup both, in a new frame.
Saves(e, u) ==
  /\ Outside(e) /\ Outside(u) /\ u.pc # "prompt"
  /\ u.cur = e.cur /\ e.cur \in Node
  /\ \E a, b \in Fd :
       /\ a # b /\ e.fd[a] = Closed /\ e.fd[b] = Closed
       /\ u.fd = [e.fd EXCEPT ![a] = e.fd[0], ![b] = e.fd[1]]
       /\ u.frames = <<[node |-> e.cur, fds |-> <<a, b>>]>> \o e.frames

\* dup2 both, and close the copies.
Restores(e, u) ==
  /\ Outside(e) /\ Outside(u) /\ u.pc \notin {"redirect", "prompt"}
  /\ e.frames # <<>>
  /\ u.cur = e.frames[1].node /\ u.frames = Tail(e.frames)
  /\ u.fd = [f \in Fd |->
               IF f = 0 THEN e.fd[Copy(e, 1, 1)]
               ELSE IF f = 1 THEN e.fd[Copy(e, 1, 2)]
               ELSE IF f \in {Copy(e, 1, 1), Copy(e, 1, 2)} THEN Closed
               ELSE e.fd[f]]

\* dup2 of o to one of them.
Redirects(e, u, s, o) ==
  /\ Outside(e) /\ Outside(u) /\ u.pc \notin {"redirect", "prompt"}
  /\ u.frames = e.frames /\ Within(u.cur, e.cur)
  /\ s \in {0, 1} /\ o \in Object /\ o # Closed
  /\ o.end \in {"r", "w"} => o.node \in Node
  /\ Piped(o) => /\ e.frames = <<>> /\ o.node = e.cur
                 /\ u.cur # NoNode => Height[u.cur] < Height[e.cur]
  /\ u.fd = [e.fd EXCEPT ![s] = o]

\* pipe.
Opens(e, u) ==
  /\ Outside(e) /\ u.cur = e.cur /\ e.cur \in Node /\ u.frames = e.frames
  /\ \/ u.pc \in Here /\ Kind[e.cur] = "HEREDOC" /\ e.pc = "redirect"
     \/ u.pc \in Setup /\ Kind[e.cur] = "PIPE"
  /\ e.fd[u.pipefd[1]] = Closed /\ e.fd[u.pipefd[2]] = Closed
  /\ u.pipefd[1] # u.pipefd[2]
  /\ u.fd = [e.fd EXCEPT ![u.pipefd[1]] = ReadEnd(e.cur),
                         ![u.pipefd[2]] = WriteEnd(e.cur)]

\* close both ends of the pipe; a child of a pipeline forgets the frames too.
Closes(e, u) ==
  /\ e.pc \in Here \cup Setup /\ Outside(u) /\ u.pc # "prompt"
  /\ u.cur = e.cur
  /\ \/ u.frames = e.frames
     \/ u.frames = <<>> /\ u.pc # "redirect"
  /\ u.pc = "redirect" => e.pc \in Here
  /\ u.fd = [e.fd EXCEPT ![e.pipefd[1]] = Closed, ![e.pipefd[2]] = Closed]

-----------------------------------------------------------------------------
(* Facts all the lemmas below need.                                        *)

\* The types in an entry of the process table.
LEMMA EntryTypes ==
  ASSUME NEW e \in Process
  PROVE  /\ e.fd \in [Fd -> Object]
         /\ e.frames \in Seq(Frame)
         /\ e.pipefd[1] \in Fd /\ e.pipefd[2] \in Fd
         /\ e.cur \in Node \cup {NoNode}
         /\ \A k \in DOMAIN e.frames :
              /\ e.frames[k].node \in Node
              /\ \A i \in Std : Copy(e, k, i) \in Fd
         /\ e.pc \in Location
<1>1. /\ e.fd \in [Fd -> Object] /\ e.frames \in Seq(Frame)
      /\ e.pipefd \in Fd \X Fd /\ e.cur \in Node \cup {NoNode}
      /\ e.pc \in Location
  BY DEF Process
<1>2. ASSUME NEW k \in DOMAIN e.frames
      PROVE  /\ e.frames[k].node \in Node
             /\ \A i \in Std : Copy(e, k, i) \in Fd
  <2>1. e.frames[k] \in Frame
    BY <1>1
  <2> QED
    BY <2>1 DEF Frame, Copy, Std
<1> QED
  BY <1>1, <1>2

LEMMA StdFds == Fd \subseteq Nat /\ 0 \in Fd /\ 1 \in Fd /\ 2 .. 4 \subseteq Fd
  BY ExecutorAssumption DEF Fd

LEMMA Heights ==
  /\ NoNode \notin Node
  /\ \A n \in Node : Height[n] \in Nat
  /\ \A n \in Node : /\ Left[n] # NoNode => Left[n] \in Node /\ Height[Left[n]] < Height[n]
                     /\ Right[n] # NoNode => Right[n] \in Node /\ Height[Right[n]] < Height[n]
  BY TreeAssumption

LEMMA Objects ==
  /\ Closed.end = "closed" /\ Terminal.end = "tty" /\ Terminal # Closed
  /\ \A n : /\ FileOf(n).end = "file" /\ FileOf(n) # Closed
            /\ ReadEnd(n).end = "r" /\ ReadEnd(n).node = n /\ ReadEnd(n) # Closed
            /\ WriteEnd(n).end = "w" /\ WriteEnd(n).node = n
            /\ WriteEnd(n) # Closed
  BY DEF Closed, Terminal, FileOf, ReadEnd, WriteEnd

\* The frames after one more, and after one less.
LEMMA PushedFrames ==
  ASSUME NEW s \in Seq(Frame), NEW x \in Frame, NEW t, t = <<x>> \o s
  PROVE  /\ t \in Seq(Frame) /\ t # <<>> /\ Len(t) = Len(s) + 1 /\ t[1] = x
         /\ DOMAIN t = 1 .. (Len(s) + 1) /\ DOMAIN s = 1 .. Len(s)
         /\ Len(s) \in Nat
         /\ \A k \in DOMAIN t : k # 1 => k - 1 \in DOMAIN s /\ t[k] = s[k - 1]
  OBVIOUS

LEMMA PoppedFrames ==
  ASSUME NEW s \in Seq(Frame), s # <<>>, NEW t, t = Tail(s)
  PROVE  /\ t \in Seq(Frame) /\ Len(t) = Len(s) - 1 /\ Len(t) \in Nat
         /\ DOMAIN t = 1 .. (Len(s) - 1) /\ DOMAIN s = 1 .. Len(s)
         /\ 1 \in DOMAIN s /\ Len(s) \in DOMAIN s
         /\ \A k \in DOMAIN t : k + 1 \in DOMAIN s /\ t[k] = s[k + 1]
  OBVIOUS

-----------------------------------------------------------------------------
(* Shape.                                                                  *)

LEMMA ShapeStays ==
  ASSUME NEW e \in Process, NEW u \in Process, Shape(e), Stays(e, u)
  PROVE  Shape(u)
<1>1. \A k, i : Copy(u, k, i) = Copy(e, k, i)
  BY DEF Stays, Copy
<1>2. u.pc \in Here \cup Setup => e.pc \in Here \cup Setup /\ Ends(u) = Ends(e)
  BY DEF Stays, Ends, Outside
<1>3. /\ u.pc \in Here => e.pc \in Here
      /\ u.pc \in Setup => e.pc \in Setup
      /\ u.pc \in Here \cup Setup => u.cur = e.cur
      /\ u.pc \in Here \cup {"redirect"} => e.pc \in Here \cup {"redirect"}
  BY DEF Stays, Outside, Here, Setup
<1> QED
  BY <1>1, <1>2, <1>3 DEF Stays, Shape

LEMMA ShapeSaves ==
  ASSUME NEW e \in Process, NEW u \in Process, Shape(e), Saves(e, u)
  PROVE  Shape(u)
<1>1. PICK a \in Fd, b \in Fd :
        /\ a # b /\ e.fd[a] = Closed /\ e.fd[b] = Closed
        /\ u.fd = [e.fd EXCEPT ![a] = e.fd[0], ![b] = e.fd[1]]
        /\ u.frames = <<[node |-> e.cur, fds |-> <<a, b>>]>> \o e.frames
  BY DEF Saves
<1> DEFINE x == [node |-> e.cur, fds |-> <<a, b>>]
<1>2. x \in Frame
  BY <1>1 DEF Frame, Saves
<1>f. x.fds[1] = a /\ x.fds[2] = b
  OBVIOUS
<1> HIDE DEF x
<1>3. e.frames \in Seq(Frame) /\ u.frames = <<x>> \o e.frames
  BY <1>1, EntryTypes DEF x
<1>4. /\ u.frames # <<>> /\ u.frames[1] = x
      /\ \A k \in DOMAIN u.frames :
           k # 1 => k - 1 \in DOMAIN e.frames /\ u.frames[k] = e.frames[k - 1]
      /\ DOMAIN u.frames \subseteq Nat
  BY <1>2, <1>3, PushedFrames
<1>5. /\ Copy(u, 1, 1) = a /\ Copy(u, 1, 2) = b
      /\ \A k \in DOMAIN u.frames : \A i :
           k # 1 => Copy(u, k, i) = Copy(e, k - 1, i)
  BY <1>4, <1>f DEF Copy
<1>7. e.fd[0] # Closed /\ e.fd[1] # Closed /\ a # 0 /\ a # 1 /\ b # 0 /\ b # 1
  BY <1>1 DEF Shape
<1>8. \A k \in DOMAIN e.frames, i \in Std :
        /\ Copy(e, k, i) \in Fd \ {0, 1, a, b}
        /\ e.fd[Copy(e, k, i)] # Closed
  BY <1>1, EntryTypes DEF Shape
<1>9. /\ u.fd[a] = e.fd[0] /\ u.fd[b] = e.fd[1]
      /\ \A f \in Fd \ {a, b} : u.fd[f] = e.fd[f]
  BY <1>1, EntryTypes
<1>10. \A k \in DOMAIN u.frames, i \in Std :
         Copy(u, k, i) \notin {0, 1} /\ u.fd[Copy(u, k, i)] # Closed
  <2> TAKE k \in DOMAIN u.frames, i \in Std
  <2>1. CASE k = 1
    BY <1>5, <1>7, <1>9, <2>1 DEF Std
  <2>2. CASE k # 1
    BY <1>4, <1>5, <1>8, <1>9, <2>2
  <2> QED
    BY <2>1, <2>2
<1>11. \A k, j \in DOMAIN u.frames, i, h \in Std :
         Copy(u, k, i) = Copy(u, j, h) => k = j /\ i = h
  <2> TAKE k, j \in DOMAIN u.frames, i, h \in Std
  <2>1. CASE k = 1 /\ j = 1
    BY <1>1, <1>5, <2>1 DEF Std
  <2>2. CASE k = 1 /\ j # 1
    BY <1>4, <1>5, <1>8, <2>2 DEF Std
  <2>3. CASE k # 1 /\ j = 1
    BY <1>4, <1>5, <1>8, <2>3 DEF Std
  <2>4. CASE k # 1 /\ j # 1
    <3>1. /\ Copy(u, k, i) = Copy(e, k - 1, i) /\ Copy(u, j, h) = Copy(e, j - 1, h)
          /\ k - 1 \in DOMAIN e.frames /\ j - 1 \in DOMAIN e.frames
          /\ k \in Nat /\ j \in Nat
      BY <1>4, <1>5, <2>4
    <3>2. Copy(e, k - 1, i) = Copy(e, j - 1, h) => k - 1 = j - 1 /\ i = h
      BY <3>1 DEF Shape
    <3> QED
      BY <3>1, <3>2
  <2> QED
    BY <2>1, <2>2, <2>3, <2>4
<1>12. \A f \in Fd : u.fd[f].end \in {"r", "w"} => u.fd[f].node \in Node
  BY <1>9, StdFds DEF Shape
<1>13. u.fd[0] # Closed /\ u.fd[1] # Closed
  BY <1>7, <1>9, StdFds
<1> QED
  BY <1>4, <1>10, <1>11, <1>12, <1>13 DEF Shape, Saves, Outside, Here, Setup

LEMMA ShapeRestores ==
  ASSUME NEW e \in Process, NEW u \in Process, Shape(e), Restores(e, u)
  PROVE  Shape(u)
<1> DEFINE a == Copy(e, 1, 1)
           b == Copy(e, 1, 2)
<1>1. /\ 1 \in DOMAIN e.frames /\ DOMAIN u.frames \subseteq Nat
      /\ \A k \in DOMAIN u.frames :
           k + 1 \in DOMAIN e.frames /\ u.frames[k] = e.frames[k + 1]
  BY EntryTypes, PoppedFrames DEF Restores
<1>2. \A k \in DOMAIN u.frames : \A i : Copy(u, k, i) = Copy(e, k + 1, i)
  BY <1>1 DEF Copy
<1>3. /\ a \in Fd \ {0, 1} /\ b \in Fd \ {0, 1}
      /\ e.fd[a] # Closed /\ e.fd[b] # Closed
  BY <1>1, EntryTypes DEF Shape, Std
<1>4. /\ u.fd[0] = e.fd[a] /\ u.fd[1] = e.fd[b]
      /\ \A f \in Fd \ {0, 1} : u.fd[f] = IF f \in {a, b} THEN Closed ELSE e.fd[f]
  BY StdFds DEF Restores
<1>5. \A k \in DOMAIN u.frames, i \in Std :
        /\ Copy(u, k, i) \in Fd \ {0, 1, a, b} /\ e.fd[Copy(u, k, i)] # Closed
  <2> TAKE k \in DOMAIN u.frames, i \in Std
  <2>1. k + 1 \in DOMAIN e.frames /\ k + 1 # 1 /\ Copy(u, k, i) = Copy(e, k + 1, i)
    <3>1. k \in Nat /\ k + 1 \in DOMAIN e.frames /\ k \in 1 .. Len(u.frames)
      BY <1>1, EntryTypes
    <3> QED
      BY <1>2, <3>1
  <2> QED
    BY <1>1, <2>1, EntryTypes DEF Shape, Std
<1>6. \A k, j \in DOMAIN u.frames, i, h \in Std :
        Copy(u, k, i) = Copy(u, j, h) => k = j /\ i = h
  <2> TAKE k, j \in DOMAIN u.frames, i, h \in Std
  <2>1. /\ k + 1 \in DOMAIN e.frames /\ j + 1 \in DOMAIN e.frames
        /\ k \in Nat /\ j \in Nat
        /\ Copy(u, k, i) = Copy(e, k + 1, i) /\ Copy(u, j, h) = Copy(e, j + 1, h)
    BY <1>1, <1>2
  <2>2. Copy(e, k + 1, i) = Copy(e, j + 1, h) => k + 1 = j + 1 /\ i = h
    BY <2>1 DEF Shape
  <2> QED
    BY <2>1, <2>2
<1>7. \A k \in DOMAIN u.frames, i \in Std :
        Copy(u, k, i) \notin {0, 1} /\ u.fd[Copy(u, k, i)] # Closed
  BY <1>4, <1>5
<1>8. \A f \in Fd : u.fd[f].end \in {"r", "w"} => u.fd[f].node \in Node
  BY <1>3, <1>4, Objects DEF Shape
<1> HIDE DEF a, b
<1> QED
  BY <1>3, <1>4, <1>6, <1>7, <1>8
  DEF Shape, Restores, Outside, Here, Setup

LEMMA ShapeRedirects ==
  ASSUME NEW e \in Process, NEW u \in Process, Shape(e),
         NEW s, NEW o, Redirects(e, u, s, o)
  PROVE  Shape(u)
<1>1. /\ u.fd[s] = o /\ \A f \in Fd \ {s} : u.fd[f] = e.fd[f]
      /\ s \in {0, 1} /\ s \in Fd
      /\ \A f \in Fd \ {0, 1} : u.fd[f] = e.fd[f]
  BY EntryTypes, StdFds DEF Redirects
<1>2. /\ u.frames = e.frames
      /\ \A k \in DOMAIN u.frames, i \in Std : Copy(u, k, i) = Copy(e, k, i)
  BY DEF Redirects, Copy
<1>3. \A k \in DOMAIN e.frames, i \in Std :
        Copy(e, k, i) \in Fd \ {0, 1} /\ e.fd[Copy(e, k, i)] # Closed
  BY EntryTypes DEF Shape
<1>4. \A k \in DOMAIN u.frames, i \in Std :
        Copy(u, k, i) \notin {0, 1} /\ u.fd[Copy(u, k, i)] # Closed
  BY ZenonT(60), <1>1, <1>2, <1>3
<1>5. \A f \in Fd : u.fd[f].end \in {"r", "w"} => u.fd[f].node \in Node
  BY <1>1 DEF Shape, Redirects
<1>6. u.fd[0] # Closed /\ u.fd[1] # Closed
  BY <1>1, StdFds DEF Shape, Redirects
<1> QED
  BY <1>2, <1>4, <1>5, <1>6
  DEF Shape, Redirects, Outside, Here, Setup

LEMMA ShapeOpens ==
  ASSUME NEW e \in Process, NEW u \in Process, Shape(e), Opens(e, u)
  PROVE  Shape(u)
<1> DEFINE a == u.pipefd[1]
           b == u.pipefd[2]
<1>1. /\ u.fd[a] = ReadEnd(e.cur) /\ u.fd[b] = WriteEnd(e.cur)
      /\ \A f \in Fd \ {a, b} : u.fd[f] = e.fd[f]
      /\ a \in Fd /\ b \in Fd /\ a # b
      /\ e.fd[a] = Closed /\ e.fd[b] = Closed
  BY EntryTypes DEF Opens
<1>2. u.frames = e.frames /\ \A k, i : Copy(u, k, i) = Copy(e, k, i)
  BY DEF Opens, Copy
<1>3. \A k \in DOMAIN e.frames, i \in Std :
        /\ Copy(e, k, i) \in Fd \ {0, 1, a, b}
        /\ e.fd[Copy(e, k, i)] # Closed
  BY <1>1, EntryTypes DEF Shape
<1>4. {a, b} \cap {0, 1} = {}
  BY <1>1 DEF Shape
<1>5. Ends(u) = {a, b}
  BY DEF Ends, Opens
<1>6. \A k \in DOMAIN u.frames, i \in Std :
        Copy(u, k, i) \notin {0, 1} /\ u.fd[Copy(u, k, i)] # Closed
  BY <1>1, <1>2, <1>3
<1>7. \A f \in Fd : u.fd[f].end \in {"r", "w"} => u.fd[f].node \in Node
  BY <1>1, Objects DEF Shape, Opens
<1>8. u.fd[0] # Closed /\ u.fd[1] # Closed
  BY <1>1, <1>4, StdFds DEF Shape
<1>9. \A d \in Ends(u) : /\ d \notin {0, 1}
                         /\ \A k \in DOMAIN u.frames, i \in Std : d # Copy(u, k, i)
  BY <1>2, <1>3, <1>4, <1>5
<1>10. \A k, j \in DOMAIN u.frames, i, h \in Std :
         Copy(u, k, i) = Copy(u, j, h) => k = j /\ i = h
  BY <1>2 DEF Shape
<1>11. /\ u.pc # "prompt" /\ u.pc # "redirect"
       /\ u.pc \in Here => Kind[u.cur] = "HEREDOC" /\ u.frames # <<>>
       /\ u.pc \in Setup => Kind[u.cur] = "PIPE"
  BY <1>2 DEF Opens, Shape, Here, Setup
<1> HIDE DEF a, b
<1>12. /\ u.cur \in Node /\ u.cur = e.cur
       /\ u.fd[u.pipefd[1]] = ReadEnd(u.cur) /\ u.fd[u.pipefd[2]] = WriteEnd(u.cur)
       /\ u.pipefd[1] # u.pipefd[2]
  BY <1>1 DEF Opens, a, b
<1> QED
  BY <1>6, <1>7, <1>8, <1>9, <1>10, <1>11, <1>12 DEF Shape

LEMMA ShapeCloses ==
  ASSUME NEW e \in Process, NEW u \in Process, Shape(e), Closes(e, u)
  PROVE  Shape(u)
<1> DEFINE a == e.pipefd[1]
           b == e.pipefd[2]
<1>1. /\ a \in Fd /\ b \in Fd /\ Ends(e) = {a, b}
      /\ \A f \in Fd : u.fd[f] = IF f \in {a, b} THEN Closed ELSE e.fd[f]
  BY EntryTypes DEF Closes, Ends
<1>2. \A k, i : u.frames = e.frames => Copy(u, k, i) = Copy(e, k, i)
  BY DEF Copy
<1>3. {a, b} \cap {0, 1} = {}
  BY <1>1 DEF Shape, Closes
<1>4. \A k \in DOMAIN e.frames, i \in Std :
        /\ Copy(e, k, i) \in Fd \ {0, 1, a, b}
        /\ e.fd[Copy(e, k, i)] # Closed
  BY <1>1, EntryTypes DEF Shape, Closes
<1>5. \A k \in DOMAIN u.frames, i \in Std :
        Copy(u, k, i) \notin {0, 1} /\ u.fd[Copy(u, k, i)] # Closed
  BY <1>1, <1>2, <1>4 DEF Closes
<1>6. \A k, j \in DOMAIN u.frames, i, h \in Std :
        Copy(u, k, i) = Copy(u, j, h) => k = j /\ i = h
  BY <1>2 DEF Shape, Closes
<1>7. \A f \in Fd : u.fd[f].end \in {"r", "w"} => u.fd[f].node \in Node
  BY <1>1, Objects DEF Shape
<1>8. u.fd[0] # Closed /\ u.fd[1] # Closed
  BY <1>1, <1>3, StdFds DEF Shape
<1>9. /\ u.pc \notin Here \cup Setup /\ u.pc # "prompt"
      /\ u.pc = "redirect" => u.frames # <<>>
  BY DEF Closes, Outside, Shape, Here, Setup
<1> HIDE DEF a, b
<1> QED
  BY <1>5, <1>6, <1>7, <1>8, <1>9 DEF Shape, Here, Setup

-----------------------------------------------------------------------------
(* Upstream.                                                               *)

\* A node is within what is below a pipe if the one it is reached from is.
LEMMA WithinBelow ==
  ASSUME NEW n \in Node \cup {NoNode}, NEW m \in Node \cup {NoNode},
         Within(m, n), NEW x \in Node,
         n # NoNode => Height[n] < Height[x], m # NoNode
  PROVE  Height[m] < Height[x]
<1>1. CASE m = n
  BY <1>1
<1>2. CASE n \in Node /\ m \in Node /\ Height[m] < Height[n]
  <2>1. Height[m] \in Nat /\ Height[n] \in Nat /\ Height[x] \in Nat
    BY <1>2, Heights
  <2> QED
    BY <1>2, <2>1, Heights
<1> QED
  BY <1>1, <1>2, Heights DEF Within

LEMMA WithinSame == \A n : Within(n, n)
<1> TAKE n
<1>1. n \in {n, NoNode}
  OBVIOUS
<1> QED
  BY <1>1 DEF Within

LEMMA UpstreamStays ==
  ASSUME NEW e \in Process, NEW u \in Process, Shape(e), Upstream(e),
         Stays(e, u)
  PROVE  Upstream(u)
<1>1. Ends(u) = Ends(e) /\ u.fd = e.fd /\ u.frames = e.frames
  BY DEF Stays, Ends, Outside
<1>2. Within(u.cur, e.cur)
  BY WithinSame DEF Stays
<1> SUFFICES ASSUME NEW f \in Fd \ Ends(u), Piped(u.fd[f])
             PROVE  u.cur # NoNode => Height[u.cur] < Height[u.fd[f].node]
  BY <1>1 DEF Upstream
<1>3. e.fd[f].node \in Node /\ (e.cur # NoNode => Height[e.cur] < Height[e.fd[f].node])
  BY <1>1 DEF Upstream, Shape, Piped
<1> QED
  BY <1>1, <1>2, <1>3, WithinBelow, EntryTypes

LEMMA UpstreamSaves ==
  ASSUME NEW e \in Process, NEW u \in Process, Shape(e), Upstream(e),
         Saves(e, u)
  PROVE  Upstream(u)
<1>1. PICK a \in Fd, b \in Fd :
        /\ a # b
        /\ u.fd = [e.fd EXCEPT ![a] = e.fd[0], ![b] = e.fd[1]]
        /\ u.frames = <<[node |-> e.cur, fds |-> <<a, b>>]>> \o e.frames
  BY DEF Saves
<1> DEFINE x == [node |-> e.cur, fds |-> <<a, b>>]
<1>2. x \in Frame
  BY <1>1 DEF Frame, Saves
<1>f. x.node = e.cur
  OBVIOUS
<1> HIDE DEF x
<1>3. e.frames \in Seq(Frame) /\ u.frames = <<x>> \o e.frames
  BY <1>1, EntryTypes DEF x
<1>4. /\ u.frames[1] = x
      /\ \A k \in DOMAIN u.frames :
           k # 1 => k - 1 \in DOMAIN e.frames /\ u.frames[k] = e.frames[k - 1]
  BY <1>2, <1>3, PushedFrames
<1>5. Ends(e) = {} /\ Ends(u) = {} /\ u.cur = e.cur /\ e.cur # NoNode
  BY Heights DEF Ends, Saves, Outside
<1>6. \A f \in Fd : \E g \in Fd : u.fd[f] = e.fd[g]
  BY <1>1, EntryTypes, StdFds
<1>7. ASSUME NEW f \in Fd, Piped(u.fd[f])
      PROVE  /\ Height[u.cur] < Height[u.fd[f].node]
             /\ \A k \in DOMAIN u.frames :
                  Height[u.frames[k].node] < Height[u.fd[f].node]
  <2>1. PICK g \in Fd : u.fd[f] = e.fd[g]
    BY <1>6
  <2>2. /\ Height[e.cur] < Height[e.fd[g].node]
        /\ \A k \in DOMAIN e.frames :
             Height[e.frames[k].node] < Height[e.fd[g].node]
    BY <1>5, <1>7, <2>1 DEF Upstream
  <2>3. ASSUME NEW k \in DOMAIN u.frames
        PROVE  Height[u.frames[k].node] < Height[u.fd[f].node]
    BY <1>4, <1>f, <2>1, <2>2
  <2> QED
    BY <1>5, <2>1, <2>2, <2>3
<1>8. ASSUME NEW f \in Fd, Piped(u.fd[f]), NEW g \in Fd,
             u.fd[f].end = "r", u.fd[g].end = "w"
      PROVE  u.fd[f].node # u.fd[g].node
  BY <1>5, <1>6, <1>8 DEF Upstream
<1> QED
  BY <1>5, <1>7, <1>8 DEF Upstream

LEMMA UpstreamRestores ==
  ASSUME NEW e \in Process, NEW u \in Process, Shape(e), Upstream(e),
         Restores(e, u)
  PROVE  Upstream(u)
<1>1. /\ 1 \in DOMAIN e.frames
      /\ \A k \in DOMAIN u.frames :
           k + 1 \in DOMAIN e.frames /\ u.frames[k] = e.frames[k + 1]
  BY EntryTypes, PoppedFrames DEF Restores
<1>2. Ends(e) = {} /\ Ends(u) = {} /\ u.cur = e.frames[1].node
  BY DEF Ends, Restores, Outside
<1>3. Copy(e, 1, 1) \in Fd /\ Copy(e, 1, 2) \in Fd
  BY <1>1, EntryTypes DEF Std
<1>4. \A f \in Fd : u.fd[f].end = "closed" \/ \E g \in Fd : u.fd[f] = e.fd[g]
  BY <1>3, Objects DEF Restores
<1>5. ASSUME NEW f \in Fd, Piped(u.fd[f])
      PROVE  \E g \in Fd : u.fd[f] = e.fd[g]
  BY <1>4, <1>5 DEF Piped
<1>6. ASSUME NEW f \in Fd, Piped(u.fd[f])
      PROVE  \A k \in DOMAIN e.frames :
                  Height[e.frames[k].node] < Height[u.fd[f].node]
  <2>1. PICK g \in Fd : u.fd[f] = e.fd[g]
    BY <1>5, <1>6
  <2> QED
    BY <1>2, <1>6, <2>1 DEF Upstream
<1>7. ASSUME NEW f \in Fd, Piped(u.fd[f]), NEW g \in Fd,
             u.fd[f].end = "r", u.fd[g].end = "w"
      PROVE  u.fd[f].node # u.fd[g].node
  <2>1. PICK h \in Fd : u.fd[f] = e.fd[h]
    BY <1>5, <1>7
  <2>2. PICK i \in Fd : u.fd[g] = e.fd[i]
    BY <1>4, <1>7
  <2> QED
    BY <1>2, <1>7, <2>1, <2>2 DEF Upstream
<1> QED
  BY <1>1, <1>2, <1>6, <1>7 DEF Upstream

LEMMA UpstreamRedirects ==
  ASSUME NEW e \in Process, NEW u \in Process, Shape(e), Upstream(e),
         NEW s, NEW o, Redirects(e, u, s, o)
  PROVE  Upstream(u)
<1>1. \A f \in Fd : u.fd[f] = o \/ u.fd[f] = e.fd[f]
  BY EntryTypes DEF Redirects
<1>2. Ends(e) = {} /\ Ends(u) = {} /\ u.frames = e.frames
  BY DEF Ends, Redirects, Outside
<1>3. ASSUME NEW f \in Fd, Piped(u.fd[f]), u.fd[f] = e.fd[f]
      PROVE  /\ u.cur # NoNode => Height[u.cur] < Height[u.fd[f].node]
             /\ \A k \in DOMAIN u.frames :
                  Height[u.frames[k].node] < Height[u.fd[f].node]
             /\ \A g \in Fd : u.fd[g] = e.fd[g] =>
                  ~ (u.fd[f].end = "r" /\ u.fd[g].end = "w"
                     /\ u.fd[f].node = u.fd[g].node)
  <2>1. /\ e.fd[f].node \in Node
        /\ e.cur # NoNode => Height[e.cur] < Height[e.fd[f].node]
    BY <1>2, <1>3 DEF Upstream, Shape, Piped
  <2>2. u.cur # NoNode => Height[u.cur] < Height[u.fd[f].node]
    BY SMTT(30), <1>3, <2>1, WithinBelow, EntryTypes DEF Redirects
  <2> QED
    BY <1>2, <1>3, <2>2 DEF Upstream
<1>4. ASSUME Piped(o)
      PROVE  /\ u.cur # NoNode => Height[u.cur] < Height[o.node]
             /\ DOMAIN u.frames = {} /\ o.node = e.cur /\ e.cur \in Node
  BY <1>2, <1>4 DEF Redirects, Piped
<1>5. ASSUME Piped(o), NEW f \in Fd, Piped(e.fd[f])
      PROVE  e.fd[f].node # o.node
  <2>1. Height[o.node] < Height[e.fd[f].node]
    BY <1>2, <1>4, <1>5, Heights DEF Upstream
  <2>2. Height[o.node] \in Nat
    BY <1>4, <1>5, Heights
  <2> QED
    BY <2>1, <2>2
<1>6. ASSUME NEW f \in Fd, NEW g \in Fd, Piped(u.fd[f]),
             u.fd[f].end = "r", u.fd[g].end = "w", u.fd[f].node = u.fd[g].node
      PROVE  FALSE
  <2>1. Piped(u.fd[g])
    BY <1>6 DEF Piped
  <2>2. CASE u.fd[f] = o /\ u.fd[g] = o
    BY <1>6, <2>2
  <2>3. CASE u.fd[f] = o /\ u.fd[g] = e.fd[g]
    BY <1>5, <1>6, <2>1, <2>3
  <2>4. CASE u.fd[f] = e.fd[f] /\ u.fd[g] = o
    BY <1>5, <1>6, <2>1, <2>4
  <2>5. CASE u.fd[f] = e.fd[f] /\ u.fd[g] = e.fd[g]
    BY <1>3, <1>6, <2>5
  <2> QED
    BY <1>1, <2>2, <2>3, <2>4, <2>5
<1>7. ASSUME NEW f \in Fd, Piped(u.fd[f])
      PROVE  /\ u.cur # NoNode => Height[u.cur] < Height[u.fd[f].node]
             /\ \A k \in DOMAIN u.frames :
                  Height[u.frames[k].node] < Height[u.fd[f].node]
  BY <1>1, <1>3, <1>4, <1>7
<1> QED
  BY <1>2, <1>6, <1>7 DEF Upstream

LEMMA UpstreamOpens ==
  ASSUME NEW e \in Process, NEW u \in Process, Upstream(e), Opens(e, u)
  PROVE  Upstream(u)
<1>1. /\ Ends(e) = {} /\ Ends(u) = {u.pipefd[1], u.pipefd[2]}
      /\ u.cur = e.cur /\ u.frames = e.frames
  BY DEF Ends, Opens, Outside
<1>2. \A f \in Fd \ Ends(u) : u.fd[f] = e.fd[f]
  BY <1>1, EntryTypes DEF Opens
<1> QED
  BY <1>1, <1>2 DEF Upstream

LEMMA UpstreamCloses ==
  ASSUME NEW e \in Process, NEW u \in Process, Upstream(e), Closes(e, u)
  PROVE  Upstream(u)
<1>1. /\ Ends(u) = {} /\ Ends(e) = {e.pipefd[1], e.pipefd[2]}
      /\ u.cur = e.cur
  BY DEF Ends, Closes, Outside
<1>2. \A f \in Fd : IF f \in Ends(e) THEN u.fd[f] = Closed ELSE u.fd[f] = e.fd[f]
  BY <1>1, EntryTypes DEF Closes
<1>3. \A f \in Fd : u.fd[f].end \in {"r", "w"} =>
        f \in Fd \ Ends(e) /\ u.fd[f] = e.fd[f]
  BY <1>2, Objects
<1>4. u.frames = e.frames \/ DOMAIN u.frames = {}
  BY DEF Closes
<1> QED
  BY <1>1, <1>3, <1>4 DEF Upstream, Piped

-----------------------------------------------------------------------------
(* Clean.                                                                  *)

LEMMA CleanStays ==
  ASSUME NEW e, NEW u, Clean(e), Stays(e, u)
  PROVE  Clean(u)
  BY DEF Clean, Stays, Copy

LEMMA CleanSaves ==
  ASSUME NEW e \in Process, NEW u \in Process, Shape(e), Clean(e), Saves(e, u)
  PROVE  Clean(u)
<1>1. PICK a \in Fd, b \in Fd :
        /\ a # b /\ e.fd[a] = Closed /\ e.fd[b] = Closed
        /\ u.fd = [e.fd EXCEPT ![a] = e.fd[0], ![b] = e.fd[1]]
        /\ u.frames = <<[node |-> e.cur, fds |-> <<a, b>>]>> \o e.frames
  BY DEF Saves
<1> DEFINE x == [node |-> e.cur, fds |-> <<a, b>>]
<1>2. x \in Frame
  BY <1>1 DEF Frame, Saves
<1>f. x.fds[2] = b
  OBVIOUS
<1> HIDE DEF x
<1>3. e.frames \in Seq(Frame) /\ u.frames = <<x>> \o e.frames
  BY <1>1, EntryTypes DEF x
<1>4. /\ u.frames[1] = x
      /\ \A k \in DOMAIN u.frames :
           k # 1 => k - 1 \in DOMAIN e.frames /\ u.frames[k] = e.frames[k - 1]
  BY <1>2, <1>3, PushedFrames
<1>5. /\ Copy(u, 1, 2) = b
      /\ \A k \in DOMAIN u.frames : k # 1 => Copy(u, k, 2) = Copy(e, k - 1, 2)
  BY <1>4, <1>f DEF Copy
<1>6. \A k \in DOMAIN e.frames : Copy(e, k, 2) \in Fd \ {a, b}
  BY <1>1, EntryTypes DEF Shape, Std
<1>7. /\ u.fd[b] = e.fd[1]
      /\ \A f \in Fd \ {a, b} : u.fd[f] = e.fd[f]
      /\ 1 \in Fd \ {a, b}
  BY <1>1, EntryTypes, StdFds DEF Shape
<1>8. ASSUME NEW k \in DOMAIN u.frames
      PROVE  u.fd[Copy(u, k, 2)].end \in {"tty", "file"}
  <2>1. CASE k = 1
    BY <1>5, <1>7, <2>1 DEF Clean
  <2>2. CASE k # 1
    <3>1. k - 1 \in DOMAIN e.frames /\ u.fd[Copy(u, k, 2)] = e.fd[Copy(e, k - 1, 2)]
      BY <1>4, <1>5, <1>6, <1>7, <2>2
    <3> QED
      BY <3>1 DEF Clean
  <2> QED
    BY <2>1, <2>2
<1> QED
  BY <1>7, <1>8 DEF Clean

LEMMA CleanRestores ==
  ASSUME NEW e \in Process, NEW u \in Process, Shape(e), Clean(e),
         Restores(e, u)
  PROVE  Clean(u)
<1> DEFINE a == Copy(e, 1, 1)
           b == Copy(e, 1, 2)
<1>1. /\ 1 \in DOMAIN e.frames
      /\ \A k \in DOMAIN u.frames :
           k + 1 \in DOMAIN e.frames /\ u.frames[k] = e.frames[k + 1]
           /\ k + 1 # 1
  BY EntryTypes, PoppedFrames DEF Restores
<1>2. \A k \in DOMAIN u.frames : Copy(u, k, 2) = Copy(e, k + 1, 2)
  BY <1>1 DEF Copy
<1>4. /\ u.fd[1] = e.fd[b]
      /\ \A f \in Fd \ {0, 1, a, b} : u.fd[f] = e.fd[f]
  BY StdFds DEF Restores
<1>5. \A k \in DOMAIN u.frames : Copy(e, k + 1, 2) \in Fd \ {0, 1, a, b}
  <2> TAKE k \in DOMAIN u.frames
  <2> QED
    BY <1>1, EntryTypes DEF Shape, Std
<1> HIDE DEF a
<1>6. \A k \in DOMAIN u.frames :
        u.fd[Copy(u, k, 2)] = e.fd[Copy(e, k + 1, 2)]
  BY <1>2, <1>4, <1>5
<1> QED
  BY <1>1, <1>4, <1>6 DEF Clean

LEMMA CleanRedirects ==
  ASSUME NEW e \in Process, NEW u \in Process, Shape(e), Clean(e),
         NEW s, NEW o, Redirects(e, u, s, o),
         s = 1 => o.end \in {"tty", "file"}
  PROVE  Clean(u)
<1>1. /\ u.fd[s] = o /\ \A f \in Fd \ {s} : u.fd[f] = e.fd[f]
      /\ s \in {0, 1}
  BY EntryTypes, StdFds DEF Redirects
<1>2. u.frames = e.frames /\ \A k \in DOMAIN u.frames : Copy(u, k, 2) = Copy(e, k, 2)
  BY DEF Redirects, Copy
<1>3. \A k \in DOMAIN e.frames : Copy(e, k, 2) \in Fd \ {s}
  BY <1>1, EntryTypes DEF Shape, Std
<1> QED
  BY <1>1, <1>2, <1>3, StdFds DEF Clean

LEMMA CleanOpens ==
  ASSUME NEW e \in Process, NEW u \in Process, Shape(e), Clean(e), Opens(e, u)
  PROVE  Clean(u)
<1>1. \A f \in Fd : e.fd[f] # Closed => u.fd[f] = e.fd[f]
  BY EntryTypes DEF Opens
<1>2. u.frames = e.frames /\ \A k \in DOMAIN u.frames : Copy(u, k, 2) = Copy(e, k, 2)
  BY DEF Opens, Copy
<1>3. \A k \in DOMAIN e.frames :
        Copy(e, k, 2) \in Fd /\ e.fd[Copy(e, k, 2)] # Closed
  BY EntryTypes DEF Shape, Std
<1>4. u.fd[1] = e.fd[1]
  BY <1>1, StdFds DEF Shape
<1>5. \A k \in DOMAIN e.frames : u.fd[Copy(e, k, 2)] = e.fd[Copy(e, k, 2)]
  BY <1>1, <1>3
<1> QED
  BY <1>2, <1>4, <1>5 DEF Clean

LEMMA CleanCloses ==
  ASSUME NEW e \in Process, NEW u \in Process, Shape(e), Clean(e), Closes(e, u)
  PROVE  Clean(u)
<1>1. Ends(e) = {e.pipefd[1], e.pipefd[2]}
  BY DEF Ends, Closes
<1>2. \A f \in Fd \ Ends(e) : u.fd[f] = e.fd[f]
  BY <1>1, EntryTypes DEF Closes
<1>3. /\ u.frames = e.frames \/ DOMAIN u.frames = {}
      /\ u.frames = e.frames =>
           \A k \in DOMAIN u.frames : Copy(u, k, 2) = Copy(e, k, 2)
  BY DEF Closes, Copy
<1>4. \A k \in DOMAIN e.frames : Copy(e, k, 2) \in Fd \ Ends(e)
  BY EntryTypes DEF Shape, Closes, Std
<1>5. 1 \in Fd \ Ends(e)
  BY StdFds DEF Shape, Closes
<1> QED
  BY <1>2, <1>3, <1>4, <1>5 DEF Clean

-----------------------------------------------------------------------------
(* Own.                                                                    *)

LEMMA OwnStays ==
  ASSUME NEW e, NEW u, Own(e), Stays(e, u)
  PROVE  Own(u)
<1>1. Ends(u) = Ends(e)
  BY DEF Stays, Ends, Outside
<1> QED
  BY <1>1 DEF Own, Stays, Copy

LEMMA OwnSaves ==
  ASSUME NEW e \in Process, NEW u \in Process, Shape(e), Own(e), Saves(e, u)
  PROVE  Own(u)
<1>1. PICK a \in Fd, b \in Fd :
        /\ a # b /\ e.fd[a] = Closed /\ e.fd[b] = Closed
        /\ u.fd = [e.fd EXCEPT ![a] = e.fd[0], ![b] = e.fd[1]]
        /\ u.frames = <<[node |-> e.cur, fds |-> <<a, b>>]>> \o e.frames
  BY DEF Saves
<1> DEFINE x == [node |-> e.cur, fds |-> <<a, b>>]
<1>2. x \in Frame
  BY <1>1 DEF Frame, Saves
<1>f. x.fds[1] = a /\ x.fds[2] = b
  OBVIOUS
<1> HIDE DEF x
<1>3. e.frames \in Seq(Frame) /\ u.frames = <<x>> \o e.frames
  BY <1>1, EntryTypes DEF x
<1>4. /\ u.frames # <<>> /\ u.frames[1] = x /\ 1 \in DOMAIN u.frames
      /\ Len(u.frames) = Len(e.frames) + 1 /\ Len(e.frames) \in Nat
      /\ \A k \in DOMAIN u.frames :
           k # 1 => k - 1 \in DOMAIN e.frames /\ u.frames[k] = e.frames[k - 1]
      /\ \A k \in DOMAIN e.frames :
           k + 1 \in DOMAIN u.frames /\ u.frames[k + 1] = e.frames[k]
  <2>1. \A k \in DOMAIN e.frames :
          k + 1 \in DOMAIN u.frames /\ u.frames[k + 1] = e.frames[k]
    BY <1>2, <1>3
  <2> QED
    BY <1>2, <1>3, <2>1, PushedFrames
<1>5. /\ Copy(u, 1, 1) = a /\ Copy(u, 1, 2) = b
      /\ \A k \in DOMAIN u.frames : \A i :
           k # 1 => k - 1 \in DOMAIN e.frames /\ Copy(u, k, i) = Copy(e, k - 1, i)
      /\ \A k \in DOMAIN e.frames : \A i : Copy(u, k + 1, i) = Copy(e, k, i)
  BY <1>4, <1>f DEF Copy
<1>6. Ends(e) = {} /\ Ends(u) = {}
  BY DEF Ends, Saves, Outside
<1>7. /\ u.fd[a] = e.fd[0] /\ u.fd[b] = e.fd[1]
      /\ \A f \in Fd \ {a, b} : u.fd[f] = e.fd[f]
  BY <1>1, EntryTypes
<1>8. \A f \in 2 .. 4 : f \in Fd /\ f # a /\ f # b
  <2>1. \A f \in 2 .. 4 : f \in Fd /\ e.fd[f] # Closed
    BY Objects, StdFds DEF Own
  <2> QED
    BY <1>1, <2>1
<1>9. \A f \in 2 .. 4 : u.fd[f] = Terminal
  BY <1>7, <1>8 DEF Own
<1>10. ASSUME NEW f \in Fd
       PROVE  f \in 0 .. 4 \/ f \in Ends(u) \/ u.fd[f] = Closed
              \/ \E k \in DOMAIN u.frames, i \in Std : f = Copy(u, k, i)
  <2>1. CASE f \in {a, b}
    BY <1>4, <1>5, <2>1 DEF Std
  <2>2. CASE f \notin {a, b} /\ \E k \in DOMAIN e.frames, i \in Std : f = Copy(e, k, i)
    <3>1. PICK k \in DOMAIN e.frames, i \in Std : f = Copy(e, k, i)
      BY <2>2
    <3>2. k + 1 \in DOMAIN u.frames /\ f = Copy(u, k + 1, i)
      BY <1>4, <1>5, <3>1
    <3> QED
      BY <3>2
  <2>3. CASE f \notin {a, b} /\ (f \in 0 .. 4 \/ e.fd[f] = Closed)
    BY <1>7, <2>3
  <2> QED
    BY <1>6, <2>1, <2>2, <2>3 DEF Own
<1>11. ASSUME NEW i \in Std
       PROVE  u.fd[Copy(u, Len(u.frames), i)] = Terminal
  <2>1. CASE e.frames = <<>>
    <3>1. Len(u.frames) = 1 /\ e.fd[0] = Terminal /\ e.fd[1] = Terminal
      BY <1>3, <1>4, <2>1 DEF Own
    <3> QED
      BY <1>5, <1>7, <3>1 DEF Std
  <2>2. CASE e.frames # <<>>
    <3>1. Len(e.frames) \in DOMAIN e.frames
      BY <1>3, <2>2
    <3>2. Copy(u, Len(u.frames), i) = Copy(e, Len(e.frames), i)
      BY <1>4, <1>5, <3>1
    <3>3. Copy(e, Len(e.frames), i) \in Fd \ {a, b}
      BY <1>1, <3>1, EntryTypes DEF Shape
    <3> QED
      BY <1>7, <2>2, <3>2, <3>3 DEF Own
  <2> QED
    BY <2>1, <2>2
<1>12. ASSUME NEW f \in 2 .. 4
       PROVE  f \notin Ends(u) /\
              \A k \in DOMAIN u.frames, i \in Std : f # Copy(u, k, i)
  <2>1. f # a /\ f # b
    BY <1>8
  <2>2. ASSUME NEW k \in DOMAIN u.frames, NEW i \in Std
        PROVE  f # Copy(u, k, i)
    <3>1. CASE k = 1
      BY <1>5, <2>1, <3>1 DEF Std
    <3>2. CASE k # 1
      BY <1>5, <3>2 DEF Own
    <3> QED
      BY <3>1, <3>2
  <2> QED
    BY <1>6, <2>2
<1> QED
  BY <1>4, <1>9, <1>10, <1>11, <1>12 DEF Own

LEMMA OwnRestores ==
  ASSUME NEW e \in Process, NEW u \in Process, Shape(e), Own(e),
         Restores(e, u)
  PROVE  Own(u)
<1> DEFINE a == Copy(e, 1, 1)
           b == Copy(e, 1, 2)
<1>1. /\ 1 \in DOMAIN e.frames /\ Len(e.frames) \in DOMAIN e.frames
      /\ Len(u.frames) = Len(e.frames) - 1 /\ Len(u.frames) \in Nat
      /\ DOMAIN u.frames = 1 .. Len(u.frames) /\ u.frames \in Seq(Frame)
      /\ \A k \in DOMAIN u.frames :
           /\ k + 1 \in DOMAIN e.frames /\ k + 1 # 1
           /\ u.frames[k] = e.frames[k + 1]
      /\ \A k \in DOMAIN e.frames : k # 1 => k - 1 \in DOMAIN u.frames
      /\ \A k \in DOMAIN e.frames : k \in Nat /\ (k - 1) + 1 = k
  BY EntryTypes, PoppedFrames DEF Restores
<1>2. \A k \in DOMAIN u.frames : \A i : Copy(u, k, i) = Copy(e, k + 1, i)
  BY <1>1 DEF Copy
<1>3. a \in Fd \ (0 .. 4) /\ b \in Fd \ (0 .. 4)
  <2>1. \A f \in 0 .. 4 : f = 0 \/ f = 1 \/ f \in 2 .. 4
    OBVIOUS
  <2> QED
    BY <1>1, <2>1, EntryTypes DEF Shape, Own, Std
<1>4. /\ u.fd[0] = e.fd[a] /\ u.fd[1] = e.fd[b]
      /\ u.fd[a] = Closed /\ u.fd[b] = Closed
      /\ \A f \in Fd \ {0, 1, a, b} : u.fd[f] = e.fd[f]
  BY <1>3, StdFds DEF Restores
<1>5. \A k \in DOMAIN u.frames, i \in Std : Copy(u, k, i) \in Fd \ {0, 1, a, b}
  <2> TAKE k \in DOMAIN u.frames, i \in Std
  <2>1. k + 1 \in DOMAIN e.frames /\ k + 1 # 1 /\ Copy(u, k, i) = Copy(e, k + 1, i)
    BY <1>1, <1>2
  <2>2. Copy(e, k + 1, i) \in Fd \ {0, 1}
    BY <2>1, EntryTypes DEF Shape
  <2>3. Copy(e, k + 1, i) # a /\ Copy(e, k + 1, i) # b
    <3>1. 1 \in DOMAIN e.frames
      BY <1>1
    <3> QED
      BY <2>1, <3>1 DEF Shape, Std
  <2> QED
    BY <2>1, <2>2, <2>3
<1>6. Ends(e) = {} /\ Ends(u) = {}
  BY DEF Ends, Restores, Outside
<1>7. \A f \in 2 .. 4 : u.fd[f] = Terminal
  <2>1. \A f \in 2 .. 4 : f \in Fd \ {0, 1, a, b}
    BY <1>3, StdFds
  <2> QED
    BY <1>4, <2>1 DEF Own
<1>8. ASSUME NEW f \in Fd
      PROVE  f \in 0 .. 4 \/ f \in Ends(u) \/ u.fd[f] = Closed
             \/ \E k \in DOMAIN u.frames, i \in Std : f = Copy(u, k, i)
  <2>1. CASE f \in 0 .. 4 \cup {a, b}
    BY <1>4, <2>1
  <2>2. CASE /\ f \notin 0 .. 4 \cup {a, b}
             /\ \E k \in DOMAIN e.frames, i \in Std : f = Copy(e, k, i)
    <3>1. PICK k \in DOMAIN e.frames, i \in Std : f = Copy(e, k, i)
      BY <2>2
    <3>2. k # 1
      BY <2>2, <3>1 DEF Std
    <3>3. k - 1 \in DOMAIN u.frames /\ f = Copy(u, k - 1, i)
      BY SMTT(30), <1>1, <1>2, <3>1, <3>2
    <3> QED
      BY <3>3
  <2>3. CASE f \notin 0 .. 4 \cup {a, b} /\ e.fd[f] = Closed
    BY <1>4, <2>3
  <2> QED
    BY <1>6, <2>1, <2>2, <2>3 DEF Own
<1>9. CASE Len(e.frames) = 1
  <2>1. u.frames = <<>>
    <3>1. Len(u.frames) = 0 /\ u.frames \in Seq(Frame)
      BY <1>1, <1>9
    <3> QED
      BY <3>1
  <2>2. e.fd[a] = Terminal /\ e.fd[b] = Terminal
    BY <1>9 DEF Own, Restores, Std
  <2>3. ASSUME NEW f \in 2 .. 4
        PROVE  f \notin Ends(u) /\
               \A k \in DOMAIN u.frames, i \in Std : f # Copy(u, k, i)
    BY <1>6, <2>1
  <2> QED
    BY <1>4, <1>7, <1>8, <2>1, <2>2, <2>3 DEF Own
<1>10. CASE Len(e.frames) # 1
  <2>1. u.frames # <<>> /\ Len(u.frames) \in DOMAIN u.frames
        /\ Len(u.frames) + 1 = Len(e.frames)
    <3>1. Len(u.frames) \in Nat \ {0} /\ Len(e.frames) \in Nat
      BY <1>1, <1>10, EntryTypes
    <3>2. u.frames \in Seq(Frame) /\ Len(u.frames) + 1 = Len(e.frames)
      BY <1>1, <3>1
    <3> QED
      BY <3>1, <3>2
  <2>2. ASSUME NEW i \in Std
        PROVE  u.fd[Copy(u, Len(u.frames), i)] = Terminal
    <3>1. Copy(u, Len(u.frames), i) = Copy(e, Len(e.frames), i)
      BY <1>2, <2>1
    <3>2. u.fd[Copy(u, Len(u.frames), i)] = e.fd[Copy(u, Len(u.frames), i)]
      BY <1>4, <1>5, <2>1
    <3> QED
      BY <3>1, <3>2 DEF Own, Restores
  <2>3. ASSUME NEW f \in 2 .. 4
        PROVE  f \notin Ends(u) /\
               \A k \in DOMAIN u.frames, i \in Std : f # Copy(u, k, i)
    <3>1. \A k \in DOMAIN e.frames, i \in Std : f # Copy(e, k, i)
      BY DEF Own
    <3> QED
      BY <1>1, <1>2, <1>6, <3>1
  <2> QED
    BY <1>7, <1>8, <2>1, <2>2, <2>3 DEF Own
<1> QED
  BY <1>9, <1>10

LEMMA OwnRedirects ==
  ASSUME NEW e \in Process, NEW u \in Process, Shape(e), Own(e),
         NEW s, NEW o, Redirects(e, u, s, o), e.frames # <<>>
  PROVE  Own(u)
<1>1. /\ s \in {0, 1} /\ \A f \in Fd \ {0, 1} : u.fd[f] = e.fd[f]
      /\ u.frames = e.frames /\ Ends(u) = {} /\ Ends(e) = {}
  BY EntryTypes, StdFds DEF Redirects, Outside, Ends
<1>2. /\ \A k, i : Copy(u, k, i) = Copy(e, k, i)
  BY <1>1 DEF Copy
<1>3. Len(e.frames) \in DOMAIN e.frames
  BY EntryTypes
<1>4. \A i \in Std : Copy(e, Len(e.frames), i) \in Fd \ {0, 1}
  BY <1>3, EntryTypes DEF Shape
<1>5. \A i \in Std : u.fd[Copy(u, Len(u.frames), i)] = Terminal
  BY <1>1, <1>2, <1>4 DEF Own
<1>6. \A f \in 2 .. 4 : f \in Fd \ {0, 1}
  BY StdFds
<1>7. \A f \in Fd : f \notin 0 .. 4 => f \notin {0, 1}
  OBVIOUS
<1>8. ASSUME NEW f \in Fd
      PROVE  f \in 0 .. 4 \/ f \in Ends(u) \/ u.fd[f] = Closed
             \/ \E k \in DOMAIN u.frames, i \in Std : f = Copy(u, k, i)
  BY <1>1, <1>2, <1>7 DEF Own
<1>9. \A f \in 2 .. 4 : u.fd[f] = Terminal
  BY <1>1, <1>6 DEF Own
<1>10. ASSUME NEW f \in 2 .. 4
       PROVE  f \notin Ends(u) /\
              \A k \in DOMAIN u.frames, i \in Std : f # Copy(u, k, i)
  BY <1>1, <1>2 DEF Own
<1> QED
  BY <1>1, <1>5, <1>8, <1>9, <1>10 DEF Own

LEMMA OwnOpens ==
  ASSUME NEW e \in Process, NEW u \in Process, Shape(e), Own(e), Opens(e, u)
  PROVE  Own(u)
<1> DEFINE a == u.pipefd[1]
           b == u.pipefd[2]
<1>1. /\ \A f \in Fd \ {a, b} : u.fd[f] = e.fd[f]
      /\ e.fd[a] = Closed /\ e.fd[b] = Closed
      /\ u.frames = e.frames /\ Ends(u) = {a, b} /\ Ends(e) = {}
  BY EntryTypes DEF Opens, Outside, Ends
<1>2. \A k, i : Copy(u, k, i) = Copy(e, k, i)
  BY <1>1 DEF Copy
<1>3. /\ \A f \in 2 .. 4 : f \in Fd \ {a, b}
      /\ 0 \in Fd \ {a, b} /\ 1 \in Fd \ {a, b}
  BY <1>1, StdFds, Objects DEF Own, Shape
<1>4. \A k \in DOMAIN e.frames, i \in Std : Copy(e, k, i) \in Fd \ {a, b}
  BY <1>1, EntryTypes DEF Shape
<1>5. e.frames # <<>> => Len(e.frames) \in DOMAIN e.frames
  BY EntryTypes
<1> HIDE DEF a, b
<1>6. u.frames # <<>> =>
        \A i \in Std : u.fd[Copy(u, Len(u.frames), i)] = Terminal
  BY <1>1, <1>2, <1>4, <1>5 DEF Own
<1>7. u.frames = <<>> => u.fd[0] = Terminal /\ u.fd[1] = Terminal
  BY <1>1, <1>3 DEF Own
<1>8. ASSUME NEW f \in Fd
      PROVE  f \in 0 .. 4 \/ f \in Ends(u) \/ u.fd[f] = Closed
             \/ \E k \in DOMAIN u.frames, i \in Std : f = Copy(u, k, i)
  BY <1>1, <1>2 DEF Own
<1>9. \A f \in 2 .. 4 : u.fd[f] = Terminal
  BY <1>1, <1>3 DEF Own
<1>10. ASSUME NEW f \in 2 .. 4
       PROVE  f \notin Ends(u) /\
              \A k \in DOMAIN u.frames, i \in Std : f # Copy(u, k, i)
  BY <1>1, <1>2, <1>3 DEF Own
<1> QED
  BY <1>6, <1>7, <1>8, <1>9, <1>10 DEF Own

LEMMA OwnCloses ==
  ASSUME NEW e \in Process, NEW u \in Process, Shape(e), Own(e), Closes(e, u),
         u.frames = e.frames
  PROVE  Own(u)
<1>1. /\ \A f \in Fd : f \in Ends(e) => u.fd[f] = Closed
      /\ \A f \in Fd : f \notin Ends(e) => u.fd[f] = e.fd[f]
      /\ Ends(u) = {}
  BY EntryTypes DEF Closes, Outside, Ends
<1>2. \A k, i : Copy(u, k, i) = Copy(e, k, i)
  BY DEF Copy
<1>3. /\ \A f \in 2 .. 4 : f \in Fd /\ f \notin Ends(e)
      /\ 0 \in Fd /\ 0 \notin Ends(e) /\ 1 \in Fd /\ 1 \notin Ends(e)
  BY StdFds DEF Own, Shape, Closes
<1>4. \A k \in DOMAIN e.frames, i \in Std :
        Copy(e, k, i) \in Fd /\ Copy(e, k, i) \notin Ends(e)
  BY EntryTypes DEF Shape, Closes
<1>5. e.frames # <<>> => Len(e.frames) \in DOMAIN e.frames
  BY EntryTypes
<1>6. u.frames # <<>> =>
        \A i \in Std : u.fd[Copy(u, Len(u.frames), i)] = Terminal
  BY <1>1, <1>2, <1>4, <1>5 DEF Own
<1>7. u.frames = <<>> => u.fd[0] = Terminal /\ u.fd[1] = Terminal
  BY <1>1, <1>3 DEF Own
<1>8. ASSUME NEW f \in Fd
      PROVE  f \in 0 .. 4 \/ f \in Ends(u) \/ u.fd[f] = Closed
             \/ \E k \in DOMAIN u.frames, i \in Std : f = Copy(u, k, i)
  BY <1>1, <1>2 DEF Own
<1>9. \A f \in 2 .. 4 : u.fd[f] = Terminal
  BY <1>1, <1>3 DEF Own
<1>10. ASSUME NEW f \in 2 .. 4
       PROVE  f \notin Ends(u) /\
              \A k \in DOMAIN u.frames, i \in Std : f # Copy(u, k, i)
  BY <1>1, <1>2 DEF Own
<1> QED
  BY <1>6, <1>7, <1>8, <1>9, <1>10 DEF Own

-----------------------------------------------------------------------------
(* What one step does to the process table.                                *)

Moves(e, u) ==
  \/ Stays(e, u) \/ Saves(e, u) \/ Restores(e, u) \/ Opens(e, u)
  \/ Closes(e, u) /\ u.frames = e.frames
  \/ \E s, o : Redirects(e, u, s, o) /\ e.frames # <<>> /\ o.end = "file"
  \/ \E v \in Process : \E o :
       /\ e.pc \in Here /\ Closes(e, v) /\ v.frames = e.frames
       /\ Redirects(v, u, 0, o)
  \/ \E v \in Process : \E s, o :
       /\ e.pc = IF s = 1 THEN "left_child" ELSE "right_child"
       /\ Closes(e, v) /\ Redirects(v, u, s, o)

\* A process that does not run a program goes on as one.
Keeps(e, u) ==
  /\ u.parent = e.parent /\ u.pc \notin Gones
  /\ u.pc \in {"left_child", "right_child"} => u.pc = e.pc
  /\ e.pc \notin Programs => u.pc \notin Programs /\ u.disp \in {e.disp, "ignore"}

\* The end of process p.
Leaves(p, e, u) ==
  /\ u.parent = e.parent /\ u.fd = AllClosed
  /\ \/ u.pc = "killed" /\ (e.disp = "default" \/ e.fd[1].end = "w")
     \/ /\ u.pc = "zombie"
        /\ \/ e.pc = "return" /\ p # Shell
           \/ e.pc \in Programs \cup {"prompt"}
           \/ AtCommand(p, "command", {"exit"})

\* Where a child starts.
Forked == {"left_child", "right_child", "external_child"}

\* A step of p forks c, waits for c, ends p or leaves the other entries alone;
\* the children of a killed process are handed over.
Effect(p) ==
  LET e == proc[p]
      u == proc'[p]
  IN
  /\ e.pc \notin Gones
  /\ \/ /\ \A q \in Pid \ {p} : proc'[q] = proc[q]
        /\ (Keeps(e, u) /\ Moves(e, u)) \/ Leaves(p, e, u)
     \/ \E c \in Pid \ {p} :
          /\ \A q \in Pid \ {p, c} : proc'[q] = proc[q]
          /\ Keeps(e, u) /\ Stays(e, u)
          /\ \/ /\ proc[c].pc = "unused" /\ Stays(e, proc'[c])
                /\ proc'[c].pc \in Forked
             \/ c \in Awaited(p) /\ proc'[c] = Unused
     \/ /\ Leaves(p, e, u)
        /\ \A q \in Pid \ {p} :
             proc'[q] \in {proc[q], [proc[q] EXCEPT !.parent = Reaper]}

\* A move keeps what an entry must satisfy.
LEMMA MovesInv ==
  ASSUME NEW e \in Process, NEW u \in Process, Shape(e), Upstream(e),
         Moves(e, u)
  PROVE  /\ Shape(u) /\ Upstream(u)
         /\ Clean(e) /\ e.pc # "left_child" => Clean(u)
         /\ Own(e) /\ e.pc \notin {"left_child", "right_child"} => Own(u)
<1>1. CASE Stays(e, u)
  BY <1>1, ShapeStays, UpstreamStays, CleanStays, OwnStays
<1>2. CASE Saves(e, u)
  BY <1>2, ShapeSaves, UpstreamSaves, CleanSaves, OwnSaves
<1>3. CASE Restores(e, u)
  BY <1>3, ShapeRestores, UpstreamRestores, CleanRestores, OwnRestores
<1>4. CASE Opens(e, u)
  BY <1>4, ShapeOpens, UpstreamOpens, CleanOpens, OwnOpens
<1>5. CASE Closes(e, u) /\ u.frames = e.frames
  BY <1>5, ShapeCloses, UpstreamCloses, CleanCloses, OwnCloses
<1>6. ASSUME NEW s, NEW o, Redirects(e, u, s, o), e.frames # <<>>,
             o.end = "file"
      PROVE  /\ Shape(u) /\ Upstream(u)
             /\ Clean(e) => Clean(u)
             /\ Own(e) => Own(u)
  BY <1>6, ShapeRedirects, UpstreamRedirects, CleanRedirects, OwnRedirects
<1>7. ASSUME NEW v \in Process, NEW o, e.pc \in Here, Closes(e, v),
             v.frames = e.frames, Redirects(v, u, 0, o)
      PROVE  /\ Shape(u) /\ Upstream(u)
             /\ Clean(e) => Clean(u)
             /\ Own(e) => Own(u)
  <2>1. /\ Shape(v) /\ Upstream(v)
        /\ Clean(e) => Clean(v)
        /\ Own(e) => Own(v)
    BY <1>7, ShapeCloses, UpstreamCloses, CleanCloses, OwnCloses
  <2>2. v.frames # <<>>
    BY <1>7 DEF Shape
  <2> QED
    BY <1>7, <2>1, <2>2, ShapeRedirects, UpstreamRedirects, CleanRedirects,
       OwnRedirects
<1>8. ASSUME NEW v \in Process, NEW s, NEW o,
             e.pc = IF s = 1 THEN "left_child" ELSE "right_child",
             Closes(e, v), Redirects(v, u, s, o)
      PROVE  /\ Shape(u) /\ Upstream(u)
             /\ Clean(e) /\ e.pc # "left_child" => Clean(u)
  <2>1. /\ Shape(v) /\ Upstream(v)
        /\ Clean(e) => Clean(v)
    BY <1>8, ShapeCloses, UpstreamCloses, CleanCloses
  <2>2. e.pc # "left_child" => s # 1
    BY <1>8
  <2> QED
    BY <1>8, <2>1, <2>2, ShapeRedirects, UpstreamRedirects, CleanRedirects
<1>9. ASSUME NEW v \in Process, NEW s, NEW o,
             e.pc = IF s = 1 THEN "left_child" ELSE "right_child",
             Closes(e, v), Redirects(v, u, s, o)
      PROVE  e.pc \in {"left_child", "right_child"}
  BY <1>9
<1> QED
  BY <1>1, <1>2, <1>3, <1>4, <1>5, <1>6, <1>7, <1>8, <1>9 DEF Moves

\* Nothing happens to the descriptors of p, and nothing to the others.
LEMMA StaysEffect ==
  ASSUME NEW p \in Pid, \A q \in Pid \ {p} : proc'[q] = proc[q],
         Stays(proc[p], proc'[p]), Keeps(proc[p], proc'[p])
  PROVE  Effect(p)
<1>1. proc[p].pc \notin Gones
  BY DEF Stays, Outside, Here, Setup, Gones
<1> QED
  BY <1>1 DEF Effect, Moves

LEMMA MovesEffect ==
  ASSUME NEW p \in Pid, \A q \in Pid \ {p} : proc'[q] = proc[q],
         proc[p].pc \notin Gones,
         Moves(proc[p], proc'[p]), Keeps(proc[p], proc'[p])
  PROVE  Effect(p)
  BY DEF Effect

\* exit.
LEMMA ExitEffect ==
  ASSUME TypeOK, NEW p \in Pid, NEW s, Exit(p, s),
         \/ proc[p].pc = "return" /\ p # Shell
         \/ proc[p].pc \in Programs \cup {"prompt"}
         \/ AtCommand(p, "command", {"exit"})
  PROVE  Effect(p)
<1>d. DOMAIN proc = Pid /\ "parent" \in DOMAIN proc[p]
      /\ "pc" \in DOMAIN proc[p] /\ "fd" \in DOMAIN proc[p]
  BY DEF TypeOK, Process
<1>1. \A q \in Pid \ {p} : proc'[q] = proc[q]
  BY <1>d DEF Exit
<1>2. /\ proc'[p].parent = proc[p].parent /\ proc'[p].fd = AllClosed
      /\ proc'[p].pc = "zombie"
  BY <1>d DEF Exit, TypeOK, Process
<1>3. proc[p].pc \notin Gones
  BY DEF AtCommand, At, Programs, Gones
<1> QED
  BY <1>1, <1>2, <1>3 DEF Effect, Leaves

\* Death by a signal.
LEMMA DieEffect ==
  ASSUME TypeOK, NEW p \in Pid, NEW s, Die(p, s), proc[p].pc \notin Gones,
         proc[p].disp = "default" \/ proc[p].fd[1].end = "w"
  PROVE  Effect(p)
<1>d. /\ DOMAIN proc[p] =
           {"pc", "cur", "frames", "fd", "disp", "pending", "stat",
            "g_exit_code", "pid1", "pid2", "pipefd", "parent", "todo"}
  BY DEF TypeOK, Process
<1>1. \A q \in Pid \ {p} :
        proc'[q] \in {proc[q], [proc[q] EXCEPT !.parent = Reaper]}
  BY DEF Die
<1>2. /\ proc'[p].parent = proc[p].parent /\ proc'[p].fd = AllClosed
      /\ proc'[p].pc = "killed"
  BY <1>d DEF Die
<1> QED
  BY <1>1, <1>2 DEF Effect, Leaves

\* The steps that do nothing to descriptors.
LEMMA PlainEffect ==
  ASSUME TypeOK, NEW p \in Pid,
         \/ ExecTrivial(p) \/ ExecWord(p) \/ Word(p) \/ HerePrompt(p)
         \/ HereLine(p) \/ HereWrite(p) \/ QuietBuiltin(p) \/ Echo(p)
         \/ IgnoreSignals(p) \/ ResetSignals(p) \/ ProgramWrite(p)
  PROVE  Effect(p)
<1> DEFINE e == proc[p]
           u == proc'[p]
<1>d. /\ DOMAIN proc = Pid
      /\ DOMAIN e =
           {"pc", "cur", "frames", "fd", "disp", "pending", "stat",
            "g_exit_code", "pid1", "pid2", "pipefd", "parent", "todo"}
  BY DEF TypeOK, Process
<1>s. ASSUME u.fd = e.fd, u.frames = e.frames, u.pipefd = e.pipefd,
             u.cur = e.cur, u.parent = e.parent,
             \A q \in Pid \ {p} : proc'[q] = proc[q],
             \/ Outside(e) /\ Outside(u) /\ u.pc \notin {"redirect", "prompt"}
             \/ e.pc \in Here /\ u.pc \in Here,
             e.pc \notin Programs => u.pc \notin Programs /\ u.disp \in {e.disp, "ignore"}
      PROVE  Effect(p)
  <2>1. Stays(e, u)
    BY <1>s, WithinSame DEF Stays, Here
  <2>2. Keeps(e, u)
    BY <1>s DEF Keeps, Outside, Here, Setup, Gones
  <2> QED
    BY <1>s, <2>1, <2>2, StaysEffect
<1> USE DEF Here, Setup, Gones, Programs
<1>1. CASE ExecTrivial(p)
  <2>1. /\ u.fd = e.fd /\ u.frames = e.frames /\ u.pipefd = e.pipefd
        /\ u.cur = e.cur /\ u.parent = e.parent
        /\ \A q \in Pid \ {p} : proc'[q] = proc[q]
    BY <1>d, <1>1 DEF ExecTrivial, Goto
  <2>2. /\ \/ Outside(e) /\ Outside(u) /\ u.pc \notin {"redirect", "prompt"}
           \/ e.pc \in Here /\ u.pc \in Here
        /\ e.pc \notin Programs => u.pc \notin Programs /\ u.disp \in {e.disp, "ignore"}
    BY <1>d, <1>1 DEF ExecTrivial, AtNode, At, Goto, Outside
  <2> QED
    BY <1>s, <2>1, <2>2
<1>2. CASE ExecWord(p)
  <2>1. /\ u.fd = e.fd /\ u.frames = e.frames /\ u.pipefd = e.pipefd
        /\ u.cur = e.cur /\ u.parent = e.parent
        /\ \A q \in Pid \ {p} : proc'[q] = proc[q]
    BY <1>d, <1>2 DEF ExecWord, Goto
  <2>2. /\ \/ Outside(e) /\ Outside(u) /\ u.pc \notin {"redirect", "prompt"}
           \/ e.pc \in Here /\ u.pc \in Here
        /\ e.pc \notin Programs => u.pc \notin Programs /\ u.disp \in {e.disp, "ignore"}
    BY <1>d, <1>2 DEF ExecWord, AtNode, At, Goto, Outside
  <2> QED
    BY <1>s, <2>1, <2>2
<1>3. CASE Word(p)
  <2>1. /\ u.fd = e.fd /\ u.frames = e.frames /\ u.pipefd = e.pipefd
        /\ u.cur = e.cur /\ u.parent = e.parent
        /\ \A q \in Pid \ {p} : proc'[q] = proc[q]
    BY <1>d, <1>3 DEF Word
  <2>2. /\ \/ Outside(e) /\ Outside(u) /\ u.pc \notin {"redirect", "prompt"}
           \/ e.pc \in Here /\ u.pc \in Here
        /\ e.pc \notin Programs => u.pc \notin Programs /\ u.disp \in {e.disp, "ignore"}
    BY <1>d, <1>3 DEF Word, At, Outside
  <2> QED
    BY <1>s, <2>1, <2>2
<1>9. CASE HerePrompt(p)
  <2>1. /\ u.fd = e.fd /\ u.frames = e.frames /\ u.pipefd = e.pipefd
        /\ u.cur = e.cur /\ u.parent = e.parent
        /\ \A q \in Pid \ {p} : proc'[q] = proc[q]
    BY <1>d, <1>9 DEF HerePrompt
  <2>2. /\ \/ Outside(e) /\ Outside(u) /\ u.pc \notin {"redirect", "prompt"}
           \/ e.pc \in Here /\ u.pc \in Here
        /\ e.pc \notin Programs => u.pc \notin Programs /\ u.disp \in {e.disp, "ignore"}
    BY <1>d, <1>9 DEF HerePrompt, At, Outside
  <2> QED
    BY <1>s, <2>1, <2>2
<1>10. CASE HereLine(p)
  <2>1. /\ u.fd = e.fd /\ u.frames = e.frames /\ u.pipefd = e.pipefd
        /\ u.cur = e.cur /\ u.parent = e.parent
        /\ \A q \in Pid \ {p} : proc'[q] = proc[q]
    BY <1>d, <1>10 DEF HereLine
  <2>2. /\ \/ Outside(e) /\ Outside(u) /\ u.pc \notin {"redirect", "prompt"}
           \/ e.pc \in Here /\ u.pc \in Here
        /\ e.pc \notin Programs => u.pc \notin Programs /\ u.disp \in {e.disp, "ignore"}
    BY <1>d, <1>10 DEF HereLine, At, Outside
  <2> QED
    BY <1>s, <2>1, <2>2
<1>11. CASE HereWrite(p)
  <2>1. /\ u.fd = e.fd /\ u.frames = e.frames /\ u.pipefd = e.pipefd
        /\ u.cur = e.cur /\ u.parent = e.parent
        /\ \A q \in Pid \ {p} : proc'[q] = proc[q]
    BY <1>d, <1>11 DEF HereWrite
  <2>2. /\ \/ Outside(e) /\ Outside(u) /\ u.pc \notin {"redirect", "prompt"}
           \/ e.pc \in Here /\ u.pc \in Here
        /\ e.pc \notin Programs => u.pc \notin Programs /\ u.disp \in {e.disp, "ignore"}
    BY <1>d, <1>11 DEF HereWrite, At, Outside
  <2> QED
    BY <1>s, <2>1, <2>2
<1>13. CASE QuietBuiltin(p)
  <2>1. /\ u.fd = e.fd /\ u.frames = e.frames /\ u.pipefd = e.pipefd
        /\ u.cur = e.cur /\ u.parent = e.parent
        /\ \A q \in Pid \ {p} : proc'[q] = proc[q]
    BY ZenonT(60), <1>d, <1>13 DEF QuietBuiltin, Goto
  <2>2. /\ \/ Outside(e) /\ Outside(u) /\ u.pc \notin {"redirect", "prompt"}
           \/ e.pc \in Here /\ u.pc \in Here
        /\ e.pc \notin Programs => u.pc \notin Programs /\ u.disp \in {e.disp, "ignore"}
    <3>1. e.pc = "command" /\ \E k : Goto(p, "restore", k)
      BY <1>13 DEF QuietBuiltin, AtCommand, At
    <3>2. u.pc = "restore" /\ u.disp = e.disp
      BY <1>d, <3>1 DEF Goto
    <3> QED
      BY <3>1, <3>2 DEF Outside
  <2> QED
    BY <1>s, <2>1, <2>2
<1>14. CASE Echo(p)
  <2>1. /\ u.fd = e.fd /\ u.frames = e.frames /\ u.pipefd = e.pipefd
        /\ u.cur = e.cur /\ u.parent = e.parent
        /\ \A q \in Pid \ {p} : proc'[q] = proc[q]
    BY <1>d, <1>14 DEF Echo, Goto
  <2>2. /\ \/ Outside(e) /\ Outside(u) /\ u.pc \notin {"redirect", "prompt"}
           \/ e.pc \in Here /\ u.pc \in Here
        /\ e.pc \notin Programs => u.pc \notin Programs /\ u.disp \in {e.disp, "ignore"}
    BY <1>d, <1>14 DEF Echo, AtCommand, At, Goto, Outside
  <2> QED
    BY <1>s, <2>1, <2>2
<1>16. CASE IgnoreSignals(p)
  <2>1. /\ u.fd = e.fd /\ u.frames = e.frames /\ u.pipefd = e.pipefd
        /\ u.cur = e.cur /\ u.parent = e.parent
        /\ \A q \in Pid \ {p} : proc'[q] = proc[q]
    BY <1>d, <1>16 DEF IgnoreSignals
  <2>2. /\ \/ Outside(e) /\ Outside(u) /\ u.pc \notin {"redirect", "prompt"}
           \/ e.pc \in Here /\ u.pc \in Here
        /\ e.pc \notin Programs => u.pc \notin Programs /\ u.disp \in {e.disp, "ignore"}
    BY <1>d, <1>16 DEF IgnoreSignals, At, Outside
  <2> QED
    BY <1>s, <2>1, <2>2
<1>17. CASE ResetSignals(p)
  <2>1. /\ u.fd = e.fd /\ u.frames = e.frames /\ u.pipefd = e.pipefd
        /\ u.cur = e.cur /\ u.parent = e.parent
        /\ \A q \in Pid \ {p} : proc'[q] = proc[q]
    BY <1>d, <1>17 DEF ResetSignals
  <2>2. /\ \/ Outside(e) /\ Outside(u) /\ u.pc \notin {"redirect", "prompt"}
           \/ e.pc \in Here /\ u.pc \in Here
        /\ e.pc \notin Programs => u.pc \notin Programs /\ u.disp \in {e.disp, "ignore"}
    BY <1>d, <1>17 DEF ResetSignals, At, Outside
  <2> QED
    BY <1>s, <2>1, <2>2
<1>23. CASE ProgramWrite(p)
  <2>1. /\ u.fd = e.fd /\ u.frames = e.frames /\ u.pipefd = e.pipefd
        /\ u.cur = e.cur /\ u.parent = e.parent
        /\ \A q \in Pid \ {p} : proc'[q] = proc[q]
    BY <1>d, <1>23 DEF ProgramWrite
  <2>2. /\ \/ Outside(e) /\ Outside(u) /\ u.pc \notin {"redirect", "prompt"}
           \/ e.pc \in Here /\ u.pc \in Here
        /\ e.pc \notin Programs => u.pc \notin Programs /\ u.disp \in {e.disp, "ignore"}
    BY <1>d, <1>23 DEF ProgramWrite, At, Outside
  <2> QED
    BY <1>s, <2>1, <2>2
<1> QED
  BY <1>1, <1>2, <1>3, <1>9, <1>10, <1>11, <1>13, <1>14, <1>16, <1>17, <1>23

\* save_original_fds and restore_fds, close_fds.
LEMMA SaveEffect ==
  ASSUME TypeOK, NEW p \in Pid, SaveFds(p)
  PROVE  Effect(p)
<1> DEFINE e == proc[p]
           u == proc'[p]
<1>d. /\ DOMAIN proc = Pid
      /\ DOMAIN e =
           {"pc", "cur", "frames", "fd", "disp", "pending", "stat",
            "g_exit_code", "pid1", "pid2", "pipefd", "parent", "todo"}
      /\ e \in Process
  BY DEF TypeOK, Process
<1> USE DEF Here, Setup, Gones, Programs
<1>p. e.pc = "exec" /\ Outside(e) /\ e.cur \in Node
  BY <1>d, EntryTypes DEF SaveFds, AtNode, At, Outside
<1>1. CASE Goto(p, "return", 1)
  <2>1. /\ u.fd = e.fd /\ u.frames = e.frames /\ u.pipefd = e.pipefd
        /\ u.cur = e.cur /\ u.parent = e.parent /\ u.disp = e.disp
        /\ u.pc = "return"
        /\ \A q \in Pid \ {p} : proc'[q] = proc[q]
    BY <1>d, <1>1 DEF Goto
  <2>2. Stays(e, u) /\ Keeps(e, u)
    BY <1>p, <2>1, WithinSame DEF Stays, Keeps, Outside
  <2> QED
    BY <2>1, <2>2, StaysEffect
<1>2. CASE /\ Cardinality(Free(p)) >= 2
           /\ proc' = [proc EXCEPT
                ![p].pc = IF Kind[proc[p].cur] = "COMMAND"
                         THEN "command" ELSE "redirect",
                ![p].fd = [@ EXCEPT ![Lowest(p)] = proc[p].fd[0],
                                    ![Second(p)] = proc[p].fd[1]],
                ![p].frames = <<[node |-> proc[p].cur,
                                 fds |-> <<Lowest(p), Second(p)>>]>> \o @]
  <2> DEFINE a == Lowest(p)
             b == Second(p)
  <2>1. /\ a \in Fd /\ b \in Fd /\ a # b
        /\ e.fd[a] = Closed /\ e.fd[b] = Closed
    BY <1>2, FreeFds
  <2> HIDE DEF a, b
  <2>2. /\ u.fd = [e.fd EXCEPT ![a] = e.fd[0], ![b] = e.fd[1]]
        /\ u.frames = <<[node |-> e.cur, fds |-> <<a, b>>]>> \o e.frames
        /\ u.cur = e.cur /\ u.parent = e.parent /\ u.disp = e.disp
        /\ u.pc \in {"command", "redirect"}
        /\ \A q \in Pid \ {p} : proc'[q] = proc[q]
    BY <1>d, <1>2 DEF a, b
  <2>3. Saves(e, u)
    BY <1>p, <2>1, <2>2 DEF Saves, Outside
  <2>4. Keeps(e, u) /\ e.pc \notin Gones
    BY <1>p, <2>2 DEF Keeps
  <2>5. Moves(e, u)
    BY <2>3 DEF Moves
  <2> QED
    BY <2>2, <2>4, <2>5, MovesEffect
<1> QED
  BY <1>1, <1>2 DEF SaveFds

LEMMA RestoreEffect ==
  ASSUME TypeOK, NEW p \in Pid, RestoreFds(p), Shape(proc[p])
  PROVE  Effect(p)
<1> DEFINE e == proc[p]
           u == proc'[p]
<1>d. /\ DOMAIN proc = Pid
      /\ DOMAIN e =
           {"pc", "cur", "frames", "fd", "disp", "pending", "stat",
            "g_exit_code", "pid1", "pid2", "pipefd", "parent", "todo"}
      /\ e \in Process
  BY DEF TypeOK, Process
<1> USE DEF Here, Setup, Gones, Programs
<1>p. e.pc = "restore" /\ Outside(e) /\ e.frames # <<>>
  BY DEF RestoreFds, At, Outside
<1>h. Head(e.frames) = e.frames[1] /\ 1 \in DOMAIN e.frames
  BY <1>d, <1>p, EntryTypes
<1> DEFINE a == Copy(e, 1, 1)
           b == Copy(e, 1, 2)
<1>c. /\ Head(e.frames).fds[1] = a /\ Head(e.frames).fds[2] = b
      /\ Head(e.frames).node = e.frames[1].node
      /\ a \notin {0, 1} /\ b \notin {0, 1}
  BY <1>h DEF Copy, Shape, Std
<1> HIDE DEF a, b
<1>1. /\ u.fd = [f \in Fd |-> CASE f = 0 -> e.fd[a]
                                [] f = 1 -> e.fd[b]
                                [] f \in {a, b} -> Closed
                                [] OTHER -> e.fd[f]]
      /\ u.frames = Tail(e.frames) /\ u.cur = e.frames[1].node
      /\ u.parent = e.parent /\ u.disp = e.disp /\ u.pc = "return"
      /\ \A q \in Pid \ {p} : proc'[q] = proc[q]
  BY <1>d, <1>c DEF RestoreFds
<1>2. u.fd = [f \in Fd |-> IF f = 0 THEN e.fd[a]
                           ELSE IF f = 1 THEN e.fd[b]
                           ELSE IF f \in {a, b} THEN Closed ELSE e.fd[f]]
  BY <1>1, <1>c
<1>3. Restores(e, u)
  BY <1>p, <1>1, <1>2 DEF Restores, Outside, a, b
<1>4. Keeps(e, u) /\ e.pc \notin Gones
  BY <1>p, <1>1 DEF Keeps
<1>5. Moves(e, u)
  BY <1>3 DEF Moves
<1> QED
  BY <1>1, <1>4, <1>5, MovesEffect

\* The end of execute_ast.
LEMMA ReturnEffect ==
  ASSUME TypeOK, NEW p \in Pid, Return(p)
  PROVE  Effect(p)
<1> DEFINE e == proc[p]
           u == proc'[p]
<1>d. /\ DOMAIN proc = Pid
      /\ DOMAIN e =
           {"pc", "cur", "frames", "fd", "disp", "pending", "stat",
            "g_exit_code", "pid1", "pid2", "pipefd", "parent", "todo"}
  BY DEF TypeOK, Process
<1> USE DEF Here, Setup, Gones, Programs
<1>p. e.pc = "return" /\ Outside(e)
  BY DEF Return, At, Outside
<1>1. CASE p # Shell /\ Exit(p, e.stat)
  BY <1>p, <1>1, ExitEffect
<1>2. CASE \/ proc' = [proc EXCEPT
                ![p].pc = "restore", ![p].g_exit_code = e.stat,
                ![p].stat = IF Kind[proc[p].cur] = "WORD" THEN 127 ELSE e.stat]
           \/ /\ e.frames = <<>>
              /\ proc' = [proc EXCEPT ![p].pc = "prompt",
                            ![p].g_exit_code = e.stat, ![p].cur = NoNode]
  <2>1. /\ u.fd = e.fd /\ u.frames = e.frames /\ u.pipefd = e.pipefd
        /\ u.cur \in {e.cur, NoNode} /\ u.parent = e.parent
        /\ u.disp = e.disp
        /\ \/ u.pc = "restore"
           \/ u.pc = "prompt" /\ e.frames = <<>>
        /\ \A q \in Pid \ {p} : proc'[q] = proc[q]
    BY <1>d, <1>2
  <2>2. Within(u.cur, e.cur)
    BY <2>1 DEF Within
  <2>3. Stays(e, u) /\ Keeps(e, u)
    BY <1>p, <2>1, <2>2 DEF Stays, Keeps, Outside
  <2> QED
    BY <2>1, <2>3, StaysEffect
<1> QED
  BY <1>1, <1>2 DEF Return

\* A redirection is refused: nothing happens to the descriptors.
LEMMA RefusedEffect ==
  ASSUME TypeOK, NEW p \in Pid, NEW l \in {"return", "restore"}, NEW s,
         Goto(p, l, s), Outside(proc[p]), proc[p].pc \notin Programs
  PROVE  Effect(p)
<1> DEFINE e == proc[p]
           u == proc'[p]
<1>d. /\ DOMAIN proc = Pid
      /\ DOMAIN e =
           {"pc", "cur", "frames", "fd", "disp", "pending", "stat",
            "g_exit_code", "pid1", "pid2", "pipefd", "parent", "todo"}
  BY DEF TypeOK, Process
<1>1. /\ u.fd = e.fd /\ u.frames = e.frames /\ u.pipefd = e.pipefd
      /\ u.cur = e.cur /\ u.parent = e.parent /\ u.disp = e.disp
      /\ u.pc = l
      /\ \A q \in Pid \ {p} : proc'[q] = proc[q]
  BY <1>d DEF Goto
<1>2. Stays(e, u) /\ Keeps(e, u)
  BY <1>1, WithinSame
  DEF Stays, Keeps, Outside, Here, Setup, Gones, Programs
<1> QED
  BY <1>1, <1>2, StaysEffect

\* open, dup2, close.
LEMMA RedirectEffect ==
  ASSUME TypeOK, NEW p \in Pid, RedirectFile(p), Shape(proc[p])
  PROVE  Effect(p)
<1> DEFINE e == proc[p]
           u == proc'[p]
           n == e.cur
<1>d. /\ DOMAIN proc = Pid
      /\ DOMAIN e =
           {"pc", "cur", "frames", "fd", "disp", "pending", "stat",
            "g_exit_code", "pid1", "pid2", "pipefd", "parent", "todo"}
      /\ e \in Process
  BY DEF TypeOK, Process
<1>p. /\ e.pc = "redirect" /\ Outside(e) /\ n \in Node /\ e.frames # <<>>
      /\ e.pc \notin Programs
  BY <1>d, EntryTypes
  DEF RedirectFile, AtNode, At, Outside, Here, Setup, Gones, Programs, Shape
<1>r. ASSUME NEW f, RedirectedCommand(p, f)
      PROVE  /\ u.fd = f /\ u.frames = e.frames /\ u.pipefd = e.pipefd
             /\ u.parent = e.parent /\ u.disp = e.disp
             /\ u.pc \in {"restore", "exec"}
             /\ Within(u.cur, e.cur)
             /\ \A q \in Pid \ {p} : proc'[q] = proc[q]
  <2>1. CASE Left[n] = NoNode
    <3>1. proc' = [proc EXCEPT ![p].fd = f, ![p].pc = "restore", ![p].stat = 2]
      BY <1>r, <2>1 DEF RedirectedCommand
    <3> QED
      BY <1>d, <3>1, WithinSame
  <2>2. CASE Left[n] # NoNode
    <3>1. proc' = [proc EXCEPT ![p].fd = f, ![p].pc = "exec", ![p].cur = Left[n]]
      BY <1>r, <2>2 DEF RedirectedCommand
    <3>2. Within(Left[n], n)
      BY <1>p, <2>2, Heights DEF Within
    <3> QED
      BY <1>d, <3>1, <3>2
  <2> QED
    BY <2>1, <2>2
<1>1. CASE Goto(p, "restore", 1)
  BY <1>p, <1>1, RefusedEffect
<1>2. CASE RedirectedCommand(p, e.fd)
  <2>1. Stays(e, u) /\ Keeps(e, u)
    BY <1>p, <1>r, <1>2
    DEF Stays, Keeps, Outside, Here, Setup, Gones, Programs
  <2> QED
    BY <1>r, <1>2, <2>1, StaysEffect
<1>3. ASSUME NEW s \in {0, 1},
             RedirectedCommand(p, [e.fd EXCEPT ![s] = FileOf(n)])
      PROVE  Effect(p)
  <2> DEFINE o == FileOf(n)
  <2>1. o \in Object /\ o # Closed /\ o.end = "file"
    BY <1>p, ObjectTypes, Objects
  <2>2. ~ Piped(o) /\ o.end \notin {"r", "w"}
    BY <2>1 DEF Piped
  <2>3. Redirects(e, u, s, o)
    BY <1>p, <1>r, <1>3, <2>1, <2>2
    DEF Redirects, Outside, Here, Setup, Gones
  <2>4. Keeps(e, u)
    BY <1>p, <1>r, <1>3 DEF Keeps, Gones, Programs
  <2>5. Moves(e, u)
    BY <1>p, <2>1, <2>3 DEF Moves
  <2> QED
    BY <1>p, <1>r, <1>3, <2>4, <2>5, MovesEffect DEF Outside
<1> QED
  BY <1>1, <1>2, <1>3 DEF RedirectFile

\* pipe, for a here-document and for a pipeline.
LEMMA OpenEffect ==
  ASSUME TypeOK, NEW p \in Pid, HereDocument(p) \/ ExecPipe(p)
  PROVE  Effect(p)
<1> DEFINE e == proc[p]
           u == proc'[p]
           n == e.cur
<1>d. /\ DOMAIN proc = Pid
      /\ DOMAIN e =
           {"pc", "cur", "frames", "fd", "disp", "pending", "stat",
            "g_exit_code", "pid1", "pid2", "pipefd", "parent", "todo"}
      /\ e \in Process
  BY DEF TypeOK, Process
<1>p. /\ Outside(e) /\ n \in Node /\ e.pc \notin Programs
      /\ HereDocument(p) => e.pc = "redirect" /\ Kind[n] = "HEREDOC"
      /\ ExecPipe(p) => e.pc = "exec" /\ Kind[n] = "PIPE"
  BY <1>d, EntryTypes
  DEF HereDocument, ExecPipe, AtNode, At, Outside, Here, Setup, Gones, Programs
<1>1. CASE Goto(p, "restore", 1) \/ Goto(p, "return", 1) \/ Goto(p, "return", 2)
  BY <1>p, <1>1, RefusedEffect
<1>2. CASE /\ Cardinality(Free(p)) >= 2
           /\ \/ /\ HereDocument(p)
                 /\ proc' = [proc EXCEPT
                      ![p].pc = "here_prompt",
                      ![p].pipefd = <<Lowest(p), Second(p)>>,
                      ![p].fd = PipeOpened(p, n),
                      ![p].todo = MaxBody]
              \/ /\ ExecPipe(p)
                 /\ proc' = [proc EXCEPT
                      ![p].pc = "fork_left",
                      ![p].pipefd = <<Lowest(p), Second(p)>>,
                      ![p].fd = PipeOpened(p, n)]
  <2> DEFINE a == Lowest(p)
             b == Second(p)
  <2>1. /\ a \in Fd /\ b \in Fd /\ a # b
        /\ e.fd[a] = Closed /\ e.fd[b] = Closed
    BY <1>2, FreeFds
  <2>2. PipeOpened(p, n) = [e.fd EXCEPT ![a] = ReadEnd(n), ![b] = WriteEnd(n)]
    BY DEF PipeOpened
  <2>3. /\ u.fd = PipeOpened(p, n) /\ u.frames = e.frames
        /\ u.pipefd = <<a, b>>
        /\ u.cur = e.cur /\ u.parent = e.parent /\ u.disp = e.disp
        /\ \/ u.pc = "here_prompt" /\ HereDocument(p)
           \/ u.pc = "fork_left" /\ ExecPipe(p)
        /\ \A q \in Pid \ {p} : proc'[q] = proc[q]
    BY <1>d, <1>2
  <2> HIDE DEF a, b
  <2>4. u.pipefd[1] = a /\ u.pipefd[2] = b
    BY <2>3
  <2>5. \/ u.pc \in Here /\ Kind[n] = "HEREDOC" /\ e.pc = "redirect"
        \/ u.pc \in Setup /\ Kind[n] = "PIPE"
    BY <1>p, <2>3 DEF Here, Setup
  <2>6. Opens(e, u)
    BY <1>p, <2>1, <2>2, <2>3, <2>4, <2>5 DEF Opens
  <2>7. Keeps(e, u)
    BY <1>p, <2>3 DEF Keeps, Gones, Programs
  <2>8. Moves(e, u)
    BY <2>6 DEF Moves
  <2> QED
    BY <1>p, <2>3, <2>7, <2>8, MovesEffect DEF Outside
<1> QED
  BY <1>1, <1>2 DEF HereDocument, ExecPipe

LEMMA EntryChanged ==
  ASSUME NEW e \in Process, NEW l \in Location, NEW f \in [Fd -> Object]
  PROVE  [e EXCEPT !.pc = l, !.fd = f] \in Process
  BY DEF Process

\* The end of a here-document: its read end becomes standard input.
LEMMA HereEndEffect ==
  ASSUME TypeOK, TypeOK', NEW p \in Pid, HereEnd(p), Shape(proc[p])
  PROVE  Effect(p)
<1> DEFINE e == proc[p]
           u == proc'[p]
           n == e.cur
           a == e.pipefd[1]
           b == e.pipefd[2]
           f == [e.fd EXCEPT ![a] = Closed, ![b] = Closed]
           v == [e EXCEPT !.pc = "redirect", !.fd = f]
           o == ReadEnd(n)
<1>d. /\ DOMAIN proc = Pid
      /\ DOMAIN e =
           {"pc", "cur", "frames", "fd", "disp", "pending", "stat",
            "g_exit_code", "pid1", "pid2", "pipefd", "parent", "todo"}
      /\ e \in Process
  BY DEF TypeOK, Process
<1>p. /\ e.pc = "here_read" /\ e.pc \in Here /\ n \in Node
      /\ Kind[n] = "HEREDOC" /\ e.frames # <<>>
      /\ a \in Fd \ {0, 1} /\ b \in Fd \ {0, 1} /\ e.fd[a] = o
      /\ e.fd \in [Fd -> Object]
  BY <1>d, EntryTypes DEF HereEnd, AtNode, At, Here, Shape, Ends
<1>1. f \in [Fd -> Object]
  BY <1>p, ObjectTypes
<1>2. /\ v \in Process /\ v.frames = e.frames /\ v.cur = n /\ v.fd = f
      /\ v.pc = "redirect"
  <2>1. "redirect" \in Location
    BY DEF Location
  <2> HIDE DEF f, e
  <2>2. v \in Process
    BY <1>d, <1>1, <2>1, EntryChanged
  <2> QED
    BY <1>d, <2>2
<1>3. Closes(e, v)
  BY <1>p, <1>2 DEF Closes, Outside, Here, Setup, Gones
<1>4. RedirectedCommand(p, [e.fd EXCEPT ![0] = e.fd[a], ![a] = Closed, ![b] = Closed])
  BY DEF HereEnd
<1>5. [e.fd EXCEPT ![0] = e.fd[a], ![a] = Closed, ![b] = Closed]
        = [f EXCEPT ![0] = o]
  BY <1>p, StdFds
<1>6. /\ u.fd = [f EXCEPT ![0] = o] /\ u.frames = e.frames
      /\ u.parent = e.parent /\ u.disp = e.disp
      /\ u.pc \in {"restore", "exec"}
      /\ Within(u.cur, n)
      /\ \A q \in Pid \ {p} : proc'[q] = proc[q]
  <2> DEFINE g == [f EXCEPT ![0] = o]
  <2>0. RedirectedCommand(p, g)
    BY <1>4, <1>5
  <2> HIDE DEF g, f
  <2>1. CASE Left[n] = NoNode
    <3>1. proc' = [proc EXCEPT ![p].fd = g, ![p].pc = "restore", ![p].stat = 2]
      BY <2>0, <2>1 DEF RedirectedCommand
    <3>2. u.fd = g /\ u.cur = n
      BY <1>d, <3>1
    <3> QED
      BY <1>d, <3>1, <3>2, WithinSame DEF g
  <2>2. CASE Left[n] # NoNode
    <3>1. proc' = [proc EXCEPT ![p].fd = g, ![p].pc = "exec", ![p].cur = Left[n]]
      BY <2>0, <2>2 DEF RedirectedCommand
    <3>2. Within(Left[n], n)
      BY <1>p, <2>2, Heights DEF Within
    <3>3. u.fd = g /\ u.cur = Left[n]
      BY <1>d, <3>1
    <3> QED
      BY <1>d, <3>1, <3>2, <3>3 DEF g
  <2> QED
    BY <2>1, <2>2
<1> HIDE DEF f, v
<1>7. /\ o \in Object /\ o # Closed /\ o.node = n /\ ~ Piped(o)
  BY <1>p, ObjectTypes, Objects DEF Piped
<1> HIDE DEF o
<1>8. Redirects(v, u, 0, o)
  BY <1>p, <1>2, <1>6, <1>7 DEF Redirects, Outside, Here, Setup, Gones
<1>9. Keeps(e, u) /\ e.pc \notin Gones
  BY <1>p, <1>6 DEF Keeps, Gones, Programs
<1>10. Moves(e, u)
  BY <1>p, <1>2, <1>3, <1>8 DEF Moves
<1> QED
  BY <1>6, <1>9, <1>10, MovesEffect

LEMMA EmptiedEntry ==
  ASSUME NEW e \in Process, NEW f \in [Fd -> Object]
  PROVE  [e EXCEPT !.pc = "exec", !.fd = f, !.frames = <<>>] \in Process
<1>1. <<>> \in Seq(Frame) /\ "exec" \in Location
  BY DEF Location
<1> QED
  BY <1>1 DEF Process

\* left_child and right_child: one end becomes standard output or input, and
\* both are closed.
LEMMA ChildEffect ==
  ASSUME TypeOK, TypeOK', NEW p \in Pid, LeftChild(p) \/ RightChild(p),
         Shape(proc[p])
  PROVE  Effect(p)
<1> DEFINE e == proc[p]
           u == proc'[p]
           n == e.cur
           a == e.pipefd[1]
           b == e.pipefd[2]
           f == PipeClosed(p)
           v == [e EXCEPT !.pc = "exec", !.fd = f, !.frames = <<>>]
<1>d. /\ DOMAIN proc = Pid
      /\ DOMAIN e =
           {"pc", "cur", "frames", "fd", "disp", "pending", "stat",
            "g_exit_code", "pid1", "pid2", "pipefd", "parent", "todo"}
      /\ e \in Process
  BY DEF TypeOK, Process
<1>p. /\ LeftChild(p) => e.pc = "left_child"
      /\ RightChild(p) => e.pc = "right_child"
      /\ e.pc \in Setup /\ n \in Node /\ Kind[n] = "PIPE"
      /\ e.fd[a] = ReadEnd(n) /\ e.fd[b] = WriteEnd(n)
  BY <1>d, EntryTypes DEF LeftChild, RightChild, AtNode, At, Setup, Shape
<1>1. f \in [Fd -> Object]
  BY PipeClosedType
<1>f. f = [e.fd EXCEPT ![a] = Closed, ![b] = Closed]
  BY DEF PipeClosed
<1>2. /\ v \in Process /\ v.frames = <<>> /\ v.cur = n /\ v.fd = f
      /\ v.pc = "exec"
  <2> HIDE DEF f, e
  <2>1. v \in Process
    BY <1>d, <1>1, EmptiedEntry
  <2> QED
    BY <1>d, <2>1
<1> HIDE DEF f, v
<1>3. Closes(e, v)
  BY <1>p, <1>2, <1>f DEF Closes, Outside, Here, Setup, Gones
<1>4. ASSUME NEW s \in {0, 1}, NEW m, NEW o \in {ReadEnd(n), WriteEnd(n)},
             m = NoNode \/ (m \in Node /\ Height[m] < Height[n]),
             e.pc = IF s = 1 THEN "left_child" ELSE "right_child",
             proc' = [proc EXCEPT ![p].pc = "exec", ![p].cur = m,
                       ![p].frames = <<>>, ![p].fd = [f EXCEPT ![s] = o]]
      PROVE  Effect(p)
  <2>1. /\ u.fd = [f EXCEPT ![s] = o] /\ u.frames = <<>> /\ u.cur = m
        /\ u.parent = e.parent /\ u.disp = e.disp /\ u.pc = "exec"
        /\ \A q \in Pid \ {p} : proc'[q] = proc[q]
    BY <1>d, <1>4
  <2>2. o \in Object /\ o # Closed /\ o.node = n
    BY <1>p, ObjectTypes, Objects
  <2>3. Within(m, n)
    BY <1>4, <1>p DEF Within
  <2>4. Redirects(v, u, s, o)
    BY <1>2, <1>4, <1>p, <2>1, <2>2, <2>3
    DEF Redirects, Outside, Here, Setup, Gones
  <2>5. Keeps(e, u) /\ e.pc \notin Gones
    BY <1>p, <2>1 DEF Keeps, Gones, Programs, Setup
  <2>6. Moves(e, u)
    BY <1>2, <1>3, <1>4, <2>4 DEF Moves
  <2> QED
    BY <2>1, <2>5, <2>6, MovesEffect
<1>5. CASE LeftChild(p)
  <2>1. proc' = [proc EXCEPT ![p].pc = "exec", ![p].cur = Left[n],
                   ![p].frames = <<>>, ![p].fd = [f EXCEPT ![1] = WriteEnd(n)]]
    BY <1>d, <1>5, <1>p DEF LeftChild, f
  <2>2. Left[n] = NoNode \/ (Left[n] \in Node /\ Height[Left[n]] < Height[n])
    BY <1>p, Heights
  <2> QED
    BY <1>p, <1>4, <1>5, <2>1, <2>2
<1>6. CASE RightChild(p)
  <2>1. proc' = [proc EXCEPT ![p].pc = "exec", ![p].cur = Right[n],
                   ![p].frames = <<>>, ![p].fd = [f EXCEPT ![0] = ReadEnd(n)]]
    BY <1>d, <1>6, <1>p DEF RightChild, f
  <2>2. Right[n] = NoNode \/ (Right[n] \in Node /\ Height[Right[n]] < Height[n])
    BY <1>p, Heights
  <2>3. e.pc = IF 0 = 1 THEN "left_child" ELSE "right_child"
    BY <1>p, <1>6
  <2> QED
    BY <1>4, <2>1, <2>2, <2>3
<1> QED
  BY <1>5, <1>6

\* The parent closes both ends.
LEMMA CloseEffect ==
  ASSUME TypeOK, NEW p \in Pid, NEW l \in {"return", "wait_only_left", "wait_left"},
         proc[p].pc \in Setup, NEW s,
         \/ proc' = [proc EXCEPT ![p].pc = l, ![p].fd = PipeClosed(p)]
         \/ proc' = [proc EXCEPT ![p].pc = l, ![p].stat = s,
                                 ![p].fd = PipeClosed(p)]
  PROVE  Effect(p)
<1> DEFINE e == proc[p]
           u == proc'[p]
<1>d. /\ DOMAIN proc = Pid
      /\ DOMAIN e =
           {"pc", "cur", "frames", "fd", "disp", "pending", "stat",
            "g_exit_code", "pid1", "pid2", "pipefd", "parent", "todo"}
  BY DEF TypeOK, Process
<1>1. /\ u.fd = PipeClosed(p) /\ u.frames = e.frames
      /\ u.cur = e.cur /\ u.parent = e.parent /\ u.disp = e.disp /\ u.pc = l
      /\ \A q \in Pid \ {p} : proc'[q] = proc[q]
  BY <1>d
<1>2. Closes(e, u)
  BY <1>1 DEF Closes, PipeClosed, Outside, Here, Setup, Gones
<1>3. Keeps(e, u) /\ e.pc \notin Gones
  BY <1>1 DEF Keeps, Gones, Programs, Setup
<1>4. Moves(e, u)
  BY <1>1, <1>2 DEF Moves
<1> QED
  BY <1>1, <1>3, <1>4, MovesEffect

\* fork: the child starts with what its parent has.
LEMMA ForkEffect ==
  ASSUME TypeOK, NEW p \in Pid, NEW l, NEW m, NEW c, c = NewPid, FreePid # {},
         \/ proc' = [proc EXCEPT ![c] = Fork(p, l), ![p].pc = m, ![p].pid1 = c]
         \/ proc' = [proc EXCEPT ![c] = Fork(p, l), ![p].pc = m, ![p].pid2 = c],
         \/ proc[p].pc = "command" /\ l = "external_child" /\ m = "ignore_signals"
         \/ proc[p].pc = "fork_left" /\ l = "left_child" /\ m = "fork_right"
         \/ proc[p].pc = "fork_right" /\ l = "right_child" /\ m = "close_ends"
  PROVE  Effect(p)
<1> DEFINE e == proc[p]
           u == proc'[p]
           k == proc'[c]
<1>d. /\ DOMAIN proc = Pid
      /\ DOMAIN e =
           {"pc", "cur", "frames", "fd", "disp", "pending", "stat",
            "g_exit_code", "pid1", "pid2", "pipefd", "parent", "todo"}
  BY DEF TypeOK, Process
<1>1. c \in Pid /\ c # p /\ proc[c].pc = "unused"
  BY NewPidFree
<1>2. /\ u.fd = e.fd /\ u.frames = e.frames /\ u.pipefd = e.pipefd
      /\ u.cur = e.cur /\ u.parent = e.parent /\ u.disp = e.disp
      /\ u.pc = m
      /\ \A q \in Pid \ {p, c} : proc'[q] = proc[q]
  BY <1>d, <1>1
<1>3. k = Fork(p, l)
  BY <1>d, <1>1
<1>4. /\ k.fd = e.fd /\ k.frames = e.frames /\ k.pipefd = e.pipefd
      /\ k.cur = e.cur /\ k.pc = l
  BY <1>d, <1>3 DEF Fork
<1>5. Stays(e, u) /\ Keeps(e, u) /\ e.pc \notin Gones
  BY <1>2, WithinSame DEF Stays, Keeps, Outside, Here, Setup, Gones, Programs
<1>6. Stays(e, k)
  BY <1>4, WithinSame DEF Stays, Outside, Here, Setup, Gones
<1> QED
  BY <1>1, <1>2, <1>4, <1>5, <1>6 DEF Effect, Forked

\* waitpid: the child's entry is freed.
LEMMA WaitEffect ==
  ASSUME TypeOK, NEW p \in Pid, WaitExternal(p) \/ WaitLeft(p) \/ WaitRight(p)
  PROVE  Effect(p)
<1> DEFINE e == proc[p]
           u == proc'[p]
<1>d. /\ DOMAIN proc = Pid
      /\ DOMAIN e =
           {"pc", "cur", "frames", "fd", "disp", "pending", "stat",
            "g_exit_code", "pid1", "pid2", "pipefd", "parent", "todo"}
      /\ e.pid1 \in Pid /\ e.pid2 \in Pid
  BY DEF TypeOK, Process
<1>1. ASSUME NEW c \in Pid, proc[c].pc \in Ended, c \in Awaited(p),
             e.pc \in {"wait_external", "wait_left", "wait_right", "wait_only_left"},
             NEW m \in {"restore", "return", "wait_right"}, NEW s,
             \/ proc' = [proc EXCEPT ![c] = Unused, ![p].pc = m]
             \/ proc' = [proc EXCEPT ![c] = Unused, ![p].pc = m, ![p].stat = s]
      PROVE  Effect(p)
  <2>1. c # p
    BY <1>1 DEF Ended
  <2>2. /\ u.fd = e.fd /\ u.frames = e.frames /\ u.pipefd = e.pipefd
        /\ u.cur = e.cur /\ u.parent = e.parent /\ u.disp = e.disp
        /\ u.pc = m
        /\ \A q \in Pid \ {p, c} : proc'[q] = proc[q]
        /\ proc'[c] = Unused
    BY <1>d, <1>1, <2>1
  <2>3. Stays(e, u) /\ Keeps(e, u) /\ e.pc \notin Gones
    BY <1>1, <2>2, WithinSame
    DEF Stays, Keeps, Outside, Here, Setup, Gones, Programs
  <2> QED
    BY <1>1, <2>1, <2>2, <2>3 DEF Effect
<1>2. CASE WaitExternal(p)
  BY <1>1, <1>2, <1>d DEF WaitExternal, At, Awaited
<1>3. CASE WaitLeft(p)
  BY ZenonT(60), <1>1, <1>3, <1>d DEF WaitLeft, At, Awaited
<1>4. CASE WaitRight(p)
  BY <1>1, <1>4, <1>d DEF WaitRight, At, Awaited
<1> QED
  BY <1>2, <1>3, <1>4

\* Programs end or go on.
LEMMA ProgramEffect ==
  ASSUME TypeOK, NEW p \in Pid,
         StartProgram(p) \/ ProgramRead(p) \/ ProgramProduce(p)
  PROVE  Effect(p)
<1> DEFINE e == proc[p]
           u == proc'[p]
<1>d. /\ DOMAIN proc = Pid
      /\ DOMAIN e =
           {"pc", "cur", "frames", "fd", "disp", "pending", "stat",
            "g_exit_code", "pid1", "pid2", "pipefd", "parent", "todo"}
  BY DEF TypeOK, Process
<1>p. e.pc \in Programs
  BY DEF StartProgram, ProgramRead, ProgramProduce, AtCommand, At, Programs
<1>1. ASSUME NEW s, Exit(p, s)
      PROVE  Effect(p)
  BY <1>p, <1>1, ExitEffect
<1>2. ASSUME NEW l \in Programs, NEW k,
             proc' = [proc EXCEPT ![p].pc = l, ![p].todo = k]
      PROVE  Effect(p)
  <2>1. /\ u.fd = e.fd /\ u.frames = e.frames /\ u.pipefd = e.pipefd
        /\ u.cur = e.cur /\ u.parent = e.parent /\ u.pc = l
        /\ \A q \in Pid \ {p} : proc'[q] = proc[q]
    BY <1>d, <1>2
  <2>2. Stays(e, u) /\ Keeps(e, u)
    BY <1>p, <2>1, WithinSame
    DEF Stays, Keeps, Outside, Here, Setup, Gones, Programs
  <2> QED
    BY <2>1, <2>2, StaysEffect
<1>3. ASSUME Consume(p)
      PROVE  Effect(p)
  BY <1>1, <1>2, <1>3 DEF Consume, ProgramExit, Programs
<1> QED
  BY <1>1, <1>2, <1>3 DEF StartProgram, ProgramRead, ProgramProduce, ProgramExit, Programs

LEMMA StepEffect ==
  ASSUME TypeOK, TypeOK', NEW p \in Pid, EntryInv(proc[p]), Step(p)
  PROVE  Effect(p)
<1>s. proc[p].pc \notin Gones => Shape(proc[p])
  BY DEF EntryInv
<1>1. CASE \/ ExecTrivial(p) \/ ExecWord(p) \/ Word(p) \/ HerePrompt(p)
           \/ HereLine(p) \/ HereWrite(p) \/ QuietBuiltin(p) \/ Echo(p)
           \/ IgnoreSignals(p) \/ ResetSignals(p) \/ ProgramWrite(p)
  BY <1>1, PlainEffect
<1>2. CASE SaveFds(p)
  BY <1>2, SaveEffect
<1>3. CASE RestoreFds(p)
  BY <1>s, <1>3, RestoreEffect DEF RestoreFds, At, Gones
<1>4. CASE Return(p)
  BY <1>4, ReturnEffect
<1>5. CASE RedirectFile(p)
  BY <1>s, <1>5, RedirectEffect DEF RedirectFile, AtNode, At, Gones
<1>6. CASE HereDocument(p) \/ ExecPipe(p)
  BY <1>6, OpenEffect
<1>7. CASE HereEnd(p)
  BY <1>s, <1>7, HereEndEffect DEF HereEnd, AtNode, At, Gones
<1>8. CASE LeftChild(p) \/ RightChild(p)
  BY <1>s, <1>8, ChildEffect DEF LeftChild, RightChild, AtNode, At, Gones
<1>9. CASE ExitBuiltin(p)
  BY <1>9, ExitEffect DEF ExitBuiltin
<1>10. CASE ForkExternal(p)
  <2>1. proc[p].pc = "command"
    BY <1>10 DEF ForkExternal, AtCommand, At
  <2>2. CASE Goto(p, "restore", 1)
    BY <2>1, <2>2, RefusedEffect DEF Outside, Here, Setup, Gones, Programs
  <2>3. CASE /\ FreePid # {}
             /\ proc' = [proc EXCEPT ![NewPid] = Fork(p, "external_child"),
                                ![p].pc = "ignore_signals", ![p].pid1 = NewPid]
    BY <2>1, <2>3, ForkEffect
  <2> QED
    BY <1>10, <2>2, <2>3 DEF ForkExternal
<1>11. CASE ForkLeft(p)
  <2>1. proc[p].pc = "fork_left"
    BY <1>11 DEF ForkLeft, At
  <2>2. CASE proc' = [proc EXCEPT ![p].pc = "return", ![p].stat = 1,
                             ![p].fd = PipeClosed(p)]
    BY <2>1, <2>2, CloseEffect DEF Setup
  <2>3. CASE /\ FreePid # {}
             /\ proc' = [proc EXCEPT ![NewPid] = Fork(p, "left_child"),
                                ![p].pc = "fork_right", ![p].pid1 = NewPid]
    BY <2>1, <2>3, ForkEffect
  <2> QED
    BY <1>11, <2>2, <2>3 DEF ForkLeft
<1>12. CASE ForkRight(p)
  <2>1. proc[p].pc = "fork_right"
    BY <1>12 DEF ForkRight, At
  <2>2. CASE proc' = [proc EXCEPT ![p].pc = "wait_only_left",
                             ![p].fd = PipeClosed(p)]
    BY <2>1, <2>2, CloseEffect DEF Setup
  <2>3. CASE /\ FreePid # {}
             /\ proc' = [proc EXCEPT ![NewPid] = Fork(p, "right_child"),
                                ![p].pc = "close_ends", ![p].pid2 = NewPid]
    BY <2>1, <2>3, ForkEffect
  <2> QED
    BY <1>12, <2>2, <2>3 DEF ForkRight
<1>13. CASE CloseEnds(p)
  BY <1>13, CloseEffect DEF CloseEnds, At, Setup
<1>14. CASE WaitExternal(p) \/ WaitLeft(p) \/ WaitRight(p)
  BY <1>14, WaitEffect
<1>15. CASE StartProgram(p) \/ ProgramRead(p) \/ ProgramProduce(p)
  BY <1>15, ProgramEffect
<1>16. CASE SigPipe(p)
  BY <1>16, DieEffect DEF SigPipe, Broken, Out, Gones
<1>17. CASE Deliver(p)
  <2>1. proc[p].pc \notin Gones
    BY <1>17 DEF Deliver, Live, Ended, Gones
  <2>2. CASE proc[p].disp = "default" /\ \E s : Die(p, s)
    BY <2>1, <2>2, DieEffect
  <2>3. CASE Broken(p) /\ \E s : Die(p, s)
    BY <2>1, <2>3, DieEffect DEF Broken, Out
  <2>4. CASE proc' = [proc EXCEPT ![p].pending = "no"]
    <3> DEFINE e == proc[p]
               u == proc'[p]
    <3>1. /\ DOMAIN proc = Pid /\ e \in Process
          /\ DOMAIN e =
               {"pc", "cur", "frames", "fd", "disp", "pending", "stat",
                "g_exit_code", "pid1", "pid2", "pipefd", "parent", "todo"}
      BY DEF TypeOK, Process
    <3>2. /\ u.fd = e.fd /\ u.frames = e.frames /\ u.pipefd = e.pipefd
          /\ u.cur = e.cur /\ u.parent = e.parent /\ u.disp = e.disp
          /\ u.pc = e.pc
          /\ \A q \in Pid \ {p} : proc'[q] = proc[q]
      BY <3>1, <2>4
    <3>3. Shape(e)
      BY <1>s, <2>1
    <3>4. Stays(e, u)
      BY <2>1, <3>2, <3>3, WithinSame DEF Stays, Outside, Shape
    <3>5. Keeps(e, u)
      BY <2>1, <3>2 DEF Keeps
    <3> QED
      BY <3>2, <3>4, <3>5, StaysEffect
  <2> QED
    BY <1>17, <2>2, <2>3, <2>4 DEF Deliver
<1> QED
  BY <1>1, <1>2, <1>3, <1>4, <1>5, <1>6, <1>7, <1>8, <1>9, <1>10, <1>11,
     <1>12, <1>13, <1>14, <1>15, <1>16, <1>17 DEF Step

-----------------------------------------------------------------------------
(* Links.                                                                  *)

\* What a process that neither forks, waits nor dies does to them.
Calm(p) ==
  /\ \A q \in Pid \ {p} : proc'[q] = proc[q]
  /\ proc'[p].parent = proc[p].parent /\ proc'[p].pc # "unused"
  /\ Awaited(p)' \subseteq Awaited(p)
  /\ proc'[p].pc \in {"close_ends", "wait_left"} =>
       /\ proc[p].pc \in {"close_ends", "wait_left"}
       /\ proc'[p].pid1 = proc[p].pid1 /\ proc'[p].pid2 = proc[p].pid2

LEMMA AwaitedPids ==
  ASSUME TypeOK, NEW q \in Pid
  PROVE  Awaited(q) \subseteq Pid
<1>1. proc[q].pid1 \in Pid /\ proc[q].pid2 \in Pid
  BY DEF TypeOK, Process
<1> QED
  BY <1>1 DEF Awaited

LEMMA LinksCalm ==
  ASSUME TypeOK, Links, NEW p \in Pid, Calm(p)
  PROVE  Links'
<1> SUFFICES ASSUME NEW q \in Pid
             PROVE  /\ \A c \in Awaited(q)' : /\ proc'[c].pc # "unused"
                                              /\ proc'[c].parent = q
                    /\ proc'[q].pc \in {"close_ends", "wait_left"} =>
                         proc'[q].pid1 # proc'[q].pid2
  BY DEF Links
<1>1. Awaited(q)' \subseteq Awaited(q)
  <2>1. q # p => proc'[q] = proc[q]
    BY DEF Calm
  <2> QED
    BY <2>1 DEF Calm, Awaited
<1>2. ASSUME NEW c \in Awaited(q)'
      PROVE  proc'[c].pc # "unused" /\ proc'[c].parent = q
  <2>1. c \in Awaited(q)
    BY <1>1
  <2>2. proc[c].pc # "unused" /\ proc[c].parent = q
    BY <2>1 DEF Links
  <2>3. c = p \/ proc'[c] = proc[c]
    BY <2>1, AwaitedPids DEF Calm
  <2> QED
    BY <2>2, <2>3 DEF Calm
<1>3. proc'[q].pc \in {"close_ends", "wait_left"} => proc'[q].pid1 # proc'[q].pid2
  BY DEF Calm, Links
<1> QED
  BY <1>2, <1>3

\* waitpid: nobody else waits for c.
LEMMA LinksReaped ==
  ASSUME TypeOK, Links, NEW p \in Pid \cup {Reaper}, NEW c \in Pid, c # p,
         proc[c].parent = p, proc[c].pc \in Ended, proc'[c] = Unused,
         \A q \in Pid \ {p, c} : proc'[q] = proc[q],
         p \in Pid => /\ proc'[p].parent = proc[p].parent
                      /\ Awaited(p)' \subseteq Awaited(p) \ {c}
                      /\ proc'[p].pc \notin {"unused", "close_ends", "wait_left"}
  PROVE  Links'
<1> SUFFICES ASSUME NEW q \in Pid
             PROVE  /\ \A d \in Awaited(q)' : /\ proc'[d].pc # "unused"
                                              /\ proc'[d].parent = q
                    /\ proc'[q].pc \in {"close_ends", "wait_left"} =>
                         proc'[q].pid1 # proc'[q].pid2
  BY DEF Links
<1>1. CASE q = c
  <2>1. Awaited(q)' = {}
    BY <1>1 DEF Awaited, Unused
  <2> QED
    BY <1>1, <2>1 DEF Unused
<1>2. CASE q # c
  <2>1. /\ Awaited(q)' \subseteq Awaited(q)
        /\ proc'[q].pc \in {"close_ends", "wait_left"} => proc'[q] = proc[q]
    <3>1. q # p => proc'[q] = proc[q]
      BY <1>2
    <3> QED
      BY <3>1 DEF Awaited
  <2>2. c \notin Awaited(q)'
    BY <2>1 DEF Links
  <2>3. ASSUME NEW d \in Awaited(q)'
        PROVE  proc'[d].pc # "unused" /\ proc'[d].parent = q
    <3>1. d \in Awaited(q) /\ d # c /\ d \in Pid
      BY <2>1, <2>2, <2>3, AwaitedPids
    <3>2. proc[d].pc # "unused" /\ proc[d].parent = q
      BY <3>1 DEF Links
    <3>3. d = p \/ proc'[d] = proc[d]
      BY <3>1
    <3> QED
      BY <3>1, <3>2, <3>3
  <2> QED
    BY <2>1, <2>3 DEF Links
<1> QED
  BY <1>1, <1>2

\* fork: the child's identifier is none p already waits for.
LEMMA LinksForked ==
  ASSUME TypeOK, Links, NEW p \in Pid, NEW c \in Pid,
         proc[c].pc = "unused", proc[p].pc # "unused",
         \A q \in Pid \ {p, c} : proc'[q] = proc[q],
         proc'[p].parent = proc[p].parent, proc'[c].parent = p,
         proc'[c].pc \notin {"unused", "close_ends", "wait_left"},
         Awaited(p)' \subseteq Awaited(p) \cup {c}, Awaited(c)' = {},
         proc'[p].pc \notin {"unused", "wait_left"},
         proc'[p].pc = "close_ends" =>
           /\ proc[p].pid1 \in Awaited(p) /\ proc'[p].pid2 = c
           /\ proc'[p].pid1 = proc[p].pid1
  PROVE  Links'
<1> SUFFICES ASSUME NEW q \in Pid
             PROVE  /\ \A d \in Awaited(q)' : /\ proc'[d].pc # "unused"
                                              /\ proc'[d].parent = q
                    /\ proc'[q].pc \in {"close_ends", "wait_left"} =>
                         proc'[q].pid1 # proc'[q].pid2
  BY DEF Links
<1>1. \A r \in Pid : c \notin Awaited(r)
  BY DEF Links
<1>2. ASSUME NEW d \in Awaited(q)'
      PROVE  proc'[d].pc # "unused" /\ proc'[d].parent = q
  <2>1. q # c
    BY <1>2
  <2>2. d \in Awaited(q) \/ (d = c /\ q = p)
    <3>1. q # p => proc'[q] = proc[q]
      BY <2>1
    <3> QED
      BY <1>2, <3>1 DEF Awaited
  <2>3. CASE d \in Awaited(q)
    <3>1. proc[d].pc # "unused" /\ proc[d].parent = q /\ d # c /\ d \in Pid
      BY <1>1, <2>3, AwaitedPids DEF Links
    <3>2. d = p \/ proc'[d] = proc[d]
      BY <3>1
    <3> QED
      BY <3>1, <3>2
  <2> QED
    BY <2>2, <2>3
<1>3. proc'[q].pc \in {"close_ends", "wait_left"} => proc'[q].pid1 # proc'[q].pid2
  <2>1. CASE q = p
    BY <1>1, <2>1
  <2>2. CASE q = c
    BY <2>2
  <2>3. CASE q \notin {p, c}
    <3>1. proc'[q] = proc[q]
      BY <2>3
    <3> QED
      BY <3>1 DEF Links
  <2> QED
    BY <2>1, <2>2, <2>3
<1> QED
  BY <1>2, <1>3

\* Death by a signal.
LEMMA LinksDead ==
  ASSUME TypeOK, Links, NEW p \in Pid, NEW s \in Status, Die(p, s)
  PROVE  Links'
<1>d. /\ DOMAIN proc = Pid
      /\ \A q \in Pid : DOMAIN proc[q] =
           {"pc", "cur", "frames", "fd", "disp", "pending", "stat",
            "g_exit_code", "pid1", "pid2", "pipefd", "parent", "todo"}
  BY DEF TypeOK, Process
<1>p. proc'[p].pc = "killed" /\ proc'[p].parent = proc[p].parent
  BY <1>d DEF Die
<1>q. \A q \in Pid \ {p} : /\ proc'[q].pc = proc[q].pc
                           /\ proc'[q].pid1 = proc[q].pid1
                           /\ proc'[q].pid2 = proc[q].pid2
                           /\ proc[q].parent # p => proc'[q] = proc[q]
  BY <1>d DEF Die
<1> SUFFICES ASSUME NEW q \in Pid
             PROVE  /\ \A c \in Awaited(q)' : /\ proc'[c].pc # "unused"
                                              /\ proc'[c].parent = q
                    /\ proc'[q].pc \in {"close_ends", "wait_left"} =>
                         proc'[q].pid1 # proc'[q].pid2
  BY DEF Links
<1>1. CASE q = p
  BY <1>p, <1>1 DEF Awaited
<1>2. CASE q # p
  <2>1. Awaited(q)' = Awaited(q)
    BY <1>q, <1>2 DEF Awaited
  <2>2. ASSUME NEW c \in Awaited(q)
        PROVE  proc'[c].pc # "unused" /\ proc'[c].parent = q
    <3>1. proc[c].pc # "unused" /\ proc[c].parent = q /\ c \in Pid
      BY <2>2, AwaitedPids DEF Links
    <3>2. CASE c = p
      BY <1>p, <3>1, <3>2
    <3>3. CASE c # p
      BY <1>2, <1>q, <3>1, <3>3
    <3> QED
      BY <3>2, <3>3
  <2> QED
    BY <1>2, <1>q, <2>1, <2>2 DEF Links
<1> QED
  BY <1>1, <1>2

\* One step of one process.
LEMMA LinksStep ==
  ASSUME TypeOK, Links, NEW p \in Pid, Step(p)
  PROVE  Links'
<1>d. /\ DOMAIN proc = Pid
      /\ \A q \in Pid : DOMAIN proc[q] =
           {"pc", "cur", "frames", "fd", "disp", "pending", "stat",
            "g_exit_code", "pid1", "pid2", "pipefd", "parent", "todo"}
  BY DEF TypeOK, Process
<1>e. ASSUME NEW s, Exit(p, s), proc[p].pc \notin {"unused", "close_ends",
               "fork_right", "wait_only_left", "wait_left", "wait_right",
               "ignore_signals", "wait_external"}
      PROVE  Calm(p)
  BY <1>d, <1>e DEF Exit, Calm, Awaited
<1>g. ASSUME NEW l \in {"return", "word", "echo", "restore"}, NEW s,
             Goto(p, l, s), proc[p].pc \notin {"unused",
               "close_ends", "fork_right", "wait_only_left", "wait_left",
               "wait_right", "ignore_signals", "wait_external"}
      PROVE  Calm(p)
  BY <1>d, <1>g DEF Goto, Calm, Awaited
<1>r. ASSUME NEW t, RedirectedCommand(p, t), proc[p].pc \in {"redirect", "here_read"}
      PROVE  Calm(p)
  <2>1. CASE Left[proc[p].cur] = NoNode
    BY <1>d, <1>r, <2>1 DEF RedirectedCommand, Calm, Awaited
  <2>2. CASE Left[proc[p].cur] # NoNode
    BY <1>d, <1>r, <2>2 DEF RedirectedCommand, Calm, Awaited
  <2> QED
    BY <2>1, <2>2
<1>1. CASE ExecTrivial(p)
  <2>1. Calm(p)
    BY <1>d, <1>1, <1>g
    DEF ExecTrivial, Calm, Awaited, AtNode, At
  <2> QED
    BY <2>1, LinksCalm
<1>2. CASE ExecWord(p)
  <2>1. Calm(p)
    BY <1>d, <1>2, <1>g
    DEF ExecWord, Calm, Awaited, AtNode, At
  <2> QED
    BY <2>1, LinksCalm
<1>3. CASE Word(p)
  <2>1. Calm(p)
    BY <1>d, <1>3
    DEF Word, Calm, Awaited, At
  <2> QED
    BY <2>1, LinksCalm
<1>4. CASE SaveFds(p)
  <2>1. Calm(p)
    BY <1>d, <1>4, <1>g
    DEF SaveFds, Calm, Awaited, AtNode, At
  <2> QED
    BY <2>1, LinksCalm
<1>5. CASE RestoreFds(p)
  <2>1. Calm(p)
    BY ZenonT(60), <1>d, <1>5
    DEF RestoreFds, Calm, Awaited, At
  <2> QED
    BY <2>1, LinksCalm
<1>6. CASE Return(p)
  <2>1. Calm(p)
    BY <1>d, <1>6, <1>e
    DEF Return, Calm, Awaited, At
  <2> QED
    BY <2>1, LinksCalm
<1>7. CASE RedirectFile(p)
  <2>1. proc[p].pc = "redirect"
    BY <1>7 DEF RedirectFile, AtNode, At
  <2>2. (\E t : RedirectedCommand(p, t)) \/ Goto(p, "restore", 1)
    BY <1>7, Zenon DEF RedirectFile
  <2>3. Calm(p)
    BY <1>g, <1>r, <2>1, <2>2
  <2> QED
    BY <2>3, LinksCalm
<1>8. CASE HereDocument(p)
  <2>1. Calm(p)
    BY <1>d, <1>8, <1>g
    DEF HereDocument, Calm, Awaited, AtNode, At
  <2> QED
    BY <2>1, LinksCalm
<1>9. CASE HerePrompt(p)
  <2>1. Calm(p)
    BY <1>d, <1>9
    DEF HerePrompt, Calm, Awaited, At
  <2> QED
    BY <2>1, LinksCalm
<1>10. CASE HereLine(p)
  <2>1. Calm(p)
    BY <1>d, <1>10
    DEF HereLine, Calm, Awaited, At
  <2> QED
    BY <2>1, LinksCalm
<1>11. CASE HereWrite(p)
  <2>1. Calm(p)
    BY <1>d, <1>11
    DEF HereWrite, Calm, Awaited, At
  <2> QED
    BY <2>1, LinksCalm
<1>12. CASE HereEnd(p)
  <2>1. proc[p].pc = "here_read" /\ \E t : RedirectedCommand(p, t)
    BY <1>12, Zenon DEF HereEnd, AtNode, At
  <2>2. Calm(p)
    BY <1>r, <2>1
  <2> QED
    BY <2>2, LinksCalm
<1>13. CASE QuietBuiltin(p)
  <2>1. Calm(p)
    BY <1>d, <1>13, <1>g
    DEF QuietBuiltin, Calm, Awaited, AtCommand, At
  <2> QED
    BY <2>1, LinksCalm
<1>14. CASE Echo(p)
  <2>1. Calm(p)
    BY <1>d, <1>14, <1>g
    DEF Echo, Calm, Awaited, AtCommand, At
  <2> QED
    BY <2>1, LinksCalm
<1>15. CASE ExitBuiltin(p)
  <2>1. Calm(p)
    BY <1>d, <1>15, <1>e, <1>g
    DEF ExitBuiltin, Calm, Awaited, AtCommand, At
  <2> QED
    BY <2>1, LinksCalm
<1>16. CASE IgnoreSignals(p)
  <2>1. Calm(p)
    BY <1>d, <1>16
    DEF IgnoreSignals, Calm, Awaited, At
  <2> QED
    BY <2>1, LinksCalm
<1>17. CASE ResetSignals(p)
  <2>1. Calm(p)
    BY <1>d, <1>17
    DEF ResetSignals, Calm, Awaited, At
  <2> QED
    BY <2>1, LinksCalm
<1>18. CASE StartProgram(p)
  <2>1. Calm(p)
    BY <1>d, <1>18, <1>e
    DEF StartProgram, Calm, Awaited, AtCommand, At
  <2> QED
    BY <2>1, LinksCalm
<1>19. CASE ProgramRead(p)
  <2>1. Calm(p)
    BY <1>d, <1>19, <1>e
    DEF ProgramRead, Calm, Awaited, AtCommand, At, Consume, ProgramExit
  <2> QED
    BY <2>1, LinksCalm
<1>20. CASE ProgramProduce(p)
  <2>1. Calm(p)
    BY <1>d, <1>20, <1>e
    DEF ProgramProduce, Calm, Awaited, AtCommand, At, ProgramExit
  <2> QED
    BY <2>1, LinksCalm
<1>21. CASE ProgramWrite(p)
  <2>1. Calm(p)
    BY <1>d, <1>21
    DEF ProgramWrite, Calm, Awaited, At
  <2> QED
    BY <2>1, LinksCalm
<1>22. CASE ExecPipe(p)
  <2>1. Calm(p)
    BY <1>d, <1>22, <1>g
    DEF ExecPipe, Calm, Awaited, AtNode, At
  <2> QED
    BY <2>1, LinksCalm
<1>23. CASE LeftChild(p)
  <2>1. Calm(p)
    BY <1>d, <1>23
    DEF LeftChild, Calm, Awaited, AtNode, At
  <2> QED
    BY <2>1, LinksCalm
<1>24. CASE RightChild(p)
  <2>1. Calm(p)
    BY <1>d, <1>24
    DEF RightChild, Calm, Awaited, AtNode, At
  <2> QED
    BY <2>1, LinksCalm
<1>25. CASE CloseEnds(p)
  <2>1. Calm(p)
    BY <1>d, <1>25
    DEF CloseEnds, Calm, Awaited, At
  <2> QED
    BY <2>1, LinksCalm
<1>26. CASE ForkExternal(p)
  <2>1. ASSUME NEW c \in Pid, proc[c].pc = "unused",
               proc' = [proc EXCEPT ![c] = Fork(p, "external_child"),
                                     ![p].pc = "ignore_signals", ![p].pid1 = c]
        PROVE  Links'
    <3>1. proc[p].pc = "command" /\ c # p
      BY <1>26, <2>1 DEF ForkExternal, AtCommand, At
    <3>2. /\ proc'[c].parent = p /\ proc'[p].parent = proc[p].parent
          /\ \A q \in Pid \ {p, c} : proc'[q] = proc[q]
      BY <1>d, <2>1, <3>1 DEF Fork
    <3>3. /\ proc'[c].pc = "external_child" /\ proc'[p].pc = "ignore_signals"
          /\ proc'[p].pid1 = c /\ proc'[p].pid2 = proc[p].pid2
      BY <1>d, <2>1, <3>1 DEF Fork
    <3>4. Awaited(p)' \subseteq Awaited(p) \cup {c} /\ Awaited(c)' = {}
      BY <2>1, <3>1, <3>3 DEF Awaited
    <3>5. proc'[p].pc = "close_ends" => proc[p].pid1 \in Awaited(p)
      BY <2>1, <3>1, <3>3 DEF Awaited
    <3> QED
      BY <2>1, <3>1, <3>2, <3>3, <3>4, <3>5, LinksForked
  <2>2. CASE ~(FreePid # {} /\ proc' = [proc EXCEPT
                 ![NewPid] = Fork(p, "external_child"), ![p].pc = "ignore_signals", ![p].pid1 = NewPid])
    <3>1. Calm(p)
      BY <1>d, <1>26, <2>2, <1>g
      DEF ForkExternal, Calm, Awaited, AtCommand, At
    <3> QED
      BY <3>1, LinksCalm
  <2> QED
    BY <2>1, <2>2, NewPidFree
<1>27. CASE ForkLeft(p)
  <2>1. ASSUME NEW c \in Pid, proc[c].pc = "unused",
               proc' = [proc EXCEPT ![c] = Fork(p, "left_child"),
                                     ![p].pc = "fork_right", ![p].pid1 = c]
        PROVE  Links'
    <3>1. proc[p].pc = "fork_left" /\ c # p
      BY <1>27, <2>1 DEF ForkLeft, At
    <3>2. /\ proc'[c].parent = p /\ proc'[p].parent = proc[p].parent
          /\ \A q \in Pid \ {p, c} : proc'[q] = proc[q]
      BY <1>d, <2>1, <3>1 DEF Fork
    <3>3. /\ proc'[c].pc = "left_child" /\ proc'[p].pc = "fork_right"
          /\ proc'[p].pid1 = c /\ proc'[p].pid2 = proc[p].pid2
      BY <1>d, <2>1, <3>1 DEF Fork
    <3>4. Awaited(p)' \subseteq Awaited(p) \cup {c} /\ Awaited(c)' = {}
      BY <2>1, <3>1, <3>3 DEF Awaited
    <3>5. proc'[p].pc = "close_ends" => proc[p].pid1 \in Awaited(p)
      BY <2>1, <3>1, <3>3 DEF Awaited
    <3> QED
      BY <2>1, <3>1, <3>2, <3>3, <3>4, <3>5, LinksForked
  <2>2. CASE ~(FreePid # {} /\ proc' = [proc EXCEPT
                 ![NewPid] = Fork(p, "left_child"), ![p].pc = "fork_right", ![p].pid1 = NewPid])
    <3>1. Calm(p)
      BY <1>d, <1>27, <2>2
      DEF ForkLeft, Calm, Awaited, At
    <3> QED
      BY <3>1, LinksCalm
  <2> QED
    BY <2>1, <2>2, NewPidFree
<1>28. CASE ForkRight(p)
  <2>1. ASSUME NEW c \in Pid, proc[c].pc = "unused",
               proc' = [proc EXCEPT ![c] = Fork(p, "right_child"),
                                     ![p].pc = "close_ends", ![p].pid2 = c]
        PROVE  Links'
    <3>1. proc[p].pc = "fork_right" /\ c # p
      BY <1>28, <2>1 DEF ForkRight, At
    <3>2. /\ proc'[c].parent = p /\ proc'[p].parent = proc[p].parent
          /\ \A q \in Pid \ {p, c} : proc'[q] = proc[q]
      BY <1>d, <2>1, <3>1 DEF Fork
    <3>3. /\ proc'[c].pc = "right_child" /\ proc'[p].pc = "close_ends"
          /\ proc'[p].pid1 = proc[p].pid1 /\ proc'[p].pid2 = c
      BY <1>d, <2>1, <3>1 DEF Fork
    <3>4. Awaited(p)' \subseteq Awaited(p) \cup {c} /\ Awaited(c)' = {}
      BY <2>1, <3>1, <3>3 DEF Awaited
    <3>5. proc'[p].pc = "close_ends" => proc[p].pid1 \in Awaited(p)
      BY <2>1, <3>1, <3>3 DEF Awaited
    <3> QED
      BY <2>1, <3>1, <3>2, <3>3, <3>4, <3>5, LinksForked
  <2>2. CASE ~(FreePid # {} /\ proc' = [proc EXCEPT
                 ![NewPid] = Fork(p, "right_child"), ![p].pc = "close_ends", ![p].pid2 = NewPid])
    <3>1. Calm(p)
      BY <1>d, <1>28, <2>2
      DEF ForkRight, Calm, Awaited, At
    <3> QED
      BY <3>1, LinksCalm
  <2> QED
    BY <2>1, <2>2, NewPidFree
<1>k. ASSUME NEW q \in Pid
      PROVE  proc[q].pid1 \in Pid /\ proc[q].pid2 \in Pid
  BY DEF TypeOK, Process
<1>29. CASE WaitExternal(p)
  <2> DEFINE c == proc[p].pid1
  <2>1. /\ c \in Pid /\ proc[c].pc \in Ended /\ c # p
        /\ proc[p].pc \notin Ended \cup {"unused"}
    BY <1>29, <1>k DEF WaitExternal, At, Ended
  <2>2. proc'[c] = Unused /\ \A q \in Pid \ {p, c} : proc'[q] = proc[q]
    BY <1>d, <1>29, <2>1 DEF WaitExternal
  <2>3. proc'[p].parent = proc[p].parent
    BY <1>d, <1>29, <2>1 DEF WaitExternal
  <2>4. /\ c \in Awaited(p) /\ Awaited(p)' \subseteq Awaited(p) \ {c}
        /\ proc'[p].pc \notin {"unused", "close_ends", "wait_left"}
    BY <1>d, <1>29, <2>1 DEF WaitExternal, At, Awaited, Links
  <2>5. proc[c].parent = p
    BY <2>4 DEF Links
  <2> HIDE DEF c
  <2> QED
    BY <2>1, <2>2, <2>3, <2>4, <2>5, LinksReaped
<1>30. CASE WaitLeft(p)
  <2> DEFINE c == proc[p].pid1
  <2>1. /\ c \in Pid /\ proc[c].pc \in Ended /\ c # p
        /\ proc[p].pc \notin Ended \cup {"unused"}
    BY <1>30, <1>k DEF WaitLeft, At, Ended
  <2>2. proc'[c] = Unused /\ \A q \in Pid \ {p, c} : proc'[q] = proc[q]
    BY <1>d, <1>30, <2>1 DEF WaitLeft
  <2>3. proc'[p].parent = proc[p].parent
    BY <1>d, <1>30, <2>1 DEF WaitLeft
  <2>4. /\ c \in Awaited(p) /\ Awaited(p)' \subseteq Awaited(p) \ {c}
        /\ proc'[p].pc \notin {"unused", "close_ends", "wait_left"}
    BY <1>d, <1>30, <2>1 DEF WaitLeft, At, Awaited, Links
  <2>5. proc[c].parent = p
    BY <2>4 DEF Links
  <2> HIDE DEF c
  <2> QED
    BY <2>1, <2>2, <2>3, <2>4, <2>5, LinksReaped
<1>31. CASE WaitRight(p)
  <2> DEFINE c == proc[p].pid2
  <2>1. /\ c \in Pid /\ proc[c].pc \in Ended /\ c # p
        /\ proc[p].pc \notin Ended \cup {"unused"}
    BY <1>31, <1>k DEF WaitRight, At, Ended
  <2>2. proc'[c] = Unused /\ \A q \in Pid \ {p, c} : proc'[q] = proc[q]
    BY <1>d, <1>31, <2>1 DEF WaitRight
  <2>3. proc'[p].parent = proc[p].parent
    BY <1>d, <1>31, <2>1 DEF WaitRight
  <2>4. /\ c \in Awaited(p) /\ Awaited(p)' \subseteq Awaited(p) \ {c}
        /\ proc'[p].pc \notin {"unused", "close_ends", "wait_left"}
    BY <1>d, <1>31, <2>1 DEF WaitRight, At, Awaited, Links
  <2>5. proc[c].parent = p
    BY <2>4 DEF Links
  <2> HIDE DEF c
  <2> QED
    BY <2>1, <2>2, <2>3, <2>4, <2>5, LinksReaped
<1>32. CASE SigPipe(p)
  BY <1>32, LinksDead DEF SigPipe, Status
<1>33. CASE Deliver(p)
  <2>1. proc[p].pc # "unused"
    BY <1>33 DEF Deliver, Live
  <2>2. CASE \E s \in Status : Die(p, s)
    BY <2>1, <2>2, LinksDead
  <2>3. CASE proc' = [proc EXCEPT ![p].pending = "no"]
    <3>1. Calm(p)
      BY <1>d, <2>1, <2>3 DEF Calm, Awaited
    <3> QED
      BY <3>1, LinksCalm
  <2> QED
    BY <1>33, <2>2, <2>3 DEF Deliver, Status
<1> QED
  BY <1>1, <1>2, <1>3, <1>4, <1>5, <1>6, <1>7, <1>8, <1>9, <1>10, <1>11,
     <1>12, <1>13, <1>14, <1>15, <1>16, <1>17, <1>18, <1>19, <1>20, <1>21,
     <1>22, <1>23, <1>24, <1>25, <1>26, <1>27, <1>28, <1>29, <1>30, <1>31,
     <1>32, <1>33 DEF Step

-----------------------------------------------------------------------------
(* The invariant.                                                          *)

\* What an entry must satisfy depends on part of it.
LEMMA EntrySame ==
  ASSUME NEW e, NEW u,
         u.pc = e.pc, u.cur = e.cur, u.frames = e.frames, u.fd = e.fd,
         u.pipefd = e.pipefd
  PROVE  /\ EntryInv(e) => EntryInv(u)
         /\ Clean(e) => Clean(u)
         /\ Own(e) => Own(u)
<1>1. Ends(u) = Ends(e) /\ \A k, i : Copy(u, k, i) = Copy(e, k, i)
  BY DEF Ends, Copy
<1>2. Shape(e) => Shape(u)
  BY <1>1 DEF Shape
<1>3. Upstream(e) => Upstream(u)
  BY <1>1 DEF Upstream
<1>4. (Clean(e) => Clean(u)) /\ (Own(e) => Own(u))
  BY <1>1 DEF Clean, Own
<1> QED
  BY <1>2, <1>3, <1>4 DEF EntryInv

\* A step keeps every entry within them ...
LEMMA EntriesStep ==
  ASSUME TypeOK, TypeOK', \A q \in Pid : EntryInv(proc[q]),
         NEW p \in Pid, Effect(p), NEW q \in Pid
  PROVE  EntryInv(proc'[q])
<1> DEFINE e == proc[p]
<1>t. \A r \in Pid : proc[r] \in Process /\ proc'[r] \in Process
  BY DEF TypeOK
<1>e. e.pc \notin Gones /\ Shape(e) /\ Upstream(e) /\ EntryInv(proc[q])
  BY DEF Effect, EntryInv
<1>1. ASSUME NEW r \in Pid, Moves(e, proc'[r]), proc'[r].pc \notin Gones
      PROVE  EntryInv(proc'[r])
  BY <1>1, <1>t, <1>e, MovesInv DEF EntryInv
<1>2. ASSUME Leaves(p, e, proc'[p])
      PROVE  EntryInv(proc'[p])
  BY <1>2 DEF Leaves, EntryInv, Gones
<1>3. CASE /\ \A r \in Pid \ {p} : proc'[r] = proc[r]
           /\ (Keeps(e, proc'[p]) /\ Moves(e, proc'[p])) \/ Leaves(p, e, proc'[p])
  BY <1>1, <1>2, <1>3, <1>e DEF Keeps
<1>4. ASSUME NEW c \in Pid \ {p},
             \A r \in Pid \ {p, c} : proc'[r] = proc[r],
             Keeps(e, proc'[p]), Stays(e, proc'[p]),
             \/ proc[c].pc = "unused" /\ Stays(e, proc'[c])
             \/ c \in Awaited(p) /\ proc'[c] = Unused
      PROVE  EntryInv(proc'[q])
  <2>1. EntryInv(proc'[p])
    BY <1>1, <1>4 DEF Keeps, Moves
  <2>2. CASE Stays(e, proc'[c])
    <3>1. proc'[c].pc \notin Gones
      BY <2>2, <1>e DEF Stays, Outside, Here, Setup, Gones
    <3> QED
      BY <1>1, <1>4, <1>e, <2>1, <2>2, <3>1 DEF Moves
  <2>3. CASE proc'[c] = Unused
    <3>1. EntryInv(proc'[c])
      BY <2>3 DEF EntryInv, Unused, Gones
    <3> QED
      BY <1>4, <1>e, <2>1, <3>1
  <2> QED
    BY <1>4, <2>2, <2>3
<1>5. CASE /\ Leaves(p, e, proc'[p])
           /\ \A r \in Pid \ {p} :
                proc'[r] \in {proc[r], [proc[r] EXCEPT !.parent = Reaper]}
  <2>1. CASE q = p
    BY <1>2, <1>5, <2>1
  <2>2. CASE q # p
    <3>1. proc'[q] \in {proc[q], [proc[q] EXCEPT !.parent = Reaper]}
      BY <1>5, <2>2
    <3>2. /\ proc'[q].pc = proc[q].pc /\ proc'[q].cur = proc[q].cur
          /\ proc'[q].frames = proc[q].frames /\ proc'[q].fd = proc[q].fd
          /\ proc'[q].pipefd = proc[q].pipefd
      BY <1>t, <3>1 DEF Process
    <3> QED
      BY <1>e, <3>2, EntrySame
  <2> QED
    BY <2>1, <2>2
<1> QED
  BY <1>3, <1>4, <1>5 DEF Effect

\* ... and the shell's own the shell's.
LEMMA ShellStep ==
  ASSUME TypeOK, TypeOK', DescInv, NEW p \in Pid, Effect(p)
  PROVE  ShellInv(proc'[Shell])
<1> DEFINE e == proc[Shell]
           u == proc'[Shell]
<1>t. Shell \in Pid /\ e \in Process /\ u \in Process /\ Reaper \notin Pid
  BY ExecutorAssumption DEF TypeOK
<1>i. ShellInv(e) /\ EntryInv(e) /\ Links
  BY <1>t DEF DescInv
<1>1. CASE p = Shell
  <2>1. /\ e.pc \notin Gones /\ Shape(e) /\ Upstream(e) /\ Clean(e) /\ Own(e)
        /\ e.disp # "default" /\ e.fd[1].end # "w"
        /\ e.pc \notin {"left_child", "right_child"} \cup Programs
        /\ e.parent = Reaper
    BY <1>1, <1>i DEF Effect, EntryInv, ShellInv, Gones, Clean
  <2>2. ASSUME Keeps(e, u), Moves(e, u)
        PROVE  ShellInv(u)
    <3>1. Clean(u) /\ Own(u)
      BY <1>t, <2>1, <2>2, MovesInv
    <3> QED
      BY <2>1, <2>2, <3>1 DEF Keeps, ShellInv, Gones
  <2>3. ASSUME Leaves(p, e, u)
        PROVE  ShellInv(u)
    BY <1>1, <2>1, <2>3 DEF Leaves, ShellInv, Programs
  <2> QED
    BY <1>1, <2>2, <2>3 DEF Effect, Moves
<1>2. CASE p # Shell
  <2>1. \/ u = e
        \/ u = [e EXCEPT !.parent = Reaper]
    <3>1. ~(e.pc = "unused") /\ Shell \notin Awaited(p)
      BY <1>t, <1>i DEF ShellInv, Links
    <3> QED
      BY <1>t, <1>2, <3>1 DEF Effect
  <2>2. /\ u.parent = Reaper /\ u.pc = e.pc /\ u.disp = e.disp
        /\ u.cur = e.cur /\ u.frames = e.frames /\ u.fd = e.fd
        /\ u.pipefd = e.pipefd
    BY <1>t, <1>i, <2>1 DEF Process, ShellInv
  <2>3. (Clean(e) => Clean(u)) /\ (Own(e) => Own(u))
    BY <2>2, EntrySame
  <2> QED
    BY <1>i, <2>2, <2>3 DEF ShellInv
<1> QED
  BY <1>1, <1>2

LEMMA DescStep ==
  ASSUME TypeOK, TypeOK', DescInv, NEW p \in Pid, Step(p)
  PROVE  DescInv'
<1>1. Effect(p)
  BY StepEffect DEF DescInv
<1>2. \A q \in Pid : EntryInv(proc'[q])
  BY <1>1, EntriesStep DEF DescInv
<1>3. ShellInv(proc'[Shell])
  BY <1>1, ShellStep
<1>4. Links'
  BY LinksStep DEF DescInv
<1> QED
  BY <1>2, <1>3, <1>4 DEF DescInv

\* At the prompt the shell has its own descriptors and no others.
LEMMA PromptFds ==
  ASSUME NEW e \in Process, Shape(e), Own(e), e.pc = "prompt"
  PROVE  e.fd = ShellFds /\ e.frames = <<>>
<1>1. e.frames = <<>> /\ Ends(e) = {} /\ DOMAIN e.frames = {}
  BY DEF Shape, Ends, Here, Setup
<1>2. e.fd \in [Fd -> Object]
  BY EntryTypes
<1>3. \A f \in Fd : e.fd[f] = IF f < 5 THEN Terminal ELSE Closed
  <2> TAKE f \in Fd
  <2>1. f \in Nat
    BY StdFds
  <2>2. CASE f \in {0, 1}
    BY <1>1, <2>2 DEF Own
  <2>3. CASE f \in 2 .. 4
    BY <2>3 DEF Own
  <2>4. CASE f \notin 0 .. 4
    BY <1>1, <2>1, <2>4 DEF Own
  <2> QED
    BY <2>1, <2>2, <2>3, <2>4
<1> QED
  BY <1>1, <1>2, <1>3 DEF ShellFds

\* With its own descriptors alone the shell satisfies everything, at the
\* prompt and at the root of a line.
LEMMA FreshShell ==
  ASSUME NEW u \in Process, u.fd = ShellFds, u.frames = <<>>,
         u.pc \in {"prompt", "exec"}, u.parent = Reaper, u.disp # "default"
  PROVE  EntryInv(u) /\ ShellInv(u)
<1>1. Ends(u) = {} /\ DOMAIN u.frames = {}
  BY DEF Ends, Here, Setup
<1>2. /\ \A f \in Fd : u.fd[f] = IF f < 5 THEN Terminal ELSE Closed
      /\ u.fd[0] = Terminal /\ u.fd[1] = Terminal
      /\ \A f \in 2 .. 4 : u.fd[f] = Terminal
      /\ \A f \in Fd : u.fd[f].end \notin {"r", "w"}
  BY StdFds, Objects DEF ShellFds
<1>3. Shape(u)
  BY <1>1, <1>2, Objects DEF Shape, Here, Setup
<1>4. Upstream(u) /\ Clean(u)
  BY <1>1, <1>2, Objects DEF Upstream, Clean, Piped
<1>5. Own(u)
  <2>1. \A f \in Fd : f \in 0 .. 4 \/ u.fd[f] = Closed
    BY <1>2, StdFds
  <2> QED
    BY <1>1, <1>2, <2>1 DEF Own
<1> QED
  BY <1>3, <1>4, <1>5 DEF EntryInv, ShellInv, Gones, Programs

LEMMA DescInit == Init => DescInv
<1> SUFFICES ASSUME Init
             PROVE  DescInv
  OBVIOUS
<1> DEFINE e == proc[Shell]
<1>1. /\ TypeOK /\ Shell \in Pid
      /\ \A p \in Pid \ {Shell} : proc[p] = Unused
      /\ e = [Unused EXCEPT !.pc = "prompt", !.fd = ShellFds, !.disp = "handler"]
  BY InitType, ExecutorAssumption DEF Init
<1>2. /\ e \in Process /\ e.pc = "prompt" /\ e.fd = ShellFds
      /\ e.frames = <<>> /\ e.disp = "handler" /\ e.parent = Reaper
  BY <1>1 DEF Unused, TypeOK
<1> HIDE DEF e
<1>3. EntryInv(e) /\ ShellInv(e)
  BY <1>2, FreshShell
<1>4. \A p \in Pid \ {Shell} : EntryInv(proc[p])
  BY <1>1 DEF EntryInv, Unused, Gones
<1>5. \A p \in Pid : Awaited(p) = {} /\ proc[p].pc \notin {"close_ends", "wait_left"}
  <2> TAKE p \in Pid
  <2>1. proc[p].pc \in {"prompt", "unused"}
    <3>1. CASE p = Shell
      BY <1>2, <3>1 DEF e
    <3>2. CASE p # Shell
      BY <1>1, <3>2 DEF Unused
    <3> QED
      BY <3>1, <3>2
  <2> QED
    BY <2>1 DEF Awaited
<1> QED
  BY <1>1, <1>3, <1>4, <1>5 DEF DescInv, Links, e

\* The shell's own loop.
LEMMA DescPrompt ==
  ASSUME TypeOK, TypeOK', DescInv, EndOfInput \/ \E n \in Line : ReadLine(n)
  PROVE  DescInv'
<1> DEFINE e == proc[Shell]
           u == proc'[Shell]
<1>d. /\ DOMAIN proc = Pid /\ Shell \in Pid /\ e \in Process /\ u \in Process
      /\ DOMAIN e =
           {"pc", "cur", "frames", "fd", "disp", "pending", "stat",
            "g_exit_code", "pid1", "pid2", "pipefd", "parent", "todo"}
  BY ExecutorAssumption DEF TypeOK, Process
<1>p. e.pc = "prompt"
  BY DEF EndOfInput, ReadLine, At
<1>i. /\ Shape(e) /\ Own(e) /\ e.parent = Reaper /\ e.disp # "default"
      /\ Links /\ \A p \in Pid : EntryInv(proc[p])
  BY <1>d, <1>p DEF DescInv, EntryInv, ShellInv, Gones
<1>f. e.fd = ShellFds /\ e.frames = <<>>
  BY <1>d, <1>p, <1>i, PromptFds
<1>1. /\ u.parent = e.parent
      /\ \A q \in Pid \ {Shell} : proc'[q] = proc[q]
      /\ \/ /\ u.pc = "exec" /\ u.fd = e.fd /\ u.frames = e.frames
            /\ u.disp = e.disp
         \/ u.pc = "zombie" /\ u.fd = AllClosed
  BY <1>d DEF EndOfInput, ReadLine, Exit
<1>2. Links'
  <2>1. Calm(Shell)
    BY <1>1 DEF Calm, Awaited
  <2> QED
    BY <1>d, <1>i, <2>1, LinksCalm
<1>3. EntryInv(u) /\ ShellInv(u)
  <2>1. CASE u.pc = "exec"
    BY <1>d, <1>f, <1>i, <1>1, <2>1, FreshShell
  <2>2. CASE u.pc = "zombie"
    BY <1>i, <1>1, <2>2 DEF EntryInv, ShellInv, Gones, Programs
  <2> QED
    BY <1>1, <2>1, <2>2
<1> QED
  BY <1>i, <1>1, <1>2, <1>3 DEF DescInv

\* A signal typed only marks the processes it is sent to.
LEMMA DescTyped ==
  ASSUME TypeOK, DescInv, NEW sig, NEW dispositions, Typed(sig, dispositions)
  PROVE  DescInv'
<1>1. \A q \in Pid :
        /\ proc'[q].pc = proc[q].pc /\ proc'[q].cur = proc[q].cur
        /\ proc'[q].frames = proc[q].frames /\ proc'[q].fd = proc[q].fd
        /\ proc'[q].pipefd = proc[q].pipefd /\ proc'[q].disp = proc[q].disp
        /\ proc'[q].parent = proc[q].parent
        /\ proc'[q].pid1 = proc[q].pid1 /\ proc'[q].pid2 = proc[q].pid2
  <2> TAKE q \in Pid
  <2>1. proc'[q] \in {proc[q], [proc[q] EXCEPT !.pending = sig]}
    BY DEF Typed
  <2>2. DOMAIN proc[q] =
           {"pc", "cur", "frames", "fd", "disp", "pending", "stat",
            "g_exit_code", "pid1", "pid2", "pipefd", "parent", "todo"}
    BY DEF TypeOK, Process
  <2> QED
    BY <2>1, <2>2
<1>2. \A q \in Pid : EntryInv(proc'[q])
  <2> TAKE q \in Pid
  <2>1. EntryInv(proc[q])
    BY DEF DescInv
  <2> QED
    BY <1>1, <2>1, EntrySame
<1>3. ShellInv(proc'[Shell])
  <2>1. Shell \in Pid /\ ShellInv(proc[Shell])
    BY ExecutorAssumption DEF DescInv
  <2>2. /\ Clean(proc[Shell]) => Clean(proc'[Shell])
        /\ Own(proc[Shell]) => Own(proc'[Shell])
    BY <1>1, <2>1, EntrySame
  <2> QED
    BY <1>1, <2>1, <2>2 DEF ShellInv
<1>4. Links'
  <2>1. \A q \in Pid : Awaited(q)' = Awaited(q) /\ Awaited(q) \subseteq Pid
    BY <1>1, AwaitedPids DEF Awaited
  <2> QED
    BY <1>1, <2>1 DEF DescInv, Links
<1> QED
  BY <1>2, <1>3, <1>4 DEF DescInv

LEMMA DescOrphan ==
  ASSUME TypeOK, DescInv, NEW p \in Pid, ReapOrphan(p)
  PROVE  DescInv'
<1>1. /\ p # Shell /\ proc'[p] = Unused /\ proc[p].pc \in Ended
      /\ proc[p].parent = Reaper /\ Shell \in Pid /\ Reaper \notin Pid
      /\ \A q \in Pid \ {p} : proc'[q] = proc[q]
  BY ExecutorAssumption DEF ReapOrphan, TypeOK
<1>2. Links'
  <2>1. Reaper \in Pid \cup {Reaper} /\ p # Reaper
    BY <1>1
  <2>2. \A q \in Pid \ {Reaper, p} : proc'[q] = proc[q]
    BY <1>1
  <2> QED
    BY <1>1, <2>1, <2>2, LinksReaped DEF DescInv
<1>3. EntryInv(proc'[p])
  BY <1>1 DEF EntryInv, Unused, Gones
<1> QED
  BY <1>1, <1>2, <1>3 DEF DescInv

LEMMA DescNext == TypeOK /\ TypeOK' /\ DescInv /\ [Next]_vars => DescInv'
<1> SUFFICES ASSUME TypeOK, TypeOK', DescInv, [Next]_vars
             PROVE  DescInv'
  OBVIOUS
<1>1. CASE EndOfInput \/ \E n \in Line : ReadLine(n)
  BY <1>1, DescPrompt
<1>2. CASE \E p \in Pid : Step(p)
  BY <1>2, DescStep
<1>3. CASE Interrupt \/ Quit
  BY <1>3, DescTyped DEF Interrupt, Quit
<1>4. CASE \E p \in Pid : ReapOrphan(p)
  BY <1>4, DescOrphan
<1>5. CASE UNCHANGED vars
  BY <1>5 DEF vars, DescInv, Links, Awaited
<1> QED
  BY <1>1, <1>2, <1>3, <1>4, <1>5 DEF Next, Gone

LEMMA DescAlways == Spec => []DescInv
<1>1. Init => DescInv
  BY DescInit
<1>2. TypeOK /\ TypeOK' /\ DescInv /\ [Next]_vars => DescInv'
  BY DescNext
<1> QED
  BY <1>1, <1>2, TypeCorrect, PTL DEF Spec

-----------------------------------------------------------------------------
(* The theorems.                                                           *)

\* Whatever fails on the way - dup, pipe, open or fork - the shell that prompts
\* has exactly the descriptors init_shell left it: restore_fds, close_fds and
\* every error path of the redirections and of execute_pipe_command.
THEOREM FdsRestored == Spec => []DescriptorsRestored
<1>1. TypeOK /\ DescInv => DescriptorsRestored
  <2> SUFFICES ASSUME TypeOK, DescInv, proc[Shell].pc = "prompt"
               PROVE  proc[Shell].fd = ShellFds
    BY DEF DescriptorsRestored
  <2>1. proc[Shell] \in Process
    BY ExecutorAssumption DEF TypeOK
  <2>2. Shape(proc[Shell]) /\ Own(proc[Shell])
    BY ExecutorAssumption DEF DescInv, EntryInv, ShellInv, Gones
  <2> QED
    BY <2>1, <2>2, PromptFds
<1> QED
  BY <1>1, TypeCorrect, DescAlways, PTL

\* No process keeps both ends of a pipeline's pipe once it has set it up, so
\* none keeps its own input from ending: the close calls of left_child,
\* right_child and execute_pipe_command, in trees of any depth.
THEOREM EndsApart == Spec => []NobodyFeedsItself
<1>1. TypeOK /\ DescInv => NobodyFeedsItself
  <2> SUFFICES ASSUME TypeOK, DescInv, NEW p \in Pid, proc[p].pc \notin Setup,
                      NEW f \in Fd, NEW g \in Fd,
                      proc[p].fd[f].end = "r", proc[p].fd[g].end = "w",
                      Kind[proc[p].fd[f].node] = "PIPE"
               PROVE  proc[p].fd[f].node # proc[p].fd[g].node
    BY DEF NobodyFeedsItself, Setup
  <2> DEFINE e == proc[p]
  <2>1. EntryInv(e) /\ e \in Process
    BY DEF DescInv, TypeOK
  <2>2. e.pc \notin Gones
    BY <2>1 DEF EntryInv, AllClosed, Closed
  <2>3. Shape(e) /\ Upstream(e)
    BY <2>1, <2>2 DEF EntryInv
  <2>4. CASE e.pc \notin Here
    <3>1. Ends(e) = {}
      BY <2>4 DEF Ends
    <3> QED
      BY <2>3, <3>1 DEF Upstream, Piped
  <2>5. CASE e.pc \in Here
    <3>1. /\ Kind[e.cur] = "HEREDOC"
          /\ \A d \in Ends(e) : e.fd[d] \in {ReadEnd(e.cur), WriteEnd(e.cur)}
      BY <2>3, <2>5 DEF Shape, Ends
    <3>2. \A d \in Ends(e) : e.fd[d].node = e.cur
      BY <3>1, Objects
    <3>3. f \notin Ends(e)
      BY <3>1, <3>2
    <3>4. CASE g \in Ends(e)
      BY <3>1, <3>2, <3>4
    <3>5. CASE g \notin Ends(e)
      BY <2>3, <3>3, <3>5 DEF Upstream, Piped
    <3> QED
      BY <3>4, <3>5
  <2> QED
    BY <2>4, <2>5
<1> QED
  BY <1>1, TypeCorrect, DescAlways, PTL

\* Nothing takes the shell down but the end of its input and its own exit: its
\* output is never a pipe, so it cannot die of SIGPIPE, and its dispositions
\* are never the default ones - handle_parent_signals, handle_ctrl_c, ft_exit.
THEOREM ShellSurvives == Spec => ShellStays
<1>1. TypeOK /\ TypeOK' /\ DescInv /\ [Next]_vars => [ShellLeaves]_vars
  <2> SUFFICES ASSUME TypeOK, TypeOK', DescInv, Next,
                      Live(Shell), ~Live(Shell)'
               PROVE  /\ proc'[Shell].pc = "zombie"
                      /\ \/ proc[Shell].pc = "prompt"
                         \/ AtCommand(Shell, "command", {"exit"})
    BY DEF ShellLeaves, Gone
  <2> DEFINE e == proc[Shell]
             u == proc'[Shell]
  <2>d. /\ DOMAIN proc = Pid /\ Shell \in Pid /\ Reaper \notin Pid
        /\ e \in Process /\ e.pc \notin Gones /\ u.pc \in Gones
        /\ DOMAIN e =
             {"pc", "cur", "frames", "fd", "disp", "pending", "stat",
              "g_exit_code", "pid1", "pid2", "pipefd", "parent", "todo"}
    BY ExecutorAssumption DEF TypeOK, Process, Live, Ended, Gones
  <2>1. CASE EndOfInput
    BY <2>1, <2>d DEF EndOfInput, Exit, At
  <2>2. CASE \E n \in Line : ReadLine(n)
    BY <2>2, <2>d DEF ReadLine, Gones
  <2>3. ASSUME NEW p \in Pid, Step(p)
        PROVE  /\ u.pc = "zombie"
               /\ e.pc = "prompt" \/ AtCommand(Shell, "command", {"exit"})
    <3>1. Effect(p)
      BY <2>3, StepEffect DEF DescInv
    <3>2. ShellInv(e) /\ Links
      BY DEF DescInv
    <3>3. CASE p = Shell
      <4>1. ~Keeps(e, u)
        BY <2>d DEF Keeps
      <4>2. Leaves(p, e, u)
        BY <3>1, <3>3, <4>1 DEF Effect
      <4> QED
        BY <2>d, <3>2, <3>3, <4>2 DEF Leaves, ShellInv, Clean, Gones
    <3>4. CASE p # Shell
      <4>1. Shell \notin Awaited(p)
        BY <2>d, <3>2 DEF ShellInv, Links
      <4>2. u \in {e, [e EXCEPT !.parent = Reaper]}
        BY <2>d, <3>1, <3>4, <4>1 DEF Effect, Gones
      <4> QED
        BY <2>d, <4>2
    <3> QED
      BY <3>3, <3>4
  <2>4. CASE Interrupt \/ Quit
    <3>1. PICK sig : u \in {e, [e EXCEPT !.pending = sig]}
      BY <2>4, <2>d DEF Interrupt, Quit, Typed
    <3> QED
      BY <2>d, <3>1
  <2>5. CASE \E p \in Pid : ReapOrphan(p)
    BY <2>5, <2>d DEF ReapOrphan
  <2>6. CASE Gone
    BY <2>6, <2>d DEF Gone, vars
  <2> QED
    BY <2>1, <2>2, <2>3, <2>4, <2>5, <2>6 DEF Next
<1> QED
  BY <1>1, TypeCorrect, DescAlways, PTL DEF Spec, ShellStays
=============================================================================
