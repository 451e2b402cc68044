------------------------------ MODULE NpShell -------------------------------
(***************************************************************************)
(* The shell with numbered pipes, npshell.cpp, and the session process of  *)
(* np_simple.cpp, which is the same program but for two differences that   *)
(* the variable program names.  redirection_info is a deque of nodes: its front *)
(* describes the current line, element n the n-th line after it.  A line   *)
(* is run in batches, so that pipes_fd never holds too many pipes.         *)
(*                                                                         *)
(* A pipe is known by a stamp, the position of its creation among all; 0   *)
(* stands for standard input, output, error, and for the write end -1.     *)
(***************************************************************************)
EXTENDS Integers, Sequences, FiniteSets

CONSTANTS
  Shells,     \* which of them: "npshell", "np_simple"
  Depth,      \* length of redirection_info (4096)
  BatchSize,  \* batch_size (50)
  Lines,      \* Lines[s]: the lines a user of s may type
  MaxLines    \* bound: lines in one behaviour

\* What the shell needs to know of a program: whether it reads its input to the
\* end, whether it writes more than a pipe holds, whether its output is > a file.
Cmd == [reads : BOOLEAN, big : BOOLEAN, file : BOOLEAN]

\* A line that is not empty: its commands, and n and the sign ! of a final |n or !n.
\* A built-in is setenv or printenv.
Line ==
  {l \in [kind : {"run", "builtin", "exit"}, cmds : Seq(Cmd), n : 0..(Depth - 1), err : BOOLEAN] :
     l.kind = "run" => l.cmds # <<>> \/ l.n > 0}

ASSUME ShellAssumption == Shells \subseteq {"npshell", "np_simple"}
ASSUME SizeAssumption  == Depth \in Nat \ {0} /\ BatchSize \in Nat \ {0} /\ MaxLines \in Nat
ASSUME LinesAssumption == \A s \in Shells : Lines[s] \subseteq Line

VARIABLES
  program,   \* the shell that runs
  slots,     \* redirection_info, front first
  open,      \* the pipe ends the shell holds open
  kids,      \* its children that have not ended
  pidTable,  \* pid_table
  job,       \* run: the commands left, and pipes_fd and k of the batch
  pc,        \* where the shell is
  nextPid,   \* pids are given in increasing order
  lines,     \* lines counted by the deque, the current one included
  made,      \* history: the line and the number each pipe was made for
  blank      \* history: the lines that started no command

vars == <<program, slots, open, kids, pidTable, job, pc, nextPid, lines, made, blank>>

Node == [in |-> 0, out |-> 0, err |-> 0, wr |-> 0]

NoJob == [left |-> <<>>, n |-> 0, err |-> FALSE, pipes |-> <<>>, todo |-> 0, at |-> 1]

Init ==
  /\ program \in Shells
  /\ slots = [i \in 1..Depth |-> Node]
  /\ open = {}
  /\ kids = {}
  /\ pidTable = {}
  /\ job = NoJob
  /\ pc = "prompt"
  /\ nextPid = 1
  /\ lines = 0
  /\ made = <<>>
  /\ blank = {}

-----------------------------------------------------------------------------
\* The shell.

Ends(P) == {<<p, e>> : p \in P, e \in {"r", "w"}}

BatchPipes == {job.pipes[i] : i \in DOMAIN job.pipes}

\* The end of a line: the front is dropped, an empty node comes in at the back.
Shift(s) == Append(Tail(s), Node)

\* Mutant of NumberPipe: the target is counted from one.
NumberPipeOneEarly(l) ==
  LET p == Len(made) + 1
  IN  IF l.n = 0 THEN UNCHANGED <<slots, open, made>>
      ELSE IF slots[l.n].in = 0
      THEN /\ slots' = [slots EXCEPT ![1].out = p, ![1].err = IF l.err THEN p ELSE @,
                          ![l.n].in = p, ![l.n].wr = p]
           /\ open' = open \cup Ends({p})
           /\ made' = Append(made, [line |-> lines + 1, n |-> l.n])
      ELSE /\ slots' = [slots EXCEPT ![1].out = slots[l.n].wr]
           /\ UNCHANGED <<open, made>>

\* |n or !n: the output goes into the pipe of the n-th line after, which is made
\* unless that line has one; then only the standard output joins it.
NumberPipe(l) ==
  LET p == Len(made) + 1
  IN  IF l.n = 0 THEN UNCHANGED <<slots, open, made>>
      ELSE IF slots[l.n + 1].in = 0
      THEN /\ slots' = [slots EXCEPT
                ![1] = [slots[1] EXCEPT !.out = p, !.err = IF l.err THEN p ELSE @],
                ![l.n + 1] = [slots[l.n + 1] EXCEPT !.in = p, !.wr = p]]
           /\ open' = open \cup Ends({p})
           /\ made' = Append(made, [line |-> lines + 1, n |-> l.n])
      ELSE /\ slots' = [slots EXCEPT ![1].out = slots[l.n + 1].wr]
           /\ UNCHANGED <<open, made>>

\* main reads a line, run begins.
StartLine(l) ==
  /\ pc = "prompt" /\ l.kind = "run" /\ lines < MaxLines
  /\ NumberPipe(l)
  /\ lines' = lines + 1
  /\ blank' = IF l.cmds = <<>> THEN blank \cup {lines + 1} ELSE blank
  /\ job' = [NoJob EXCEPT !.left = l.cmds, !.n = l.n, !.err = l.err]
  /\ pc' = "batch"
  /\ UNCHANGED <<program, kids, pidTable, nextPid>>

\* setenv, printenv: npshell shifts the deque and closes nothing; np_simple goes on
\* to the next line with everything as it was.
Builtin(l) ==
  /\ pc = "prompt" /\ l.kind = "builtin" /\ lines < MaxLines
  /\ program = "npshell"
  /\ slots' = Shift(slots)
  /\ lines' = lines + 1
  /\ blank' = blank \cup {lines + 1}
  /\ UNCHANGED <<program, open, kids, pidTable, job, pc, nextPid, made>>

\* exit: the process ends, its children do not.
Exit(l) ==
  /\ pc = "prompt" /\ l.kind = "exit"
  /\ open' = {}
  /\ pc' = "gone"
  /\ UNCHANGED <<program, slots, kids, pidTable, job, nextPid, lines, made, blank>>

\* Mutant of Split: the copy goes behind the front, so that both are the wrong way round.
SplitBehind(s, p) ==
  <<[s[1] EXCEPT !.out = p], [s[1] EXCEPT !.in = p, !.wr = p, !.out = 0]>> \o Tail(s)

\* A batch that is not the last: a node for the rest of the line goes in front.
\* npshell copies the front, np_simple takes a new node, without the line's output.
Split(s, p) ==
  IF program = "npshell"
  THEN <<[s[1] EXCEPT !.out = p, !.err = IF job.err THEN p ELSE @],
         [s[1] EXCEPT !.in = p, !.wr = p]>> \o Tail(s)
  ELSE <<[s[1] EXCEPT !.out = p], [Node EXCEPT !.in = p, !.wr = p]>> \o Tail(s)

\* The size of the next batch, and whether the line goes on after it.
Size == IF Len(job.left) < BatchSize THEN Len(job.left) ELSE BatchSize
More == Size < Len(job.left)

\* run, the start of a batch: the pipe to the next batch and the pipes between commands.
StartBatch ==
  /\ pc = "batch" /\ job.left # <<>>
  /\ LET p    == Len(made) + 1
         from == IF More THEN p ELSE p - 1
         new  == [i \in 1..(Size - 1) |-> from + i]
     IN  /\ slots' = IF More THEN Split(slots, p) ELSE slots
         /\ made' = made \o [i \in 1..(from + Size - p) |-> [line |-> lines, n |-> 0]]
         /\ open' = open \cup Ends(p..(from + Size - 1))
         /\ job' = [job EXCEPT !.pipes = new, !.todo = Size]
  /\ pc' = "fork"
  /\ UNCHANGED <<program, kids, pidTable, nextPid, lines, blank>>

Index == Len(job.pipes) + 2 - job.todo   \* i - j, counted from 1
Last  == job.todo = 1                    \* i + 1 == k

InputOf  == IF Index = 1 THEN slots[1].in ELSE job.pipes[Index - 1]
OutputOf == IF Last THEN slots[1].out ELSE job.pipes[Index]
ErrorOf  == IF ~job.err THEN 0 ELSE IF Last THEN slots[1].err ELSE job.pipes[Index]

\* The command takes its input from the front of the deque.
FromFront == InputOf # 0 /\ InputOf = slots[1].in

\* Mutant of EndsOfChild: the child keeps the write end of its own input.
EndsOfChildWithInput(c) ==
  (open \ Ends(BatchPipes))
  \cup {<<p, "r">> : p \in {InputOf} \ {0}}
  \cup {<<p, "w">> : p \in ({ErrorOf} \cup (IF c.file THEN {} ELSE {OutputOf})) \ {0}}

\* What forkProcess leaves the child with: every end the shell holds but those of
\* the batch's pipes and the write end of its own input, and its standard streams.
EndsOfChild(c) ==
  (open \ (Ends(BatchPipes) \cup (IF FromFront THEN {<<slots[1].wr, "w">>} ELSE {})))
  \cup {<<p, "r">> : p \in {InputOf} \ {0}}
  \cup {<<p, "w">> : p \in ({ErrorOf} \cup (IF c.file THEN {} ELSE {OutputOf})) \ {0}}

\* Mutant of CloseInput: the parent closes only the read end.
CloseReadEnd == open' = IF FromFront THEN open \ {<<InputOf, "r">>} ELSE open

\* The parent closes the pipe that its line reads.
CloseInput ==
  open' = IF FromFront THEN open \ {<<slots[1].wr, "w">>, <<InputOf, "r">>} ELSE open

\* run, one command is forked.
Fork ==
  /\ pc = "fork"
  /\ LET c == Head(job.left)
     IN kids' = kids \cup
          {[pid |-> nextPid, line |-> lines, in |-> InputOf, out |-> OutputOf, err |-> ErrorOf,
            ends |-> EndsOfChild(c), at |-> job.at, last |-> Len(job.left) = 1,
            wantErr |-> job.err, n |-> job.n,
            reads |-> c.reads, big |-> c.big /\ ~c.file]}
  /\ CloseInput
  /\ pidTable' = pidTable \cup {nextPid}
  /\ nextPid' = nextPid + 1
  /\ job' = [job EXCEPT !.left = Tail(@), !.todo = @ - 1, !.at = @ + 1]
  /\ pc' = IF Last THEN "close" ELSE "fork"
  /\ UNCHANGED <<program, slots, lines, made, blank>>

\* run: the pipes between the commands are closed.
CloseBatch ==
  /\ pc = "close"
  /\ open' = open \ Ends(BatchPipes)
  /\ pc' = "wait"
  /\ UNCHANGED <<program, slots, kids, pidTable, job, nextPid, lines, made, blank>>

Running(pids) == \E k \in kids : k.pid \in pids

\* Mutant of EndBatch: the node of a batch stays at the front.
EndBatchNoPop ==
  /\ pc = "wait"
  /\ IF slots[1].out # 0 THEN UNCHANGED pidTable
     ELSE ~Running(pidTable) /\ pidTable' = {}
  /\ job' = [job EXCEPT !.pipes = <<>>]
  /\ pc' = "batch"
  /\ UNCHANGED <<program, slots, open, kids, nextPid, lines, made, blank>>

\* The batch is over: if its output is the terminal, wait for every child in
\* pid_table; its node leaves the deque if there is another batch.
EndBatch ==
  /\ pc = "wait"
  /\ IF slots[1].out # 0 THEN UNCHANGED pidTable
     ELSE ~Running(pidTable) /\ pidTable' = {}
  /\ slots' = IF job.left # <<>> THEN Tail(slots) ELSE slots
  /\ job' = [job EXCEPT !.pipes = <<>>]
  /\ pc' = "batch"
  /\ UNCHANGED <<program, open, kids, nextPid, lines, made, blank>>

\* The line is over.
EndLine ==
  /\ pc = "batch" /\ job.left = <<>>
  /\ slots' = Shift(slots)
  /\ job' = NoJob
  /\ pc' = "prompt"
  /\ UNCHANGED <<program, open, kids, pidTable, nextPid, lines, made, blank>>

-----------------------------------------------------------------------------
\* The programs and the kernel.

\* A reader sees the end of its input once nobody holds the write end.
AtEOF(k) ==
  k.in # 0 => <<k.in, "w">> \notin open /\ \A j \in kids : <<k.in, "w">> \notin j.ends

\* More than a pipe holds can be written only while somebody reads it, or (the
\* writer is then killed) when nobody holds the read end.
Drained(k) ==
  k.out # 0 => \/ \E j \in kids : j.in = k.out /\ j.reads
               \/ <<k.out, "r">> \notin open /\ \A j \in kids : <<k.out, "r">> \notin j.ends

CanFinish(k) == (k.reads => AtEOF(k)) /\ (k.big => Drained(k))

KidExit(k) ==
  /\ CanFinish(k)
  /\ kids' = kids \ {k}
  /\ UNCHANGED <<program, slots, open, pidTable, job, pc, nextPid, lines, made, blank>>

ShellStep == StartBatch \/ Fork \/ CloseBatch \/ EndBatch \/ EndLine

Next ==
  \/ \E l \in Lines[program] : StartLine(l) \/ Builtin(l) \/ Exit(l)
  \/ ShellStep
  \/ \E k \in kids : KidExit(k)

Spec == Init /\ [][Next]_vars

\* The shell runs when it can, and a program that has its input, and room for its
\* output, ends.  Nobody has to type a line.
FairSpec == Spec /\ WF_vars(ShellStep) /\ WF_vars(\E k \in kids : KidExit(k))

-----------------------------------------------------------------------------
\* Properties.

NodeType == [in : Nat, out : Nat, err : Nat, wr : Nat]

KidType ==
  [pid : Nat, line : Nat, in : Nat, out : Nat, err : Nat, ends : SUBSET (Nat \X {"r", "w"}),
   at : Nat, last : BOOLEAN, wantErr : BOOLEAN, n : Nat, reads : BOOLEAN, big : BOOLEAN]

\* Every variable stays in its type; the deque has Depth nodes at every prompt, and
\* one more exactly while a line is split.
TypeOK ==
  /\ program \in Shells
  /\ slots \in Seq(NodeType)
  /\ Len(slots) = Depth + (IF pc \in {"fork", "close", "wait"} /\ Len(job.left) > job.todo
                           THEN 1 ELSE 0)
  /\ open \subseteq (1..Len(made)) \X {"r", "w"}
  /\ kids \subseteq KidType
  /\ pidTable \subseteq Nat
  /\ job \in [left : Seq(Cmd), n : Nat, err : BOOLEAN, pipes : Seq(Nat), todo : Nat, at : Nat]
  /\ pc \in {"prompt", "batch", "fork", "close", "wait", "gone"}
  /\ nextPid \in Nat /\ lines \in Nat
  /\ made \in Seq([line : Nat, n : Nat])
  /\ blank \subseteq Nat

NumberPipes == {p \in DOMAIN made : made[p].n > 0}
DueLine(p) == made[p].line + made[p].n

\* The n-th line after |n reads its output: a number pipe is the input of the first
\* command of the line it is due on, however many lines were split into batches in
\* between, and of no other command.
InputIsDue ==
  \A k \in kids, p \in NumberPipes : k.in = p <=> k.at = 1 /\ DueLine(p) = k.line

\* The output of the last command of a line goes where its |n says: into a pipe due
\* n lines later, or to the terminal.  np_simple forgets it when it splits the line.
\* With !n the standard error follows it, command by command, but for a line that
\* joins the pipe of an earlier one, and for the last command of a batch of np_simple
\* before the last: its error output is on the terminal or goes to the line n later.
OutputIsAimed ==
  \A k \in kids :
    /\ k.last =>
         IF k.n = 0 THEN k.out = 0
         ELSE \/ k.out \in NumberPipes /\ DueLine(k.out) = k.line + k.n
              \/ program = "np_simple" /\ k.at > BatchSize /\ k.out = 0
    /\ ~k.wantErr => k.err = 0
    /\ k.wantErr =>
         \/ k.err = k.out
         \/ k.last /\ k.err = 0 /\ k.out # 0 /\ made[k.out].line < k.line
         \/ /\ program = "np_simple" /\ ~k.last /\ k.at >= BatchSize
            /\ k.err # 0 => k.err \in NumberPipes /\ made[k.err] = [line |-> k.line, n |-> k.n]

\* At the prompt the shell holds exactly the two ends of each pipe in the deque: no
\* node names a closed pipe, no line leaves a pipe behind, and no line but the
\* current one has an output yet.  Only a line that started no command leaks: the
\* pipe it was to read stays open for ever.
DescriptorsAreAccountedFor ==
  pc = "prompt" =>
    LET due == {slots[i].in : i \in DOMAIN slots} \ {0}
    IN  /\ open \ Ends({p \in NumberPipes : DueLine(p) \in blank}) = Ends(due)
        /\ \A i \in DOMAIN slots : slots[i] = [Node EXCEPT !.in = slots[i].in, !.wr = slots[i].in]

\* A program that reads its input to the end waits only for programs forked before it,
\* and for the shell only while that forks the rest of the batch: the ends that the
\* children hold of pipes they have nothing to do with never close a circle of waiting.
WaitsOnlyForEarlier ==
  \A k \in kids : k.in # 0 =>
    /\ \A j \in kids : <<k.in, "w">> \in j.ends => j.pid < k.pid
    /\ <<k.in, "w">> \in open => pc \in {"fork", "close"} /\ k.in \in BatchPipes

Waiting == pc = "wait" /\ slots[1].out = 0 /\ Running(pidTable)

\* The comment on the wait: the children of a line with a number pipe are not waited
\* for.  So once the commands of the current line have ended the shell goes on.
NumberPipesAreNotWaitedFor == Waiting => \E k \in kids : k.line = lines

\* Every line is answered, so that the shell gets back to its prompt, unless a program
\* is held up by output that nobody reads.
LineCompletes ==
  pc # "prompt" ~> pc \in {"prompt", "gone"} \/ \E k \in kids : k.big /\ ~Drained(k)
=============================================================================
