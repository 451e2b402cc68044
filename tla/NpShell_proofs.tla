--------------------------- MODULE NpShell_proofs ---------------------------
(***************************************************************************)
(* Proofs about the shells, for every length of the deque, every batch      *)
(* size and all lines: types, that each number pipe is read by the first    *)
(* command of the line it is due on, and by no other, that every output     *)
(* goes where its line says, and which pipes stay open.                     *)
(***************************************************************************)
EXTENDS NpShell, SequenceTheorems, TLAPS

-----------------------------------------------------------------------------
\* The deque.

\* The end of a line moves every node one place to the front.
LEMMA ShiftMoves ==
  ASSUME NEW s \in Seq(NodeType), s # <<>>
  PROVE  /\ Shift(s) \in Seq(NodeType) /\ Len(Shift(s)) = Len(s)
         /\ \A i \in 1..Len(s) : Shift(s)[i] = IF i = Len(s) THEN Node ELSE s[i + 1]
<1> DEFINE t == Tail(s)
           u == Append(t, Node)
<1>1. /\ t \in Seq(NodeType) /\ Len(t) = Len(s) - 1
      /\ \A i \in 1..Len(t) : t[i] = s[i + 1]
  BY HeadTailProperties
<1>2. Node \in NodeType /\ Len(s) \in Nat \ {0}
  BY LenProperties DEF Node, NodeType
<1> HIDE DEF t
<1>3. /\ u \in Seq(NodeType) /\ Len(u) = Len(t) + 1
      /\ \A i \in 1..Len(t) : u[i] = t[i]
      /\ u[Len(t) + 1] = Node
  BY <1>1, <1>2, AppendProperties
<1>4. Shift(s) = u
  BY DEF Shift, t
<1> HIDE DEF u
<1>5. \A i \in 1..Len(s) : u[i] = IF i = Len(s) THEN Node ELSE s[i + 1]
  BY <1>1, <1>2, <1>3
<1> QED BY <1>1, <1>2, <1>3, <1>4, <1>5

\* The two nodes of a line that is split: the front keeps its input and leads to the rest of
\* the line, for which a copy of the front (npshell) or an empty node (np_simple) comes after.
SplitFront(s, p, x) ==
  /\ x.in = s[1].in /\ x.wr = s[1].wr /\ x.out = p
  /\ x.err = IF program = "npshell" /\ job.err THEN p ELSE s[1].err

SplitRest(s, p, y) ==
  /\ y.in = p /\ y.wr = p
  /\ program = "npshell" => y.out = s[1].out /\ y.err = s[1].err
  /\ program # "npshell" => y.out = 0 /\ y.err = 0

\* A node for the rest of the line goes in behind the front, which keeps its input.
LEMMA SplitInserts ==
  ASSUME NEW s \in Seq(NodeType), s # <<>>, NEW p \in Nat
  PROVE  /\ Split(s, p) \in Seq(NodeType) /\ Len(Split(s, p)) = Len(s) + 1
         /\ SplitFront(s, p, Split(s, p)[1]) /\ SplitRest(s, p, Split(s, p)[2])
         /\ \A i \in 3..(Len(s) + 1) : Split(s, p)[i] = s[i - 1]
<1>1. /\ Tail(s) \in Seq(NodeType) /\ Len(Tail(s)) = Len(s) - 1
      /\ \A i \in 1..(Len(s) - 1) : Tail(s)[i] = s[i + 1]
      /\ s[1] \in NodeType /\ Len(s) \in Nat \ {0}
  BY HeadTailProperties, LenProperties
<1>2. PICK x, y \in NodeType : /\ Split(s, p) = <<x, y>> \o Tail(s)
                               /\ SplitFront(s, p, x) /\ SplitRest(s, p, y)
  <2>1. CASE program = "npshell"
    <3> DEFINE x == [s[1] EXCEPT !.out = p, !.err = IF job.err THEN p ELSE @]
               y == [s[1] EXCEPT !.in = p, !.wr = p]
    <3>1. x \in NodeType /\ y \in NodeType
      BY <1>1 DEF NodeType
    <3>2. SplitFront(s, p, x) /\ SplitRest(s, p, y)
      BY <1>1, <2>1 DEF NodeType, SplitFront, SplitRest
    <3> QED BY <2>1, <3>1, <3>2 DEF Split
  <2>2. CASE program # "npshell"
    <3> DEFINE x == [s[1] EXCEPT !.out = p]
               y == [Node EXCEPT !.in = p, !.wr = p]
    <3>1. x \in NodeType /\ y \in NodeType
      BY <1>1 DEF NodeType, Node
    <3>2. SplitFront(s, p, x) /\ SplitRest(s, p, y)
      BY <1>1, <2>2 DEF NodeType, Node, SplitFront, SplitRest
    <3> QED BY <2>2, <3>1, <3>2 DEF Split
  <2> QED BY <2>1, <2>2
<1>3. <<x, y>> \in Seq(NodeType) /\ Len(<<x, y>>) = 2
  OBVIOUS
<1>4. /\ <<x, y>> \o Tail(s) \in Seq(NodeType)
      /\ Len(<<x, y>> \o Tail(s)) = 2 + Len(Tail(s))
      /\ \A i \in 1..(2 + Len(Tail(s))) :
           (<<x, y>> \o Tail(s))[i] = IF i <= 2 THEN <<x, y>>[i] ELSE Tail(s)[i - 2]
  BY <1>1, <1>3, ConcatProperties
<1> QED BY <1>1, <1>2, <1>4

-----------------------------------------------------------------------------
\* Types.

\* What pc says about the job.
JobInv ==
  /\ pc = "fork" => job.todo \in 1..Len(job.left) /\ job.todo <= Len(job.pipes) + 1
  /\ pc \in {"close", "wait"} => job.todo = 0

TypeInv == TypeOK /\ JobInv

JobType ==
  [left : Seq(Cmd), n : Nat, err : BOOLEAN, pipes : Seq(Nat), todo : Nat, at : Nat]

\* Nodes in front of the deque for the rest of the line.
Extra == IF pc \in {"fork", "close", "wait"} /\ Len(job.left) > job.todo THEN 1 ELSE 0

LEMMA SlotsAreThere ==
  ASSUME TypeOK
  PROVE  /\ slots # <<>> /\ slots[1] \in NodeType /\ Len(slots) \in Nat
         /\ Len(made) \in Nat /\ Len(job.left) \in Nat /\ Len(job.pipes) \in Nat
         /\ \A i \in 1..Len(slots) : slots[i] \in NodeType
         /\ \A i \in 1..Len(job.pipes) : job.pipes[i] \in Nat
BY SizeAssumption, ElementOfSeq, LenProperties DEF TypeOK

\* A number pipe is made for the n-th line after this one, if that has none yet.
MakesPipe(l) ==
  /\ l.n > 0 /\ slots[l.n + 1].in = 0
  /\ Len(made') = Len(made) + 1
  /\ \A p \in 1..Len(made) : made'[p] = made[p]
  /\ made'[Len(made) + 1] = [line |-> lines + 1, n |-> l.n]
  /\ open' = open \cup Ends({Len(made) + 1})
  /\ \A i \in 1..Len(slots) :
       /\ slots'[i].in = IF i = l.n + 1 THEN Len(made) + 1 ELSE slots[i].in
       /\ slots'[i].wr = IF i = l.n + 1 THEN Len(made) + 1 ELSE slots[i].wr
       /\ slots'[i].out = IF i = 1 THEN Len(made) + 1 ELSE slots[i].out
       /\ slots'[i].err = IF i = 1 /\ l.err THEN Len(made) + 1 ELSE slots[i].err

\* A number pipe that is there already, or none.
JoinsPipe(l) ==
  /\ l.n > 0 => slots[l.n + 1].in # 0
  /\ made' = made /\ open' = open
  /\ \A i \in 1..Len(slots) :
       /\ slots'[i].in = slots[i].in /\ slots'[i].wr = slots[i].wr
       /\ slots'[i].err = slots[i].err
       /\ slots'[i].out = IF i = 1 /\ l.n > 0 THEN slots[l.n + 1].wr ELSE slots[i].out

LEMMA NumberPipeType ==
  ASSUME TypeOK, pc = "prompt", NEW l \in Line, NumberPipe(l)
  PROVE  /\ slots' \in Seq(NodeType) /\ Len(slots') = Len(slots)
         /\ made' \in Seq([line : Nat, n : Nat])
         /\ open' \subseteq (1..Len(made')) \X {"r", "w"}
         /\ MakesPipe(l) \/ JoinsPipe(l)
<1> DEFINE p == Len(made) + 1
           a == [slots[1] EXCEPT !.out = p, !.err = IF l.err THEN p ELSE @]
           b == [slots[l.n + 1] EXCEPT !.in = p, !.wr = p]
           c == [slots[1] EXCEPT !.out = slots[l.n + 1].wr]
<1>0. /\ slots \in Seq(NodeType) /\ Len(slots) = Depth /\ l.n \in 0..(Depth - 1)
      /\ 1 \in 1..Len(slots) /\ l.n + 1 \in 1..Len(slots)
      /\ slots[1] \in NodeType /\ slots[l.n + 1] \in NodeType
  <2>1. slots \in Seq(NodeType) /\ Len(slots) = Depth
    BY SizeAssumption DEF TypeOK
  <2>2. l.n \in 0..(Depth - 1) /\ Depth \in Nat \ {0}
    BY SizeAssumption DEF Line
  <2>3. 1 \in 1..Len(slots) /\ l.n + 1 \in 1..Len(slots)
    BY <2>1, <2>2
  <2>4. slots[1] \in NodeType /\ slots[l.n + 1] \in NodeType
    BY <2>1, <2>3, ElementOfSeq
  <2> QED BY <2>1, <2>2, <2>3, <2>4
<1>1. CASE l.n = 0
  BY <1>1 DEF NumberPipe, JoinsPipe, TypeOK
<1>2. CASE l.n > 0 /\ slots[l.n + 1].in = 0
  <2>1. /\ slots' = [slots EXCEPT ![1] = a, ![l.n + 1] = b]
        /\ open' = open \cup Ends({p})
        /\ made' = Append(made, [line |-> lines + 1, n |-> l.n])
    <3> HIDE DEF p
    <3>1. l.n # 0 /\ ~(l.n = 0)
      BY <1>0, <1>2
    <3> QED BY <1>2, <3>1 DEF NumberPipe, p
  <2>a. p \in Nat
    BY SlotsAreThere
  <2> HIDE DEF p
  <2>2. /\ a \in NodeType /\ a.in = slots[1].in /\ a.wr = slots[1].wr
        /\ a.out = p /\ a.err = IF l.err THEN p ELSE slots[1].err
    BY <1>0, <2>a DEF NodeType
  <2> HIDE DEF a
  <2>4. /\ b \in NodeType /\ b.in = p /\ b.wr = p
        /\ b.out = slots[l.n + 1].out /\ b.err = slots[l.n + 1].err
    BY <1>0, <2>a DEF NodeType
  <2> HIDE DEF b
  <2>3. slots \in [1..Len(slots) -> NodeType] /\ Len(slots) \in Nat
    BY <1>0, LenProperties
  <2>5. /\ slots' \in [1..Len(slots) -> NodeType]
        /\ \A i \in 1..Len(slots) :
             slots'[i] = IF i = l.n + 1 THEN b ELSE IF i = 1 THEN a ELSE slots[i]
    BY <1>0, <2>1, <2>2, <2>3, <2>4
  <2>6. [line |-> lines + 1, n |-> l.n] \in [line : Nat, n : Nat]
    BY <1>0 DEF TypeOK
  <2>7. /\ made' \in Seq([line : Nat, n : Nat]) /\ Len(made') = Len(made) + 1
        /\ \A q \in 1..Len(made) : made'[q] = made[q]
        /\ made'[Len(made) + 1] = [line |-> lines + 1, n |-> l.n]
    BY <2>1, <2>6, AppendProperties DEF TypeOK
  <2>8. open' \subseteq (1..Len(made')) \X {"r", "w"}
    BY <2>1, <2>7, SlotsAreThere DEF Ends, TypeOK, p
  <2>9. ASSUME NEW i \in 1..Len(slots)
        PROVE  /\ slots'[i].in = IF i = l.n + 1 THEN p ELSE slots[i].in
               /\ slots'[i].wr = IF i = l.n + 1 THEN p ELSE slots[i].wr
               /\ slots'[i].out = IF i = 1 THEN p ELSE slots[i].out
               /\ slots'[i].err = IF i = 1 /\ l.err THEN p ELSE slots[i].err
    <3>1. l.n + 1 # 1 /\ (i = l.n + 1 => slots[i] = slots[l.n + 1])
      BY <1>0, <1>2
    <3>2. CASE i = l.n + 1
      BY <2>4, <2>5, <3>1, <3>2
    <3>3. CASE i = 1
      BY <2>2, <2>5, <3>1, <3>3
    <3>4. CASE i # l.n + 1 /\ i # 1
      BY <2>5, <3>4
    <3> QED BY <3>2, <3>3, <3>4
  <2>10. slots' \in Seq(NodeType) /\ Len(slots') = Len(slots)
    BY <2>3, <2>5
  <2> QED BY <1>2, <2>1, <2>7, <2>8, <2>9, <2>10 DEF MakesPipe, p
<1>3. CASE l.n > 0 /\ slots[l.n + 1].in # 0
  <2>1. slots' = [slots EXCEPT ![1] = c] /\ UNCHANGED <<open, made>>
    BY <1>0, <1>3 DEF NumberPipe
  <2>2. /\ c \in NodeType /\ c.in = slots[1].in /\ c.wr = slots[1].wr
        /\ c.out = slots[l.n + 1].wr /\ c.err = slots[1].err
    BY <1>0 DEF NodeType
  <2> HIDE DEF c
  <2>3. /\ slots' \in Seq(NodeType) /\ Len(slots') = Len(slots)
        /\ \A i \in 1..Len(slots) : slots'[i] = IF i = 1 THEN c ELSE slots[i]
    BY <1>0, <2>1, <2>2, ExceptSeq
  <2>4. \A i \in 1..Len(slots) :
          /\ slots'[i].in = slots[i].in /\ slots'[i].wr = slots[i].wr
          /\ slots'[i].err = slots[i].err
          /\ slots'[i].out = IF i = 1 /\ l.n > 0 THEN slots[l.n + 1].wr ELSE slots[i].out
    BY <1>3, <2>2, <2>3
  <2> QED BY <1>3, <2>1, <2>3, <2>4 DEF TypeOK, JoinsPipe
<1> QED BY <1>0, <1>1, <1>2, <1>3

\* A batch: the line's commands, in parts of BatchSize, and the pipes made for it.
LEMMA SizeType ==
  ASSUME TypeOK
  PROVE  Size \in Nat /\ Size <= Len(job.left) /\ (job.left # <<>> => Size > 0)
BY SizeAssumption, SlotsAreThere, EmptySeq DEF TypeOK, Size

Made(k) ==
  /\ made' \in Seq([line : Nat, n : Nat]) /\ Len(made') = Len(made) + k
  /\ \A p \in 1..Len(made) : made'[p] = made[p]
  /\ \A p \in (Len(made) + 1)..(Len(made) + k) : made'[p] = [line |-> lines, n |-> 0]

LEMMA StartBatchMakes ==
  ASSUME TypeOK, StartBatch
  PROVE  /\ Made(IF More THEN Size ELSE Size - 1)
         /\ open' \subseteq (1..Len(made')) \X {"r", "w"}
         /\ job' = [job EXCEPT !.pipes = job'.pipes, !.todo = Size]
         /\ job'.pipes \in Seq(Nat) /\ Len(job'.pipes) = Size - 1
         /\ \A i \in 1..(Size - 1) : job'.pipes[i] \in (Len(made) + 1)..Len(made')
<1> DEFINE p == Len(made) + 1
           k == IF More THEN Size ELSE Size - 1
           from == IF More THEN p ELSE p - 1
           new == [i \in 1..(Size - 1) |-> from + i]
           m == [i \in 1..k |-> [line |-> lines, n |-> 0]]
<1>a. Len(made) \in Nat /\ Size \in Nat /\ Size > 0
  BY SizeType, SlotsAreThere DEF StartBatch
<1>1. /\ p \in Nat /\ k \in Nat /\ Size - 1 \in Nat /\ from \in Nat
      /\ from + Size - p = k /\ from + Size - 1 = Len(made) + k
      /\ \A i \in 1..(Size - 1) : from + i \in (Len(made) + 1)..(Len(made) + k)
  <2>1. CASE More
    BY <1>a, <2>1
  <2>2. CASE ~More
    BY <1>a, <2>2
  <2> QED BY <2>1, <2>2
<1>2. /\ made' = made \o [i \in 1..(from + Size - p) |-> [line |-> lines, n |-> 0]]
      /\ open' = open \cup Ends(p..(from + Size - 1))
      /\ job' = [job EXCEPT !.pipes = new, !.todo = Size]
  BY DEF StartBatch
<1>3. made' = made \o m /\ open' = open \cup Ends(p..(Len(made) + k))
  BY <1>1, <1>2
<1>4. new \in Seq(Nat) /\ Len(new) = Size - 1
  BY <1>1
<1>5. \A i \in 1..(Size - 1) : new[i] \in (Len(made) + 1)..(Len(made) + k)
  BY <1>1
<1> HIDE DEF k
<1>6. m \in Seq([line : Nat, n : Nat]) /\ Len(m) = k
      /\ \A i \in 1..k : m[i] = [line |-> lines, n |-> 0]
  BY <1>1 DEF TypeOK
<1> HIDE DEF m, new, p, from
<1>7. Made(k)
  <2>1. /\ made' \in Seq([line : Nat, n : Nat]) /\ Len(made') = Len(made) + k
        /\ \A q \in 1..(Len(made) + k) :
             made'[q] = IF q <= Len(made) THEN made[q] ELSE m[q - Len(made)]
    <3>1. made \in Seq([line : Nat, n : Nat])
      BY DEF TypeOK
    <3> QED BY <1>3, <1>6, <3>1, ConcatProperties
  <2>2. \A q \in 1..Len(made) : made'[q] = made[q]
    BY <1>a, <1>1, <2>1
  <2>3. ASSUME NEW q \in (Len(made) + 1)..(Len(made) + k)
        PROVE  made'[q] = [line |-> lines, n |-> 0]
    <3>1. q - Len(made) \in 1..k /\ q \in 1..(Len(made) + k) /\ ~(q <= Len(made))
      BY <1>a, <1>1, <2>3
    <3> QED BY <1>6, <2>1, <3>1
  <2> QED BY <2>1, <2>2, <2>3 DEF Made
<1>8. open' \subseteq (1..Len(made')) \X {"r", "w"}
  <2>1. p..(Len(made) + k) \subseteq 1..Len(made') /\ 1..Len(made) \subseteq 1..Len(made')
    BY <1>a, <1>1, <1>7 DEF Made, p
  <2>2. Ends(p..(Len(made) + k)) \subseteq (1..Len(made')) \X {"r", "w"}
    BY <2>1 DEF Ends
  <2>3. open \subseteq (1..Len(made')) \X {"r", "w"}
    BY <2>1 DEF TypeOK
  <2> QED BY <1>3, <2>2, <2>3
<1>9. job'.pipes = new
  BY <1>2 DEF TypeOK
<1> QED BY <1>1, <1>2, <1>4, <1>5, <1>7, <1>8, <1>9 DEF Made, k

LEMMA ShellTypeInit == Init => TypeInv
<1> SUFFICES ASSUME Init PROVE TypeInv
  OBVIOUS
<1>1. slots \in Seq(NodeType) /\ Len(slots) = Depth
  BY SizeAssumption DEF Init, Node, NodeType
<1>2. job \in JobType
  BY EmptySeq DEF Init, NoJob, JobType
<1>3. made \in Seq([line : Nat, n : Nat]) /\ pc = "prompt"
  BY EmptySeq DEF Init
<1> QED BY <1>1, <1>2, <1>3, SizeAssumption DEF Init, TypeInv, TypeOK, JobInv, JobType

LEMMA ShellTypeStep == TypeInv /\ [Next]_vars => TypeInv'
<1> SUFFICES ASSUME TypeInv, [Next]_vars PROVE TypeInv'
  OBVIOUS
<1> USE DEF TypeInv, JobInv
<1>1. ASSUME NEW l \in Line, StartLine(l) PROVE TypeInv'
  <2>1. /\ slots' \in Seq(NodeType) /\ Len(slots') = Len(slots)
        /\ made' \in Seq([line : Nat, n : Nat])
        /\ open' \subseteq (1..Len(made')) \X {"r", "w"}
    BY <1>1, NumberPipeType DEF StartLine
  <2>2. job' \in JobType
    <3>1. job' = [NoJob EXCEPT !.left = l.cmds, !.n = l.n, !.err = l.err]
      BY <1>1 DEF StartLine
    <3>2. l.cmds \in Seq(Cmd) /\ l.n \in Nat /\ l.err \in BOOLEAN /\ <<>> \in Seq(Nat)
      BY SizeAssumption, EmptySeq DEF Line
    <3> QED BY <3>1, <3>2 DEF NoJob, JobType
  <2>3. /\ pc = "prompt" /\ pc' = "batch" /\ lines' = lines + 1
        /\ blank' \subseteq blank \cup {lines + 1}
        /\ UNCHANGED <<program, kids, pidTable, nextPid>>
    BY <1>1 DEF StartLine
  <2>4. Len(slots') = Depth + Extra'
    BY <2>1, <2>3, SizeAssumption DEF TypeOK, Extra
  <2>5. lines' \in Nat /\ blank' \subseteq Nat
    BY <2>3 DEF TypeOK
  <2> QED BY <2>1, <2>2, <2>3, <2>4, <2>5 DEF TypeOK, JobType, Extra
<1>2. CASE (\E l \in Line : Builtin(l)) \/ EndLine
  <2>1. slots' = Shift(slots) /\ pc \in {"prompt", "batch"}
    BY <1>2 DEF Builtin, EndLine
  <2>2. slots' \in Seq(NodeType) /\ Len(slots') = Len(slots)
    BY <2>1, ShiftMoves, SlotsAreThere DEF TypeOK
  <2>3. job' \in JobType
    <3>1. job' = job \/ job' = NoJob
      BY <1>2 DEF Builtin, EndLine
    <3>2. NoJob \in JobType
      BY EmptySeq DEF NoJob, JobType
    <3> QED BY <3>1, <3>2 DEF TypeOK, JobType
  <2>4. /\ pc' = "prompt" /\ lines' \in {lines, lines + 1}
        /\ blank' \subseteq blank \cup {lines + 1}
        /\ UNCHANGED <<program, open, kids, pidTable, nextPid, made>>
    BY <1>2 DEF Builtin, EndLine
  <2>5. Len(slots') = Depth + Extra'
    BY <2>1, <2>2, <2>4, SizeAssumption DEF TypeOK, Extra
  <2>6. lines' \in Nat /\ blank' \subseteq Nat
    BY <2>4 DEF TypeOK
  <2> QED BY <2>2, <2>3, <2>4, <2>5, <2>6 DEF TypeOK, JobType, Extra
<1>3. ASSUME NEW l \in Line, Exit(l) PROVE TypeInv'
  BY <1>3 DEF Exit, TypeOK
<1>4. CASE StartBatch
  <2>1. /\ Made(IF More THEN Size ELSE Size - 1)
        /\ open' \subseteq (1..Len(made')) \X {"r", "w"}
        /\ job' = [job EXCEPT !.pipes = job'.pipes, !.todo = Size]
        /\ job'.pipes \in Seq(Nat) /\ Len(job'.pipes) = Size - 1
    BY <1>4, StartBatchMakes
  <2>2. /\ pc = "batch" /\ pc' = "fork" /\ job.left # <<>>
        /\ slots' = IF More THEN Split(slots, Len(made) + 1) ELSE slots
        /\ UNCHANGED <<program, kids, pidTable, nextPid, lines, blank>>
    BY <1>4 DEF StartBatch
  <2>3. /\ job' \in JobType
        /\ job'.left = job.left /\ job'.todo = Size
    BY <2>1, SizeType DEF TypeOK, JobType
  <2>4. slots' \in Seq(NodeType) /\ Len(slots') = Len(slots) + IF More THEN 1 ELSE 0
    <3>a. slots # <<>> /\ Len(made) \in Nat /\ Len(slots) \in Nat
      BY SlotsAreThere
    <3>1. slots \in Seq(NodeType) /\ slots # <<>> /\ Len(made) + 1 \in Nat /\ Len(slots) \in Nat
      BY <3>a DEF TypeOK
    <3> QED BY <2>2, <3>1, SplitInserts
  <2>5. Size \in 1..Len(job.left) /\ (More <=> Len(job.left) > Size)
    BY <2>2, SizeType, SlotsAreThere DEF More
  <2>6. Len(slots) = Depth
    BY <2>2, SizeAssumption DEF TypeOK
  <2>7. Len(slots') = Depth + Extra'
    BY <2>2, <2>3, <2>4, <2>5, <2>6, SizeAssumption DEF Extra
  <2>8. JobInv'
    BY <2>1, <2>2, <2>3, <2>5, SizeType
  <2> QED BY <2>1, <2>2, <2>3, <2>4, <2>7, <2>8 DEF TypeOK, Made, Extra, JobType
<1>5. CASE Fork
  <2>1. /\ job.left # <<>> /\ job.left \in Seq(Cmd) /\ Len(job.left) \in Nat
        /\ Head(job.left) \in Cmd /\ Tail(job.left) \in Seq(Cmd)
        /\ Len(Tail(job.left)) = Len(job.left) - 1
    BY <1>5, EmptySeq, LenProperties, HeadTailProperties DEF Fork, TypeOK
  <2>2. Index \in 1..(Len(job.pipes) + 1) /\ (~Last => Index \in 1..Len(job.pipes))
    <3>1. Len(job.pipes) \in Nat /\ job.todo \in 1..(Len(job.pipes) + 1)
      BY <1>5, SlotsAreThere DEF Fork
    <3> QED BY <3>1 DEF Index, Last
  <2>3. InputOf \in Nat /\ OutputOf \in Nat /\ ErrorOf \in Nat
    <3>1. {slots[1].in, slots[1].out, slots[1].err} \subseteq Nat
      BY SlotsAreThere DEF NodeType
    <3>2. Index # 1 => job.pipes[Index - 1] \in Nat
      BY <2>2, SlotsAreThere
    <3>3. ~Last => job.pipes[Index] \in Nat
      BY <2>2, SlotsAreThere
    <3> QED BY <3>1, <3>2, <3>3 DEF InputOf, OutputOf, ErrorOf
  <2>4. EndsOfChild(Head(job.left)) \subseteq Nat \X {"r", "w"}
    <3>1. open \subseteq Nat \X {"r", "w"}
      BY SlotsAreThere DEF TypeOK
    <3> QED BY <2>3, <3>1 DEF EndsOfChild
  <2>5. /\ kids' = kids \cup
             {[pid |-> nextPid, line |-> lines, in |-> InputOf, out |-> OutputOf, err |-> ErrorOf,
               ends |-> EndsOfChild(Head(job.left)), at |-> job.at, last |-> Len(job.left) = 1,
               wantErr |-> job.err, n |-> job.n,
               reads |-> Head(job.left).reads, big |-> Head(job.left).big /\ ~Head(job.left).file]}
        /\ pidTable' = pidTable \cup {nextPid} /\ nextPid' = nextPid + 1
        /\ job' = [job EXCEPT !.left = Tail(job.left), !.todo = job.todo - 1, !.at = job.at + 1]
        /\ pc = "fork" /\ pc' = IF Last THEN "close" ELSE "fork"
        /\ open' \subseteq open
        /\ UNCHANGED <<program, slots, lines, made, blank>>
    BY <1>5 DEF Fork, CloseInput
  <2>6. kids' \subseteq KidType
    <3>1. /\ Head(job.left).reads \in BOOLEAN /\ (Len(job.left) = 1) \in BOOLEAN
          /\ (Head(job.left).big /\ ~Head(job.left).file) \in BOOLEAN
      BY <2>1 DEF Cmd
    <3>2. job.err \in BOOLEAN /\ job.n \in Nat /\ job.at \in Nat /\ nextPid \in Nat /\ lines \in Nat
      BY DEF TypeOK
    <3>3. [pid |-> nextPid, line |-> lines, in |-> InputOf, out |-> OutputOf, err |-> ErrorOf,
           ends |-> EndsOfChild(Head(job.left)), at |-> job.at, last |-> Len(job.left) = 1,
           wantErr |-> job.err, n |-> job.n,
           reads |-> Head(job.left).reads,
           big |-> Head(job.left).big /\ ~Head(job.left).file] \in KidType
      BY <2>3, <2>4, <3>1, <3>2 DEF KidType
    <3> QED BY <2>5, <3>3 DEF TypeOK
  <2>7. /\ job' \in JobType
        /\ job'.left = Tail(job.left) /\ job'.todo = job.todo - 1 /\ job'.pipes = job.pipes
    <3>1. job \in JobType /\ job.todo - 1 \in Nat /\ job.at + 1 \in Nat
      BY SMTT(20), <2>5, SlotsAreThere DEF TypeOK, JobType
    <3>2. job' = [left |-> Tail(job.left), n |-> job.n, err |-> job.err, pipes |-> job.pipes,
                  todo |-> job.todo - 1, at |-> job.at + 1]
      BY <2>5, <3>1 DEF JobType
    <3> QED BY <2>1, <3>1, <3>2 DEF JobType
  <2>8. job.todo \in Nat /\ (Last <=> job.todo = 1) /\ Len(job.pipes) \in Nat
    BY SlotsAreThere DEF Last, TypeOK
  <2>9. JobInv'
    BY <2>1, <2>5, <2>7, <2>8
  <2>10. Len(slots') = Depth + Extra'
    <3>1. Len(slots) = Depth + IF Len(job.left) > job.todo THEN 1 ELSE 0
      BY <2>5 DEF TypeOK
    <3>2. Len(job'.left) > job'.todo <=> Len(job.left) > job.todo
      BY <2>1, <2>7, <2>8
    <3> QED BY <2>5, <3>1, <3>2 DEF Extra
  <2>11. nextPid' \in Nat /\ pidTable' \subseteq Nat
    BY <2>5 DEF TypeOK
  <2> QED BY <2>5, <2>6, <2>7, <2>9, <2>10, <2>11 DEF TypeOK, Extra, JobType
<1>6. CASE CloseBatch
  BY <1>6 DEF CloseBatch, TypeOK
<1>7. CASE EndBatch
  <2>1. /\ pc = "wait" /\ pc' = "batch" /\ pidTable' \subseteq pidTable
        /\ slots' = IF job.left # <<>> THEN Tail(slots) ELSE slots
        /\ job' = [job EXCEPT !.pipes = <<>>]
        /\ UNCHANGED <<program, open, kids, nextPid, lines, made, blank>>
    BY <1>7 DEF EndBatch
  <2>2. slots # <<>> /\ slots \in Seq(NodeType)
    BY SlotsAreThere DEF TypeOK
  <2>3. Tail(slots) \in Seq(NodeType) /\ Len(Tail(slots)) = Len(slots) - 1
    BY <2>2, HeadTailProperties
  <2>4. Len(slots) = Depth + (IF job.left # <<>> THEN 1 ELSE 0)
    <3>1. job.left # <<>> <=> Len(job.left) > 0
      BY EmptySeq, SlotsAreThere DEF TypeOK
    <3> QED BY <2>1, <3>1 DEF TypeOK
  <2>5. job' \in JobType
    BY <2>1, EmptySeq DEF TypeOK, JobType
  <2>6. slots' \in Seq(NodeType) /\ Len(slots') = Depth
    BY <2>1, <2>2, <2>3, <2>4, SizeAssumption
  <2> QED BY SMTT(20), <2>1, <2>5, <2>6 DEF TypeOK, JobType
<1>8. ASSUME NEW k \in kids, KidExit(k) PROVE TypeInv'
  BY <1>8 DEF KidExit, TypeOK
<1>9. CASE UNCHANGED vars
  BY <1>9 DEF vars, TypeOK
<1>10. \A l \in Lines[program] : l \in Line
  BY LinesAssumption DEF TypeOK
<1> QED
  BY <1>1, <1>2, <1>3, <1>4, <1>5, <1>6, <1>7, <1>8, <1>9, <1>10 DEF Next, ShellStep

\* Types, for every length of the deque and every batch size: the deque has its length at
\* every prompt, and one node more exactly while a line is split.
THEOREM ShellTypesCorrect == Spec => []TypeOK
<1>1. TypeInv => TypeOK
  BY DEF TypeInv
<1> QED BY <1>1, ShellTypeInit, ShellTypeStep, PTL DEF Spec

-----------------------------------------------------------------------------
\* Number pipes are read when they are due.

\* The line that the front of the deque stands for.
Base == IF pc \in {"prompt", "gone"} THEN lines + 1 ELSE lines

\* x is the pipe that is due on line d, or 0 if there is none.
IsDueOn(x, d) ==
  /\ x \in NumberPipes \cup {0}
  /\ \A p \in NumberPipes : x = p <=> made[p].line + made[p].n = d

OtherPipes == (1..Len(made)) \ NumberPipes

\* No command of the line has been forked.
Fresh == pc \in {"prompt", "gone"} \/ job.at = 1

\* Behind the nodes of the current line, the deque has what is due on the next lines.
\* The front is what is due now, until the first batch is over; then it is a pipe
\* between two batches.
DequeInv ==
  /\ \A p \in NumberPipes : made[p].line + made[p].n < Base + Depth
  /\ \A i \in 2..Depth : IsDueOn(slots[i + Extra].in, Base + i - 1)
  /\ Fresh => IsDueOn(slots[1].in, Base)
  /\ Extra = 1 => slots[2].in \in OtherPipes
  /\ (~Fresh /\ job.left # <<>> /\ (pc = "batch" \/ (pc = "fork" /\ Index = 1)))
       => slots[1].in \in OtherPipes

BatchInv ==
  /\ pc = "fork" => \A i \in 1..Len(job.pipes) : job.pipes[i] \in OtherPipes
  /\ pc = "fork" /\ job.at = 1 => Index = 1
  /\ pc \in {"close", "wait"} => job.at > 1
  /\ job.at > 0

KidsInv == InputIsDue /\ \A k \in kids : k.line <= lines /\ k.in <= Len(made)

DueInv == DequeInv /\ BatchInv /\ KidsInv

\* A pipe of a batch is no number pipe, and disturbs none.
LEMMA MadeKeeps ==
  ASSUME TypeOK, NEW k \in Nat, Made(k)
  PROVE  /\ NumberPipes' = NumberPipes
         /\ NumberPipes \subseteq 1..Len(made)
         /\ OtherPipes \subseteq OtherPipes'
         /\ (Len(made) + 1)..(Len(made) + k) \subseteq OtherPipes'
         /\ \A p \in NumberPipes : made'[p] = made[p]
<1>1. /\ Len(made) \in Nat /\ DOMAIN made = 1..Len(made)
      /\ Len(made') = Len(made) + k /\ DOMAIN made' = 1..(Len(made) + k)
  BY LenProperties DEF TypeOK, Made
<1>2. \A p \in (Len(made) + 1)..(Len(made) + k) : made'[p].n = 0
  BY DEF Made
<1>3. \A p \in 1..Len(made) : made'[p] = made[p]
  BY DEF Made
<1>4. NumberPipes' = NumberPipes
  BY <1>1, <1>2, <1>3 DEF NumberPipes
<1>5. NumberPipes \subseteq 1..Len(made)
  BY <1>1 DEF NumberPipes
<1> QED BY <1>1, <1>3, <1>4, <1>5 DEF OtherPipes

\* The pipe of |n is one more number pipe, due n lines from now.
LEMMA MakesOne ==
  ASSUME TypeOK, NEW l \in Line, MakesPipe(l)
  PROVE  /\ NumberPipes' = NumberPipes \cup {Len(made) + 1}
         /\ NumberPipes \subseteq 1..Len(made)
         /\ \A p \in NumberPipes : made'[p] = made[p]
         /\ made'[Len(made) + 1] = [line |-> lines + 1, n |-> l.n]
<1>1. /\ Len(made) \in Nat /\ DOMAIN made = 1..Len(made)
      /\ Len(made') = Len(made) + 1
  BY LenProperties DEF TypeOK, MakesPipe
<1>2. /\ \A p \in 1..Len(made) : made'[p] = made[p]
      /\ made'[Len(made) + 1] = [line |-> lines + 1, n |-> l.n] /\ l.n > 0
  BY DEF MakesPipe
<1>3. NumberPipes \subseteq 1..Len(made)
  BY <1>1 DEF NumberPipes
<1> QED BY <1>1, <1>2, <1>3 DEF NumberPipes

LEMMA DuesAreNumbers ==
  ASSUME TypeOK, NEW p \in NumberPipes
  PROVE  p \in 1..Len(made) /\ made[p].line \in Nat /\ made[p].n \in Nat
<1>1. p \in 1..Len(made) /\ made \in Seq([line : Nat, n : Nat])
  BY LenProperties DEF TypeOK, NumberPipes
<1>2. made[p] \in [line : Nat, n : Nat]
  BY <1>1, ElementOfSeq
<1> QED BY <1>1, <1>2

\* The next line: what was due on it is at the front now.
LEMMA ShiftStep ==
  ASSUME TypeInv, TypeInv', DequeInv, pc \in {"prompt", "batch"}, pc' = "prompt",
         slots' = Shift(slots), made' = made, Base' = Base + 1
  PROVE  DequeInv'
<1>1. /\ slots \in Seq(NodeType) /\ slots # <<>> /\ Len(slots) = Depth
      /\ Extra = 0 /\ Extra' = 0 /\ Fresh' /\ Base \in Nat /\ Depth \in Nat \ {0}
  BY SizeAssumption, SlotsAreThere DEF TypeInv, TypeOK, Extra, Fresh, Base
<1>2. \A i \in 1..Depth : slots'[i] = IF i = Depth THEN Node ELSE slots[i + 1]
  BY <1>1, ShiftMoves
<1>3. NumberPipes' = NumberPipes
  BY DEF NumberPipes
<1>4. \A p \in NumberPipes : made'[p].line + made'[p].n < Base' + Depth
  <2>1. ASSUME NEW p \in NumberPipes PROVE made[p].line + made[p].n \in Nat
    BY DuesAreNumbers DEF TypeInv
  <2> QED BY <1>1, <2>1 DEF DequeInv
<1>5. ASSUME NEW i \in 1..Depth PROVE IsDueOn(slots'[i].in, Base' + i - 1)
  <2>1. CASE i # Depth
    <3>1. i + 1 \in 2..Depth /\ i + 1 + Extra = i + 1 /\ Base + (i + 1) - 1 = Base' + i - 1
      BY <1>1, <2>1
    <3>2. IsDueOn(slots[i + 1].in, Base + (i + 1) - 1)
      BY <3>1 DEF DequeInv
    <3> QED BY <1>2, <2>1, <3>1, <3>2
  <2>2. CASE i = Depth
    <3>1. slots'[i].in = 0 /\ Base' + i - 1 = Base + Depth
      BY <1>1, <1>2, <2>2 DEF Node
    <3>2. \A p \in NumberPipes : made[p].line + made[p].n # Base + Depth /\ p # 0
      <4>1. ASSUME NEW p \in NumberPipes
            PROVE  made[p].line + made[p].n # Base + Depth /\ p # 0
        <5>1. p \in 1..Len(made) /\ made[p].line + made[p].n \in Nat
          BY DuesAreNumbers DEF TypeInv
        <5>2. made[p].line + made[p].n < Base + Depth
          BY DEF DequeInv
        <5> QED BY <1>1, <5>1, <5>2
      <4> QED BY <4>1
    <3> QED BY <3>1, <3>2 DEF IsDueOn
  <2> QED BY <2>1, <2>2
<1> QED BY <1>1, <1>3, <1>4, <1>5 DEF DequeInv, IsDueOn

\* |n at the prompt: n lines from now the pipe is due, and it is the only one.
LEMMA StartLineStep ==
  ASSUME TypeInv, TypeInv', DueInv, NEW l \in Line, StartLine(l)
  PROVE  DueInv'
<1>1. /\ slots \in Seq(NodeType) /\ Len(slots) = Depth /\ Depth \in Nat \ {0}
      /\ Extra = 0 /\ Extra' = 0 /\ Fresh /\ Fresh' /\ Base = lines + 1 /\ Base' = lines + 1
      /\ lines \in Nat /\ Len(made) \in Nat /\ l.n \in 0..(Depth - 1)
  <2>1. pc = "prompt" /\ pc' = "batch" /\ lines' = lines + 1 /\ job'.at = 1
    BY DEF StartLine, NoJob
  <2>2. lines \in Nat /\ Len(made) \in Nat /\ slots \in Seq(NodeType)
    BY SlotsAreThere DEF TypeInv, TypeOK
  <2>3. Depth \in Nat \ {0} /\ l.n \in 0..(Depth - 1)
    BY SizeAssumption DEF Line
  <2>4. Len(slots) = Depth
    BY <2>1, <2>3 DEF TypeInv, TypeOK
  <2> QED BY <2>1, <2>2, <2>3, <2>4 DEF Extra, Fresh, Base
<1>2. pc = "prompt" /\ pc' = "batch" /\ lines' = lines + 1 /\ kids' = kids /\ job'.at = 1
  BY DEF StartLine, NoJob
<1>3. \A i \in 1..Depth : IsDueOn(slots[i].in, Base + i - 1)
  BY <1>1 DEF DueInv, DequeInv
<1>4. MakesPipe(l) \/ JoinsPipe(l)
  BY <1>2, NumberPipeType DEF StartLine, TypeInv
<1>5. /\ \A p \in NumberPipes' : made'[p].line + made'[p].n < Base' + Depth
      /\ \A i \in 1..Depth : IsDueOn(slots[i].in, Base + i - 1)'
      /\ InputIsDue' /\ Len(made') >= Len(made)
  <2>1. CASE JoinsPipe(l)
    <3>1. made' = made /\ \A i \in 1..Depth : slots'[i].in = slots[i].in
      BY <1>1, <2>1 DEF JoinsPipe
    <3>2. NumberPipes' = NumberPipes
      BY <3>1 DEF NumberPipes
    <3>3. InputIsDue'
      BY <1>2, <3>1, <3>2 DEF InputIsDue, DueInv, KidsInv, DueLine
    <3> QED BY <1>1, <1>3, <3>1, <3>2, <3>3 DEF IsDueOn, DueInv, DequeInv
  <2>2. CASE MakesPipe(l)
    <3> DEFINE q == Len(made) + 1
    <3>1. /\ NumberPipes' = NumberPipes \cup {q}
          /\ NumberPipes \subseteq 1..Len(made)
          /\ \A p \in NumberPipes : made'[p] = made[p]
          /\ made'[q].line + made'[q].n = Base + l.n
      <4>1. /\ NumberPipes' = NumberPipes \cup {q} /\ NumberPipes \subseteq 1..Len(made)
            /\ \A p \in NumberPipes : made'[p] = made[p]
            /\ made'[q] = [line |-> lines + 1, n |-> l.n]
        BY <2>2, MakesOne DEF TypeInv
      <4>2. made'[q].line = lines + 1 /\ made'[q].n = l.n
        BY <4>1
      <4> QED BY <1>1, <4>1, <4>2
    <3>2. /\ l.n + 1 \in 2..Depth /\ slots[l.n + 1].in = 0 /\ Len(made') = Len(made) + 1
          /\ \A i \in 1..Depth : slots'[i].in = IF i = l.n + 1 THEN q ELSE slots[i].in
      BY <1>1, <2>2 DEF MakesPipe
    <3>3. \A p \in NumberPipes : made[p].line + made[p].n \in Nat
      BY DuesAreNumbers DEF TypeInv
    <3>4. q \notin NumberPipes /\ q # 0 /\ 0 \notin NumberPipes
      BY <1>1, <3>1
    <3> HIDE DEF q
    <3>5. \A p \in NumberPipes' : made'[p].line + made'[p].n < Base' + Depth
      BY <1>1, <3>1, <3>3 DEF DueInv, DequeInv
    <3>6. ASSUME NEW i \in 1..Depth
          PROVE  IsDueOn(slots[i].in, Base + i - 1)'
      <4>1. slots[i].in \in NumberPipes \cup {0}
            /\ \A p \in NumberPipes : slots[i].in = p <=> made[p].line + made[p].n = Base + i - 1
        BY <1>3 DEF IsDueOn
      <4>2. CASE i = l.n + 1
        <5>1. slots'[i].in = q /\ Base' + i - 1 = Base + l.n /\ slots[i].in = 0
          BY <1>1, <3>2, <4>2
        <5>2. \A p \in NumberPipes : made[p].line + made[p].n # Base + l.n
          BY <1>1, <3>4, <4>1, <4>2, <5>1
        <5> QED BY <3>1, <3>4, <5>1, <5>2 DEF IsDueOn
      <4>3. CASE i # l.n + 1
        <5>1. slots'[i].in = slots[i].in /\ Base' + i - 1 # Base + l.n /\ Base' = Base
          BY <1>1, <3>2, <4>3
        <5> QED BY <3>1, <3>4, <4>1, <5>1 DEF IsDueOn
      <4> QED BY <4>2, <4>3
    <3>7. InputIsDue'
      <4>1. ASSUME NEW k \in kids, NEW p \in NumberPipes'
            PROVE  k.in = p <=> k.at = 1 /\ made'[p].line + made'[p].n = k.line
        <5>1. k.in <= Len(made) /\ k.line <= lines /\ k.in \in Nat /\ k.line \in Nat
          BY DEF DueInv, KidsInv, TypeInv, TypeOK, KidType
        <5>2. CASE p = q
          BY SMTT(20), <1>1, <3>1, <3>2, <5>1, <5>2 DEF q
        <5>3. CASE p \in NumberPipes
          BY <3>1, <5>3 DEF DueInv, KidsInv, InputIsDue, DueLine
        <5> QED BY <3>1, <5>2, <5>3
      <4> QED BY <1>2, <4>1 DEF InputIsDue, DueLine
    <3> QED BY <1>1, <3>2, <3>5, <3>6, <3>7
  <2> QED BY <1>4, <2>1, <2>2
<1>6. DequeInv'
  BY <1>1, <1>5 DEF DequeInv
<1>7. BatchInv'
  BY <1>2 DEF BatchInv
<1>8. KidsInv'
  <2>1. Len(made') \in Nat
    BY SlotsAreThere, LenProperties DEF TypeInv, TypeOK
  <2>2. \A k \in kids : k.line \in Nat /\ k.in \in Nat /\ k.line <= lines /\ k.in <= Len(made)
    BY DEF DueInv, KidsInv, TypeInv, TypeOK, KidType
  <2> QED BY <1>1, <1>2, <1>5, <2>1, <2>2 DEF KidsInv
<1> QED BY <1>6, <1>7, <1>8 DEF DueInv

\* What StartBatch leaves of the deque: the front keeps its input, the node of the rest of the
\* line, if there is a rest, comes second, and all others keep their places behind it.
StartBatchEffect ==
  /\ pc = "batch" /\ pc' = "fork" /\ UNCHANGED <<program, kids, lines, blank>>
  /\ job.left # <<>> /\ job'.left = job.left /\ job'.todo = Size
  /\ job'.at = job.at /\ job'.n = job.n /\ job'.err = job.err
  /\ Size \in Nat \ {0} /\ Len(slots) = Depth /\ Len(slots') = Depth + Extra'
  /\ Extra = 0 /\ Extra' = (IF More THEN 1 ELSE 0) /\ Base' = Base /\ Fresh' = Fresh
  /\ slots'[1].in = slots[1].in /\ slots'[1].wr = slots[1].wr
  /\ ~More => slots' = slots
  /\ More => /\ SplitFront(slots, Len(made) + 1, slots'[1])
             /\ SplitRest(slots, Len(made) + 1, slots'[2])
  /\ \A i \in 2..Depth : slots'[i + Extra'] = slots[i]

LEMMA StartBatchNodes ==
  ASSUME TypeInv, StartBatch
  PROVE  StartBatchEffect
<1>1. /\ slots \in Seq(NodeType) /\ slots # <<>> /\ Len(slots) = Depth /\ Depth \in Nat \ {0}
      /\ Len(made) \in Nat /\ Size \in Nat \ {0} /\ Len(job.left) \in Nat
  <2>1. pc = "batch" /\ job.left # <<>>
    BY DEF StartBatch
  <2>2. Size \in Nat \ {0}
    BY <2>1, SizeType DEF TypeInv
  <2>3. slots # <<>> /\ Len(made) \in Nat /\ Len(job.left) \in Nat
    BY SlotsAreThere DEF TypeInv
  <2>4. Len(slots) = Depth /\ slots \in Seq(NodeType)
    BY <2>1, SizeAssumption DEF TypeInv, TypeOK
  <2> QED BY <2>2, <2>3, <2>4, SizeAssumption
<1>2. /\ pc = "batch" /\ pc' = "fork" /\ UNCHANGED <<program, kids, lines, blank>>
      /\ slots' = IF More THEN Split(slots, Len(made) + 1) ELSE slots
      /\ job.left # <<>>
  BY DEF StartBatch
<1>3. /\ job'.left = job.left /\ job'.todo = Size /\ job'.at = job.at
      /\ job'.n = job.n /\ job'.err = job.err
  <2>1. job' = [job EXCEPT !.pipes = job'.pipes, !.todo = Size]
    BY StartBatchMakes DEF TypeInv
  <2> QED BY <2>1 DEF TypeInv, TypeOK
<1>4. /\ Extra = 0 /\ Extra' = (IF More THEN 1 ELSE 0)
      /\ Base' = Base /\ Fresh' = Fresh
  <2>1. More <=> Len(job.left) > Size
    BY <1>1 DEF More
  <2> QED BY <1>2, <1>3, <2>1 DEF Extra, Base, Fresh
<1>5. CASE ~More
  BY <1>1, <1>2, <1>3, <1>4, <1>5 DEF StartBatchEffect
<1>6. CASE More
  <2>1. Len(made) + 1 \in Nat /\ slots' = Split(slots, Len(made) + 1)
    BY <1>1, <1>2, <1>6
  <2>2. /\ Len(slots') = Depth + 1
        /\ SplitFront(slots, Len(made) + 1, slots'[1])
        /\ SplitRest(slots, Len(made) + 1, slots'[2])
        /\ \A i \in 3..(Depth + 1) : slots'[i] = slots[i - 1]
    BY <1>1, <2>1, SplitInserts
  <2>3. ASSUME NEW i \in 2..Depth PROVE slots'[i + 1] = slots[i]
    <3>1. i + 1 \in 3..(Depth + 1) /\ (i + 1) - 1 = i
      BY <1>1, <2>3
    <3> QED BY <2>2, <3>1
  <2>4. slots'[1].in = slots[1].in /\ slots'[1].wr = slots[1].wr
    BY <2>2 DEF SplitFront
  <2> QED BY <1>1, <1>2, <1>3, <1>4, <1>6, <2>2, <2>3, <2>4 DEF StartBatchEffect
<1> QED BY <1>5, <1>6

\* A batch: the front keeps its input, and the deque behind it what is due.
LEMMA StartBatchStep ==
  ASSUME TypeInv, TypeInv', DueInv, StartBatch
  PROVE  DueInv'
<1> DEFINE k == IF More THEN Size ELSE Size - 1
<1>1. /\ slots \in Seq(NodeType) /\ slots # <<>> /\ Len(slots) = Depth /\ Depth \in Nat \ {0}
      /\ lines \in Nat /\ Len(made) \in Nat /\ Size \in Nat \ {0} /\ k \in Nat
  <2>1. pc = "batch" /\ job.left # <<>>
    BY DEF StartBatch
  <2>2. Size \in Nat \ {0} /\ k \in Nat
    BY <2>1, SizeType DEF TypeInv
  <2>3. slots # <<>> /\ Len(made) \in Nat
    BY SlotsAreThere DEF TypeInv
  <2>4. Len(slots) = Depth /\ slots \in Seq(NodeType) /\ lines \in Nat
    BY <2>1, SizeAssumption DEF TypeInv, TypeOK
  <2> QED BY <2>2, <2>3, <2>4, SizeAssumption
<1>2. /\ pc = "batch" /\ pc' = "fork" /\ lines' = lines /\ kids' = kids
      /\ slots' = IF More THEN Split(slots, Len(made) + 1) ELSE slots
      /\ job.left # <<>>
  BY DEF StartBatch
<1>3. /\ Made(k)
      /\ job' = [job EXCEPT !.pipes = job'.pipes, !.todo = Size]
      /\ job'.pipes \in Seq(Nat) /\ Len(job'.pipes) = Size - 1
      /\ \A i \in 1..(Size - 1) : job'.pipes[i] \in (Len(made) + 1)..Len(made')
  BY StartBatchMakes DEF TypeInv
<1>4. job'.left = job.left /\ job'.todo = Size /\ job'.at = job.at
  BY <1>3 DEF TypeInv, TypeOK
<1> HIDE DEF k
<1>5. /\ NumberPipes' = NumberPipes /\ NumberPipes \subseteq 1..Len(made)
      /\ OtherPipes \subseteq OtherPipes'
      /\ (Len(made) + 1)..(Len(made) + k) \subseteq OtherPipes'
      /\ \A p \in NumberPipes : made'[p] = made[p]
      /\ Len(made') = Len(made) + k
  BY <1>1, <1>3, MadeKeeps DEF TypeInv, Made
<1>6. /\ Extra = 0 /\ Extra' = (IF More THEN 1 ELSE 0)
      /\ Base' = Base /\ Fresh' = Fresh /\ StartBatchEffect
  BY StartBatchNodes DEF StartBatchEffect
<1>7. slots'[1].in = slots[1].in /\ (More => slots'[2].in \in OtherPipes')
      /\ \A i \in 2..Depth : slots'[i + Extra'] = slots[i]
  <2>1. More => slots'[2].in = Len(made) + 1
    BY <1>6 DEF StartBatchEffect, SplitRest
  <2>2. More => Len(made) + 1 \in OtherPipes'
    BY <1>1, <1>5 DEF k
  <2> QED BY <1>6, <2>1, <2>2 DEF StartBatchEffect
<1>8. \A x, d : IsDueOn(x, d) => /\ x \in NumberPipes' \cup {0}
                               /\ \A p \in NumberPipes' : x = p <=> made'[p].line + made'[p].n = d
  BY <1>5 DEF IsDueOn
<1>9. DequeInv'
  <2>1. \A p \in NumberPipes' : made'[p].line + made'[p].n < Base' + Depth
    BY <1>5, <1>6 DEF DueInv, DequeInv
  <2>2. ASSUME NEW i \in 2..Depth PROVE IsDueOn(slots[i + Extra].in, Base + i - 1)'
    <3>1. IsDueOn(slots[i].in, Base + i - 1)
      <4>1. i + Extra = i
        BY <1>1, <1>6, <2>2
      <4> QED BY <4>1 DEF DueInv, DequeInv
    <3>2. slots'[i + Extra'].in = slots[i].in
      BY <1>7
    <3>3. /\ slots[i].in \in NumberPipes' \cup {0}
          /\ \A p \in NumberPipes' :
               slots[i].in = p <=> made'[p].line + made'[p].n = Base + i - 1
      BY <1>8, <3>1
    <3> QED BY <1>6, <3>2, <3>3 DEF IsDueOn
  <2>3. Fresh => IsDueOn(slots[1].in, Base)'
    <3>1. Fresh => IsDueOn(slots[1].in, Base)
      BY DEF DueInv, DequeInv
    <3>2. Fresh => /\ slots[1].in \in NumberPipes' \cup {0}
                   /\ \A p \in NumberPipes' : slots[1].in = p <=> made'[p].line + made'[p].n = Base
      BY <1>8, <3>1
    <3> QED BY <1>6, <1>7, <3>2 DEF IsDueOn
  <2>4. ~Fresh => slots[1].in \in OtherPipes
    BY <1>2 DEF DueInv, DequeInv
  <2> QED BY <1>5, <1>6, <1>7, <2>1, <2>2, <2>3, <2>4 DEF DequeInv
<1>10. BatchInv'
  <2>1. Index' = 1
    BY <1>1, <1>3, <1>4 DEF Index
  <2>2. \A i \in 1..Len(job'.pipes) : job'.pipes[i] \in OtherPipes'
    BY <1>3, <1>5
  <2> QED BY <1>2, <1>4, <2>1, <2>2 DEF BatchInv, DueInv
<1>11. KidsInv'
  <2>1. \A x \in kids : x.in \in Nat /\ x.in <= Len(made)
    BY DEF DueInv, KidsInv, TypeInv, TypeOK, KidType
  <2>2. InputIsDue'
    BY <1>2, <1>5 DEF DueInv, KidsInv, InputIsDue, DueLine
  <2> QED BY <1>1, <1>2, <1>5, <2>1, <2>2 DEF DueInv, KidsInv
<1> QED BY <1>9, <1>10, <1>11 DEF DueInv

\* A command: only the first one of a line reads from a node that has a number pipe.
LEMMA ForkStep ==
  ASSUME TypeInv, TypeInv', DueInv, Fork
  PROVE  DueInv'
<1>1. /\ pc = "fork" /\ pc' \in {"fork", "close"} /\ job.todo \in 1..Len(job.left)
      /\ job.todo <= Len(job.pipes) + 1 /\ Len(job.left) \in Nat /\ Len(job.pipes) \in Nat
      /\ UNCHANGED <<slots, lines, made>> /\ (pc' = "close" <=> Last)
  BY SlotsAreThere DEF Fork, TypeInv, JobInv
<1>2. /\ job'.left = Tail(job.left) /\ job'.todo = job.todo - 1 /\ job'.at = job.at + 1
      /\ job'.pipes = job.pipes /\ job.at \in Nat /\ job.at > 0
      /\ Len(job'.left) = Len(job.left) - 1
  <2>1. job' = [job EXCEPT !.left = Tail(job.left), !.todo = job.todo - 1, !.at = job.at + 1]
    BY DEF Fork
  <2>2. job.left \in Seq(Cmd) /\ job.left # <<>>
    BY <1>1, EmptySeq DEF TypeInv, TypeOK
  <2>3. Len(Tail(job.left)) = Len(job.left) - 1
    BY <2>2, HeadTailProperties
  <2> QED BY <2>1, <2>3 DEF TypeInv, TypeOK, DueInv, BatchInv
<1>3. /\ Index \in 1..(Len(job.pipes) + 1) /\ Index' = Index + 1
      /\ (Index # 1 => Index - 1 \in 1..Len(job.pipes))
  <2>1. Index = Len(job.pipes) + 2 - job.todo /\ Index' = Len(job'.pipes) + 2 - job'.todo
    BY DEF Index
  <2>2. job.todo \in Nat /\ job.todo >= 1
    BY <1>1
  <2>3. Index' = Index + 1
    <3>1. Len(job'.pipes) = Len(job.pipes) /\ job'.todo = job.todo - 1
      BY <1>2
    <3>2. Index' = Len(job.pipes) + 2 - (job.todo - 1)
      BY <2>1, <3>1
    <3> HIDE DEF Index
    <3> QED BY SMTT(20), <1>1, <2>1, <2>2, <3>2
  <2>4. /\ Index \in Nat /\ Index >= 1 /\ Index <= Len(job.pipes) + 1
        /\ (Index # 1 => Index - 1 >= 1 /\ Index - 1 <= Len(job.pipes))
    BY <1>1, <2>1, <2>2
  <2> QED BY <1>1, <2>3, <2>4
<1>4. Extra' = Extra /\ Base' = Base /\ ~Fresh' /\ (Fresh <=> job.at = 1)
  BY <1>1, <1>2 DEF Extra, Base, Fresh
<1>5. NumberPipes' = NumberPipes /\ OtherPipes' = OtherPipes
  BY <1>1 DEF NumberPipes, OtherPipes
<1>6. DequeInv'
  <2>1. \A i \in 2..Depth : IsDueOn(slots[i + Extra].in, Base + i - 1)'
    BY <1>1, <1>4, <1>5 DEF DueInv, DequeInv, IsDueOn
  <2>2. Index' # 1 /\ pc' # "batch"
    BY <1>1, <1>3
  <2> QED BY <1>1, <1>4, <1>5, <2>1, <2>2 DEF DueInv, DequeInv
<1>7. BatchInv'
  BY <1>1, <1>2, <1>5 DEF DueInv, BatchInv
<1>8. /\ InputOf \in Nat /\ InputOf <= Len(made)
      /\ \A p \in NumberPipes : InputOf = p <=> job.at = 1 /\ made[p].line + made[p].n = lines
  <2>1. /\ NumberPipes \subseteq 1..Len(made) /\ OtherPipes \subseteq 1..Len(made)
        /\ OtherPipes \cap NumberPipes = {} /\ Len(made) \in Nat
    BY SlotsAreThere, DuesAreNumbers DEF TypeInv, OtherPipes
  <2>2. CASE job.at = 1
    <3>1. Index = 1 /\ IsDueOn(slots[1].in, lines)
      BY <1>1, <1>4, <2>2 DEF DueInv, DequeInv, BatchInv, Base
    <3>2. InputOf = slots[1].in /\ slots[1].in \in NumberPipes \cup {0}
      BY <3>1 DEF InputOf, IsDueOn
    <3>3. InputOf \in Nat /\ InputOf <= Len(made)
      <4>1. \A p \in NumberPipes : p \in Nat /\ p <= Len(made)
        BY <2>1
      <4>2. CASE InputOf = 0
        BY <2>1, <4>2
      <4>3. CASE InputOf \in NumberPipes
        BY <4>1, <4>3
      <4> QED BY <3>2, <4>2, <4>3
    <3> QED BY <2>2, <3>1, <3>2, <3>3 DEF IsDueOn
  <2>3. CASE job.at # 1
    <3>1. InputOf \in OtherPipes
      <4>1. CASE Index = 1
        <5>1. ~Fresh /\ job.left # <<>>
          BY <1>1, <1>4, <2>3, EmptySeq
        <5> QED BY <1>1, <4>1, <5>1 DEF DueInv, DequeInv, InputOf
      <4>2. CASE Index # 1
        BY <1>1, <1>3, <4>2 DEF DueInv, BatchInv, InputOf
      <4> QED BY <4>1, <4>2
    <3> QED BY <2>1, <2>3, <3>1
  <2> QED BY <2>2, <2>3
<1>9. KidsInv'
  <2>1. PICK k : /\ kids' = kids \cup {k}
                 /\ k.in = InputOf /\ k.line = lines /\ k.at = job.at
    <3> DEFINE k == [pid |-> nextPid, line |-> lines, in |-> InputOf, out |-> OutputOf,
                     err |-> ErrorOf, ends |-> EndsOfChild(Head(job.left)), at |-> job.at,
                     last |-> Len(job.left) = 1, wantErr |-> job.err, n |-> job.n,
                     reads |-> Head(job.left).reads,
                     big |-> Head(job.left).big /\ ~Head(job.left).file]
    <3>1. kids' = kids \cup {k}
      BY DEF Fork
    <3>2. k.in = InputOf /\ k.line = lines /\ k.at = job.at
      OBVIOUS
    <3> QED BY <3>1, <3>2
  <2>2. lines \in Nat
    BY DEF TypeInv, TypeOK
  <2>3. InputIsDue'
    BY <1>1, <1>5, <1>8, <2>1 DEF DueInv, KidsInv, InputIsDue, DueLine
  <2> QED BY <1>1, <1>8, <2>1, <2>2, <2>3 DEF DueInv, KidsInv
<1> QED BY <1>6, <1>7, <1>9 DEF DueInv

\* What EndBatch leaves of the deque: the node of the batch is gone if the line goes on.
EndBatchEffect ==
  /\ pc = "wait" /\ pc' = "batch" /\ UNCHANGED <<program, open, lines, made, kids, blank>>
  /\ job'.left = job.left /\ job'.at = job.at /\ job'.n = job.n /\ job'.err = job.err
  /\ job.todo = 0 /\ Base' = Base /\ Extra' = 0
  /\ Extra = (IF job.left # <<>> THEN 1 ELSE 0)
  /\ Len(slots) = Depth + Extra /\ Len(slots') = Depth
  /\ job.left = <<>> => slots' = slots
  /\ \A i \in 1..Depth : slots'[i] = slots[i + Extra]

LEMMA EndBatchPops ==
  ASSUME TypeInv, EndBatch
  PROVE  EndBatchEffect
<1>1. /\ pc = "wait" /\ pc' = "batch" /\ UNCHANGED <<program, open, lines, made, kids, blank>>
      /\ slots' = IF job.left # <<>> THEN Tail(slots) ELSE slots
      /\ job' = [job EXCEPT !.pipes = <<>>]
  BY DEF EndBatch
<1>2. /\ job.left \in Seq(Cmd) /\ slots \in Seq(NodeType) /\ slots # <<>>
      /\ Depth \in Nat \ {0} /\ job.todo = 0
  BY <1>1, SizeAssumption, SlotsAreThere DEF TypeInv, TypeOK, JobInv
<1>3. /\ job'.left = job.left /\ job'.at = job.at /\ job'.n = job.n /\ job'.err = job.err
  BY <1>1 DEF TypeInv, TypeOK
<1>4. /\ Base' = Base /\ Extra' = 0
      /\ Extra = (IF job.left # <<>> THEN 1 ELSE 0)
      /\ Len(slots) = Depth + Extra
  <2>1. job.left # <<>> <=> Len(job.left) > 0
    BY <1>2, EmptySeq, LenProperties
  <2> QED BY <1>1, <1>2, <2>1 DEF Base, Extra, TypeInv, TypeOK
<1>5. Len(slots') = Depth /\ \A i \in 1..Depth : slots'[i] = slots[i + Extra]
  <2>1. CASE job.left = <<>>
    BY <1>1, <1>2, <1>4, <2>1
  <2>2. CASE job.left # <<>>
    <3>1. /\ Len(Tail(slots)) = Depth
          /\ \A i \in 1..Len(Tail(slots)) : Tail(slots)[i] = slots[i + 1]
      BY <1>2, <1>4, <2>2, HeadTailProperties
    <3> QED BY <1>1, <1>4, <2>2, <3>1
  <2> QED BY <2>1, <2>2
<1> QED BY <1>1, <1>2, <1>3, <1>4, <1>5 DEF EndBatchEffect

\* The end of a batch: the node of the rest of the line comes to the front.
LEMMA EndBatchStep ==
  ASSUME TypeInv, TypeInv', DueInv, EndBatch
  PROVE  DueInv'
<1>1. /\ pc = "wait" /\ pc' = "batch" /\ UNCHANGED <<lines, made, kids>>
      /\ job'.left = job.left /\ job'.at = job.at /\ job.at > 1 /\ job.todo = 0
      /\ Depth \in Nat \ {0}
  BY SizeAssumption, EndBatchPops DEF EndBatchEffect, DueInv, BatchInv
<1>2. NumberPipes' = NumberPipes /\ OtherPipes' = OtherPipes
  BY <1>1 DEF NumberPipes, OtherPipes
<1>3. /\ Base' = Base /\ ~Fresh' /\ Extra' = 0
      /\ Extra = IF job.left # <<>> THEN 1 ELSE 0
  BY <1>1, EndBatchPops DEF EndBatchEffect, Fresh
<1>4. \A i \in 1..Depth : slots'[i] = slots[i + Extra]
  BY EndBatchPops DEF EndBatchEffect
<1>5. DequeInv'
  <2>1. ASSUME NEW i \in 2..Depth PROVE IsDueOn(slots[i + Extra].in, Base + i - 1)'
    <3>1. slots'[i + Extra'] = slots[i + Extra]
      BY <1>1, <1>3, <1>4
    <3>2. IsDueOn(slots[i + Extra].in, Base + i - 1)
      BY DEF DueInv, DequeInv
    <3> QED BY <1>1, <1>2, <1>3, <3>1, <3>2 DEF IsDueOn
  <2>2. job.left # <<>> => slots'[1].in \in OtherPipes'
    <3>1. job.left # <<>> => slots'[1] = slots[2] /\ Extra = 1
      BY <1>1, <1>3, <1>4
    <3> QED BY <1>2, <3>1 DEF DueInv, DequeInv
  <2> QED BY <1>1, <1>2, <1>3, <2>1, <2>2 DEF DueInv, DequeInv
<1>6. BatchInv'
  <2>1. job.at > 0
    BY DEF DueInv, BatchInv
  <2> QED BY <1>1, <2>1 DEF BatchInv
<1>7. KidsInv'
  BY <1>1, <1>2 DEF DueInv, KidsInv, InputIsDue, DueLine
<1> QED BY <1>5, <1>6, <1>7 DEF DueInv

LEMMA DueInit == Init => DueInv
<1> SUFFICES ASSUME Init PROVE DueInv
  OBVIOUS
<1>1. /\ NumberPipes = {} /\ pc = "prompt" /\ Extra = 0 /\ Fresh /\ job.at = 1 /\ kids = {}
      /\ \A i \in 1..Depth : slots[i].in = 0
  BY DEF Init, NumberPipes, Extra, Fresh, NoJob, Node
<1>2. \A i \in 2..Depth : slots[i + Extra].in = 0 /\ slots[1].in = 0
  BY <1>1, SizeAssumption
<1>3. slots[1].in = 0
  BY <1>1, SizeAssumption
<1> QED BY <1>1, <1>2, <1>3 DEF DueInv, DequeInv, BatchInv, KidsInv, InputIsDue, IsDueOn

\* The other steps leave the deque as it is, or end the shell.
LEMMA OthersKeepDues ==
  ASSUME TypeInv, DueInv, UNCHANGED <<slots, lines, made, job>>, kids' \subseteq kids,
         \/ pc = "close" /\ pc' = "wait"
         \/ pc = "prompt" /\ pc' = "gone"
         \/ pc' = pc
  PROVE  DueInv'
<1>1. NumberPipes' = NumberPipes /\ OtherPipes' = OtherPipes /\ Index' = Index
      /\ Extra' = Extra /\ Base' = Base /\ Fresh' = Fresh
  BY DEF NumberPipes, OtherPipes, Index, Extra, Base, Fresh
<1>2. DequeInv'
  BY <1>1 DEF DueInv, DequeInv, IsDueOn
<1>3. BatchInv'
  BY <1>1 DEF DueInv, BatchInv
<1>4. KidsInv'
  BY <1>1 DEF DueInv, KidsInv, InputIsDue, DueLine
<1> QED BY <1>2, <1>3, <1>4 DEF DueInv

LEMMA DueStep == TypeInv /\ TypeInv' /\ DueInv /\ [Next]_vars => DueInv'
<1> SUFFICES ASSUME TypeInv, TypeInv', DueInv, [Next]_vars PROVE DueInv'
  OBVIOUS
<1>1. ASSUME NEW l \in Line, StartLine(l) PROVE DueInv'
  BY <1>1, StartLineStep
<1>2. CASE (\E l \in Line : Builtin(l)) \/ EndLine
  <2>1. /\ pc \in {"prompt", "batch"} /\ pc' = "prompt" /\ slots' = Shift(slots)
        /\ made' = made /\ kids' = kids /\ job' \in {job, NoJob}
        /\ \/ pc = "prompt" /\ lines' = lines + 1
           \/ pc = "batch" /\ lines' = lines
    BY <1>2 DEF Builtin, EndLine
  <2>2. Base' = Base + 1 /\ lines \in Nat /\ lines' \in {lines, lines + 1}
    BY <2>1 DEF Base, TypeInv, TypeOK
  <2>3. DequeInv'
    BY <2>1, <2>2, ShiftStep DEF DueInv
  <2>4. BatchInv'
    BY <2>1 DEF DueInv, BatchInv, NoJob
  <2>5. \A k \in kids : k.line <= lines' /\ k.in <= Len(made')
    <3>1. \A k \in kids : k.line \in Nat /\ k.line <= lines /\ k.in <= Len(made)
      BY DEF DueInv, KidsInv, TypeInv, TypeOK, KidType
    <3> QED BY <2>1, <2>2, <3>1
  <2>6. KidsInv'
    BY <2>1, <2>5 DEF DueInv, KidsInv, InputIsDue, DueLine, NumberPipes
  <2> QED BY <2>3, <2>4, <2>6 DEF DueInv
<1>3. CASE StartBatch
  BY <1>3, StartBatchStep
<1>4. CASE Fork
  BY <1>4, ForkStep
<1>5. CASE EndBatch
  BY <1>5, EndBatchStep
<1>6. CASE CloseBatch
  BY <1>6, OthersKeepDues DEF CloseBatch
<1>7. ASSUME NEW l \in Line, Exit(l) PROVE DueInv'
  BY <1>7, OthersKeepDues DEF Exit
<1>8. ASSUME NEW k \in kids, KidExit(k) PROVE DueInv'
  BY <1>8, OthersKeepDues DEF KidExit
<1>9. CASE UNCHANGED vars
  BY <1>9, OthersKeepDues DEF vars
<1>10. \A l \in Lines[program] : l \in Line
  BY LinesAssumption DEF TypeInv, TypeOK
<1> QED
  BY <1>1, <1>2, <1>3, <1>4, <1>5, <1>6, <1>7, <1>8, <1>9, <1>10 DEF Next, ShellStep

\* A number pipe is the input of the first command of the line it is due on and of no other
\* command, for every length of the deque, every batch size and all lines.
THEOREM NumberPipesArriveInTime == Spec => []InputIsDue
<1>1. TypeInv /\ DueInv => InputIsDue
  BY DEF DueInv, KidsInv
<1>2. Spec => [](TypeInv /\ DueInv)
  BY ShellTypeInit, ShellTypeStep, DueInit, DueStep, PTL DEF Spec
<1> QED BY <1>1, <1>2, PTL

-----------------------------------------------------------------------------
\* Every output goes where its line says.

\* The node that holds the output of the current line: the one behind those of its batches.
Target == slots[1 + Extra]

\* The first batch is over, or is about to be left.
Ahead == job.at + (IF Extra = 1 THEN job.todo ELSE 0) > BatchSize

\* The output of the current line, and its error output if the line made the pipe.
LineAim ==
  pc \in {"batch", "fork", "close", "wait"} =>
    /\ job.n = 0 => Target.out = 0
    /\ job.n > 0 => \/ Target.out \in NumberPipes /\ made[Target.out].line + made[Target.out].n = lines + job.n
                    \/ program = "np_simple" /\ Target.out = 0 /\ Ahead
    /\ Target.err # 0 => /\ job.err /\ Target.err = Target.out /\ Target.err \in NumberPipes
                         /\ made[Target.err] = [line |-> lines, n |-> job.n]
    /\ job.err /\ Target.err = 0 /\ Target.out # 0 => made[Target.out].line < lines

\* The error output of a batch that is not the last: npshell sends it into the pipe to the
\* next batch, np_simple leaves it where it was.
BatchAim ==
  Extra = 1 =>
    /\ program = "npshell" => slots[1].err = IF job.err THEN slots[1].out ELSE 0
    /\ program = "np_simple" =>
         /\ Ahead
         /\ slots[1].err # 0 => /\ job.err /\ slots[1].err \in NumberPipes
                                /\ made[slots[1].err] = [line |-> lines, n |-> job.n]

\* The lines to come have no output yet.
LaterAim ==
  /\ \A i \in (2 + Extra)..Len(slots) : slots[i].out = 0 /\ slots[i].err = 0
  /\ pc \in {"prompt", "gone"} => slots[1].out = 0 /\ slots[1].err = 0
  /\ \A i \in 1..Len(slots) : slots[i].wr = slots[i].in

BoundAim ==
  /\ \A p \in 1..Len(made) : made[p].line <= lines
  /\ \A i \in 1..Len(slots) : slots[i].out <= Len(made) /\ slots[i].err <= Len(made)
  /\ \A k \in kids : k.out <= Len(made) /\ k.err <= Len(made)

AimInv == LineAim /\ BatchAim /\ LaterAim /\ BoundAim /\ OutputIsAimed

\* Pipes are only added.
MadeGrows ==
  /\ Len(made') \in Nat /\ Len(made) <= Len(made')
  /\ \A p \in 1..Len(made) : made'[p] = made[p]

LEMMA PipesStay ==
  ASSUME TypeInv, TypeInv', MadeGrows
  PROVE  /\ NumberPipes \subseteq 1..Len(made) /\ NumberPipes \subseteq NumberPipes'
         /\ Len(made) \in Nat /\ DOMAIN made' = 1..Len(made')
<1>1. /\ made \in Seq([line : Nat, n : Nat]) /\ made' \in Seq([line : Nat, n : Nat])
      /\ Len(made) \in Nat /\ DOMAIN made = 1..Len(made) /\ DOMAIN made' = 1..Len(made')
  BY LenProperties DEF TypeInv, TypeOK
<1>2. NumberPipes \subseteq 1..Len(made)
  BY <1>1 DEF NumberPipes
<1>3. 1..Len(made) \subseteq 1..Len(made')
  BY <1>1 DEF MadeGrows
<1> QED BY <1>1, <1>2, <1>3 DEF NumberPipes, MadeGrows

\* The children that run keep their outputs, and what their pipes were made for.
LEMMA KidsKeepAims ==
  ASSUME TypeInv, TypeInv', AimInv, MadeGrows, program' = program,
         NEW k \in kids
  PROVE  /\ k.out <= Len(made') /\ k.err <= Len(made')
         /\ k.last =>
              IF k.n = 0 THEN k.out = 0
              ELSE \/ k.out \in NumberPipes' /\ made'[k.out].line + made'[k.out].n = k.line + k.n
                   \/ program' = "np_simple" /\ k.at > BatchSize /\ k.out = 0
         /\ ~k.wantErr => k.err = 0
         /\ k.wantErr =>
              \/ k.err = k.out
              \/ k.last /\ k.err = 0 /\ k.out # 0 /\ made'[k.out].line < k.line
              \/ /\ program' = "np_simple" /\ ~k.last /\ k.at >= BatchSize
                 /\ k.err # 0 => /\ k.err \in NumberPipes'
                                 /\ made'[k.err] = [line |-> k.line, n |-> k.n]
<1>1. /\ NumberPipes \subseteq 1..Len(made) /\ NumberPipes \subseteq NumberPipes'
      /\ Len(made) \in Nat
  BY PipesStay
<1>2. /\ k.out \in Nat /\ k.err \in Nat
      /\ k.out <= Len(made) /\ k.err <= Len(made)
  BY DEF AimInv, BoundAim, TypeInv, TypeOK, KidType
<1>3. /\ k.out # 0 => k.out \in 1..Len(made)
      /\ k.err # 0 => k.err \in 1..Len(made)
  BY <1>1, <1>2
<1>4. \A p \in NumberPipes : made'[p] = made[p]
  BY <1>1 DEF MadeGrows
<1>5. k.out # 0 => made'[k.out] = made[k.out]
  BY <1>3 DEF MadeGrows
<1>6. k.out <= Len(made') /\ k.err <= Len(made')
  BY <1>1, <1>2 DEF MadeGrows
<1>7. /\ k.last =>
           IF k.n = 0 THEN k.out = 0
           ELSE \/ k.out \in NumberPipes /\ made[k.out].line + made[k.out].n = k.line + k.n
                \/ program = "np_simple" /\ k.at > BatchSize /\ k.out = 0
      /\ ~k.wantErr => k.err = 0
      /\ k.wantErr =>
           \/ k.err = k.out
           \/ k.last /\ k.err = 0 /\ k.out # 0 /\ made[k.out].line < k.line
           \/ /\ program = "np_simple" /\ ~k.last /\ k.at >= BatchSize
              /\ k.err # 0 => /\ k.err \in NumberPipes
                              /\ made[k.err] = [line |-> k.line, n |-> k.n]
  BY DEF AimInv, OutputIsAimed, DueLine
<1>8. k.out \in NumberPipes => k.out \in NumberPipes' /\ made'[k.out] = made[k.out]
  BY <1>1, <1>4
<1>9. k.err \in NumberPipes => k.err \in NumberPipes' /\ made'[k.err] = made[k.err]
  BY <1>1, <1>4
<1>10. k.last =>
         IF k.n = 0 THEN k.out = 0
         ELSE \/ k.out \in NumberPipes' /\ made'[k.out].line + made'[k.out].n = k.line + k.n
              \/ program' = "np_simple" /\ k.at > BatchSize /\ k.out = 0
  BY <1>7, <1>8
<1>11. k.wantErr =>
         \/ k.err = k.out
         \/ k.last /\ k.err = 0 /\ k.out # 0 /\ made'[k.out].line < k.line
         \/ /\ program' = "np_simple" /\ ~k.last /\ k.at >= BatchSize
            /\ k.err # 0 => /\ k.err \in NumberPipes'
                            /\ made'[k.err] = [line |-> k.line, n |-> k.n]
  BY <1>5, <1>7, <1>9
<1> QED BY <1>6, <1>7, <1>10, <1>11

\* A step that starts no command.
LEMMA NoNewAims ==
  ASSUME TypeInv, TypeInv', AimInv, MadeGrows, program' = program, kids' \subseteq kids
  PROVE  OutputIsAimed' /\ \A k \in kids' : k.out <= Len(made') /\ k.err <= Len(made')
BY KidsKeepAims DEF OutputIsAimed, DueLine

LEMMA MadeIsKept ==
  ASSUME TypeInv, made' = made
  PROVE  MadeGrows
BY SlotsAreThere DEF MadeGrows, TypeInv

LEMMA AimInit == Init => AimInv
<1> SUFFICES ASSUME Init PROVE AimInv
  OBVIOUS
<1>1. /\ pc = "prompt" /\ kids = {} /\ Len(made) = 0 /\ Extra = 0 /\ Len(slots) = Depth
      /\ \A i \in 1..Depth : slots[i] = Node
  BY SizeAssumption DEF Init, Extra
<1>2. \A i \in 1..Depth : slots[i].out = 0 /\ slots[i].err = 0 /\ slots[i].wr = slots[i].in
  BY <1>1 DEF Node
<1>3. 1 \in 1..Depth /\ \A i \in (2 + Extra)..Len(slots) : i \in 1..Depth
  BY <1>1, SizeAssumption
<1> QED BY <1>1, <1>2, <1>3 DEF AimInv, LineAim, BatchAim, LaterAim, BoundAim, OutputIsAimed

\* |n: the line's output is the pipe that is due n lines later, new or not.
LEMMA StartLineAims ==
  ASSUME TypeInv, TypeInv', DueInv, AimInv, NEW l \in Line, StartLine(l)
  PROVE  AimInv'
<1>1. /\ pc = "prompt" /\ pc' = "batch" /\ lines' = lines + 1 /\ kids' = kids
      /\ program' = program /\ NumberPipe(l)
      /\ job'.at = 1 /\ job'.n = l.n /\ job'.err = l.err /\ job'.todo = 0
  BY DEF StartLine, NoJob
<1>2. /\ Len(slots) = Depth /\ Depth \in Nat \ {0} /\ lines \in Nat /\ Len(made) \in Nat
      /\ l.n \in 0..(Depth - 1) /\ l.err \in BOOLEAN
      /\ Extra = 0 /\ Extra' = 0 /\ Base = lines + 1 /\ Len(slots') = Len(slots)
  <2>1. Len(slots) = Depth /\ Depth \in Nat \ {0} /\ lines \in Nat
    BY <1>1, SizeAssumption DEF TypeInv, TypeOK
  <2>2. Len(made) \in Nat
    BY SlotsAreThere DEF TypeInv
  <2>3. l.n \in 0..(Depth - 1) /\ l.err \in BOOLEAN
    BY DEF Line
  <2>4. Len(slots') = Len(slots)
    BY <1>1, NumberPipeType DEF TypeInv
  <2> QED BY <1>1, <2>1, <2>2, <2>3, <2>4 DEF Extra, Base
<1>3. MakesPipe(l) \/ JoinsPipe(l)
  BY <1>1, NumberPipeType DEF TypeInv
<1>4. /\ \A i \in 1..Depth : /\ slots[i].out = 0 /\ slots[i].err = 0 /\ slots[i].wr = slots[i].in
                             /\ slots[i].in \in Nat
  <2>1. \A i \in 1..Depth : slots[i] \in NodeType
    BY <1>2, SlotsAreThere DEF TypeInv
  <2>2. \A i \in 1..Depth : i = 1 \/ i \in (2 + Extra)..Len(slots)
    BY <1>2
  <2> QED BY <1>1, <1>2, <2>1, <2>2 DEF AimInv, LaterAim, NodeType
<1>5. 1 \in 1..Depth /\ l.n + 1 \in 1..Depth
  BY <1>2
<1>6. CASE JoinsPipe(l)
  <2>1. /\ made' = made
        /\ \A i \in 1..Depth :
             /\ slots'[i].in = slots[i].in /\ slots'[i].wr = slots[i].wr
             /\ slots'[i].err = 0
             /\ slots'[i].out = IF i = 1 /\ l.n > 0 THEN slots[l.n + 1].in ELSE 0
    BY <1>2, <1>4, <1>5, <1>6 DEF JoinsPipe
  <2>2. MadeGrows /\ NumberPipes' = NumberPipes
    BY <2>1, MadeIsKept DEF NumberPipes
  <2>3. ASSUME l.n > 0
        PROVE  /\ slots'[1].out \in NumberPipes /\ slots'[1].out \in 1..Len(made)
               /\ made[slots'[1].out].line + made[slots'[1].out].n = lines + 1 + l.n
               /\ made[slots'[1].out].line <= lines
    <3>1. l.n + 1 \in 2..Depth /\ l.n + 1 + Extra = l.n + 1 /\ Base + (l.n + 1) - 1 = lines + 1 + l.n
      BY <1>2, <2>3
    <3>2. IsDueOn(slots[l.n + 1].in, lines + 1 + l.n) /\ slots[l.n + 1].in # 0
      BY <1>6, <2>3, <3>1 DEF DueInv, DequeInv, JoinsPipe
    <3>3. slots'[1].out = slots[l.n + 1].in
      BY <1>5, <2>1, <2>3
    <3>4. slots'[1].out \in NumberPipes /\ slots'[1].out \in 1..Len(made)
      BY <3>2, <3>3, DuesAreNumbers DEF IsDueOn, TypeInv
    <3> QED BY <3>2, <3>3, <3>4 DEF IsDueOn, AimInv, BoundAim
  <2>4. slots'[1].err = 0 /\ (l.n = 0 => slots'[1].out = 0)
    BY <1>2, <1>5, <2>1
  <2>5. LineAim'
    <3>1. Target' = slots'[1] /\ Extra' = 0
      BY <1>2 DEF Target
    <3>2. \A p \in NumberPipes : made[p].line \in Nat
      BY DuesAreNumbers DEF TypeInv
    <3>3. l.n = 0 \/ l.n > 0
      BY <1>2
    <3>4. l.n > 0 => made[slots'[1].out].line < lines + 1
      BY <1>2, <2>3, <3>2
    <3> QED BY <1>1, <2>1, <2>2, <2>3, <2>4, <3>1, <3>3, <3>4 DEF LineAim
  <2>6. LaterAim'
    <3>1. \A i \in (2 + Extra')..Len(slots') : i \in 1..Depth /\ i # 1
      BY <1>2
    <3>2. \A i \in (2 + Extra')..Len(slots') : slots'[i].out = 0 /\ slots'[i].err = 0
      BY <2>1, <3>1
    <3>3. \A i \in 1..Depth : slots'[i].wr = slots'[i].in
      BY <1>4, <2>1
    <3>4. 1..Len(slots') = 1..Depth /\ pc' \notin {"prompt", "gone"}
      BY <1>1, <1>2
    <3> QED BY <3>2, <3>3, <3>4 DEF LaterAim
  <2>7. BoundAim'
    <3>1. \A i \in 1..Depth : slots'[i].out <= Len(made) /\ slots'[i].err <= Len(made)
      <4>1. ASSUME NEW i \in 1..Depth
            PROVE  slots'[i].out <= Len(made) /\ slots'[i].err <= Len(made)
        <5>1. slots'[i].err = 0 /\ (i # 1 \/ l.n = 0 => slots'[i].out = 0)
          BY <1>2, <2>1
        <5>2. i = 1 /\ l.n > 0 => slots'[i].out <= Len(made)
          BY <1>2, <2>3
        <5> QED BY <1>2, <5>1, <5>2
      <4> QED BY <4>1
    <3>2. \A p \in 1..Len(made) : made[p].line \in Nat /\ made[p].line <= lines
      <4>1. \A p \in 1..Len(made) : made[p] \in [line : Nat, n : Nat]
        BY ElementOfSeq DEF TypeInv, TypeOK
      <4> QED BY <4>1 DEF AimInv, BoundAim
    <3>3. \A k \in kids' : k.out <= Len(made') /\ k.err <= Len(made')
      BY <1>1, <2>2, NoNewAims
    <3> QED BY <1>1, <1>2, <2>1, <3>1, <3>2, <3>3 DEF BoundAim
  <2>8. OutputIsAimed'
    BY <1>1, <2>2, NoNewAims
  <2> QED BY <1>2, <2>5, <2>6, <2>7, <2>8 DEF AimInv, BatchAim
<1>7. CASE MakesPipe(l)
  <2> DEFINE q == Len(made) + 1
  <2>1. /\ NumberPipes' = NumberPipes \cup {q} /\ Len(made') = q /\ q \in Nat /\ q # 0
        /\ made'[q] = [line |-> lines + 1, n |-> l.n] /\ l.n > 0
        /\ \A p \in 1..Len(made) : made'[p] = made[p]
    <3>1. /\ l.n > 0 /\ Len(made') = Len(made) + 1
          /\ \A p \in 1..Len(made) : made'[p] = made[p]
      BY <1>7 DEF MakesPipe
    <3>2. NumberPipes' = NumberPipes \cup {q} /\ made'[q] = [line |-> lines + 1, n |-> l.n]
      BY <1>7, MakesOne DEF TypeInv
    <3> QED BY <1>2, <3>1, <3>2
  <2>2. \A i \in 1..Depth :
          /\ slots'[i].in = IF i = l.n + 1 THEN q ELSE slots[i].in
          /\ slots'[i].wr = IF i = l.n + 1 THEN q ELSE slots[i].wr
          /\ slots'[i].out = IF i = 1 THEN q ELSE 0
          /\ slots'[i].err = IF i = 1 /\ l.err THEN q ELSE 0
    BY SMTT(20), <1>2, <1>4, <1>7 DEF MakesPipe
  <2>3. MadeGrows
    BY <1>2, <2>1 DEF MadeGrows
  <2>4. made'[q].line + made'[q].n = lines' + l.n
    BY <1>1, <2>1
  <2> HIDE DEF q
  <2>5. LineAim'
    <3>1. /\ Target' = slots'[1] /\ slots'[1].out = q
          /\ slots'[1].err = IF l.err THEN q ELSE 0
      BY <1>2, <1>5, <2>2 DEF Target
    <3> QED BY <1>1, <1>2, <2>1, <2>4, <3>1 DEF LineAim
  <2>6. LaterAim'
    <3>1. \A i \in (2 + Extra')..Len(slots') : i \in 1..Depth /\ i # 1
      BY <1>2
    <3>2. \A i \in (2 + Extra')..Len(slots') : slots'[i].out = 0 /\ slots'[i].err = 0
      BY <2>2, <3>1
    <3>3. \A i \in 1..Depth : slots'[i].wr = slots'[i].in
      BY <1>4, <2>2
    <3>4. 1..Len(slots') = 1..Depth /\ pc' \notin {"prompt", "gone"}
      BY <1>1, <1>2
    <3> QED BY <3>2, <3>3, <3>4 DEF LaterAim
  <2>7. BoundAim'
    <3>1. \A i \in 1..Depth : slots'[i].out <= q /\ slots'[i].err <= q
      BY <2>1, <2>2
    <3>2. \A p \in 1..Len(made) : made[p].line \in Nat /\ made[p].line <= lines
      <4>1. \A p \in 1..Len(made) : made[p] \in [line : Nat, n : Nat]
        BY ElementOfSeq DEF TypeInv, TypeOK
      <4> QED BY <4>1 DEF AimInv, BoundAim
    <3>3. \A k \in kids' : k.out <= Len(made') /\ k.err <= Len(made')
      BY <1>1, <2>3, NoNewAims
    <3>4. ASSUME NEW p \in 1..Len(made') PROVE made'[p].line <= lines'
      <4>1. CASE p = q
        BY <1>1, <1>2, <2>1, <4>1
      <4>2. CASE p # q
        <5>1. p \in 1..Len(made)
          BY <1>2, <2>1, <4>2 DEF q
        <5> QED BY <1>1, <1>2, <2>1, <3>2, <5>1
      <4> QED BY <4>1, <4>2
    <3> QED BY <1>2, <2>1, <3>1, <3>3, <3>4 DEF BoundAim
  <2>8. OutputIsAimed'
    BY <1>1, <2>3, NoNewAims
  <2> QED BY <1>2, <2>5, <2>6, <2>7, <2>8 DEF AimInv, BatchAim
<1> QED BY <1>3, <1>6, <1>7

\* The end of a line: the output of the next one is still to come.
LEMMA ShiftAims ==
  ASSUME TypeInv, TypeInv', AimInv, pc \in {"prompt", "batch"}, pc' = "prompt",
         slots' = Shift(slots), made' = made, kids' = kids, program' = program,
         lines' \in {lines, lines + 1}
  PROVE  AimInv'
<1>1. /\ slots \in Seq(NodeType) /\ slots # <<>> /\ Len(slots) = Depth /\ Depth \in Nat \ {0}
      /\ Extra = 0 /\ Extra' = 0 /\ lines \in Nat /\ Len(made) \in Nat
  BY SMTT(20), SizeAssumption, SlotsAreThere DEF TypeInv, TypeOK, Extra
<1>2. /\ Len(slots') = Depth
      /\ \A i \in 1..Depth : slots'[i] = IF i = Depth THEN Node ELSE slots[i + 1]
  BY <1>1, ShiftMoves
<1>3. ASSUME NEW i \in 1..Depth
      PROVE  slots'[i].out = 0 /\ slots'[i].err = 0 /\ slots'[i].wr = slots'[i].in
  <2>1. CASE i = Depth
    BY <1>2, <2>1 DEF Node
  <2>2. CASE i # Depth
    <3>1. i + 1 \in (2 + Extra)..Len(slots) /\ i + 1 \in 1..Len(slots)
      BY <1>1, <2>2
    <3>2. slots[i + 1].out = 0 /\ slots[i + 1].err = 0 /\ slots[i + 1].wr = slots[i + 1].in
      BY <3>1 DEF AimInv, LaterAim
    <3> QED BY <1>2, <2>2, <3>2
  <2> QED BY <2>1, <2>2
<1>4. LaterAim'
  <2>1. 1 \in 1..Depth /\ \A i \in (2 + Extra')..Len(slots') : i \in 1..Depth
    BY <1>1, <1>2
  <2> QED BY <1>2, <1>3, <2>1 DEF LaterAim
<1>5. BoundAim'
  <2>1. \A p \in 1..Len(made) : made[p].line <= lines'
    <3>1. \A p \in 1..Len(made) : made[p] \in [line : Nat, n : Nat] /\ made[p].line <= lines
      BY ElementOfSeq DEF TypeInv, TypeOK, AimInv, BoundAim
    <3>2. ASSUME NEW p \in 1..Len(made) PROVE made[p].line <= lines'
      <4>1. made[p].line \in Nat /\ made[p].line <= lines
        BY <3>1
      <4> QED BY <1>1, <4>1
    <3> QED BY <3>2
  <2>2. \A i \in 1..Depth : slots'[i].out <= Len(made) /\ slots'[i].err <= Len(made)
    BY <1>1, <1>3
  <2> QED BY <1>2, <2>1, <2>2 DEF AimInv, BoundAim
<1>6. OutputIsAimed'
  BY MadeIsKept, NoNewAims
<1> QED BY <1>1, <1>4, <1>5, <1>6 DEF AimInv, LineAim, BatchAim

\* A line that is split keeps its output in the node behind its batches; np_simple drops it.
LEMMA StartBatchAims ==
  ASSUME TypeInv, TypeInv', DueInv, AimInv, StartBatch
  PROVE  AimInv'
<1> DEFINE k == IF More THEN Size ELSE Size - 1
<1>1. StartBatchEffect /\ Made(k)
  BY StartBatchNodes, StartBatchMakes DEF TypeInv
<1>2. /\ Len(made) \in Nat /\ Size \in Nat \ {0} /\ k \in Nat /\ job.at \in Nat /\ job.at > 0
      /\ BatchSize \in Nat \ {0} /\ Depth \in Nat \ {0} /\ lines \in Nat
  BY <1>1, SizeAssumption, SlotsAreThere
     DEF TypeInv, TypeOK, StartBatchEffect, DueInv, BatchInv
<1>3. MadeGrows /\ Len(made') = Len(made) + k
  BY <1>1, <1>2 DEF MadeGrows, Made
<1>4. /\ NumberPipes' = NumberPipes /\ NumberPipes \subseteq 1..Len(made)
      /\ \A p \in NumberPipes : made'[p] = made[p]
  BY <1>1, <1>2, MadeKeeps DEF TypeInv
<1>5. program \in {"npshell", "np_simple"}
  BY ShellAssumption DEF TypeInv, TypeOK
<1>6. /\ slots[1].out \in Nat /\ slots[1].err \in Nat
      /\ slots[1].out <= Len(made) /\ slots[1].err <= Len(made)
      /\ Target = slots[1] /\ slots[1].wr = slots[1].in
  <2>1. 1 \in 1..Len(slots) /\ slots[1] \in NodeType
    BY <1>1, <1>2, SlotsAreThere DEF StartBatchEffect, TypeInv
  <2> QED BY <1>1, <2>1 DEF AimInv, BoundAim, LaterAim, NodeType, Target, StartBatchEffect
<1>7. made[slots[1].out] = made'[slots[1].out] \/ slots[1].out = 0
  BY <1>2, <1>3, <1>6 DEF MadeGrows
<1> HIDE DEF k
<1>8. /\ OutputIsAimed' /\ \A x \in kids' : x.out <= Len(made') /\ x.err <= Len(made')
      /\ \A p \in 1..Len(made') : made'[p].line <= lines'
      /\ \A i \in 1..Len(slots) : slots[i].out <= Len(made') /\ slots[i].err <= Len(made')
  <2>1. kids' = kids /\ program' = program /\ lines' = lines
    BY <1>1 DEF StartBatchEffect
  <2>2. ASSUME NEW p \in 1..Len(made') PROVE made'[p].line <= lines
    <3>1. CASE p \in 1..Len(made)
      BY <1>3, <3>1 DEF MadeGrows, AimInv, BoundAim
    <3>2. CASE p \notin 1..Len(made)
      <4>1. p \in (Len(made) + 1)..(Len(made) + k)
        BY <1>2, <1>3, <3>2
      <4>2. made'[p] = [line |-> lines, n |-> 0]
        BY <1>1, <4>1 DEF Made
      <4> QED BY <1>2, <4>2
    <3> QED BY <3>1, <3>2
  <2>3. ASSUME NEW i \in 1..Len(slots)
        PROVE  slots[i].out <= Len(made') /\ slots[i].err <= Len(made')
    <3>1. slots[i] \in NodeType /\ slots[i].out <= Len(made) /\ slots[i].err <= Len(made)
      BY SlotsAreThere DEF AimInv, BoundAim, TypeInv
    <3> QED BY <1>2, <1>3, <3>1 DEF NodeType
  <2>4. OutputIsAimed' /\ \A x \in kids' : x.out <= Len(made') /\ x.err <= Len(made')
    BY <1>3, <2>1, NoNewAims
  <2> QED BY <2>1, <2>2, <2>3, <2>4
<1>9. /\ job'.todo = Size /\ job'.at = job.at /\ job'.n = job.n /\ job'.err = job.err
      /\ pc = "batch" /\ pc' = "fork" /\ program' = program /\ lines' = lines
      /\ Extra = 0 /\ Extra' = (IF More THEN 1 ELSE 0)
      /\ Len(slots) = Depth /\ Len(slots') = Depth + Extra'
  BY <1>1 DEF StartBatchEffect
<1>10. LineAim /\ LaterAim
  BY DEF AimInv
<1>11. CASE ~More
  <2>1. slots' = slots /\ Extra' = 0 /\ Target' = Target
    BY <1>1, <1>9, <1>11 DEF StartBatchEffect, Target
  <2>2. Ahead => Ahead'
    BY <1>2, <1>9, <2>1 DEF Ahead
  <2>3. LineAim'
    BY <1>4, <1>6, <1>7, <1>9, <1>10, <2>1, <2>2 DEF LineAim
  <2>4. LaterAim'
    BY <1>9, <1>10, <2>1 DEF LaterAim
  <2> QED BY <1>8, <2>1, <2>3, <2>4 DEF AimInv, BoundAim, BatchAim
<1>12. CASE More
  <2>1. /\ Extra' = 1 /\ Size = BatchSize /\ Ahead' /\ Target' = slots'[2]
        /\ k = Size /\ Len(made) + 1 <= Len(made')
    <3>1. Extra' = 1 /\ Size = BatchSize
      BY <1>9, <1>12 DEF More, Size
    <3>2. k = Size
      BY <1>12 DEF k
    <3> QED BY <1>2, <1>3, <1>9, <3>1, <3>2 DEF Ahead, Target
  <2>2. /\ SplitFront(slots, Len(made) + 1, slots'[1])
        /\ SplitRest(slots, Len(made) + 1, slots'[2])
        /\ \A i \in 2..Depth : slots'[i + 1] = slots[i]
    BY <1>1, <1>12, <2>1 DEF StartBatchEffect
  <2>3. LineAim'
    <3>1. CASE program = "npshell"
      <4>1. Target'.out = Target.out /\ Target'.err = Target.err
        BY <1>6, <2>1, <2>2, <3>1 DEF SplitRest
      <4> QED BY <1>4, <1>6, <1>7, <1>9, <1>10, <2>1, <3>1, <4>1 DEF LineAim
    <3>2. CASE program = "np_simple"
      <4>1. Target'.out = 0 /\ Target'.err = 0
        BY <2>1, <2>2, <3>2 DEF SplitRest
      <4> QED BY <1>9, <2>1, <3>2, <4>1 DEF LineAim
    <3> QED BY <1>5, <3>1, <3>2
  <2>4. BatchAim'
    <3>1. slots[1].err # 0 => /\ job.err /\ slots[1].err \in NumberPipes
                              /\ made[slots[1].err] = [line |-> lines, n |-> job.n]
      BY <1>6, <1>9, <1>10 DEF LineAim
    <3>2. CASE program = "npshell"
      BY <1>9, <2>2, <3>1, <3>2 DEF SplitFront, BatchAim
    <3>3. CASE program = "np_simple"
      <4>1. slots'[1].err = slots[1].err
        BY <2>2, <3>3 DEF SplitFront
      <4> QED BY <1>4, <1>9, <2>1, <3>1, <3>3, <4>1 DEF BatchAim
    <3> QED BY <1>5, <3>2, <3>3
  <2>5. LaterAim'
    <3>1. ASSUME NEW i \in (2 + Extra')..Len(slots')
          PROVE  slots'[i].out = 0 /\ slots'[i].err = 0
      <4>1. i - 1 \in 2..Depth /\ (i - 1) + 1 = i /\ i - 1 \in (2 + Extra)..Len(slots)
        BY <1>2, <1>9, <2>1
      <4>2. slots'[i] = slots[i - 1]
        BY <2>2, <4>1
      <4> QED BY <1>10, <4>1, <4>2 DEF LaterAim
    <3>2. ASSUME NEW i \in 1..Len(slots') PROVE slots'[i].wr = slots'[i].in
      <4>1. CASE i = 1
        BY <1>6, <2>2, <4>1 DEF SplitFront
      <4>2. CASE i = 2
        BY <2>2, <4>2 DEF SplitRest
      <4>3. CASE i \notin {1, 2}
        <5>1. i - 1 \in 2..Depth /\ (i - 1) + 1 = i /\ i - 1 \in 1..Len(slots)
          BY <1>2, <1>9, <2>1, <4>3
        <5>2. slots'[i] = slots[i - 1]
          BY <2>2, <5>1
        <5> QED BY <1>10, <5>1, <5>2 DEF LaterAim
      <4> QED BY <4>1, <4>2, <4>3
    <3> QED BY <1>9, <3>1, <3>2 DEF LaterAim
  <2>6. ASSUME NEW i \in 1..Len(slots')
        PROVE  slots'[i].out <= Len(made') /\ slots'[i].err <= Len(made')
    <3>1. slots[1].out <= Len(made') /\ slots[1].err <= Len(made') /\ 0 <= Len(made')
      BY <1>2, <1>3, <1>6
    <3>2. CASE i = 1
      BY <2>1, <2>2, <3>1, <3>2 DEF SplitFront
    <3>3. CASE i = 2
      BY <1>5, <2>2, <3>1, <3>3 DEF SplitRest
    <3>4. CASE i \notin {1, 2}
      <4>1. i - 1 \in 2..Depth /\ (i - 1) + 1 = i /\ i - 1 \in 1..Len(slots)
        BY <1>2, <1>9, <2>1, <3>4
      <4>2. slots'[i] = slots[i - 1]
        BY <2>2, <4>1
      <4> QED BY <1>8, <4>1, <4>2
    <3> QED BY <3>2, <3>3, <3>4
  <2> QED BY <1>8, <2>3, <2>4, <2>5, <2>6 DEF AimInv, BoundAim
<1> QED BY <1>11, <1>12

\* One command is left to fork: the line is over after it, or goes on with another batch.
LEMMA OneLeft ==
  \A t, u \in Nat : t = 1 /\ t <= u => (u > t <=> u # 1)
OBVIOUS

\* A command gets the output of its place: the next pipe of the batch, or what the front says.
LEMMA ForkAims ==
  ASSUME TypeInv, TypeInv', DueInv, AimInv, Fork
  PROVE  AimInv'
<1>1. /\ pc = "fork" /\ pc' \in {"fork", "close"} /\ job.todo \in 1..Len(job.left)
      /\ job.todo <= Len(job.pipes) + 1 /\ Len(job.left) \in Nat /\ Len(job.pipes) \in Nat
      /\ UNCHANGED <<program, slots, lines, made>>
  BY SlotsAreThere DEF Fork, TypeInv, JobInv
<1>a. job.todo \in Nat /\ 1 <= job.todo /\ job.todo <= Len(job.left) /\ Len(job.left) \in Nat
  BY <1>1
<1>2. /\ job'.todo = job.todo - 1 /\ job'.at = job.at + 1 /\ job'.n = job.n
      /\ job'.err = job.err /\ job.at \in Nat /\ Len(job'.left) = Len(job.left) - 1
  <2>1. job' = [job EXCEPT !.left = Tail(job.left), !.todo = job.todo - 1, !.at = job.at + 1]
    BY DEF Fork
  <2>2. job.left \in Seq(Cmd) /\ job.left # <<>>
    BY <1>1, EmptySeq DEF TypeInv, TypeOK
  <2>3. Len(Tail(job.left)) = Len(job.left) - 1
    BY <2>2, HeadTailProperties
  <2> QED BY <2>1, <2>3 DEF TypeInv, TypeOK
<1>3. Extra' = Extra /\ (Extra = 1 <=> Len(job.left) > job.todo) /\ Extra \in {0, 1}
  BY <1>1, <1>2 DEF Extra
<1>4. Target' = Target /\ (Ahead => Ahead') /\ NumberPipes' = NumberPipes /\ MadeGrows
  <2>1. Target' = Target /\ NumberPipes' = NumberPipes
    BY <1>1, <1>3 DEF Target, NumberPipes
  <2>2. job.todo \in Nat /\ job.at \in Nat /\ BatchSize \in Nat
    BY <1>1, <1>2, SizeAssumption
  <2>3. job'.at + (IF Extra' = 1 THEN job'.todo ELSE 0) =
          job.at + (IF Extra = 1 THEN job.todo ELSE 0) + (IF Extra = 1 THEN 0 ELSE 1)
    BY <1>2, <1>3, <2>2
  <2>4. Ahead => Ahead'
    BY <2>2, <2>3 DEF Ahead
  <2> QED BY <1>1, <2>1, <2>4, MadeIsKept
<1>5. LineAim' /\ BatchAim' /\ LaterAim'
  BY <1>1, <1>2, <1>3, <1>4 DEF AimInv, LineAim, BatchAim, LaterAim
<1>6. PICK x : /\ kids' = kids \cup {x}
               /\ x.out = OutputOf /\ x.err = ErrorOf /\ x.line = lines /\ x.at = job.at
               /\ (x.last <=> Len(job.left) = 1) /\ x.n = job.n /\ x.wantErr = job.err
  <2> DEFINE x == [pid |-> nextPid, line |-> lines, in |-> InputOf, out |-> OutputOf,
                   err |-> ErrorOf, ends |-> EndsOfChild(Head(job.left)), at |-> job.at,
                   last |-> Len(job.left) = 1, wantErr |-> job.err, n |-> job.n,
                   reads |-> Head(job.left).reads,
                   big |-> Head(job.left).big /\ ~Head(job.left).file]
  <2>1. kids' = kids \cup {x}
    BY DEF Fork
  <2>2. /\ x.out = OutputOf /\ x.err = ErrorOf /\ x.line = lines /\ x.at = job.at
        /\ (x.last <=> Len(job.left) = 1) /\ x.n = job.n /\ x.wantErr = job.err
    OBVIOUS
  <2> HIDE DEF x
  <2> QED BY <2>1, <2>2
<1>7. /\ ~Last => OutputOf \in 1..Len(made) /\ ErrorOf = IF job.err THEN OutputOf ELSE 0
      /\ Last => OutputOf = slots[1].out /\ ErrorOf = IF job.err THEN slots[1].err ELSE 0
  <2>1. ~Last => Index \in 1..Len(job.pipes)
    BY <1>1 DEF Last, Index
  <2>2. ~Last => job.pipes[Index] \in 1..Len(made)
    BY <1>1, <2>1 DEF DueInv, BatchInv, OtherPipes
  <2> QED BY <2>2 DEF OutputOf, ErrorOf
<1>8. Len(made) \in Nat /\ slots[1].out <= Len(made) /\ slots[1].err <= Len(made)
  <2>1. 1 \in 1..Len(slots)
    BY <1>1, <1>3, SizeAssumption DEF TypeInv, TypeOK
  <2> QED BY <2>1, SlotsAreThere DEF AimInv, BoundAim, TypeInv
<1>9. x.out <= Len(made) /\ x.err <= Len(made)
  BY <1>6, <1>7, <1>8
<1>10. BoundAim'
  BY <1>1, <1>6, <1>9 DEF AimInv, BoundAim
<1>11. x.last =>
         IF x.n = 0 THEN x.out = 0
         ELSE \/ x.out \in NumberPipes /\ made[x.out].line + made[x.out].n = x.line + x.n
              \/ program = "np_simple" /\ x.at > BatchSize /\ x.out = 0
  <2>1. SUFFICES ASSUME x.last
                 PROVE  IF x.n = 0 THEN x.out = 0
                        ELSE \/ /\ x.out \in NumberPipes
                                /\ made[x.out].line + made[x.out].n = x.line + x.n
                             \/ program = "np_simple" /\ x.at > BatchSize /\ x.out = 0
    OBVIOUS
  <2>2. Last /\ Extra = 0
    <3>1. Len(job.left) = 1
      BY <1>6, <2>1
    <3> QED BY <1>1, <1>3, <3>1 DEF Last
  <2>3. x.out = Target.out /\ (Ahead => x.at > BatchSize)
    BY <1>1, <1>2, <1>6, <1>7, <2>2, SizeAssumption DEF Target, Ahead
  <2>4. job.n = 0 \/ job.n > 0
    BY DEF TypeInv, TypeOK
  <2>5. /\ job.n = 0 => Target.out = 0
        /\ job.n > 0 => \/ /\ Target.out \in NumberPipes
                           /\ made[Target.out].line + made[Target.out].n = lines + job.n
                        \/ program = "np_simple" /\ Target.out = 0 /\ Ahead
    BY <1>1 DEF AimInv, LineAim
  <2> QED BY <1>6, <2>3, <2>4, <2>5
<1>12. (~x.wantErr => x.err = 0) /\ (x.wantErr => x.err = ErrorOf /\ job.err)
  BY <1>6, <1>7
<1>13. x.wantErr =>
         \/ x.err = x.out
         \/ x.last /\ x.err = 0 /\ x.out # 0 /\ made[x.out].line < x.line
         \/ /\ program = "np_simple" /\ ~x.last /\ x.at >= BatchSize
            /\ x.err # 0 => /\ x.err \in NumberPipes
                            /\ made[x.err] = [line |-> x.line, n |-> x.n]
  <2>1. SUFFICES ASSUME x.wantErr, x.err # x.out
                 PROVE  \/ x.last /\ x.err = 0 /\ x.out # 0 /\ made[x.out].line < x.line
                        \/ /\ program = "np_simple" /\ ~x.last /\ x.at >= BatchSize
                           /\ x.err # 0 => /\ x.err \in NumberPipes
                                           /\ made[x.err] = [line |-> x.line, n |-> x.n]
    OBVIOUS
  <2>2. Last /\ job.err /\ x.out = slots[1].out /\ x.err = slots[1].err
    BY <1>6, <1>7, <2>1
  <2>3. CASE Extra = 0
    <3>1. x.last /\ Target = slots[1]
      <4>a. job.todo = 1 /\ ~(Len(job.left) > job.todo)
        BY <1>3, <2>2, <2>3 DEF Last
      <4>1. Len(job.left) = 1
        BY <1>a, <4>a, OneLeft, Zenon
      <4>2. x.last
        BY <1>6, <4>1
      <4> QED BY <2>3, <4>2 DEF Target
    <3>2. /\ Target.err # 0 => Target.err = Target.out
          /\ job.err /\ Target.err = 0 /\ Target.out # 0 => made[Target.out].line < lines
      BY <1>1 DEF AimInv, LineAim
    <3> QED BY <1>6, <2>1, <2>2, <3>1, <3>2
  <2>4. CASE Extra = 1
    <3>1. ~x.last /\ (Ahead => x.at >= BatchSize)
      <4>a. job.todo = 1 /\ Len(job.left) > job.todo
        BY <1>3, <2>2, <2>4 DEF Last
      <4>1. job.todo = 1 /\ Len(job.left) # 1
        BY <1>a, <4>a, OneLeft, Zenon
      <4>2. ~x.last
        BY <1>6, <4>1
      <4>3. x.at = job.at
        BY <1>6
      <4> QED BY <1>2, <2>4, <4>1, <4>2, <4>3, SizeAssumption DEF Ahead
    <3>2. /\ program = "npshell" => slots[1].err = slots[1].out
          /\ program = "np_simple" =>
               /\ Ahead
               /\ slots[1].err # 0 => /\ slots[1].err \in NumberPipes
                                      /\ made[slots[1].err] = [line |-> lines, n |-> job.n]
      BY <2>2, <2>4 DEF AimInv, BatchAim
    <3>3. program \in {"npshell", "np_simple"}
      BY ShellAssumption DEF TypeInv, TypeOK
    <3> QED BY <1>6, <2>1, <2>2, <3>1, <3>2, <3>3
  <2> QED BY <1>3, <2>3, <2>4
<1>14. OutputIsAimed'
  <2>1. ASSUME NEW k \in kids'
        PROVE  /\ k.last =>
                    IF k.n = 0 THEN k.out = 0
                    ELSE \/ k.out \in NumberPipes' /\ made'[k.out].line + made'[k.out].n = k.line + k.n
                         \/ program' = "np_simple" /\ k.at > BatchSize /\ k.out = 0
               /\ ~k.wantErr => k.err = 0
               /\ k.wantErr =>
                    \/ k.err = k.out
                    \/ k.last /\ k.err = 0 /\ k.out # 0 /\ made'[k.out].line < k.line
                    \/ /\ program' = "np_simple" /\ ~k.last /\ k.at >= BatchSize
                       /\ k.err # 0 => /\ k.err \in NumberPipes'
                                       /\ made'[k.err] = [line |-> k.line, n |-> k.n]
    <3>1. CASE k \in kids
      BY <1>1, <1>4, <3>1, KidsKeepAims
    <3>2. CASE k = x
      BY <1>1, <1>4, <1>11, <1>12, <1>13, <3>2
    <3> QED BY <1>6, <3>1, <3>2
  <2> QED BY <2>1 DEF OutputIsAimed, DueLine
<1> QED BY <1>5, <1>10, <1>14 DEF AimInv

\* The end of a batch: the node that comes to the front holds the line's output, or nothing.
LEMMA EndBatchAims ==
  ASSUME TypeInv, TypeInv', AimInv, EndBatch
  PROVE  AimInv'
<1>1. EndBatchEffect /\ Depth \in Nat \ {0}
  BY EndBatchPops, SizeAssumption
<1>2. /\ pc = "wait" /\ pc' = "batch" /\ UNCHANGED <<program, lines, made, kids>>
      /\ job'.at = job.at /\ job'.n = job.n /\ job'.err = job.err /\ job.todo = 0
      /\ Extra' = 0 /\ Extra \in {0, 1} /\ Len(slots) = Depth + Extra /\ Len(slots') = Depth
      /\ \A i \in 1..Depth : slots'[i] = slots[i + Extra]
  BY <1>1 DEF EndBatchEffect
<1>3. Target' = Target /\ (Ahead => Ahead') /\ NumberPipes' = NumberPipes /\ MadeGrows
  <2>1. slots'[1] = slots[1 + Extra]
    BY <1>1, <1>2
  <2>2. Ahead => Ahead'
    <3>1. job.at \in Nat /\ job'.todo \in Nat
      BY DEF TypeInv, TypeOK
    <3> QED BY <1>2, <3>1 DEF Ahead
  <2> QED BY <1>2, <2>1, <2>2, MadeIsKept DEF Target, NumberPipes
<1>4. LineAim'
  BY <1>2, <1>3 DEF AimInv, LineAim
<1>5. LaterAim'
  <2>1. ASSUME NEW i \in (2 + Extra')..Len(slots') PROVE slots'[i].out = 0 /\ slots'[i].err = 0
    <3>1. i \in 1..Depth /\ i + Extra \in (2 + Extra)..Len(slots)
      BY <1>1, <1>2
    <3> QED BY <1>2, <3>1 DEF AimInv, LaterAim
  <2>2. ASSUME NEW i \in 1..Len(slots') PROVE slots'[i].wr = slots'[i].in
    <3>1. i \in 1..Depth /\ i + Extra \in 1..Len(slots)
      BY <1>1, <1>2
    <3> QED BY <1>2, <3>1 DEF AimInv, LaterAim
  <2> QED BY <1>2, <2>1, <2>2 DEF LaterAim
<1>6. BoundAim'
  <2>1. ASSUME NEW i \in 1..Len(slots') PROVE slots'[i].out <= Len(made) /\ slots'[i].err <= Len(made)
    <3>1. i \in 1..Depth /\ i + Extra \in 1..Len(slots)
      BY <1>1, <1>2
    <3> QED BY <1>2, <3>1 DEF AimInv, BoundAim
  <2> QED BY <1>2, <2>1 DEF AimInv, BoundAim
<1>7. OutputIsAimed'
  BY <1>2, <1>3, NoNewAims
<1> QED BY <1>2, <1>4, <1>5, <1>6, <1>7 DEF AimInv, BatchAim

LEMMA OthersKeepAims ==
  ASSUME TypeInv, TypeInv', AimInv, UNCHANGED <<program, slots, lines, made, job>>,
         kids' \subseteq kids,
         \/ pc = "close" /\ pc' = "wait"
         \/ pc = "prompt" /\ pc' = "gone"
         \/ pc' = pc
  PROVE  AimInv'
<1>1. Extra' = Extra /\ Target' = Target /\ (Ahead => Ahead') /\ NumberPipes' = NumberPipes
      /\ MadeGrows
  BY MadeIsKept DEF Extra, Target, Ahead, NumberPipes
<1>2. OutputIsAimed'
  BY <1>1, NoNewAims
<1>3. LineAim' /\ BatchAim'
  BY <1>1 DEF AimInv, LineAim, BatchAim
<1>4. LaterAim' /\ BoundAim'
  BY <1>1 DEF AimInv, LaterAim, BoundAim
<1> QED BY <1>2, <1>3, <1>4 DEF AimInv

LEMMA AimStep == TypeInv /\ TypeInv' /\ DueInv /\ AimInv /\ [Next]_vars => AimInv'
<1> SUFFICES ASSUME TypeInv, TypeInv', DueInv, AimInv, [Next]_vars PROVE AimInv'
  OBVIOUS
<1>1. ASSUME NEW l \in Line, StartLine(l) PROVE AimInv'
  BY <1>1, StartLineAims
<1>2. CASE (\E l \in Line : Builtin(l)) \/ EndLine
  BY <1>2, ShiftAims DEF Builtin, EndLine
<1>3. CASE StartBatch
  BY <1>3, StartBatchAims
<1>4. CASE Fork
  BY <1>4, ForkAims
<1>5. CASE EndBatch
  BY <1>5, EndBatchAims
<1>6. CASE CloseBatch
  BY <1>6, OthersKeepAims DEF CloseBatch
<1>7. ASSUME NEW l \in Line, Exit(l) PROVE AimInv'
  BY <1>7, OthersKeepAims DEF Exit
<1>8. ASSUME NEW k \in kids, KidExit(k) PROVE AimInv'
  BY <1>8, OthersKeepAims DEF KidExit
<1>9. CASE UNCHANGED vars
  BY <1>9, OthersKeepAims DEF vars
<1>10. \A l \in Lines[program] : l \in Line
  BY LinesAssumption DEF TypeInv, TypeOK
<1> QED
  BY <1>1, <1>2, <1>3, <1>4, <1>5, <1>6, <1>7, <1>8, <1>9, <1>10 DEF Next, ShellStep

\* Where the output and the error output of every command go: to the line its |n or !n names
\* or to the next command, with the exceptions that splitting and joining make, for every
\* length of the deque, every batch size and all lines.
THEOREM OutputsGoWhereTheyShould == Spec => []OutputIsAimed
<1>1. AimInv => OutputIsAimed
  BY DEF AimInv
<1>2. Spec => [](TypeInv /\ DueInv /\ AimInv)
  BY ShellTypeInit, ShellTypeStep, DueInit, DueStep, AimInit, AimStep, PTL DEF Spec
<1> QED BY <1>1, <1>2, PTL

-----------------------------------------------------------------------------
\* What the shell has open.

LEMMA EndsOfSets ==
  /\ \A A, B : Ends(A \cup B) = Ends(A) \cup Ends(B)
  /\ \A A, B : Ends(A \ B) = Ends(A) \ Ends(B)
  /\ \A x : Ends({x}) = {<<x, "r">>, <<x, "w">>}
BY DEF Ends

\* The pipes due on lines that started no command.
Leaked == {p \in NumberPipes : made[p].line + made[p].n \in blank}

\* The first command of the batch has been forked, and with it the input was closed.
Consumed ==
  \/ pc \in {"close", "wait"}
  \/ pc = "fork" /\ Index > 1
  \/ pc = "batch" /\ job.left = <<>> /\ job.at > 1

\* The pipes that nodes of s have as their inputs, from the a-th node on.
InputsFrom(a, s) == {s[i].in : i \in a..Len(s)} \ {0}

Live == InputsFrom(IF Consumed THEN 2 ELSE 1, slots)

BatchOpen == IF pc \in {"fork", "close"} THEN BatchPipes ELSE {}

\* The shell holds both ends of the inputs in the deque, of the leaked pipes and of those
\* between the commands of a batch.
OpenInv == pc # "gone" => open = Ends(Live \cup Leaked \cup BatchOpen)

\* Pipes are numbered as they are made: first the one to the next batch, then the others.
OrderInv ==
  /\ \A i \in 1..Len(slots) : slots[i].in <= Len(made)
  /\ pc \in {"fork", "close"} =>
       /\ BatchPipes \subseteq OtherPipes
       /\ \A x \in BatchPipes : x > slots[1].in /\ (Extra = 1 => x > slots[2].in)
  /\ pc = "fork" /\ Extra = 1 => slots[2].in > slots[1].in

BlankInv ==
  /\ \A d \in blank : d <= lines
  /\ \/ pc \in {"fork", "close", "wait"}
     \/ pc = "batch" /\ (job.left # <<>> \/ job.at > 1)
     => lines \notin blank
  /\ pc = "batch" /\ job.at = 1 /\ job.left = <<>> => lines \in blank

CountInv == OpenInv /\ OrderInv /\ BlankInv

\* Behind the front there are number pipes only, or the pipe to the next batch.
LEMMA NodesBehind ==
  ASSUME TypeInv, DueInv, NEW i \in 2..Len(slots)
  PROVE  \/ Extra = 1 /\ i = 2 /\ slots[i].in \in OtherPipes
         \/ \E d \in Nat : d > Base /\ IsDueOn(slots[i].in, d)
<1>1. Depth \in Nat \ {0} /\ Extra \in {0, 1} /\ Base \in Nat /\ Len(slots) = Depth + Extra
  BY SizeAssumption DEF TypeInv, TypeOK, Extra, Base
<1>2. CASE Extra = 1 /\ i = 2
  BY <1>2 DEF DueInv, DequeInv
<1>3. CASE ~(Extra = 1 /\ i = 2)
  <2> DEFINE j == i - Extra
  <2>1. j \in 2..Depth /\ j + Extra = i /\ Base + j - 1 \in Nat /\ Base + j - 1 > Base
    BY <1>1, <1>3
  <2>2. IsDueOn(slots[j + Extra].in, Base + j - 1)
    BY <2>1 DEF DueInv, DequeInv
  <2> QED BY <2>1, <2>2
<1> QED BY <1>2, <1>3

\* The input of a batch is closed once: no other node, no pipe of the batch and no leaked
\* pipe is the same.
LEMMA FrontIsAlone ==
  ASSUME TypeInv, DueInv, CountInv, pc = "fork", Index = 1, slots[1].in # 0
  PROVE  /\ slots[1].in \notin InputsFrom(2, slots)
         /\ slots[1].in \notin Leaked /\ slots[1].in \notin BatchPipes
<1>1. /\ Base = lines /\ lines \in Nat /\ OtherPipes \cap NumberPipes = {} /\ slots[1].in \in Nat
      /\ job.left # <<>> /\ lines \notin blank /\ 0 \notin NumberPipes /\ 0 \notin OtherPipes
  <2>1. job.left # <<>>
    <3>1. job.todo \in 1..Len(job.left) /\ Len(job.left) \in Nat
      BY SlotsAreThere DEF TypeInv, JobInv
    <3> QED BY <3>1, EmptySeq
  <2>2. slots[1].in \in Nat
    BY SlotsAreThere DEF TypeInv, NodeType
  <2>3. 0 \notin NumberPipes
    BY DuesAreNumbers DEF TypeInv
  <2> QED BY <2>1, <2>2, <2>3 DEF Base, OtherPipes, TypeInv, TypeOK, CountInv, BlankInv
<1>2. \A x \in BatchPipes : x \in OtherPipes /\ x > slots[1].in
  BY DEF CountInv, OrderInv
<1>3. slots[1].in \notin BatchPipes
  BY <1>1, <1>2
<1>4. CASE Fresh
  <2>1. slots[1].in \in NumberPipes /\ made[slots[1].in].line + made[slots[1].in].n = lines
    BY <1>1, <1>4 DEF DueInv, DequeInv, IsDueOn
  <2>2. ASSUME NEW i \in 2..Len(slots) PROVE slots[i].in # slots[1].in
    <3>1. CASE slots[i].in \in OtherPipes
      BY <1>1, <2>1, <3>1
    <3>2. CASE \E d \in Nat : d > Base /\ IsDueOn(slots[i].in, d)
      <4>1. PICK d \in Nat : d > lines /\ IsDueOn(slots[i].in, d)
        BY <1>1, <3>2
      <4>2. slots[i].in = slots[1].in <=> made[slots[1].in].line + made[slots[1].in].n = d
        BY <2>1, <4>1 DEF IsDueOn
      <4> QED BY <1>1, <2>1, <4>1, <4>2
    <3> QED BY <3>1, <3>2, NodesBehind
  <2>3. slots[1].in \notin Leaked
    BY <1>1, <2>1 DEF Leaked
  <2> QED BY <1>3, <2>2, <2>3 DEF InputsFrom
<1>5. CASE ~Fresh
  <2>1. slots[1].in \in OtherPipes
    BY <1>1, <1>5 DEF DueInv, DequeInv
  <2>2. ASSUME NEW i \in 2..Len(slots) PROVE slots[i].in # slots[1].in
    <3>1. CASE Extra = 1 /\ i = 2
      BY <1>1, <3>1 DEF CountInv, OrderInv
    <3>2. CASE \E d \in Nat : d > Base /\ IsDueOn(slots[i].in, d)
      BY <1>1, <2>1, <3>2 DEF IsDueOn
    <3> QED BY <3>1, <3>2, NodesBehind
  <2>3. slots[1].in \notin Leaked
    BY <1>1, <2>1 DEF Leaked
  <2> QED BY <1>3, <2>2, <2>3 DEF InputsFrom
<1> QED BY <1>4, <1>5

\* The pipes of a batch are closed when it has been forked, and no others.
LEMMA BatchIsApart ==
  ASSUME TypeInv, DueInv, CountInv, pc = "close"
  PROVE  BatchPipes \cap (Live \cup Leaked) = {}
<1>1. /\ OtherPipes \cap NumberPipes = {} /\ Consumed /\ 0 \notin OtherPipes
      /\ \A x \in BatchPipes : x \in OtherPipes /\ x \in Nat
  BY DEF OtherPipes, Consumed, CountInv, OrderInv
<1>2. ASSUME NEW i \in 2..Len(slots) PROVE slots[i].in \notin BatchPipes
  <2>1. CASE Extra = 1 /\ i = 2 /\ slots[i].in \in OtherPipes
    <3>1. slots[i].in \in Nat
      BY <2>1 DEF OtherPipes
    <3> QED BY <1>1, <2>1, <3>1 DEF CountInv, OrderInv
  <2>2. CASE \E d \in Nat : d > Base /\ IsDueOn(slots[i].in, d)
    BY <1>1, <2>2 DEF IsDueOn
  <2> QED BY <2>1, <2>2, NodesBehind
<1> QED BY <1>1, <1>2 DEF Live, InputsFrom, Leaked

LEMMA CountInit == Init => CountInv
<1> SUFFICES ASSUME Init PROVE CountInv
  OBVIOUS
<1>1. /\ pc = "prompt" /\ open = {} /\ blank = {} /\ Len(made) = 0 /\ NumberPipes = {}
      /\ Len(slots) = Depth /\ \A i \in 1..Depth : slots[i].in = 0
  BY SizeAssumption DEF Init, Node, NumberPipes
<1>2. Live = {} /\ Leaked = {} /\ BatchOpen = {}
  BY <1>1 DEF Live, Consumed, InputsFrom, Leaked, BatchOpen
<1> QED BY <1>1, <1>2 DEF CountInv, OpenInv, OrderInv, BlankInv, Ends

\* A line at the prompt: its number pipe is opened, and if it starts no command, what it was
\* to read will not be closed any more.
LEMMA StartLineCounts ==
  ASSUME TypeInv, TypeInv', DueInv, CountInv, NEW l \in Line, StartLine(l)
  PROVE  CountInv'
<1>1. /\ pc = "prompt" /\ pc' = "batch" /\ lines' = lines + 1 /\ NumberPipe(l)
      /\ blank' = (IF l.cmds = <<>> THEN blank \cup {lines + 1} ELSE blank)
      /\ job'.at = 1 /\ job'.left = l.cmds
  BY DEF StartLine, NoJob
<1>2. /\ Len(slots) = Depth /\ Depth \in Nat \ {0} /\ lines \in Nat /\ Len(made) \in Nat
      /\ l.n \in 0..(Depth - 1) /\ Len(slots') = Len(slots) /\ Base = lines + 1
      /\ \A i \in 1..Depth : slots[i].in \in Nat /\ slots[i].in <= Len(made)
  <2>1. Len(slots) = Depth /\ Depth \in Nat \ {0} /\ lines \in Nat /\ Base = lines + 1
    BY <1>1, SizeAssumption DEF TypeInv, TypeOK, Base
  <2>2. Len(made) \in Nat /\ \A i \in 1..Depth : slots[i].in \in Nat
    BY <2>1, SlotsAreThere DEF TypeInv, NodeType
  <2>3. l.n \in 0..(Depth - 1)
    BY DEF Line
  <2>4. Len(slots') = Len(slots)
    BY <1>1, NumberPipeType DEF TypeInv
  <2> QED BY <2>1, <2>2, <2>3, <2>4 DEF CountInv, OrderInv
<1>3. \A d \in blank : d \in Nat /\ d <= lines
  BY DEF CountInv, BlankInv, TypeInv, TypeOK
<1>4. /\ Live = InputsFrom(1, slots) /\ Live' = InputsFrom(1, slots')
      /\ BatchOpen = {} /\ BatchOpen' = {}
  BY <1>1 DEF Live, Consumed, BatchOpen
<1>5. open = Ends(Live \cup Leaked)
  BY <1>1, <1>4 DEF CountInv, OpenInv
<1>6. BlankInv'
  BY <1>1, <1>2, <1>3 DEF BlankInv
<1>7. ASSUME NEW p \in NumberPipes, made[p].line + made[p].n = lines + 1
      PROVE  p \in Live
  <2>1. IsDueOn(slots[1].in, lines + 1)
    BY <1>1, <1>2 DEF DueInv, DequeInv, Fresh
  <2>2. slots[1].in = p /\ p # 0 /\ 1 \in 1..Len(slots)
    BY <1>2, <1>7, <2>1, DuesAreNumbers DEF IsDueOn, TypeInv
  <2> QED BY <1>4, <2>2 DEF InputsFrom
<1>8. MakesPipe(l) \/ JoinsPipe(l)
  BY <1>1, NumberPipeType DEF TypeInv
<1>9. CASE JoinsPipe(l)
  <2>1. made' = made /\ open' = open /\ \A i \in 1..Depth : slots'[i].in = slots[i].in
    BY <1>2, <1>9 DEF JoinsPipe
  <2>2. Live' = Live
    BY <1>2, <1>4, <2>1 DEF InputsFrom
  <2>3. Leaked \subseteq Leaked' /\ Leaked' \subseteq Live \cup Leaked
    <3>1. NumberPipes' = NumberPipes
      BY <2>1 DEF NumberPipes
    <3>2. Leaked \subseteq Leaked'
      BY <1>1, <2>1, <3>1 DEF Leaked
    <3>3. ASSUME NEW p \in Leaked' PROVE p \in Live \cup Leaked
      <4>1. p \in NumberPipes /\ made[p].line + made[p].n \in blank \cup {lines + 1}
        BY <1>1, <2>1, <3>1 DEF Leaked
      <4> QED BY <1>7, <4>1 DEF Leaked
    <3> QED BY <3>2, <3>3
  <2>4. Live' \cup Leaked' = Live \cup Leaked
    BY <2>2, <2>3
  <2>5. OpenInv'
    BY <1>4, <1>5, <2>1, <2>4 DEF OpenInv
  <2>6. OrderInv'
    BY <1>1, <1>2, <2>1 DEF OrderInv
  <2> QED BY <1>6, <2>5, <2>6 DEF CountInv
<1>10. CASE MakesPipe(l)
  <2> DEFINE q == Len(made) + 1
  <2>1. /\ NumberPipes' = NumberPipes \cup {q} /\ Len(made') = q /\ q \in Nat /\ q # 0
        /\ made'[q] = [line |-> lines + 1, n |-> l.n] /\ l.n > 0 /\ q \notin NumberPipes
        /\ \A p \in NumberPipes : made'[p] = made[p]
    <3>1. /\ NumberPipes' = NumberPipes \cup {q} /\ NumberPipes \subseteq 1..Len(made)
          /\ \A p \in NumberPipes : made'[p] = made[p]
          /\ made'[q] = [line |-> lines + 1, n |-> l.n]
      BY <1>10, MakesOne DEF TypeInv
    <3> QED BY <1>2, <1>10, <3>1 DEF MakesPipe
  <2>2. /\ \A i \in 1..Depth : slots'[i].in = IF i = l.n + 1 THEN q ELSE slots[i].in
        /\ slots[l.n + 1].in = 0 /\ l.n + 1 \in 1..Depth
        /\ open' = open \cup Ends({q})
    BY <1>2, <1>10 DEF MakesPipe
  <2>a. \A i \in 1..Depth : slots'[i].in <= q
    BY <1>2, <2>2
  <2>3. made'[q].line + made'[q].n = lines + 1 + l.n
    BY <2>1
  <2> HIDE DEF q
  <2>4. Live' = Live \cup {q}
    <3>1. ASSUME NEW x \in Live' PROVE x \in Live \cup {q}
      <4>1. PICK i \in 1..Depth : x = slots'[i].in /\ x # 0
        BY <1>2, <1>4 DEF InputsFrom
      <4> QED BY <1>2, <1>4, <2>2, <4>1 DEF InputsFrom
    <3>2. ASSUME NEW x \in Live PROVE x \in Live'
      <4>1. PICK i \in 1..Depth : x = slots[i].in /\ x # 0
        BY <1>2, <1>4 DEF InputsFrom
      <4>2. i # l.n + 1 /\ slots'[i].in = x
        BY <2>2, <4>1
      <4> QED BY <1>2, <1>4, <4>1, <4>2 DEF InputsFrom
    <3>3. q \in Live'
      BY <1>2, <1>4, <2>1, <2>2 DEF InputsFrom
    <3> QED BY <3>1, <3>2, <3>3
  <2>5. Leaked \subseteq Leaked' /\ Leaked' \subseteq Live \cup Leaked
    <3>2. Leaked \subseteq Leaked'
      BY <1>1, <2>1 DEF Leaked
    <3>3. ASSUME NEW p \in Leaked' PROVE p \in Live \cup Leaked
      <4>1. p \in NumberPipes' /\ made'[p].line + made'[p].n \in blank \cup {lines + 1}
        BY <1>1 DEF Leaked
      <4>2. p # q
        <5>1. lines + 1 + l.n \notin blank \cup {lines + 1}
          BY <1>2, <1>3, <2>1
        <5> QED BY <2>3, <4>1, <5>1
      <4>3. p \in NumberPipes /\ made[p].line + made[p].n \in blank \cup {lines + 1}
        BY <2>1, <4>1, <4>2
      <4> QED BY <1>7, <4>3 DEF Leaked
    <3> QED BY <3>2, <3>3
  <2>6. Live' \cup Leaked' = (Live \cup Leaked) \cup {q}
    BY <2>4, <2>5
  <2>7. OpenInv'
    BY <1>4, <1>5, <2>2, <2>6, EndsOfSets DEF OpenInv
  <2>8. OrderInv'
    BY <1>1, <1>2, <2>1, <2>a DEF OrderInv
  <2> QED BY <1>6, <2>7, <2>8 DEF CountInv
<1> QED BY <1>8, <1>9, <1>10

\* The front leaves the deque: what it was to be read from is closed, or leaked.
LEMMA ShiftCounts ==
  ASSUME TypeInv, TypeInv', DueInv, CountInv,
         \/ \E l \in Line : Builtin(l)
         \/ EndLine
  PROVE  CountInv'
<1>1. /\ pc \in {"prompt", "batch"} /\ pc' = "prompt" /\ slots' = Shift(slots)
      /\ UNCHANGED <<open, made>>
      /\ \/ pc = "prompt" /\ lines' = lines + 1 /\ blank' = blank \cup {lines + 1}
         \/ pc = "batch" /\ job.left = <<>> /\ lines' = lines /\ blank' = blank
  BY DEF Builtin, EndLine
<1>2. /\ slots \in Seq(NodeType) /\ slots # <<>> /\ Len(slots) = Depth /\ Depth \in Nat \ {0}
      /\ lines \in Nat /\ Len(made) \in Nat
  BY <1>1, SizeAssumption, SlotsAreThere DEF TypeInv, TypeOK
<1>3. /\ Len(slots') = Depth
      /\ \A i \in 1..Depth : slots'[i] = IF i = Depth THEN Node ELSE slots[i + 1]
  BY <1>1, <1>2, ShiftMoves
<1>4. /\ Live' = InputsFrom(1, slots') /\ BatchOpen = {} /\ BatchOpen' = {}
      /\ Live = InputsFrom(IF Consumed THEN 2 ELSE 1, slots)
  BY <1>1 DEF Live, Consumed, BatchOpen
<1>5. Live' = InputsFrom(2, slots)
  <2>1. ASSUME NEW x \in Live' PROVE x \in InputsFrom(2, slots)
    <3>1. PICK i \in 1..Depth : x = slots'[i].in /\ x # 0
      BY <1>3, <1>4 DEF InputsFrom
    <3>2. i # Depth /\ slots'[i] = slots[i + 1]
      BY <1>3, <3>1 DEF Node
    <3>3. i + 1 \in 2..Len(slots)
      BY <1>2, <3>1, <3>2
    <3> QED BY <3>1, <3>2, <3>3 DEF InputsFrom
  <2>2. ASSUME NEW x \in InputsFrom(2, slots) PROVE x \in Live'
    <3>1. PICK i \in 2..Depth : x = slots[i].in /\ x # 0
      BY <1>2 DEF InputsFrom
    <3>2. i - 1 \in 1..Depth /\ i - 1 # Depth /\ (i - 1) + 1 = i
      BY <1>2, <3>1
    <3>3. slots'[i - 1] = slots[i]
      BY <1>3, <3>2
    <3> QED BY <1>3, <1>4, <3>1, <3>2, <3>3 DEF InputsFrom
  <2> QED BY <2>1, <2>2
<1>6. InputsFrom(1, slots) = InputsFrom(2, slots) \cup ({slots[1].in} \ {0})
  <2>1. 1..Len(slots) = {1} \cup 2..Len(slots)
    BY <1>2
  <2> QED BY <2>1 DEF InputsFrom
<1>7. NumberPipes' = NumberPipes /\ \A d \in blank : d \in Nat /\ d <= lines
  BY <1>1 DEF NumberPipes, CountInv, BlankInv, TypeInv, TypeOK
<1>8. Live' \cup Leaked' = Live \cup Leaked
  <2>1. CASE pc = "prompt"
    <3>1. IsDueOn(slots[1].in, lines + 1) /\ ~Consumed
      BY <1>2, <2>1 DEF DueInv, DequeInv, Fresh, Base, Consumed
    <3>2. Leaked' = Leaked \cup {p \in NumberPipes : made[p].line + made[p].n = lines + 1}
      BY <1>1, <1>7, <2>1 DEF Leaked
    <3>3. {p \in NumberPipes : made[p].line + made[p].n = lines + 1} = {slots[1].in} \ {0}
      <4>1. 0 \notin NumberPipes
        BY DuesAreNumbers DEF TypeInv
      <4> QED BY <3>1, <4>1 DEF IsDueOn
    <3> QED BY <1>4, <1>5, <1>6, <3>1, <3>2, <3>3
  <2>2. CASE pc = "batch" /\ job.at > 1
    <3>1. Consumed /\ Leaked' = Leaked
      BY <1>1, <1>7, <2>2 DEF Consumed, Leaked
    <3> QED BY <1>4, <1>5, <3>1
  <2>3. CASE pc = "batch" /\ ~(job.at > 1)
    <3>1. job.at = 1
      BY SMTT(20), <2>3 DEF TypeInv, TypeOK, DueInv, BatchInv
    <3>2. IsDueOn(slots[1].in, lines) /\ lines \in blank /\ ~Consumed
      BY <1>1, <2>3, <3>1 DEF DueInv, DequeInv, Fresh, Base, CountInv, BlankInv, Consumed
    <3>3. Leaked' = Leaked /\ {slots[1].in} \ {0} \subseteq Leaked
      BY <1>1, <1>7, <2>3, <3>2 DEF Leaked, IsDueOn
    <3> QED BY <1>4, <1>5, <1>6, <3>2, <3>3
  <2> QED BY <1>1, <2>1, <2>2, <2>3
<1>9. OpenInv'
  BY <1>1, <1>4, <1>8 DEF CountInv, OpenInv
<1>10. OrderInv'
  <2>1. ASSUME NEW i \in 1..Depth PROVE slots'[i].in <= Len(made)
    <3>1. CASE i = Depth
      BY <1>2, <1>3, <3>1 DEF Node
    <3>2. CASE i # Depth
      <4>1. i + 1 \in 1..Len(slots)
        BY <1>2, <3>2
      <4> QED BY <1>3, <3>2, <4>1 DEF CountInv, OrderInv
    <3> QED BY <3>1, <3>2
  <2> QED BY <1>1, <1>3, <2>1 DEF OrderInv
<1>11. BlankInv'
  BY <1>1, <1>2, <1>7 DEF BlankInv
<1> QED BY <1>9, <1>10, <1>11 DEF CountInv

\* The pipes of StartBatch: the one to the next batch, if there is one, then the others.
LEMMA StartBatchOpens ==
  ASSUME TypeInv, StartBatch
  PROVE  /\ open' = open \cup Ends((Len(made) + 1)..Len(made'))
         /\ BatchPipes' = (IF More THEN Len(made) + 2 ELSE Len(made) + 1)..Len(made')
         /\ Len(made') \in Nat /\ Len(made') >= Len(made) /\ (More => Len(made') > Len(made))
<1> DEFINE p == Len(made) + 1
           k == IF More THEN Size ELSE Size - 1
           from == IF More THEN p ELSE p - 1
           new == [i \in 1..(Size - 1) |-> from + i]
<1>1. Len(made) \in Nat /\ Size \in Nat /\ Size > 0
  BY SizeType, SlotsAreThere DEF StartBatch, TypeInv
<1>2. Len(made') = Len(made) + k
  BY StartBatchMakes DEF Made, TypeInv
<1>3. /\ open' = open \cup Ends(p..(from + Size - 1))
      /\ job' = [job EXCEPT !.pipes = new, !.todo = Size]
  BY DEF StartBatch
<1>4. job'.pipes = new /\ DOMAIN new = 1..(Size - 1)
  BY <1>3 DEF TypeInv, TypeOK
<1>5. BatchPipes' = {new[i] : i \in 1..(Size - 1)}
  <2>1. BatchPipes' = {job'.pipes[i] : i \in DOMAIN job'.pipes}
    BY DEF BatchPipes
  <2> HIDE DEF new
  <2> QED BY <1>4, <2>1
<1>6. /\ from \in Nat /\ from + Size - 1 = Len(made')
      /\ Len(made') \in Nat /\ Len(made') >= Len(made) /\ (More => Len(made') > Len(made))
      /\ from + 1 = IF More THEN Len(made) + 2 ELSE Len(made) + 1
  <2>1. CASE More
    BY <1>1, <1>2, <2>1
  <2>2. CASE ~More
    BY <1>1, <1>2, <2>2
  <2> QED BY <2>1, <2>2
<1>7. {new[i] : i \in 1..(Size - 1)} = (from + 1)..Len(made')
  <2> HIDE DEF from
  <2>1. ASSUME NEW x \in (from + 1)..Len(made') PROVE x \in {new[i] : i \in 1..(Size - 1)}
    <3>1. x - from \in 1..(Size - 1) /\ from + (x - from) = x
      BY <1>1, <1>6
    <3> QED BY <3>1
  <2>2. ASSUME NEW i \in 1..(Size - 1) PROVE new[i] \in (from + 1)..Len(made')
    BY <1>1, <1>6
  <2> QED BY <2>1, <2>2
<1> QED BY <1>3, <1>5, <1>6, <1>7

LEMMA StartBatchCounts ==
  ASSUME TypeInv, TypeInv', DueInv, CountInv, StartBatch
  PROVE  CountInv'
<1> DEFINE k == IF More THEN Size ELSE Size - 1
<1>1. StartBatchEffect /\ Made(k)
  BY StartBatchNodes, StartBatchMakes DEF TypeInv
<1>2. /\ Len(made) \in Nat /\ Size \in Nat \ {0} /\ k \in Nat /\ Depth \in Nat \ {0}
  BY <1>1, SizeAssumption, SlotsAreThere DEF TypeInv, StartBatchEffect
<1>3. /\ NumberPipes' = NumberPipes /\ NumberPipes \subseteq 1..Len(made)
      /\ (Len(made) + 1)..(Len(made) + k) \subseteq OtherPipes'
      /\ \A p \in NumberPipes : made'[p] = made[p]
      /\ Len(made') = Len(made) + k
  BY <1>1, <1>2, MadeKeeps DEF TypeInv, Made
<1> HIDE DEF k
<1>4. /\ open' = open \cup Ends((Len(made) + 1)..Len(made'))
      /\ BatchPipes' = (IF More THEN Len(made) + 2 ELSE Len(made) + 1)..Len(made')
      /\ Len(made') \in Nat /\ Len(made') >= Len(made) /\ (More => Len(made') > Len(made))
  BY StartBatchOpens
<1>5. /\ pc = "batch" /\ pc' = "fork" /\ UNCHANGED <<lines, blank>>
      /\ job.left # <<>> /\ job'.at = job.at /\ Extra = 0 /\ Extra' = (IF More THEN 1 ELSE 0)
      /\ Len(slots) = Depth /\ Len(slots') = Depth + Extra'
      /\ slots'[1].in = slots[1].in
      /\ ~More => slots' = slots
      /\ More => slots'[2].in = Len(made) + 1
      /\ \A i \in 2..Depth : slots'[i + Extra'] = slots[i]
  BY <1>1 DEF StartBatchEffect, SplitRest
<1>6. Index' = 1
  <2>1. job'.todo = Size /\ Len(job'.pipes) = Size - 1
    BY <1>1, StartBatchMakes DEF StartBatchEffect, TypeInv
  <2> QED BY <1>2, <2>1 DEF Index
<1>7. /\ Live = InputsFrom(1, slots) /\ Live' = InputsFrom(1, slots')
      /\ BatchOpen = {} /\ BatchOpen' = BatchPipes'
  BY <1>5, <1>6 DEF Live, Consumed, BatchOpen
<1>8. Leaked' = Leaked
  BY <1>3, <1>5 DEF Leaked
<1>9. Live' \cup BatchPipes' = Live \cup (Len(made) + 1)..Len(made')
  <2>1. CASE ~More
    BY <1>4, <1>5, <1>7, <2>1
  <2>2. CASE More
    <3>1. Live' = Live \cup {Len(made) + 1}
      <4>1. ASSUME NEW x \in Live' PROVE x \in Live \cup {Len(made) + 1}
        <5>1. PICK i \in 1..(Depth + 1) : x = slots'[i].in /\ x # 0
          BY <1>5, <1>7, <2>2 DEF InputsFrom
        <5>2. CASE i = 1
          <6>1. 1 \in 1..Len(slots)
            BY <1>2, <1>5
          <6> QED BY <1>5, <1>7, <5>1, <5>2, <6>1 DEF InputsFrom
        <5>3. CASE i = 2
          BY <1>5, <2>2, <5>1, <5>3
        <5>4. CASE i \notin {1, 2}
          <6>1. i - 1 \in 2..Depth /\ (i - 1) + 1 = i /\ i - 1 \in 1..Len(slots)
            BY <1>2, <1>5, <5>1, <5>4
          <6>2. slots'[i] = slots[i - 1]
            BY <1>5, <2>2, <6>1
          <6> QED BY <1>7, <5>1, <6>1, <6>2 DEF InputsFrom
        <5> QED BY <5>2, <5>3, <5>4
      <4>2. ASSUME NEW x \in Live PROVE x \in Live'
        <5>1. PICK i \in 1..Depth : x = slots[i].in /\ x # 0
          BY <1>5, <1>7 DEF InputsFrom
        <5>2. CASE i = 1
          <6>1. 1 \in 1..Len(slots')
            BY <1>2, <1>5, <2>2
          <6> QED BY <1>5, <1>7, <5>1, <5>2, <6>1 DEF InputsFrom
        <5>3. CASE i # 1
          <6>1. i \in 2..Depth /\ i + 1 \in 1..Len(slots')
            BY <1>2, <1>5, <2>2, <5>1, <5>3
          <6>2. slots'[i + 1] = slots[i]
            BY <1>5, <2>2, <6>1
          <6> QED BY <1>7, <5>1, <6>1, <6>2 DEF InputsFrom
        <5> QED BY <5>2, <5>3
      <4>3. Len(made) + 1 \in Live'
        <5>1. 2 \in 1..Len(slots') /\ Len(made) + 1 # 0
          BY <1>2, <1>5, <2>2
        <5> QED BY <1>5, <1>7, <2>2, <5>1 DEF InputsFrom
      <4> QED BY <4>1, <4>2, <4>3
    <3>2. (Len(made) + 1)..Len(made') = {Len(made) + 1} \cup (Len(made) + 2)..Len(made')
      BY <1>2, <1>4, <2>2
    <3> QED BY <1>4, <2>2, <3>1, <3>2
  <2> QED BY <2>1, <2>2
<1>10. OpenInv'
  <2>1. open = Ends(Live \cup Leaked)
    BY <1>5, <1>7 DEF CountInv, OpenInv
  <2>2. Live' \cup Leaked' \cup BatchOpen' = (Live \cup Leaked) \cup (Len(made) + 1)..Len(made')
    BY <1>7, <1>8, <1>9
  <2>3. open' = Ends((Live \cup Leaked) \cup (Len(made) + 1)..Len(made'))
    BY <1>4, <2>1, EndsOfSets
  <2> QED BY <2>2, <2>3 DEF OpenInv
<1>11. OrderInv'
  <2>1. \A i \in 1..Depth : slots[i].in \in Nat /\ slots[i].in <= Len(made)
    BY <1>5, SlotsAreThere DEF TypeInv, NodeType, CountInv, OrderInv
  <2>2. ASSUME NEW i \in 1..Len(slots') PROVE slots'[i].in <= Len(made')
    <3>1. CASE i = 1
      <4>1. 1 \in 1..Depth
        BY <1>2
      <4> QED BY SMTT(20), <1>4, <1>5, <2>1, <1>2, <3>1, <4>1
    <3>2. CASE More /\ i = 2
      BY <1>2, <1>4, <1>5, <3>2
    <3>3. CASE i # 1 /\ ~(More /\ i = 2)
      <4>1. i - Extra' \in 2..Depth /\ (i - Extra') + Extra' = i
        BY <1>2, <1>5, <3>3
      <4>2. slots'[i] = slots[i - Extra']
        BY <1>5, <4>1
      <4>3. i - Extra' \in 1..Depth
        BY <1>2, <4>1
      <4> QED BY <1>2, <1>4, <2>1, <4>2, <4>3
    <3> QED BY <3>1, <3>2, <3>3
  <2>3. BatchPipes' \subseteq OtherPipes'
    <3>1. BatchPipes' \subseteq (Len(made) + 1)..(Len(made) + k)
      BY <1>2, <1>3, <1>4
    <3> QED BY <1>3, <3>1
  <2>4. slots[1].in \in Nat /\ slots[1].in <= Len(made)
    <3>1. 1 \in 1..Depth
      BY <1>2
    <3> QED BY <2>1, <3>1
  <2>5. ASSUME NEW x \in BatchPipes' PROVE x > slots'[1].in /\ (Extra' = 1 => x > slots'[2].in)
    <3>1. CASE More
      BY <1>2, <1>4, <1>5, <2>4, <3>1
    <3>2. CASE ~More
      BY <1>2, <1>4, <1>5, <2>4, <3>2
    <3> QED BY <3>1, <3>2
  <2>6. Extra' = 1 => slots'[2].in > slots'[1].in
    BY <1>2, <1>5, <2>4
  <2> QED BY <2>2, <2>3, <2>5, <2>6 DEF OrderInv
<1>12. BlankInv'
  BY <1>5 DEF CountInv, BlankInv
<1> QED BY <1>10, <1>11, <1>12 DEF CountInv

\* The first command of a batch takes the input with it, the others none that the shell holds
\* for the line.
LEMMA ForkCounts ==
  ASSUME TypeInv, TypeInv', DueInv, AimInv, CountInv, Fork
  PROVE  CountInv'
<1>1. /\ pc = "fork" /\ pc' \in {"fork", "close"} /\ UNCHANGED <<slots, lines, made, blank>>
      /\ CloseInput
  BY DEF Fork
<1>2. /\ job'.pipes = job.pipes /\ job'.todo = job.todo - 1 /\ job'.at = job.at + 1
      /\ Len(job'.left) = Len(job.left) - 1 /\ job.todo \in Nat /\ job.todo <= Len(job.pipes) + 1
      /\ Len(job.left) \in Nat /\ Len(job.pipes) \in Nat
  <2>1. job' = [job EXCEPT !.left = Tail(job.left), !.todo = job.todo - 1, !.at = job.at + 1]
    BY DEF Fork
  <2>2. job.left \in Seq(Cmd) /\ job.left # <<>> /\ job.todo <= Len(job.pipes) + 1
    BY <1>1, EmptySeq, SlotsAreThere DEF TypeInv, TypeOK, JobInv
  <2>3. Len(Tail(job.left)) = Len(job.left) - 1
    BY <2>2, HeadTailProperties
  <2> QED BY <2>1, <2>2, <2>3, SlotsAreThere DEF TypeInv, TypeOK
<1>3. Index \in Nat /\ Index >= 1 /\ Index' > 1 /\ (Index # 1 => Index - 1 \in DOMAIN job.pipes)
  <2>1. Index = Len(job.pipes) + 2 - job.todo /\ Index' = Len(job.pipes) + 2 - (job.todo - 1)
    BY <1>2 DEF Index
  <2>2. job.todo >= 1
    BY <1>1, <1>2 DEF TypeInv, JobInv
  <2>3. DOMAIN job.pipes = 1..Len(job.pipes)
    BY LenProperties DEF TypeInv, TypeOK
  <2>4. Index \in Nat /\ Index >= 1 /\ Index <= Len(job.pipes) + 1
    BY <1>2, <2>1, <2>2
  <2>5. Index' > 1
    <3> DEFINE a == Len(job.pipes)
               b == job.todo
    <3>1. a \in Nat /\ b \in Nat /\ b <= a + 1
      BY <1>2
    <3>2. Index' = a + 2 - (b - 1)
      BY <2>1
    <3> HIDE DEF a, b
    <3> QED BY <3>1, <3>2
  <2>6. Index # 1 => Index - 1 \in DOMAIN job.pipes
    BY <1>2, <2>3, <2>4
  <2> QED BY <2>4, <2>5, <2>6
<1>4. Extra' = Extra /\ BatchPipes' = BatchPipes /\ Leaked' = Leaked /\ OtherPipes' = OtherPipes
  BY <1>1, <1>2 DEF Extra, BatchPipes, Leaked, NumberPipes, OtherPipes
<1>5. /\ Live' = InputsFrom(2, slots) /\ BatchOpen = BatchPipes /\ BatchOpen' = BatchPipes
      /\ Index = 1 => Live = InputsFrom(1, slots)
      /\ Index # 1 => Live = InputsFrom(2, slots)
  <2>1. Consumed' /\ (Consumed <=> Index # 1)
    BY <1>1, <1>3 DEF Consumed
  <2> QED BY <1>1, <1>4, <2>1 DEF Live, BatchOpen
<1>6. open = Ends(Live \cup Leaked \cup BatchPipes)
  BY <1>1, <1>5 DEF CountInv, OpenInv
<1>7. slots[1].wr = slots[1].in /\ 1 \in 1..Len(slots) /\ Len(slots) \in Nat
  <2>1. 1 \in 1..Len(slots) /\ Len(slots) \in Nat
    <3>1. slots # <<>> /\ slots \in Seq(NodeType)
      BY SlotsAreThere DEF TypeInv, TypeOK
    <3> QED BY <3>1, EmptySeq, LenProperties
  <2> QED BY <2>1 DEF AimInv, LaterAim
<1>8. open' = Ends(Live' \cup Leaked \cup BatchPipes)
  <2>1. CASE Index # 1
    <3>1. InputOf \in BatchPipes
      BY <1>3, <2>1 DEF InputOf, BatchPipes
    <3>2. InputOf > slots[1].in /\ InputOf \in Nat /\ slots[1].in \in Nat
      BY <1>1, <3>1, SlotsAreThere DEF CountInv, OrderInv, OtherPipes, TypeInv, NodeType
    <3>3. ~FromFront
      BY <3>2 DEF FromFront
    <3> QED BY <1>1, <1>5, <1>6, <2>1, <3>3 DEF CloseInput
  <2>2. CASE Index = 1
    <3>1. InputsFrom(1, slots) = InputsFrom(2, slots) \cup ({slots[1].in} \ {0})
      <4>1. 1..Len(slots) = {1} \cup 2..Len(slots)
        BY <1>7
      <4> QED BY <4>1 DEF InputsFrom
    <3>2. InputOf = slots[1].in
      BY <2>2 DEF InputOf
    <3>3. CASE slots[1].in = 0
      BY <1>1, <1>5, <1>6, <2>2, <3>1, <3>2, <3>3 DEF CloseInput, FromFront
    <3>4. CASE slots[1].in # 0
      <4>1. open' = open \ Ends({slots[1].in})
        BY <1>1, <1>7, <3>2, <3>4, EndsOfSets DEF CloseInput, FromFront
      <4>2. /\ slots[1].in \notin InputsFrom(2, slots)
            /\ slots[1].in \notin Leaked /\ slots[1].in \notin BatchPipes
        BY <1>1, <2>2, <3>4, FrontIsAlone
      <4>3. (Live \cup Leaked \cup BatchPipes) \ {slots[1].in} = Live' \cup Leaked \cup BatchPipes
        BY <1>5, <2>2, <3>1, <3>4, <4>2
      <4> QED BY <1>6, <4>1, <4>3, EndsOfSets
    <3> QED BY <3>3, <3>4
  <2> QED BY <2>1, <2>2
<1>9. OpenInv'
  BY <1>4, <1>5, <1>8 DEF OpenInv
<1>10. OrderInv'
  BY <1>1, <1>4 DEF CountInv, OrderInv
<1>11. BlankInv'
  BY <1>1 DEF CountInv, BlankInv
<1> QED BY <1>9, <1>10, <1>11 DEF CountInv

LEMMA CloseBatchCounts ==
  ASSUME TypeInv, TypeInv', DueInv, CountInv, CloseBatch
  PROVE  CountInv'
<1>1. /\ pc = "close" /\ pc' = "wait" /\ open' = open \ Ends(BatchPipes)
      /\ UNCHANGED <<slots, lines, made, blank, job>>
  BY DEF CloseBatch
<1>2. Live' = Live /\ Leaked' = Leaked /\ BatchOpen = BatchPipes /\ BatchOpen' = {}
  BY <1>1 DEF Live, Consumed, Leaked, NumberPipes, BatchOpen
<1>3. (Live \cup Leaked \cup BatchPipes) \ BatchPipes = Live \cup Leaked
  BY <1>1, BatchIsApart
<1>4. OpenInv'
  BY <1>1, <1>2, <1>3, EndsOfSets DEF CountInv, OpenInv
<1>5. OrderInv' /\ BlankInv'
  BY <1>1 DEF CountInv, OrderInv, BlankInv
<1> QED BY <1>4, <1>5 DEF CountInv

LEMMA EndBatchCounts ==
  ASSUME TypeInv, TypeInv', DueInv, CountInv, EndBatch
  PROVE  CountInv'
<1>1. EndBatchEffect /\ Depth \in Nat \ {0} /\ job.at > 1
  BY EndBatchPops, SizeAssumption DEF EndBatchEffect, DueInv, BatchInv
<1>2. /\ pc = "wait" /\ pc' = "batch" /\ UNCHANGED <<open, lines, made, blank>>
      /\ job'.left = job.left /\ job'.at = job.at
      /\ Extra' = 0 /\ Extra = (IF job.left # <<>> THEN 1 ELSE 0)
      /\ Len(slots) = Depth + Extra /\ Len(slots') = Depth
      /\ job.left = <<>> => slots' = slots
      /\ \A i \in 1..Depth : slots'[i] = slots[i + Extra]
  BY <1>1 DEF EndBatchEffect
<1>3. Leaked' = Leaked /\ BatchOpen = {} /\ BatchOpen' = {}
  BY <1>2 DEF Leaked, NumberPipes, BatchOpen
<1>4. Live' = Live
  <2>1. CASE job.left = <<>>
    BY <1>1, <1>2, <2>1 DEF Live, Consumed
  <2>2. CASE job.left # <<>>
    <3>1. /\ Live = InputsFrom(2, slots) /\ Live' = InputsFrom(1, slots')
          /\ Len(slots) = Depth + 1 /\ \A i \in 1..Depth : slots'[i] = slots[i + 1]
      BY <1>2, <2>2 DEF Live, Consumed
    <3>2. ASSUME NEW x \in Live' PROVE x \in Live
      <4>1. PICK i \in 1..Depth : x = slots'[i].in /\ x # 0
        BY <1>2, <3>1 DEF InputsFrom
      <4>2. i + 1 \in 2..Len(slots)
        BY <1>1, <3>1
      <4> QED BY <3>1, <4>1, <4>2 DEF InputsFrom
    <3>3. ASSUME NEW x \in Live PROVE x \in Live'
      <4>1. PICK i \in 2..(Depth + 1) : x = slots[i].in /\ x # 0
        BY <3>1 DEF InputsFrom
      <4>2. i - 1 \in 1..Depth /\ (i - 1) + 1 = i
        BY <1>1, <4>1
      <4>3. slots'[i - 1] = slots[i]
        BY <3>1, <4>2
      <4> QED BY <1>2, <3>1, <4>1, <4>2, <4>3 DEF InputsFrom
    <3> QED BY <3>2, <3>3
  <2> QED BY <2>1, <2>2
<1>5. OpenInv'
  BY <1>2, <1>3, <1>4 DEF CountInv, OpenInv
<1>6. OrderInv'
  <2>1. ASSUME NEW i \in 1..Depth PROVE slots'[i].in <= Len(made)
    <3>1. i + Extra \in 1..Len(slots)
      BY <1>1, <1>2
    <3> QED BY <1>2, <3>1 DEF CountInv, OrderInv
  <2> QED BY <1>2, <2>1 DEF OrderInv
<1>7. BlankInv'
  BY <1>1, <1>2 DEF CountInv, BlankInv
<1> QED BY <1>5, <1>6, <1>7 DEF CountInv

LEMMA OthersKeepCounts ==
  ASSUME CountInv, UNCHANGED <<slots, lines, made, blank, job>>,
         \/ pc' = pc /\ open' = open
         \/ pc = "prompt" /\ pc' = "gone"
  PROVE  CountInv'
<1>1. OpenInv'
  <2>1. CASE pc' = pc /\ open' = open
    <3>1. (Consumed' <=> Consumed) /\ BatchPipes' = BatchPipes /\ NumberPipes' = NumberPipes
      BY <2>1 DEF Consumed, Index, NumberPipes, BatchPipes
    <3>2. Live' = Live /\ Leaked' = Leaked /\ BatchOpen' = BatchOpen
      BY <2>1, <3>1 DEF Live, Leaked, BatchOpen
    <3> QED BY <2>1, <3>2 DEF CountInv, OpenInv
  <2>2. CASE pc' = "gone"
    BY <2>2 DEF OpenInv
  <2> QED BY <2>1, <2>2
<1>2. OrderInv' /\ BlankInv'
  BY DEF CountInv, OrderInv, BlankInv, BatchPipes, OtherPipes, NumberPipes, Extra
<1> QED BY <1>1, <1>2 DEF CountInv

LEMMA CountStep ==
  TypeInv /\ TypeInv' /\ DueInv /\ AimInv /\ CountInv /\ [Next]_vars => CountInv'
<1> SUFFICES ASSUME TypeInv, TypeInv', DueInv, AimInv, CountInv, [Next]_vars PROVE CountInv'
  OBVIOUS
<1>1. ASSUME NEW l \in Line, StartLine(l) PROVE CountInv'
  BY <1>1, StartLineCounts
<1>2. CASE (\E l \in Line : Builtin(l)) \/ EndLine
  BY <1>2, ShiftCounts
<1>3. CASE StartBatch
  BY <1>3, StartBatchCounts
<1>4. CASE Fork
  BY <1>4, ForkCounts
<1>5. CASE EndBatch
  BY <1>5, EndBatchCounts
<1>6. CASE CloseBatch
  BY <1>6, CloseBatchCounts
<1>7. ASSUME NEW l \in Line, Exit(l) PROVE CountInv'
  BY <1>7, OthersKeepCounts DEF Exit
<1>8. ASSUME NEW k \in kids, KidExit(k) PROVE CountInv'
  BY <1>8, OthersKeepCounts DEF KidExit
<1>9. CASE UNCHANGED vars
  BY <1>9, OthersKeepCounts DEF vars
<1>10. \A l \in Lines[program] : l \in Line
  BY LinesAssumption DEF TypeInv, TypeOK
<1> QED
  BY <1>1, <1>2, <1>3, <1>4, <1>5, <1>6, <1>7, <1>8, <1>9, <1>10 DEF Next, ShellStep

\* At the prompt the shell holds the two ends of each pipe in the deque, and beyond them only
\* pipes due on lines that started no command, for every length of the deque, every batch size
\* and all lines.
THEOREM NoDescriptorIsLost == Spec => []DescriptorsAreAccountedFor
<1>1. TypeInv /\ DueInv /\ AimInv /\ CountInv => DescriptorsAreAccountedFor
  <2> SUFFICES ASSUME TypeInv, DueInv, AimInv, CountInv, pc = "prompt"
               PROVE  LET due == {slots[i].in : i \in DOMAIN slots} \ {0}
                      IN  /\ open \ Ends({p \in NumberPipes : DueLine(p) \in blank}) = Ends(due)
                          /\ \A i \in DOMAIN slots :
                               slots[i] = [Node EXCEPT !.in = slots[i].in, !.wr = slots[i].in]
    BY DEF DescriptorsAreAccountedFor
  <2>1. /\ Depth \in Nat \ {0} /\ Len(slots) = Depth /\ DOMAIN slots = 1..Depth /\ Extra = 0
        /\ lines \in Nat /\ Base = lines + 1
    BY SizeAssumption, LenProperties DEF TypeInv, TypeOK, Extra, Base
  <2>2. Live = {slots[i].in : i \in DOMAIN slots} \ {0} /\ BatchOpen = {}
    BY <2>1 DEF Live, Consumed, InputsFrom, BatchOpen
  <2>3. open = Ends(Live \cup Leaked)
    BY <2>2 DEF CountInv, OpenInv
  <2>4. Live \cap Leaked = {}
    <3>1. ASSUME NEW i \in 1..Depth, slots[i].in # 0
          PROVE  slots[i].in \notin Leaked
      <4>1. IsDueOn(slots[i].in, lines + 1 + i - 1)
        <5>1. CASE i = 1
          BY <2>1, <5>1 DEF DueInv, DequeInv, Fresh
        <5>2. CASE i # 1
          <6>1. i \in 2..Depth /\ i + Extra = i
            BY <2>1, <5>2
          <6> QED BY <2>1, <6>1 DEF DueInv, DequeInv
        <5> QED BY <5>1, <5>2
      <4>2. made[slots[i].in].line + made[slots[i].in].n = lines + 1 + i - 1
        BY <3>1, <4>1 DEF IsDueOn
      <4>3. lines + 1 + i - 1 \notin blank
        <5>1. \A d \in blank : d \in Nat /\ d <= lines
          BY DEF CountInv, BlankInv, TypeInv, TypeOK
        <5> QED BY <2>1, <5>1
      <4> QED BY <4>2, <4>3 DEF Leaked
    <3> QED BY <2>1, <2>2, <3>1
  <2>5. open \ Ends(Leaked) = Ends(Live)
    <3>1. (Live \cup Leaked) \ Leaked = Live
      BY <2>4
    <3> QED BY <2>3, <3>1, EndsOfSets
  <2>6. Leaked = {p \in NumberPipes : DueLine(p) \in blank}
    BY DEF Leaked, DueLine
  <2>7. ASSUME NEW i \in DOMAIN slots
        PROVE  slots[i] = [Node EXCEPT !.in = slots[i].in, !.wr = slots[i].in]
    <3>1. slots[i] \in NodeType /\ i \in 1..Len(slots)
      BY <2>1, SlotsAreThere DEF TypeInv
    <3>2. slots[i].out = 0 /\ slots[i].err = 0 /\ slots[i].wr = slots[i].in
      <4>1. i = 1 \/ i \in (2 + Extra)..Len(slots)
        BY <2>1
      <4> QED BY <3>1, <4>1 DEF AimInv, LaterAim
    <3>3. slots[i] = [in |-> slots[i].in, out |-> slots[i].out, err |-> slots[i].err,
                      wr |-> slots[i].wr]
      BY <3>1 DEF NodeType
    <3> DEFINE x == slots[i].in
               e == [Node EXCEPT !.in = x, !.wr = x]
    <3>4. x \in Nat
      BY <3>1 DEF NodeType
    <3> HIDE DEF x
    <3>5. e \in NodeType /\ e.in = x /\ e.out = 0 /\ e.err = 0 /\ e.wr = x
      BY <3>4 DEF Node, NodeType
    <3> HIDE DEF e
    <3>6. e = [in |-> x, out |-> 0, err |-> 0, wr |-> x]
      BY <3>5 DEF NodeType
    <3>7. slots[i] = e
      BY <3>2, <3>3, <3>6 DEF x
    <3> QED BY <3>7 DEF x, e
  <2> QED BY <2>2, <2>5, <2>6, <2>7
<1>2. Spec => [](TypeInv /\ DueInv /\ AimInv /\ CountInv)
  BY ShellTypeInit, ShellTypeStep, DueInit, DueStep, AimInit, AimStep, CountInit, CountStep, PTL
     DEF Spec
<1> QED BY <1>1, <1>2, PTL

-----------------------------------------------------------------------------
\* Who waits for whom.

\* No command that is still to be forked writes to p.
Past(p) ==
  /\ \A i \in 1..Len(slots) : slots[i].out # p /\ slots[i].err # p
  /\ pc = "fork" => \A i \in 1..Len(job.pipes) : i >= Index => job.pipes[i] # p

\* A line writes to no pipe that it reads, nor does what is split off it.
OutsInv ==
  \A i, j \in 1..Len(slots) :
    j <= i => /\ slots[i].out # 0 => slots[i].out # slots[j].in
              /\ slots[i].err # 0 => slots[i].err # slots[j].in

\* The pipes of a batch are different, and are no line's output.
ApartInv ==
  pc = "fork" =>
    /\ \A i \in 1..Len(slots) : slots[i].out \notin BatchPipes /\ slots[i].err \notin BatchPipes
    /\ \A i, j \in 1..Len(job.pipes) : i # j => job.pipes[i] # job.pipes[j]

ReadersInv == \A k \in kids : k.pid < nextPid /\ (k.in # 0 => Past(k.in))

WaitInv == OutsInv /\ ApartInv /\ ReadersInv /\ WaitsOnlyForEarlier

LEMMA WaitInit == Init => WaitInv
<1> SUFFICES ASSUME Init PROVE WaitInv
  OBVIOUS
<1>1. /\ kids = {} /\ pc = "prompt" /\ Len(slots) = Depth
      /\ \A i \in 1..Depth : slots[i].out = 0 /\ slots[i].err = 0
  BY SizeAssumption DEF Init, Node
<1> QED BY <1>1 DEF WaitInv, OutsInv, ApartInv, ReadersInv, WaitsOnlyForEarlier

\* What a child reads is no pipe of the deque, and the shell holds it only while it forks the
\* rest of the batch.
LEMMA ReadersAreServed ==
  ASSUME TypeInv, DueInv, WaitInv, NEW k \in kids, k.in # 0
  PROVE  /\ k.in \in Nat /\ k.in <= Len(made) /\ k.pid < nextPid /\ Past(k.in)
         /\ pc \notin {"fork", "close"} => <<k.in, "w">> \notin open
<1>1. k.in \in Nat
  BY DEF TypeInv, TypeOK, KidType
<1> QED BY <1>1 DEF DueInv, KidsInv, WaitInv, ReadersInv, WaitsOnlyForEarlier

\* Nothing that waits changes when the deque and the job stay as they are, and no child is forked.
LEMMA OthersKeepWaits ==
  ASSUME WaitInv, UNCHANGED <<slots, job, nextPid>>, kids' \subseteq kids,
         \/ pc' = pc /\ open' = open
         \/ pc' # "fork" /\ \A k \in kids : k.in # 0 => <<k.in, "w">> \notin open'
  PROVE  WaitInv'
<1>1. OutsInv'
  BY DEF WaitInv, OutsInv
<1>2. pc' = "fork" => pc = "fork"
  OBVIOUS
<1>3. ApartInv'
  BY <1>2 DEF WaitInv, ApartInv, BatchPipes
<1>4. ReadersInv'
  BY <1>2 DEF WaitInv, ReadersInv, Past, Index
<1>5. WaitsOnlyForEarlier'
  BY DEF WaitInv, WaitsOnlyForEarlier, BatchPipes
<1> QED BY <1>1, <1>3, <1>4, <1>5 DEF WaitInv

\* A line at the prompt writes to a pipe of the deque, or to a new one: nobody reads it yet.
LEMMA StartLineWaits ==
  ASSUME TypeInv, TypeInv', DueInv, AimInv, CountInv, WaitInv, NEW l \in Line, StartLine(l)
  PROVE  WaitInv'
<1>1. pc = "prompt" /\ pc' = "batch" /\ kids' = kids /\ nextPid' = nextPid /\ NumberPipe(l)
  BY DEF StartLine
<1>2. /\ Len(slots) = Depth /\ Len(slots') = Depth /\ Depth \in Nat \ {0} /\ Extra = 0
      /\ Len(made) \in Nat /\ l.n \in 0..(Depth - 1) /\ Base \in Nat
  <2>1. Len(slots) = Depth /\ Depth \in Nat \ {0} /\ Extra = 0 /\ Base \in Nat
    BY <1>1, SizeAssumption DEF TypeInv, TypeOK, Extra, Base
  <2>2. Len(slots') = Len(slots)
    BY <1>1, NumberPipeType DEF TypeInv
  <2>3. l.n \in 0..(Depth - 1)
    BY DEF Line
  <2> QED BY <2>1, <2>2, <2>3, SlotsAreThere DEF TypeInv
<1>3. ASSUME NEW i \in 1..Depth
      PROVE  /\ slots[i].in \in Nat /\ slots[i].in <= Len(made)
             /\ slots[i].out = 0 /\ slots[i].err = 0 /\ slots[i].wr = slots[i].in
  <2>1. slots[i].in \in Nat /\ slots[i].in <= Len(made)
    BY <1>2, SlotsAreThere DEF TypeInv, NodeType, CountInv, OrderInv
  <2>2. i = 1 \/ i \in (2 + Extra)..Len(slots)
    BY <1>2
  <2> QED BY <1>1, <1>2, <2>1, <2>2 DEF AimInv, LaterAim
<1>4. ASSUME NEW k \in kids, k.in # 0
      PROVE  /\ k.in \in Nat /\ k.in <= Len(made) /\ k.pid < nextPid
             /\ <<k.in, "w">> \notin open /\ \A i \in 1..Depth : slots[i].in # k.in
  <2>1. /\ k.in \in Nat /\ k.in <= Len(made) /\ k.pid < nextPid /\ <<k.in, "w">> \notin open
    BY <1>1, <1>4, ReadersAreServed
  <2>2. ASSUME NEW i \in 1..Depth, slots[i].in = k.in PROVE FALSE
    <3>1. k.in \in Live
      BY <1>1, <1>2, <1>4, <2>2 DEF Live, Consumed, InputsFrom
    <3>2. <<k.in, "w">> \in open
      BY <1>1, <3>1 DEF CountInv, OpenInv, Ends
    <3> QED BY <2>1, <3>2
  <2> QED BY <2>1, <2>2
<1>5. OutsInv' /\ \A k \in kids : k.in # 0 =>
        /\ <<k.in, "w">> \notin open'
        /\ \A i \in 1..Depth : slots'[i].out # k.in /\ slots'[i].err # k.in
  <2>1. CASE MakesPipe(l)
    <3>1. /\ l.n + 1 # 1 /\ open' = open \cup Ends({Len(made) + 1})
          /\ \A i \in 1..Depth :
               /\ slots'[i].in = IF i = l.n + 1 THEN Len(made) + 1 ELSE slots[i].in
               /\ slots'[i].out = IF i = 1 THEN Len(made) + 1 ELSE slots[i].out
               /\ slots'[i].err = IF i = 1 /\ l.err THEN Len(made) + 1 ELSE slots[i].err
      BY <1>2, <2>1 DEF MakesPipe
    <3>2. ASSUME NEW i \in 1..Depth, NEW j \in 1..Depth, j <= i
          PROVE  /\ slots'[i].out # 0 => slots'[i].out # slots'[j].in
                 /\ slots'[i].err # 0 => slots'[i].err # slots'[j].in
      <4>1. CASE i = 1
        <5>1. j = 1 /\ slots'[j].in <= Len(made) /\ slots'[j].in \in Nat
          BY <1>3, <3>1, <3>2, <4>1
        <5>2. slots'[i].out = Len(made) + 1 /\ slots'[i].err \in {0, Len(made) + 1}
          BY <1>3, <3>1, <4>1
        <5> QED BY <1>2, <5>1, <5>2
      <4>2. CASE i # 1
        BY <1>3, <3>1, <4>2
      <4> QED BY <4>1, <4>2
    <3>3. ASSUME NEW k \in kids, k.in # 0
          PROVE  /\ <<k.in, "w">> \notin open'
                 /\ \A i \in 1..Depth : slots'[i].out # k.in /\ slots'[i].err # k.in
      <4>1. k.in # Len(made) + 1 /\ <<k.in, "w">> \notin open
        BY <1>2, <1>4, <3>3
      <4>2. <<k.in, "w">> \notin open'
        BY <3>1, <4>1 DEF Ends
      <4> QED BY <1>3, <3>1, <3>3, <4>1, <4>2
    <3> QED BY <1>2, <3>2, <3>3 DEF OutsInv
  <2>2. CASE JoinsPipe(l)
    <3>1. /\ l.n > 0 => slots[l.n + 1].in # 0
          /\ open' = open
          /\ \A i \in 1..Depth :
               /\ slots'[i].in = slots[i].in /\ slots'[i].err = slots[i].err
               /\ slots'[i].out = IF i = 1 /\ l.n > 0 THEN slots[l.n + 1].wr ELSE slots[i].out
      BY <1>2, <2>2 DEF JoinsPipe
    <3>2. l.n + 1 \in 1..Depth /\ 1 \in 1..Depth
      BY <1>2
    <3>3. \A i \in 1..Depth : /\ slots'[i].err = 0
                              /\ slots'[i].out = IF i = 1 /\ l.n > 0 THEN slots[l.n + 1].in ELSE 0
      BY <1>3, <3>1, <3>2
    <3>4. ASSUME l.n > 0 PROVE slots[l.n + 1].in # slots[1].in
      <4>1. l.n + 1 \in 2..Depth /\ l.n + 1 + Extra = l.n + 1 /\ Base + (l.n + 1) - 1 = Base + l.n
        BY <1>2, <3>4
      <4>2. IsDueOn(slots[l.n + 1].in, Base + l.n)
        BY <4>1 DEF DueInv, DequeInv
      <4>3. IsDueOn(slots[1].in, Base)
        BY <1>1 DEF DueInv, DequeInv, Fresh
      <4>4. Base + l.n # Base
        BY <1>2, <3>4
      <4> QED BY <3>1, <3>4, <4>2, <4>3, <4>4 DEF IsDueOn
    <3>5. ASSUME NEW i \in 1..Depth, NEW j \in 1..Depth, j <= i
          PROVE  /\ slots'[i].out # 0 => slots'[i].out # slots'[j].in
                 /\ slots'[i].err # 0 => slots'[i].err # slots'[j].in
      <4>1. CASE i = 1
        <5>1. j = 1
          BY <3>5, <4>1
        <5> QED BY <3>1, <3>3, <3>4, <4>1, <5>1
      <4>2. CASE i # 1
        BY <3>3, <4>2
      <4> QED BY <4>1, <4>2
    <3>6. ASSUME NEW k \in kids, k.in # 0
          PROVE  /\ <<k.in, "w">> \notin open'
                 /\ \A i \in 1..Depth : slots'[i].out # k.in /\ slots'[i].err # k.in
      BY <1>4, <3>1, <3>2, <3>3, <3>6
    <3> QED BY <1>2, <3>5, <3>6 DEF OutsInv
  <2> QED BY <1>1, <2>1, <2>2, NumberPipeType DEF TypeInv
<1>6. ReadersInv'
  BY <1>1, <1>2, <1>5 DEF ReadersInv, WaitInv, Past
<1>7. WaitsOnlyForEarlier'
  BY <1>1, <1>5 DEF WaitInv, WaitsOnlyForEarlier
<1> QED BY <1>1, <1>5, <1>6, <1>7 DEF WaitInv, ApartInv

\* The next line has no output yet.
LEMMA ShiftWaits ==
  ASSUME TypeInv, TypeInv', DueInv, AimInv', WaitInv, pc \in {"prompt", "batch"}, pc' = "prompt",
         UNCHANGED <<open, kids, nextPid>>
  PROVE  WaitInv'
<1>1. ASSUME NEW i \in 1..Len(slots') PROVE slots'[i].out = 0 /\ slots'[i].err = 0
  <2>1. Len(slots') = Depth /\ Depth \in Nat \ {0} /\ Extra' = 0
    BY SizeAssumption DEF TypeInv, TypeOK, Extra
  <2>2. i = 1 \/ i \in (2 + Extra')..Len(slots')
    BY <2>1
  <2> QED BY <2>2 DEF AimInv, LaterAim
<1>2. OutsInv' /\ ApartInv'
  BY <1>1 DEF OutsInv, ApartInv
<1>3. ASSUME NEW k \in kids, k.in # 0 PROVE Past(k.in)' /\ <<k.in, "w">> \notin open'
  <2>1. <<k.in, "w">> \notin open
    BY <1>3, ReadersAreServed
  <2> QED BY <1>1, <1>3, <2>1 DEF Past
<1>4. ReadersInv' /\ WaitsOnlyForEarlier'
  BY <1>3 DEF WaitInv, ReadersInv, WaitsOnlyForEarlier
<1> QED BY <1>2, <1>4 DEF WaitInv

\* The pipes of a batch are new, and each is another.
LEMMA BatchNumbers ==
  ASSUME TypeInv, StartBatch
  PROVE  /\ \A i, j \in 1..Len(job'.pipes) : i # j => job'.pipes[i] # job'.pipes[j]
         /\ \A i \in 1..Len(job'.pipes) : job'.pipes[i] \in Nat /\ job'.pipes[i] > Len(made)
<1> DEFINE p == Len(made) + 1
           from == IF More THEN p ELSE p - 1
           new == [i \in 1..(Size - 1) |-> from + i]
<1>1. Len(made) \in Nat /\ Size \in Nat /\ Size > 0
  BY SizeType, SlotsAreThere DEF StartBatch, TypeInv
<1>2. from \in Nat /\ from >= Len(made)
  BY <1>1
<1>3. job' = [job EXCEPT !.pipes = new, !.todo = Size]
  BY DEF StartBatch
<1>4. job'.pipes = new
  BY <1>3 DEF TypeInv, TypeOK
<1>5. Len(new) = Size - 1 /\ \A i \in 1..(Size - 1) : new[i] = from + i
  BY <1>1
<1> HIDE DEF from, new
<1>6. \A i \in 1..(Size - 1) : new[i] \in Nat /\ new[i] > Len(made)
  BY <1>1, <1>2, <1>5
<1>7. \A i, j \in 1..(Size - 1) : i # j => new[i] # new[j]
  BY <1>1, <1>2, <1>5
<1> QED BY <1>4, <1>5, <1>6, <1>7

\* A batch begins: of the outputs in the deque only that of the line goes into a node of its own,
\* behind the pipe to the rest of the line.
LEMMA StartBatchWaits ==
  ASSUME TypeInv, TypeInv', DueInv, AimInv, WaitInv, StartBatch
  PROVE  WaitInv'
<1> DEFINE q == Len(made) + 1
<1>1. StartBatchEffect
  BY StartBatchNodes
<1>2. /\ pc = "batch" /\ pc' = "fork" /\ kids' = kids /\ nextPid' = nextPid
      /\ Extra = 0 /\ Extra' = (IF More THEN 1 ELSE 0)
      /\ Len(slots) = Depth /\ Len(slots') = Depth + Extra' /\ Depth \in Nat \ {0}
      /\ Len(made) \in Nat
  BY <1>1, SizeAssumption, SlotsAreThere DEF StartBatch, StartBatchEffect, TypeInv
<1>3. /\ open' = open \cup Ends(q..Len(made'))
      /\ BatchPipes' = (IF More THEN Len(made) + 2 ELSE Len(made) + 1)..Len(made')
      /\ Len(made') \in Nat
  BY StartBatchOpens
<1>4. /\ slots[1].in \in Nat
      /\ \A o \in {slots[1].out, slots[1].err} :
           o \in Nat /\ o <= Len(made) /\ (o # 0 => o # slots[1].in)
  <2>1. 1 \in 1..Len(slots) /\ slots[1] \in NodeType
    BY <1>2, SlotsAreThere DEF TypeInv
  <2> QED BY <2>1 DEF NodeType, AimInv, BoundAim, WaitInv, OutsInv
<1>5. ASSUME NEW i \in 1..Len(slots'), NEW o \in {slots'[i].out, slots'[i].err}
      PROVE  \/ o = 0
             \/ More /\ i = 1 /\ o = q
             \/ i <= 1 + Extra' /\ o \in {slots[1].out, slots[1].err}
  <2>1. CASE ~More /\ i = 1
    BY <1>1, <1>2, <2>1 DEF StartBatchEffect
  <2>2. CASE More /\ i = 1
    <3>1. slots'[1].out = q /\ slots'[1].err \in {q, slots[1].err}
      BY <1>1, <2>2 DEF StartBatchEffect, SplitFront
    <3> QED BY <1>2, <2>2, <3>1
  <2>3. CASE More /\ i = 2
    <3>1. slots'[2].out \in {0, slots[1].out} /\ slots'[2].err \in {0, slots[1].err}
      BY <1>1, <2>3 DEF StartBatchEffect, SplitRest
    <3> QED BY <1>2, <2>3, <3>1
  <2>4. CASE i # 1 /\ ~(More /\ i = 2)
    <3>1. i - Extra' \in 2..Depth /\ i - Extra' \in (2 + Extra)..Len(slots) /\ (i - Extra') + Extra' = i
      BY <1>2, <2>4
    <3>2. slots'[i] = slots[i - Extra']
      BY <1>1, <3>1 DEF StartBatchEffect
    <3>3. slots[i - Extra'].out = 0 /\ slots[i - Extra'].err = 0
      BY <3>1 DEF AimInv, LaterAim
    <3> QED BY <3>2, <3>3
  <2> QED BY <2>1, <2>2, <2>3, <2>4
<1>6. OutsInv'
  <2>1. ASSUME NEW i \in 1..Len(slots'), NEW j \in 1..Len(slots'), j <= i,
               NEW o \in {slots'[i].out, slots'[i].err}, o # 0
        PROVE  o # slots'[j].in
    <3>1. slots'[1].in = slots[1].in /\ (More => slots'[2].in = q)
      BY <1>1 DEF StartBatchEffect, SplitRest
    <3>a. slots[1].in <= Len(made)
      <4>1. slots[1].in \in NumberPipes \cup OtherPipes \cup {0}
        BY <1>2 DEF DueInv, DequeInv, Fresh, IsDueOn, StartBatch
      <4> QED BY <1>2, <4>1, DuesAreNumbers DEF TypeInv, OtherPipes
    <3>2. CASE More /\ i = 1 /\ o = q
      <4>1. j = 1
        BY <2>1, <3>2
      <4> QED BY <1>2, <1>4, <3>1, <3>2, <3>a, <4>1
    <3>3. CASE i <= 1 + Extra' /\ o \in {slots[1].out, slots[1].err}
      <4>1. j = 1 \/ (More /\ j = 2)
        BY <1>2, <2>1, <3>3
      <4> QED BY <1>2, <1>4, <2>1, <3>1, <3>3, <4>1
    <3> QED BY <1>5, <2>1, <3>2, <3>3
  <2> QED BY <2>1 DEF OutsInv
<1>7. ApartInv'
  <2>1. ASSUME NEW i \in 1..Len(slots'), NEW o \in {slots'[i].out, slots'[i].err}
        PROVE  o \notin BatchPipes'
    <3>1. \A x \in BatchPipes' : x > Len(made) /\ (More => x > q)
      BY <1>2, <1>3
    <3>2. o \in Nat /\ (o <= Len(made) \/ (More /\ o = q))
      BY SMTT(20), <1>2, <1>4, <1>5
    <3> QED BY <1>2, <3>1, <3>2
  <2> QED BY <2>1, BatchNumbers DEF ApartInv
<1>8. ASSUME NEW k \in kids, k.in # 0
      PROVE  Past(k.in)' /\ <<k.in, "w">> \notin open'
  <2>1. /\ k.in \in Nat /\ k.in <= Len(made) /\ Past(k.in) /\ <<k.in, "w">> \notin open
    BY <1>2, <1>8, ReadersAreServed
  <2>2. ASSUME NEW i \in 1..Len(slots'), NEW o \in {slots'[i].out, slots'[i].err}
        PROVE  o # k.in
    <3>1. 1 \in 1..Len(slots)
      BY <1>2
    <3>2. k.in \notin {slots[1].out, slots[1].err}
      BY <2>1, <3>1 DEF Past
    <3> QED BY <1>2, <1>5, <1>8, <2>1, <3>2
  <2>3. \A i \in 1..Len(job'.pipes) : job'.pipes[i] # k.in
    BY <1>2, <2>1, BatchNumbers
  <2>4. <<k.in, "w">> \notin open'
    <3>1. k.in \notin q..Len(made')
      BY <1>2, <1>3, <2>1
    <3> QED BY <1>3, <2>1, <3>1 DEF Ends
  <2> QED BY <2>2, <2>3, <2>4 DEF Past
<1>9. ReadersInv' /\ WaitsOnlyForEarlier'
  BY <1>2, <1>8 DEF WaitInv, ReadersInv, WaitsOnlyForEarlier
<1> QED BY <1>6, <1>7, <1>9 DEF WaitInv

\* A batch is over: the nodes move to the front.
LEMMA EndBatchWaits ==
  ASSUME TypeInv, TypeInv', DueInv, WaitInv, EndBatch
  PROVE  WaitInv'
<1>1. EndBatchEffect /\ Depth \in Nat \ {0}
  BY EndBatchPops, SizeAssumption
<1>2. /\ pc = "wait" /\ pc' = "batch" /\ open' = open /\ kids' = kids /\ nextPid' = nextPid
      /\ Extra \in {0, 1} /\ Len(slots) = Depth + Extra /\ Len(slots') = Depth
      /\ \A i \in 1..Depth : slots'[i] = slots[i + Extra]
  BY <1>1 DEF EndBatch, EndBatchEffect
<1>3. \A i \in 1..Depth : i + Extra \in 1..Len(slots)
  BY <1>1, <1>2
<1>4. OutsInv'
  <2>1. ASSUME NEW i \in 1..Depth, NEW j \in 1..Depth, j <= i
        PROVE  /\ slots'[i].out # 0 => slots'[i].out # slots'[j].in
               /\ slots'[i].err # 0 => slots'[i].err # slots'[j].in
    <3>1. j + Extra <= i + Extra
      BY <1>1, <1>2, <2>1
    <3> QED BY <1>2, <1>3, <3>1 DEF WaitInv, OutsInv
  <2> QED BY <1>2, <2>1 DEF OutsInv
<1>5. ASSUME NEW k \in kids, k.in # 0 PROVE Past(k.in)' /\ <<k.in, "w">> \notin open'
  <2>1. Past(k.in) /\ <<k.in, "w">> \notin open
    BY <1>2, <1>5, ReadersAreServed
  <2> QED BY <1>2, <1>3, <2>1 DEF Past
<1>6. ReadersInv' /\ WaitsOnlyForEarlier'
  BY <1>2, <1>5 DEF WaitInv, ReadersInv, WaitsOnlyForEarlier
<1> QED BY <1>2, <1>4, <1>6 DEF WaitInv, ApartInv

\* A command that is forked holds the write end of p only if it writes to p, or if the shell
\* holds it and p is neither a pipe of the batch nor the command's own input.
LEMMA EndsAreNotPast ==
  ASSUME TypeInv, pc = "fork", NEW c \in Cmd, NEW p \in Nat \ {0}, Past(p),
         <<p, "w">> \in open => p \in BatchPipes \/ (FromFront /\ p = slots[1].wr)
  PROVE  <<p, "w">> \notin EndsOfChild(c)
<1>1. /\ Index \in Nat /\ Index >= 1 /\ (~Last => Index \in 1..Len(job.pipes))
  <2>1. Len(job.pipes) \in Nat /\ job.todo \in 1..(Len(job.pipes) + 1)
    BY SlotsAreThere DEF TypeInv, JobInv
  <2> QED BY <2>1 DEF Index, Last
<1>2. 1 \in 1..Len(slots)
  <2>1. slots # <<>> /\ slots \in Seq(NodeType)
    BY SlotsAreThere DEF TypeInv, TypeOK
  <2> QED BY <2>1, EmptySeq, LenProperties
<1>3. OutputOf # p
  BY <1>1, <1>2 DEF OutputOf, Past
<1>4. ErrorOf # p
  BY <1>1, <1>2 DEF ErrorOf, Past
<1>5. <<p, "w">> \notin open \ (Ends(BatchPipes) \cup (IF FromFront THEN {<<slots[1].wr, "w">>} ELSE {}))
  BY DEF Ends
<1> QED BY <1>3, <1>4, <1>5 DEF EndsOfChild

\* The command that is forked: nobody but the shell and those before it holds its input, and
\* what its predecessors read is not among its ends.
LEMMA ForkWaits ==
  ASSUME TypeInv, TypeInv', DueInv, AimInv, CountInv, WaitInv, Fork
  PROVE  WaitInv'
<1> DEFINE c == Head(job.left)
<1>1. /\ pc = "fork" /\ pc' \in {"fork", "close"} /\ UNCHANGED <<slots, made>>
      /\ nextPid' = nextPid + 1 /\ CloseInput /\ nextPid \in Nat
  BY DEF Fork, TypeInv, TypeOK
<1>2. /\ job.left # <<>> /\ c \in Cmd /\ job'.pipes = job.pipes /\ job'.todo = job.todo - 1
      /\ Len(job.pipes) \in Nat /\ job.todo \in 1..(Len(job.pipes) + 1)
  <2>1. /\ job.left \in Seq(Cmd) /\ job.left # <<>>
        /\ Len(job.pipes) \in Nat /\ job.todo \in 1..(Len(job.pipes) + 1)
    BY <1>1, EmptySeq, SlotsAreThere DEF TypeInv, TypeOK, JobInv
  <2>2. job' = [job EXCEPT !.left = Tail(job.left), !.todo = job.todo - 1, !.at = job.at + 1]
    BY DEF Fork
  <2> QED BY <2>1, <2>2, HeadTailProperties DEF TypeInv, TypeOK
<1>3. PICK new : /\ kids' = kids \cup {new} /\ new.pid = nextPid /\ new.in = InputOf
                 /\ new.ends = EndsOfChild(c)
  <2> DEFINE child == [pid |-> nextPid, line |-> lines, in |-> InputOf, out |-> OutputOf,
                       err |-> ErrorOf, ends |-> EndsOfChild(c), at |-> job.at,
                       last |-> Len(job.left) = 1, wantErr |-> job.err, n |-> job.n,
                       reads |-> c.reads, big |-> c.big /\ ~c.file]
  <2>1. kids' = kids \cup {child}
    BY DEF Fork
  <2> HIDE DEF c
  <2>2. child.pid = nextPid /\ child.in = InputOf /\ child.ends = EndsOfChild(c)
    OBVIOUS
  <2> QED BY <2>1, <2>2
<1>4. /\ Index \in Nat /\ Index >= 1 /\ Index' = Index + 1
      /\ (Index # 1 => Index - 1 \in 1..Len(job.pipes))
  <2> DEFINE a == Len(job.pipes)
             b == job.todo
  <2>1. Index = a + 2 - b /\ Index' = a + 2 - (b - 1) /\ a \in Nat /\ b \in 1..(a + 1)
    BY <1>2 DEF Index
  <2> HIDE DEF b
  <2>2. Index' = Index + 1 /\ Index \in 1..(a + 1)
    <3> HIDE DEF a
    <3> QED BY <2>1
  <2> QED BY <2>1, <2>2
<1>5. /\ BatchPipes' = BatchPipes /\ BatchPipes = {job.pipes[i] : i \in 1..Len(job.pipes)}
      /\ Len(slots) \in Nat /\ 1 \in 1..Len(slots) /\ slots[1].wr = slots[1].in
  <2>1. 1 \in 1..Len(slots) /\ Len(slots) \in Nat
    <3>1. slots # <<>> /\ slots \in Seq(NodeType)
      BY SlotsAreThere DEF TypeInv, TypeOK
    <3> QED BY <3>1, EmptySeq, LenProperties
  <2>2. DOMAIN job.pipes = 1..Len(job.pipes)
    BY LenProperties DEF TypeInv, TypeOK
  <2> QED BY <1>2, <2>1, <2>2 DEF BatchPipes, AimInv, LaterAim
<1>6. open' \subseteq open
  BY <1>1 DEF CloseInput
<1>7. ASSUME NEW p, Past(p) PROVE Past(p)'
  <2>1. pc' = "fork" => \A i \in 1..Len(job.pipes) : i >= Index + 1 => job.pipes[i] # p
    BY <1>1, <1>4, <1>7 DEF Past
  <2> QED BY <1>1, <1>2, <1>4, <1>7, <2>1 DEF Past
<1>8. ASSUME NEW k \in kids, k.in # 0
      PROVE  /\ <<k.in, "w">> \notin new.ends /\ Past(k.in)'
             /\ \A j \in kids' : <<k.in, "w">> \in j.ends => j.pid < k.pid
             /\ <<k.in, "w">> \in open' => k.in \in BatchPipes'
  <2>1. k.in \in Nat /\ Past(k.in)
    BY <1>8, ReadersAreServed
  <2>2. /\ \A j \in kids : <<k.in, "w">> \in j.ends => j.pid < k.pid
        /\ <<k.in, "w">> \in open => k.in \in BatchPipes
    BY <1>8 DEF WaitInv, WaitsOnlyForEarlier
  <2>3. <<k.in, "w">> \notin new.ends
    BY <1>1, <1>2, <1>3, <1>8, <2>1, <2>2, EndsAreNotPast
  <2> QED BY <1>3, <1>5, <1>6, <1>7, <2>1, <2>2, <2>3
<1>9. ASSUME new.in # 0
      PROVE  /\ <<new.in, "w">> \notin new.ends /\ Past(new.in)'
             /\ \A j \in kids' : <<new.in, "w">> \in j.ends => j.pid < new.pid
             /\ <<new.in, "w">> \in open' => new.in \in BatchPipes'
  <2>1. CASE Index = 1
    <3>1. new.in = slots[1].in /\ FromFront /\ slots[1].in # 0
      BY <1>3, <1>9, <2>1 DEF InputOf, FromFront
    <3>2. slots[1].in \in Nat \ {0}
      BY <3>1, SlotsAreThere DEF TypeInv, NodeType
    <3>3. slots[1].in \notin BatchPipes
      BY <1>1, <2>1, <3>1, FrontIsAlone
    <3>4. Past(slots[1].in)
      <4>1. \A i \in 1..Len(slots) : slots[i].out # slots[1].in /\ slots[i].err # slots[1].in
        BY <1>5, <3>1 DEF WaitInv, OutsInv
      <4> QED BY <1>5, <3>3, <4>1 DEF Past
    <3>5. <<new.in, "w">> \notin new.ends
      BY <1>1, <1>2, <1>3, <1>5, <3>1, <3>2, <3>4, EndsAreNotPast
    <3>6. <<new.in, "w">> \notin open'
      BY <1>1, <1>5, <3>1 DEF CloseInput
    <3>7. \A j \in kids : j.pid < new.pid
      BY <1>3 DEF WaitInv, ReadersInv
    <3> QED BY <1>3, <1>7, <3>1, <3>4, <3>5, <3>6, <3>7
  <2>2. CASE Index # 1
    <3> DEFINE a == Index - 1
    <3>1. a \in 1..Len(job.pipes) /\ a < Index /\ new.in = job.pipes[a]
      BY <1>3, <1>4, <2>2 DEF InputOf
    <3>2. new.in \in BatchPipes /\ new.in \in Nat \ {0}
      BY <1>5, <1>9, <3>1, SlotsAreThere DEF TypeInv
    <3>3. Past(new.in)
      <4>1. \A i \in 1..Len(slots) : slots[i].out # new.in /\ slots[i].err # new.in
        BY <1>1, <3>2 DEF WaitInv, ApartInv
      <4>2. ASSUME NEW i \in 1..Len(job.pipes), i >= Index PROVE job.pipes[i] # new.in
        <5>1. i # a
          BY <1>4, <3>1, <4>2
        <5> QED BY <1>1, <3>1, <5>1 DEF WaitInv, ApartInv
      <4> QED BY <4>1, <4>2 DEF Past
    <3>4. <<new.in, "w">> \notin new.ends
      BY <1>1, <1>2, <1>3, <3>2, <3>3, EndsAreNotPast
    <3>5. \A j \in kids : j.pid < new.pid
      BY <1>3 DEF WaitInv, ReadersInv
    <3> QED BY <1>3, <1>5, <1>7, <3>2, <3>3, <3>4, <3>5
  <2> QED BY <2>1, <2>2
<1>10. ReadersInv'
  <2>1. \A k \in kids : k.pid \in Nat /\ k.pid < nextPid
    BY DEF TypeInv, TypeOK, KidType, WaitInv, ReadersInv
  <2>2. \A k \in kids' : k.pid < nextPid'
    BY <1>1, <1>3, <2>1
  <2> QED BY <1>3, <1>8, <1>9, <2>2 DEF ReadersInv
<1>11. WaitsOnlyForEarlier'
  BY <1>1, <1>3, <1>8, <1>9 DEF WaitsOnlyForEarlier
<1>12. OutsInv' /\ ApartInv'
  BY <1>1, <1>2, <1>5 DEF WaitInv, OutsInv, ApartInv
<1> QED BY <1>10, <1>11, <1>12 DEF WaitInv

LEMMA WaitStep ==
  TypeInv /\ TypeInv' /\ DueInv /\ AimInv /\ AimInv' /\ CountInv /\ WaitInv /\ [Next]_vars => WaitInv'
<1> SUFFICES ASSUME TypeInv, TypeInv', DueInv, AimInv, AimInv', CountInv, WaitInv, [Next]_vars
             PROVE  WaitInv'
  OBVIOUS
<1>1. ASSUME NEW l \in Line, StartLine(l) PROVE WaitInv'
  BY <1>1, StartLineWaits
<1>2. CASE (\E l \in Line : Builtin(l)) \/ EndLine
  <2>1. pc \in {"prompt", "batch"} /\ pc' = "prompt" /\ UNCHANGED <<open, kids, nextPid>>
    BY <1>2 DEF Builtin, EndLine
  <2> QED BY <2>1, ShiftWaits
<1>3. CASE StartBatch
  BY <1>3, StartBatchWaits
<1>4. CASE Fork
  BY <1>4, ForkWaits
<1>5. CASE EndBatch
  BY <1>5, EndBatchWaits
<1>6. CASE CloseBatch
  <2>1. /\ pc' = "wait" /\ open' = open \ Ends(BatchPipes) /\ UNCHANGED <<slots, job, nextPid, kids>>
    BY <1>6 DEF CloseBatch
  <2>2. ASSUME NEW k \in kids, k.in # 0 PROVE <<k.in, "w">> \notin open'
    <3>1. <<k.in, "w">> \in open => k.in \in BatchPipes
      BY <2>2 DEF WaitInv, WaitsOnlyForEarlier
    <3>2. k.in \in BatchPipes => <<k.in, "w">> \in Ends(BatchPipes)
      BY DEF Ends
    <3> QED BY <2>1, <3>1, <3>2
  <2> QED BY <2>1, <2>2, OthersKeepWaits
<1>7. ASSUME NEW l \in Line, Exit(l) PROVE WaitInv'
  BY <1>7, OthersKeepWaits DEF Exit
<1>8. ASSUME NEW k \in kids, KidExit(k) PROVE WaitInv'
  BY <1>8, OthersKeepWaits DEF KidExit
<1>9. CASE UNCHANGED vars
  BY <1>9, OthersKeepWaits DEF vars
<1>10. \A l \in Lines[program] : l \in Line
  BY LinesAssumption DEF TypeInv, TypeOK
<1> QED
  BY <1>1, <1>2, <1>3, <1>4, <1>5, <1>6, <1>7, <1>8, <1>9, <1>10 DEF Next, ShellStep

\* No circle of programs that wait for each other's input, for every length of the deque, every
\* batch size and all lines: whoever holds the write end of what a program reads was forked before
\* it, or is the shell, which then still forks the batch and waits for nobody.
THEOREM WaitsFollowForks == Spec => []WaitsOnlyForEarlier
<1>1. WaitInv => WaitsOnlyForEarlier
  BY DEF WaitInv
<1>2. Spec => [](TypeInv /\ DueInv /\ AimInv /\ CountInv /\ WaitInv)
  BY ShellTypeInit, ShellTypeStep, DueInit, DueStep, AimInit, AimStep, CountInit, CountStep,
     WaitInit, WaitStep, PTL DEF Spec
<1> QED BY <1>1, <1>2, PTL
=============================================================================
