----------------------------- MODULE MCNpSingle -----------------------------
(* Command lines and bounds for TLC's runs of NpSingle. *)
EXTENDS NpSingle, TLC

\* A program that reads its input (cat, number, removetag), with the given sign.
Reader(sign, n, w, r) ==
  [kind |-> "run", sign |-> sign, pipeNum |-> n, writeId |-> w, readId |-> r,
   reads |-> TRUE, big |-> FALSE]
\* One that does not (ls, noop).
Source(sign, n, w) == [Reader(sign, n, w, 0) EXCEPT !.reads = FALSE]
Big(c) == [c EXCEPT !.big = TRUE]
Word(kind) == [Source("None", 0, 0) EXCEPT !.kind = kind]

\* noop >1, noop >2, cat <1, cat <2 >1, noop | cat, exit; lines that stop half way at an
\* unknown program or a built-in.
UserPipeLines ==
  {<<Source("WriteUserPipe", 0, w)>> : w \in 1..2} \cup
  {<<Reader("None", 0, 0, 1)>>, <<Reader("WriteUserPipe", 0, 1, 2)>>,
   <<Source("Pipe", 1, 0), Reader("None", 0, 0, 0)>>, <<Word("exit")>>,
   <<Source("Pipe", 1, 0), Word("unknown")>>, <<Source("Pipe", 1, 0), Word("builtin")>>}

\* Number pipes of both signs, ordinary pipes, a file; every program exists.
NumberPipeLines ==
  {<<Source("Pipe", 1, 0), Reader("None", 0, 0, 0)>>,
   <<Reader("NumberPipe", 1, 0, 0)>>,
   <<Source("NumberPipe", 2, 0)>>,
   <<Reader("ErrorPipe", 1, 0, 0)>>,
   <<Source("NumberPipe", 1, 0), Reader("ErrorPipe", 2, 0, 0)>>,
   <<Reader("Write", 0, 0, 0)>>,
   <<>>}

\* The same with programs that write more than a pipe holds, lines that stop half way or
\* run nothing, and a number pipe that such lines bring nearer.
BigLines ==
  NumberPipeLines \cup
  {<<Big(Source("NumberPipe", 1, 0))>>,
   <<Big(Source("Pipe", 1, 0)), Source("None", 0, 0)>>,
   <<Big(Source("Pipe", 1, 0)), Big(Reader("None", 0, 0, 0))>>,
   <<Big(Source("WriteUserPipe", 0, 1))>>,
   <<Reader("None", 0, 0, 1)>>,
   <<Reader("None", 0, 0, 0)>>,
   <<Reader("Pipe", 1, 0, 0), Word("unknown")>>,
   <<Word("unknown")>>,
   <<Source("NumberPipe", 3, 0)>>,
   <<Source("Pipe", 1, 0), Word("builtin")>>}

\* nycu-np-proj3/src/test_case/t1.txt, lines 5 to 7.
TestLines ==
  {<<Reader("NumberPipe", 2, 0, 0)>>,
   <<Reader("Pipe", 1, 0, 0), Reader("Pipe", 1, 0, 0), Reader("NumberPipe", 1, 0, 0)>>,
   <<Reader("None", 0, 0, 0)>>}

Symmetry == Permutations(Conn)
=============================================================================
