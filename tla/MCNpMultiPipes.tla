--------------------------- MODULE MCNpMultiPipes ---------------------------
(* Command lines and symmetry for TLC's runs of NpMultiPipes. *)
EXTENDS NpMultiPipes, TLC

Run    == [sign |-> "None", num |-> 0, writeId |-> 0, readId |-> 0, kind |-> "run"]
To(r)  == [Run EXCEPT !.sign = "WriteUserPipe", !.writeId = r]
Of(s)  == [Run EXCEPT !.readId = s]

\* A line that leaves in pipeV what may be left there: an ordinary pipe whose reader
\* is unknown, a number pipe, and a user pipe when the file does not open.
Leftovers ==
  <<[Run EXCEPT !.sign = "Pipe", !.num = 1], [Run EXCEPT !.kind = "unknown"],
    [Run EXCEPT !.sign = "NumberPipe", !.num = 2], [Of(1) EXCEPT !.sign = "Write"]>>

\* Pipes from client 1 to client 2 and from 1 to itself, the ways to read them, lines
\* that read one and write another, in one command and in two, and exit.
PipeLines ==
  {<<To(2)>>, <<Of(1)>>, <<[To(1) EXCEPT !.readId = 1]>>,
   <<[Of(1) EXCEPT !.sign = "Pipe", !.num = 1], To(1)>>, Leftovers,
   <<[Run EXCEPT !.kind = "exit"]>>}

Symmetry == Permutations(Proc)
=============================================================================
