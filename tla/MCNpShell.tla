----------------------------- MODULE MCNpShell ------------------------------
(* Command lines and bounds for TLC's runs of NpShell. *)
EXTENDS NpShell

\* ls or noop; cat, number or removetag; one that prints more than a pipe holds.
Source == [reads |-> FALSE, big |-> FALSE, file |-> FALSE]
Reader == [Source EXCEPT !.reads = TRUE]
Big(c) == [c EXCEPT !.big = TRUE]

RunLine(cmds, n, err) == [kind |-> "run", cmds |-> cmds, n |-> n, err |-> err]
Word(kind) == [kind |-> kind, cmds |-> <<>>, n |-> 0, err |-> FALSE]

\* Lines of one, two and three batches of two commands; |1, |2, !1; more output
\* than a pipe holds, into a pipe that is read at once, later, or not at all; a
\* line that starts nothing and a built-in.
PipeLines ==
  {RunLine(<<Reader>>, 0, FALSE),
   RunLine(<<Big(Source), Reader, Big(Reader)>>, 0, FALSE),
   RunLine(<<Big(Source)>>, 2, FALSE),
   RunLine(<<Reader, Source, Reader>>, 1, TRUE),
   RunLine(<<Source, Reader, Reader, Reader, Reader>>, 2, FALSE),
   RunLine(<<>>, 1, FALSE),
   Word("builtin")}

\* The lines that np_simple and npshell treat differently, exit, and an output to
\* a file that leaves a number pipe empty.
SimpleLines ==
  {RunLine(<<Reader>>, 0, FALSE),
   RunLine(<<Source>>, 2, FALSE),
   RunLine(<<Reader, Reader>>, 1, TRUE),
   RunLine(<<Big(Source), Big(Reader), Reader>>, 2, TRUE),
   RunLine(<<[Big(Source) EXCEPT !.file = TRUE]>>, 1, FALSE),
   Word("builtin"), Word("exit")}
\* What the users of the two shells type.
SomeLines == [s \in {"npshell", "np_simple"} |-> IF s = "npshell" THEN PipeLines ELSE SimpleLines]
=============================================================================
