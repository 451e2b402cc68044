-------------------------- MODULE MCConsoleSession --------------------------
(* Queries, files and outputs for TLC's run of ConsoleSession. *)
EXTENDS ConsoleSession, TLC

Give(letter, i, value) == [letter |-> letter, slot |-> i, value |-> value]
Server(i, f) == <<Give("h", i, 1), Give("p", i, 1), Give("f", i, f)>>

\* Three servers; two, and a file that is not there; a file that is given twice and has
\* no exit; a host only, before one that is complete.
SomeQueries ==
  {Server(0, 2) \o Server(1, 1) \o Server(2, 2), Server(0, 2) \o Server(2, 1) \o Server(1, 4),
   Server(0, 1) \o <<Give("f", 0, 3), Give("f", 0, 0)>>,
   <<Give("h", 0, 1), Give("f", 0, 0)>> \o Server(1, 1) \o Server(2, 2)}

SomeFiles == (1 :> <<FALSE, TRUE>>) @@ (2 :> <<TRUE>>) @@ (3 :> <<FALSE>>)

SomeOutputs == {<<>>, <<"other", "percent">>, <<"percent", "blank", "other">>}
=============================================================================
