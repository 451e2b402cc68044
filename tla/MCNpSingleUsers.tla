--------------------------- MODULE MCNpSingleUsers ---------------------------
(* Commands for TLC's run of NpSingleUsers. *)
EXTENDS NpSingleUsers, TLC

Plainly(kind) == [kind |-> kind]

SomeCommands ==
  {Plainly("yell"), Plainly("run"), Plainly("garbled"), Plainly("exit"),
   [kind |-> "tell", id |-> 2], [kind |-> "setenv", var |-> "V"],
   [kind |-> "setenv", var |-> "PATH"],
   [kind |-> "printenv", var |-> "V"]}
  \cup {[kind |-> "name", name |-> n] : n \in Names}

SomePieces == {Plainly("unknown"), Plainly("blank"), Plainly("exit")}
=============================================================================
