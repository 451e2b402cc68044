------------------------------ MODULE NpSingle ------------------------------
(***************************************************************************)
(* The single-process chat shell, np_single_proc.cpp: one process selects  *)
(* over the sockets of all clients, runs one command line at a time, and   *)
(* wires the forked commands together with ordinary pipes, number pipes    *)
(* and user pipes that all live in one vector, pipeV.                      *)
(*                                                                         *)
(* A pipe is known here by a stamp: the position of its creation among all *)
(* creations.  pipeV is scanned front to back and only ever appended to or *)
(* erased from, so "the first match" of a scan is the match with the       *)
(* smallest stamp, and pipeV can be a set.                                 *)
(***************************************************************************)
EXTENDS Integers, Sequences, FiniteSets

CONSTANTS
  Conn,        \* connections a run may see; each is accepted at most once
  NoConn,      \* not a connection: the select loop is idle
  KMaxClient,  \* number of client ids
  Lines,       \* the command lines a client may send, already split by IdentifyCmd
  MaxLines     \* bound: lines read in one behaviour

NotYet == -2   \* a connection that has not been accepted
Gone   == -1   \* one that has logged out

Stdin   == 0   \* fd.in left at 0
Sock    == 0   \* fd.out left at the client's socket
DevNull == -1  \* fd.in or fd.out set to -1 by a user pipe error
File    == -2  \* fd.out set by > file

Signs == {"None", "Pipe", "NumberPipe", "ErrorPipe", "Write", "WriteUserPipe"}

\* One command as IdentifyCmd leaves it: sign and pipeNum from |, |n, !n;
\* writeId from >w; readId from <r (0 when absent).  "reads" and "big" describe
\* the program: whether it reads its input to the end, and whether it writes
\* more than a pipe can hold.
Cmd ==
  {c \in [kind : {"run", "builtin", "unknown", "exit"}, sign : Signs, pipeNum : Nat,
          writeId : 0..KMaxClient, readId : 0..KMaxClient, reads : BOOLEAN, big : BOOLEAN] :
     /\ c.sign = "Pipe" => c.pipeNum = 1
     /\ c.sign \in {"NumberPipe", "ErrorPipe"} => c.pipeNum >= 1
     /\ c.sign \in {"None", "Write", "WriteUserPipe"} => c.pipeNum = 0
     /\ (c.sign = "WriteUserPipe") = (c.writeId # 0)}

ASSUME ConnAssumption  == NoConn \notin Conn
ASSUME LimitAssumption == KMaxClient \in Nat \ {0} /\ MaxLines \in Nat
ASSUME LinesAssumption == Lines \subseteq Seq(Cmd)

VARIABLES
  id,       \* id[c]: the id given to connection c, or NotYet or Gone (clientV)
  ids,      \* ids[i]: id i is taken (ids[i - 1] in the code)
  pipeV,    \* the pipes the server holds open
  kids,     \* the forked commands still running
  shell,    \* the RunShell activation: its client, the rest of the line, isNumPipe, pidV
  nextPid,  \* pids are given in increasing order
  lines,    \* lines read so far
  born,     \* history: for each pipe ever made, who made it, on which line, for whom
  fed       \* history: the pipes that some command has had as its output

vars == <<id, ids, pipeV, kids, shell, nextPid, lines, born, fed>>

Idle == [conn |-> NoConn, rest |-> <<>>, isNumPipe |-> FALSE, pidV |-> {}]

Init ==
  /\ id = [c \in Conn |-> NotYet]
  /\ ids = [i \in 1..KMaxClient |-> FALSE]
  /\ pipeV = {}
  /\ kids = {}
  /\ shell = Idle
  /\ nextPid = 1
  /\ lines = 0
  /\ born = <<>>
  /\ fed = {}

-----------------------------------------------------------------------------
\* Operators on the table of ids and on pipeV.

\* The smallest free id, 0 when the table is full.
SetId ==
  IF \A i \in 1..KMaxClient : ids[i] THEN 0
  ELSE CHOOSE i \in 1..KMaxClient : ~ids[i] /\ \A j \in 1..(i - 1) : ids[j]

\* The connection IdentifyClientById finds, NoConn for end().
ClientWithId(i) ==
  IF \E c \in Conn : id[c] = i THEN CHOOSE c \in Conn : id[c] = i ELSE NoConn

IsUserPipe(p, sender, recver) ==
  p.senderId = sender /\ p.recverId = recver /\ p.sign = "WriteUserPipe"

HasUserPipe(sender, recver) == \E p \in pipeV : IsUserPipe(p, sender, recver)

HasNumberedPipe(n, sign, me) ==
  \E p \in pipeV : p.pipeNum = n /\ p.clientId = me /\ p.sign = sign

ReducePipe(P, me) ==
  {IF p.sign = "Pipe" /\ p.clientId = me THEN [p EXCEPT !.pipeNum = @ - 1] ELSE p : p \in P}

ReducePipeNum(P, me) ==
  {IF p.sign \in {"NumberPipe", "ErrorPipe"} /\ p.clientId = me
   THEN [p EXCEPT !.pipeNum = @ - 1] ELSE p : p \in P}

ClosePipe(P, me, readId) ==
  {p \in P : ~(p.pipeNum = 0 /\ p.clientId = me) /\ ~IsUserPipe(p, readId, me)}

\* Mutant of WithoutClient: user pipes to the leaving client stay.
WithoutSender(P, me) == {p \in P : p.clientId # me}

\* What RemoveClient keeps when the client with id me leaves.
WithoutClient(P, me) == {p \in P : p.clientId # me /\ p.recverId # me}

\* Mutant of FeedsInput: the receiver is not compared.
FeedsAnyReceiver(p, me, readId) ==
  \/ p.senderId = readId /\ p.sign = "WriteUserPipe"
  \/ p.pipeNum = 0 /\ p.clientId = me /\ readId = 0

\* Mutants of TakesOutput: pipeNum is off by one; the signs must be equal.
TakesOneEarlier(p, me, c) ==
  IF c.sign = "WriteUserPipe" THEN p.senderId = me /\ p.recverId = c.writeId
  ELSE p.pipeNum = c.pipeNum - 1 /\ p.clientId = me

TakesSameSign(p, me, c) ==
  IF c.sign = "WriteUserPipe" THEN p.senderId = me /\ p.recverId = c.writeId
  ELSE p.pipeNum = c.pipeNum /\ p.clientId = me /\ p.sign = c.sign

\* The two tests SetStdInOut makes on each element of pipeV.
FeedsInput(p, me, readId) ==
  \/ IsUserPipe(p, readId, me)
  \/ p.pipeNum = 0 /\ p.clientId = me /\ readId = 0

TakesOutput(p, me, c) ==
  IF c.sign = "WriteUserPipe" THEN p.senderId = me /\ p.recverId = c.writeId
  ELSE p.pipeNum = c.pipeNum /\ p.clientId = me

First(P) == CHOOSE p \in P : \A q \in P : p.fd <= q.fd

\* The input and the output SetStdInOut chooses for command c among the pipes P.
InputOf(P, me, c, error) ==
  LET S == {p \in P : FeedsInput(p, me, c.readId)}
  IN  IF error THEN DevNull ELSE IF S = {} THEN Stdin ELSE First(S).fd

OutputOf(P, me, c, error) ==
  LET S == {p \in P : TakesOutput(p, me, c)}
  IN  IF error THEN DevNull
      ELSE IF c.sign = "Write" THEN File
      ELSE IF c.sign = "None" \/ S = {} THEN Sock ELSE First(S).fd

-----------------------------------------------------------------------------
\* The process: the select loop of main, RunShell, and the kernel's part.

\* main, a connection is accepted.
Accept(c) ==
  /\ shell = Idle
  /\ id[c] = NotYet
  /\ id' = [id EXCEPT ![c] = SetId]
  /\ ids' = [i \in 1..KMaxClient |-> ids[i] \/ i = SetId]
  /\ UNCHANGED <<pipeV, kids, shell, nextPid, lines, born, fed>>

\* main, a socket has bytes: RunShell starts on them.
ReadLine(c, l) ==
  /\ shell = Idle
  /\ id[c] >= 0
  /\ lines < MaxLines
  /\ lines' = lines + 1
  /\ shell' = [conn |-> c, rest |-> l, isNumPipe |-> FALSE, pidV |-> {}]
  /\ UNCHANGED <<id, ids, pipeV, kids, nextPid, born, fed>>

\* RemoveClient, with the pipes P that are open when it is called.
RemoveClient(c, P) ==
  /\ pipeV' = WithoutClient(P, id[c])
  /\ ids' = [i \in 1..KMaxClient |-> ids[i] /\ i # id[c]]
  /\ id' = [id EXCEPT ![c] = Gone]

\* main, read returned 0 or an error: the client logs out.
Hangup(c) ==
  /\ shell = Idle
  /\ id[c] >= 0
  /\ RemoveClient(c, pipeV)
  /\ UNCHANGED <<kids, shell, nextPid, lines, born, fed>>

MyId == id[shell.conn]

\* RunShell has a command of the given kind in front of it.
At(kind) == shell # Idle /\ shell.rest # <<>> /\ Head(shell.rest).kind = kind

\* A built-in other than exit: its pipes are closed and the line is abandoned.
RunBuiltin ==
  /\ At("builtin")
  /\ pipeV' = ReducePipe(ClosePipe(pipeV, MyId, Head(shell.rest).readId), MyId)
  /\ shell' = [shell EXCEPT !.rest = <<>>]
  /\ UNCHANGED <<id, ids, kids, nextPid, lines, born, fed>>

\* exit: RunShell returns -1 at once, without waiting, and main logs the client out.
RunExit ==
  /\ At("exit")
  /\ RemoveClient(shell.conn, ReducePipe(ClosePipe(pipeV, MyId, Head(shell.rest).readId), MyId))
  /\ shell' = Idle
  /\ UNCHANGED <<kids, nextPid, lines, born, fed>>

\* LegalCmd found no such program: "continue" goes to the next command, and
\* neither ClosePipe nor ReducePipe is called.
SkipUnknown ==
  /\ At("unknown")
  /\ shell' = [shell EXCEPT !.rest = Tail(@)]
  /\ UNCHANGED <<id, ids, pipeV, kids, nextPid, lines, born, fed>>

\* The file of > file cannot be opened: RunShell returns -1, the client is logged out.
OpenFails ==
  /\ At("run") /\ Head(shell.rest).sign = "Write"
  /\ RemoveClient(shell.conn, pipeV)
  /\ shell' = Idle
  /\ UNCHANGED <<kids, nextPid, lines, born, fed>>

UserPipeInError(c) ==
  c.readId # 0 /\ (~ids[c.readId] \/ ~HasUserPipe(c.readId, MyId))

UserPipeOutError(c) ==
  c.sign = "WriteUserPipe" /\ (~ids[c.writeId] \/ HasUserPipe(MyId, c.writeId))

\* Command c makes a pipe.
Creates(c) ==
  \/ c.sign = "Pipe"
  \/ c.sign \in {"NumberPipe", "ErrorPipe"} /\ ~HasNumberedPipe(c.pipeNum, c.sign, MyId)
  \/ c.sign = "WriteUserPipe" /\ ~UserPipeOutError(c)

\* The element CreatePipe appends.
NewPipe(c) ==
  [fd |-> Len(born) + 1, sign |-> c.sign, clientId |-> MyId,
   pipeNum  |-> IF c.sign = "WriteUserPipe" THEN -1 ELSE c.pipeNum,
   senderId |-> IF c.sign = "WriteUserPipe" THEN MyId ELSE 0,
   recverId |-> c.writeId]

CreatePipe(c) == IF Creates(c) THEN pipeV \cup {NewPipe(c)} ELSE pipeV

\* Mutant of EndsHeld: SetStdInOut does not close the write end of the input.
EndsHeldWithInput(P, in) == {<<p.fd, e>> : p \in P, e \in {"r", "w"}}

\* Every pipe end a fork copies while the pipes P are open, except those of
\* the child's own input: the server has closed its write end, and the child
\* keeps the read end as its standard input.
EndsHeld(P, in) == {<<p.fd, e>> : p \in {q \in P : q.fd # in}, e \in {"r", "w"}}

\* DoCmd closes an uninitialised devNullOut when only the input is in error:
\* that may be any descriptor of the child, or none.
StrayClose(in, out, held) ==
  IF in = DevNull /\ out \notin {DevNull, Sock}
  THEN {{}} \cup {{e} : e \in held \ {<<out, "w">>}}
  ELSE {{}}

\* A program that exists: the user pipes are checked, the pipe is made, the
\* ends are chosen, the child is forked, and the pipes that were read are closed.
RunCmd ==
  /\ At("run")
  /\ LET c    == Head(shell.rest)
         P    == CreatePipe(c)
         in   == InputOf(P, MyId, c, UserPipeInError(c))
         out  == OutputOf(P, MyId, c, UserPipeOutError(c))
         held == EndsHeld(P, in)
     IN  /\ \E lost \in StrayClose(in, out, held) :
              kids' = kids \cup
                {[pid |-> nextPid, by |-> shell.conn, id |-> MyId, in |-> in, out |-> out,
                  holds |-> held \ lost, readId |-> c.readId, sign |-> c.sign,
                  made |-> IF Creates(c) THEN Len(born) + 1 ELSE 0,
                  reads |-> c.reads, big |-> c.big]}
         /\ pipeV' = ReducePipe(ClosePipe(P, MyId, c.readId), MyId)
         /\ born' = IF Creates(c)
                    THEN Append(born, [by |-> shell.conn, id |-> MyId, sign |-> c.sign,
                                       line |-> lines,
                                       to |-> IF c.sign = "WriteUserPipe"
                                              THEN ClientWithId(c.writeId) ELSE NoConn])
                    ELSE born
         /\ fed' = fed \cup ({out} \ {Sock, DevNull, File})
         /\ shell' = [shell EXCEPT !.rest = Tail(@), !.pidV = @ \cup {nextPid},
                        !.isNumPipe = @ \/ c.sign \in {"NumberPipe", "ErrorPipe", "WriteUserPipe"}]
  /\ nextPid' = nextPid + 1
  /\ UNCHANGED <<id, ids, lines>>

Running(pids) == \E k \in kids : k.pid \in pids

\* The line is used up: wait for its children unless the line ended in a number
\* or user pipe, count the number pipes down, and prompt.
EndLine ==
  /\ shell # Idle /\ shell.rest = <<>>
  /\ shell.isNumPipe \/ ~Running(shell.pidV)
  /\ pipeV' = ReducePipeNum(pipeV, MyId)
  /\ shell' = Idle
  /\ UNCHANGED <<id, ids, kids, nextPid, lines, born, fed>>

\* A reader sees the end of its input once nobody holds the write end.
AtEOF(k) ==
  k.in > 0 => /\ \A p \in pipeV : p.fd # k.in
              /\ \A j \in kids : <<k.in, "w">> \notin j.holds

\* More than a pipe holds can be written only while somebody reads it, or (the
\* writer is then killed) when nobody holds the read end.
Drained(k) ==
  k.out > 0 => \/ \E j \in kids : j.in = k.out /\ j.reads
               \/ /\ \A p \in pipeV : p.fd # k.out
                  /\ \A j \in kids : j.in # k.out /\ <<k.out, "r">> \notin j.holds

CanFinish(k) == (k.reads => AtEOF(k)) /\ (k.big => Drained(k))

KidExit(k) ==
  /\ CanFinish(k)
  /\ kids' = kids \ {k}
  /\ UNCHANGED <<id, ids, pipeV, shell, nextPid, lines, born, fed>>

ShellStep == RunBuiltin \/ RunExit \/ SkipUnknown \/ OpenFails \/ RunCmd \/ EndLine

Next ==
  \/ \E c \in Conn : Accept(c) \/ Hangup(c) \/ \E l \in Lines : ReadLine(c, l)
  \/ ShellStep
  \/ \E k \in kids : KidExit(k)

Spec == Init /\ [][Next]_vars

\* The server runs whenever it can, and some program ends whenever one can: a
\* program that has its input, and room for its output, does not run for ever.
FairSpec ==
  Spec /\ WF_vars(ShellStep) /\ WF_vars(\E k \in kids : KidExit(k))

-----------------------------------------------------------------------------
\* Properties.

PipeType ==
  [fd : Nat \ {0}, sign : Signs, pipeNum : Int, clientId : 0..KMaxClient,
   senderId : 0..KMaxClient, recverId : 0..KMaxClient]

KidType ==
  [pid : Nat, by : Conn, id : 0..KMaxClient, in : Nat \cup {DevNull},
   out : Nat \cup {DevNull, File}, holds : SUBSET ((Nat \ {0}) \X {"r", "w"}),
   readId : 0..KMaxClient, sign : Signs, made : Nat, reads : BOOLEAN, big : BOOLEAN]

\* Every variable stays in its type; in particular a pipe's ids are ids, a line
\* is run only for a connection that is logged in, and pids are below nextPid.
TypeOK ==
  /\ id \in [Conn -> {NotYet, Gone} \cup 0..KMaxClient]
  /\ ids \in [1..KMaxClient -> BOOLEAN]
  /\ pipeV \subseteq PipeType
  /\ kids \subseteq KidType
  /\ shell \in [conn : Conn \cup {NoConn}, rest : Seq(Cmd), isNumPipe : BOOLEAN, pidV : SUBSET Nat]
  /\ shell # Idle => shell.conn \in Conn /\ id[shell.conn] >= 0
  /\ nextPid \in Nat
  /\ lines \in Nat
  /\ born \in Seq([by : Conn, id : 0..KMaxClient, sign : Signs, line : Nat,
                   to : Conn \cup {NoConn}])
  /\ fed \subseteq Nat

\* ids[], which SetId and every "user does not exist" test read, and clientV,
\* which the broadcasts and IdentifyClientById read, agree: an id is marked taken
\* exactly when a client has it, and no two clients have the same id.
IdsMatchClients ==
  /\ \A i \in 1..KMaxClient : ids[i] = (\E c \in Conn : id[c] = i)
  /\ \A c, d \in Conn : id[c] = id[d] /\ id[c] > 0 => c = d

\* Ids are reused, and pipes are found by id only.  A pipe of id i was still
\* made by the client that has id i now, and a user pipe still leads to the client
\* it was addressed to: nobody inherits a predecessor's pipes after RemoveClient.
PipesBelongToTheLiving ==
  \A p \in pipeV :
    /\ p.fd \in DOMAIN born
    /\ p.clientId > 0 => id[born[p.fd].by] = p.clientId
    /\ p.sign = "WriteUserPipe" => /\ born[p.fd].to # NoConn
                                  /\ id[born[p.fd].to] = p.recverId

\* What an element of pipeV is: stamps are unique and refer to the history, only
\* user pipes have a sender and a receiver, and they keep pipeNum -1, so that no
\* number pipe test ever matches one; an ordinary pipe is always due (ReducePipe
\* ran since it was made).  Commands refer to pipes that were made, by their pids.
PipesAreBorn ==
  /\ \A p \in pipeV :
       /\ p.fd \in 1..Len(born)
       /\ born[p.fd].sign = p.sign /\ born[p.fd].id = p.clientId
       /\ IF p.sign = "WriteUserPipe"
          THEN p.pipeNum = -1 /\ p.senderId = p.clientId /\ p.recverId > 0
          ELSE p.senderId = 0 /\ p.recverId = 0
       /\ p.sign = "Pipe" => p.pipeNum = 0
       /\ \A q \in pipeV : p.fd = q.fd => p = q
  /\ \A k \in kids : k.in <= Len(born) /\ k.out <= Len(born) /\ k.pid < nextPid

\* A command of a client with an id reads only pipes that this very connection
\* made, or user pipes somebody addressed to it, and writes only pipes it made.
\* And any command reads a user pipe only if its line says <n, where n was the id of
\* the client that made the pipe.
NoCrossTalk ==
  \A k \in kids :
    /\ k.id > 0 =>
         /\ k.in > 0 => \/ born[k.in].sign # "WriteUserPipe" /\ born[k.in].by = k.by
                        \/ born[k.in].sign = "WriteUserPipe" /\ born[k.in].to = k.by
         /\ k.out > 0 => born[k.out].by = k.by
    /\ k.in > 0 /\ born[k.in].sign = "WriteUserPipe" => k.readId = born[k.in].id

\* Every child inherits the write end of every open pipe, so a reader may wait
\* for children that have nothing to do with it.  It waits only for children
\* forked before it, and never for the server: no two children wait for each other.
WaitsOnlyForEarlier ==
  \A k \in kids : k.in > 0 =>
    /\ \A p \in pipeV : p.fd # k.in
    /\ \A j \in kids : <<k.in, "w">> \in j.holds => j.pid < k.pid

\* A pipe whose command is running was handed to it: the output of a command with
\* a pipe sign goes into the pipe made for it, except that an earlier number pipe
\* of the same client, due at the same time, takes it.
OutputIsWired ==
  \A k \in kids : k.made > 0 /\ k.out # k.made =>
    /\ k.sign # "WriteUserPipe"
    /\ k.out \in 1..(k.made - 1)
    /\ born[k.out].sign \in {"NumberPipe", "ErrorPipe"} /\ born[k.out].id = k.id

\* What a pipe sign says: the output of a command with the sign | goes into the
\* pipe that was made for it, to be read by the next command of the line.
OrdinaryPipeIsWired == \A k \in kids : k.sign = "Pipe" => k.out = k.made

\* An ordinary pipe that was left behind, because no program that exists follows it on its
\* line, and that is still there after another line.
LeftBehind(p) == p.sign = "Pipe" /\ born[p.fd].line < lines - 1

\* When a command that asks for no user pipe starts, every pipe of its client that is
\* due and that some command has written to is its input: closing the others
\* (ClosePipe takes them all) loses nothing.  There are two exceptions.  A pipe that was
\* left behind may meet a number pipe that has become due since; and what a client without
\* an id has sent is read by commands that have not asked for it, for 0 is also the absence of <n.
NoOutputDropped ==
  [][\A k \in kids' \ kids : k.readId = 0 =>
       LET due == {p \in pipeV : p.clientId = k.id /\ p.pipeNum = 0}
       IN  \/ \A p \in due : p.fd \in fed => k.in = p.fd
           \/ \E p \in due : LeftBehind(p)
           \/ /\ k.in > 0
              /\ born[k.in].sign = "WriteUserPipe"]_vars

\* Every line is answered, so that the server gets back to its select loop and to the
\* other clients, unless a program is held up by output that nobody reads.
LineCompletes ==
  shell # Idle ~> shell = Idle \/ \E k \in kids : k.big /\ ~Drained(k)
=============================================================================
