---------------------------- MODULE NpMultiPipes ----------------------------
(***************************************************************************)
(* The user pipes of the multi-process server, np_multi_proc.cpp.          *)
(*                                                                         *)
(* A pipe from client s to client r is two flags, sendInfo[r] in the row   *)
(* of s and recvInfo[s] in the row of r, and one file.  Two processes set, *)
(* test and clear the flags, one access at a time and without a lock;      *)
(* commands of both, which outlive the line that started them, write and   *)
(* read the file.  mkfifo comes after the file has been created and fails, *)
(* so the file is a regular one: nobody waits for anybody to open it.      *)
(*                                                                         *)
(* Rows are taken and given back one access at a time too, so that a row   *)
(* may be taken while its flags are still being cleared, and a process     *)
(* whose client has gone is killed wherever it is.                         *)
(***************************************************************************)
EXTENDS Integers, Sequences, FiniteSets, SequencesExt

CONSTANTS
  Proc,        \* the processes forked for clients
  NoProc,      \* pid -1
  KMaxClient,  \* rows of the table
  Lines,       \* the lines a client may type; what holds of |n holds of !n
  MaxLines,    \* bound: lines of all clients
  MaxShared,   \* bound: lines of all clients if a row is shared
  MaxHangups   \* bound: processes killed by SIGPIPE

Rows == 1..KMaxClient

\* One command of a line, as IdentifyCmd and LegalCmd see it: what follows it, the
\* n of |n, the ids of >id and <id (0: none), and what kind of command it is.
Cmd ==
  {c \in [sign : {"None", "Pipe", "NumberPipe", "Write", "WriteUserPipe"},
          num : Nat, writeId : {0} \cup Rows, readId : {0} \cup Rows,
          kind : {"run", "unknown", "builtin", "exit"}] :
     (c.sign = "WriteUserPipe" <=> c.writeId # 0) /\ (c.sign = "Pipe" => c.num = 1)}

ASSUME PipeProcAssumption  == NoProc \notin Proc
ASSUME PipeLimitAssumption == 
  KMaxClient \in Nat \ {0} /\ {MaxLines, MaxShared, MaxHangups} \subseteq Nat
ASSUME PipeLinesAssumption == Lines \subseteq Seq(Cmd)

VARIABLES
  pid,       \* pid[i]: the process of row i or NoProc
  uid,       \* uid[i]: whether the uid of row i is i, and not -1
  sendInfo,  \* sendInfo[s][r]: flag r in the row of s
  recvInfo,  \* recvInfo[r][s]: flag s in the row of r
  row,       \* row[p]: shmCurrentAddr, 0 for null
  pc,        \* pc[p]: what p does next
  job,       \* job[p]: Shell's activation
  pipeV,     \* pipeV[p]: the pipes p knows
  file,      \* file[s][r]: whose output the file of s and r holds
  kids,      \* the running commands that read or write user pipes
  lines,     \* lines[p]: lines p has read
  gaveUp,    \* history: processes that left because an output did not open
  shared,    \* history: a row has been taken that another process still had
  made,      \* history: the user pipes, in the order of their creation
  latest,    \* history: latest[s][r], the last pipe made from s to r
  taken,     \* history: the pipes somebody opened to read
  spoilt     \* history: pipes whose file another pipe's writer wrote into

table == <<pid, uid, sendInfo, recvInfo>>
pipes == <<made, latest, taken, spoilt>>
history == <<gaveUp, shared, pipes>>
vars == <<table, row, pc, job, pipeV, file, kids, lines, history>>

\* cmds: the commands left; wr, rd: the pipes the command writes and reads; clean:
\* the pipe had been written and nobody was writing its file when it was opened;
\* to: whom the pipe in the making is for; i: the loops of SetClient, where it counts
\* the rows passed, and of ResetShmCurrent.
NoJob == [cmds |-> <<>>, isNumPipe |-> FALSE, wr |-> 0, rd |-> 0, clean |-> FALSE,
          to |-> NoProc, i |-> 0]

Init ==
  /\ pid = [i \in Rows |-> NoProc]
  /\ uid = [i \in Rows |-> FALSE]
  /\ sendInfo = [s \in Rows |-> [r \in Rows |-> FALSE]]
  /\ recvInfo = [r \in Rows |-> [s \in Rows |-> FALSE]]
  /\ row = [p \in Proc |-> 0]
  /\ pc = [p \in Proc |-> "unborn"]
  /\ job = [p \in Proc |-> NoJob]
  /\ pipeV = [p \in Proc |-> {}]
  /\ file = [s \in Rows |-> [r \in Rows |-> {}]]
  /\ kids = {}
  /\ lines = [p \in Proc |-> 0]
  /\ gaveUp = {}
  /\ shared = FALSE
  /\ made = <<>>
  /\ latest = [s \in Rows |-> [r \in Rows |-> 0]]
  /\ taken = {}
  /\ spoilt = {}

\* The places of a process: "unborn" in SetClient, "refused" for want of a row, "gone"
\* after ClearPipe, "crashed" in it, "dead" by SIGPIPE.
Places ==
  {"unborn", "setPid", "prompt", "cmd", "testRecv", "testSend", "open", "out", "testSent",
   "testReceived", "create", "setSend", "setRecv", "clearRecv", "clearSend", "fork",
   "exit", "resetUid", "reset", "refused", "gone", "crashed", "dead"}

Goto(p, to) == pc' = [pc EXCEPT ![p] = to]

\* The command p is at.
C(p) == Head(job[p].cmds)

HasClient(i) == uid[i]

-----------------------------------------------------------------------------
\* pipeV.  It lives in one process, and all of it is that process's own.

Numbered(n, sign) == [sign |-> sign, num |-> n, from |-> 0, to |-> 0]
UserPipe(s, r, sign) == [sign |-> sign, num |-> -1, from |-> s, to |-> r]

HasNumberedPipe(V, n, sign) == \E e \in V : e.num = n /\ e.sign = sign

CreatePipe(V, c) ==
  IF c.sign = "NumberPipe" /\ HasNumberedPipe(V, c.num, c.sign) THEN V
  ELSE V \cup {Numbered(c.num, c.sign)}

\* Mutant of ClosePipe: the entry of a read user pipe stays.
ClosePipeKeepsRead(V, me, readId, writeId) ==
  {e \in V : ~(\/ e.num = 0
               \/ e.from = me /\ e.to = writeId /\ e.sign = "WriteUserPipe")}

\* What a command has read and the user pipe it has written leave the list.
ClosePipe(V, me, readId, writeId) ==
  {e \in V : ~(\/ e.num = 0
               \/ e.from = me /\ e.to = writeId /\ e.sign = "WriteUserPipe"
               \/ e.from = readId /\ e.to = me /\ e.sign = "WriteUserPipeForRead")}

CountDown(V, signs) == {IF e.sign \in signs THEN [e EXCEPT !.num = @ - 1] ELSE e : e \in V}

ReducePipe(V) == CountDown(V, {"Pipe"})
ReducePipeNum(V) == CountDown(V, {"NumberPipe"})

-----------------------------------------------------------------------------
\* Login, and what the shell does before the user pipes.

\* Row i is p's: nothing but its uid says so yet.  Another process may be on its way
\* into the same row or still clear its flags, or have been killed while it did.
Take(p, i) ==
  /\ uid' = [uid EXCEPT ![i] = TRUE]
  /\ row' = [row EXCEPT ![p] = i]
  /\ job' = [job EXCEPT ![p] = NoJob]
  /\ shared' = (shared \/ \E q \in Proc : row[q] = i)
  /\ Goto(p, "setPid")

\* One turn of SetClient's loop: the first row without a pid is taken.  (That its pid is
\* read and its uid written in one step hides nothing, as in NpMultiTable.)  Behind the
\* last row SetClient returns nullptr, which the next statement writes through.
SetClient(p) ==
  LET i == job[p].i + 1
  IN  /\ pc[p] = "unborn"
      /\ \/ /\ pid[i] = NoProc
            /\ Take(p, i)
         \/ /\ pid[i] # NoProc /\ i < KMaxClient
            /\ job' = [job EXCEPT ![p].i = i]
            /\ UNCHANGED <<uid, row, shared, pc>>
         \/ /\ pid[i] # NoProc /\ i = KMaxClient
            /\ job' = [job EXCEPT ![p] = NoJob]
            /\ Goto(p, "refused")
            /\ UNCHANGED <<uid, row, shared>>
      /\ UNCHANGED <<pid, sendInfo, recvInfo, pipeV, file, kids, lines, gaveUp, pipes>>

SetPid(p) ==
  /\ pc[p] = "setPid"
  /\ pid' = [pid EXCEPT ![row[p]] = p]
  /\ Goto(p, "prompt")
  /\ UNCHANGED <<uid, sendInfo, recvInfo, row, job, pipeV, file, kids, lines, history>>

ReadLine(p, l) ==
  /\ pc[p] = "prompt"
  /\ FoldFunction(+, 0, lines) < IF shared THEN MaxShared ELSE MaxLines
  /\ lines' = [lines EXCEPT ![p] = @ + 1]
  /\ job' = [job EXCEPT ![p] = [NoJob EXCEPT !.cmds = l]]
  /\ Goto(p, "cmd")
  /\ UNCHANGED <<table, row, pipeV, file, kids, history>>

\* The client closes its connection: SIGPIPE ends the process at its next write.  The
\* handler writes the messages of others at any point, from the fd in p's row, which is
\* set with the uid and taken out with it.  (The row, its flags included, stays.)
Connected == Places \ {"unborn", "refused", "reset", "gone", "crashed", "dead"}

Hangup(p) ==
  /\ pc[p] \in Connected
  /\ Cardinality({q \in Proc : pc[q] = "dead"}) < MaxHangups
  /\ Goto(p, "dead")
  /\ job' = [job EXCEPT ![p] = NoJob]
  /\ pipeV' = [pipeV EXCEPT ![p] = {}]
  /\ UNCHANGED <<table, row, file, kids, lines, history>>

\* A built-in ends the line, exit ends Shell; an unknown command is skipped, and
\* with it ClosePipe and ReducePipe.
NotRun(p) ==
  /\ pc[p] = "cmd" /\ job[p].cmds # <<>> /\ C(p).kind # "run"
  /\ IF C(p).kind = "unknown"
     THEN /\ job' = [job EXCEPT ![p].cmds = Tail(@)]
          /\ UNCHANGED <<pc, pipeV>>
     ELSE /\ job' = [job EXCEPT ![p].cmds = <<>>]
          /\ pipeV' = [pipeV EXCEPT ![p] = ReducePipe(ClosePipe(@, row[p], C(p).readId, C(p).writeId))]
          /\ Goto(p, IF C(p).kind = "exit" THEN "exit" ELSE "cmd")
  /\ UNCHANGED <<table, row, file, kids, lines, history>>

-----------------------------------------------------------------------------
\* cmd <id: tests, then the file is opened.

\* HasClient(readId).  A client that is not there, or a pipe that is not, gives the
\* command /dev/null for its input.
TestSender(p) ==
  /\ pc[p] = "cmd" /\ job[p].cmds # <<>> /\ C(p).kind = "run" /\ C(p).readId # 0
  /\ Goto(p, IF HasClient(C(p).readId) THEN "testRecv" ELSE "out")
  /\ UNCHANGED <<table, row, job, pipeV, file, kids, lines, history>>

\* HasUserPipe, its first flag ...
TestRecv(p) ==
  /\ pc[p] = "testRecv"
  /\ Goto(p, IF recvInfo[row[p]][C(p).readId] THEN "testSend" ELSE "out")
  /\ UNCHANGED <<table, row, job, pipeV, file, kids, lines, history>>

\* ... and its second.
TestSend(p) ==
  /\ pc[p] = "testSend"
  /\ Goto(p, IF sendInfo[C(p).readId][row[p]] THEN "open" ELSE "out")
  /\ UNCHANGED <<table, row, job, pipeV, file, kids, lines, history>>

Writes(k, s, r) == k.wr # 0 /\ made[k.wr].s = s /\ made[k.wr].r = r
Reads(k, s, r)  == k.rd # 0 /\ made[k.rd].s = s /\ made[k.rd].r = r

\* open(pathName, O_RDONLY), and the entry SetStdInOut will look for.
OpenFifo(p) ==
  LET s == C(p).readId
      r == row[p]
      g == latest[s][r]
  IN  /\ pc[p] = "open"
      /\ job' = [job EXCEPT ![p].rd = g,
                   ![p].clean = /\ file[s][r] # {}
                                /\ \A k \in kids : ~Writes(k, s, r)
                                /\ \A q \in Proc : ~Writes(job[q], s, r)]
      /\ taken' = taken \cup {g}
      /\ pipeV' = [pipeV EXCEPT ![p] = @ \cup {UserPipe(s, r, "WriteUserPipeForRead")}]
      /\ Goto(p, "out")
      /\ UNCHANGED <<table, row, file, kids, lines, gaveUp, shared, made, latest, spoilt>>

-----------------------------------------------------------------------------
\* What follows the command: |, |n, > file, >id.

\* SetStdInOut: what was opened is found in pipeV again; if that is a user pipe to read,
\* ReadFifo clears its flags.
AfterOutput(p) == IF job[p].rd # 0 THEN "clearRecv" ELSE "fork"

\* The input of p's command is settled.
AtOutput(p) ==
  \/ pc[p] = "out"
  \/ pc[p] = "cmd" /\ job[p].cmds # <<>> /\ C(p).kind = "run" /\ C(p).readId = 0

\* A pipe or number pipe, no output sign, or a file that opens.
Output(p) ==
  /\ AtOutput(p) /\ C(p).sign # "WriteUserPipe"
  /\ IF C(p).sign \in {"Pipe", "NumberPipe"}
     THEN pipeV' = [pipeV EXCEPT ![p] = CreatePipe(@, C(p))]
     ELSE UNCHANGED pipeV
  /\ job' = [job EXCEPT ![p].isNumPipe = @ \/ C(p).sign = "NumberPipe"]
  /\ Goto(p, AfterOutput(p))
  /\ UNCHANGED <<table, row, file, kids, lines, history>>

\* A file that does not open: Shell returns in the middle of the line.
OpenFails(p) ==
  /\ AtOutput(p) /\ C(p).sign = "Write"
  /\ job' = [job EXCEPT ![p] = NoJob]
  /\ gaveUp' = gaveUp \cup {p}
  /\ Goto(p, "exit")
  /\ UNCHANGED <<table, row, pipeV, file, kids, lines, shared, pipes>>

\* Whom p finds when it looks for the client of row r: the process that has the row,
\* whether it has written its pid or not.
Found(r) ==
  IF HasClient(r) THEN {q \in Proc : row[q] = r} ELSE {NoProc}

\* >id: HasClient(writeId); the command of a client that is not there gets /dev/null.
TestReceiver(p) ==
  /\ AtOutput(p) /\ C(p).sign = "WriteUserPipe"
  /\ \E q \in Found(C(p).writeId) :
       /\ job' = [job EXCEPT ![p].isNumPipe = TRUE, ![p].to = q]
       /\ Goto(p, IF q # NoProc THEN "testSent" ELSE AfterOutput(p))
  /\ UNCHANGED <<table, row, pipeV, file, kids, lines, history>>

\* HasUserPipe, seen from the sender: its own flag, then the receiver's.
TestSent(p) ==
  /\ pc[p] = "testSent"
  /\ Goto(p, IF sendInfo[row[p]][C(p).writeId] THEN "testReceived" ELSE "create")
  /\ UNCHANGED <<table, row, job, pipeV, file, kids, lines, history>>

TestReceived(p) ==
  /\ pc[p] = "testReceived"
  /\ Goto(p, IF recvInfo[C(p).writeId][row[p]] THEN AfterOutput(p) ELSE "create")
  /\ UNCHANGED <<table, row, job, pipeV, file, kids, lines, history>>

\* Mutant of Contents: the file is opened without O_TRUNC.
ContentsKept(f) == f

\* What O_RDWR | O_CREAT | O_TRUNC leaves of a file.
Contents(f) == {}

\* The new pipe, for history: raced says that the receiver has opened the pipe before
\* it and not yet cleared both its flags.
NewPipe(p, r) ==
  [by |-> p, to |-> job[p].to, s |-> row[p], r |-> r,
   raced |-> \E q \in Proc : row[q] = r /\ job[q].rd # 0 /\ C(q).readId = row[p],
   crossed |-> FALSE, announced |-> FALSE]

\* Whoever reads the file of s and r no longer reads an undisturbed pipe.
Disturb(k, s, r) == IF Reads(k, s, r) THEN [k EXCEPT !.clean = FALSE] ELSE k

\* CreateFifo after the broadcast: the file is created or emptied, ...
CreateFifo(p) ==
  LET s == row[p]
      r == C(p).writeId
      g == Len(made) + 1
  IN  /\ pc[p] = "create"
      /\ made' = Append(made, NewPipe(p, r))
      /\ latest' = [latest EXCEPT ![s][r] = g]
      /\ file' = [file EXCEPT ![s][r] = Contents(@)]
      /\ job' = [q \in Proc |-> LET j == Disturb(job[q], s, r)
                                IN  IF q = p THEN [j EXCEPT !.wr = g] ELSE j]
      /\ kids' = {Disturb(k, s, r) : k \in kids}
      /\ Goto(p, "setSend")
      /\ UNCHANGED <<table, row, pipeV, lines, gaveUp, shared, taken, spoilt>>

\* ... the flag in the sender's row is set, ...
SetSend(p) ==
  /\ pc[p] = "setSend"
  /\ sendInfo' = [sendInfo EXCEPT ![row[p]][C(p).writeId] = TRUE]
  /\ Goto(p, "setRecv")
  /\ UNCHANGED <<pid, uid, recvInfo, row, job, pipeV, file, kids, lines, history>>

\* Mutant of Received: the row and the flag are swapped.
ReceivedSwapped(s, r) == [recvInfo EXCEPT ![s][r] = TRUE]

Received(s, r) == [recvInfo EXCEPT ![r][s] = TRUE]

\* q is not, or no longer, a client with row i.
Leaves(q, i) == row[q] # i \/ pc[q] \in {"resetUid", "reset"}

\* ... the one in the receiver's row, and the pipe enters pipeV.
SetRecv(p) ==
  LET r == C(p).writeId
      g == job[p].wr
  IN  /\ pc[p] = "setRecv"
      /\ recvInfo' = Received(row[p], r)
      /\ made' = [made EXCEPT ![g].announced = TRUE, ![g].crossed = Leaves(made[g].to, r)]
      /\ pipeV' = [pipeV EXCEPT ![p] = @ \cup {UserPipe(row[p], r, "WriteUserPipe")}]
      /\ Goto(p, AfterOutput(p))
      /\ UNCHANGED <<pid, uid, sendInfo, row, job, file, kids, lines, gaveUp, shared,
                     latest, taken, spoilt>>

-----------------------------------------------------------------------------
\* SetStdInOut and fork.

\* ReadFifo clears the flag of the reader's own row, ...
ClearRecv(p) ==
  /\ pc[p] = "clearRecv"
  /\ recvInfo' = [recvInfo EXCEPT ![row[p]][C(p).readId] = FALSE]
  /\ Goto(p, "clearSend")
  /\ UNCHANGED <<pid, uid, sendInfo, row, job, pipeV, file, kids, lines, history>>

\* ... then the sender's.
ClearSend(p) ==
  /\ pc[p] = "clearSend"
  /\ sendInfo' = [sendInfo EXCEPT ![C(p).readId][row[p]] = FALSE]
  /\ Goto(p, "fork")
  /\ UNCHANGED <<pid, uid, recvInfo, row, job, pipeV, file, kids, lines, history>>

\* The command, with its input and output.
Command(p, j) ==
  [by |-> p, line |-> lines[p], at |-> Len(j.cmds), wr |-> j.wr, rd |-> j.rd,
   clean |-> j.clean, got |-> {}, wrote |-> FALSE]

\* The command runs; p closes and forgets what it has used.  (Commands that have to
\* do with no user pipe are left out: to wait for one is to be slow in "wait".)
Fork(p) ==
  LET j == job[p]
  IN  /\ pc[p] = "fork"
      /\ kids' = kids \cup IF j.wr = 0 /\ j.rd = 0 THEN {} ELSE {Command(p, j)}
      /\ pipeV' = [pipeV EXCEPT ![p] = ReducePipe(ClosePipe(@, row[p], C(p).readId, C(p).writeId))]
      /\ job' = [job EXCEPT ![p] = [NoJob EXCEPT !.cmds = Tail(j.cmds), !.isNumPipe = j.isNumPipe]]
      /\ Goto(p, "cmd")
      /\ UNCHANGED <<table, row, file, lines, history>>

\* The end of the line: a line without |n and >id waits for its commands.
EndLine(p) ==
  /\ pc[p] = "cmd" /\ job[p].cmds = <<>>
  /\ job[p].isNumPipe \/ \A k \in kids : k.by # p \/ k.line # lines[p]
  /\ pipeV' = [pipeV EXCEPT ![p] = ReducePipeNum(@)]
  /\ job' = [job EXCEPT ![p] = NoJob]
  /\ Goto(p, "prompt")
  /\ UNCHANGED <<table, row, file, kids, lines, history>>

-----------------------------------------------------------------------------
\* ClientExit: ResetShmCurrent, then ClearPipe.

\* From here on the row can be taken, ...
ResetPid(p) ==
  /\ pc[p] = "exit"
  /\ pid' = [pid EXCEPT ![row[p]] = NoProc]
  /\ Goto(p, "resetUid")
  /\ UNCHANGED <<uid, sendInfo, recvInfo, row, job, pipeV, file, kids, lines, history>>

\* ... the uid of its new process be taken out, ...
ResetUid(p) ==
  /\ pc[p] = "resetUid"
  /\ uid' = [uid EXCEPT ![row[p]] = FALSE]
  /\ job' = [job EXCEPT ![p].i = 1]
  /\ Goto(p, "reset")
  /\ UNCHANGED <<pid, sendInfo, recvInfo, row, pipeV, file, kids, lines, history>>

\* Mutant of ResetFlags: only what the client sends is forgotten.
ResetSend(p, i) ==
  /\ sendInfo' = [sendInfo EXCEPT ![row[p]][i] = FALSE]
  /\ UNCHANGED recvInfo

\* (The two writes of a turn are one step: who tests a flag of this row tests one of
\* them only.)
ResetFlags(p, i) ==
  /\ sendInfo' = [sendInfo EXCEPT ![row[p]][i] = FALSE]
  /\ recvInfo' = [recvInfo EXCEPT ![row[p]][i] = FALSE]

LastFlag(i) == i = KMaxClient

\* ClearPipe asks shmCurrentAddr, null by now, for the uid of each pipe left: a process
\* that still has one crashes.
ClearPipe(p) == Goto(p, IF pipeV[p] = {} THEN "gone" ELSE "crashed")

\* ... and its flags be cleared, one turn of the loop after another; after the last,
\* shmCurrentAddr is null and ClearPipe follows.
Reset(p) ==
  /\ pc[p] = "reset"
  /\ ResetFlags(p, job[p].i)
  /\ IF LastFlag(job[p].i)
     THEN /\ job' = [job EXCEPT ![p] = NoJob]
          /\ row' = [row EXCEPT ![p] = 0]
          /\ ClearPipe(p)
     ELSE job' = [job EXCEPT ![p].i = @ + 1] /\ UNCHANGED <<row, pc>>
  /\ UNCHANGED <<pid, uid, pipeV, file, kids, lines, history>>

-----------------------------------------------------------------------------
\* The commands.  A file holds the outputs of some pipes' writers.

File(g) == file[made[g].s][made[g].r]

\* The writer of pipe k.wr writes.  It has its own position in the file, so that it
\* may overwrite what others have written.  One that reads nothing ends with that.
KidWrites(k) ==
  LET s == made[k.wr].s
      r == made[k.wr].r
  IN  /\ k.wr # 0 /\ ~k.wrote
      /\ \E f \in {file[s][r] \cup {k.wr}, {k.wr}} : file' = [file EXCEPT ![s][r] = f]
      /\ kids' = (kids \ {k}) \cup IF k.rd = 0 THEN {} ELSE {[k EXCEPT !.wrote = TRUE]}
      /\ spoilt' = IF latest[s][r] = k.wr THEN spoilt ELSE spoilt \cup {latest[s][r]}
      /\ UNCHANGED <<table, row, pc, job, pipeV, lines, gaveUp, shared, made, latest, taken>>

\* A reader reads on.
KidReads(k) ==
  /\ k.rd # 0 /\ ~(File(k.rd) \subseteq k.got)
  /\ kids' = (kids \ {k}) \cup {[k EXCEPT !.got = @ \cup File(k.rd)]}
  /\ UNCHANGED <<table, row, pc, job, pipeV, file, lines, history>>

\* It has read everything there is, or the file has become shorter than what it read.
AtEOF(k) == k.rd # 0 => File(k.rd) \subseteq k.got \/ ~(k.got \subseteq File(k.rd))

KidExit(k) ==
  /\ AtEOF(k)
  /\ k.wr # 0 => k.wrote
  /\ kids' = kids \ {k}
  /\ UNCHANGED <<table, row, pc, job, pipeV, file, lines, history>>

-----------------------------------------------------------------------------
\* A process whose uid another one has taken out uses -1 for an index: what it does then
\* is undefined, and it is not followed any further.
Astray(p) == row[p] # 0 /\ pc[p] # "reset" /\ ~uid[row[p]]

\* What p does by itself once it has a row, and a line.
Continue(p) ==
  \/ SetPid(p) \/ NotRun(p) \/ TestSender(p) \/ TestRecv(p) \/ TestSend(p) \/ OpenFifo(p)
  \/ Output(p) \/ OpenFails(p) \/ TestReceiver(p) \/ TestSent(p) \/ TestReceived(p)
  \/ CreateFifo(p) \/ SetSend(p) \/ SetRecv(p) \/ ClearRecv(p) \/ ClearSend(p)
  \/ Fork(p) \/ EndLine(p) \/ ResetPid(p) \/ ResetUid(p) \/ Reset(p)

KidStep(k) == KidWrites(k) \/ KidReads(k) \/ KidExit(k)

Client(p) == SetClient(p) \/ Hangup(p) \/ \E l \in Lines : ReadLine(p, l)

Next ==
  \/ \E p \in Proc : ~Astray(p) /\ (Continue(p) \/ Client(p))
  \/ \E k \in kids : KidStep(k)

Spec == Init /\ [][Next]_vars

-----------------------------------------------------------------------------
Pipes == DOMAIN made
PipeOrNone == {0} \cup Pipes

Entry == [sign : {"Pipe", "NumberPipe", "WriteUserPipe", "WriteUserPipeForRead"},
          num : Int, from : {0} \cup Rows, to : {0} \cup Rows]

\* The types of the table, the processes, the files and the commands.
TypeOK ==
  /\ pid \in [Rows -> Proc \cup {NoProc}]
  /\ uid \in [Rows -> BOOLEAN]
  /\ sendInfo \in [Rows -> [Rows -> BOOLEAN]]
  /\ recvInfo \in [Rows -> [Rows -> BOOLEAN]]
  /\ row \in [Proc -> {0} \cup Rows]
  /\ pc \in [Proc -> Places]
  /\ job \in [Proc -> [cmds : Seq(Cmd), isNumPipe : BOOLEAN, wr : PipeOrNone, rd : PipeOrNone,
                       clean : BOOLEAN, to : Proc \cup {NoProc}, i : {0} \cup Rows]]
  /\ pipeV \in [Proc -> SUBSET Entry]
  /\ file \in [Rows -> [Rows -> SUBSET Pipes]]
  /\ kids \subseteq [by : Proc, line : Nat, at : Nat, wr : PipeOrNone, rd : PipeOrNone,
                    clean : BOOLEAN, got : SUBSET Pipes, wrote : BOOLEAN]
  /\ lines \in [Proc -> Nat]
  /\ gaveUp \subseteq Proc
  /\ shared \in BOOLEAN
  /\ made \in Seq([by : Proc, to : Proc, s : Rows, r : Rows, raced : BOOLEAN,
                   crossed : BOOLEAN, announced : BOOLEAN])
  /\ latest \in [Rows -> [Rows -> PipeOrNone]]
  /\ taken \subseteq Pipes
  /\ spoilt \subseteq Pipes

\* Whoever reads a user pipe is the client it was made for, though the flags a client
\* leaves in the rows of others are never cleared (ClearClientTable is not called).
\* There are two ways round: the receiver was leaving, or had left, when its flag was
\* set; and a row was taken that another process still had: one that was clearing its
\* flags, or one killed before it came to them.
NoInheritedPipe ==
  \A p \in Proc : job[p].rd # 0 =>
    made[job[p].rd].to = p \/ made[job[p].rd].crossed \/ shared

\* A pipe that has been made, and announced, stays readable until it is read or one of
\* its two clients leaves: both its flags are set, whoever is killed at whatever point.
\* (A sender killed between its two flags has announced nothing.)  A pipe is lost only
\* if it was made while the one before it was being read, or two processes had a row.
PipeIsReadable ==
  \A s, r \in Rows :
    LET g == latest[s][r]
    IN  ( /\ g # 0 /\ g \notin taken /\ made[g].announced
          /\ pid[s] = made[g].by /\ pid[r] = made[g].to
          /\ ~made[g].raced /\ ~shared )
        => sendInfo[s][r] /\ recvInfo[r][s]

\* A command that reads a pipe whose writer had ended when it was opened reads what
\* that writer wrote, all of it and nothing else, unless a later pipe is made in the
\* meantime or the writer of an earlier one was still running when this one was made.
CleanInput ==
  \A k \in kids : (k.rd # 0 /\ k.clean /\ k.rd \notin spoilt) =>
    File(k.rd) = {k.rd} /\ k.got \subseteq {k.rd}

\* A client that leaves with `exit` has nothing in pipeV but number pipes: ClearPipe,
\* which asks a null pointer for the uid of whatever is left, crashes over no ordinary
\* pipe, even one whose reader was unknown, and over no user pipe.  One that leaves
\* because an output does not open may crash over the pipes that command was to read.
ExitForgetsPipes ==
  \A p \in Proc : pc[p] \in {"exit", "resetUid", "reset", "crashed"} =>
    \A e \in pipeV[p] :
      \/ e.sign = "NumberPipe"
      \/ p \in gaveUp /\ e.sign = "WriteUserPipeForRead"
      \/ p \in gaveUp /\ e.sign = "Pipe" /\ e.num = 0
=============================================================================
