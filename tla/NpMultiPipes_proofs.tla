------------------------ MODULE NpMultiPipes_proofs ------------------------
(***************************************************************************)
(* Theorems about the user pipes of the multi-process server, for every    *)
(* number of processes and rows and all command lines.                     *)
(*                                                                         *)
(* BaseInv says where each process is, what it knows there, whose the rows *)
(* are and where a pipe has been made; LastInv that the last pipe of two   *)
(* rows is known.  On them stand four invariants of their own: OwnerInv    *)
(* (who may find a flag) and ReadableInv (which flags are set), both for   *)
(* as long as no row is shared, ForgetInv (what pipeV holds) and CleanInv  *)
(* (what a file holds).  Each has lemmas for the actions that can disturb  *)
(* it, in the order of the actions.                                        *)
(***************************************************************************)
EXTENDS NpMultiPipes, SequenceTheorems, TLAPS

-----------------------------------------------------------------------------
\* Types and places.

JobType ==
  [cmds : Seq(Cmd), isNumPipe : BOOLEAN, wr : PipeOrNone, rd : PipeOrNone,
   clean : BOOLEAN, to : Proc \cup {NoProc}, i : {0} \cup Rows]

\* The command a process is at, and those after it.
LEMMA CommandsAreTyped ==
  ASSUME TypeOK, NEW p \in Proc
  PROVE  /\ job[p] \in JobType
         /\ NoJob \in JobType
         /\ job[p].cmds # <<>> =>
              /\ C(p) \in Cmd /\ C(p).readId \in {0} \cup Rows /\ C(p).writeId \in {0} \cup Rows
              /\ (C(p).sign = "WriteUserPipe" <=> C(p).writeId # 0)
              /\ Tail(job[p].cmds) \in Seq(Cmd)
<1>1. job[p] \in JobType
  BY DEF TypeOK, JobType
<1>2. NoJob \in JobType
  <2>1. <<>> \in Seq(Cmd)
    BY EmptySeq
  <2> QED BY <2>1 DEF NoJob, JobType, PipeOrNone
<1>3. ASSUME job[p].cmds # <<>>
      PROVE  /\ C(p) \in Cmd /\ C(p).readId \in {0} \cup Rows /\ C(p).writeId \in {0} \cup Rows
             /\ (C(p).sign = "WriteUserPipe" <=> C(p).writeId # 0)
             /\ Tail(job[p].cmds) \in Seq(Cmd)
  <2>1. job[p].cmds \in Seq(Cmd)
    BY <1>1 DEF JobType
  <2>2. Head(job[p].cmds) \in Cmd /\ Tail(job[p].cmds) \in Seq(Cmd)
    BY <1>3, <2>1, HeadTailProperties
  <2> QED BY <2>2 DEF C, Cmd
<1> QED BY <1>1, <1>2, <1>3

\* Where a process has no row.
Rowless == {"unborn", "refused", "gone", "crashed"}

\* Where a command is being prepared; where it may have its input, and its output.
Inside  == {"testRecv", "testSend", "open", "out", "testSent", "testReceived", "create",
            "setSend", "setRecv", "clearRecv", "clearSend", "fork"}
Opened  == Inside \ {"testRecv", "testSend", "open"}
Aiming  == {"testSent", "testReceived", "create", "setSend", "setRecv"}
Created == {"setSend", "setRecv", "clearRecv", "clearSend", "fork"}

PipeType == [by : Proc, to : Proc, s : Rows, r : Rows, raced : BOOLEAN, crossed : BOOLEAN,
             announced : BOOLEAN]

\* The pipes made are numbered from 1.
LEMMA PipesAreTyped ==
  ASSUME TypeOK
  PROVE  /\ Len(made) \in Nat /\ Pipes = 1..Len(made)
         /\ \A g \in Pipes : made[g] \in PipeType /\ g \in Nat /\ g # 0
<1>1. made \in Seq(PipeType)
  BY DEF TypeOK, PipeType
<1>2. Len(made) \in Nat /\ DOMAIN made = 1..Len(made)
  BY <1>1, LenProperties
<1> QED BY <1>1, <1>2, ElementOfSeq DEF Pipes

\* What p knows fits the place p is at, and its pipes are between the rows it thinks of.
LocalInv(p) ==
  /\ row[p] = 0 <=> pc[p] \in Rowless
  /\ pc[p] = "unborn" => job[p].i # KMaxClient
  /\ pc[p] \in Inside => job[p].cmds # <<>>
  /\ pc[p] \in {"testRecv", "testSend", "open"} => C(p).readId # 0
  /\ pc[p] \in {"testSend", "open"} => latest[C(p).readId][row[p]] # 0
  /\ pc[p] \in Aiming => C(p).writeId # 0 /\ job[p].to # NoProc
  /\ pc[p] \in {"setSend", "setRecv"} => job[p].wr # 0
  /\ pc[p] \in {"clearRecv", "clearSend"} => job[p].rd # 0
  /\ pc[p] = "reset" => job[p].i # 0
  /\ job[p].rd # 0 => /\ pc[p] \in Opened /\ C(p).readId # 0
                      /\ made[job[p].rd].s = C(p).readId /\ made[job[p].rd].r = row[p]
  /\ job[p].wr # 0 => /\ pc[p] \in Created /\ C(p).writeId # 0
                      /\ made[job[p].wr].by = p
                      /\ made[job[p].wr].s = row[p] /\ made[job[p].wr].r = C(p).writeId
                      /\ latest[row[p]][C(p).writeId] # 0
                      /\ shared \/ latest[row[p]][C(p).writeId] = job[p].wr

\* As long as no row is shared, whoever is leaving its row is no longer named in it, and
\* who is named in a row has it.
RowInv ==
  ~shared =>
    /\ \A p, q \in Proc : row[p] = row[q] /\ row[p] # 0 => p = q
    /\ \A p \in Proc : pc[p] \in {"resetUid", "reset"} => pid[row[p]] = NoProc
    /\ \A p \in Proc : pc[p] = "reset" => ~uid[row[p]]
    /\ \A i \in Rows : pid[i] # NoProc => row[pid[i]] = i

\* Flags are set only where a pipe has been made.
LatestInv ==
  \A s, r \in Rows :
    /\ latest[s][r] # 0 => made[latest[s][r]].s = s /\ made[latest[s][r]].r = r
    /\ latest[s][r] = 0 => file[s][r] = {} /\ ~sendInfo[s][r] /\ ~recvInfo[r][s]

\* The two ends of a pipe are processes that have come.
MadeInv ==
  /\ \A p \in Proc : job[p].to # NoProc => pc[job[p].to] # "unborn"
  /\ \A g \in Pipes : pc[made[g].by] # "unborn" /\ pc[made[g].to] # "unborn"

BaseInv == TypeOK /\ (\A p \in Proc : LocalInv(p)) /\ RowInv /\ LatestInv /\ MadeInv

\* A step of p by itself: p moves on, and its job and its pipes may change.
LEMMA PrivateStep ==
  ASSUME BaseInv, NEW p \in Proc, NEW j \in JobType, NEW x \in Places, NEW V \in SUBSET Entry,
         job' = [job EXCEPT ![p] = j], pc' = [pc EXCEPT ![p] = x],
         pipeV' = [pipeV EXCEPT ![p] = V], UNCHANGED <<table, row, file, kids, shared, pipes>>,
         gaveUp' \subseteq Proc,
         lines' \in [Proc -> Nat], row[p] # 0, x \notin Rowless \cup {"resetUid", "reset"},
         j.to # NoProc => pc[j.to] # "unborn",
         LocalInv(p)'
  PROVE  BaseInv'
<1> USE DEF BaseInv
<1>1. TypeOK'
  <2>1. job' \in [Proc -> JobType] /\ pipeV' \in [Proc -> SUBSET Entry] /\ pc' \in [Proc -> Places]
    BY DEF TypeOK, JobType
  <2>2. UNCHANGED <<made, Pipes, PipeOrNone, JobType>>
    BY DEF history, pipes, Pipes, PipeOrNone, JobType
  <2> QED BY <2>1, <2>2 DEF TypeOK, JobType, table, history, pipes
<1>2. ASSUME NEW q \in Proc PROVE LocalInv(q)'
  <2>1. q # p => UNCHANGED <<job[q], pc[q], C(q)>>
    BY DEF TypeOK, C
  <2> QED BY <2>1 DEF LocalInv, pipes
<1>3. RowInv'
  <2>1. \A q \in Proc : pc'[q] \in {"resetUid", "reset"} => pc'[q] = pc[q]
    BY DEF TypeOK
  <2> QED BY <2>1 DEF RowInv, table
<1>4. LatestInv'
  BY DEF TypeOK, LatestInv, table, history, pipes
<1>5. MadeInv'
  <2>1. \A q \in Proc : pc[q] # "unborn" => pc'[q] # "unborn"
    BY DEF TypeOK, Rowless
  <2>3. \A q \in Proc : job'[q].to # NoProc => pc'[job'[q].to] # "unborn"
    <3>1. \A q \in Proc : job[q].to \in Proc \cup {NoProc}
      BY DEF TypeOK
    <3>2. \A q \in Proc : job'[q] = IF q = p THEN j ELSE job[q]
      BY DEF TypeOK
    <3>3. j.to \in Proc \cup {NoProc}
      BY DEF JobType
    <3> QED BY <2>1, <3>1, <3>2, <3>3 DEF MadeInv
  <2>4. \A g \in Pipes : made[g].by \in Proc /\ made[g].to \in Proc
    BY PipesAreTyped DEF PipeType
  <2>5. UNCHANGED <<made, Pipes>>
    BY DEF history, pipes, Pipes
  <2> QED BY <2>1, <2>3, <2>4, <2>5 DEF MadeInv
<1> QED BY <1>1, <1>2, <1>3, <1>4, <1>5

\* What a place says of the command.
LEMMA InsideCommand ==
  ASSUME BaseInv, NEW p \in Proc, pc[p] \in Inside \/ AtOutput(p)
  PROVE  /\ job[p].cmds # <<>> /\ C(p) \in Cmd
         /\ C(p).readId \in {0} \cup Rows /\ C(p).writeId \in {0} \cup Rows
         /\ (C(p).sign = "WriteUserPipe" <=> C(p).writeId # 0)
         /\ Tail(job[p].cmds) \in Seq(Cmd)
         /\ row[p] \in Rows /\ row[p] # 0
<1>1. job[p].cmds # <<>>
  BY DEF BaseInv, LocalInv, AtOutput, Inside
<1>2. row[p] # 0 /\ row[p] \in {0} \cup Rows
  BY DEF BaseInv, LocalInv, AtOutput, Inside, TypeOK, Rowless
<1>3. TypeOK
  BY DEF BaseInv
<1> QED BY <1>1, <1>2, <1>3, CommandsAreTyped

\* The tests go from one place to another.
Tests(p) ==
  TestSender(p) \/ TestRecv(p) \/ TestSend(p) \/ TestSent(p) \/ TestReceived(p)

\* What a test finds decides where p goes; of a set flag it learns that a pipe has been made.
LEMMA TestsStep ==
  ASSUME BaseInv, NEW p \in Proc, Tests(p)
  PROVE  BaseInv'
<1>1. PICK x \in Places : pc' = [pc EXCEPT ![p] = x]
  <2>1. pc'[p] \in Places /\ pc' = [pc EXCEPT ![p] = pc'[p]]
    BY DEF Tests, TestSender, TestRecv, TestSend, TestSent, TestReceived, Goto, Places,
           AfterOutput, BaseInv, TypeOK
  <2> QED BY <2>1
<1>2. UNCHANGED <<table, row, job, pipeV, file, kids, lines, history>>
  BY DEF Tests, TestSender, TestRecv, TestSend, TestSent, TestReceived
<1>3. row[p] # 0 /\ x \notin Rowless \cup {"resetUid", "reset"}
  <2>1. pc[p] \notin Rowless /\ LocalInv(p)
    BY DEF Rowless, Tests, TestSender, TestRecv, TestSend, TestSent, TestReceived, BaseInv
  <2>2. pc'[p] = x /\ pc'[p] \notin Rowless \cup {"resetUid", "reset"}
    BY <1>1 DEF Rowless, Tests, TestSender, TestRecv, TestSend, TestSent, TestReceived,
       Goto, AfterOutput, BaseInv, TypeOK
  <2> QED BY <2>1, <2>2 DEF LocalInv
<1>4. LocalInv(p)'
  <2>1. UNCHANGED <<job[p], row[p], latest, made, shared, C(p)>> /\ pc'[p] = x
    BY <1>1, <1>2 DEF history, pipes, C, BaseInv, TypeOK
  <2>2. CASE TestSender(p)
    BY <1>1, <1>3, <2>1, <2>2 DEF TestSender, Goto, Rowless, BaseInv, TypeOK, LocalInv, Inside,
       Opened, Aiming, Created
  <2>3. CASE TestRecv(p)
    <3>1. recvInfo[row[p]][C(p).readId] => latest[C(p).readId][row[p]] # 0
      <4>1. row[p] \in Rows /\ C(p).readId \in Rows
        BY <2>3, InsideCommand DEF TestRecv, Inside, BaseInv, LocalInv
      <4> QED BY <4>1 DEF BaseInv, LatestInv
    <3> QED BY <1>1, <1>3, <2>1, <2>3, <3>1
            DEF TestRecv, Goto, Rowless, BaseInv, TypeOK, LocalInv, Inside, Opened, Aiming, Created
  <2>4. CASE TestSend(p)
    BY <1>1, <1>3, <2>1, <2>4 DEF TestSend, Goto, Rowless, BaseInv, TypeOK, LocalInv, Inside,
       Opened, Aiming, Created
  <2>5. CASE TestSent(p) \/ TestReceived(p)
    <3>1. /\ pc[p] \in {"testSent", "testReceived"}
          /\ \/ x \in {"testReceived", "create", "fork"}
             \/ x = "clearRecv" /\ job[p].rd # 0
      BY <1>1, <2>1, <2>5 DEF TestSent, TestReceived, Goto, AfterOutput, BaseInv, TypeOK
    <3> QED BY <1>3, <2>1, <3>1 DEF Rowless, BaseInv, LocalInv, Inside, Opened, Aiming, Created
  <2> QED BY <2>2, <2>3, <2>4, <2>5 DEF Tests
<1>5. job' = [job EXCEPT ![p] = job[p]] /\ pipeV' = [pipeV EXCEPT ![p] = pipeV[p]]
      /\ job[p] \in JobType /\ pipeV[p] \in SUBSET Entry /\ lines' \in [Proc -> Nat]
      /\ gaveUp' \subseteq Proc /\ UNCHANGED <<shared, pipes>>
      /\ (job[p].to # NoProc => pc[job[p].to] # "unborn")
  BY <1>2 DEF BaseInv, TypeOK, JobType, MadeInv, history
<1> QED BY <1>1, <1>2, <1>3, <1>4, <1>5, PrivateStep

\* The operations on pipeV keep its entries entries.
LEMMA PipesAreEntries ==
  ASSUME NEW V \in SUBSET Entry, NEW c \in Cmd, NEW s \in {0} \cup Rows,
         NEW m \in {0} \cup Rows, NEW n \in {0} \cup Rows
  PROVE  /\ ReducePipe(ClosePipe(V, s, m, n)) \in SUBSET Entry
         /\ ReducePipeNum(V) \in SUBSET Entry
         /\ c.sign \in {"Pipe", "NumberPipe"} => CreatePipe(V, c) \in SUBSET Entry
<1>1. \A e \in Entry : [e EXCEPT !.num = @ - 1] \in Entry
  BY DEF Entry
<1>2. ClosePipe(V, s, m, n) \subseteq V
  BY DEF ClosePipe
<1>3. ASSUME NEW U \in SUBSET Entry, NEW S PROVE CountDown(U, S) \in SUBSET Entry
  BY <1>1 DEF CountDown
<1>4. c.sign \in {"Pipe", "NumberPipe"} => Numbered(c.num, c.sign) \in Entry
  BY DEF Numbered, Entry, Cmd
<1> QED BY <1>2, <1>3, <1>4 DEF ReducePipe, ReducePipeNum, CreatePipe

\* Steps on p's own job and pipes.
Prepares(p) ==
  NotRun(p) \/ Output(p) \/ OpenFails(p) \/ TestReceiver(p) \/ EndLine(p) \/ Hangup(p)
  \/ \E l \in Lines : ReadLine(p, l)

\* Only TestReceiver learns of somebody else: the process it finds in the receiver's row.
LEMMA PreparesStep ==
  ASSUME BaseInv, NEW p \in Proc, Prepares(p)
  PROVE  BaseInv'
<1> DEFINE j == job'[p]
           V == pipeV'[p]
<1>1. /\ job' = [job EXCEPT ![p] = j] /\ pipeV' = [pipeV EXCEPT ![p] = V]
      /\ pc' = [pc EXCEPT ![p] = pc'[p]] /\ pc'[p] \in Places
      /\ UNCHANGED <<table, row, file, kids, shared, pipes>> /\ gaveUp' \subseteq Proc
  <2>1. /\ job \in [Proc -> JobType] /\ pipeV \in [Proc -> SUBSET Entry] /\ pc \in [Proc -> Places]
        /\ gaveUp \subseteq Proc
    BY DEF BaseInv, TypeOK, JobType
  <2> QED BY <2>1 DEF Prepares, NotRun, Output, OpenFails, TestReceiver, EndLine, ReadLine,
             Hangup, Goto,
             AfterOutput, Places, history
<1>2. lines' \in [Proc -> Nat]
  <2>1. lines \in [Proc -> Nat]
    BY DEF BaseInv, TypeOK
  <2>2. lines' = lines \/ lines' = [lines EXCEPT ![p] = lines[p] + 1]
    BY DEF Prepares, NotRun, Output, OpenFails, TestReceiver, EndLine, ReadLine, Hangup
  <2> QED BY <2>1, <2>2
<1>3. /\ row[p] # 0 /\ row[p] \in Rows
      /\ pc'[p] \notin Rowless \cup {"resetUid", "reset"}
  <2>1. pc[p] \notin Rowless /\ LocalInv(p)
    BY DEF BaseInv, Prepares, NotRun, Output, OpenFails, TestReceiver, EndLine, ReadLine, Hangup,
       AtOutput, Connected, Rowless
  <2>2. pc'[p] \notin Rowless \cup {"resetUid", "reset"}
    BY <2>1 DEF Prepares, NotRun, Output, OpenFails, TestReceiver, EndLine, ReadLine, Hangup, Goto,
       AfterOutput, BaseInv, TypeOK, Rowless
  <2> QED BY <2>1, <2>2 DEF LocalInv, BaseInv, TypeOK
<1>4. CASE NotRun(p)
  <2>1. /\ C(p) \in Cmd /\ C(p).readId \in {0} \cup Rows /\ C(p).writeId \in {0} \cup Rows
        /\ Tail(job[p].cmds) \in Seq(Cmd) /\ job[p] \in JobType /\ <<>> \in Seq(Cmd)
    BY <1>4, CommandsAreTyped, EmptySeq DEF NotRun, BaseInv
  <2>2. V \in SUBSET Entry
    <3>1. pipeV[p] \in SUBSET Entry /\ row[p] \in {0} \cup Rows
      BY DEF BaseInv, TypeOK
    <3>2. ReducePipe(ClosePipe(pipeV[p], row[p], C(p).readId, C(p).writeId)) \in SUBSET Entry
      BY <2>1, <3>1, PipesAreEntries
    <3> QED BY <1>4, <3>1, <3>2 DEF NotRun, BaseInv, TypeOK
  <2>3. /\ j = [job[p] EXCEPT !.cmds = j.cmds] /\ j.cmds \in Seq(Cmd) /\ j \in JobType
        /\ pc[p] = "cmd" /\ pc'[p] \in {"cmd", "exit"}
    <3>1. \/ j = [job[p] EXCEPT !.cmds = Tail(job[p].cmds)]
          \/ j = [job[p] EXCEPT !.cmds = <<>>]
      BY <1>4 DEF NotRun, BaseInv, TypeOK
    <3>2. pc[p] = "cmd" /\ pc'[p] \in {"cmd", "exit"}
      BY <1>4 DEF NotRun, Goto, BaseInv, TypeOK
    <3> HIDE DEF j
    <3>3. j = [job[p] EXCEPT !.cmds = j.cmds] /\ j.cmds \in Seq(Cmd)
      BY <2>1, <3>1 DEF JobType
    <3>4. j \in JobType
      BY <2>1, <3>3 DEF JobType
    <3> QED BY <3>2, <3>3, <3>4
  <2>4. LocalInv(p)'
    <3>1. j.rd = 0 /\ j.wr = 0
      BY <2>1, <2>3 DEF BaseInv, LocalInv, JobType, Opened, Created, Inside
    <3> QED BY <1>1, <1>3, <2>3, <3>1 DEF LocalInv, Inside, Opened, Aiming, Created, Rowless
  <2>5. j.to = job[p].to /\ (j.to # NoProc => pc[j.to] # "unborn")
    BY <2>1, <2>3 DEF JobType, BaseInv, MadeInv
  <2> QED BY <1>1, <1>2, <1>3, <2>2, <2>3, <2>4, <2>5, PrivateStep
<1>5. CASE Output(p)
  <2>1. /\ C(p) \in Cmd /\ job[p] \in JobType /\ job[p].cmds # <<>>
    BY <1>5, InsideCommand, CommandsAreTyped DEF Output, BaseInv
  <2>2. V \in SUBSET Entry
    <3>1. pipeV[p] \in SUBSET Entry
      BY DEF BaseInv, TypeOK
    <3>2. C(p).sign \in {"Pipe", "NumberPipe"} => CreatePipe(pipeV[p], C(p)) \in SUBSET Entry
      BY <2>1, <3>1, PipesAreEntries
    <3> QED BY <1>5, <3>1, <3>2 DEF Output, BaseInv, TypeOK
  <2>3. /\ j = [job[p] EXCEPT !.isNumPipe = j.isNumPipe] /\ j \in JobType
        /\ pc[p] \in {"out", "cmd"}
        /\ pc'[p] = IF job[p].rd # 0 THEN "clearRecv" ELSE "fork"
    BY <1>5, <2>1 DEF Output, AfterOutput, AtOutput, Goto, BaseInv, TypeOK, JobType
  <2>4. LocalInv(p)'
    <3>1. /\ j.rd = job[p].rd /\ j.wr = 0 /\ j.cmds = job[p].cmds /\ C(p)' = C(p)
      BY <2>1, <2>3 DEF BaseInv, LocalInv, JobType, Opened, Created, Inside, C
    <3>2. row'[p] = row[p] /\ made' = made /\ LocalInv(p)
      BY <1>1 DEF BaseInv, pipes
    <3> QED BY <1>1, <1>3, <2>1, <2>3, <3>1, <3>2 DEF LocalInv, Inside, Opened, Aiming, Created,
               Rowless
  <2>5. j.to = job[p].to /\ (j.to # NoProc => pc[j.to] # "unborn")
    BY <2>1, <2>3 DEF JobType, BaseInv, MadeInv
  <2> QED BY <1>1, <1>2, <1>3, <2>2, <2>3, <2>4, <2>5, PrivateStep
<1>6. CASE OpenFails(p) \/ EndLine(p) \/ Hangup(p) \/ \E l \in Lines : ReadLine(p, l)
  <2>1. V \in SUBSET Entry
    <3>1. pipeV[p] \in SUBSET Entry /\ row[p] \in {0} \cup Rows
      BY DEF BaseInv, TypeOK
    <3>2. ReducePipeNum(pipeV[p]) \in SUBSET Entry
      BY <3>1 DEF ReducePipeNum, CountDown, Entry
    <3> QED BY <1>6, <3>1, <3>2 DEF OpenFails, EndLine, ReadLine, Hangup, BaseInv, TypeOK
  <2>3. j \in JobType /\ j.to = NoProc /\ j.rd = 0 /\ j.wr = 0
    <3>1. NoJob \in JobType
      BY CommandsAreTyped DEF BaseInv
    <3>2. CASE j = NoJob
      BY <3>1, <3>2 DEF NoJob
    <3>3. ASSUME NEW l \in Seq(Cmd), j = [NoJob EXCEPT !.cmds = l]
          PROVE  j \in JobType /\ j.to = NoProc /\ j.rd = 0 /\ j.wr = 0
      BY <3>1, <3>3 DEF NoJob, JobType
    <3>4. j = NoJob \/ \E l \in Lines : j = [NoJob EXCEPT !.cmds = l]
      BY <1>6 DEF OpenFails, EndLine, ReadLine, Hangup, BaseInv, TypeOK
    <3> HIDE DEF j
    <3> QED BY <3>2, <3>3, <3>4, PipeLinesAssumption
  <2>4. pc'[p] \in {"exit", "prompt", "cmd", "dead"}
    BY <1>6 DEF OpenFails, EndLine, ReadLine, Hangup, Goto, BaseInv, TypeOK
  <2>5. LocalInv(p)'
    BY <1>1, <1>3, <2>3, <2>4 DEF LocalInv, Inside, Opened, Aiming, Created, Rowless
  <2> QED BY <1>1, <1>2, <1>3, <2>1, <2>3, <2>5, PrivateStep
<1>7. CASE TestReceiver(p)
  <2>1. /\ C(p) \in Cmd /\ job[p] \in JobType /\ job[p].cmds # <<>>
        /\ C(p).writeId \in Rows /\ C(p).writeId # 0
    BY <1>7, InsideCommand, CommandsAreTyped DEF TestReceiver, BaseInv
  <2>2. V \in SUBSET Entry
    BY <1>7 DEF TestReceiver, BaseInv, TypeOK
  <2>a. PICK q \in Found(C(p).writeId) :
          /\ j = [job[p] EXCEPT !.isNumPipe = TRUE, !.to = q]
          /\ pc[p] \in {"out", "cmd"}
          /\ pc'[p] = IF q # NoProc THEN "testSent" ELSE AfterOutput(p)
    BY <1>7 DEF TestReceiver, AtOutput, Goto, BaseInv, TypeOK, JobType
  <2>b. q # NoProc => q \in Proc /\ pc[q] # "unborn"
    BY <2>1 DEF Found, BaseInv, LocalInv, Rowless
  <2>3. j \in JobType /\ j.to = q
    BY <2>1, <2>a, <2>b DEF JobType
  <2>4. LocalInv(p)'
    <3>1. /\ j.rd = job[p].rd /\ j.wr = 0 /\ j.cmds = job[p].cmds /\ C(p)' = C(p)
      BY <2>1, <2>a DEF BaseInv, LocalInv, JobType, Opened, Created, Inside, C
    <3>2. row'[p] = row[p] /\ made' = made /\ LocalInv(p)
      BY <1>1 DEF BaseInv, pipes
    <3> QED BY <1>1, <1>3, <2>1, <2>3, <2>a, <3>1, <3>2
            DEF LocalInv, Inside, Opened, Aiming, Created, AfterOutput, Rowless
  <2>6. pc'[p] \in Places
    BY <1>1
  <2> HIDE DEF j, V
  <2> QED BY <1>1, <1>2, <1>3, <2>2, <2>3, <2>4, <2>b, <2>6, PrivateStep
<1> QED BY <1>4, <1>5, <1>6, <1>7 DEF Prepares

\* p looks at one row after another and takes the first without a pid; of a shared row
\* nothing more is said.
LEMMA SetClientStep ==
  ASSUME BaseInv, NEW p \in Proc, SetClient(p)
  PROVE  /\ BaseInv'
         /\ pc[p] = "unborn" /\ pc'[p] \in {"setPid", "unborn", "refused"}
         /\ job'[p].rd = 0 /\ job'[p].wr = 0 /\ job[p].rd = 0 /\ job[p].wr = 0
         /\ \A q \in Proc : q # p => UNCHANGED <<row[q], job[q], pc[q], C(q)>>
         /\ row[p] = 0 /\ (shared => shared')
<1> DEFINE i == job[p].i + 1
           k == row'[p]
           j == job'[p]
           x == pc'[p]
<1>1. /\ pc[p] = "unborn" /\ job[p] \in JobType /\ LocalInv(p) /\ row[p] = 0
      /\ i \in Rows /\ i # 0 /\ 0 \notin Rows /\ job[p].rd = 0 /\ job[p].wr = 0
  <2>1. pc[p] = "unborn" /\ job[p] \in JobType /\ LocalInv(p)
    BY DEF SetClient, BaseInv, TypeOK, JobType
  <2>2. job[p].i \in {0} \cup Rows /\ job[p].i # KMaxClient
    BY <2>1 DEF JobType, LocalInv
  <2>3. i \in Rows /\ i # 0 /\ 0 \notin Rows
    BY <2>2, PipeLimitAssumption DEF Rows
  <2> QED BY <2>1, <2>3 DEF LocalInv, Rowless, Opened, Created, Inside
<1>2. /\ UNCHANGED <<pid, sendInfo, recvInfo, pipeV, file, kids, lines, gaveUp, pipes>>
      /\ job' = [job EXCEPT ![p] = j] /\ pc' = [pc EXCEPT ![p] = x]
      /\ \/ /\ pid[i] = NoProc /\ uid' = [uid EXCEPT ![i] = TRUE] /\ row' = [row EXCEPT ![p] = i]
            /\ shared' = (shared \/ \E q \in Proc : row[q] = i) /\ j = NoJob /\ x = "setPid"
         \/ /\ UNCHANGED <<uid, row, shared>>
            /\ \/ i < KMaxClient /\ j = [job[p] EXCEPT !.i = i] /\ x = "unborn"
               \/ j = NoJob /\ x = "refused"
  BY <1>1 DEF SetClient, Take, Goto, BaseInv, TypeOK
<1>3. NoJob \in JobType
  BY CommandsAreTyped DEF BaseInv
<1>4. /\ j \in JobType /\ j.rd = 0 /\ j.wr = 0 /\ (j.to # NoProc => j.to = job[p].to)
      /\ x = "unborn" => j.i # KMaxClient
  <2>1. CASE j = NoJob /\ x \in {"setPid", "refused"}
    BY <1>3, <2>1 DEF NoJob
  <2>2. CASE i < KMaxClient /\ j = [job[p] EXCEPT !.i = i]
    <3> HIDE DEF i, j, x
    <3>1. j \in JobType /\ j.rd = 0 /\ j.wr = 0 /\ j.to = job[p].to /\ j.i = i
      BY <1>1, <2>2 DEF JobType
    <3> QED BY <1>1, <2>2, <3>1, PipeLimitAssumption DEF Rows
  <2> QED BY <1>2, <2>1, <2>2
<1>5. \A q \in Proc : q # p => UNCHANGED <<row[q], job[q], pc[q], C(q)>>
  BY <1>2 DEF BaseInv, TypeOK, C
<1>6. \/ k = i /\ x = "setPid" /\ j = NoJob
      \/ k = 0 /\ x \in {"unborn", "refused"}
  BY <1>1, <1>2 DEF BaseInv, TypeOK
<1>7. UNCHANGED <<made, latest, taken, spoilt, Pipes, PipeOrNone, JobType>>
  BY <1>2 DEF pipes, Pipes, PipeOrNone, JobType
<1> HIDE DEF i, j, x, k
<1>8. TypeOK'
  <2>1. job' \in [Proc -> JobType]
    BY <1>2, <1>4 DEF BaseInv, TypeOK, JobType
  <2>2. uid' \in [Rows -> BOOLEAN] /\ row' \in [Proc -> {0} \cup Rows]
    <3>1. uid \in [Rows -> BOOLEAN] /\ row \in [Proc -> {0} \cup Rows]
      BY DEF BaseInv, TypeOK
    <3>2. uid' = uid \/ uid' = [uid EXCEPT ![i] = TRUE]
      BY <1>2
    <3>3. row' = row \/ row' = [row EXCEPT ![p] = i]
      BY <1>2
    <3>4. uid' \in [Rows -> BOOLEAN]
      BY <3>1, <3>2
    <3>5. row' \in [Proc -> {0} \cup Rows]
      BY <1>1, <3>1, <3>3
    <3> QED BY <3>4, <3>5
  <2>4. shared' \in BOOLEAN
    <3>1. shared \in BOOLEAN
      BY DEF BaseInv, TypeOK
    <3> QED BY <1>2, <3>1, Zenon
  <2>3. pc' \in [Proc -> Places]
    BY <1>2, <1>6 DEF BaseInv, TypeOK, Places
  <2> QED BY <1>2, <1>7, <2>1, <2>2, <2>3, <2>4 DEF BaseInv, TypeOK, JobType
<1>a. shared => shared'
  BY <1>2
<1>9. ASSUME NEW q \in Proc PROVE LocalInv(q)'
  <2>1. LocalInv(q)
    BY DEF BaseInv
  <2>2. CASE q = p
    <3>1. pc'[p] = x /\ job'[p] = j /\ row'[p] = k
      BY <1>2 DEF BaseInv, TypeOK, k, x, j
    <3> QED BY <1>1, <1>4, <1>6, <2>2, <3>1
            DEF LocalInv, Inside, Opened, Aiming, Created, Rowless
  <2>3. CASE q # p
    BY <1>5, <1>7, <1>a, <2>1, <2>3 DEF LocalInv
  <2> QED BY <2>2, <2>3
<1>10. RowInv'
  <2>1. ASSUME ~shared', k = i PROVE \A q \in Proc : row[q] # i
    <3>1. row' # row
      BY <1>1, <2>1 DEF k
    <3> QED BY <1>2, <2>1, <3>1
  <2>2. ASSUME ~shared'
        PROVE  /\ \A q, r \in Proc : row'[q] = row'[r] /\ row'[q] # 0 => q = r
               /\ \A q \in Proc : pc'[q] \in {"resetUid", "reset"} => pid'[row'[q]] = NoProc
               /\ \A q \in Proc : pc'[q] = "reset" => ~uid'[row'[q]]
               /\ \A n \in Rows : pid'[n] # NoProc => row'[pid'[n]] = n
    <3>1. ~shared /\ RowInv
      BY <1>a, <2>2 DEF BaseInv
    <3>2. \A q \in Proc : row'[q] = IF q = p THEN k ELSE row[q]
      BY <1>5 DEF k
    <3>3. x \notin {"resetUid", "reset"} /\ \A q \in Proc : pc'[q] = IF q = p THEN x ELSE pc[q]
      BY <1>5, <1>6 DEF x
    <3>4. \A n \in Rows : pid[n] \in Proc \cup {NoProc} /\ (pid[n] # NoProc => pid[n] # p)
      BY <1>1, <3>1 DEF BaseInv, TypeOK, RowInv
    <3>5. \A q, r \in Proc : row'[q] = row'[r] /\ row'[q] # 0 => q = r
      BY <1>1, <1>6, <2>1, <2>2, <3>1, <3>2 DEF RowInv
    <3>6. \A q \in Proc : pc[q] = "reset" => q # p /\ uid'[row[q]] = uid[row[q]]
      <4>1. \A q \in Proc : pc[q] = "reset" => q # p /\ row[q] \in Rows
        BY <1>1 DEF BaseInv, TypeOK, LocalInv, Rowless
      <4>2. uid \in [Rows -> BOOLEAN]
        BY DEF BaseInv, TypeOK
      <4>3. CASE k = i
        BY <1>2, <2>1, <2>2, <4>1, <4>2, <4>3
      <4>4. CASE k # i
        <5>1. uid' = uid
          BY <1>1, <1>2, <4>4 DEF k, BaseInv, TypeOK
        <5> QED BY <4>1, <5>1
      <4> QED BY <4>3, <4>4
    <3> QED BY <1>2, <3>1, <3>2, <3>3, <3>4, <3>5, <3>6 DEF RowInv
  <2> QED BY <2>2 DEF RowInv
<1>11. LatestInv'
  BY <1>2, <1>7 DEF BaseInv, LatestInv
<1>12. MadeInv'
  <2>1. \A q \in Proc : pc'[q] = "unborn" => pc[q] = "unborn"
    BY <1>1, <1>5
  <2>2. /\ \A q \in Proc : job[q].to \in Proc \cup {NoProc}
        /\ \A h \in Pipes : made[h].by \in Proc /\ made[h].to \in Proc
    BY PipesAreTyped DEF BaseInv, TypeOK, PipeType
  <2>3. \A q \in Proc : job'[q].to # NoProc => job'[q].to = job[q].to
    BY <1>4, <1>5 DEF j
  <2> QED BY <1>7, <2>1, <2>2, <2>3 DEF BaseInv, MadeInv
<1>13. BaseInv'
  BY <1>8, <1>9, <1>10, <1>11, <1>12 DEF BaseInv
<1> QED BY <1>1, <1>4, <1>5, <1>6, <1>a, <1>13 DEF j, x

\* The pid is written by who has the row and wiped by who leaves it.
Marks(p) == SetPid(p) \/ ResetPid(p)

LEMMA MarksStep ==
  ASSUME BaseInv, NEW p \in Proc, Marks(p)
  PROVE  /\ BaseInv'
         /\ UNCHANGED <<uid, sendInfo, recvInfo, row, job, pipeV, file, kids, lines, history>>
         /\ pc[p] \in {"setPid", "exit"} /\ pc'[p] \in {"prompt", "resetUid"}
         /\ \A q \in Proc : C(q)' = C(q) /\ (q # p => pc'[q] = pc[q])
<1>1. /\ UNCHANGED <<uid, sendInfo, recvInfo, row, job, pipeV, file, kids, lines, history>>
      /\ pc' = [pc EXCEPT ![p] = pc'[p]]
      /\ \/ /\ pc[p] = "setPid" /\ pc'[p] = "prompt" /\ pid' = [pid EXCEPT ![row[p]] = p]
         \/ /\ pc[p] = "exit" /\ pc'[p] = "resetUid" /\ pid' = [pid EXCEPT ![row[p]] = NoProc]
  BY DEF Marks, SetPid, ResetPid, Goto, BaseInv, TypeOK
<1>2. row[p] \in Rows /\ row[p] # 0 /\ LocalInv(p)
  BY <1>1 DEF BaseInv, LocalInv, TypeOK, Rowless
<1>3. \A q \in Proc : C(q)' = C(q) /\ (q # p => pc'[q] = pc[q])
  BY <1>1 DEF C, BaseInv, TypeOK
<1>4. UNCHANGED <<made, latest, taken, spoilt, gaveUp, shared, Pipes, PipeOrNone, JobType>>
  BY <1>1 DEF history, pipes, Pipes, PipeOrNone, JobType
<1>5. TypeOK'
  <2>1. pc \in [Proc -> Places] /\ pid \in [Rows -> Proc \cup {NoProc}]
    BY DEF BaseInv, TypeOK
  <2>2. pc'[p] \in Places
    BY <1>1 DEF Places
  <2>3. pc' \in [Proc -> Places] /\ pid' \in [Rows -> Proc \cup {NoProc}]
    BY <1>1, <1>2, <2>1, <2>2
  <2> QED BY <1>1, <1>4, <2>3 DEF BaseInv, TypeOK, JobType
<1>6. ASSUME NEW q \in Proc PROVE LocalInv(q)'
  <2>1. LocalInv(q) /\ UNCHANGED <<row, job, made, latest, shared, C(q)>>
    BY <1>1, <1>3, <1>4 DEF BaseInv
  <2>2. CASE q = p
    BY <1>1, <2>1, <2>2 DEF LocalInv, Inside, Opened, Aiming, Created, Rowless
  <2>3. CASE q # p
    BY <1>3, <2>1, <2>3 DEF LocalInv
  <2> QED BY <2>2, <2>3
<1>7. RowInv'
  <2>1. SUFFICES ASSUME ~shared
                 PROVE  /\ \A q \in Proc : pc'[q] \in {"resetUid", "reset"} => pid'[row[q]] = NoProc
                        /\ \A q \in Proc : pc'[q] = "reset" => ~uid[row[q]]
                        /\ \A n \in Rows : pid'[n] # NoProc => row[pid'[n]] = n
    BY <1>1, <1>4 DEF BaseInv, RowInv
  <2>2. \A n \in Rows : pid'[n] = IF n = row[p] THEN pid'[row[p]] ELSE pid[n]
    BY <1>1, <1>2 DEF BaseInv, TypeOK
  <2>3. \/ pc'[p] = "prompt" /\ pid'[row[p]] = p
        \/ pc'[p] = "resetUid" /\ pid'[row[p]] = NoProc
    BY <1>1, <1>2 DEF BaseInv, TypeOK
  <2>4. \A q \in Proc : q # p => row[q] # row[p] /\ pc'[q] = pc[q]
    BY <1>2, <1>3, <2>1 DEF BaseInv, RowInv
  <2>5. \A q \in Proc : pc[q] \in {"resetUid", "reset"} => row[q] \in Rows
    BY DEF BaseInv, LocalInv, TypeOK, Rowless
  <2>6. \A n \in Rows : pid[n] # NoProc => pid[n] \in Proc
    BY DEF BaseInv, TypeOK
  <2> QED BY <2>1, <2>5, <2>6, <2>2, <2>3, <2>4 DEF BaseInv, RowInv
<1>8. LatestInv'
  BY <1>1, <1>4 DEF BaseInv, LatestInv
<1>9. MadeInv'
  <2>1. \A q \in Proc : pc'[q] = "unborn" => pc[q] = "unborn"
    BY <1>1, <1>3
  <2>2. /\ \A q \in Proc : job[q].to \in Proc \cup {NoProc}
        /\ \A h \in Pipes : made[h].by \in Proc /\ made[h].to \in Proc
    BY PipesAreTyped DEF BaseInv, TypeOK, PipeType
  <2> QED BY <1>1, <1>4, <2>1, <2>2 DEF BaseInv, MadeInv
<1>10. BaseInv'
  BY <1>5, <1>6, <1>7, <1>8, <1>9 DEF BaseInv
<1> QED BY <1>1, <1>3, <1>10

\* What p opens is the last pipe from the client it names to itself.
LEMMA OpenFifoStep ==
  ASSUME BaseInv, NEW p \in Proc, OpenFifo(p)
  PROVE  BaseInv'
<1> DEFINE s == C(p).readId
           r == row[p]
           g == latest[s][r]
           j == job'[p]
<1>1. /\ s \in Rows /\ r \in Rows /\ g \in Pipes /\ g # 0
      /\ made[g].s = s /\ made[g].r = r /\ job[p].cmds # <<>>
  <2>1. s \in Rows /\ r \in Rows /\ job[p].cmds # <<>> /\ g # 0
    BY InsideCommand DEF OpenFifo, Inside, BaseInv, LocalInv
  <2>2. g \in PipeOrNone
    BY <2>1 DEF BaseInv, TypeOK
  <2> QED BY <2>1, <2>2 DEF PipeOrNone, BaseInv, LatestInv
<1>2. /\ pc[p] = "open" /\ pc' = [pc EXCEPT ![p] = "out"]
      /\ taken' = taken \cup {g}
      /\ pipeV' = [pipeV EXCEPT ![p] = @ \cup {UserPipe(s, r, "WriteUserPipeForRead")}]
      /\ UNCHANGED <<table, row, file, kids, lines, gaveUp, shared, made, latest, spoilt>>
      /\ job' = [job EXCEPT ![p] = j]
      /\ j = [job[p] EXCEPT !.rd = g, !.clean = j.clean] /\ j.clean \in BOOLEAN
  BY DEF OpenFifo, Goto, BaseInv, TypeOK
<1>3. job[p] \in JobType
  BY DEF BaseInv, TypeOK, JobType
<1> HIDE DEF g, j
<1>4. j \in JobType /\ j.rd = g /\ j.wr = job[p].wr /\ j.cmds = job[p].cmds /\ j.to = job[p].to
      /\ UNCHANGED <<made, Pipes, PipeOrNone, JobType>>
  BY <1>1, <1>2, <1>3 DEF JobType, Pipes, PipeOrNone
<1>5. TypeOK'
  <2>1. job' \in [Proc -> JobType]
    BY <1>2, <1>4 DEF BaseInv, TypeOK, JobType
  <2>2. UserPipe(s, r, "WriteUserPipeForRead") \in Entry
    BY <1>1 DEF UserPipe, Entry
  <2> HIDE DEF r, s
  <2>3. pipeV' \in [Proc -> SUBSET Entry] /\ pc' \in [Proc -> Places] /\ taken' \subseteq Pipes
    BY <1>1, <1>2, <2>2 DEF BaseInv, TypeOK, Places
  <2> QED BY <1>2, <1>4, <2>1, <2>3 DEF BaseInv, TypeOK, JobType, table
<1>6. ASSUME NEW q \in Proc PROVE LocalInv(q)'
  <2>1. LocalInv(q)
    BY DEF BaseInv
  <2>2. CASE q = p
    <3>1. job'[p] = j /\ C(p)' = C(p) /\ row'[p] = row[p] /\ pc'[p] = "out"
      BY <1>2, <1>4 DEF BaseInv, TypeOK, C
    <3> QED BY <1>1, <1>2, <1>4, <2>1, <2>2, <3>1 DEF LocalInv, Inside, Opened, Aiming, Created,
               Rowless
  <2>3. CASE q # p
    <3>1. UNCHANGED <<row, latest, made, shared, job[q], pc[q], C(q)>>
      BY <1>2, <2>3 DEF BaseInv, TypeOK, C
    <3> QED BY <2>1, <3>1 DEF LocalInv
  <2> QED BY <2>2, <2>3
<1>7. RowInv'
  BY <1>2 DEF BaseInv, TypeOK, RowInv, table
<1>8. LatestInv'
  BY <1>2 DEF BaseInv, TypeOK, LatestInv, table
<1>9. MadeInv'
  <2>1. \A q \in Proc : job'[q].to = job[q].to
    BY <1>2, <1>4 DEF BaseInv, TypeOK
  <2>2. \A q \in Proc : pc'[q] = "unborn" => pc[q] = "unborn"
    BY <1>2 DEF BaseInv, TypeOK
  <2>3. /\ \A q \in Proc : job[q].to \in Proc \cup {NoProc}
        /\ \A h \in Pipes : made[h].by \in Proc /\ made[h].to \in Proc
    BY PipesAreTyped DEF BaseInv, TypeOK, PipeType
  <2> QED BY <1>2, <1>4, <2>1, <2>2, <2>3 DEF BaseInv, MadeInv
<1> QED BY <1>5, <1>6, <1>7, <1>8, <1>9 DEF BaseInv

\* Flags are set and cleared.
Flips(p) == SetSend(p) \/ ClearRecv(p) \/ ClearSend(p)

\* A flag is set only by who has made a pipe, and cleared by who has one to read.
LEMMA FlipsStep ==
  ASSUME BaseInv, NEW p \in Proc, Flips(p)
  PROVE  /\ BaseInv'
         /\ row[p] \in Rows
         /\ SetSend(p) => C(p).writeId \in Rows
         /\ ClearRecv(p) \/ ClearSend(p) => C(p).readId \in Rows /\ job[p].rd # 0
         /\ \A s, r \in Rows :
              /\ sendInfo'[s][r] <=>
                   \/ SetSend(p) /\ s = row[p] /\ r = C(p).writeId
                   \/ sendInfo[s][r] /\ ~(ClearSend(p) /\ s = C(p).readId /\ r = row[p])
              /\ recvInfo'[r][s] <=>
                   recvInfo[r][s] /\ ~(ClearRecv(p) /\ s = C(p).readId /\ r = row[p])
<1>1. /\ pc[p] \in Created /\ pc' = [pc EXCEPT ![p] = pc'[p]]
      /\ UNCHANGED <<pid, uid, row, job, pipeV, file, kids, lines, history>>
      /\ pc[p] = "setSend" => pc'[p] = "setRecv"
      /\ pc[p] # "setSend" => pc'[p] \in {"clearSend", "fork"} /\ job[p].rd # 0
  BY DEF Flips, SetSend, ClearRecv, ClearSend, Goto, Created, BaseInv, TypeOK, LocalInv
<1>2. row[p] \in Rows /\ C(p).readId \in {0} \cup Rows /\ C(p).writeId \in {0} \cup Rows
  BY <1>1, InsideCommand DEF Created, Inside
<1>a. /\ SetSend(p) => C(p).writeId \in Rows
      /\ ClearRecv(p) \/ ClearSend(p) => C(p).readId \in Rows
  <2>1. LocalInv(p)
    BY DEF BaseInv
  <2> QED BY <1>1, <1>2, <2>1 DEF SetSend, ClearRecv, ClearSend, LocalInv
<1>b. /\ sendInfo \in [Rows -> [Rows -> BOOLEAN]] /\ recvInfo \in [Rows -> [Rows -> BOOLEAN]]
      /\ SetSend(p) => /\ sendInfo' = [sendInfo EXCEPT ![row[p]][C(p).writeId] = TRUE]
                       /\ recvInfo' = recvInfo
      /\ ClearRecv(p) => /\ recvInfo' = [recvInfo EXCEPT ![row[p]][C(p).readId] = FALSE]
                         /\ sendInfo' = sendInfo
      /\ ClearSend(p) => /\ sendInfo' = [sendInfo EXCEPT ![C(p).readId][row[p]] = FALSE]
                         /\ recvInfo' = recvInfo
  BY DEF BaseInv, TypeOK, SetSend, ClearRecv, ClearSend
<1>c. /\ sendInfo' \in [Rows -> [Rows -> BOOLEAN]] /\ recvInfo' \in [Rows -> [Rows -> BOOLEAN]]
      /\ \A s, r \in Rows :
           /\ sendInfo'[s][r] <=>
                \/ SetSend(p) /\ s = row[p] /\ r = C(p).writeId
                \/ sendInfo[s][r] /\ ~(ClearSend(p) /\ s = C(p).readId /\ r = row[p])
           /\ recvInfo'[r][s] <=>
                recvInfo[r][s] /\ ~(ClearRecv(p) /\ s = C(p).readId /\ r = row[p])
  <2>0. /\ SetSend(p) => ~ClearSend(p) /\ ~ClearRecv(p)
        /\ ClearRecv(p) => ~ClearSend(p) /\ ~SetSend(p)
        /\ ClearSend(p) => ~ClearRecv(p) /\ ~SetSend(p)
    BY DEF SetSend, ClearRecv, ClearSend
  <2>1. CASE SetSend(p)
    <3>1. /\ row[p] \in Rows /\ C(p).writeId \in Rows
          /\ sendInfo' = [sendInfo EXCEPT ![row[p]][C(p).writeId] = TRUE]
      BY <1>a, <1>b, <1>2, <2>1
    <3>2. /\ sendInfo' \in [Rows -> [Rows -> BOOLEAN]] /\ recvInfo' = recvInfo
          /\ \A s, r \in Rows : sendInfo'[s][r] <=> (s = row[p] /\ r = C(p).writeId) \/ sendInfo[s][r]
      BY <1>b, <2>1, <3>1
    <3> QED BY <1>b, <2>0, <2>1, <3>2
  <2>2. CASE ClearRecv(p)
    <3>1. /\ row[p] \in Rows /\ C(p).readId \in Rows
          /\ recvInfo' = [recvInfo EXCEPT ![row[p]][C(p).readId] = FALSE]
      BY <1>a, <1>b, <1>2, <2>2
    <3>2. /\ recvInfo' \in [Rows -> [Rows -> BOOLEAN]] /\ sendInfo' = sendInfo
          /\ \A s, r \in Rows : recvInfo'[s][r] <=> ~(s = row[p] /\ r = C(p).readId) /\ recvInfo[s][r]
      BY <1>b, <2>2, <3>1
    <3> QED BY <1>b, <2>0, <2>2, <3>2
  <2>3. CASE ClearSend(p)
    <3>1. /\ C(p).readId \in Rows /\ row[p] \in Rows
          /\ sendInfo' = [sendInfo EXCEPT ![C(p).readId][row[p]] = FALSE]
      BY <1>a, <1>b, <1>2, <2>3
    <3>2. /\ sendInfo' \in [Rows -> [Rows -> BOOLEAN]] /\ recvInfo' = recvInfo
          /\ \A s, r \in Rows : sendInfo'[s][r] <=> ~(s = C(p).readId /\ r = row[p]) /\ sendInfo[s][r]
      BY <1>b, <2>3, <3>1
    <3> QED BY <1>b, <2>0, <2>3, <3>2
  <2> QED BY <2>1, <2>2, <2>3 DEF Flips
<1>3. TypeOK'
  <2>2. pc' \in [Proc -> Places]
    BY <1>1 DEF BaseInv, TypeOK, Places, Created
  <2> QED BY <1>1, <1>c, <2>2 DEF BaseInv, TypeOK, history, pipes, Pipes, PipeOrNone
<1>4. ASSUME NEW q \in Proc PROVE LocalInv(q)'
  <2>1. LocalInv(q)
    BY DEF BaseInv
  <2>2. UNCHANGED <<row, job, latest, made, shared, C(q)>> /\ (q # p => pc'[q] = pc[q])
    BY <1>1 DEF BaseInv, TypeOK, history, pipes, C
  <2>3. CASE q = p
    BY <1>1, <2>1, <2>2, <2>3 DEF LocalInv, Inside, Opened, Aiming, Created, Rowless
  <2> QED BY <2>1, <2>2, <2>3 DEF LocalInv
<1>5. RowInv'
  <2>1. \A q \in Proc : pc'[q] \in {"resetUid", "reset"} => pc'[q] = pc[q]
    BY <1>1 DEF BaseInv, TypeOK, Created
  <2> QED BY <1>1, <2>1 DEF BaseInv, RowInv, history
<1>6. LatestInv'
  <2>1. ASSUME NEW s \in Rows, NEW r \in Rows, latest[s][r] = 0
        PROVE  ~sendInfo'[s][r] /\ ~recvInfo'[r][s]
    <3>1. ~sendInfo[s][r] /\ ~recvInfo[r][s]
      BY <2>1 DEF BaseInv, LatestInv
    <3>2. SetSend(p) => latest[row[p]][C(p).writeId] # 0
      <4>1. LocalInv(p)
        BY DEF BaseInv
      <4> QED BY <4>1 DEF SetSend, LocalInv
    <3> QED BY <1>c, <2>1, <3>1, <3>2
  <2> QED BY <1>1, <2>1 DEF BaseInv, LatestInv, history, pipes
<1>7. MadeInv'
  <2>1. \A q \in Proc : pc'[q] = "unborn" <=> pc[q] = "unborn"
    BY <1>1 DEF BaseInv, TypeOK, Created
  <2>2. /\ \A q \in Proc : job[q].to \in Proc \cup {NoProc}
        /\ \A h \in Pipes : made[h].by \in Proc /\ made[h].to \in Proc
    BY PipesAreTyped DEF BaseInv, TypeOK, PipeType
  <2> QED BY <1>1, <2>1, <2>2 DEF BaseInv, MadeInv, history, pipes, Pipes
<1>8. BaseInv'
  BY <1>3, <1>4, <1>5, <1>6, <1>7 DEF BaseInv
<1>9. ClearRecv(p) \/ ClearSend(p) => job[p].rd # 0
  BY DEF BaseInv, LocalInv, ClearRecv, ClearSend
<1> QED BY <1>2, <1>a, <1>c, <1>8, <1>9

\* The second flag; of the pipe it belongs to, only crossed and announced change.
LEMMA SetRecvStep ==
  ASSUME BaseInv, NEW p \in Proc, SetRecv(p)
  PROVE  /\ BaseInv'
         /\ Pipes' = Pipes
         /\ row[p] \in Rows /\ C(p).writeId \in Rows /\ job[p].wr \in Pipes
         /\ made[job[p].wr].by = p
         /\ \A s, r \in Rows :
              recvInfo'[r][s] <=> recvInfo[r][s] \/ (r = C(p).writeId /\ s = row[p])
         /\ \A g \in Pipes :
              /\ UNCHANGED <<made[g].by, made[g].to, made[g].s, made[g].r, made[g].raced>>
              /\ g # job[p].wr => made'[g] = made[g]
         /\ made'[job[p].wr].crossed <=> Leaves(made[job[p].wr].to, C(p).writeId)
         /\ made'[job[p].wr].announced
         /\ pc'[p] \in {"clearRecv", "fork"} /\ \A q \in Proc : q # p => pc'[q] = pc[q]
<1> DEFINE r == C(p).writeId
           g == job[p].wr
           c == Leaves(made[g].to, r)
           m == [made[g] EXCEPT !.announced = TRUE, !.crossed = c]
<1>1. /\ row[p] \in Rows /\ r \in Rows /\ g \in Pipes /\ g # 0
      /\ made[g] \in PipeType /\ latest[row[p]][r] # 0 /\ made[g].by = p
  <2>1. row[p] \in Rows /\ r \in {0} \cup Rows /\ g # 0 /\ r # 0 /\ latest[row[p]][r] # 0
        /\ made[g].by = p
    BY InsideCommand DEF SetRecv, Inside, BaseInv, LocalInv
  <2>2. g \in PipeOrNone
    BY DEF BaseInv, TypeOK
  <2>3. g \in Pipes
    BY <2>1, <2>2 DEF PipeOrNone
  <2> QED BY <2>1, <2>3, PipesAreTyped DEF BaseInv
<1>2. /\ pc[p] = "setRecv" /\ pc' = [pc EXCEPT ![p] = AfterOutput(p)]
      /\ recvInfo' = [recvInfo EXCEPT ![r][row[p]] = TRUE]
      /\ made' = [made EXCEPT ![g].announced = TRUE, ![g].crossed = c]
      /\ pipeV' = [pipeV EXCEPT ![p] = @ \cup {UserPipe(row[p], r, "WriteUserPipe")}]
      /\ UNCHANGED <<pid, uid, sendInfo, row, job, file, kids, lines, gaveUp, shared,
                     latest, taken, spoilt>>
  BY DEF SetRecv, Received, Goto
<1>0. c \in BOOLEAN
  BY DEF Leaves
<1> HIDE DEF g, c
<1>3. /\ made' \in Seq(PipeType) /\ Pipes' = Pipes
      /\ \A h \in Pipes : made'[h] = IF h = g THEN m ELSE made[h]
  <2>1. made \in Seq(PipeType) /\ g \in 1..Len(made) /\ Len(made) \in Nat /\ DOMAIN made = 1..Len(made)
    BY <1>1, PipesAreTyped DEF BaseInv, TypeOK, PipeType, Pipes
  <2>2. m \in PipeType
    BY <1>0, <1>1 DEF PipeType
  <2>3. made' = [made EXCEPT ![g] = m]
    BY <1>1, <1>2, <2>1 DEF PipeType
  <2> HIDE DEF m
  <2>4. /\ made' \in Seq(PipeType) /\ Len(made') = Len(made)
        /\ \A h \in 1..Len(made) : made'[h] = IF h = g THEN m ELSE made[h]
    BY <2>1, <2>2, <2>3, ExceptSeq
  <2> QED BY <2>4, PipesAreTyped, LenProperties DEF Pipes, BaseInv
<1>b. m.by = made[g].by /\ m.to = made[g].to /\ m.s = made[g].s /\ m.r = made[g].r
      /\ m.raced = made[g].raced /\ m.crossed = c /\ m.announced
  BY <1>1 DEF PipeType
<1> HIDE DEF m
<1>4. \A h \in Pipes :
        /\ UNCHANGED <<made[h].by, made[h].to, made[h].s, made[h].r, made[h].raced>>
        /\ h # g => made'[h] = made[h]
  BY <1>1, <1>3, <1>b
<1>5. TypeOK'
  <2>1. UserPipe(row[p], r, "WriteUserPipe") \in Entry
    BY <1>1 DEF UserPipe, Entry
  <2>2. recvInfo' \in [Rows -> [Rows -> BOOLEAN]] /\ pc' \in [Proc -> Places]
    BY <1>1, <1>2 DEF BaseInv, TypeOK, Places, AfterOutput
  <2> HIDE DEF r
  <2>3. pipeV' \in [Proc -> SUBSET Entry]
    BY <1>2, <2>1 DEF BaseInv, TypeOK
  <2> QED BY <1>2, <1>3, <2>2, <2>3 DEF BaseInv, TypeOK, PipeType, PipeOrNone
<1>6. pc'[p] \in {"clearRecv", "fork"} /\ (pc'[p] = "clearRecv" => job[p].rd # 0)
      /\ \A q \in Proc : q # p => pc'[q] = pc[q]
  BY <1>2 DEF AfterOutput, BaseInv, TypeOK
<1>7. ASSUME NEW q \in Proc PROVE LocalInv(q)'
  <2>1. LocalInv(q) /\ job[q].rd \in PipeOrNone /\ job[q].wr \in PipeOrNone
    BY DEF BaseInv, TypeOK
  <2>2. UNCHANGED <<row, job, latest, shared, C(q)>>
    BY <1>2 DEF C
  <2>3. CASE q = p
    <3>1. /\ job[p].rd # 0 => made'[job[p].rd].s = made[job[p].rd].s /\ made'[job[p].rd].r = made[job[p].rd].r
          /\ made'[job[p].wr].by = made[job[p].wr].by
          /\ made'[job[p].wr].s = made[job[p].wr].s /\ made'[job[p].wr].r = made[job[p].wr].r
      BY <1>1, <1>4, <2>1, <2>3 DEF PipeOrNone, g
    <3>2. pc[p] = "setRecv"
      BY <1>2
    <3> QED BY <1>6, <2>1, <2>2, <2>3, <3>1, <3>2 DEF LocalInv, Inside, Opened, Aiming, Created,
               Rowless
  <2>4. CASE q # p
    BY <1>4, <1>6, <2>1, <2>2, <2>4 DEF LocalInv, PipeOrNone
  <2> QED BY <2>3, <2>4
<1>8. RowInv'
  <2>1. \A q \in Proc : pc'[q] \in {"resetUid", "reset"} => pc'[q] = pc[q]
    BY <1>2, <1>6
  <2> QED BY <1>2, <2>1 DEF BaseInv, RowInv
<1>9. LatestInv'
  <2>1. \A s, t \in Rows : latest[s][t] \in PipeOrNone
    BY DEF BaseInv, TypeOK
  <2>2. \A s, t \in Rows : recvInfo'[t][s] => recvInfo[t][s] \/ (t = r /\ s = row[p])
    BY <1>1, <1>2 DEF BaseInv, TypeOK
  <2> HIDE DEF r
  <2>3. ASSUME NEW s \in Rows, NEW t \in Rows
        PROVE  /\ latest[s][t] # 0 => made'[latest[s][t]].s = s /\ made'[latest[s][t]].r = t
               /\ latest[s][t] = 0 => file[s][t] = {} /\ ~sendInfo[s][t] /\ ~recvInfo'[t][s]
    BY <1>1, <1>4, <2>1, <2>2 DEF BaseInv, LatestInv, PipeOrNone
  <2>4. UNCHANGED <<latest, file, sendInfo>>
    BY <1>2
  <2> QED BY <2>3, <2>4 DEF LatestInv
<1>10. MadeInv'
  <2>1. \A q \in Proc : pc'[q] = "unborn" <=> pc[q] = "unborn"
    BY <1>2, <1>6
  <2>2. /\ \A q \in Proc : job[q].to \in Proc \cup {NoProc}
        /\ \A h \in Pipes : made[h].by \in Proc /\ made[h].to \in Proc
    BY PipesAreTyped DEF BaseInv, TypeOK, PipeType
  <2>3. MadeInv /\ UNCHANGED <<job, Pipes>>
    BY <1>2, <1>3 DEF BaseInv
  <2> QED BY <1>4, <2>1, <2>2, <2>3 DEF MadeInv
<1>11. BaseInv'
  BY <1>5, <1>7, <1>8, <1>9, <1>10 DEF BaseInv
<1>12. (made'[g].crossed <=> c) /\ made'[g].announced
  BY <1>1, <1>3, <1>b
<1>13. \A s, t \in Rows : recvInfo'[t][s] <=> recvInfo[t][s] \/ (t = r /\ s = row[p])
  BY <1>1, <1>2 DEF BaseInv, TypeOK
<1> QED BY <1>1, <1>3, <1>4, <1>6, <1>11, <1>12, <1>13 DEF g, c

\* CreateFifo makes the last pipe of the two rows; what was known of the others stays.
LEMMA CreateFifoStep ==
  ASSUME BaseInv, NEW p \in Proc, CreateFifo(p)
  PROVE  /\ BaseInv'
         /\ row[p] \in Rows /\ C(p).writeId \in Rows /\ job[p].to \in Proc
         /\ Len(made) + 1 \in Pipes' /\ Len(made) + 1 \notin Pipes
         /\ Pipes' = Pipes \cup {Len(made) + 1}
         /\ made'[Len(made) + 1] = NewPipe(p, C(p).writeId)
         /\ \A h \in Pipes : made'[h] = made[h]
         /\ \A s, r \in Rows : latest'[s][r] =
              IF s = row[p] /\ r = C(p).writeId THEN Len(made) + 1 ELSE latest[s][r]
         /\ \A q \in Proc : /\ UNCHANGED <<job[q].cmds, job[q].isNumPipe, job[q].rd, job[q].to, job[q].i>>
                            /\ C(q)' = C(q)
                            /\ job'[q].wr = IF q = p THEN Len(made) + 1 ELSE job[q].wr
<1> DEFINE s == row[p]
           r == C(p).writeId
           g == Len(made) + 1
<1>1. /\ s \in Rows /\ r \in Rows /\ job[p].to \in Proc /\ pc[p] = "create"
      /\ job[p].cmds # <<>> /\ LocalInv(p)
  BY InsideCommand DEF CreateFifo, Inside, BaseInv, TypeOK, LocalInv, Aiming
<1>2. /\ made' = Append(made, NewPipe(p, r))
      /\ latest' = [latest EXCEPT ![s][r] = g]
      /\ file' = [file EXCEPT ![s][r] = {}]
      /\ job' = [q \in Proc |-> LET j == Disturb(job[q], s, r)
                                IN  IF q = p THEN [j EXCEPT !.wr = g] ELSE j]
      /\ kids' = {Disturb(k, s, r) : k \in kids}
      /\ pc' = [pc EXCEPT ![p] = "setSend"]
      /\ UNCHANGED <<table, row, pipeV, lines, gaveUp, shared, taken, spoilt>>
  BY DEF CreateFifo, Goto, Contents
<1>3. NewPipe(p, r) \in PipeType /\ made \in Seq(PipeType) /\ Len(made) \in Nat
      /\ NewPipe(p, r).by = p /\ NewPipe(p, r).to = job[p].to
      /\ NewPipe(p, r).s = s /\ NewPipe(p, r).r = r
  BY <1>1, PipesAreTyped DEF NewPipe, PipeType, BaseInv, TypeOK
<1> HIDE DEF s, r, g
<1>4. /\ made' \in Seq(PipeType) /\ Pipes' = Pipes \cup {g} /\ g \notin Pipes /\ g # 0
      /\ made'[g] = NewPipe(p, r) /\ \A h \in Pipes : made'[h] = made[h]
  <2>1. /\ made' \in Seq(PipeType) /\ Len(made') = Len(made) + 1
        /\ \A h \in 1..Len(made) : made'[h] = made[h]
        /\ made'[Len(made) + 1] = NewPipe(p, r)
    BY <1>2, <1>3, AppendProperties
  <2>2. DOMAIN made = 1..Len(made) /\ DOMAIN made' = 1..Len(made')
    BY <1>3, <2>1, LenProperties
  <2> QED BY <1>3, <2>1, <2>2 DEF Pipes, g
<1>5. \A q \in Proc :
        /\ job'[q] = [job[q] EXCEPT !.clean = job'[q].clean, !.wr = job'[q].wr]
        /\ job'[q].clean \in BOOLEAN
        /\ job'[q].wr = IF q = p THEN g ELSE job[q].wr
  <2>1. ASSUME NEW q \in Proc
        PROVE  /\ job[q] \in JobType
               /\ \/ Disturb(job[q], s, r) = [job[q] EXCEPT !.clean = FALSE]
                  \/ Disturb(job[q], s, r) = job[q]
    BY DEF Disturb, BaseInv, TypeOK, JobType
  <2> QED BY <1>2, <2>1 DEF JobType
<1>6. \A q \in Proc :
        /\ UNCHANGED <<job[q].cmds, job[q].isNumPipe, job[q].rd, job[q].to, job[q].i>>
        /\ C(q)' = C(q)
        /\ job[q] \in JobType /\ job'[q] \in JobType'
  <2>1. ASSUME NEW q \in Proc
        PROVE  /\ UNCHANGED <<job[q].cmds, job[q].isNumPipe, job[q].rd, job[q].to, job[q].i>>
               /\ job[q] \in JobType /\ job'[q] \in JobType'
    <3>1. job[q] \in JobType
      BY DEF BaseInv, TypeOK, JobType
    <3>2. PipeOrNone' = PipeOrNone \cup {g} /\ job'[q].wr \in PipeOrNone'
      BY <1>4, <1>5, <3>1 DEF PipeOrNone, JobType
    <3>3. job'[q] = [cmds |-> job[q].cmds, isNumPipe |-> job[q].isNumPipe, wr |-> job'[q].wr,
                     rd |-> job[q].rd, clean |-> job'[q].clean, to |-> job[q].to, i |-> job[q].i]
      <4> DEFINE w == job'[q].wr
                 c == job'[q].clean
      <4>1. job'[q] = [job[q] EXCEPT !.clean = c, !.wr = w]
        BY <1>5
      <4> HIDE DEF w, c
      <4>2. job'[q] = [cmds |-> job[q].cmds, isNumPipe |-> job[q].isNumPipe, wr |-> w,
                       rd |-> job[q].rd, clean |-> c, to |-> job[q].to, i |-> job[q].i]
        BY <3>1, <4>1 DEF JobType
      <4> QED BY <4>2 DEF w, c
    <3>4. job[q].rd \in PipeOrNone' /\ job'[q].clean \in BOOLEAN
      BY <1>5, <3>1, <3>2 DEF JobType
    <3>5. [cmds |-> job[q].cmds, isNumPipe |-> job[q].isNumPipe, wr |-> job'[q].wr,
           rd |-> job[q].rd, clean |-> job'[q].clean, to |-> job[q].to, i |-> job[q].i] \in JobType'
      BY <3>1, <3>2, <3>4 DEF JobType
    <3>6. UNCHANGED <<job[q].cmds, job[q].isNumPipe, job[q].rd, job[q].to, job[q].i>>
      BY <3>3
    <3> QED BY <3>1, <3>3, <3>5, <3>6
  <2> QED BY <2>1 DEF C
<1>7. \A x, y \in Rows : latest'[x][y] = IF x = s /\ y = r THEN g ELSE latest[x][y]
  BY <1>1, <1>2 DEF BaseInv, TypeOK, s, r
<1>8. TypeOK'
  <2>1. job' \in [Proc -> JobType'] /\ PipeOrNone' = PipeOrNone \cup {g}
    <3>1. job' = [q \in Proc |-> job'[q]]
      BY <1>2
    <3> QED BY <1>4, <1>6, <3>1 DEF PipeOrNone
  <2>2. latest' \in [Rows -> [Rows -> PipeOrNone']]
    BY <1>1, <1>2, <2>1 DEF BaseInv, TypeOK, s, r
  <2>3. file' \in [Rows -> [Rows -> SUBSET Pipes']]
    BY <1>1, <1>2, <1>4 DEF BaseInv, TypeOK, s, r
  <2>4. kids' \subseteq [by : Proc, line : Nat, at : Nat, wr : PipeOrNone', rd : PipeOrNone',
                        clean : BOOLEAN, got : SUBSET Pipes', wrote : BOOLEAN]
    <3>1. ASSUME NEW k \in kids
          PROVE  Disturb(k, s, r) \in
                   [by : Proc, line : Nat, at : Nat, wr : PipeOrNone', rd : PipeOrNone',
                    clean : BOOLEAN, got : SUBSET Pipes', wrote : BOOLEAN]
      <4>1. k \in [by : Proc, line : Nat, at : Nat, wr : PipeOrNone, rd : PipeOrNone,
                  clean : BOOLEAN, got : SUBSET Pipes, wrote : BOOLEAN]
        BY DEF BaseInv, TypeOK
      <4>2. PipeOrNone \subseteq PipeOrNone' /\ Pipes \subseteq Pipes'
        BY <1>4, <2>1
      <4>3. Disturb(k, s, r) = k \/ Disturb(k, s, r) = [k EXCEPT !.clean = FALSE]
        BY DEF Disturb
      <4> QED BY <4>1, <4>2, <4>3
    <3> QED BY <1>2, <3>1
  <2>5. pc' \in [Proc -> Places] /\ taken' \subseteq Pipes' /\ spoilt' \subseteq Pipes'
    BY <1>2, <1>4 DEF BaseInv, TypeOK, Places
  <2> QED BY <1>2, <1>4, <2>1, <2>2, <2>3, <2>4, <2>5 DEF BaseInv, TypeOK, JobType, PipeType, table
<1>9. ASSUME NEW q \in Proc PROVE LocalInv(q)'
  <2>1. LocalInv(q) /\ job[q].rd \in PipeOrNone /\ job[q].wr \in PipeOrNone
    BY DEF BaseInv, TypeOK
  <2>2. pc'[q] = (IF q = p THEN "setSend" ELSE pc[q]) /\ row'[q] = row[q]
    BY <1>2 DEF BaseInv, TypeOK
  <2>3. CASE q = p
    <3>1. job[p].rd # 0 => made'[job[p].rd] = made[job[p].rd]
      BY <1>4, <2>1, <2>3 DEF PipeOrNone
    <3>2. C(p) = C(p)' /\ C(p).writeId # 0
      BY <1>1, <1>6 DEF LocalInv, Aiming
    <3>3. /\ UNCHANGED <<job[p].cmds, job[p].rd, job[p].to>> /\ C(p)' = C(p) /\ row'[p] = row[p]
          /\ job'[p].wr = g /\ pc'[p] = "setSend" /\ made'[g].by = p
          /\ made'[g].s = row[p] /\ made'[g].r = C(p).writeId
          /\ latest'[row[p]][C(p).writeId] = g
      BY <1>1, <1>3, <1>4, <1>5, <1>6, <1>7, <2>2, <2>3 DEF s, r
    <3> QED BY <1>1, <1>4, <2>3, <3>1, <3>2, <3>3 DEF LocalInv, Inside, Opened, Aiming, Created,
               Rowless
  <2>4. CASE q # p
    <3>1. /\ job[q].rd # 0 => made'[job[q].rd] = made[job[q].rd]
          /\ job[q].wr # 0 => made'[job[q].wr] = made[job[q].wr]
      BY <1>4, <2>1 DEF PipeOrNone
    <3>2. row[q] \in {0} \cup Rows /\ (pc[q] \in Inside => C(q).readId \in {0} \cup Rows /\ C(q).writeId \in {0} \cup Rows)
      BY InsideCommand DEF BaseInv, TypeOK
    <3>3. ~shared /\ row[q] = s => row[q] = 0
      BY <1>1, <2>4 DEF BaseInv, RowInv, s
    <3>4. 0 \notin Rows
      BY PipeLimitAssumption DEF Rows
    <3>5. pc[q] \in {"testSend", "open"} => latest'[C(q).readId][row[q]] # 0
      <4>1. pc[q] \in {"testSend", "open"} => C(q).readId \in Rows /\ row[q] \in Rows /\ latest[C(q).readId][row[q]] # 0
        BY <2>1, <3>2 DEF LocalInv, Inside, Rowless
      <4> QED BY <1>4, <1>7, <4>1
    <3>6. job[q].wr # 0 => /\ latest'[row[q]][C(q).writeId] # 0
                           /\ shared \/ latest'[row[q]][C(q).writeId] = job[q].wr
      <4>1. job[q].wr # 0 => /\ row[q] \in Rows /\ C(q).writeId \in Rows
                             /\ latest[row[q]][C(q).writeId] # 0
                             /\ shared \/ latest[row[q]][C(q).writeId] = job[q].wr
        BY <2>1, <3>2 DEF LocalInv, Inside, Created, Rowless
      <4> QED BY <1>4, <1>7, <3>3, <3>4, <4>1
    <3>7. /\ UNCHANGED <<job[q].cmds, job[q].rd, job[q].wr, job[q].to, job[q].i, shared>>
          /\ C(q)' = C(q) /\ row'[q] = row[q] /\ pc'[q] = pc[q]
      BY <1>2, <1>5, <1>6, <2>2, <2>4
    <3> QED BY <2>1, <3>1, <3>5, <3>6, <3>7 DEF LocalInv
  <2> QED BY <2>3, <2>4
<1>10. RowInv'
  <2>1. \A q \in Proc : pc'[q] \in {"resetUid", "reset"} => pc'[q] = pc[q]
    BY <1>1, <1>2 DEF BaseInv, TypeOK
  <2> QED BY <1>2, <2>1 DEF BaseInv, RowInv, table
<1>11. LatestInv'
  <2>1. ASSUME NEW x \in Rows, NEW y \in Rows
        PROVE  /\ latest'[x][y] # 0 => made'[latest'[x][y]].s = x /\ made'[latest'[x][y]].r = y
               /\ latest'[x][y] = 0 => file'[x][y] = {} /\ ~sendInfo[x][y] /\ ~recvInfo[y][x]
    <3>1. latest[x][y] # 0 => made'[latest[x][y]] = made[latest[x][y]]
      BY <1>4 DEF BaseInv, TypeOK, PipeOrNone
    <3>2. file'[x][y] = IF x = s /\ y = r THEN {} ELSE file[x][y]
      BY <1>1, <1>2 DEF BaseInv, TypeOK, s, r
    <3> QED BY <1>3, <1>4, <1>7, <3>1, <3>2 DEF BaseInv, LatestInv
  <2> QED BY <1>2, <2>1 DEF LatestInv, table
<1>12. MadeInv'
  <2>1. \A q \in Proc : pc'[q] = "unborn" => pc[q] = "unborn"
    BY <1>2 DEF BaseInv, TypeOK
  <2>2. /\ \A q \in Proc : job[q].to \in Proc \cup {NoProc}
        /\ \A h \in Pipes : made[h].by \in Proc /\ made[h].to \in Proc
    BY PipesAreTyped DEF BaseInv, TypeOK, PipeType
  <2>3. pc[p] # "unborn" /\ pc[job[p].to] # "unborn"
    BY <1>1, PipeProcAssumption DEF BaseInv, MadeInv
  <2> QED BY <1>1, <1>3, <1>4, <1>6, <2>1, <2>2, <2>3 DEF BaseInv, MadeInv
<1>13. BaseInv'
  BY <1>8, <1>9, <1>10, <1>11, <1>12 DEF BaseInv
<1> QED BY <1>1, <1>4, <1>5, <1>6, <1>7, <1>13 DEF s, r, g

KidType ==
  [by : Proc, line : Nat, at : Nat, wr : PipeOrNone, rd : PipeOrNone,
   clean : BOOLEAN, got : SUBSET Pipes, wrote : BOOLEAN]

\* The command takes the pipes with it, and p is at the next one.
LEMMA ForkStep ==
  ASSUME BaseInv, NEW p \in Proc, Fork(p)
  PROVE  BaseInv'
<1> DEFINE j == job[p]
           j2 == [NoJob EXCEPT !.cmds = Tail(j.cmds), !.isNumPipe = j.isNumPipe]
           V == ReducePipe(ClosePipe(pipeV[p], row[p], C(p).readId, C(p).writeId))
<1>1. /\ pc[p] = "fork" /\ pc' = [pc EXCEPT ![p] = "cmd"]
      /\ kids' = kids \cup IF j.wr = 0 /\ j.rd = 0 THEN {} ELSE {Command(p, j)}
      /\ pipeV' = [pipeV EXCEPT ![p] = V]
      /\ job' = [job EXCEPT ![p] = j2]
      /\ UNCHANGED <<table, row, file, lines, history>>
  BY DEF Fork, Goto
<1>2. /\ row[p] \in Rows /\ row[p] # 0 /\ j.cmds # <<>> /\ j \in JobType
      /\ Tail(j.cmds) \in Seq(Cmd) /\ V \in SUBSET Entry
  <2>1. pc[p] \in Inside
    BY <1>1 DEF Inside
  <2>2. pipeV[p] \in SUBSET Entry /\ j \in JobType /\ TypeOK
    BY DEF BaseInv, TypeOK, JobType
  <2> QED BY <2>1, <2>2, InsideCommand, PipesAreEntries
<1>3. j2 \in JobType /\ j2.wr = 0 /\ j2.rd = 0 /\ j2.to = NoProc
  <2>1. NoJob \in JobType
    BY CommandsAreTyped DEF BaseInv
  <2> QED BY <1>2, <2>1 DEF JobType, NoJob
<1> HIDE DEF V, j2
<1>4. UNCHANGED <<made, Pipes, PipeOrNone, JobType>>
  BY <1>1 DEF history, pipes, Pipes, PipeOrNone, JobType
<1>5. TypeOK'
  <2>1. Command(p, j) \in KidType
    <3>1. j.cmds \in Seq(Cmd) /\ lines[p] \in Nat
      BY <1>2 DEF JobType, BaseInv, TypeOK
    <3>2. Len(j.cmds) \in Nat
      BY <3>1, LenProperties
    <3> QED BY <1>2, <3>1, <3>2 DEF Command, KidType, JobType
  <2>2. kids' \subseteq KidType
    BY <1>1, <2>1 DEF BaseInv, TypeOK, KidType
  <2>3. /\ job' \in [Proc -> JobType] /\ pipeV' \in [Proc -> SUBSET Entry] /\ pc' \in [Proc -> Places]
    BY <1>1, <1>2, <1>3 DEF BaseInv, TypeOK, JobType, Places
  <2> QED BY <1>1, <1>4, <2>2, <2>3 DEF BaseInv, TypeOK, JobType, KidType, table, history, pipes
<1>6. ASSUME NEW q \in Proc PROVE LocalInv(q)'
  <2>1. LocalInv(q)
    BY DEF BaseInv
  <2>2. CASE q = p
    <3>1. job'[p] = j2 /\ pc'[p] = "cmd" /\ row'[p] = row[p]
      BY <1>1 DEF BaseInv, TypeOK
    <3> QED BY <1>2, <1>3, <2>2, <3>1 DEF LocalInv, Inside, Opened, Aiming, Created, Rowless
  <2>3. CASE q # p
    BY <1>1, <1>4, <2>1, <2>3 DEF BaseInv, TypeOK, LocalInv, C, table, history, pipes
  <2> QED BY <2>2, <2>3
<1>7. RowInv'
  <2>1. \A q \in Proc : pc'[q] \in {"resetUid", "reset"} => pc'[q] = pc[q]
    BY <1>1 DEF BaseInv, TypeOK
  <2> QED BY <1>1, <2>1 DEF BaseInv, RowInv, table, history
<1>8. LatestInv'
  BY <1>1 DEF BaseInv, TypeOK, LatestInv, table, history, pipes
<1>9. MadeInv'
  <2>1. \A q \in Proc : job'[q].to \in {job[q].to, NoProc}
    BY <1>1, <1>3 DEF BaseInv, TypeOK
  <2>2. \A q \in Proc : pc'[q] = "unborn" => pc[q] = "unborn"
    BY <1>1 DEF BaseInv, TypeOK
  <2>3. /\ \A q \in Proc : job[q].to \in Proc \cup {NoProc}
        /\ \A h \in Pipes : made[h].by \in Proc /\ made[h].to \in Proc
    BY PipesAreTyped DEF BaseInv, TypeOK, PipeType
  <2> QED BY <1>4, <2>1, <2>2, <2>3 DEF BaseInv, MadeInv
<1> QED BY <1>5, <1>6, <1>7, <1>8, <1>9 DEF BaseInv

\* After the pid, the uid of the row is wiped.
LEMMA ResetUidStep ==
  ASSUME BaseInv, NEW p \in Proc, ResetUid(p)
  PROVE  /\ BaseInv'
         /\ pc[p] = "resetUid" /\ row[p] \in Rows /\ pc' = [pc EXCEPT ![p] = "reset"]
         /\ \A q \in Proc : /\ UNCHANGED <<job[q].cmds, job[q].rd, job[q].wr, job[q].to, job[q].clean>>
                            /\ C(q)' = C(q)
                            /\ job'[q].i = IF q = p THEN 1 ELSE job[q].i
         /\ \A q \in Proc : q # p => job'[q] = job[q]
<1>1. /\ pc[p] = "resetUid" /\ pc' = [pc EXCEPT ![p] = "reset"]
      /\ uid' = [uid EXCEPT ![row[p]] = FALSE]
      /\ job' = [job EXCEPT ![p] = [job[p] EXCEPT !.i = 1]]
      /\ UNCHANGED <<pid, sendInfo, recvInfo, row, pipeV, file, kids, lines, history>>
  BY DEF ResetUid, Goto
<1>2. row[p] \in Rows /\ 1 \in Rows /\ job[p] \in JobType /\ LocalInv(p) /\ 0 \notin Rows
      /\ \A q \in Proc : row[q] \in {0} \cup Rows
  <2>1. LocalInv(p) /\ TypeOK
    BY DEF BaseInv
  <2>2. row[p] # 0
    BY <1>1, <2>1 DEF LocalInv, Rowless
  <2>3. 1 \in Rows /\ 0 \notin Rows
    BY PipeLimitAssumption DEF Rows
  <2>4. job[p] \in JobType /\ \A q \in Proc : row[q] \in {0} \cup Rows
    BY <2>1 DEF TypeOK, JobType
  <2> QED BY <2>1, <2>2, <2>3, <2>4
<1>3. UNCHANGED <<made, latest, taken, spoilt, gaveUp, shared, Pipes, PipeOrNone, JobType>>
  BY <1>1 DEF history, pipes, Pipes, PipeOrNone, JobType
<1>4. \A q \in Proc : /\ UNCHANGED <<job[q].cmds, job[q].rd, job[q].wr, job[q].to, job[q].clean>>
                      /\ job'[q].i = IF q = p THEN 1 ELSE job[q].i
                      /\ (q # p => job'[q] = job[q]) /\ job'[q] \in JobType
  <2>1. job \in [Proc -> JobType]
    BY DEF BaseInv, TypeOK, JobType
  <2> QED BY <1>1, <1>2, <2>1 DEF JobType
<1>5. \A q \in Proc : C(q)' = C(q)
  BY <1>4 DEF C
<1>6. TypeOK'
  <2>1. job' \in [Proc -> JobType] /\ uid' \in [Rows -> BOOLEAN] /\ pc' \in [Proc -> Places]
    BY <1>1, <1>2, <1>4 DEF BaseInv, TypeOK, JobType, Places
  <2> QED BY <1>1, <1>3, <2>1 DEF BaseInv, TypeOK, JobType
<1>7. ASSUME NEW q \in Proc PROVE LocalInv(q)'
  <2>1. LocalInv(q) /\ UNCHANGED <<row, made, latest, shared, C(q)>> /\ job[q].rd \in PipeOrNone /\ job[q].wr \in PipeOrNone
    BY <1>1, <1>3, <1>5 DEF BaseInv, TypeOK
  <2>2. pc'[q] = IF q = p THEN "reset" ELSE pc[q]
    BY <1>1 DEF BaseInv, TypeOK
  <2>3. CASE q = p
    BY <1>1, <1>4, <2>1, <2>2, <2>3 DEF LocalInv, Inside, Opened, Aiming, Created, Rowless
  <2>4. CASE q # p
    BY <1>4, <2>1, <2>2, <2>4 DEF LocalInv
  <2> QED BY <2>3, <2>4
<1>8. RowInv'
  <2>1. \A i \in Rows : uid'[i] = IF i = row[p] THEN FALSE ELSE uid[i]
    BY <1>1, <1>2 DEF BaseInv, TypeOK
  <2>2. \A q \in Proc : pc'[q] = IF q = p THEN "reset" ELSE pc[q]
    BY <1>1 DEF BaseInv, TypeOK
  <2>3. ASSUME ~shared, NEW q \in Proc, pc'[q] = "reset" PROVE ~uid'[row[q]]
    <3>1. row[q] \in Rows /\ (q # p => ~uid[row[q]])
      BY <1>1, <1>2, <2>2, <2>3 DEF BaseInv, LocalInv, RowInv, Rowless
    <3> QED BY <1>2, <2>1, <3>1
  <2>4. ASSUME ~shared, NEW q \in Proc, pc'[q] \in {"resetUid", "reset"} PROVE pid[row[q]] = NoProc
    BY <1>1, <2>2, <2>4 DEF BaseInv, RowInv
  <2>5. UNCHANGED <<pid, row, shared>> /\ RowInv
    BY <1>1, <1>3 DEF BaseInv
  <2> QED BY <2>3, <2>4, <2>5 DEF RowInv
<1>9. LatestInv'
  BY <1>1, <1>3 DEF BaseInv, LatestInv
<1>10. MadeInv'
  <2>1. \A q \in Proc : pc'[q] = "unborn" => pc[q] = "unborn"
    BY <1>1 DEF BaseInv, TypeOK
  <2>2. /\ \A q \in Proc : job[q].to \in Proc \cup {NoProc}
        /\ \A h \in Pipes : made[h].by \in Proc /\ made[h].to \in Proc
    BY PipesAreTyped DEF BaseInv, TypeOK, PipeType
  <2> QED BY <1>3, <1>4, <2>1, <2>2 DEF BaseInv, MadeInv
<1>11. BaseInv'
  BY <1>6, <1>7, <1>8, <1>9, <1>10 DEF BaseInv
<1> QED BY <1>1, <1>2, <1>4, <1>5, <1>11

LEMMA ResetStep ==
  ASSUME BaseInv, NEW p \in Proc, Reset(p)
  PROVE  /\ BaseInv'
         /\ pc[p] = "reset" /\ row[p] \in Rows /\ job[p].i \in Rows
         /\ \A s, r \in Rows :
              /\ sendInfo'[s][r] <=> (sendInfo[s][r] /\ ~(s = row[p] /\ r = job[p].i))
              /\ recvInfo'[r][s] <=> (recvInfo[r][s] /\ ~(r = row[p] /\ s = job[p].i))
         /\ job'[p].rd = 0 /\ job'[p].wr = 0 /\ job[p].rd = 0 /\ job[p].wr = 0
         /\ \/ /\ job[p].i = KMaxClient /\ row' = [row EXCEPT ![p] = 0]
               /\ pc'[p] \in {"gone", "crashed"}
            \/ row' = row /\ pc' = pc /\ job'[p].i = job[p].i + 1
         /\ \A q \in Proc : q # p => job'[q] = job[q] /\ C(q)' = C(q) /\ pc'[q] = pc[q]
<1> DEFINE i == job[p].i
           j == job'[p]
           x == pc'[p]
<1>1. /\ pc[p] = "reset" /\ row[p] \in Rows /\ row[p] # 0 /\ i \in Rows /\ job[p] \in JobType
      /\ job[p].rd = 0 /\ job[p].wr = 0 /\ LocalInv(p) /\ 0 \notin Rows
  <2>1. pc[p] = "reset" /\ LocalInv(p) /\ TypeOK
    BY DEF BaseInv, Reset
  <2>2. job[p] \in JobType /\ row[p] \in {0} \cup Rows
    BY <2>1 DEF TypeOK, JobType
  <2>3. row[p] # 0 /\ i # 0 /\ job[p].rd = 0 /\ job[p].wr = 0
    BY <2>1 DEF LocalInv, Opened, Inside, Created, Rowless
  <2>4. 0 \notin Rows
    BY PipeLimitAssumption DEF Rows
  <2> QED BY <2>1, <2>2, <2>3, <2>4 DEF JobType
<1>2. /\ sendInfo' = [sendInfo EXCEPT ![row[p]][i] = FALSE]
      /\ recvInfo' = [recvInfo EXCEPT ![row[p]][i] = FALSE]
      /\ UNCHANGED <<pid, uid, pipeV, file, kids, lines, history>>
      /\ \/ /\ i = KMaxClient /\ job' = [job EXCEPT ![p] = NoJob] /\ row' = [row EXCEPT ![p] = 0]
            /\ pc' = [pc EXCEPT ![p] = IF pipeV[p] = {} THEN "gone" ELSE "crashed"]
         \/ /\ i # KMaxClient /\ job' = [job EXCEPT ![p] = [job[p] EXCEPT !.i = i + 1]]
            /\ row' = row /\ pc' = pc
  BY DEF Reset, ResetFlags, LastFlag, ClearPipe, Goto
<1>3. /\ sendInfo' \in [Rows -> [Rows -> BOOLEAN]] /\ recvInfo' \in [Rows -> [Rows -> BOOLEAN]]
      /\ \A s, r \in Rows :
           /\ sendInfo'[s][r] <=> (sendInfo[s][r] /\ ~(s = row[p] /\ r = i))
           /\ recvInfo'[r][s] <=> (recvInfo[r][s] /\ ~(r = row[p] /\ s = i))
  <2>1. sendInfo \in [Rows -> [Rows -> BOOLEAN]] /\ recvInfo \in [Rows -> [Rows -> BOOLEAN]]
    BY DEF BaseInv, TypeOK
  <2> HIDE DEF i
  <2>2. /\ sendInfo' \in [Rows -> [Rows -> BOOLEAN]]
        /\ \A s, r \in Rows : sendInfo'[s][r] <=> (sendInfo[s][r] /\ ~(s = row[p] /\ r = i))
    BY <1>1, <1>2, <2>1
  <2>3. /\ recvInfo' \in [Rows -> [Rows -> BOOLEAN]]
        /\ \A s, r \in Rows : recvInfo'[r][s] <=> (recvInfo[r][s] /\ ~(r = row[p] /\ s = i))
    BY <1>1, <1>2, <2>1
  <2> QED BY <2>2, <2>3
<1>4. job \in [Proc -> JobType] /\ pc \in [Proc -> Places] /\ row \in [Proc -> {0} \cup Rows]
  BY DEF BaseInv, TypeOK, JobType
<1>5. j \in JobType /\ j.rd = 0 /\ j.wr = 0 /\ (j.to # NoProc => j.to = job[p].to)
  <2>1. CASE j = NoJob
    <3>1. NoJob \in JobType
      BY CommandsAreTyped DEF BaseInv
    <3> QED BY <2>1, <3>1 DEF NoJob
  <2>2. CASE i # KMaxClient /\ j = [job[p] EXCEPT !.i = i + 1]
    <3>1. i + 1 \in Rows
      BY <1>1, <2>2, PipeLimitAssumption DEF Rows
    <3> HIDE DEF i, j
    <3> QED BY <1>1, <2>2, <3>1 DEF JobType
  <2>3. j = NoJob \/ (i # KMaxClient /\ j = [job[p] EXCEPT !.i = i + 1])
    BY <1>2, <1>4
  <2> QED BY <2>1, <2>2, <2>3
<1>6. \/ /\ i = KMaxClient /\ row' = [row EXCEPT ![p] = 0] /\ x \in {"gone", "crashed"}
      \/ row' = row /\ pc' = pc /\ j.i = i + 1 /\ j.i # 0
  <2>1. i \in Nat
    BY <1>1, PipeLimitAssumption DEF Rows
  <2>2. CASE i = KMaxClient
    BY <1>2, <1>4, <2>2
  <2>3. CASE i # KMaxClient
    <3>1. j = [job[p] EXCEPT !.i = i + 1] /\ row' = row /\ pc' = pc
      BY <1>2, <1>4, <2>3
    <3> HIDE DEF i, j
    <3> QED BY <1>1, <2>1, <3>1 DEF JobType
  <2> QED BY <2>2, <2>3
<1>7. \A q \in Proc : q # p => job'[q] = job[q] /\ C(q)' = C(q) /\ pc'[q] = pc[q] /\ row'[q] = row[q]
  BY <1>2, <1>4 DEF C
<1>8. UNCHANGED <<made, latest, taken, spoilt, gaveUp, shared, Pipes, PipeOrNone, JobType>>
  BY <1>2 DEF history, pipes, Pipes, PipeOrNone, JobType
<1> HIDE DEF i, j, x
<1>9. TypeOK'
  <2>1. job' \in [Proc -> JobType]
    BY <1>2, <1>4, <1>5 DEF j
  <2>2. row' \in [Proc -> {0} \cup Rows] /\ pc' \in [Proc -> Places]
    BY <1>2, <1>4 DEF Places
  <2> QED BY <1>2, <1>3, <1>8, <2>1, <2>2 DEF BaseInv, TypeOK, JobType, history, pipes
<1>10. ASSUME NEW q \in Proc PROVE LocalInv(q)'
  <2>1. LocalInv(q) /\ UNCHANGED <<made, latest, shared>> /\ job[q].rd \in PipeOrNone /\ job[q].wr \in PipeOrNone
    BY <1>8 DEF BaseInv, TypeOK
  <2>2. CASE q = p
    <3>1. pc'[p] = x /\ job'[p] = j /\ \/ row'[p] = 0 /\ x \in {"gone", "crashed"}
                                       \/ row'[p] = row[p] /\ x = "reset" /\ j.i # 0
      BY <1>1, <1>4, <1>6 DEF x, j
    <3> QED BY <1>1, <1>5, <2>2, <3>1 DEF LocalInv, Inside, Opened, Aiming, Created, Rowless
  <2>3. CASE q # p
    BY <1>7, <2>1, <2>3 DEF LocalInv
  <2> QED BY <2>2, <2>3
<1>11. RowInv'
  <2>1. SUFFICES ASSUME ~shared
                 PROVE  /\ \A q, r \in Proc : row'[q] = row'[r] /\ row'[q] # 0 => q = r
                        /\ \A q \in Proc : pc'[q] \in {"resetUid", "reset"} => pid[row'[q]] = NoProc
                        /\ \A q \in Proc : pc'[q] = "reset" => ~uid[row'[q]]
                        /\ \A k \in Rows : pid[k] # NoProc => row'[pid[k]] = k
    BY <1>2, <1>8 DEF RowInv
  <2>2. RowInv /\ pid[row[p]] = NoProc
    BY <1>1, <2>1 DEF BaseInv, RowInv
  <2>3. \/ row'[p] = 0 /\ pc'[p] \in {"gone", "crashed"}
        \/ row'[p] = row[p] /\ pc'[p] = pc[p]
    BY <1>4, <1>6 DEF x
  <2>4. \A k \in Rows : pid[k] # NoProc => pid[k] \in Proc /\ row[pid[k]] = k /\ pid[k] # p
    BY <2>1, <2>2 DEF BaseInv, TypeOK, RowInv
  <2> QED BY <1>7, <2>1, <2>2, <2>3, <2>4 DEF RowInv
<1>12. LatestInv'
  BY <1>2, <1>3 DEF BaseInv, LatestInv, history, pipes
<1>13. MadeInv'
  <2>1. \A q \in Proc : pc'[q] = "unborn" => pc[q] = "unborn"
    BY <1>4, <1>6, <1>7 DEF x
  <2>2. /\ \A q \in Proc : job[q].to \in Proc \cup {NoProc}
        /\ \A h \in Pipes : made[h].by \in Proc /\ made[h].to \in Proc
    BY PipesAreTyped DEF BaseInv, TypeOK, PipeType
  <2>3. \A q \in Proc : job'[q].to # NoProc => job'[q].to = job[q].to
    BY <1>5, <1>7 DEF j
  <2> QED BY <1>8, <2>1, <2>2, <2>3 DEF BaseInv, MadeInv
<1> QED BY <1>1, <1>3, <1>5, <1>6, <1>7, <1>9, <1>10, <1>11, <1>12, <1>13 DEF BaseInv, i, j, x

\* Between the rows of a pipe there is a last pipe.
LastInv == \A g \in Pipes : latest[made[g].s][made[g].r] # 0

\* A command writes or reads a file; all else stays.
LEMMA KidStepKeeps ==
  ASSUME BaseInv, LastInv, NEW k \in kids, KidStep(k)
  PROVE  /\ BaseInv'
         /\ UNCHANGED <<table, row, pc, job, pipeV, lines, gaveUp, shared, made, latest, taken>>
<1>1. UNCHANGED <<table, row, pc, job, pipeV, lines, gaveUp, shared, made, latest, taken>>
  BY DEF KidStep, KidWrites, KidReads, KidExit, history, pipes
<1>2. k \in KidType /\ TypeOK /\ kids \subseteq KidType /\ spoilt \subseteq Pipes
  BY DEF BaseInv, TypeOK, KidType
<1>3. /\ \A g \in Pipes : made[g].s \in Rows /\ made[g].r \in Rows
      /\ UNCHANGED <<Pipes, PipeOrNone, JobType>>
      /\ file \in [Rows -> [Rows -> SUBSET Pipes]]
  BY <1>1, <1>2, PipesAreTyped DEF Pipes, PipeOrNone, JobType, PipeType, TypeOK
<1>4. file' \in [Rows -> [Rows -> SUBSET Pipes]] /\ kids' \subseteq KidType /\ spoilt' \subseteq Pipes
      /\ \A s, r \in Rows : latest[s][r] = 0 => file'[s][r] = file[s][r]
  <2>1. CASE KidWrites(k)
    <3> DEFINE s == made[k.wr].s
               r == made[k.wr].r
    <3>1. k.wr \in Pipes /\ k.wr # 0 /\ s \in Rows /\ r \in Rows
      BY <1>2, <1>3, <2>1 DEF KidWrites, KidType, PipeOrNone
    <3>2. PICK f : f \in {file[s][r] \cup {k.wr}, {k.wr}} /\ file' = [file EXCEPT ![s][r] = f]
      BY <2>1 DEF KidWrites
    <3>3. f \in SUBSET Pipes
      BY <1>3, <3>1, <3>2
    <3>4. [k EXCEPT !.wrote = TRUE] \in KidType
      BY <1>2 DEF KidType
    <3>5. kids' \subseteq KidType
      BY <1>2, <2>1, <3>4 DEF KidWrites
    <3>6. latest[s][r] # 0 /\ latest[s][r] \in Pipes
      <4>1. latest[s][r] \in PipeOrNone
        BY <1>2, <3>1 DEF TypeOK
      <4>2. latest[s][r] # 0
        BY <3>1 DEF LastInv
      <4> QED BY <4>1, <4>2 DEF PipeOrNone
    <3>7. spoilt' \subseteq Pipes
      BY <1>2, <2>1, <3>6 DEF KidWrites
    <3> HIDE DEF s, r
    <3>8. /\ file' \in [Rows -> [Rows -> SUBSET Pipes]]
          /\ \A x, y \in Rows : x # s \/ y # r => file'[x][y] = file[x][y]
      BY <1>3, <3>1, <3>2, <3>3
    <3> QED BY <3>5, <3>6, <3>7, <3>8
  <2>2. CASE KidReads(k) \/ KidExit(k)
    <3>1. UNCHANGED <<file, spoilt>>
      BY <2>2 DEF KidReads, KidExit, history, pipes
    <3>2. CASE KidReads(k)
      <4>1. k.rd \in Pipes
        BY <1>2, <3>2 DEF KidReads, KidType, PipeOrNone
      <4>2. File(k.rd) \subseteq Pipes
        BY <1>3, <4>1 DEF File
      <4>3. [k EXCEPT !.got = @ \cup File(k.rd)] \in KidType
        BY <1>2, <4>2 DEF KidType
      <4> QED BY <1>2, <1>3, <3>1, <3>2, <4>3 DEF KidReads
    <3>3. CASE KidExit(k)
      BY <1>2, <1>3, <3>1, <3>3 DEF KidExit
    <3> QED BY <2>2, <3>2, <3>3
  <2> QED BY <2>1, <2>2 DEF KidStep
<1>5. TypeOK'
  BY <1>1, <1>2, <1>3, <1>4 DEF TypeOK, JobType, KidType, table
<1>6. \A q \in Proc : LocalInv(q)'
  BY <1>1 DEF BaseInv, LocalInv, C
<1>7. RowInv' /\ MadeInv'
  BY <1>1, <1>3 DEF BaseInv, RowInv, MadeInv, table
<1>8. LatestInv'
  BY <1>1, <1>4 DEF BaseInv, LatestInv, table
<1> QED BY <1>1, <1>5, <1>6, <1>7, <1>8 DEF BaseInv

\* At the beginning there is no pipe and nobody has a row.
LEMMA BaseInit == Init => BaseInv /\ LastInv
<1> SUFFICES ASSUME Init PROVE BaseInv /\ LastInv
  OBVIOUS
<1>1. Pipes = {} /\ made = <<>> /\ made \in Seq(PipeType)
  BY EmptySeq DEF Init, Pipes
<1>2. NoJob \in [cmds : Seq(Cmd), isNumPipe : BOOLEAN, wr : PipeOrNone, rd : PipeOrNone,
                 clean : BOOLEAN, to : Proc \cup {NoProc}, i : {0} \cup Rows]
  <2>1. <<>> \in Seq(Cmd)
    BY EmptySeq
  <2> QED BY <2>1 DEF NoJob, PipeOrNone
<1>3. TypeOK
  <2>1. job \in [Proc -> [cmds : Seq(Cmd), isNumPipe : BOOLEAN, wr : PipeOrNone, rd : PipeOrNone,
                          clean : BOOLEAN, to : Proc \cup {NoProc}, i : {0} \cup Rows]]
    BY <1>2 DEF Init
  <2>2. latest \in [Rows -> [Rows -> PipeOrNone]] /\ file \in [Rows -> [Rows -> SUBSET Pipes]]
    BY DEF Init, PipeOrNone
  <2>3. /\ pid \in [Rows -> Proc \cup {NoProc}] /\ pc \in [Proc -> Places]
        /\ sendInfo \in [Rows -> [Rows -> BOOLEAN]] /\ recvInfo \in [Rows -> [Rows -> BOOLEAN]]
        /\ row \in [Proc -> {0} \cup Rows] /\ pipeV \in [Proc -> SUBSET Entry]
        /\ kids = {} /\ lines \in [Proc -> Nat] /\ taken = {} /\ spoilt = {}
        /\ uid \in [Rows -> BOOLEAN] /\ gaveUp = {} /\ shared \in BOOLEAN
    BY DEF Init, Places
  <2> QED BY <1>1, <2>1, <2>2, <2>3 DEF TypeOK, PipeType
<1>4. \A p \in Proc : LocalInv(p)
  BY PipeLimitAssumption DEF Init, LocalInv, NoJob, Inside, Opened, Aiming, Created, Rowless
<1>5. RowInv /\ LatestInv
  BY DEF Init, RowInv, LatestInv
<1>6. MadeInv /\ LastInv
  BY <1>1 DEF Init, MadeInv, LastInv, NoJob
<1> QED BY <1>3, <1>4, <1>5, <1>6 DEF BaseInv

\* The next-state relation, as the lemmas above cut it up.
LEMMA NextIs ==
  ASSUME Next
  PROVE  \/ \E k \in kids : KidStep(k)
         \/ \E p \in Proc : \/ Tests(p) \/ Prepares(p) \/ SetClient(p) \/ Marks(p) \/ OpenFifo(p)
                            \/ Flips(p) \/ SetRecv(p) \/ CreateFifo(p) \/ Fork(p)
                            \/ ResetUid(p) \/ Reset(p)
<1>1. \A p \in Proc : Continue(p) \/ Client(p) =>
        \/ Tests(p) \/ Prepares(p) \/ SetClient(p) \/ Marks(p) \/ OpenFifo(p) \/ Flips(p)
        \/ SetRecv(p) \/ CreateFifo(p) \/ Fork(p) \/ ResetUid(p) \/ Reset(p)
  BY DEF Continue, Client, Tests, Prepares, Flips, Marks
<1> QED BY <1>1 DEF Next

\* Every step keeps BaseInv and LastInv.
LEMMA BaseNext ==
  ASSUME BaseInv, LastInv, [Next]_vars
  PROVE  BaseInv' /\ LastInv'
<1>1. CASE UNCHANGED vars
  BY <1>1 DEF vars, table, history, pipes, BaseInv, LastInv, TypeOK, LocalInv, C, RowInv,
     LatestInv, MadeInv,
     Pipes, PipeOrNone
<1>2. ASSUME NEW k \in kids, KidStep(k) PROVE BaseInv' /\ LastInv'
  BY <1>2, KidStepKeeps DEF LastInv, Pipes
<1>3. ASSUME NEW p \in Proc, \/ Tests(p) \/ Prepares(p) \/ SetClient(p) \/ Marks(p) \/ OpenFifo(p)
                             \/ Flips(p) \/ Fork(p) \/ ResetUid(p) \/ Reset(p)
      PROVE  BaseInv' /\ LastInv'
  <2>1. BaseInv'
    BY <1>3, TestsStep, PreparesStep, SetClientStep, MarksStep, OpenFifoStep, FlipsStep, ForkStep,
       ResetUidStep, ResetStep
  <2>2. UNCHANGED <<made, latest>>
    BY <1>3 DEF Marks, Tests, TestSender, TestRecv, TestSend, TestSent, TestReceived, Prepares,
       Hangup,
       NotRun, Output, OpenFails, TestReceiver, EndLine, ReadLine, SetClient, Take, SetPid,
       OpenFifo, Flips, SetSend,
       ClearRecv, ClearSend, Fork, ResetPid, ResetUid, Reset, history, pipes
  <2> QED BY <2>1, <2>2 DEF LastInv, Pipes
<1>4. ASSUME NEW p \in Proc, SetRecv(p) PROVE BaseInv' /\ LastInv'
  <2>1. latest' = latest
    BY <1>4 DEF SetRecv
  <2> QED BY <1>4, <2>1, SetRecvStep DEF LastInv
<1>5. ASSUME NEW p \in Proc, CreateFifo(p) PROVE BaseInv' /\ LastInv'
  <2> DEFINE g == Len(made) + 1
  <2>1. /\ BaseInv' /\ row[p] \in Rows /\ C(p).writeId \in Rows
        /\ Pipes' = Pipes \cup {g} /\ made'[g] = NewPipe(p, C(p).writeId)
        /\ \A h \in Pipes : made'[h] = made[h]
        /\ \A s, r \in Rows : latest'[s][r] =
             IF s = row[p] /\ r = C(p).writeId THEN g ELSE latest[s][r]
    BY <1>5, CreateFifoStep
  <2>2. /\ made'[g].s = row[p] /\ made'[g].r = C(p).writeId /\ g # 0
        /\ \A h \in Pipes : made[h].s \in Rows /\ made[h].r \in Rows
    BY <2>1, PipesAreTyped DEF NewPipe, PipeType, BaseInv
  <2> HIDE DEF g
  <2> QED BY <2>1, <2>2 DEF LastInv
<1> QED BY <1>1, <1>2, <1>3, <1>4, <1>5, NextIs

\* The table, the processes, the files and the commands keep their types, whatever lines
\* the clients type and in whatever order the processes run.
THEOREM PipesTypesCorrect == Spec => []TypeOK
<1>1. BaseInv => TypeOK
  BY DEF BaseInv
<1> QED BY BaseInit, BaseNext, <1>1, PTL DEF Spec

\* The pipes a process's next command is to read and to write are settled by two steps,
\* OpenFifo and CreateFifo; every other one leaves them or has done with them.
LEMMA JobsStay ==
  ASSUME BaseInv, NEW p \in Proc,
         \/ Tests(p) \/ Prepares(p) \/ SetClient(p) \/ Marks(p) \/ Flips(p) \/ SetRecv(p) \/ Fork(p)
         \/ ResetUid(p) \/ Reset(p),
         NEW q \in Proc
  PROVE  /\ job'[q].wr \in {0, job[q].wr}
         /\ job'[q].rd # 0 => /\ job'[q].rd = job[q].rd /\ job'[q].clean = job[q].clean
                              /\ C(q)' = C(q) /\ row'[q] = row[q]
         /\ pc'[q] \in {"setSend", "setRecv"} =>
              pc[q] \in {"setSend", "setRecv"} /\ job'[q].wr = job[q].wr
<1>1. /\ job \in [Proc -> JobType] /\ LocalInv(q) /\ job[q] \in JobType
      /\ pc \in [Proc -> Places] /\ row \in [Proc -> {0} \cup Rows]
  BY DEF BaseInv, TypeOK, JobType
<1>2. CASE q # p
  <2>1. job'[q] = job[q] /\ pc'[q] = pc[q]
    <3>1. CASE ResetUid(p)
      BY <1>1, <1>2, <3>1, ResetUidStep
    <3>2. CASE Reset(p)
      BY <1>2, <3>2, ResetStep
    <3>3. CASE SetClient(p)
      BY <1>2, <3>3, SetClientStep
    <3>4. CASE Marks(p)
      BY <1>2, <3>4, MarksStep
    <3>5. CASE Tests(p) \/ Prepares(p) \/ Flips(p) \/ SetRecv(p) \/ Fork(p)
      BY <1>1, <1>2, <3>5
         DEF Tests, TestSender, TestRecv, TestSend, TestSent, TestReceived, Prepares, Hangup,
             NotRun,
         Output, OpenFails, TestReceiver, EndLine, ReadLine, Flips, SetSend, ClearRecv, ClearSend,
         SetRecv, Fork, Goto
    <3> QED BY <3>1, <3>2, <3>3, <3>4, <3>5
  <2>2. row'[q] = row[q]
    <3>1. CASE SetClient(p)
      BY <1>2, <3>1, SetClientStep
    <3>2. CASE ~SetClient(p)
      BY <1>1, <1>2, <3>2 DEF Tests, TestSender, TestRecv, TestSend, TestSent, TestReceived,
         Prepares,
         Hangup, NotRun, Output, OpenFails, TestReceiver, EndLine, ReadLine, Marks, SetPid,
         ResetPid,
         Flips, SetSend, ClearRecv, ClearSend, SetRecv, Fork, ResetUid, Reset
    <3> QED BY <3>1, <3>2
  <2> QED BY <2>1, <2>2 DEF C
<1>3. CASE q = p /\ (Tests(p) \/ Flips(p) \/ SetRecv(p) \/ Marks(p))
  <2>1. UNCHANGED <<job, row>>
    BY <1>3 DEF Tests, TestSender, TestRecv, TestSend, TestSent, TestReceived, Flips, SetSend,
       ClearRecv, ClearSend, SetRecv, Marks, SetPid, ResetPid
  <2>2. pc'[q] \in {"setSend", "setRecv"} => pc[q] = "setSend"
    BY <1>1, <1>3 DEF Tests, TestSender, TestRecv, TestSend, TestSent, TestReceived, Flips, SetSend,
       ClearRecv, ClearSend, SetRecv, Marks, SetPid, ResetPid, Goto, AfterOutput
  <2> QED BY <2>1, <2>2 DEF C
<1>4. CASE q = p /\ SetClient(p)
  BY <1>4, SetClientStep
<1>5. CASE q = p /\ NotRun(p)
  <2>1. \/ job'[p] = [job[p] EXCEPT !.cmds = Tail(job[p].cmds)]
        \/ job'[p] = [job[p] EXCEPT !.cmds = <<>>]
    BY <1>1, <1>5 DEF NotRun
  <2>2. job'[p].rd = job[p].rd /\ job'[p].wr = job[p].wr
    BY <1>1, <1>5, <2>1 DEF JobType
  <2>3. job[q].rd = 0 /\ pc'[q] \in {"cmd", "exit"}
    BY <1>1, <1>5 DEF NotRun, LocalInv, Opened, Inside, Goto
  <2> QED BY <1>5, <2>2, <2>3
<1>6. CASE q = p /\ Output(p)
  <2>1. job'[p] = [job[p] EXCEPT !.isNumPipe = @ \/ C(p).sign = "NumberPipe"] /\ row' = row
        /\ pc'[p] \in {"clearRecv", "fork"}
    BY <1>1, <1>6 DEF Output, Goto, AfterOutput
  <2> QED BY <1>1, <1>6, <2>1 DEF JobType, C
<1>7. CASE q = p /\ TestReceiver(p)
  <2>1. PICK x : job'[p] = [job[p] EXCEPT !.isNumPipe = TRUE, !.to = x]
    BY <1>1, <1>7 DEF TestReceiver
  <2>2. row' = row /\ pc'[p] \in {"testSent", "clearRecv", "fork"}
    BY <1>1, <1>7 DEF TestReceiver, Goto, AfterOutput
  <2> QED BY <1>1, <1>7, <2>1, <2>2 DEF JobType, C
<1>8. CASE q = p /\ (OpenFails(p) \/ EndLine(p) \/ Fork(p) \/ Hangup(p) \/ \E l \in Lines : ReadLine(p, l))
  <2>1. job'[p].rd = 0 /\ job'[p].wr = 0
    <3>1. CASE Fork(p)
      <4>1. job'[p] = [NoJob EXCEPT !.cmds = Tail(job[p].cmds), !.isNumPipe = job[p].isNumPipe]
        BY <1>1, <3>1 DEF Fork
      <4> QED BY <4>1 DEF NoJob
    <3>2. CASE OpenFails(p) \/ EndLine(p) \/ Hangup(p)
      BY <1>1, <3>2 DEF OpenFails, EndLine, Hangup, NoJob
    <3>3. CASE \E l \in Lines : ReadLine(p, l)
      <4>1. PICK l \in Lines : job' = [job EXCEPT ![p] = [NoJob EXCEPT !.cmds = l]]
        BY <3>3 DEF ReadLine
      <4>2. job'[p] = [NoJob EXCEPT !.cmds = l]
        BY <1>1, <4>1
      <4> QED BY <4>2 DEF NoJob
    <3> QED BY <1>8, <3>1, <3>2, <3>3
  <2>2. pc'[q] \notin {"setSend", "setRecv"}
    BY <1>1, <1>8 DEF OpenFails, EndLine, Fork, ReadLine, Hangup, Goto
  <2> QED BY <1>8, <2>1, <2>2
<1>9. CASE q = p /\ ResetUid(p)
  <2>1. row' = row
    BY <1>9 DEF ResetUid
  <2> QED BY <1>1, <1>9, <2>1, ResetUidStep
<1>10. CASE q = p /\ Reset(p)
  BY <1>10, ResetStep
<1> QED BY <1>2, <1>3, <1>4, <1>5, <1>6, <1>7, <1>8, <1>9, <1>10 DEF Prepares

-----------------------------------------------------------------------------
\* Whose pipe it is.  All of this is said of the time before a row is shared.

\* q has row r and has not come, in its reset, to the flag of s.
Holds(q, r, s) == row[q] = r /\ (pc[q] = "reset" => job[q].i <= s)

\* The flag of the last pipe is set in the row of its receiver ...
FoundByOwner(s, r) ==
  recvInfo[r][s] => made[latest[s][r]].crossed \/ Holds(made[latest[s][r]].to, r, s)

\* ... and so is, of the pipe that is about to be made, an earlier one's.
AimsAtOwner(q) ==
  pc[q] \in Aiming =>
    (recvInfo[C(q).writeId][row[q]] => Holds(job[q].to, C(q).writeId, row[q]))

\* A pipe whose flags are being set is for the client that was found.
MakesForTo(q) ==
  pc[q] \in {"setSend", "setRecv"} =>
    made[job[q].wr].to = job[q].to /\ ~made[job[q].wr].crossed

\* The flag a reader has found stays: only the reader clears it.
FlagStays(q) == pc[q] \in {"testSend", "open"} => recvInfo[row[q]][C(q).readId]

ReadsOwn(q) == job[q].rd # 0 => made[job[q].rd].to = q \/ made[job[q].rd].crossed

OwnerInv ==
  /\ \A s, r \in Rows : FoundByOwner(s, r)
  /\ \A q \in Proc : AimsAtOwner(q) /\ MakesForTo(q) /\ FlagStays(q) /\ ReadsOwn(q)

\* A set flag has a receiver, and who is aiming somebody to aim at.
LEMMA FlagsHaveOwners ==
  ASSUME BaseInv
  PROVE  /\ \A s, r \in Rows : recvInfo[r][s] =>
              latest[s][r] \in Pipes /\ latest[s][r] # 0 /\ made[latest[s][r]].to \in Proc
         /\ \A q \in Proc : pc[q] \in Aiming =>
              C(q).writeId \in Rows /\ row[q] \in Rows /\ job[q].to \in Proc
         /\ \A q \in Proc : pc[q] \in {"testSend", "open"} =>
              C(q).readId \in Rows /\ row[q] \in Rows
<1>1. ASSUME NEW s \in Rows, NEW r \in Rows, recvInfo[r][s]
      PROVE  latest[s][r] \in Pipes /\ latest[s][r] # 0 /\ made[latest[s][r]].to \in Proc
  <2>1. latest[s][r] # 0 /\ latest[s][r] \in PipeOrNone
    BY <1>1 DEF BaseInv, LatestInv, TypeOK
  <2>2. latest[s][r] \in Pipes
    BY <2>1 DEF PipeOrNone
  <2> QED BY <2>1, <2>2, PipesAreTyped DEF BaseInv, PipeType
<1>2. ASSUME NEW q \in Proc, pc[q] \in Aiming
      PROVE  C(q).writeId \in Rows /\ row[q] \in Rows /\ job[q].to \in Proc
  <2>1. job[q].to \in Proc \cup {NoProc} /\ LocalInv(q) /\ pc[q] \in Inside
    BY <1>2 DEF BaseInv, TypeOK, Aiming, Inside
  <2> QED BY <1>2, <2>1, InsideCommand DEF LocalInv
<1>3. ASSUME NEW q \in Proc, pc[q] \in {"testSend", "open"}
      PROVE  C(q).readId \in Rows /\ row[q] \in Rows
  <2>1. LocalInv(q) /\ pc[q] \in Inside
    BY <1>3 DEF BaseInv, Inside
  <2> QED BY <1>3, <2>1, InsideCommand DEF LocalInv
<1> QED BY <1>1, <1>2, <1>3

\* Steps of p that set no flag: who has a row keeps the flags that stay set.
LEMMA OwnerKept ==
  ASSUME BaseInv, OwnerInv, NEW p \in Proc, UNCHANGED <<made, latest>>,
         \A s \in Rows, r \in Rows, x \in Proc : recvInfo'[r][s] =>
           recvInfo[r][s] /\ (Holds(x, r, s) => Holds(x, r, s)'),
         \A q \in Proc : q # p => /\ job'[q] = job[q] /\ pc'[q] = pc[q] /\ row'[q] = row[q]
                                  /\ FlagStays(q) => FlagStays(q)',
         AimsAtOwner(p)', MakesForTo(p)', FlagStays(p)', ReadsOwn(p)'
  PROVE  OwnerInv'
<1>1. ASSUME NEW s \in Rows, NEW r \in Rows, recvInfo'[r][s]
      PROVE  made[latest[s][r]].crossed \/ Holds(made[latest[s][r]].to, r, s)'
  <2>1. recvInfo[r][s] /\ FoundByOwner(s, r)
    BY <1>1 DEF OwnerInv
  <2>2. made[latest[s][r]].to \in Proc
    BY <2>1, FlagsHaveOwners
  <2> QED BY <1>1, <2>1, <2>2 DEF FoundByOwner
<1>2. \A s, r \in Rows : FoundByOwner(s, r)'
  BY <1>1 DEF FoundByOwner, Holds
<1>3. ASSUME NEW q \in Proc PROVE (AimsAtOwner(q) /\ MakesForTo(q) /\ FlagStays(q) /\ ReadsOwn(q))'
  <2>1. CASE q = p
    BY <2>1
  <2>2. CASE q # p
    <3>1. job'[q] = job[q] /\ pc'[q] = pc[q] /\ C(q)' = C(q) /\ row'[q] = row[q]
      BY <2>2 DEF C
    <3>2. AimsAtOwner(q) /\ MakesForTo(q) /\ FlagStays(q)' /\ ReadsOwn(q)
      BY <2>2 DEF OwnerInv
    <3>3. ASSUME pc[q] \in Aiming, recvInfo'[C(q).writeId][row[q]]
          PROVE  Holds(job[q].to, C(q).writeId, row[q])'
      <4>1. C(q).writeId \in Rows /\ row[q] \in Rows /\ job[q].to \in Proc
        BY <3>3, FlagsHaveOwners
      <4>2. Holds(job[q].to, C(q).writeId, row[q])
        BY <3>2, <3>3, <4>1 DEF AimsAtOwner
      <4> QED BY <3>1, <3>3, <4>1, <4>2 DEF Holds
    <3>4. AimsAtOwner(q)'
      BY <3>1, <3>3 DEF AimsAtOwner, Holds
    <3> QED BY <3>1, <3>2, <3>4 DEF MakesForTo, ReadsOwn
  <2> QED BY <2>1, <2>2
<1> QED BY <1>2, <1>3 DEF OwnerInv

\* p learns who the receiver is from the table, and opens what it has found the flag of.
LEMMA OwnerPrivate ==
  ASSUME BaseInv, OwnerInv, ~shared, NEW p \in Proc,
         Tests(p) \/ Prepares(p) \/ OpenFifo(p) \/ Fork(p) \/ SetSend(p) \/ ClearSend(p) \/ Marks(p)
  PROVE  OwnerInv'
<1>1. /\ UNCHANGED <<recvInfo, row, made, latest>>
      /\ \A q \in Proc : q # p => job'[q] = job[q] /\ pc'[q] = pc[q]
  BY DEF BaseInv, TypeOK, Tests, TestSender, TestRecv, TestSend, TestSent, TestReceived,
     Prepares, Hangup,
     NotRun, Output, OpenFails, TestReceiver, EndLine, ReadLine, OpenFifo, SetSend, ClearSend, Fork,
     Marks, SetPid, ResetPid, Goto, table, history, pipes
<1>2. pc[p] # "reset" /\ pc'[p] # "reset"
  <2>1. pc[p] # "reset"
    BY DEF Tests, TestSender, TestRecv, TestSend, TestSent, TestReceived, Prepares, Hangup,
       NotRun, Output, OpenFails, TestReceiver, EndLine, ReadLine, OpenFifo, SetSend, ClearSend,
       Fork, AtOutput,
       Marks, SetPid, ResetPid, Connected
  <2>2. pc'[p] # "reset"
    BY DEF BaseInv, TypeOK, Tests, TestSender, TestRecv, TestSend, TestSent, TestReceived,
       Prepares, Hangup,
       NotRun, Output, OpenFails, TestReceiver, EndLine, ReadLine, OpenFifo, SetSend, ClearSend,
       Fork,
       Goto, AfterOutput, AtOutput, Marks, SetPid, ResetPid
  <2> QED BY <2>1, <2>2
<1>3. job \in [Proc -> JobType] /\ pc \in [Proc -> Places]
  BY DEF BaseInv, TypeOK, JobType
<1>4. \A x \in Proc, r \in Rows, s \in Rows : Holds(x, r, s) <=> Holds(x, r, s)'
  BY <1>1, <1>2 DEF Holds
<1>5. \A q \in Proc : q # p => (FlagStays(q) => FlagStays(q)')
  BY <1>1 DEF FlagStays, C
<1>6. /\ UNCHANGED <<made, latest>>
      /\ \A s \in Rows, r \in Rows, x \in Proc : recvInfo'[r][s] =>
           recvInfo[r][s] /\ (Holds(x, r, s) => Holds(x, r, s)')
      /\ \A q \in Proc : q # p => /\ job'[q] = job[q] /\ pc'[q] = pc[q] /\ row'[q] = row[q]
                                  /\ FlagStays(q) => FlagStays(q)'
  BY <1>1, <1>4, <1>5
<1>7. CASE Tests(p) \/ SetSend(p) \/ ClearSend(p) \/ Marks(p)
  <2>1. job'[p] = job[p] /\ C(p)' = C(p) /\ row'[p] = row[p]
    BY <1>1, <1>7 DEF Tests, TestSender, TestRecv, TestSend, TestSent, TestReceived, SetSend,
       ClearSend, C,
       Marks, SetPid, ResetPid
  <2>2. /\ pc'[p] \in Aiming => pc[p] \in Aiming
        /\ pc'[p] \in {"setSend", "setRecv"} => pc[p] = "setSend"
        /\ pc'[p] \in {"testSend", "open"} => pc[p] = "testSend" \/ recvInfo[row[p]][C(p).readId]
    BY <1>3, <1>7 DEF Tests, TestSender, TestRecv, TestSend, TestSent, TestReceived, SetSend,
       ClearSend, Goto, AfterOutput, Aiming, Marks, SetPid, ResetPid
  <2>3. AimsAtOwner(p)'
    <3>1. ASSUME pc[p] \in Aiming, recvInfo[C(p).writeId][row[p]]
          PROVE  Holds(job[p].to, C(p).writeId, row[p])'
      <4>1. C(p).writeId \in Rows /\ row[p] \in Rows /\ job[p].to \in Proc
        BY <3>1, FlagsHaveOwners
      <4> QED BY <1>1, <1>2, <2>1, <3>1, <4>1 DEF OwnerInv, AimsAtOwner, Holds
    <3> QED BY <1>1, <2>1, <2>2, <3>1 DEF AimsAtOwner, Holds
  <2>4. MakesForTo(p)' /\ FlagStays(p)' /\ ReadsOwn(p)'
    BY <1>1, <2>1, <2>2 DEF OwnerInv, MakesForTo, FlagStays, ReadsOwn
  <2> QED BY <1>6, <2>3, <2>4, OwnerKept
<1>8. CASE TestReceiver(p)
  <2> DEFINE r == C(p).writeId
  <2>1. PICK q \in Found(r) :
          /\ job'[p] = [job[p] EXCEPT !.isNumPipe = TRUE, !.to = q]
          /\ pc'[p] = IF q # NoProc THEN "testSent" ELSE AfterOutput(p)
    BY <1>3, <1>8 DEF TestReceiver, Goto
  <2>2. job'[p].to = q /\ job'[p].rd = job[p].rd /\ C(p)' = C(p)
    BY <1>3, <2>1 DEF JobType, C
  <2>3. r \in Rows /\ row[p] \in Rows
    BY <1>8, InsideCommand DEF TestReceiver
  <2>4. q # NoProc => q \in Proc /\ row[q] = r /\ pc[q] # "reset"
    BY <2>3 DEF Found, HasClient, BaseInv, RowInv
  <2>5. q # NoProc => row'[q] = r /\ pc'[q] # "reset"
    BY <1>1, <1>2, <2>4
  <2>6. AimsAtOwner(p)'
    BY <1>1, <2>1, <2>2, <2>5 DEF AimsAtOwner, AfterOutput, Aiming, Holds
  <2>7. MakesForTo(p)' /\ FlagStays(p)' /\ ReadsOwn(p)'
    BY <1>1, <2>1, <2>2 DEF OwnerInv, MakesForTo, FlagStays, ReadsOwn, AfterOutput
  <2> QED BY <1>6, <2>6, <2>7, OwnerKept
<1>9. CASE OpenFifo(p)
  <2> DEFINE s == C(p).readId
             r == row[p]
  <2>1. pc[p] = "open" /\ pc'[p] = "out" /\ job'[p].rd = latest[s][r] /\ s \in Rows /\ r \in Rows
    <3>1. pc[p] = "open" /\ pc'[p] = "out"
      BY <1>3, <1>9 DEF OpenFifo, Goto
    <3>2. job'[p].rd = latest[s][r]
      BY <1>3, <1>9 DEF OpenFifo, JobType
    <3> QED BY <3>1, <3>2, FlagsHaveOwners
  <2>2. recvInfo[r][s] /\ FoundByOwner(s, r)
    BY <2>1 DEF OwnerInv, FlagStays
  <2>3. made[latest[s][r]].to \in Proc
    BY <2>1, <2>2, FlagsHaveOwners
  <2>4. made[latest[s][r]].crossed \/ row[made[latest[s][r]].to] = r
    BY <2>2 DEF FoundByOwner, Holds
  <2>5. r # 0
    BY <2>1, PipeLimitAssumption DEF Rows
  <2>6. ReadsOwn(p)'
    BY <1>1, <2>1, <2>3, <2>4, <2>5 DEF ReadsOwn, BaseInv, RowInv
  <2>7. AimsAtOwner(p)' /\ MakesForTo(p)' /\ FlagStays(p)'
    BY <2>1 DEF AimsAtOwner, MakesForTo, FlagStays, Aiming
  <2> QED BY <1>6, <2>6, <2>7, OwnerKept
<1>10. CASE Fork(p) \/ (Prepares(p) /\ ~TestReceiver(p))
  <2>1. pc'[p] \in {"cmd", "exit", "clearRecv", "fork", "prompt", "dead"}
    BY <1>3, <1>10 DEF Fork, Prepares, Hangup, NotRun, Output, OpenFails, EndLine, ReadLine,
       AfterOutput, Goto
  <2>2. job'[p].rd \in {0, job[p].rd}
    BY <1>10, JobsStay
  <2>3. AimsAtOwner(p)' /\ MakesForTo(p)' /\ FlagStays(p)' /\ ReadsOwn(p)'
    BY <1>1, <2>1, <2>2 DEF OwnerInv, AimsAtOwner, MakesForTo, FlagStays, ReadsOwn, Aiming
  <2> QED BY <1>6, <2>3, OwnerKept
<1> QED BY <1>7, <1>8, <1>9, <1>10

\* Who takes a row finds flags in it only if they are for somebody else who has it too.
LEMMA OwnerSetClient ==
  ASSUME BaseInv, OwnerInv, NEW p \in Proc, SetClient(p)
  PROVE  OwnerInv'
<1>1. /\ pc[p] = "unborn" /\ pc'[p] \in {"setPid", "unborn", "refused"}
      /\ job'[p].rd = 0 /\ row[p] = 0
      /\ \A q \in Proc : q # p => UNCHANGED <<row[q], job[q], pc[q], C(q)>>
  BY SetClientStep
<1>2. UNCHANGED <<recvInfo, made, latest>>
  BY DEF SetClient, pipes
<1>3. 0 \notin Rows
  BY PipeLimitAssumption DEF Rows
<1>4. \A x \in Proc, r \in Rows, s \in Rows : Holds(x, r, s) => Holds(x, r, s)'
  BY <1>1, <1>3 DEF Holds
<1>5. \A q \in Proc : q # p => (FlagStays(q) => FlagStays(q)')
  BY <1>1, <1>2 DEF FlagStays
<1>6. AimsAtOwner(p)' /\ MakesForTo(p)' /\ FlagStays(p)' /\ ReadsOwn(p)'
  BY <1>1 DEF AimsAtOwner, MakesForTo, FlagStays, ReadsOwn, Aiming
<1> QED BY <1>1, <1>2, <1>4, <1>5, <1>6, OwnerKept

\* Leaving: first all the flags of the row are to be cleared ...
LEMMA OwnerResetUid ==
  ASSUME BaseInv, OwnerInv, NEW p \in Proc, ResetUid(p)
  PROVE  OwnerInv'
<1>1. /\ pc[p] = "resetUid" /\ pc' = [pc EXCEPT ![p] = "reset"]
      /\ \A q \in Proc : job'[q].rd = job[q].rd /\ (q # p => job'[q] = job[q])
      /\ job'[p].i = 1
  BY ResetUidStep
<1>2. UNCHANGED <<recvInfo, row, made, latest>>
  BY DEF ResetUid, history, pipes
<1>3. \A q \in Proc : pc'[q] = IF q = p THEN "reset" ELSE pc[q]
  BY <1>1 DEF BaseInv, TypeOK
<1>4. \A s \in Rows : 1 <= s
  BY PipeLimitAssumption DEF Rows
<1>5. \A x \in Proc, r \in Rows, s \in Rows : Holds(x, r, s) => Holds(x, r, s)'
  BY <1>1, <1>2, <1>3, <1>4 DEF Holds
<1>6. \A q \in Proc : q # p => (FlagStays(q) => FlagStays(q)')
  BY <1>1, <1>2, <1>3 DEF FlagStays, C
<1>7. AimsAtOwner(p)' /\ MakesForTo(p)' /\ FlagStays(p)' /\ ReadsOwn(p)'
  BY <1>1, <1>2, <1>3 DEF OwnerInv, AimsAtOwner, MakesForTo, FlagStays, ReadsOwn, Aiming
<1> QED BY <1>1, <1>2, <1>3, <1>5, <1>6, <1>7, OwnerKept

\* ... then they are, one after another.
LEMMA OwnerReset ==
  ASSUME BaseInv, OwnerInv, ~shared, NEW p \in Proc, Reset(p)
  PROVE  OwnerInv'
<1>1. /\ pc[p] = "reset" /\ row[p] \in Rows /\ job[p].i \in Rows
      /\ \A s, r \in Rows :
           recvInfo'[r][s] <=> (recvInfo[r][s] /\ ~(r = row[p] /\ s = job[p].i))
      /\ job'[p].rd = 0
      /\ \/ /\ job[p].i = KMaxClient /\ row' = [row EXCEPT ![p] = 0]
            /\ pc'[p] \in {"gone", "crashed"}
         \/ row' = row /\ pc' = pc /\ job'[p].i = job[p].i + 1
      /\ \A q \in Proc : q # p => job'[q] = job[q] /\ C(q)' = C(q) /\ pc'[q] = pc[q]
  BY ResetStep
<1>2. UNCHANGED <<made, latest>>
  BY DEF Reset, history, pipes
<1>3. \A q \in Proc : q # p => row'[q] = row[q]
  BY <1>1 DEF BaseInv, TypeOK
<1>4. \A q \in Proc : q # p => row[q] # row[p]
  BY <1>1, PipeLimitAssumption DEF BaseInv, RowInv, Rows
<1>5. ASSUME NEW s \in Rows, NEW r \in Rows, NEW x \in Proc, recvInfo'[r][s], Holds(x, r, s)
      PROVE  Holds(x, r, s)'
  <2>1. CASE x # p
    BY <1>1, <1>3, <1>5, <2>1 DEF Holds
  <2>2. CASE x = p
    <3>1. job[p].i # s /\ job[p].i <= s /\ s \in 1..KMaxClient /\ job[p].i \in 1..KMaxClient
      BY <1>1, <1>5, <2>2 DEF Rows, Holds
    <3>2. job[p].i # KMaxClient /\ job[p].i + 1 <= s
      BY <3>1, PipeLimitAssumption
    <3> QED BY <1>1, <1>5, <2>2, <3>2 DEF Holds
  <2> QED BY <2>1, <2>2
<1>6. ASSUME NEW q \in Proc, q # p, FlagStays(q) PROVE FlagStays(q)'
  <2>1. pc[q] \in {"testSend", "open"} => C(q).readId \in Rows /\ row[q] \in Rows
    BY FlagsHaveOwners
  <2>2. C(q)' = C(q) /\ pc'[q] = pc[q] /\ row'[q] = row[q] /\ row[q] # row[p]
    BY <1>1, <1>3, <1>4, <1>6
  <2> QED BY <1>1, <1>6, <2>1, <2>2 DEF FlagStays
<1>7. AimsAtOwner(p)' /\ MakesForTo(p)' /\ FlagStays(p)' /\ ReadsOwn(p)'
  <2>1. pc'[p] \in {"gone", "crashed", "reset"}
    BY <1>1
  <2> QED BY <1>1, <2>1 DEF AimsAtOwner, MakesForTo, FlagStays, ReadsOwn, Aiming
<1>8. \A s \in Rows, r \in Rows, x \in Proc : recvInfo'[r][s] =>
        recvInfo[r][s] /\ (Holds(x, r, s) => Holds(x, r, s)')
  BY <1>1, <1>5
<1>9. \A q \in Proc : q # p => /\ job'[q] = job[q] /\ pc'[q] = pc[q] /\ row'[q] = row[q]
                               /\ FlagStays(q) => FlagStays(q)'
  BY <1>1, <1>3, <1>6
<1> QED BY <1>2, <1>7, <1>8, <1>9, OwnerKept

\* The reader's own flag goes.
LEMMA OwnerClearRecv ==
  ASSUME BaseInv, OwnerInv, ~shared, NEW p \in Proc, ClearRecv(p)
  PROVE  OwnerInv'
<1>1. /\ row[p] \in Rows
      /\ \A s, r \in Rows : recvInfo'[r][s] <=>
           recvInfo[r][s] /\ ~(ClearRecv(p) /\ s = C(p).readId /\ r = row[p])
  BY FlipsStep DEF Flips
<1>2. /\ UNCHANGED <<pid, row, job, made, latest>>
      /\ pc[p] = "clearRecv" /\ pc' = [pc EXCEPT ![p] = "clearSend"]
  BY DEF ClearRecv, Goto, history, pipes
<1>3. /\ \A q \in Proc : pc'[q] = IF q = p THEN "clearSend" ELSE pc[q]
      /\ \A q \in Proc : C(q)' = C(q)
  BY <1>2 DEF BaseInv, TypeOK, C
<1>4. \A x \in Proc, r \in Rows, s \in Rows : Holds(x, r, s) => Holds(x, r, s)'
  BY <1>2, <1>3 DEF Holds
<1>5. ASSUME NEW q \in Proc, q # p, FlagStays(q) PROVE FlagStays(q)'
  <2>1. pc[q] \in {"testSend", "open"} => C(q).readId \in Rows /\ row[q] \in Rows
    BY FlagsHaveOwners
  <2>2. row[q] # row[p]
    BY <1>1, <1>5, PipeLimitAssumption DEF BaseInv, RowInv, Rows
  <2> QED BY <1>1, <1>2, <1>3, <1>5, <2>1, <2>2 DEF FlagStays
<1>6. AimsAtOwner(p)' /\ MakesForTo(p)' /\ FlagStays(p)' /\ ReadsOwn(p)'
  BY <1>2, <1>3 DEF OwnerInv, AimsAtOwner, MakesForTo, FlagStays, ReadsOwn, Aiming
<1>7. \A s \in Rows, r \in Rows, x \in Proc : recvInfo'[r][s] =>
        recvInfo[r][s] /\ (Holds(x, r, s) => Holds(x, r, s)')
  BY <1>1, <1>4
<1>8. \A q \in Proc : q # p => /\ job'[q] = job[q] /\ pc'[q] = pc[q] /\ row'[q] = row[q]
                               /\ FlagStays(q) => FlagStays(q)'
  BY <1>2, <1>3, <1>5
<1> QED BY <1>2, <1>6, <1>7, <1>8, OwnerKept

\* The flag in the receiver's row, set in the row the receiver was found in.
LEMMA OwnerSetRecv ==
  ASSUME BaseInv, OwnerInv, ~shared, NEW p \in Proc, SetRecv(p)
  PROVE  OwnerInv'
<1> DEFINE r == C(p).writeId
           g == job[p].wr
<1>1. /\ Pipes' = Pipes /\ row[p] \in Rows /\ r \in Rows /\ g \in Pipes
      /\ \A s, t \in Rows : recvInfo'[t][s] <=> recvInfo[t][s] \/ (t = r /\ s = row[p])
      /\ \A h \in Pipes : UNCHANGED made[h].to /\ (h # g => made'[h] = made[h])
      /\ made'[g].crossed <=> Leaves(made[g].to, r)
      /\ pc'[p] \in {"clearRecv", "fork"} /\ \A q \in Proc : q # p => pc'[q] = pc[q]
  BY SetRecvStep
<1>2. UNCHANGED <<row, job, latest>> /\ pc[p] = "setRecv" /\ \A q \in Proc : C(q)' = C(q)
  BY DEF SetRecv, C
<1>3. \A x \in Proc, t \in Rows, s \in Rows : Holds(x, t, s) => Holds(x, t, s)'
  BY <1>1, <1>2 DEF Holds
<1>4. /\ ~made[g].crossed /\ made[g].s = row[p] /\ made[g].r = r /\ g # 0
      /\ latest[row[p]][r] = g /\ made[g].to \in Proc
  <2>1. ~made[g].crossed /\ made[g].s = row[p] /\ made[g].r = r /\ g # 0 /\ latest[row[p]][r] = g
    BY <1>2 DEF OwnerInv, MakesForTo, BaseInv, LocalInv
  <2> QED BY <1>1, <2>1, PipesAreTyped DEF BaseInv, PipeType
<1> HIDE DEF r, g
<1>5. ASSUME NEW s \in Rows, NEW t \in Rows PROVE FoundByOwner(s, t)'
  <2>1. FoundByOwner(s, t)
    BY DEF OwnerInv
  <2>2. CASE s = row[p] /\ t = r
    <3>1. made'[g].crossed \/ (row'[made[g].to] = r /\ pc'[made[g].to] # "reset")
      <4>1. CASE Leaves(made[g].to, r)
        BY <1>1, <4>1
      <4>2. CASE ~Leaves(made[g].to, r)
        BY <1>1, <1>2, <1>4, <4>2 DEF Leaves
      <4> QED BY <4>1, <4>2
    <3>2. latest'[s][t] = g /\ made'[g].to = made[g].to
      BY <1>1, <1>2, <1>4, <2>2
    <3> QED BY <2>2, <3>1, <3>2 DEF FoundByOwner, Holds
  <2>3. CASE ~(s = row[p] /\ t = r)
    <3>1. recvInfo[t][s] => /\ latest[s][t] \in Pipes /\ made[latest[s][t]].to \in Proc
                            /\ made[latest[s][t]].s = s /\ made[latest[s][t]].r = t
      BY FlagsHaveOwners DEF BaseInv, LatestInv
    <3>2. recvInfo[t][s] => latest[s][t] # g
      BY <1>4, <2>3, <3>1
    <3>3. \A x \in Proc : recvInfo[t][s] /\ x = made[latest[s][t]].to =>
            made[latest[s][t]].crossed \/ Holds(x, t, s)'
      BY <1>3, <2>1, <3>1 DEF FoundByOwner
    <3> QED BY <1>1, <1>2, <2>3, <3>1, <3>2, <3>3 DEF FoundByOwner, Holds
  <2> QED BY <2>2, <2>3
<1>6. ASSUME NEW q \in Proc PROVE (AimsAtOwner(q) /\ MakesForTo(q) /\ FlagStays(q) /\ ReadsOwn(q))'
  <2>1. AimsAtOwner(q) /\ MakesForTo(q) /\ FlagStays(q) /\ ReadsOwn(q) /\ LocalInv(q)
        /\ job[q].rd \in PipeOrNone /\ job[q].wr \in PipeOrNone
    BY DEF OwnerInv, BaseInv, TypeOK
  <2>2. ReadsOwn(q)'
    BY <1>1, <1>2, <1>4, <2>1 DEF ReadsOwn, PipeOrNone
  <2>3. CASE q = p
    BY <1>1, <2>2, <2>3 DEF AimsAtOwner, MakesForTo, FlagStays, Aiming
  <2>4. CASE q # p
    <3>1. row[q] # row[p]
      BY <1>1, <2>4, PipeLimitAssumption DEF BaseInv, RowInv, Rows
    <3>2. FlagStays(q)'
      <4>1. pc[q] \in {"testSend", "open"} => C(q).readId \in Rows /\ row[q] \in Rows
        BY FlagsHaveOwners
      <4> QED BY <1>1, <1>2, <2>1, <2>4, <4>1 DEF FlagStays
    <3>3. AimsAtOwner(q)'
      <4>1. pc[q] \in Aiming => C(q).writeId \in Rows /\ row[q] \in Rows /\ job[q].to \in Proc
        BY FlagsHaveOwners
      <4>2. pc[q] \in Aiming /\ recvInfo[C(q).writeId][row[q]] =>
              Holds(job[q].to, C(q).writeId, row[q])'
        BY <1>2, <1>3, <2>1, <4>1 DEF AimsAtOwner, Holds
      <4> QED BY <1>1, <1>2, <2>4, <3>1, <4>1, <4>2 DEF AimsAtOwner, Holds
    <3>4. pc[q] \in {"setSend", "setRecv"} => job[q].wr \in Pipes /\ job[q].wr # g
      BY <1>4, <2>1, <3>1 DEF LocalInv, PipeOrNone
    <3>5. MakesForTo(q)'
      BY <1>1, <1>2, <2>1, <2>4, <3>4 DEF MakesForTo
    <3> QED BY <2>2, <3>2, <3>3, <3>5
  <2> QED BY <2>3, <2>4
<1> QED BY <1>5, <1>6 DEF OwnerInv

\* The new pipe is for the client that was found; who finds an earlier one's flag is it.
LEMMA OwnerCreateFifo ==
  ASSUME BaseInv, OwnerInv, NEW p \in Proc, CreateFifo(p)
  PROVE  OwnerInv'
<1> DEFINE r == C(p).writeId
           g == Len(made) + 1
<1>1. /\ row[p] \in Rows /\ r \in Rows /\ job[p].to \in Proc
      /\ g \notin Pipes /\ Pipes' = Pipes \cup {g}
      /\ made'[g] = NewPipe(p, r)
      /\ \A h \in Pipes : made'[h] = made[h]
      /\ \A s, t \in Rows : latest'[s][t] = IF s = row[p] /\ t = r THEN g ELSE latest[s][t]
      /\ \A q \in Proc : /\ UNCHANGED <<job[q].rd, job[q].to, job[q].i>>
                         /\ C(q)' = C(q)
                         /\ job'[q].wr = IF q = p THEN g ELSE job[q].wr
  BY CreateFifoStep
<1>2. UNCHANGED <<recvInfo, row>> /\ pc[p] = "create"
      /\ \A q \in Proc : pc'[q] = IF q = p THEN "setSend" ELSE pc[q]
  BY DEF CreateFifo, Goto, BaseInv, TypeOK, table
<1>3. \A x \in Proc, t \in Rows, s \in Rows : Holds(x, t, s) => Holds(x, t, s)'
  BY <1>1, <1>2 DEF Holds
<1>4. made'[g].to = job[p].to /\ made'[g].crossed = FALSE
  BY <1>1 DEF NewPipe
<1> HIDE DEF r, g
<1>5. ASSUME NEW s \in Rows, NEW t \in Rows PROVE FoundByOwner(s, t)'
  <2>1. FoundByOwner(s, t)
    BY DEF OwnerInv
  <2>2. CASE s = row[p] /\ t = r
    <3>1. recvInfo[t][s] => Holds(job[p].to, t, s)'
      <4>1. AimsAtOwner(p) /\ pc[p] \in Aiming
        BY <1>2 DEF OwnerInv, Aiming
      <4>2. recvInfo[t][s] => Holds(job[p].to, t, s)
        BY <2>2, <4>1 DEF AimsAtOwner, r
      <4>3. job'[p].to = job[p].to
        BY <1>1
      <4> QED BY <1>1, <1>3, <4>2, <4>3
    <3> QED BY <1>1, <1>2, <1>4, <2>2, <3>1 DEF FoundByOwner, Holds
  <2>3. CASE ~(s = row[p] /\ t = r)
    <3>1. recvInfo[t][s] => latest[s][t] \in Pipes /\ made[latest[s][t]].to \in Proc
      BY FlagsHaveOwners
    <3>2. \A x \in Proc : recvInfo[t][s] /\ x = made[latest[s][t]].to =>
            made[latest[s][t]].crossed \/ Holds(x, t, s)'
      BY <1>3, <2>1, <3>1 DEF FoundByOwner
    <3> QED BY <1>1, <1>2, <2>3, <3>1, <3>2 DEF FoundByOwner, Holds
  <2> QED BY <2>2, <2>3
<1>6. ASSUME NEW q \in Proc PROVE (AimsAtOwner(q) /\ MakesForTo(q) /\ FlagStays(q) /\ ReadsOwn(q))'
  <2>1. AimsAtOwner(q) /\ MakesForTo(q) /\ FlagStays(q) /\ ReadsOwn(q) /\ LocalInv(q)
        /\ job[q].rd \in PipeOrNone /\ job[q].wr \in PipeOrNone
    BY DEF OwnerInv, BaseInv, TypeOK
  <2>2. AimsAtOwner(q)'
    <3>1. pc[q] \in Aiming => C(q).writeId \in Rows /\ row[q] \in Rows /\ job[q].to \in Proc
      BY FlagsHaveOwners
    <3>2. pc[q] \in Aiming /\ recvInfo[C(q).writeId][row[q]] =>
            Holds(job[q].to, C(q).writeId, row[q])'
      BY <1>1, <1>2, <1>3, <2>1, <3>1 DEF AimsAtOwner, Holds
    <3>3. pc'[q] \in Aiming => pc[q] \in Aiming
      BY <1>2 DEF Aiming
    <3> QED BY <1>1, <1>2, <3>2, <3>3 DEF AimsAtOwner, Holds
  <2>3. FlagStays(q)'
    BY <1>1, <1>2, <2>1 DEF FlagStays
  <2>4. ReadsOwn(q)'
    BY <1>1, <2>1 DEF ReadsOwn, PipeOrNone
  <2>5. MakesForTo(q)'
    <3>1. CASE q = p
      BY <1>1, <1>4, <3>1 DEF MakesForTo
    <3>2. CASE q # p
      <4>1. pc[q] \in {"setSend", "setRecv"} => job[q].wr \in Pipes
        BY <2>1 DEF LocalInv, PipeOrNone
      <4> QED BY <1>1, <1>2, <2>1, <3>2, <4>1 DEF MakesForTo
    <3> QED BY <3>1, <3>2
  <2> QED BY <2>2, <2>3, <2>4, <2>5
<1> QED BY <1>5, <1>6 DEF OwnerInv

\* Once shared, a row stays in the history.
LEMMA SharedStays ==
  ASSUME BaseInv, [Next]_vars, shared
  PROVE  shared'
<1>1. CASE UNCHANGED vars
  BY <1>1 DEF vars, history
<1>2. ASSUME NEW k \in kids, KidStep(k) PROVE shared'
  BY <1>2 DEF KidStep, KidWrites, KidReads, KidExit, history
<1>3. ASSUME NEW p \in Proc, SetClient(p) PROVE shared'
  BY <1>3, SetClientStep
<1>4. ASSUME NEW p \in Proc,
             \/ Tests(p) \/ Prepares(p) \/ Marks(p) \/ OpenFifo(p) \/ Flips(p)
             \/ SetRecv(p) \/ CreateFifo(p) \/ Fork(p) \/ ResetUid(p) \/ Reset(p)
      PROVE  shared'
  BY <1>4 DEF Tests, TestSender, TestRecv, TestSend, TestSent, TestReceived, Prepares, Hangup,
     NotRun,
     Output, OpenFails, TestReceiver, EndLine, ReadLine, Marks, SetPid, ResetPid, OpenFifo,
     Flips, SetSend,
     ClearRecv, ClearSend, SetRecv, CreateFifo, Fork, ResetUid, Reset, history
<1> QED BY <1>1, <1>2, <1>3, <1>4, NextIs

\* Every step keeps OwnerInv, until a row is shared.
LEMMA OwnerNext ==
  ASSUME BaseInv, LastInv, shared \/ OwnerInv, [Next]_vars
  PROVE  (shared \/ OwnerInv)'
<1> SUFFICES ASSUME ~shared, OwnerInv PROVE OwnerInv'
  BY SharedStays
<1>1. ASSUME UNCHANGED <<recvInfo, row, pc, job, made, latest>> PROVE OwnerInv'
  BY <1>1 DEF OwnerInv, FoundByOwner, AimsAtOwner, MakesForTo, FlagStays, ReadsOwn, Holds, C
<1>2. CASE UNCHANGED vars
  BY <1>1, <1>2 DEF vars, table, history, pipes
<1>3. ASSUME NEW k \in kids, KidStep(k) PROVE OwnerInv'
  BY <1>1, <1>3, KidStepKeeps DEF table
<1>4. ASSUME NEW p \in Proc,
             \/ Tests(p) \/ Prepares(p) \/ SetClient(p) \/ Marks(p) \/ OpenFifo(p) \/ Flips(p)
             \/ SetRecv(p) \/ CreateFifo(p) \/ Fork(p) \/ ResetUid(p) \/ Reset(p)
      PROVE  OwnerInv'
  BY <1>4, OwnerPrivate, OwnerSetClient, OwnerClearRecv, OwnerSetRecv, OwnerCreateFifo,
     OwnerResetUid,
     OwnerReset DEF Flips
<1> QED BY <1>2, <1>3, <1>4, NextIs

\* Whoever opens a user pipe to read it is the client it was made for, whoever comes, goes
\* or is killed meanwhile and whatever flags are left in the table.  The other pipes are
\* those of a receiver that left while its flag was being set, and those of a table in which
\* a row has been taken that another process still had.
THEOREM NoPipeIsInherited == Spec => []NoInheritedPipe
<1>1. Init => shared \/ OwnerInv
  BY DEF Init, OwnerInv, FoundByOwner, AimsAtOwner, MakesForTo, FlagStays, ReadsOwn, Aiming, NoJob
<1>2. shared \/ OwnerInv => NoInheritedPipe
  BY DEF OwnerInv, ReadsOwn, NoInheritedPipe
<1> QED BY BaseInit, BaseNext, OwnerNext, <1>1, <1>2, PTL DEF Spec
-----------------------------------------------------------------------------
\* A pipe that has been made can be read.

\* Whoever is reading a pipe reads the last one, or the last one was made meanwhile.
ReadsLatest(p) ==
  job[p].rd # 0 => /\ job[p].rd \in taken
                   /\ \/ latest[C(p).readId][row[p]] = job[p].rd
                      \/ made[latest[C(p).readId][row[p]]].raced

\* The last pipe from s to r, made when nobody was reading the one before, is not yet read.
Waiting(s, r) == latest[s][r] # 0 /\ latest[s][r] \notin taken /\ ~made[latest[s][r]].raced

\* x has row i and does not clear its flags yet.
Stays(x, i) == row[x] = i /\ pc[x] # "reset"

\* Its flags are set, each from the step on that sets it.
SentFlag(s, r) ==
  /\ Waiting(s, r) /\ Stays(made[latest[s][r]].by, s)
  /\ \/ made[latest[s][r]].announced
     \/ \E q \in Proc : pc[q] = "setRecv" /\ job[q].wr = latest[s][r]
  => sendInfo[s][r]

RecvFlag(s, r) ==
  Waiting(s, r) /\ Stays(made[latest[s][r]].to, r) /\ made[latest[s][r]].announced => recvInfo[r][s]

ReadableInv ==
  /\ \A p \in Proc : ReadsLatest(p)
  /\ \A s, r \in Rows : SentFlag(s, r) /\ RecvFlag(s, r)

\* The last pipe between two rows has a maker and a receiver, who have come.
LEMMA LastPipesAreTyped ==
  ASSUME BaseInv
  PROVE  \A s, r \in Rows : latest[s][r] # 0 =>
           /\ latest[s][r] \in Pipes
           /\ made[latest[s][r]].by \in Proc /\ pc[made[latest[s][r]].by] # "unborn"
           /\ made[latest[s][r]].to \in Proc /\ pc[made[latest[s][r]].to] # "unborn"
<1>1. \A s, r \in Rows : latest[s][r] # 0 => latest[s][r] \in Pipes
  BY DEF BaseInv, TypeOK, PipeOrNone
<1> QED BY <1>1, PipesAreTyped DEF BaseInv, MadeInv, PipeType

\* Steps that make no pipe and set no flag.
LEMMA FlagsKept ==
  ASSUME BaseInv, ReadableInv, UNCHANGED <<made, latest>>, taken \subseteq taken',
         \A x \in Proc, i \in Rows : pc[x] # "unborn" /\ Stays(x, i)' => Stays(x, i),
         \A q \in Proc : pc'[q] = "setRecv" => pc[q] = "setRecv" /\ job'[q].wr = job[q].wr,
         \A s, r \in Rows, x \in Proc : Waiting(s, r) =>
           /\ Stays(x, s) /\ Stays(x, s)' /\ sendInfo[s][r] => sendInfo'[s][r]
           /\ Stays(x, r) /\ Stays(x, r)' /\ recvInfo[r][s] => recvInfo'[r][s],
         \A q \in Proc : ReadsLatest(q)'
  PROVE  ReadableInv'
<1>1. ASSUME NEW s \in Rows, NEW r \in Rows PROVE SentFlag(s, r)' /\ RecvFlag(s, r)'
  <2>1. SentFlag(s, r) /\ RecvFlag(s, r)
    BY DEF ReadableInv
  <2>2. Waiting(s, r)' => Waiting(s, r)
    BY DEF Waiting
  <2>3. ASSUME NEW x \in Proc, x = made[latest[s][r]].by, Waiting(s, r), Stays(x, s)',
               \/ made[latest[s][r]].announced
               \/ \E q \in Proc : pc'[q] = "setRecv" /\ job'[q].wr = latest[s][r]
        PROVE  sendInfo'[s][r]
    <3>1. Stays(x, s)
      BY <2>3, LastPipesAreTyped DEF Waiting
    <3>2. \/ made[latest[s][r]].announced
          \/ \E q \in Proc : pc[q] = "setRecv" /\ job[q].wr = latest[s][r]
      BY <2>3
    <3>3. sendInfo[s][r]
      BY <2>1, <2>3, <3>1, <3>2 DEF SentFlag
    <3> QED BY <2>3, <3>1, <3>3
  <2>4. ASSUME NEW x \in Proc, x = made[latest[s][r]].to, Waiting(s, r), Stays(x, r)',
               made[latest[s][r]].announced
        PROVE  recvInfo'[r][s]
    <3>1. Stays(x, r)
      BY <2>4, LastPipesAreTyped DEF Waiting
    <3> QED BY <2>1, <2>4, <3>1 DEF RecvFlag
  <2>5. Waiting(s, r) => made[latest[s][r]].by \in Proc /\ made[latest[s][r]].to \in Proc
    BY LastPipesAreTyped DEF Waiting
  <2>6. SentFlag(s, r)'
    BY <2>2, <2>3, <2>5 DEF SentFlag, Stays
  <2>7. RecvFlag(s, r)'
    BY <2>2, <2>4, <2>5 DEF RecvFlag, Stays
  <2> QED BY <2>6, <2>7
<1> QED BY <1>1 DEF ReadableInv

\* A reader stays one of the last pipe, unless a new one is made.
LEMMA ReadersKept ==
  ASSUME BaseInv, LastInv, ReadableInv, NEW p \in Proc,
         \/ Tests(p) \/ Prepares(p) \/ SetClient(p) \/ Marks(p) \/ Flips(p) \/ SetRecv(p) \/ Fork(p)
         \/ ResetUid(p) \/ Reset(p),
         NEW q \in Proc
  PROVE  ReadsLatest(q)'
<1>1. job'[q].rd # 0 => job'[q].rd = job[q].rd /\ C(q)' = C(q) /\ row'[q] = row[q]
  BY JobsStay
<1>2. UNCHANGED <<latest, taken>>
  BY DEF Tests, TestSender, TestRecv, TestSend, TestSent, TestReceived, Prepares, Hangup, NotRun,
     Output, OpenFails, TestReceiver, EndLine, ReadLine, SetClient, Marks, SetPid, ResetPid,
     Flips, SetSend,
     ClearRecv, ClearSend, SetRecv, Fork, ResetUid, Reset, history, pipes
<1>3. \A g \in Pipes : made'[g].raced = made[g].raced
  <2>1. CASE SetRecv(p)
    BY <2>1, SetRecvStep
  <2>2. CASE ~SetRecv(p)
    BY <2>2 DEF Tests, TestSender, TestRecv, TestSend, TestSent, TestReceived, Prepares, Hangup,
       NotRun,
       Output, OpenFails, TestReceiver, EndLine, ReadLine, SetClient, Marks, SetPid, ResetPid,
       Flips, SetSend,
       ClearRecv, ClearSend, Fork, ResetUid, Reset, history, pipes
  <2> QED BY <2>1, <2>2
<1>4. job[q].rd # 0 => latest[C(q).readId][row[q]] \in Pipes
  <2>1. job[q].rd # 0 => /\ pc[q] \in Inside /\ C(q).readId # 0
                         /\ job[q].rd \in Pipes
                         /\ made[job[q].rd].s = C(q).readId /\ made[job[q].rd].r = row[q]
    BY DEF BaseInv, LocalInv, Opened, TypeOK, PipeOrNone
  <2>2. job[q].rd # 0 => C(q).readId \in Rows /\ row[q] \in Rows
    BY <2>1, InsideCommand
  <2>3. job[q].rd # 0 => latest[C(q).readId][row[q]] \in PipeOrNone
    BY <2>2 DEF BaseInv, TypeOK
  <2> QED BY <2>1, <2>3 DEF LastInv, PipeOrNone
<1> QED BY <1>1, <1>2, <1>3, <1>4 DEF ReadableInv, ReadsLatest

\* Who comes has made no pipe and none is for it; who goes only has its row taken out.
LEMMA ReadablePrivate ==
  ASSUME BaseInv, LastInv, ReadableInv, NEW p \in Proc,
         Tests(p) \/ Prepares(p) \/ OpenFifo(p) \/ Fork(p) \/ ResetUid(p) \/ SetClient(p) \/ Marks(p)
  PROVE  ReadableInv'
<1>1. /\ UNCHANGED <<sendInfo, recvInfo, made, latest>> /\ taken \subseteq taken'
      /\ \A q \in Proc : q # p => pc'[q] = pc[q]
  BY DEF BaseInv, TypeOK, Tests, TestSender, TestRecv, TestSend, TestSent, TestReceived,
     Prepares, Hangup, NotRun, Output, OpenFails, TestReceiver, EndLine, ReadLine, OpenFifo,
     Fork, ResetUid,
     SetClient, Take, Marks, SetPid, ResetPid, Goto, table, history, pipes
<1>2. pc[p] # "reset" /\ pc'[p] # "setRecv"
  <2>1. pc[p] # "reset"
    BY DEF Tests, TestSender, TestRecv, TestSend, TestSent, TestReceived, Prepares, Hangup,
       NotRun, Output, OpenFails, TestReceiver, EndLine, ReadLine, OpenFifo, Fork, AtOutput,
       ResetUid,
       SetClient, Marks, SetPid, ResetPid, Connected
  <2>2. pc'[p] # "setRecv"
    BY SetClientStep DEF BaseInv, TypeOK, Tests, TestSender, TestRecv, TestSend, TestSent,
       TestReceived,
       Prepares, Hangup, NotRun, Output, OpenFails, TestReceiver, EndLine, ReadLine, OpenFifo, Fork,
       Goto, AfterOutput, ResetUid, Marks, SetPid, ResetPid
  <2> QED BY <2>1, <2>2
<1>3. ASSUME NEW x \in Proc, NEW i \in Rows, pc[x] # "unborn", Stays(x, i)' PROVE Stays(x, i)
  <2>1. row'[x] = row[x]
    <3>1. CASE SetClient(p)
      BY <1>3, <3>1, SetClientStep
    <3>2. CASE ~SetClient(p)
      BY <3>2 DEF Tests, TestSender, TestRecv, TestSend, TestSent, TestReceived, Prepares, Hangup,
         NotRun, Output, OpenFails, TestReceiver, EndLine, ReadLine, OpenFifo, Fork, ResetUid,
         Marks, SetPid, ResetPid
    <3> QED BY <3>1, <3>2
  <2> QED BY <1>1, <1>2, <1>3, <2>1 DEF Stays
<1>4. ASSUME NEW q \in Proc PROVE ReadsLatest(q)'
  <2>1. CASE ~OpenFifo(p)
    BY <2>1, ReadersKept
  <2>2. CASE OpenFifo(p) /\ q = p
    <3> DEFINE s == C(p).readId
    <3>1. UNCHANGED <<row, latest>> /\ taken' = taken \cup {latest[s][row[p]]}
      BY <2>2 DEF OpenFifo, table
    <3>2. job'[p].rd = latest[s][row[p]] /\ C(p)' = C(p)
      <4>1. job \in [Proc -> JobType]
        BY DEF BaseInv, TypeOK, JobType
      <4>2. job'[p].rd = latest[s][row[p]] /\ job'[p].cmds = job[p].cmds
        BY <2>2, <4>1 DEF OpenFifo, JobType
      <4> QED BY <4>2 DEF C
    <3> QED BY <2>2, <3>1, <3>2 DEF ReadsLatest
  <2>3. CASE OpenFifo(p) /\ q # p
    <3>1. UNCHANGED <<row, latest, made, job[q]>> /\ taken \subseteq taken'
      BY <2>3 DEF OpenFifo, table, BaseInv, TypeOK
    <3> QED BY <3>1 DEF ReadsLatest, ReadableInv, C
  <2> QED BY <2>1, <2>2, <2>3
<1>5. ASSUME NEW q \in Proc, pc'[q] = "setRecv"
      PROVE  pc[q] = "setRecv" /\ job'[q].wr = job[q].wr
  <2>1. q # p /\ pc[q] = "setRecv"
    BY <1>1, <1>2, <1>5
  <2>2. CASE OpenFifo(p)
    BY <2>1, <2>2 DEF OpenFifo, BaseInv, TypeOK
  <2>3. CASE ~OpenFifo(p)
    BY <1>5, <2>1, <2>3, JobsStay
  <2> QED BY <2>1, <2>2, <2>3
<1> QED BY <1>1, <1>3, <1>4, <1>5, FlagsKept

\* A reader clears the flags of a pipe that is read, or one made meanwhile.
LEMMA ReadableClear ==
  ASSUME BaseInv, LastInv, ReadableInv, NEW p \in Proc, ClearRecv(p) \/ ClearSend(p)
  PROVE  ReadableInv'
<1>1. /\ UNCHANGED <<row, job, taken, made, latest>>
      /\ pc[p] \in {"clearRecv", "clearSend"} /\ pc'[p] \in {"clearSend", "fork"}
      /\ \A q \in Proc : q # p => pc'[q] = pc[q]
  BY DEF ClearRecv, ClearSend, Goto, history, pipes, BaseInv, TypeOK
<1>2. /\ row[p] \in Rows /\ C(p).readId \in Rows /\ job[p].rd # 0
      /\ \A s, r \in Rows :
           /\ sendInfo[s][r] /\ ~(s = C(p).readId /\ r = row[p]) => sendInfo'[s][r]
           /\ recvInfo[r][s] /\ ~(s = C(p).readId /\ r = row[p]) => recvInfo'[r][s]
  BY FlipsStep DEF Flips
<1>3. ~Waiting(C(p).readId, row[p])
  BY <1>2 DEF ReadableInv, ReadsLatest, Waiting
<1>4. \A q \in Proc : ReadsLatest(q)'
  BY ReadersKept DEF Flips
<1>5. \A x \in Proc, i \in Rows : Stays(x, i)' => Stays(x, i)
  BY <1>1 DEF Stays
<1> QED BY <1>1, <1>2, <1>3, <1>4, <1>5, FlagsKept

\* Who clears the flags of its row is alone in it and stays no longer.
LEMMA ReadableReset ==
  ASSUME BaseInv, LastInv, ReadableInv, ~shared, NEW p \in Proc, Reset(p)
  PROVE  ReadableInv'
<1>1. /\ pc[p] = "reset" /\ row[p] \in Rows
      /\ \A s, r \in Rows :
           /\ sendInfo[s][r] /\ s # row[p] => sendInfo'[s][r]
           /\ recvInfo[r][s] /\ r # row[p] => recvInfo'[r][s]
      /\ \/ row' = [row EXCEPT ![p] = 0] /\ pc'[p] \in {"gone", "crashed"}
         \/ row' = row /\ pc' = pc
      /\ \A q \in Proc : q # p => job'[q] = job[q] /\ pc'[q] = pc[q]
  BY ResetStep
<1>2. UNCHANGED <<taken, made, latest>>
  BY DEF Reset, history, pipes
<1>3. 0 \notin Rows
  BY PipeLimitAssumption DEF Rows
<1>4. \A q \in Proc : row'[q] = IF q = p THEN row'[p] ELSE row[q]
  BY <1>1 DEF BaseInv, TypeOK
<1>5. \A x \in Proc : ~Stays(x, row[p])
  BY <1>1, <1>3 DEF Stays, BaseInv, RowInv
<1>6. \A x \in Proc, i \in Rows : Stays(x, i)' => Stays(x, i)
  <2>1. row'[p] = 0 \/ (row' = row /\ pc' = pc)
    BY <1>1 DEF BaseInv, TypeOK
  <2> QED BY <1>1, <1>3, <1>4, <2>1 DEF Stays
<1>7. \A s, r \in Rows, x \in Proc :
        /\ Stays(x, s) /\ sendInfo[s][r] => sendInfo'[s][r]
        /\ Stays(x, r) /\ recvInfo[r][s] => recvInfo'[r][s]
  BY <1>1, <1>5
<1>8. \A q \in Proc : ReadsLatest(q)'
  BY ReadersKept
<1>9. \A q \in Proc : pc'[q] = "setRecv" => pc[q] = "setRecv" /\ job'[q].wr = job[q].wr
  BY <1>1
<1> QED BY <1>2, <1>6, <1>7, <1>8, <1>9, FlagsKept

\* The pipe p has made is no other rows' last.
LEMMA OwnPipe ==
  ASSUME BaseInv, NEW p \in Proc, pc[p] \in {"setSend", "setRecv"}
  PROVE  /\ job[p].wr \in Pipes /\ row[p] \in Rows /\ C(p).writeId \in Rows
         /\ \A s, r \in Rows : latest[s][r] = job[p].wr => s = row[p] /\ r = C(p).writeId
<1>1. /\ job[p].wr \in Pipes /\ job[p].wr # 0 /\ C(p).writeId # 0
      /\ made[job[p].wr].s = row[p] /\ made[job[p].wr].r = C(p).writeId
  BY DEF BaseInv, LocalInv, TypeOK, PipeOrNone
<1>2. row[p] \in Rows /\ C(p).writeId \in Rows
  BY <1>1, InsideCommand DEF Inside
<1>3. \A s, r \in Rows : latest[s][r] # 0 => made[latest[s][r]].s = s /\ made[latest[s][r]].r = r
  BY DEF BaseInv, LatestInv
<1> QED BY <1>1, <1>2, <1>3

\* The first flag of the pipe p has made is set, and no other pipe is concerned ...
LEMMA ReadableSetSend ==
  ASSUME BaseInv, LastInv, ReadableInv, NEW p \in Proc, SetSend(p)
  PROVE  ReadableInv'
<1>1. /\ UNCHANGED <<recvInfo, row, job, taken, made, latest>> /\ pc[p] = "setSend"
      /\ \A q \in Proc : pc'[q] = IF q = p THEN "setRecv" ELSE pc[q]
  BY DEF SetSend, Goto, history, pipes, BaseInv, TypeOK
<1>2. \A s, r \in Rows : /\ sendInfo[s][r] => sendInfo'[s][r]
                         /\ s = row[p] /\ r = C(p).writeId => sendInfo'[s][r]
  <2>1. ~ClearSend(p)
    BY <1>1 DEF ClearSend
  <2> QED BY <2>1, FlipsStep DEF Flips
<1>3. \A q \in Proc : ReadsLatest(q)'
  BY ReadersKept DEF Flips
<1>4. ASSUME NEW s \in Rows, NEW r \in Rows PROVE SentFlag(s, r)' /\ RecvFlag(s, r)'
  <2>1. SentFlag(s, r) /\ RecvFlag(s, r) /\ (Waiting(s, r)' <=> Waiting(s, r))
    BY <1>1 DEF ReadableInv, Waiting
  <2>2. latest[s][r] = job[p].wr => s = row[p] /\ r = C(p).writeId
    BY <1>1, OwnPipe
  <2>3. Waiting(s, r) => /\ made[latest[s][r]].by \in Proc /\ made[latest[s][r]].to \in Proc
    BY LastPipesAreTyped DEF Waiting
  <2>4. \A x \in Proc, i \in Rows : row'[x] = i /\ pc'[x] # "reset" => Stays(x, i)
    BY <1>1 DEF Stays
  <2>5. SentFlag(s, r)'
    <3>1. CASE latest[s][r] = job[p].wr
      BY <1>2, <2>2, <3>1 DEF SentFlag
    <3>2. CASE latest[s][r] # job[p].wr
      <4>1. \A q \in Proc : pc'[q] = "setRecv" /\ job[q].wr = latest[s][r] => pc[q] = "setRecv"
        BY <1>1, <3>2
      <4> QED BY <1>1, <1>2, <2>1, <2>3, <2>4, <4>1 DEF SentFlag, Stays
    <3> QED BY <3>1, <3>2
  <2>6. RecvFlag(s, r)'
    BY <1>1, <2>1, <2>3, <2>4 DEF RecvFlag, Stays
  <2> QED BY <2>5, <2>6
<1> QED BY <1>3, <1>4 DEF ReadableInv

\* ... then the second.
LEMMA ReadableSetRecv ==
  ASSUME BaseInv, LastInv, ReadableInv, NEW p \in Proc, SetRecv(p)
  PROVE  ReadableInv'
<1>1. UNCHANGED <<sendInfo, row, job, taken, latest>> /\ pc[p] = "setRecv"
  BY DEF SetRecv
<1>2. /\ \A s, r \in Rows : /\ recvInfo[r][s] => recvInfo'[r][s]
                            /\ s = row[p] /\ r = C(p).writeId => recvInfo'[r][s]
      /\ \A h \in Pipes : /\ UNCHANGED <<made[h].by, made[h].to, made[h].raced>>
                          /\ h # job[p].wr => made'[h] = made[h]
      /\ pc'[p] \in {"clearRecv", "fork"} /\ \A q \in Proc : q # p => pc'[q] = pc[q]
  BY SetRecvStep
<1>3. \A q \in Proc : ReadsLatest(q)'
  BY ReadersKept
<1>4. ASSUME NEW s \in Rows, NEW r \in Rows PROVE SentFlag(s, r)' /\ RecvFlag(s, r)'
  <2>0. /\ latest[s][r] # 0 => latest[s][r] \in Pipes
        /\ Waiting(s, r) => made[latest[s][r]].by \in Proc /\ made[latest[s][r]].to \in Proc
    BY LastPipesAreTyped DEF Waiting
  <2>1. SentFlag(s, r) /\ RecvFlag(s, r) /\ (Waiting(s, r)' <=> Waiting(s, r))
    BY <1>1, <1>2, <2>0 DEF ReadableInv, Waiting
  <2>2. latest[s][r] = job[p].wr => s = row[p] /\ r = C(p).writeId
    BY <1>1, OwnPipe
  <2>3. \A x \in Proc, i \in Rows : row'[x] = i /\ pc'[x] # "reset" => Stays(x, i)
    BY <1>1, <1>2 DEF Stays
  <2>4. \A q \in Proc : pc'[q] = "setRecv" => pc[q] = "setRecv"
    BY <1>1, <1>2
  <2>5. SentFlag(s, r)'
    <3>1. CASE latest[s][r] = job[p].wr
      BY <1>1, <1>2, <2>0, <2>1, <2>3, <3>1 DEF SentFlag, Stays, Waiting
    <3>2. CASE latest[s][r] # job[p].wr
      BY <1>1, <1>2, <2>0, <2>1, <2>3, <2>4, <3>2 DEF SentFlag, Stays, Waiting
    <3> QED BY <3>1, <3>2
  <2>6. RecvFlag(s, r)'
    <3>1. CASE latest[s][r] = job[p].wr
      BY <1>2, <2>2, <3>1 DEF RecvFlag
    <3>2. CASE latest[s][r] # job[p].wr
      BY <1>1, <1>2, <2>0, <2>1, <2>3, <3>2 DEF RecvFlag, Stays, Waiting
    <3> QED BY <3>1, <3>2
  <2> QED BY <2>5, <2>6
<1> QED BY <1>3, <1>4 DEF ReadableInv

\* A new pipe has no flags yet; it is raced if the one before is being read.
LEMMA ReadableCreateFifo ==
  ASSUME BaseInv, LastInv, ReadableInv, NEW p \in Proc, CreateFifo(p)
  PROVE  ReadableInv'
<1> DEFINE r0 == C(p).writeId
           g == Len(made) + 1
<1>1. /\ row[p] \in Rows /\ r0 \in Rows /\ g \notin Pipes
      /\ made'[g] = NewPipe(p, r0)
      /\ \A h \in Pipes : made'[h] = made[h]
      /\ \A s, t \in Rows : latest'[s][t] = IF s = row[p] /\ t = r0 THEN g ELSE latest[s][t]
      /\ \A q \in Proc : /\ UNCHANGED job[q].rd
                         /\ C(q)' = C(q)
                         /\ job'[q].wr = IF q = p THEN g ELSE job[q].wr
  BY CreateFifoStep
<1>2. UNCHANGED <<sendInfo, recvInfo, row, taken>> /\ pc[p] = "create"
      /\ \A q \in Proc : pc'[q] = IF q = p THEN "setSend" ELSE pc[q]
  BY DEF CreateFifo, Goto, BaseInv, TypeOK, table
<1>3. /\ made'[g].raced <=> \E q \in Proc : row[q] = r0 /\ job[q].rd # 0 /\ C(q).readId = row[p]
      /\ made'[g].announced = FALSE
  BY <1>1 DEF NewPipe
<1>0. g # 0 /\ \A q \in Proc : job[q].wr # g
  <2>1. \A q \in Proc : job[q].wr \in PipeOrNone
    BY DEF BaseInv, TypeOK
  <2>2. g # 0
    BY PipesAreTyped DEF BaseInv
  <2> QED BY <1>1, <2>1, <2>2 DEF PipeOrNone
<1> HIDE DEF r0, g
<1>4. ASSUME NEW q \in Proc, job[q].rd # 0 PROVE ReadsLatest(q)'
  <2>1. /\ pc[q] \in Inside /\ C(q).readId # 0 /\ job[q].rd \in Pipes
        /\ made[job[q].rd].s = C(q).readId /\ made[job[q].rd].r = row[q]
    BY <1>4 DEF BaseInv, LocalInv, Opened, TypeOK, PipeOrNone
  <2>2. C(q).readId \in Rows /\ row[q] \in Rows
    BY <2>1, InsideCommand
  <2>3. latest[C(q).readId][row[q]] \in Pipes
    <3>1. latest[C(q).readId][row[q]] \in PipeOrNone
      BY <2>2 DEF BaseInv, TypeOK
    <3> QED BY <2>1, <3>1 DEF LastInv, PipeOrNone
  <2>4. ReadsLatest(q)
    BY DEF ReadableInv
  <2>5. CASE C(q).readId = row[p] /\ row[q] = r0
    BY <1>1, <1>2, <1>3, <1>4, <2>2, <2>4, <2>5 DEF ReadsLatest
  <2>6. CASE ~(C(q).readId = row[p] /\ row[q] = r0)
    BY <1>1, <1>2, <1>4, <2>2, <2>3, <2>4, <2>6 DEF ReadsLatest
  <2> QED BY <2>5, <2>6
<1>5. \A q \in Proc : ReadsLatest(q)'
  BY <1>1, <1>4 DEF ReadsLatest
<1>6. ASSUME NEW s \in Rows, NEW r \in Rows PROVE SentFlag(s, r)' /\ RecvFlag(s, r)'
  <2>1. CASE s = row[p] /\ r = r0
    <3>1. latest'[s][r] = g /\ job'[p].wr = g /\ pc'[p] = "setSend"
      BY <1>1, <1>2, <2>1
    <3>2. \A q \in Proc : job'[q].wr = g => pc'[q] # "setRecv"
      BY <1>0, <1>1, <1>2
    <3>3. SentFlag(s, r)'
      BY <1>3, <3>1, <3>2 DEF SentFlag
    <3>4. RecvFlag(s, r)'
      BY <1>3, <3>1 DEF RecvFlag
    <3> QED BY <3>3, <3>4
  <2>2. CASE ~(s = row[p] /\ r = r0)
    <3>1. latest'[s][r] = latest[s][r] /\ (latest[s][r] # 0 => latest[s][r] \in Pipes)
      BY <1>1, <2>2, LastPipesAreTyped
    <3>2. SentFlag(s, r) /\ RecvFlag(s, r) /\ (Waiting(s, r)' => Waiting(s, r))
      BY <1>1, <1>2, <3>1 DEF ReadableInv, Waiting
    <3>3. Waiting(s, r) =>
            /\ latest[s][r] \in Pipes /\ made'[latest[s][r]] = made[latest[s][r]]
            /\ made[latest[s][r]].by \in Proc /\ made[latest[s][r]].to \in Proc
      BY <1>1, LastPipesAreTyped DEF Waiting
    <3>4. \A x \in Proc, i \in Rows : row'[x] = i /\ pc'[x] # "reset" => Stays(x, i)
      BY <1>2 DEF Stays
    <3>5. \A q \in Proc : pc'[q] = "setRecv" => pc[q] = "setRecv" /\ job'[q].wr = job[q].wr
      BY <1>1, <1>2
    <3>6. SentFlag(s, r)'
      BY <1>2, <3>1, <3>2, <3>3, <3>4, <3>5 DEF SentFlag, Stays
    <3>7. RecvFlag(s, r)'
      BY <1>2, <3>1, <3>2, <3>3, <3>4 DEF RecvFlag, Stays
    <3> QED BY <3>6, <3>7
  <2> QED BY <2>1, <2>2
<1> QED BY <1>5, <1>6 DEF ReadableInv

\* Every step keeps ReadableInv, until a row is shared.
LEMMA ReadableNext ==
  ASSUME BaseInv, LastInv, shared \/ ReadableInv, [Next]_vars
  PROVE  (shared \/ ReadableInv)'
<1> SUFFICES ASSUME ~shared, ReadableInv PROVE ReadableInv'
  BY SharedStays
<1>1. ASSUME UNCHANGED <<sendInfo, recvInfo, row, pc, job, made, latest, taken>>
      PROVE  ReadableInv'
  BY <1>1 DEF ReadableInv, ReadsLatest, SentFlag, RecvFlag, Waiting, Stays, C
<1>2. CASE UNCHANGED vars
  BY <1>1, <1>2 DEF vars, table, history, pipes
<1>3. ASSUME NEW k \in kids, KidStep(k) PROVE ReadableInv'
  BY <1>1, <1>3, KidStepKeeps DEF table
<1>4. ASSUME NEW p \in Proc,
             \/ Tests(p) \/ Prepares(p) \/ SetClient(p) \/ Marks(p) \/ OpenFifo(p) \/ Flips(p)
             \/ SetRecv(p) \/ CreateFifo(p) \/ Fork(p) \/ ResetUid(p) \/ Reset(p)
      PROVE  ReadableInv'
  BY <1>4, ReadablePrivate, ReadableClear, ReadableReset, ReadableSetSend, ReadableSetRecv,
     ReadableCreateFifo DEF Flips
<1> QED BY <1>2, <1>3, <1>4, NextIs

\* Both flags of a pipe that was announced stay set until it is opened or one of its clients
\* leaves, whatever is read, written, tested and cleared meanwhile and whoever is killed in
\* the middle of it, as long as no row is taken that another process still has.
THEOREM PipesStayReadable == Spec => []PipeIsReadable
<1>1. Init => (shared \/ ReadableInv)
  BY DEF Init, ReadableInv, ReadsLatest, SentFlag, RecvFlag, Waiting, NoJob
<1>2. BaseInv /\ (shared \/ ReadableInv) => PipeIsReadable
  <2> SUFFICES ASSUME BaseInv, ReadableInv, ~shared, NEW s \in Rows, NEW r \in Rows,
                      latest[s][r] # 0, latest[s][r] \notin taken, made[latest[s][r]].announced,
                      pid[s] = made[latest[s][r]].by, pid[r] = made[latest[s][r]].to,
                      ~made[latest[s][r]].raced
               PROVE  sendInfo[s][r] /\ recvInfo[r][s]
    BY DEF PipeIsReadable
  <2>1. SentFlag(s, r) /\ RecvFlag(s, r) /\ Waiting(s, r)
    BY DEF ReadableInv, Waiting
  <2>2. \A i \in Rows : pid[i] \in Proc => Stays(pid[i], i)
    BY PipeProcAssumption DEF BaseInv, RowInv, Stays
  <2>3. Stays(made[latest[s][r]].by, s) /\ Stays(made[latest[s][r]].to, r)
    BY <2>2, LastPipesAreTyped
  <2> QED BY <2>1, <2>3 DEF SentFlag, RecvFlag
<1> QED BY BaseInit, BaseNext, ReadableNext, <1>1, <1>2, PTL DEF Spec
-----------------------------------------------------------------------------
\* What a line leaves in pipeV.

UserSigns == {"WriteUserPipe", "WriteUserPipeForRead"}
Before  == {"unborn", "setPid", "prompt", "cmd", "testRecv", "testSend", "open"}
Done    == {"clearRecv", "clearSend", "fork"}
Leaving == {"exit", "resetUid", "reset", "crashed"}

\* The pipes that may be left when p leaves.
IsLeft(p, e) ==
  \/ e.sign = "NumberPipe"
  \/ p \in gaveUp /\ e.sign = "WriteUserPipeForRead"
  \/ p \in gaveUp /\ e.sign = "Pipe" /\ e.num = 0

\* Between commands p knows of no user pipe and of no ordinary one but the next command's
\* input; during a command it knows of those that the command reads and, once its output is
\* settled, writes.
Forgets(p) ==
  \A e \in pipeV[p] :
    /\ pc[p] \in Before => e.sign \notin UserSigns
    /\ pc[p] \in Opened /\ e.sign \in UserSigns =>
         \/ e = UserPipe(C(p).readId, row[p], "WriteUserPipeForRead")
         \/ e = UserPipe(row[p], C(p).writeId, "WriteUserPipe") /\ pc[p] \in Done
    /\ pc[p] \in Before \cup Opened /\ e.sign = "Pipe" =>
         e.num = 0 \/ (e.num = 1 /\ pc[p] \in Done)
    /\ pc[p] \in Leaving => IsLeft(p, e)

ForgetInv == \A p \in Proc : Forgets(p)

\* Counting down changes no sign.
LEMMA SignsStay ==
  ASSUME NEW V \in SUBSET Entry, NEW S, NEW e \in CountDown(V, S)
  PROVE  \E d \in V : d.sign = e.sign /\ e.num = IF d.sign \in S THEN d.num - 1 ELSE d.num
<1>1. PICK d \in V : e = IF d.sign \in S THEN [d EXCEPT !.num = @ - 1] ELSE d
  BY DEF CountDown
<1>2. d \in Entry
  OBVIOUS
<1>3. [d EXCEPT !.num = @ - 1].sign = d.sign /\ [d EXCEPT !.num = @ - 1].num = d.num - 1
  BY <1>2 DEF Entry
<1> QED BY <1>1, <1>3

\* p forgets by itself: of others' steps it notices none.
LEMMA ForgetStep ==
  ASSUME BaseInv, ForgetInv, NEW p \in Proc,
         \/ Tests(p) \/ Prepares(p) \/ SetClient(p) \/ Marks(p) \/ OpenFifo(p) \/ Flips(p)
         \/ SetRecv(p) \/ CreateFifo(p) \/ Fork(p) \/ ResetUid(p) \/ Reset(p)
  PROVE  ForgetInv'
<1>1. /\ job \in [Proc -> JobType] /\ pc \in [Proc -> Places] /\ row \in [Proc -> {0} \cup Rows]
      /\ pipeV \in [Proc -> SUBSET Entry] /\ pipeV[p] \in SUBSET Entry
      /\ Forgets(p) /\ LocalInv(p)
  BY DEF BaseInv, TypeOK, JobType, ForgetInv
<1>2. \A q \in Proc : q # p => C(q)' = C(q) /\ pc'[q] = pc[q] /\ pipeV'[q] = pipeV[q] /\ row'[q] = row[q]
  <2>1. \A q \in Proc : q # p => pc'[q] = pc[q] /\ pipeV'[q] = pipeV[q] /\ row'[q] = row[q]
    BY <1>1, SetClientStep
       DEF Tests, TestSender, TestRecv, TestSend, TestSent, TestReceived, Prepares, Hangup, NotRun,
       Output, OpenFails, TestReceiver, EndLine, ReadLine, SetClient, Marks, SetPid, ResetPid,
       OpenFifo, Flips,
       SetSend, ClearRecv, ClearSend, SetRecv, CreateFifo, Fork, ResetUid, Reset, ClearPipe,
       Goto, table
  <2>2. \A q \in Proc : q # p => C(q)' = C(q)
    <3>1. CASE CreateFifo(p)
      BY <3>1, CreateFifoStep
    <3>2. CASE Reset(p)
      BY <3>2, ResetStep
    <3>3. CASE SetClient(p)
      BY <3>3, SetClientStep
    <3>4. CASE ResetUid(p)
      BY <3>4, ResetUidStep
    <3>5. CASE ~CreateFifo(p) /\ ~Reset(p) /\ ~SetClient(p) /\ ~ResetUid(p)
      BY <1>1, <3>5 DEF Tests, TestSender, TestRecv, TestSend, TestSent, TestReceived, Prepares,
         Hangup,
         NotRun, Output, OpenFails, TestReceiver, EndLine, ReadLine, Marks, SetPid, ResetPid,
         OpenFifo, Flips,
         SetSend, ClearRecv, ClearSend, SetRecv, Fork, C
    <3> QED BY <3>1, <3>2, <3>3, <3>4, <3>5
  <2> QED BY <2>1, <2>2
<1>3. gaveUp \subseteq gaveUp'
  BY DEF Tests, TestSender, TestRecv, TestSend, TestSent, TestReceived, Prepares, Hangup, NotRun,
     Output, OpenFails, TestReceiver, EndLine, ReadLine, SetClient, Marks, SetPid, ResetPid,
     OpenFifo, Flips,
     SetSend, ClearRecv, ClearSend, SetRecv, CreateFifo, Fork, ResetUid, Reset, history
<1>4. SUFFICES Forgets(p)'
  BY <1>2, <1>3 DEF ForgetInv, Forgets, IsLeft
<1>5. CASE Tests(p) \/ Flips(p) \/ CreateFifo(p)
  <2>1. pipeV'[p] = pipeV[p] /\ row'[p] = row[p]
    BY <1>5 DEF Tests, TestSender, TestRecv, TestSend, TestSent, TestReceived, Flips, SetSend,
       ClearRecv, ClearSend, CreateFifo, table
  <2>2. C(p)' = C(p)
    <3>1. CASE CreateFifo(p)
      BY <3>1, CreateFifoStep
    <3>2. CASE Tests(p) \/ Flips(p)
      BY <3>2 DEF Tests, TestSender, TestRecv, TestSend, TestSent, TestReceived, Flips, SetSend,
         ClearRecv, ClearSend, C
    <3> QED BY <1>5, <3>1, <3>2
  <2>3. \/ pc[p] \in {"cmd", "testRecv", "testSend"} /\ pc'[p] \in {"testRecv", "testSend", "open", "out"}
        \/ pc[p] \in Opened \ Done /\ pc'[p] \in Opened
        \/ pc[p] \in Done /\ pc'[p] \in Done
    BY <1>1, <1>5 DEF Tests, TestSender, TestRecv, TestSend, TestSent, TestReceived, Flips, SetSend,
       ClearRecv, ClearSend, CreateFifo, Goto, AfterOutput, Opened, Inside, Done
  <2> QED BY <1>1, <2>1, <2>2, <2>3 DEF Forgets, Opened, Inside, Before, Done, Leaving
<1>6. CASE OpenFifo(p)
  <2>1. /\ pc[p] = "open" /\ pc'[p] = "out" /\ row'[p] = row[p]
        /\ pipeV'[p] = pipeV[p] \cup {UserPipe(C(p).readId, row[p], "WriteUserPipeForRead")}
    BY <1>1, <1>6 DEF OpenFifo, Goto, table
  <2>2. C(p)' = C(p)
    BY <1>1, <1>6 DEF OpenFifo, C, JobType
  <2>3. UserPipe(C(p).readId, row[p], "WriteUserPipeForRead").sign # "Pipe"
    BY DEF UserPipe
  <2> QED BY <1>1, <2>1, <2>2, <2>3 DEF Forgets, Opened, Inside, Before, Done, Leaving
<1>7. CASE SetRecv(p)
  <2>1. /\ pc[p] = "setRecv" /\ pc'[p] \in Done /\ row'[p] = row[p]
        /\ pipeV'[p] = pipeV[p] \cup {UserPipe(row[p], C(p).writeId, "WriteUserPipe")} /\ C(p)' = C(p)
    BY <1>1, <1>7 DEF SetRecv, Goto, AfterOutput, C, Done
  <2>2. UserPipe(row[p], C(p).writeId, "WriteUserPipe").sign # "Pipe"
    BY DEF UserPipe
  <2> QED BY <1>1, <2>1, <2>2 DEF Forgets, Opened, Inside, Before, Done, Leaving
<1>8. CASE Fork(p) \/ NotRun(p)
  <2> DEFINE s == C(p).readId
             r == C(p).writeId
             U == ClosePipe(pipeV[p], row[p], s, r)
  <2>1. \/ pc[p] = "fork" /\ pc'[p] = "cmd" /\ pipeV'[p] = ReducePipe(U)
        \/ pc[p] = "cmd" /\ pc'[p] \in {"cmd", "exit"} /\ pipeV'[p] = ReducePipe(U)
        \/ pc[p] = "cmd" /\ pc'[p] = "cmd" /\ pipeV'[p] = pipeV[p]
    BY <1>1, <1>8 DEF Fork, NotRun, Goto
  <2>2. ASSUME NEW e \in U, pc[p] \in {"fork", "cmd"}
        PROVE  e.sign \notin UserSigns /\ (e.sign = "Pipe" => e.num = 1 /\ pc[p] = "fork")
    <3>1. e \in pipeV[p] /\ e.num # 0
      BY DEF ClosePipe
    <3>2. /\ e # UserPipe(s, row[p], "WriteUserPipeForRead")
          /\ e # UserPipe(row[p], r, "WriteUserPipe")
      BY DEF ClosePipe, UserPipe
    <3> QED BY <1>1, <2>2, <3>1, <3>2 DEF Forgets, Opened, Inside, Before, Done
  <2>3. U \in SUBSET Entry
    BY <1>1 DEF ClosePipe
  <2>4. ASSUME NEW e \in ReducePipe(U), pc[p] \in {"fork", "cmd"}
        PROVE  e.sign \notin UserSigns /\ (e.sign = "Pipe" => e.num = 0 /\ pc[p] = "fork")
               /\ e.sign \in {"Pipe", "NumberPipe"} \cup UserSigns
    <3> HIDE DEF U
    <3>1. PICK d \in U : d.sign = e.sign /\ e.num = IF d.sign \in {"Pipe"} THEN d.num - 1 ELSE d.num
      BY <2>3, SignsStay DEF ReducePipe
    <3>2. d.sign \in {"Pipe", "NumberPipe"} \cup UserSigns
      BY <2>3 DEF Entry, UserSigns
    <3> QED BY <2>2, <2>4, <3>1, <3>2
  <2> HIDE DEF U
  <2>5. CASE pipeV'[p] = pipeV[p] /\ pc[p] = "cmd" /\ pc'[p] = "cmd"
    BY <1>1, <2>5 DEF Forgets, Opened, Inside, Before, Done, Leaving
  <2>6. CASE pipeV'[p] = ReducePipe(U) /\ pc[p] \in {"fork", "cmd"} /\ pc'[p] = "cmd"
    BY <2>4, <2>6 DEF Forgets, Opened, Inside, Before, Done, Leaving
  <2>7. CASE pipeV'[p] = ReducePipe(U) /\ pc[p] = "cmd" /\ pc'[p] = "exit"
    BY <2>4, <2>7 DEF Forgets, Opened, Inside, Before, Done, Leaving, IsLeft
  <2> QED BY <2>1, <2>5, <2>6, <2>7
<1>9. CASE Output(p)
  <2>1. /\ pc[p] \in {"cmd", "out"} /\ pc'[p] \in {"clearRecv", "fork"} /\ row'[p] = row[p]
        /\ pipeV'[p] \subseteq pipeV[p] \cup {Numbered(C(p).num, C(p).sign)}
        /\ C(p).sign \notin {"Pipe", "NumberPipe"} => pipeV'[p] = pipeV[p]
    BY <1>1, <1>9 DEF Output, AtOutput, AfterOutput, Goto, CreatePipe, table
  <2>2. C(p)' = C(p)
    BY <1>1, <1>9 DEF Output, C, JobType
  <2>3. C(p).sign = "Pipe" => C(p).num = 1
    BY <1>9, InsideCommand DEF Output, Cmd
  <2>4. \A e \in pipeV'[p] : \/ e \in pipeV[p]
                             \/ e.sign = "NumberPipe"
                             \/ e.sign = "Pipe" /\ e.num = 1
    BY <2>1, <2>3 DEF Numbered
  <2> QED BY <1>1, <2>1, <2>2, <2>4 DEF Forgets, Opened, Inside, Before, Done, Leaving, UserSigns
<1>10. CASE TestReceiver(p)
  <2>1. /\ pc[p] \in {"cmd", "out"} /\ pc'[p] \in Opened /\ row'[p] = row[p]
        /\ pipeV'[p] = pipeV[p]
    BY <1>1, <1>10 DEF TestReceiver, AtOutput, AfterOutput, Goto, table, Opened, Inside
  <2>2. C(p)' = C(p)
    BY <1>1, <1>10 DEF TestReceiver, C, JobType
  <2> QED BY <1>1, <2>1, <2>2 DEF Forgets, Opened, Inside, Before, Done, Leaving
<1>11. CASE OpenFails(p)
  <2>1. pc[p] \in {"cmd", "out"} /\ pc'[p] = "exit" /\ pipeV'[p] = pipeV[p] /\ p \in gaveUp'
    BY <1>1, <1>11 DEF OpenFails, AtOutput, Goto
  <2>2. \A e \in pipeV[p] : e.sign \in {"Pipe", "NumberPipe"} \cup UserSigns
    BY <1>1 DEF Entry, UserSigns
  <2>3. UserPipe(C(p).readId, row[p], "WriteUserPipeForRead").sign = "WriteUserPipeForRead"
    BY DEF UserPipe
  <2> QED BY <1>1, <2>1, <2>2, <2>3 DEF Forgets, Opened, Inside, Before, Done, Leaving, IsLeft
<1>12. CASE SetClient(p) \/ Marks(p) \/ ResetUid(p) \/ Reset(p) \/ Hangup(p) \/ \E l \in Lines : ReadLine(p, l)
  <2>1. \/ pc[p] \in {"unborn", "setPid", "prompt"} /\ pc'[p] \in {"unborn", "setPid", "prompt", "cmd"}
           /\ pipeV'[p] = pipeV[p]
        \/ pc[p] \in Leaving /\ pc'[p] \in Leaving /\ pipeV'[p] = pipeV[p]
        \/ pc'[p] \in {"refused", "gone", "dead"}
    BY <1>1, <1>12, SetClientStep
       DEF SetClient, Marks, SetPid, ResetPid, ResetUid, Reset, Hangup, ReadLine, ClearPipe,
           Goto, Leaving
  <2> QED BY <1>1, <1>3, <2>1 DEF Forgets, Opened, Inside, Before, Done, Leaving, IsLeft
<1>13. CASE EndLine(p)
  <2>1. pc[p] = "cmd" /\ pc'[p] = "prompt" /\ pipeV'[p] = ReducePipeNum(pipeV[p])
    BY <1>1, <1>13 DEF EndLine, Goto
  <2>2. \A e \in ReducePipeNum(pipeV[p]) :
          \E d \in pipeV[p] : d.sign = e.sign /\ (d.sign = "Pipe" => d.num = e.num)
    BY <1>1, SignsStay DEF ReducePipeNum
  <2> QED BY <1>1, <2>1, <2>2 DEF Forgets, Opened, Inside, Before, Done, Leaving
<1> QED BY <1>5, <1>6, <1>7, <1>8, <1>9, <1>10, <1>11, <1>12, <1>13 DEF Prepares

\* Whoever leaves with exit leaves nothing in pipeV but number pipes, and whoever leaves
\* because an output does not open nothing else but what that command was to read: of these
\* ClearPipe asks a null pointer for the uid.
THEOREM ExitsForgetPipes == Spec => []ExitForgetsPipes
<1>1. Init => ForgetInv
  BY DEF Init, ForgetInv, Forgets
<1>2. BaseInv /\ LastInv /\ ForgetInv /\ [Next]_vars => ForgetInv'
  <2> SUFFICES ASSUME BaseInv, LastInv, ForgetInv, [Next]_vars PROVE ForgetInv'
    OBVIOUS
  <2>1. ASSUME UNCHANGED <<pc, job, row, pipeV, gaveUp>> PROVE ForgetInv'
    BY <2>1 DEF ForgetInv, Forgets, IsLeft, C
  <2>2. CASE UNCHANGED vars
    BY <2>1, <2>2 DEF vars, history
  <2>3. ASSUME NEW k \in kids, KidStep(k) PROVE ForgetInv'
    BY <2>1, <2>3, KidStepKeeps
  <2> QED BY <2>2, <2>3, NextIs, ForgetStep
<1>3. ForgetInv => ExitForgetsPipes
  BY DEF ForgetInv, Forgets, ExitForgetsPipes, IsLeft, Leaving
<1> QED BY BaseInit, BaseNext, <1>1, <1>2, <1>3, PTL DEF Spec
-----------------------------------------------------------------------------
\* What a reader gets.

\* Nobody is writing, or about to write, the file of s and r.
NoWriter(s, r) ==
  (\A k \in kids : ~Writes(k, s, r)) /\ (\A q \in Proc : ~Writes(job[q], s, r))

\* g is the last pipe of its file, which has been written and is no longer.
CleanPipe(g) ==
  /\ latest[made[g].s][made[g].r] = g
  /\ file[made[g].s][made[g].r] # {}
  /\ NoWriter(made[g].s, made[g].r)

Undisturbed(x) == x.rd # 0 /\ x.clean => CleanPipe(x.rd)

\* The file of two rows holds nothing but the output of the last pipe, if nobody spoilt it.
OwnContents(s, r) ==
  latest[s][r] # 0 /\ latest[s][r] \notin spoilt => file[s][r] \subseteq {latest[s][r]}

GotOwn(k) == k.rd # 0 /\ k.clean /\ k.rd \notin spoilt => k.got \subseteq {k.rd}

CleanInv ==
  /\ \A s, r \in Rows : OwnContents(s, r)
  /\ \A k \in kids : Undisturbed(k) /\ GotOwn(k)
  /\ \A p \in Proc : Undisturbed(job[p])

\* A pipe that is read or written is one that has been made.
LEMMA KidsAreTyped ==
  ASSUME TypeOK
  PROVE  /\ \A k \in kids : k \in KidType /\ (k.rd # 0 => k.rd \in Pipes) /\ (k.wr # 0 => k.wr \in Pipes)
         /\ \A q \in Proc : job[q] \in JobType /\ (job[q].rd # 0 => job[q].rd \in Pipes)
                            /\ (job[q].wr # 0 => job[q].wr \in Pipes)
  BY DEF TypeOK, KidType, JobType, PipeOrNone

\* Writers are those that were, or come from a process that was to be one.
LEMMA NoNewWriter ==
  ASSUME TypeOK, \A g \in Pipes : UNCHANGED <<made[g].s, made[g].r>>,
         \A q \in Proc : job'[q].wr \in {0, job[q].wr},
         \A k \in kids' : \/ k.wr = 0
                          \/ \E l \in kids : l.wr = k.wr
                          \/ \E q \in Proc : job[q].wr = k.wr,
         NEW s, NEW r, NoWriter(s, r)
  PROVE  NoWriter(s, r)'
<1>1. ASSUME NEW q \in Proc PROVE ~Writes(job[q], s, r)'
  BY KidsAreTyped DEF NoWriter, Writes
<1>2. ASSUME NEW k \in kids' PROVE ~(k.wr # 0 /\ made'[k.wr].s = s /\ made'[k.wr].r = r)
  <2>1. CASE k.wr = 0
    BY <2>1
  <2>2. CASE \E l \in kids : l.wr = k.wr
    BY <2>2, KidsAreTyped DEF NoWriter, Writes
  <2>3. CASE \E q \in Proc : job[q].wr = k.wr
    BY <2>3, KidsAreTyped DEF NoWriter, Writes
  <2> QED BY <2>1, <2>2, <2>3
<1> QED BY <1>1, <1>2 DEF NoWriter, Writes

\* Where no file is written and no writer appears, a clean pipe stays clean.
LEMMA PipeStaysClean ==
  ASSUME TypeOK, \A g \in Pipes : UNCHANGED <<made[g].s, made[g].r>>, UNCHANGED <<latest, file>>,
         \A q \in Proc : job'[q].wr \in {0, job[q].wr},
         \A k \in kids' : \/ k.wr = 0
                          \/ \E l \in kids : l.wr = k.wr
                          \/ \E q \in Proc : job[q].wr = k.wr,
         NEW g \in Pipes, CleanPipe(g)
  PROVE  CleanPipe(g)'
<1>1. PICK s \in Rows, r \in Rows : s = made[g].s /\ r = made[g].r
  BY PipesAreTyped DEF PipeType
<1>2. latest[s][r] = g /\ file[s][r] # {} /\ NoWriter(s, r)
  BY <1>1 DEF CleanPipe
<1>3. NoWriter(s, r)'
  BY <1>2, NoNewWriter
<1>4. s = made'[g].s /\ r = made'[g].r
  BY <1>1
<1> QED BY <1>2, <1>3, <1>4 DEF CleanPipe

\* The steps that settle no command's input or output: who was clean stays so.
LEMMA CleanPrivate ==
  ASSUME BaseInv, CleanInv, NEW p \in Proc,
         \/ Tests(p) \/ Prepares(p) \/ SetClient(p) \/ Marks(p) \/ Flips(p) \/ SetRecv(p) \/ Fork(p)
         \/ ResetUid(p) \/ Reset(p)
  PROVE  CleanInv'
<1>1. TypeOK /\ UNCHANGED <<latest, file, spoilt>>
  BY DEF BaseInv, Tests, TestSender, TestRecv, TestSend, TestSent, TestReceived, Prepares,
     Hangup, NotRun,
     Output, OpenFails, TestReceiver, EndLine, ReadLine, SetClient, Marks, SetPid, ResetPid,
     Flips, SetSend, ClearRecv, ClearSend,
     SetRecv, Fork, ResetUid, Reset, history, pipes
<1>2. \A g \in Pipes : UNCHANGED <<made[g].s, made[g].r>>
  <2>1. CASE SetRecv(p)
    BY <2>1, SetRecvStep
  <2>2. CASE ~SetRecv(p)
    BY <2>2 DEF Tests, TestSender, TestRecv, TestSend, TestSent, TestReceived, Prepares, Hangup,
       NotRun,
       Output, OpenFails, TestReceiver, EndLine, ReadLine, SetClient, Marks, SetPid, ResetPid,
       Flips, SetSend, ClearRecv, ClearSend,
       Fork, ResetUid, Reset, history, pipes
  <2> QED BY <2>1, <2>2
<1>3. \A q \in Proc : /\ job'[q].wr \in {0, job[q].wr}
                      /\ job'[q].rd # 0 => job'[q].rd = job[q].rd /\ job'[q].clean = job[q].clean
  BY JobsStay
<1>4. kids' \subseteq kids \cup {Command(p, job[p])}
  BY DEF Tests, TestSender, TestRecv, TestSend, TestSent, TestReceived, Prepares, Hangup, NotRun,
     Output, OpenFails, TestReceiver, EndLine, ReadLine, SetClient, Marks, SetPid, ResetPid,
     Flips, SetSend, ClearRecv, ClearSend,
     SetRecv, Fork, ResetUid, Reset
<1>5. LET c == Command(p, job[p])
      IN  c.wr = job[p].wr /\ c.rd = job[p].rd /\ c.clean = job[p].clean /\ c.got = {}
  BY DEF Command
<1>6. \A k \in kids' : \/ k.wr = 0
                       \/ \E l \in kids : l.wr = k.wr
                       \/ \E q \in Proc : job[q].wr = k.wr
  BY <1>4, <1>5
<1>7. \A g \in Pipes : CleanPipe(g) => CleanPipe(g)'
  BY <1>1, <1>2, <1>3, <1>6, PipeStaysClean
<1>8. \A s, r \in Rows : OwnContents(s, r)'
  BY <1>1 DEF CleanInv, OwnContents
<1>9. \A q \in Proc : Undisturbed(job[q])'
  BY <1>1, <1>3, <1>7, KidsAreTyped DEF CleanInv, Undisturbed
<1>10. ASSUME NEW k \in kids' PROVE (k.rd # 0 /\ k.clean => CleanPipe(k.rd)') /\ GotOwn(k)'
  <2>1. CASE k \in kids
    BY <1>1, <1>7, <2>1, KidsAreTyped DEF CleanInv, Undisturbed, GotOwn
  <2>2. CASE k = Command(p, job[p])
    BY <1>1, <1>5, <1>7, <2>2, KidsAreTyped DEF CleanInv, Undisturbed, GotOwn
  <2> QED BY <1>4, <2>1, <2>2
<1> QED BY <1>8, <1>9, <1>10 DEF CleanInv, Undisturbed, GotOwn

\* clean is what it says when the file is opened.
LEMMA CleanOpenFifo ==
  ASSUME BaseInv, CleanInv, NEW p \in Proc, OpenFifo(p)
  PROVE  CleanInv'
<1> DEFINE s == C(p).readId
           r == row[p]
           g == latest[s][r]
           c == /\ file[s][r] # {}
                /\ \A k \in kids : ~Writes(k, s, r)
                /\ \A q \in Proc : ~Writes(job[q], s, r)
<1>1. /\ pc[p] = "open" /\ UNCHANGED <<file, kids, made, latest, spoilt, Pipes>>
      /\ job' = [job EXCEPT ![p] = [job[p] EXCEPT !.rd = g, !.clean = c]]
  BY DEF OpenFifo, Pipes, BaseInv, TypeOK
<1>2. TypeOK /\ job \in [Proc -> JobType] /\ job[p] \in JobType
  BY DEF BaseInv, TypeOK, JobType
<1>3. /\ \A q \in Proc : job'[q].wr = job[q].wr
      /\ \A q \in Proc : q # p => job'[q] = job[q]
      /\ job'[p].rd = g /\ job'[p].clean = c
  <2> HIDE DEF g, c
  <2> QED BY <1>1, <1>2 DEF JobType
<1>4. s \in Rows /\ r \in Rows /\ g # 0 /\ g \in Pipes /\ made[g].s = s /\ made[g].r = r
  <2>1. s \in Rows /\ r \in Rows /\ g # 0
    BY <1>1, InsideCommand DEF Inside, BaseInv, LocalInv
  <2> QED BY <2>1 DEF BaseInv, LatestInv, TypeOK, PipeOrNone
<1>5. \A h \in Pipes : CleanPipe(h) => CleanPipe(h)'
  BY <1>1, <1>2, <1>3, PipeStaysClean
<1>6. c => CleanPipe(g)
  BY <1>4 DEF CleanPipe, NoWriter
<1> HIDE DEF g, c
<1>7. \A q \in Proc : Undisturbed(job[q])'
  <2>1. Undisturbed(job[p])'
    BY <1>3, <1>4, <1>5, <1>6 DEF Undisturbed
  <2>2. ASSUME NEW q \in Proc, q # p PROVE Undisturbed(job[q])'
    BY <1>2, <1>3, <1>5, <2>2, KidsAreTyped DEF CleanInv, Undisturbed
  <2> QED BY <2>1, <2>2
<1>8. \A k \in kids : Undisturbed(k)' /\ GotOwn(k)'
  BY <1>1, <1>2, <1>5, KidsAreTyped DEF CleanInv, Undisturbed, GotOwn
<1> QED BY <1>1, <1>7, <1>8 DEF CleanInv, OwnContents

\* A new pipe: the file is emptied, and whoever reads it is no longer counted clean.
LEMMA CleanCreateFifo ==
  ASSUME BaseInv, CleanInv, NEW p \in Proc, CreateFifo(p)
  PROVE  CleanInv'
<1> DEFINE s0 == row[p]
           r0 == C(p).writeId
           g == Len(made) + 1
<1>1. /\ s0 \in Rows /\ r0 \in Rows /\ g \notin Pipes /\ g # 0
      /\ made'[g].s = s0 /\ made'[g].r = r0
      /\ \A h \in Pipes : made'[h] = made[h]
      /\ \A s, t \in Rows : latest'[s][t] = IF s = s0 /\ t = r0 THEN g ELSE latest[s][t]
      /\ \A q \in Proc : /\ job'[q].rd = job[q].rd
                         /\ job'[q].wr = IF q = p THEN g ELSE job[q].wr
  <2>1. g # 0
    BY PipesAreTyped DEF BaseInv
  <2>2. /\ s0 \in Rows /\ r0 \in Rows /\ g \notin Pipes /\ made'[g] = NewPipe(p, r0)
        /\ \A h \in Pipes : made'[h] = made[h]
        /\ \A s, t \in Rows : latest'[s][t] = IF s = s0 /\ t = r0 THEN g ELSE latest[s][t]
        /\ \A q \in Proc : /\ job'[q].rd = job[q].rd
                           /\ job'[q].wr = IF q = p THEN g ELSE job[q].wr
    BY CreateFifoStep
  <2>3. NewPipe(p, r0).s = s0 /\ NewPipe(p, r0).r = r0
    BY DEF NewPipe
  <2> HIDE DEF g, s0, r0
  <2> QED BY <2>1, <2>2, <2>3
<1>2. /\ spoilt' = spoilt /\ kids' = {Disturb(k, s0, r0) : k \in kids}
      /\ file' = [file EXCEPT ![s0][r0] = {}]
      /\ job' = [q \in Proc |-> LET j == Disturb(job[q], s0, r0)
                                IN  IF q = p THEN [j EXCEPT !.wr = g] ELSE j]
      /\ pc[p] = "create"
  BY DEF CreateFifo, Contents
<1>3. TypeOK /\ file \in [Rows -> [Rows -> SUBSET Pipes]] /\ job[p].wr = 0
  BY <1>2 DEF BaseInv, TypeOK, LocalInv, Created
<1>4. \A s, r \in Rows : file'[s][r] = IF s = s0 /\ r = r0 THEN {} ELSE file[s][r]
  BY <1>1, <1>2, <1>3
<1> HIDE DEF s0, r0, g

\* What Disturb does to a reader of the two rows, and to others.
<1>5. ASSUME NEW k \in kids
      PROVE  LET d == Disturb(k, s0, r0)
             IN  /\ d.wr = k.wr /\ d.rd = k.rd /\ d.got = k.got
                 /\ d.clean => k.clean /\ ~Reads(k, s0, r0)
  <2>1. k \in KidType
    BY <1>3, KidsAreTyped
  <2> QED BY <2>1 DEF Disturb, KidType
<1>6. ASSUME NEW q \in Proc, job'[q].clean PROVE job[q].clean /\ ~Reads(job[q], s0, r0)
  <2>1. job[q] \in JobType
    BY <1>3, KidsAreTyped
  <2>2. Disturb(job[q], s0, r0) \in JobType /\ (Disturb(job[q], s0, r0).clean => job[q].clean /\ ~Reads(job[q], s0, r0))
    BY <2>1 DEF Disturb, JobType
  <2>3. job'[q].clean = Disturb(job[q], s0, r0).clean
    <3> DEFINE d == Disturb(job[q], s0, r0)
    <3>1. job'[q] = IF q = p THEN [d EXCEPT !.wr = g] ELSE d
      BY <1>2
    <3>2. d \in JobType
      BY <2>2
    <3> HIDE DEF d
    <3>3. job'[q].clean = d.clean
      BY <3>1, <3>2 DEF JobType
    <3> QED BY <3>3 DEF d
  <2> QED BY <1>6, <2>2, <2>3

\* A pipe of other rows stays as clean as it was.
<1>7. ASSUME NEW h \in Pipes, CleanPipe(h), ~(made[h].s = s0 /\ made[h].r = r0)
      PROVE  CleanPipe(h)'
  <2>1. PICK s \in Rows, r \in Rows : s = made[h].s /\ r = made[h].r
    BY <1>3, PipesAreTyped DEF PipeType
  <2>2. latest[s][r] = h /\ file[s][r] # {} /\ NoWriter(s, r) /\ ~(s = s0 /\ r = r0)
    BY <1>7, <2>1 DEF CleanPipe
  <2>3. ASSUME NEW q \in Proc PROVE ~Writes(job[q], s, r)'
    <3>1. CASE q = p
      BY <1>1, <2>2, <3>1 DEF Writes
    <3>2. CASE q # p
      BY <1>1, <1>3, <2>2, <3>2, KidsAreTyped DEF NoWriter, Writes
    <3> QED BY <3>1, <3>2
  <2>4. ASSUME NEW k \in kids' PROVE ~(k.wr # 0 /\ made'[k.wr].s = s /\ made'[k.wr].r = r)
    <3>1. PICK l \in kids : k = Disturb(l, s0, r0)
      BY <1>2
    <3>2. k.wr = l.wr /\ (l.wr # 0 => l.wr \in Pipes) /\ ~Writes(l, s, r)
      BY <1>3, <1>5, <2>2, <3>1, KidsAreTyped DEF NoWriter
    <3> QED BY <1>1, <3>2 DEF Writes
  <2>5. NoWriter(s, r)'
    BY <2>3, <2>4 DEF NoWriter, Writes
  <2>6. latest'[s][r] = h /\ file'[s][r] # {} /\ s = made'[h].s /\ r = made'[h].r
    BY <1>1, <1>4, <2>1, <2>2
  <2> QED BY <2>5, <2>6 DEF CleanPipe
<1>8. ASSUME NEW s \in Rows, NEW r \in Rows PROVE OwnContents(s, r)'
  BY <1>1, <1>2, <1>4 DEF CleanInv, OwnContents
<1>9. ASSUME NEW q \in Proc PROVE Undisturbed(job[q])'
  BY <1>1, <1>3, <1>6, <1>7, KidsAreTyped DEF CleanInv, Undisturbed, Reads
<1>10. ASSUME NEW k \in kids' PROVE (k.rd # 0 /\ k.clean => CleanPipe(k.rd)') /\ GotOwn(k)'
  <2>1. PICK l \in kids : k = Disturb(l, s0, r0)
    BY <1>2
  <2>2. k.rd = l.rd /\ k.got = l.got /\ (k.clean => l.clean /\ ~Reads(l, s0, r0))
        /\ (l.rd # 0 => l.rd \in Pipes) /\ Undisturbed(l) /\ GotOwn(l)
    BY <1>3, <1>5, <2>1, KidsAreTyped DEF CleanInv
  <2>3. k.rd # 0 /\ k.clean => CleanPipe(k.rd)'
    BY <1>7, <2>2 DEF Undisturbed, Reads
  <2> QED BY <1>2, <2>2, <2>3 DEF GotOwn
<1> QED BY <1>8, <1>9, <1>10 DEF CleanInv, Undisturbed, GotOwn

\* The commands themselves: a writer writes no file that somebody reads undisturbed.
LEMMA CleanKidStep ==
  ASSUME BaseInv, LastInv, CleanInv, NEW k \in kids, KidStep(k)
  PROVE  CleanInv'
<1>1. TypeOK /\ UNCHANGED <<job, made, latest, Pipes>>
  BY KidStepKeeps DEF BaseInv, Pipes
<1>2. k \in KidType /\ Undisturbed(k) /\ GotOwn(k)
  BY <1>1, KidsAreTyped DEF CleanInv
<1>3. CASE KidWrites(k)
  <2>1. PICK s \in Rows, r \in Rows : s = made[k.wr].s /\ r = made[k.wr].r
    BY <1>1, <1>3, PipesAreTyped, KidsAreTyped DEF KidWrites, PipeType
  <2>2. /\ k.wr # 0 /\ k.wr \in Pipes
        /\ \E f \in {file[s][r] \cup {k.wr}, {k.wr}} : file' = [file EXCEPT ![s][r] = f]
        /\ kids' = (kids \ {k}) \cup IF k.rd = 0 THEN {} ELSE {[k EXCEPT !.wrote = TRUE]}
        /\ spoilt' = IF latest[s][r] = k.wr THEN spoilt ELSE spoilt \cup {latest[s][r]}
    BY <1>1, <1>3, <2>1, KidsAreTyped DEF KidWrites
  <2>3. file \in [Rows -> [Rows -> SUBSET Pipes]]
    BY <1>1 DEF TypeOK
  <2>4. /\ file'[s][r] \subseteq file[s][r] \cup {k.wr}
        /\ \A x, y \in Rows : ~(x = s /\ y = r) => file'[x][y] = file[x][y]
    <3>1. PICK f \in {file[s][r] \cup {k.wr}, {k.wr}} : file' = [file EXCEPT ![s][r] = f]
      BY <2>2
    <3>2. /\ file'[s][r] = f
          /\ \A x, y \in Rows : ~(x = s /\ y = r) => file'[x][y] = file[x][y]
      BY <2>3, <3>1
    <3> QED BY <3>1, <3>2
  <2>5. ASSUME NEW x \in Rows, NEW y \in Rows PROVE OwnContents(x, y)'
    <3>1. OwnContents(x, y)
      BY DEF CleanInv
    <3>2. CASE x = s /\ y = r
      BY <1>1, <2>2, <2>4, <3>1, <3>2 DEF OwnContents
    <3>3. CASE ~(x = s /\ y = r)
      BY <1>1, <2>2, <2>4, <3>1, <3>3 DEF OwnContents
    <3> QED BY <3>2, <3>3
  <2>6. \A l \in kids' : \/ l \in kids
                         \/ /\ l.wr = k.wr /\ l.rd = k.rd /\ l.clean = k.clean /\ l.got = k.got
    <3>1. LET l == [k EXCEPT !.wrote = TRUE]
          IN  l.wr = k.wr /\ l.rd = k.rd /\ l.clean = k.clean /\ l.got = k.got
      BY <1>2 DEF KidType
    <3> QED BY <2>2, <3>1
  <2>7. ASSUME NEW g \in Pipes, CleanPipe(g) PROVE CleanPipe(g)'
    <3>1. PICK x \in Rows, y \in Rows : x = made[g].s /\ y = made[g].r
      BY <1>1, PipesAreTyped DEF PipeType
    <3>2. latest[x][y] = g /\ file[x][y] # {} /\ NoWriter(x, y)
      BY <2>7, <3>1 DEF CleanPipe
    <3>3. ~(x = s /\ y = r)
      BY <2>1, <2>2, <3>2 DEF NoWriter, Writes
    <3>4. NoWriter(x, y)'
      BY <1>1, <2>6, <3>2, NoNewWriter
    <3> QED BY <1>1, <2>4, <3>1, <3>2, <3>3, <3>4 DEF CleanPipe
  <2>8. \A q \in Proc : Undisturbed(job[q])'
    BY <1>1, <2>7, KidsAreTyped DEF CleanInv, Undisturbed
  <2>9. \A l \in kids' : (l.rd # 0 /\ l.clean => CleanPipe(l.rd)') /\ GotOwn(l)'
    <3>1. spoilt \subseteq spoilt'
      BY <2>2
    <3> QED BY <1>1, <1>2, <2>6, <2>7, <3>1, KidsAreTyped DEF CleanInv, Undisturbed, GotOwn
  <2> QED BY <2>5, <2>8, <2>9 DEF CleanInv, Undisturbed, GotOwn
<1>4. CASE KidReads(k) \/ KidExit(k)
  <2>1. UNCHANGED <<file, spoilt>>
    BY <1>4 DEF KidReads, KidExit, history, pipes
  <2> DEFINE m == [k EXCEPT !.got = @ \cup File(k.rd)]
  <2>2. kids' \subseteq kids \cup {m} /\ m.wr = k.wr /\ m.rd = k.rd /\ m.clean = k.clean
        /\ m.got = k.got \cup File(k.rd)
    BY <1>2, <1>4 DEF KidReads, KidExit, KidType
  <2>3. k.rd # 0 => k.rd \in Pipes
    BY <1>1, KidsAreTyped
  <2>4. GotOwn(m)
    <3>1. ASSUME k.rd # 0, k.clean, k.rd \notin spoilt PROVE File(k.rd) \subseteq {k.rd}
      <4>1. made[k.rd].s \in Rows /\ made[k.rd].r \in Rows
        BY <1>1, <2>3, <3>1, PipesAreTyped DEF PipeType
      <4>2. latest[made[k.rd].s][made[k.rd].r] = k.rd
        BY <1>2, <3>1 DEF Undisturbed, CleanPipe
      <4> QED BY <3>1, <4>1, <4>2 DEF CleanInv, OwnContents, File
    <3> QED BY <1>2, <2>2, <3>1 DEF GotOwn
  <2> HIDE DEF m
  <2>5. \A g \in Pipes : CleanPipe(g) => CleanPipe(g)'
    BY <1>1, <2>1, <2>2, PipeStaysClean
  <2>6. \A q \in Proc : Undisturbed(job[q])'
    BY <1>1, <2>5, KidsAreTyped DEF CleanInv, Undisturbed
  <2>7. \A l \in kids' : (l.rd # 0 /\ l.clean => CleanPipe(l.rd)') /\ GotOwn(l)'
    BY <1>1, <1>2, <2>1, <2>2, <2>4, <2>5, KidsAreTyped DEF CleanInv, Undisturbed, GotOwn
  <2> QED BY <1>1, <2>1, <2>6, <2>7 DEF CleanInv, OwnContents, Undisturbed, GotOwn
<1> QED BY <1>3, <1>4 DEF KidStep

\* Every step keeps CleanInv.
LEMMA CleanNext ==
  ASSUME BaseInv, LastInv, CleanInv, [Next]_vars
  PROVE  CleanInv'
<1>1. CASE UNCHANGED vars
  BY <1>1 DEF vars, table, history, pipes, CleanInv, OwnContents, Undisturbed, GotOwn,
     CleanPipe, NoWriter, Writes
<1>2. ASSUME NEW p \in Proc,
             \/ Tests(p) \/ Prepares(p) \/ SetClient(p) \/ Marks(p) \/ OpenFifo(p) \/ Flips(p)
             \/ SetRecv(p) \/ CreateFifo(p) \/ Fork(p) \/ ResetUid(p) \/ Reset(p)
      PROVE  CleanInv'
  BY <1>2, CleanPrivate, CleanOpenFifo, CleanCreateFifo
<1> QED BY <1>1, <1>2, NextIs, CleanKidStep

\* A command that opened a user pipe after its writer had ended reads that writer's output,
\* all of it and nothing else, however the files are written, emptied and read by others;
\* unless a later pipe was made or an earlier one's writer was still at work.
THEOREM InputIsClean == Spec => []CleanInput
<1>1. Init => CleanInv
  BY DEF Init, CleanInv, OwnContents, Undisturbed, NoJob
<1>2. BaseInv /\ CleanInv => CleanInput
  <2> SUFFICES ASSUME BaseInv, CleanInv, NEW k \in kids, k.rd # 0, k.clean, k.rd \notin spoilt
               PROVE  File(k.rd) = {k.rd} /\ k.got \subseteq {k.rd}
    BY DEF CleanInput
  <2>1. CleanPipe(k.rd) /\ GotOwn(k) /\ k.rd \in Pipes
    BY KidsAreTyped DEF CleanInv, Undisturbed, BaseInv
  <2>2. made[k.rd].s \in Rows /\ made[k.rd].r \in Rows
    BY <2>1, PipesAreTyped DEF PipeType, BaseInv
  <2>3. File(k.rd) # {} /\ File(k.rd) \subseteq {k.rd}
    BY <2>1, <2>2 DEF CleanInv, CleanPipe, OwnContents, File
  <2> QED BY <2>1, <2>3 DEF GotOwn
<1> QED BY BaseInit, BaseNext, CleanNext, <1>1, <1>2, PTL DEF Spec
=============================================================================
