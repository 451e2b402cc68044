--------------------------- MODULE NpSingle_proofs ---------------------------
(***************************************************************************)
(* Theorems about NpSingle for every set of connections, number of ids and *)
(* set of command lines.                                                   *)
(***************************************************************************)
EXTENDS NpSingle, WellFoundedInduction, SequenceTheorems, TLAPS

-----------------------------------------------------------------------------
\* Lemmas about the operators.

\* A set of naturals with an element has a least one.
LEMMA LeastNat ==
  ASSUME NEW T \in SUBSET Nat, T # {}
  PROVE  \E n \in T : \A m \in T : n <= m
<1>1. IsWellFoundedOn(OpToRel(<, Nat), Nat)
  BY NatLessThanWellFounded
<1>2. \A m, n \in Nat : <<m, n>> \in OpToRel(<, Nat) <=> m < n
  BY DEF OpToRel
<1>3. PICK R : IsWellFoundedOn(R, Nat) /\ \A m \in Nat : \A n \in Nat : <<m, n>> \in R <=> m < n
  BY <1>1, <1>2, Zenon
<1>4. T \subseteq Nat
  OBVIOUS
<1>5. \E n \in T : \A m \in T : ~(<<m, n>> \in R)
  <2>1. IsWellFoundedOn(R, Nat)
    BY <1>3, Zenon
  <2>2. ASSUME NEW U, U \subseteq Nat, U # {}
        PROVE  \E x \in U : \A y \in U : ~(<<y, x>> \in R)
    BY ONLY <2>1, <2>2, WFMin, Zenon
  <2> QED BY <1>4, <2>2, Zenon
<1>6. PICK n \in T : \A m \in T : ~(<<m, n>> \in R)
  BY <1>5
<1>7. ASSUME NEW m \in T PROVE n <= m
  <2>1. m \in Nat /\ n \in Nat
    OBVIOUS
  <2>2. ~(m < n)
    BY <1>3, <1>6, <2>1, Zenon
  <2> QED BY <2>1, <2>2
<1> QED BY <1>7

\* A scan that finds something returns one of the elements that match, and of them the
\* one that was made first.
LEMMA FirstIsIn ==
  ASSUME NEW S \in SUBSET PipeType, S # {}
  PROVE  First(S) \in S /\ \A q \in S : First(S).fd <= q.fd
<1>1. {p.fd : p \in S} \in SUBSET Nat /\ {p.fd : p \in S} # {}
  BY DEF PipeType
<1>2. PICK n \in {p.fd : p \in S} : \A m \in {p.fd : p \in S} : n <= m
  BY <1>1, LeastNat
<1>3. PICK p \in S : p.fd = n
  BY <1>2
<1>4. \A q \in S : p.fd <= q.fd
  BY <1>2, <1>3
<1> QED BY <1>3, <1>4 DEF First

\* SetId returns 0 or an id, and an id only if it is free.
LEMMA SetIdIsFree ==
  ASSUME ids \in [1..KMaxClient -> BOOLEAN]
  PROVE  SetId \in 0..KMaxClient /\ (SetId > 0 => ~ids[SetId])
<1> USE LimitAssumption
<1>1. CASE \A i \in 1..KMaxClient : ids[i]
  BY <1>1 DEF SetId
<1>2. CASE \E i \in 1..KMaxClient : ~ids[i]
  <2> DEFINE Free == {i \in 1..KMaxClient : ~ids[i]}
  <2>1. PICK i \in Free : \A j \in Free : i <= j
    <3>1. Free \in SUBSET Nat /\ Free # {}
      BY <1>2
    <3> QED BY <3>1, LeastNat
  <2>2. \A j \in 1..(i - 1) : ids[j]
    BY <2>1
  <2>3. \E k \in 1..KMaxClient : ~ids[k] /\ \A j \in 1..(k - 1) : ids[j]
    BY <2>1, <2>2
  <2> QED BY <1>2, <2>3 DEF SetId
<1> QED BY <1>1, <1>2

\* The pipes of RunShell stay pipes through the two reductions, ClosePipe and
\* RemoveClient.
LEMMA PipesStayPipes ==
  ASSUME NEW P \in SUBSET PipeType, NEW i, NEW r
  PROVE  /\ ReducePipe(P, i) \in SUBSET PipeType
         /\ ReducePipeNum(P, i) \in SUBSET PipeType
         /\ ClosePipe(P, i, r) \in SUBSET PipeType
         /\ WithoutClient(P, i) \in SUBSET PipeType
BY DEF ReducePipe, ReducePipeNum, ClosePipe, WithoutClient, PipeType

\* The command in front of RunShell is a command, and what follows it is a line.
LEMMA HeadIsCmd ==
  ASSUME TypeOK, shell # Idle, shell.rest # <<>>
  PROVE  Head(shell.rest) \in Cmd /\ Tail(shell.rest) \in Seq(Cmd)
BY HeadTailProperties DEF TypeOK

\* The client whose line is run is logged in.
LEMMA MyIdIsAnId ==
  ASSUME TypeOK, shell # Idle
  PROVE  shell.conn \in Conn /\ MyId \in 0..KMaxClient
<1>1. id \in [Conn -> {NotYet, Gone} \cup 0..KMaxClient] /\ shell.conn \in Conn
      /\ id[shell.conn] >= 0
  BY DEF TypeOK
<1> QED BY <1>1 DEF MyId, NotYet, Gone

\* What RunCmd computes is of the right type.
LEMMA NewPipeType ==
  ASSUME TypeOK, shell # Idle, NEW c \in Cmd, Creates(c)
  PROVE  NewPipe(c) \in PipeType
<1>1. Len(born) \in Nat
  BY LenProperties DEF TypeOK
<1>2. c.sign \in Signs /\ c.pipeNum \in Nat /\ c.writeId \in 0..KMaxClient
  BY DEF Cmd
<1> QED BY <1>1, <1>2, MyIdIsAnId, LimitAssumption DEF NewPipe, PipeType

LEMMA CreatePipeType ==
  ASSUME TypeOK, shell # Idle, NEW c \in Cmd
  PROVE  CreatePipe(c) \in SUBSET PipeType
BY NewPipeType DEF CreatePipe, TypeOK

\* The input is nothing, an error, or a pipe that feeds it; likewise the output.
LEMMA InputIsFeeding ==
  ASSUME NEW P \in SUBSET PipeType, NEW i, NEW c, NEW e \in BOOLEAN
  PROVE  \/ InputOf(P, i, c, e) \in {Stdin, DevNull}
         \/ \E p \in P : FeedsInput(p, i, c.readId) /\ InputOf(P, i, c, e) = p.fd
<1> DEFINE S == {p \in P : FeedsInput(p, i, c.readId)}
<1>1. CASE e \/ S = {}
  BY <1>1 DEF InputOf
<1>2. CASE ~e /\ S # {}
  <2>1. First(S) \in S
    BY <1>2, FirstIsIn
  <2>2. InputOf(P, i, c, e) = First(S).fd
    BY <1>2 DEF InputOf
  <2> QED BY <2>1, <2>2
<1> QED BY <1>1, <1>2

LEMMA OutputIsTaking ==
  ASSUME NEW P \in SUBSET PipeType, NEW i, NEW c, NEW e \in BOOLEAN
  PROVE  \/ OutputOf(P, i, c, e) \in {Sock, DevNull, File}
         \/ \E p \in P : TakesOutput(p, i, c) /\ OutputOf(P, i, c, e) = p.fd
<1> DEFINE S == {p \in P : TakesOutput(p, i, c)}
<1>1. CASE e \/ S = {} \/ c.sign \in {"Write", "None"}
  BY <1>1 DEF OutputOf
<1>2. CASE ~e /\ S # {} /\ c.sign \notin {"Write", "None"}
  <2>1. First(S) \in S
    BY <1>2, FirstIsIn
  <2>2. OutputOf(P, i, c, e) = First(S).fd
    BY <1>2 DEF OutputOf
  <2> QED BY <2>1, <2>2
<1> QED BY <1>1, <1>2

\* Of the pipes that could take the output, the first does.
LEMMA OutputIsFirst ==
  ASSUME NEW P \in SUBSET PipeType, NEW i, NEW c, NEW e \in BOOLEAN
  PROVE  \/ OutputOf(P, i, c, e) \in {Sock, DevNull, File}
         \/ \E p \in P : /\ TakesOutput(p, i, c) /\ OutputOf(P, i, c, e) = p.fd
                         /\ \A q \in P : TakesOutput(q, i, c) => p.fd <= q.fd
<1> DEFINE S == {p \in P : TakesOutput(p, i, c)}
<1>1. CASE e \/ S = {} \/ c.sign \in {"Write", "None"}
  BY <1>1 DEF OutputOf
<1>2. CASE ~e /\ S # {} /\ c.sign \notin {"Write", "None"}
  <2>1. First(S) \in S /\ \A q \in S : First(S).fd <= q.fd
    BY <1>2, FirstIsIn
  <2>2. OutputOf(P, i, c, e) = First(S).fd
    BY <1>2 DEF OutputOf
  <2> QED BY <2>1, <2>2
<1> QED BY <1>1, <1>2

\* The child that RunCmd forks: its fields, and the ends it holds.
LEMMA ForkedKid ==
  ASSUME TypeOK, RunCmd
  PROVE  \E k \in KidType :
           /\ kids' = kids \cup {k}
           /\ k.pid = nextPid /\ k.by = shell.conn /\ k.id = MyId
           /\ LET c == Head(shell.rest)
                  P == CreatePipe(c)
              IN  /\ k.in = InputOf(P, MyId, c, UserPipeInError(c))
                  /\ k.out = OutputOf(P, MyId, c, UserPipeOutError(c))
                  /\ k.holds \subseteq EndsHeld(P, k.in)
                  /\ k.readId = c.readId /\ k.sign = c.sign
                  /\ k.made = IF Creates(c) THEN Len(born) + 1 ELSE 0
<1> DEFINE c == Head(shell.rest)
           P == CreatePipe(c)
           in == InputOf(P, MyId, c, UserPipeInError(c))
           out == OutputOf(P, MyId, c, UserPipeOutError(c))
           held == EndsHeld(P, in)
<1>1. shell # Idle /\ shell.rest # <<>>
  BY DEF RunCmd, At
<1>2. c \in Cmd /\ shell.conn \in Conn /\ MyId \in 0..KMaxClient
  BY <1>1, HeadIsCmd, MyIdIsAnId
<1>3. P \in SUBSET PipeType
  BY <1>1, <1>2, CreatePipeType
<1>4. in \in Nat \cup {DevNull}
  <2>1. UserPipeInError(c) \in BOOLEAN
    BY DEF UserPipeInError
  <2>2. in \in {Stdin, DevNull} \/ \E p \in P : in = p.fd
    BY <1>3, <2>1, InputIsFeeding
  <2> QED BY <1>3, <2>2 DEF PipeType, Stdin
<1>5. out \in Nat \cup {DevNull, File}
  <2>1. UserPipeOutError(c) \in BOOLEAN
    BY DEF UserPipeOutError
  <2>2. out \in {Sock, DevNull, File} \/ \E p \in P : out = p.fd
    BY <1>3, <2>1, OutputIsTaking
  <2> QED BY <1>3, <2>2 DEF PipeType, Sock
<1>6. held \in SUBSET ((Nat \ {0}) \X {"r", "w"})
  BY <1>3 DEF EndsHeld, PipeType
<1>7. Len(born) + 1 \in Nat
  BY LenProperties DEF TypeOK
<1>8. PICK lost \in StrayClose(in, out, held) :
        kids' = kids \cup
          {[pid |-> nextPid, by |-> shell.conn, id |-> MyId, in |-> in, out |-> out,
            holds |-> held \ lost, readId |-> c.readId, sign |-> c.sign,
            made |-> IF Creates(c) THEN Len(born) + 1 ELSE 0,
            reads |-> c.reads, big |-> c.big]}
  BY DEF RunCmd
<1> DEFINE k == [pid |-> nextPid, by |-> shell.conn, id |-> MyId, in |-> in, out |-> out,
                 holds |-> held \ lost, readId |-> c.readId, sign |-> c.sign,
                 made |-> IF Creates(c) THEN Len(born) + 1 ELSE 0,
                 reads |-> c.reads, big |-> c.big]
<1>9. c.readId \in 0..KMaxClient /\ c.sign \in Signs /\ c.reads \in BOOLEAN /\ c.big \in BOOLEAN
  BY <1>2 DEF Cmd
<1>10. k \in KidType
  <2> HIDE DEF c, P, in, out, held
  <2>1. held \ lost \in SUBSET ((Nat \ {0}) \X {"r", "w"})
    BY <1>6
  <2>2. nextPid \in Nat
    BY DEF TypeOK
  <2> QED BY <1>2, <1>4, <1>5, <1>7, <1>9, <2>1, <2>2 DEF KidType
<1>11. kids' = kids \cup {k}
  BY <1>8
<1>12. k.holds \subseteq EndsHeld(P, k.in)
  OBVIOUS
<1> QED BY <1>10, <1>11, <1>12

-----------------------------------------------------------------------------
\* Type correctness.

\* A client leaves: what RemoveClient does to the types.
LEMMA RemoveClientType ==
  ASSUME TypeOK, NEW c \in Conn, NEW P \in SUBSET PipeType, RemoveClient(c, P)
  PROVE  /\ id' \in [Conn -> {NotYet, Gone} \cup 0..KMaxClient]
         /\ ids' \in [1..KMaxClient -> BOOLEAN]
         /\ pipeV' \subseteq PipeType
BY PipesStayPipes DEF RemoveClient, TypeOK

\* RunCmd keeps the types.
LEMMA RunCmdType ==
  ASSUME TypeOK, RunCmd
  PROVE  TypeOK'
<1> DEFINE c == Head(shell.rest)
<1>1. shell # Idle /\ shell.rest # <<>>
  BY DEF RunCmd, At
<1>2. c \in Cmd /\ Tail(shell.rest) \in Seq(Cmd) /\ shell.conn \in Conn /\ MyId \in 0..KMaxClient
  BY <1>1, HeadIsCmd, MyIdIsAnId
<1>3. pipeV' \subseteq PipeType
  <2>1. CreatePipe(c) \in SUBSET PipeType
    BY <1>1, <1>2, CreatePipeType
  <2>2. pipeV' = ReducePipe(ClosePipe(CreatePipe(c), MyId, c.readId), MyId)
    BY DEF RunCmd
  <2> QED BY <2>1, <2>2, PipesStayPipes
<1>4. kids' \subseteq KidType
  BY ForkedKid DEF TypeOK
<1>5. shell' \in [conn : Conn \cup {NoConn}, rest : Seq(Cmd), isNumPipe : BOOLEAN, pidV : SUBSET Nat]
  <2>1. shell' = [shell EXCEPT !.rest = Tail(@), !.pidV = @ \cup {nextPid},
                   !.isNumPipe = @ \/ c.sign \in {"NumberPipe", "ErrorPipe", "WriteUserPipe"}]
    BY DEF RunCmd
  <2>2. nextPid \in Nat
        /\ shell \in [conn : Conn \cup {NoConn}, rest : Seq(Cmd), isNumPipe : BOOLEAN, pidV : SUBSET Nat]
    BY DEF TypeOK
  <2>3. Tail(shell.rest) \in Seq(Cmd)
    BY <1>2
  <2> HIDE DEF c
  <2> QED BY <2>1, <2>2, <2>3
<1>6. shell'.conn = shell.conn /\ id' = id
  BY DEF RunCmd, TypeOK
<1>7. born' \in Seq([by : Conn, id : 0..KMaxClient, sign : Signs, line : Nat, to : Conn \cup {NoConn}])
  <2> DEFINE B == [by : Conn, id : 0..KMaxClient, sign : Signs, line : Nat, to : Conn \cup {NoConn}]
             b == [by |-> shell.conn, id |-> MyId, sign |-> c.sign, line |-> lines,
                   to |-> IF c.sign = "WriteUserPipe"
                          THEN ClientWithId(c.writeId) ELSE NoConn]
  <2>1. born' = IF Creates(c) THEN Append(born, b) ELSE born
    BY DEF RunCmd
  <2>2. ClientWithId(c.writeId) \in Conn \cup {NoConn}
    BY DEF ClientWithId
  <2>3. c.sign \in Signs
    BY <1>2 DEF Cmd
  <2>4. b \in B
    BY <1>2, <2>2, <2>3 DEF TypeOK
  <2>5. born \in Seq(B)
    BY DEF TypeOK
  <2> HIDE DEF b, B
  <2>6. Append(born, b) \in Seq(B)
    BY <2>4, <2>5, AppendProperties
  <2>7. born' \in Seq(B)
    BY <2>1, <2>5, <2>6
  <2> QED BY <2>7 DEF B
<1>8. nextPid' \in Nat /\ lines' \in Nat /\ ids' = ids
  BY DEF RunCmd, TypeOK
<1>9. shell'.conn \in Conn /\ id'[shell'.conn] >= 0
  BY <1>1, <1>2, <1>6 DEF TypeOK
<1>10. fed' \subseteq Nat
  <2> DEFINE out == OutputOf(CreatePipe(c), MyId, c, UserPipeOutError(c))
  <2>1. fed' = fed \cup ({out} \ {Sock, DevNull, File})
    BY DEF RunCmd
  <2>2. \E k \in KidType : k.out = out
    BY ForkedKid
  <2> HIDE DEF out
  <2> QED BY <2>1, <2>2 DEF TypeOK, KidType
<1> QED BY <1>3, <1>4, <1>5, <1>6, <1>7, <1>8, <1>9, <1>10 DEF TypeOK

\* Every variable stays in its type: the server never gives out an id beyond
\* KMaxClient, and runs lines only for clients that are logged in.
THEOREM TypeCorrect == Spec => []TypeOK
<1> USE LimitAssumption, ConnAssumption
<1>1. Init => TypeOK
  BY EmptySeq DEF Init, TypeOK, Idle, NotYet
<1>2. TypeOK /\ [Next]_vars => TypeOK'
  <2> SUFFICES ASSUME TypeOK, [Next]_vars PROVE TypeOK'
    OBVIOUS
  <2>1. ASSUME NEW c \in Conn, Accept(c) PROVE TypeOK'
    <3>1. SetId \in 0..KMaxClient
      BY SetIdIsFree DEF TypeOK
    <3> QED BY <2>1, <3>1 DEF Accept, TypeOK
  <2>2. ASSUME NEW c \in Conn, Hangup(c) PROVE TypeOK'
    <3>1. /\ id' \in [Conn -> {NotYet, Gone} \cup 0..KMaxClient]
          /\ ids' \in [1..KMaxClient -> BOOLEAN]
          /\ pipeV' \subseteq PipeType
      BY <2>2, RemoveClientType DEF Hangup, TypeOK
    <3> QED BY <2>2, <3>1 DEF Hangup, TypeOK
  <2>3. ASSUME NEW c \in Conn, NEW l \in Lines, ReadLine(c, l) PROVE TypeOK'
    BY <2>3, LinesAssumption DEF ReadLine, TypeOK
  <2>4. CASE RunBuiltin
    <3>1. pipeV' \subseteq PipeType
      BY <2>4, PipesStayPipes DEF RunBuiltin, TypeOK
    <3>2. <<>> \in Seq(Cmd)
      BY EmptySeq
    <3> QED BY <2>4, <3>1, <3>2 DEF RunBuiltin, At, TypeOK, Idle
  <2>5. CASE RunExit \/ OpenFails
    <3>1. PICK P \in SUBSET PipeType : RemoveClient(shell.conn, P)
      BY <2>5, PipesStayPipes DEF RunExit, OpenFails, TypeOK
    <3>2. shell.conn \in Conn
      BY <2>5 DEF RunExit, OpenFails, At, TypeOK
    <3>3. /\ id' \in [Conn -> {NotYet, Gone} \cup 0..KMaxClient]
          /\ ids' \in [1..KMaxClient -> BOOLEAN]
          /\ pipeV' \subseteq PipeType
      BY <3>1, <3>2, RemoveClientType
    <3>4. <<>> \in Seq(Cmd)
      BY EmptySeq
    <3>5. shell' = Idle /\ UNCHANGED <<kids, nextPid, lines, born, fed>>
      BY <2>5 DEF RunExit, OpenFails
    <3> QED BY <3>3, <3>4, <3>5 DEF TypeOK, Idle
  <2>6. CASE SkipUnknown
    <3>1. shell # Idle /\ shell.rest # <<>>
      BY <2>6 DEF SkipUnknown, At
    <3>2. Tail(shell.rest) \in Seq(Cmd)
      BY <3>1, HeadIsCmd
    <3> QED BY <2>6, <3>1, <3>2 DEF SkipUnknown, TypeOK
  <2>7. CASE RunCmd
    BY <2>7, RunCmdType
  <2>8. CASE EndLine
    <3>1. pipeV' \subseteq PipeType
      BY <2>8, PipesStayPipes DEF EndLine, TypeOK
    <3>2. <<>> \in Seq(Cmd)
      BY EmptySeq
    <3> QED BY <2>8, <3>1, <3>2 DEF EndLine, TypeOK, Idle
  <2>9. ASSUME NEW k \in kids, KidExit(k) PROVE TypeOK'
    BY <2>9 DEF KidExit, TypeOK
  <2>10. CASE UNCHANGED vars
    BY <2>10 DEF vars, TypeOK
  <2> QED BY <2>1, <2>2, <2>3, <2>4, <2>5, <2>6, <2>7, <2>8, <2>9, <2>10 DEF Next, ShellStep
<1> QED BY <1>1, <1>2, PTL DEF Spec

-----------------------------------------------------------------------------
\* Ids.

\* ids[] and the clients agree in every reachable state, whatever the number of
\* ids and of connections: SetId never gives an id to two clients, RemoveClient
\* gives back exactly the id of the client that leaves.
THEOREM IdsCorrect == Spec => []IdsMatchClients
<1> USE LimitAssumption
<1>1. Init => IdsMatchClients
  BY DEF Init, IdsMatchClients, NotYet
<1>2. TypeOK /\ IdsMatchClients /\ [Next]_vars => IdsMatchClients'
  <2> SUFFICES ASSUME TypeOK, IdsMatchClients, [Next]_vars PROVE IdsMatchClients'
    OBVIOUS
  <2>1. ASSUME NEW c \in Conn, Accept(c) PROVE IdsMatchClients'
    <3>1. SetId \in 0..KMaxClient /\ (SetId > 0 => ~ids[SetId])
      BY SetIdIsFree DEF TypeOK
    <3>2. /\ id' = [id EXCEPT ![c] = SetId] /\ id[c] = NotYet
          /\ ids' = [i \in 1..KMaxClient |-> ids[i] \/ i = SetId]
      BY <2>1 DEF Accept
    <3> DEFINE new == SetId
    <3>3. new \in 0..KMaxClient /\ (new > 0 => ~ids[new])
      BY <3>1
    <3>4. \A d \in Conn : id'[d] = IF d = c THEN new ELSE id[d]
      BY <3>2 DEF TypeOK
    <3>5. \A i \in 1..KMaxClient : ids'[i] = (ids[i] \/ i = new)
      BY <3>2
    <3>6. id[c] = -2 /\ \A i \in 1..KMaxClient : ids[i] \in BOOLEAN
      BY <3>2 DEF NotYet, TypeOK
    <3> HIDE DEF new
    <3>7. ASSUME NEW i \in 1..KMaxClient
          PROVE  ids'[i] = (\E d \in Conn : id'[d] = i)
      <4>1. ids[i] = (\E d \in Conn : id[d] = i)
        BY DEF IdsMatchClients
      <4>2. CASE i = new
        BY <3>4, <3>5, <4>2
      <4>3. CASE i # new
        <5>1. (\E d \in Conn : id'[d] = i) <=> (\E d \in Conn : id[d] = i)
          BY <3>4, <3>6, <4>3
        <5> QED BY <3>5, <3>6, <4>1, <4>3, <5>1
      <4> QED BY <4>2, <4>3
    <3>8. ASSUME NEW d \in Conn, NEW e \in Conn, id'[d] = id'[e], id'[d] > 0
          PROVE  d = e
      <4>1. CASE d # c /\ e # c
        BY <3>4, <3>8, <4>1 DEF IdsMatchClients
      <4>2. CASE (d = c) # (e = c)
        <5>1. PICK f \in {d, e} : f # c /\ id[f] = new /\ new > 0
          BY <3>4, <3>8, <4>2
        <5>2. new \in 1..KMaxClient
          BY <3>3, <5>1
        <5>3. ids[new] = (\E g \in Conn : id[g] = new)
          BY <5>2 DEF IdsMatchClients
        <5> QED BY <3>3, <5>1, <5>3
      <4> QED BY <4>1, <4>2
    <3> QED BY <3>7, <3>8 DEF IdsMatchClients
  <2>2. ASSUME NEW c \in Conn, NEW P, RemoveClient(c, P) PROVE IdsMatchClients'
    <3>1. /\ id' = [id EXCEPT ![c] = Gone]
          /\ ids' = [i \in 1..KMaxClient |-> ids[i] /\ i # id[c]]
      BY <2>2 DEF RemoveClient
    <3>4. \A d \in Conn : id'[d] = IF d = c THEN -1 ELSE id[d]
      BY <3>1 DEF TypeOK, Gone
    <3>2. ASSUME NEW i \in 1..KMaxClient
          PROVE  ids'[i] = (\E d \in Conn : id'[d] = i)
      <4>1. ids'[i] = (ids[i] /\ i # id[c])
        BY <3>1
      <4>2. ids[i] = (\E d \in Conn : id[d] = i)
        BY DEF IdsMatchClients
      <4>3. CASE i = id[c]
        <5>1. ~\E d \in Conn : id'[d] = i
          BY <3>4, <4>3 DEF IdsMatchClients
        <5> QED BY <4>1, <4>3, <5>1
      <4>4. CASE i # id[c]
        <5>1. (\E d \in Conn : id'[d] = i) <=> (\E d \in Conn : id[d] = i)
          BY <3>4, <4>4
        <5>2. ids[i] \in BOOLEAN
          BY DEF TypeOK
        <5> QED BY <4>1, <4>2, <4>4, <5>1, <5>2
      <4> QED BY <4>3, <4>4
    <3>3. \A d, e \in Conn : id'[d] = id'[e] /\ id'[d] > 0 => d = e
      BY <3>1 DEF IdsMatchClients, TypeOK, Gone
    <3> QED BY <3>2, <3>3 DEF IdsMatchClients
  <2>3. ASSUME NEW c \in Conn, Hangup(c) PROVE IdsMatchClients'
    BY <2>2, <2>3 DEF Hangup
  <2>4. CASE RunExit \/ OpenFails
    <3>1. shell.conn \in Conn
      BY <2>4 DEF RunExit, OpenFails, At, TypeOK
    <3> QED BY <2>2, <2>4, <3>1 DEF RunExit, OpenFails
  <2>5. CASE UNCHANGED <<id, ids>>
    BY <2>5 DEF IdsMatchClients
  <2>6. ASSUME NEW c \in Conn, NEW l \in Lines, ReadLine(c, l) PROVE IdsMatchClients'
    BY <2>5, <2>6 DEF ReadLine
  <2>7. CASE RunBuiltin \/ SkipUnknown \/ RunCmd \/ EndLine
    BY <2>5, <2>7 DEF RunBuiltin, SkipUnknown, RunCmd, EndLine
  <2>8. ASSUME NEW k \in kids, KidExit(k) PROVE IdsMatchClients'
    BY <2>5, <2>8 DEF KidExit
  <2> QED BY <2>1, <2>3, <2>4, <2>5, <2>6, <2>7, <2>8 DEF Next, ShellStep, vars
<1> QED BY <1>1, <1>2, TypeCorrect, PTL DEF Spec

-----------------------------------------------------------------------------
\* The wiring of the pipes.

\* What the server does to pipeV between two commands changes nothing but pipeNum,
\* and that of user pipes not at all.
KeptFrom(P, Q) ==
  \A q \in Q : \E p \in P :
    /\ q.fd = p.fd /\ q.sign = p.sign /\ q.clientId = p.clientId
    /\ q.senderId = p.senderId /\ q.recverId = p.recverId
    /\ q.sign = "WriteUserPipe" => q.pipeNum = p.pipeNum

\* Stamps are not shared.
FdsDiffer(P) == \A p, q \in P : p.fd = q.fd => p = q

LEMMA PipesAreKept ==
  ASSUME NEW P \in SUBSET PipeType, NEW i, NEW r
  PROVE  /\ KeptFrom(P, ReducePipe(P, i))
         /\ KeptFrom(P, ReducePipeNum(P, i))
         /\ KeptFrom(P, ClosePipe(P, i, r))
         /\ KeptFrom(P, WithoutClient(P, i))
BY DEF KeptFrom, ReducePipe, ReducePipeNum, ClosePipe, WithoutClient, PipeType

LEMMA FdsStayDifferent ==
  ASSUME NEW P \in SUBSET PipeType, FdsDiffer(P), NEW i, NEW r
  PROVE  /\ FdsDiffer(ReducePipe(P, i))
         /\ FdsDiffer(ReducePipeNum(P, i))
         /\ FdsDiffer(ClosePipe(P, i, r))
         /\ FdsDiffer(WithoutClient(P, i))
<1>1. FdsDiffer(ReducePipe(P, i))
  BY DEF FdsDiffer, ReducePipe, PipeType
<1>2. FdsDiffer(ReducePipeNum(P, i))
  BY DEF FdsDiffer, ReducePipeNum, PipeType
<1> QED BY <1>1, <1>2 DEF FdsDiffer, ClosePipe, WithoutClient

\* What the pipes are, with a history b and ids x: the parts of PipesAreBorn and
\* PipesBelongToTheLiving that do not depend on pipeNum reaching zero.
Owned(P, b, x) ==
  \A p \in P :
    /\ p.fd \in 1..Len(b)
    /\ b[p.fd].sign = p.sign /\ b[p.fd].id = p.clientId
    /\ IF p.sign = "WriteUserPipe"
       THEN p.pipeNum = -1 /\ p.senderId = p.clientId /\ p.recverId > 0
       ELSE p.senderId = 0 /\ p.recverId = 0
    /\ p.clientId > 0 => x[b[p.fd].by] = p.clientId
    /\ p.sign = "WriteUserPipe" => b[p.fd].to # NoConn /\ x[b[p.fd].to] = p.recverId

LEMMA KeptStaysOwned ==
  ASSUME NEW P, NEW Q, NEW b, NEW x, KeptFrom(P, Q), Owned(P, b, x)
  PROVE  Owned(Q, b, x)
BY DEF KeptFrom, Owned

LEMMA OwnedIs ==
  ASSUME TypeOK
  PROVE  PipesAreBorn /\ PipesBelongToTheLiving
           <=> /\ Owned(pipeV, born, id) /\ FdsDiffer(pipeV)
               /\ \A p \in pipeV : p.sign = "Pipe" => p.pipeNum = 0
               /\ \A k \in kids : k.in <= Len(born) /\ k.out <= Len(born) /\ k.pid < nextPid
<1>1. DOMAIN born = 1..Len(born)
  BY LenProperties DEF TypeOK
<1> QED BY <1>1 DEF PipesAreBorn, PipesBelongToTheLiving, Owned, FdsDiffer

\* The history names connections.
LEMMA BornFields ==
  ASSUME TypeOK
  PROVE  \A i \in 1..Len(born) : born[i].by \in Conn /\ born[i].to \in Conn \cup {NoConn}
<1> DEFINE B == [by : Conn, id : 0..KMaxClient, sign : Signs, line : Nat, to : Conn \cup {NoConn}]
<1>1. born \in Seq(B)
  BY DEF TypeOK
<1>2. \A b \in B : b.by \in Conn /\ b.to \in Conn \cup {NoConn}
  OBVIOUS
<1> HIDE DEF B
<1>3. \A i \in 1..Len(born) : born[i] \in B
  BY <1>1, ElementOfSeq
<1> QED BY <1>2, <1>3

\* A client that leaves takes the pipes of its id with it, so the ids of the
\* others still answer for theirs.
LEMMA LeavingKeepsOwned ==
  ASSUME TypeOK, NEW c \in Conn, id[c] >= 0, NEW P \in SUBSET PipeType,
         Owned(P, born, id), RemoveClient(c, P)
  PROVE  Owned(pipeV', born, id')
<1>1. /\ pipeV' = {p \in P : p.clientId # id[c] /\ p.recverId # id[c]}
      /\ \A d \in Conn : id'[d] = IF d = c THEN Gone ELSE id[d]
  BY DEF RemoveClient, WithoutClient, TypeOK
<1>2. \A i \in 1..Len(born) : born[i].by \in Conn /\ born[i].to \in Conn \cup {NoConn}
  BY BornFields
<1>3. ASSUME NEW p \in pipeV'
      PROVE  /\ p.clientId > 0 => id'[born[p.fd].by] = p.clientId
             /\ p.sign = "WriteUserPipe" => id'[born[p.fd].to] = p.recverId
  <2>1. p \in P /\ p.fd \in 1..Len(born) /\ p.clientId # id[c] /\ p.recverId # id[c]
    BY <1>1, <1>3 DEF Owned
  <2>2. p.clientId > 0 => id[born[p.fd].by] = p.clientId /\ born[p.fd].by # c
    BY <2>1 DEF Owned
  <2>3. p.sign = "WriteUserPipe" =>
          id[born[p.fd].to] = p.recverId /\ born[p.fd].to # c /\ born[p.fd].to # NoConn
    BY <2>1 DEF Owned
  <2> QED BY <1>1, <1>2, <2>1, <2>2, <2>3
<1> QED BY <1>1, <1>3 DEF Owned

\* A client that enters had no id, so no pipe's owner is disturbed.
LEMMA EnteringKeepsOwned ==
  ASSUME TypeOK, NEW c \in Conn, Owned(pipeV, born, id), Accept(c)
  PROVE  Owned(pipeV, born, id')
<1>1. id[c] = -2 /\ \A d \in Conn : d # c => id'[d] = id[d]
  BY DEF Accept, TypeOK, NotYet
<1>2. \A i \in 1..Len(born) : born[i].by \in Conn /\ born[i].to \in Conn \cup {NoConn}
  BY BornFields
<1>3. ASSUME NEW p \in pipeV
      PROVE  /\ p.clientId > 0 => id'[born[p.fd].by] = p.clientId
             /\ p.sign = "WriteUserPipe" => id'[born[p.fd].to] = p.recverId
  <2>1. p.fd \in 1..Len(born)
    BY DEF Owned
  <2>2. p.clientId > 0 => id[born[p.fd].by] = p.clientId /\ born[p.fd].by # c
    BY <1>1 DEF Owned
  <2>3. p.sign = "WriteUserPipe" =>
          id[born[p.fd].to] = p.recverId /\ born[p.fd].to # c /\ born[p.fd].to # NoConn
    BY <1>1 DEF Owned
  <2> QED BY <1>1, <1>2, <2>1, <2>2, <2>3
<1> QED BY <1>3 DEF Owned

\* The history grows by the pipe RunCmd creates and by nothing else.
LEMMA BornGrows ==
  ASSUME TypeOK, RunCmd
  PROVE  LET c == Head(shell.rest)
         IN  /\ Len(born') = IF Creates(c) THEN Len(born) + 1 ELSE Len(born)
             /\ \A i \in 1..Len(born) : born'[i] = born[i]
             /\ Creates(c) =>
                  born'[Len(born) + 1] =
                    [by |-> shell.conn, id |-> MyId, sign |-> c.sign, line |-> lines,
                     to |-> IF c.sign = "WriteUserPipe"
                            THEN ClientWithId(c.writeId) ELSE NoConn]
             /\ Len(born) \in Nat
<1> DEFINE c == Head(shell.rest)
           b == [by |-> shell.conn, id |-> MyId, sign |-> c.sign, line |-> lines,
                 to |-> IF c.sign = "WriteUserPipe"
                        THEN ClientWithId(c.writeId) ELSE NoConn]
           B == [by : Conn, id : 0..KMaxClient, sign : Signs, line : Nat, to : Conn \cup {NoConn}]
<1>1. born \in Seq(B)
  BY DEF TypeOK
<1>2. born' = IF Creates(c) THEN Append(born, b) ELSE born
  BY DEF RunCmd
<1>3. b \in B
  <2>1. shell # Idle /\ shell.rest # <<>>
    BY DEF RunCmd, At
  <2>2. c \in Cmd /\ shell.conn \in Conn /\ MyId \in 0..KMaxClient
    BY <2>1, HeadIsCmd, MyIdIsAnId
  <2>3. c.sign \in Signs /\ ClientWithId(c.writeId) \in Conn \cup {NoConn}
    BY <2>2 DEF Cmd, ClientWithId
  <2> QED BY <2>2, <2>3 DEF TypeOK
<1>4. Len(born) \in Nat
  BY <1>1, LenProperties
<1> HIDE DEF b, B
<1>5. /\ Len(Append(born, b)) = Len(born) + 1
      /\ \A i \in 1..Len(born) : Append(born, b)[i] = born[i]
      /\ Append(born, b)[Len(born) + 1] = b
  BY <1>1, <1>3, AppendProperties
<1> QED BY <1>2, <1>4, <1>5 DEF b

\* The pipes among which RunCmd chooses, the new one included, are as they should be.
LEMMA CreatedIsOwned ==
  ASSUME TypeOK, IdsMatchClients, PipesAreBorn, PipesBelongToTheLiving, RunCmd
  PROVE  LET P == CreatePipe(Head(shell.rest))
         IN  /\ P \in SUBSET PipeType
             /\ Owned(P, born', id)
             /\ FdsDiffer(P)
             /\ \A p \in P : p \in pipeV \/ p.fd = Len(born) + 1
             /\ \A p \in P : p.sign = "Pipe" =>
                  p.pipeNum = 0 \/ (p.pipeNum = 1 /\ p.clientId = MyId)
<1> DEFINE c == Head(shell.rest)
           P == CreatePipe(c)
           n == NewPipe(c)
<1>1. shell # Idle /\ shell.rest # <<>>
  BY DEF RunCmd, At
<1>2. c \in Cmd /\ shell.conn \in Conn /\ MyId \in 0..KMaxClient
  BY <1>1, HeadIsCmd, MyIdIsAnId
<1>3. P \in SUBSET PipeType
  BY <1>1, <1>2, CreatePipeType
<1>4. /\ Owned(pipeV, born, id) /\ FdsDiffer(pipeV)
      /\ \A p \in pipeV : p.sign = "Pipe" => p.pipeNum = 0
  BY OwnedIs
<1>5. P = IF Creates(c) THEN pipeV \cup {n} ELSE pipeV
  BY DEF CreatePipe
<1>6. /\ n.fd = Len(born) + 1 /\ n.sign = c.sign /\ n.clientId = MyId
      /\ n.pipeNum = (IF c.sign = "WriteUserPipe" THEN -1 ELSE c.pipeNum)
      /\ n.senderId = (IF c.sign = "WriteUserPipe" THEN MyId ELSE 0)
      /\ n.recverId = c.writeId
  BY DEF NewPipe
<1>7. /\ Len(born') = IF Creates(c) THEN Len(born) + 1 ELSE Len(born)
      /\ \A i \in 1..Len(born) : born'[i] = born[i]
      /\ Creates(c) => /\ born'[Len(born) + 1].by = shell.conn
                       /\ born'[Len(born) + 1].id = MyId
                       /\ born'[Len(born) + 1].sign = c.sign
                       /\ born'[Len(born) + 1].to = IF c.sign = "WriteUserPipe"
                                                    THEN ClientWithId(c.writeId) ELSE NoConn
      /\ Len(born) \in Nat
  BY BornGrows
<1>8. /\ (c.sign = "WriteUserPipe") = (c.writeId # 0)
      /\ c.writeId \in 0..KMaxClient
      /\ c.sign = "Pipe" => c.pipeNum = 1
  BY <1>2 DEF Cmd
<1>9. Creates(c) /\ c.sign = "WriteUserPipe"
        => ClientWithId(c.writeId) # NoConn /\ id[ClientWithId(c.writeId)] = c.writeId
  <2>1. SUFFICES ASSUME Creates(c), c.sign = "WriteUserPipe"
                 PROVE  ClientWithId(c.writeId) # NoConn /\ id[ClientWithId(c.writeId)] = c.writeId
    OBVIOUS
  <2>2. ids[c.writeId] /\ c.writeId \in 1..KMaxClient
    BY <1>8, <2>1 DEF Creates, UserPipeOutError
  <2>3. \E d \in Conn : id[d] = c.writeId
    BY <2>2 DEF IdsMatchClients
  <2> QED BY <2>3, ConnAssumption DEF ClientWithId
<1> HIDE DEF c, P, n
<1>10. \A p \in P : p \in pipeV \/ (Creates(c) /\ p = n)
  BY <1>5
<1>11. Owned(P, born', id)
  <2>1. Owned(pipeV, born', id)
    BY <1>4, <1>7 DEF Owned
  <2>2. ASSUME Creates(c) PROVE Owned({n}, born', id)
    <3>1. n.fd \in 1..Len(born')
      BY <1>6, <1>7, <2>2
    <3>2. n.clientId > 0 => id[born'[n.fd].by] = n.clientId
      BY <1>6, <1>7, <2>2 DEF MyId
    <3>3. n.sign = "WriteUserPipe" =>
            born'[n.fd].to # NoConn /\ id[born'[n.fd].to] = n.recverId
      BY <1>6, <1>7, <1>9, <2>2
    <3>4. /\ born'[n.fd].sign = n.sign /\ born'[n.fd].id = n.clientId
          /\ IF n.sign = "WriteUserPipe"
             THEN n.pipeNum = -1 /\ n.senderId = n.clientId /\ n.recverId > 0
             ELSE n.senderId = 0 /\ n.recverId = 0
      BY <1>6, <1>7, <1>8, <2>2
    <3> QED BY <3>1, <3>2, <3>3, <3>4 DEF Owned
  <2> QED BY <1>10, <2>1, <2>2 DEF Owned
<1>12. FdsDiffer(P)
  <2>1. \A p \in pipeV : p.fd # n.fd
    BY <1>4, <1>6, <1>7 DEF Owned
  <2> QED BY <1>4, <1>10, <2>1 DEF FdsDiffer
<1>13. \A p \in P : p.sign = "Pipe" => p.pipeNum = 0 \/ (p.pipeNum = 1 /\ p.clientId = MyId)
  BY <1>4, <1>6, <1>8, <1>10
<1> QED BY <1>3, <1>6, <1>10, <1>11, <1>12, <1>13 DEF c, P

\* ClosePipe leaves no pipe of mine that is due, so ReducePipe finds only the one
\* that was just made.
LEMMA OrdinaryPipesDue ==
  ASSUME NEW P \in SUBSET PipeType, NEW i, NEW r,
         \A p \in P : p.sign = "Pipe" => p.pipeNum = 0 \/ (p.pipeNum = 1 /\ p.clientId = i)
  PROVE  \A q \in ReducePipe(ClosePipe(P, i, r), i) : q.sign = "Pipe" => q.pipeNum = 0
BY DEF ReducePipe, ClosePipe, PipeType

\* KeptFrom, twice.
LEMMA KeptTwice ==
  ASSUME NEW P, NEW Q, NEW R, KeptFrom(P, Q), KeptFrom(Q, R)
  PROVE  KeptFrom(P, R)
BY DEF KeptFrom

\* The two invariants of the wiring are proved together: the second needs the
\* stamps and the shape of the pipes that the first gives.
Wired == PipesAreBorn /\ PipesBelongToTheLiving

\* A step after which the pipes are kept from the pipes before it, the ids are as
\* they were and no child is added keeps the wiring.
LEMMA KeptStaysWired ==
  ASSUME TypeOK, TypeOK', Wired,
         KeptFrom(pipeV, pipeV'), FdsDiffer(pipeV'),
         \A q \in pipeV' : q.sign = "Pipe" => q.pipeNum = 0,
         Owned(pipeV', born, id'), kids' \subseteq kids, UNCHANGED <<born, nextPid>>
  PROVE  Wired'
<1>1. \A k \in kids : k.in <= Len(born) /\ k.out <= Len(born) /\ k.pid < nextPid
  BY OwnedIs DEF Wired
<1>2. DOMAIN born' = 1..Len(born')
  BY LenProperties DEF TypeOK
<1>3. PipesAreBorn'
  BY <1>1 DEF PipesAreBorn, Owned, FdsDiffer
<1>4. PipesBelongToTheLiving'
  BY <1>2 DEF PipesBelongToTheLiving, Owned
<1> QED BY <1>3, <1>4 DEF Wired

LEMMA RunCmdStaysWired ==
  ASSUME TypeOK, TypeOK', IdsMatchClients, Wired, RunCmd
  PROVE  Wired'
<1> DEFINE c == Head(shell.rest)
           P == CreatePipe(c)
<1>1. /\ P \in SUBSET PipeType /\ Owned(P, born', id) /\ FdsDiffer(P)
      /\ \A p \in P : p.sign = "Pipe" => p.pipeNum = 0 \/ (p.pipeNum = 1 /\ p.clientId = MyId)
  BY CreatedIsOwned DEF Wired
<1>2. pipeV' = ReducePipe(ClosePipe(P, MyId, c.readId), MyId) /\ id' = id /\ nextPid' = nextPid + 1
  BY DEF RunCmd
<1>3. ClosePipe(P, MyId, c.readId) \in SUBSET PipeType
  BY <1>1, PipesStayPipes
<1>4. KeptFrom(P, pipeV')
  <2>1. KeptFrom(P, ClosePipe(P, MyId, c.readId))
    BY <1>1, PipesAreKept
  <2>2. KeptFrom(ClosePipe(P, MyId, c.readId), pipeV')
    BY <1>2, <1>3, PipesAreKept
  <2> QED BY <2>1, <2>2, KeptTwice
<1>5. Owned(pipeV', born', id')
  BY <1>1, <1>2, <1>4, KeptStaysOwned
<1>6. FdsDiffer(pipeV')
  <2>1. FdsDiffer(ClosePipe(P, MyId, c.readId))
    BY <1>1, FdsStayDifferent
  <2> QED BY <1>2, <1>3, <2>1, FdsStayDifferent
<1>7. \A q \in pipeV' : q.sign = "Pipe" => q.pipeNum = 0
  BY <1>1, <1>2, OrdinaryPipesDue
<1>8. \A k \in kids' : k.in <= Len(born') /\ k.out <= Len(born') /\ k.pid < nextPid'
  <2>1. Len(born) \in Nat /\ Len(born') \in Nat /\ Len(born) <= Len(born') /\ nextPid \in Nat
    <3>1. /\ Len(born') = (IF Creates(c) THEN Len(born) + 1 ELSE Len(born))
          /\ Len(born) \in Nat
      BY BornGrows
    <3>2. nextPid \in Nat
      BY DEF TypeOK
    <3> HIDE DEF c
    <3> QED BY <3>1, <3>2
  <2>2. ASSUME NEW k \in kids PROVE k.in <= Len(born') /\ k.out <= Len(born') /\ k.pid < nextPid'
    <3>1. k.in <= Len(born) /\ k.out <= Len(born) /\ k.pid < nextPid
      BY OwnedIs DEF Wired
    <3>2. k \in KidType
      BY DEF TypeOK
    <3>3. k.in \in Int /\ k.out \in Int /\ k.pid \in Int
      BY <3>2 DEF KidType, DevNull, File
    <3> HIDE DEF c, P
    <3> QED BY <1>2, <2>1, <3>1, <3>3
  <2>3. PICK k \in KidType :
          /\ kids' = kids \cup {k} /\ k.pid = nextPid
          /\ k.in = InputOf(P, MyId, c, UserPipeInError(c))
          /\ k.out = OutputOf(P, MyId, c, UserPipeOutError(c))
    BY ForkedKid
  <2>4. UserPipeInError(c) \in BOOLEAN /\ UserPipeOutError(c) \in BOOLEAN
    BY DEF UserPipeInError, UserPipeOutError
  <2>5. \A p \in P : p.fd <= Len(born')
    BY <1>1, <2>1 DEF Owned
  <2>6. k.in <= Len(born')
    <3>1. k.in \in {Stdin, DevNull} \/ \E p \in P : k.in = p.fd
      BY <1>1, <2>3, <2>4, InputIsFeeding
    <3> QED BY <2>1, <2>5, <3>1 DEF Stdin, DevNull
  <2>7. k.out <= Len(born')
    <3>1. k.out \in {Sock, DevNull, File} \/ \E p \in P : k.out = p.fd
      BY <1>1, <2>3, <2>4, OutputIsTaking
    <3> QED BY <2>1, <2>5, <3>1 DEF Sock, DevNull, File
  <2> QED BY <1>2, <2>1, <2>2, <2>3, <2>6, <2>7
<1>9. DOMAIN born' = 1..Len(born')
  BY LenProperties DEF TypeOK
<1>10. PipesAreBorn'
  BY <1>5, <1>6, <1>7, <1>8 DEF PipesAreBorn, Owned, FdsDiffer
<1>11. PipesBelongToTheLiving'
  BY <1>5, <1>9 DEF PipesBelongToTheLiving, Owned
<1> QED BY <1>10, <1>11 DEF Wired

\* A pipe of an id is always a pipe of the client that has that id now, and a user
\* pipe always leads to the client it was addressed to, however ids are reused.
THEOREM PipesStayWithTheirClients == Spec => [](PipesAreBorn /\ PipesBelongToTheLiving)
<1>1. Init => Wired
  BY EmptySeq DEF Init, Wired, PipesAreBorn, PipesBelongToTheLiving
<1>2. TypeOK /\ TypeOK' /\ IdsMatchClients /\ Wired /\ [Next]_vars => Wired'
  <2> SUFFICES ASSUME TypeOK, TypeOK', IdsMatchClients, Wired, [Next]_vars PROVE Wired'
    OBVIOUS
  <2>1. /\ Owned(pipeV, born, id) /\ FdsDiffer(pipeV) /\ pipeV \in SUBSET PipeType
        /\ \A p \in pipeV : p.sign = "Pipe" => p.pipeNum = 0
    BY OwnedIs DEF Wired, TypeOK
  <2>2. KeptFrom(pipeV, pipeV)
    BY DEF KeptFrom
  <2>3. ASSUME NEW c \in Conn, Accept(c) PROVE Wired'
    <3>1. Owned(pipeV, born, id')
      BY <2>1, <2>3, EnteringKeepsOwned
    <3>2. UNCHANGED <<pipeV, kids, born, nextPid>>
      BY <2>3 DEF Accept
    <3> QED BY <2>1, <2>2, <3>1, <3>2, KeptStaysWired
  <2>4. ASSUME NEW c \in Conn, id[c] >= 0, NEW P \in SUBSET PipeType, KeptFrom(pipeV, P),
               FdsDiffer(P), \A p \in P : p.sign = "Pipe" => p.pipeNum = 0,
               RemoveClient(c, P), UNCHANGED <<kids, born, nextPid>>
        PROVE  Wired'
    <3>1. Owned(P, born, id)
      BY <2>1, <2>4, KeptStaysOwned
    <3>2. Owned(pipeV', born, id')
      BY <2>4, <3>1, LeavingKeepsOwned
    <3>3. pipeV' = WithoutClient(P, id[c])
      BY <2>4 DEF RemoveClient
    <3>4. KeptFrom(pipeV, pipeV')
      BY <2>4, <3>3, PipesAreKept, KeptTwice
    <3>5. FdsDiffer(pipeV') /\ \A q \in pipeV' : q.sign = "Pipe" => q.pipeNum = 0
      BY <2>4, <3>3, FdsStayDifferent DEF WithoutClient
    <3> QED BY <2>4, <3>2, <3>4, <3>5, KeptStaysWired
  <2>5. ASSUME NEW c \in Conn, Hangup(c) PROVE Wired'
    BY <2>1, <2>2, <2>4, <2>5 DEF Hangup
  <2>6. ASSUME NEW c \in Conn, NEW l \in Lines, ReadLine(c, l) PROVE Wired'
    BY <2>1, <2>2, <2>6, KeptStaysWired DEF ReadLine
  <2>7. ASSUME NEW i, NEW r
        PROVE  LET Q == ReducePipe(ClosePipe(pipeV, i, r), i)
               IN  /\ Q \in SUBSET PipeType /\ KeptFrom(pipeV, Q) /\ FdsDiffer(Q)
                   /\ \A q \in Q : q.sign = "Pipe" => q.pipeNum = 0
    <3>1. ClosePipe(pipeV, i, r) \in SUBSET PipeType
      BY <2>1, PipesStayPipes
    <3>2. ReducePipe(ClosePipe(pipeV, i, r), i) \in SUBSET PipeType
      BY <3>1, PipesStayPipes
    <3>3. KeptFrom(pipeV, ReducePipe(ClosePipe(pipeV, i, r), i))
      BY <2>1, <3>1, PipesAreKept, KeptTwice
    <3>4. FdsDiffer(ReducePipe(ClosePipe(pipeV, i, r), i))
      BY <2>1, <3>1, FdsStayDifferent
    <3>5. \A q \in ReducePipe(ClosePipe(pipeV, i, r), i) : q.sign = "Pipe" => q.pipeNum = 0
      BY <2>1, OrdinaryPipesDue
    <3> QED BY <3>2, <3>3, <3>4, <3>5
  <2>8. CASE RunBuiltin
    <3>1. pipeV' = ReducePipe(ClosePipe(pipeV, MyId, Head(shell.rest).readId), MyId)
          /\ UNCHANGED <<id, kids, born, nextPid>>
      BY <2>8 DEF RunBuiltin
    <3>2. KeptFrom(pipeV, pipeV') /\ FdsDiffer(pipeV')
          /\ \A q \in pipeV' : q.sign = "Pipe" => q.pipeNum = 0
      BY <2>7, <3>1
    <3>3. Owned(pipeV', born, id')
      BY <2>1, <3>1, <3>2, KeptStaysOwned
    <3> QED BY <3>1, <3>2, <3>3, KeptStaysWired
  <2>9. CASE RunExit
    <3>1. shell # Idle /\ shell.conn \in Conn /\ id[shell.conn] >= 0
      BY <2>9 DEF RunExit, At, TypeOK
    <3>2. RemoveClient(shell.conn, ReducePipe(ClosePipe(pipeV, MyId, Head(shell.rest).readId), MyId))
          /\ UNCHANGED <<kids, born, nextPid>>
      BY <2>9 DEF RunExit
    <3> QED BY <2>4, <2>7, <3>1, <3>2
  <2>10. CASE OpenFails
    <3>1. shell # Idle /\ shell.conn \in Conn /\ id[shell.conn] >= 0
      BY <2>10 DEF OpenFails, At, TypeOK
    <3> QED BY <2>1, <2>2, <2>4, <2>10, <3>1 DEF OpenFails
  <2>11. CASE SkipUnknown
    BY <2>1, <2>2, <2>11, KeptStaysWired DEF SkipUnknown
  <2>12. CASE RunCmd
    BY <2>12, RunCmdStaysWired
  <2>13. CASE EndLine
    <3>1. pipeV' = ReducePipeNum(pipeV, MyId) /\ UNCHANGED <<id, kids, born, nextPid>>
      BY <2>13 DEF EndLine
    <3>2. KeptFrom(pipeV, pipeV') /\ FdsDiffer(pipeV')
      BY <2>1, <3>1, PipesAreKept, FdsStayDifferent
    <3>3. \A q \in pipeV' : q.sign = "Pipe" => q.pipeNum = 0
      BY <2>1, <3>1 DEF ReducePipeNum, PipeType
    <3>4. Owned(pipeV', born, id')
      BY <2>1, <3>1, <3>2, KeptStaysOwned
    <3> QED BY <3>1, <3>2, <3>3, <3>4, KeptStaysWired
  <2>14. ASSUME NEW k \in kids, KidExit(k) PROVE Wired'
    BY <2>1, <2>2, <2>14, KeptStaysWired DEF KidExit
  <2>15. CASE UNCHANGED vars
    BY <2>1, <2>2, <2>15, KeptStaysWired DEF vars
  <2> QED BY <2>3, <2>5, <2>6, <2>8, <2>9, <2>10, <2>11, <2>12, <2>13, <2>14, <2>15
          DEF Next, ShellStep
<1> QED BY <1>1, <1>2, TypeCorrect, IdsCorrect, PTL DEF Spec, Wired

\* Every pipe of an id was made by the client that has it now, lines that stop half way
\* and ids that are reused included.
THEOREM PipesHaveTheirMakers == Spec => []PipesAreBorn
BY PipesStayWithTheirClients, PTL

-----------------------------------------------------------------------------
\* What the running commands hold.

\* The part of NoCrossTalk that speaks of one command.
KidIsPrivate(k, b) ==
  /\ k.id > 0 =>
       /\ k.in > 0 => \/ b[k.in].sign # "WriteUserPipe" /\ b[k.in].by = k.by
                      \/ b[k.in].sign = "WriteUserPipe" /\ b[k.in].to = k.by
       /\ k.out > 0 => b[k.out].by = k.by
  /\ k.in > 0 /\ b[k.in].sign = "WriteUserPipe" => k.readId = b[k.in].id

LEMMA PrivateIs ==
  NoCrossTalk <=> \A k \in kids : KidIsPrivate(k, born)
BY DEF NoCrossTalk, KidIsPrivate

\* The child RunCmd forks reads and writes only what belongs to it.
LEMMA ForkedKidIsPrivate ==
  ASSUME TypeOK, TypeOK', IdsMatchClients, Wired, RunCmd, NEW k \in KidType,
         k.by = shell.conn, k.id = MyId,
         k.in = InputOf(CreatePipe(Head(shell.rest)), MyId, Head(shell.rest),
                        UserPipeInError(Head(shell.rest))),
         k.out = OutputOf(CreatePipe(Head(shell.rest)), MyId, Head(shell.rest),
                          UserPipeOutError(Head(shell.rest))),
         k.readId = Head(shell.rest).readId
  PROVE  KidIsPrivate(k, born')
<1> DEFINE c == Head(shell.rest)
           P == CreatePipe(c)
<1>1. P \in SUBSET PipeType /\ Owned(P, born', id)
  BY CreatedIsOwned DEF Wired
<1>2. UserPipeInError(c) \in BOOLEAN /\ UserPipeOutError(c) \in BOOLEAN
  BY DEF UserPipeInError, UserPipeOutError
<1>3. shell # Idle /\ shell.rest # <<>>
  BY DEF RunCmd, At
<1>4. c \in Cmd /\ shell.conn \in Conn /\ MyId \in 0..KMaxClient
  BY <1>3, HeadIsCmd, MyIdIsAnId
<1>5. (c.sign = "WriteUserPipe") = (c.writeId # 0) /\ c.writeId \in 0..KMaxClient
      /\ (c.sign # "WriteUserPipe" => c.pipeNum \in Nat)
      /\ (c.sign \in {"Pipe", "NumberPipe", "ErrorPipe"} => c.pipeNum > 0)
      /\ c.sign \in Signs
  BY <1>4 DEF Cmd
<1>6. \A d \in Conn : id[d] = MyId /\ MyId > 0 => d = shell.conn
  BY <1>4 DEF IdsMatchClients, MyId
<1>7. \A p \in P : born'[p.fd].by \in Conn /\ born'[p.fd].to \in Conn \cup {NoConn}
  <2>1. \A i \in 1..Len(born') : born'[i].by \in Conn /\ born'[i].to \in Conn \cup {NoConn}
    <3> DEFINE B == [by : Conn, id : 0..KMaxClient, sign : Signs, line : Nat, to : Conn \cup {NoConn}]
    <3>1. born' \in Seq(B)
      BY DEF TypeOK
    <3>2. \A b \in B : b.by \in Conn /\ b.to \in Conn \cup {NoConn}
      OBVIOUS
    <3> HIDE DEF B
    <3>3. \A i \in 1..Len(born') : born'[i] \in B
      BY <3>1, ElementOfSeq
    <3> QED BY <3>2, <3>3
  <2> QED BY <1>1, <2>1 DEF Owned
<1> HIDE DEF c, P
<1>8. ASSUME k.in > 0
      PROVE  /\ k.id > 0 => \/ born'[k.in].sign # "WriteUserPipe" /\ born'[k.in].by = k.by
                            \/ born'[k.in].sign = "WriteUserPipe" /\ born'[k.in].to = k.by
             /\ born'[k.in].sign = "WriteUserPipe" => k.readId = born'[k.in].id
  <2>1. PICK p \in P : FeedsInput(p, MyId, c.readId) /\ k.in = p.fd
    <3>1. \/ k.in \in {Stdin, DevNull}
          \/ \E p \in P : FeedsInput(p, MyId, c.readId) /\ k.in = p.fd
      BY <1>1, <1>2, InputIsFeeding DEF c, P
    <3> QED BY <1>8, <3>1 DEF Stdin, DevNull
  <2>2. CASE IsUserPipe(p, c.readId, MyId)
    <3>1. p.sign = "WriteUserPipe" /\ p.recverId = MyId /\ p.senderId = c.readId
      BY <2>2 DEF IsUserPipe
    <3>2. /\ born'[p.fd].sign = "WriteUserPipe" /\ born'[p.fd].id = p.clientId
          /\ p.senderId = p.clientId /\ born'[p.fd].to # NoConn
          /\ id[born'[p.fd].to] = p.recverId
      BY <1>1, <3>1 DEF Owned
    <3>3. k.id > 0 => born'[p.fd].to = k.by
      BY <1>6, <1>7, <3>1, <3>2
    <3> QED BY <2>1, <3>1, <3>2, <3>3 DEF c
  <2>3. CASE p.pipeNum = 0 /\ p.clientId = MyId /\ c.readId = 0
    <3>1. p.sign # "WriteUserPipe" /\ born'[p.fd].sign = p.sign
      BY <1>1, <2>3 DEF Owned
    <3>2. MyId > 0 => id[born'[p.fd].by] = MyId
      BY <1>1, <2>3 DEF Owned
    <3>3. k.id > 0 => born'[p.fd].by = k.by
      BY <1>6, <1>7, <3>2
    <3> QED BY <2>1, <3>1, <3>3
  <2> QED BY <2>1, <2>2, <2>3 DEF FeedsInput
<1>9. ASSUME k.out > 0, k.id > 0
      PROVE  born'[k.out].by = k.by
  <2>1. PICK p \in P : TakesOutput(p, MyId, c) /\ k.out = p.fd
    <3>1. \/ k.out \in {Sock, DevNull, File}
          \/ \E p \in P : TakesOutput(p, MyId, c) /\ k.out = p.fd
      BY <1>1, <1>2, OutputIsTaking DEF c, P
    <3> QED BY <1>9, <3>1 DEF Sock, DevNull, File
  <2>2. p.clientId = MyId
    <3>1. CASE c.sign = "WriteUserPipe"
      <4>1. p.senderId = MyId /\ p.recverId = c.writeId /\ c.writeId # 0
        BY <1>5, <2>1, <3>1 DEF TakesOutput
      <4> QED BY <1>1, <4>1 DEF Owned
    <3>2. CASE c.sign # "WriteUserPipe"
      BY <2>1, <3>2 DEF TakesOutput
    <3> QED BY <3>1, <3>2
  <2>3. id[born'[p.fd].by] = MyId
    BY <1>1, <1>9, <2>2 DEF Owned
  <2> QED BY <1>6, <1>7, <1>9, <2>1, <2>3
<1> QED BY <1>8, <1>9 DEF KidIsPrivate

\* A command with an id reads only what its own client made or was sent, reads a
\* user pipe only by naming its sender, and writes only into its client's pipes.
THEOREM CommandsArePrivate == Spec => []NoCrossTalk
<1> DEFINE Private == \A k \in kids : KidIsPrivate(k, born)
<1>1. Init => Private
  BY DEF Init
<1>2. TypeOK /\ TypeOK' /\ IdsMatchClients /\ Wired /\ Private /\ [Next]_vars => Private'
  <2> SUFFICES ASSUME TypeOK, TypeOK', IdsMatchClients, Wired, Private, [Next]_vars PROVE Private'
    OBVIOUS
  <2>1. CASE RunCmd
    <3>1. PICK k \in KidType :
            /\ kids' = kids \cup {k} /\ k.by = shell.conn /\ k.id = MyId
            /\ k.in = InputOf(CreatePipe(Head(shell.rest)), MyId, Head(shell.rest),
                              UserPipeInError(Head(shell.rest)))
            /\ k.out = OutputOf(CreatePipe(Head(shell.rest)), MyId, Head(shell.rest),
                                UserPipeOutError(Head(shell.rest)))
            /\ k.readId = Head(shell.rest).readId
      BY <2>1, ForkedKid
    <3>2. KidIsPrivate(k, born')
      BY <2>1, <3>1, ForkedKidIsPrivate
    <3>3. ASSUME NEW j \in kids PROVE KidIsPrivate(j, born')
      <4>1. j.in <= Len(born) /\ j.out <= Len(born)
        BY OwnedIs DEF Wired
      <4>2. Len(born) \in Nat /\ \A i \in 1..Len(born) : born'[i] = born[i]
        BY <2>1, BornGrows
      <4>3. j \in KidType
        BY DEF TypeOK
      <4>4. j.in \in Int /\ j.out \in Int
        BY <4>3 DEF KidType, DevNull, File
      <4>5. (j.in > 0 => born'[j.in] = born[j.in]) /\ (j.out > 0 => born'[j.out] = born[j.out])
        BY <4>1, <4>2, <4>4
      <4>6. KidIsPrivate(j, born)
        OBVIOUS
      <4> QED BY <4>5, <4>6 DEF KidIsPrivate
    <3> QED BY <3>1, <3>2, <3>3
  <2>2. CASE kids' \subseteq kids /\ born' = born
    BY <2>2
  <2>3. ASSUME NEW c \in Conn, Accept(c) \/ Hangup(c) \/ \E l \in Lines : ReadLine(c, l)
        PROVE  Private'
    BY <2>2, <2>3 DEF Accept, Hangup, ReadLine
  <2>4. CASE RunBuiltin \/ RunExit \/ SkipUnknown \/ OpenFails \/ EndLine
    BY <2>2, <2>4 DEF RunBuiltin, RunExit, SkipUnknown, OpenFails, EndLine
  <2>5. ASSUME NEW k \in kids, KidExit(k) PROVE Private'
    BY <2>2, <2>5 DEF KidExit
  <2> QED BY <2>1, <2>2, <2>3, <2>4, <2>5 DEF Next, ShellStep, vars
<1>3. Private => NoCrossTalk
  BY PrivateIs
<1>4. Spec => []Wired
  BY PipesStayWithTheirClients, PTL DEF Wired
<1> QED BY <1>1, <1>2, <1>3, <1>4, TypeCorrect, IdsCorrect, PTL DEF Spec

\* The signs that make a pipe.
PipeSigns == {"Pipe", "NumberPipe", "ErrorPipe", "WriteUserPipe"}

\* The part of OutputIsWired that speaks of one command.
KidIsWired(k, b) ==
  k.made > 0 /\ k.out # k.made =>
    /\ k.sign # "WriteUserPipe"
    /\ k.out \in 1..(k.made - 1)
    /\ b[k.out].sign \in {"NumberPipe", "ErrorPipe"} /\ b[k.out].id = k.id

\* With it, that whatever was made has a sign that makes pipes: the signs of the open
\* pipes follow from those of the history.
WireInv ==
  /\ \A k \in kids : k.made <= Len(born) /\ KidIsWired(k, born)
  /\ \A i \in 1..Len(born) : born[i].sign \in PipeSigns

\* A command that makes a pipe writes into that pipe or into another that SetStdInOut
\* accepts for it.
LEMMA OutputIsAPipe ==
  ASSUME TypeOK, IdsMatchClients, Wired, RunCmd, Creates(Head(shell.rest))
  PROVE  LET c == Head(shell.rest)
         IN  \E p \in CreatePipe(c) :
               TakesOutput(p, MyId, c)
               /\ OutputOf(CreatePipe(c), MyId, c, UserPipeOutError(c)) = p.fd
<1> DEFINE c == Head(shell.rest)
           P == CreatePipe(c)
           S == {p \in P : TakesOutput(p, MyId, c)}
<1>1. P \in SUBSET PipeType
  BY CreatedIsOwned DEF Wired
<1>2. NewPipe(c) \in S
  BY DEF CreatePipe, NewPipe, TakesOutput
<1>3. ~UserPipeOutError(c) /\ c.sign \notin {"Write", "None"}
  BY DEF Creates, UserPipeOutError
<1>4. OutputOf(P, MyId, c, UserPipeOutError(c)) = First(S).fd
  <2> HIDE DEF c, P
  <2> QED BY <1>2, <1>3 DEF OutputOf
<1>5. First(S) \in S
  BY <1>1, <1>2, FirstIsIn
<1> QED BY <1>4, <1>5

\* The child RunCmd forks for a command that makes a pipe.
LEMMA ForkedKidIsWired ==
  ASSUME TypeOK, IdsMatchClients, Wired, WireInv, RunCmd, NEW k \in KidType,
         k.id = MyId, k.sign = Head(shell.rest).sign,
         k.made = (IF Creates(Head(shell.rest)) THEN Len(born) + 1 ELSE 0),
         k.out = OutputOf(CreatePipe(Head(shell.rest)), MyId, Head(shell.rest),
                          UserPipeOutError(Head(shell.rest)))
  PROVE  KidIsWired(k, born')
<1> DEFINE c == Head(shell.rest)
           P == CreatePipe(c)
<1> SUFFICES ASSUME Creates(c), k.out # k.made
             PROVE  /\ k.sign # "WriteUserPipe"
                    /\ k.out \in 1..(k.made - 1)
                    /\ born'[k.out].sign \in {"NumberPipe", "ErrorPipe"}
                    /\ born'[k.out].id = k.id
  BY DEF KidIsWired
<1>1. c \in Cmd /\ MyId \in 0..KMaxClient
  BY HeadIsCmd, MyIdIsAnId DEF RunCmd, At
<1>2. /\ c.sign = "Pipe" => c.pipeNum = 1
      /\ c.sign \in {"NumberPipe", "ErrorPipe"} => c.pipeNum >= 1
      /\ (c.sign = "WriteUserPipe") = (c.writeId # 0)
      /\ c.sign \in PipeSigns
  BY <1>1 DEF Cmd, Creates, PipeSigns
<1>3. PICK p \in P : TakesOutput(p, MyId, c) /\ k.out = p.fd
  BY OutputIsAPipe
<1>4. Len(born) \in Nat /\ \A i \in 1..Len(born) : born'[i] = born[i]
  BY BornGrows
<1>5. p \in pipeV /\ p.fd \in 1..Len(born)
  <2>1. p \in pipeV \/ p.fd = Len(born) + 1
    BY CreatedIsOwned DEF Wired
  <2>2. Owned(pipeV, born, id)
    BY OwnedIs DEF Wired
  <2>3. k.made = Len(born) + 1
    OBVIOUS
  <2> HIDE DEF c, P
  <2>4. p \in pipeV
    BY <1>3, <2>1, <2>3
  <2> QED BY <2>2, <2>4 DEF Owned
<1>6. /\ born[p.fd].sign = p.sign /\ born[p.fd].id = p.clientId
      /\ IF p.sign = "WriteUserPipe"
         THEN p.pipeNum = -1 /\ p.senderId = p.clientId /\ p.recverId > 0
         ELSE p.senderId = 0 /\ p.recverId = 0
      /\ p.sign = "Pipe" => p.pipeNum = 0
  BY <1>5, OwnedIs DEF Owned, Wired
<1>7. p.sign \in PipeSigns
  BY <1>5, <1>6 DEF WireInv
<1>8. c.sign # "WriteUserPipe"
  <2> SUFFICES ASSUME c.sign = "WriteUserPipe" PROVE FALSE
    OBVIOUS
  <2>1. ~HasUserPipe(MyId, c.writeId)
    BY DEF Creates, UserPipeOutError
  <2> HIDE DEF c, P
  <2>2. p.senderId = MyId /\ p.recverId = c.writeId /\ c.writeId # 0
    BY <1>2, <1>3 DEF TakesOutput
  <2>3. IsUserPipe(p, MyId, c.writeId)
    BY <1>6, <2>2 DEF IsUserPipe
  <2> QED BY <1>5, <2>1, <2>3 DEF HasUserPipe
<1> HIDE DEF c, P
<1>9. p.pipeNum = c.pipeNum /\ p.clientId = MyId
  BY <1>3, <1>8 DEF TakesOutput
<1>10. p.sign \in {"NumberPipe", "ErrorPipe"}
  BY <1>2, <1>6, <1>7, <1>8, <1>9 DEF PipeSigns
<1>11. k.made - 1 = Len(born)
  BY <1>4 DEF c
<1> QED BY <1>3, <1>4, <1>5, <1>6, <1>8, <1>9, <1>10, <1>11 DEF c

\* The invariant holds.
LEMMA WireInvHolds == Spec => []WireInv
<1>1. Init => WireInv
  BY EmptySeq DEF Init, WireInv
<1>2. TypeOK /\ TypeOK' /\ IdsMatchClients /\ Wired /\ WireInv /\ [Next]_vars => WireInv'
  <2> SUFFICES ASSUME TypeOK, TypeOK', IdsMatchClients, Wired, WireInv, [Next]_vars PROVE WireInv'
    OBVIOUS
  <2>1. CASE RunCmd
    <3> DEFINE c == Head(shell.rest)
    <3>1. PICK k \in KidType :
            /\ kids' = kids \cup {k} /\ k.id = MyId /\ k.sign = Head(shell.rest).sign
            /\ k.made = (IF Creates(Head(shell.rest)) THEN Len(born) + 1 ELSE 0)
            /\ k.out = OutputOf(CreatePipe(Head(shell.rest)), MyId, Head(shell.rest),
                                UserPipeOutError(Head(shell.rest)))
      BY <2>1, ForkedKid
    <3>2. KidIsWired(k, born')
      BY <2>1, <3>1, ForkedKidIsWired
    <3>3. /\ Len(born) \in Nat
          /\ Len(born') = IF Creates(c) THEN Len(born) + 1 ELSE Len(born)
          /\ \A i \in 1..Len(born) : born'[i] = born[i]
          /\ Creates(c) => born'[Len(born) + 1].sign = c.sign
      BY <2>1, BornGrows
    <3>4. Creates(c) => c.sign \in PipeSigns
      BY DEF Creates, PipeSigns
    <3> HIDE DEF c
    <3>5. \A i \in 1..Len(born') : born'[i].sign \in PipeSigns
      BY <3>3, <3>4 DEF WireInv
    <3>6. k.made <= Len(born')
      BY <3>1, <3>3 DEF c
    <3>7. ASSUME NEW j \in kids PROVE j.made <= Len(born') /\ KidIsWired(j, born')
      <4>1. j.made <= Len(born) /\ KidIsWired(j, born)
        BY DEF WireInv
      <4>2. j.made \in Nat
        BY DEF TypeOK, KidType
      <4>3. j.out \in 1..(j.made - 1) => born'[j.out] = born[j.out]
        BY <3>3, <4>1, <4>2
      <4> QED BY <3>3, <4>1, <4>2, <4>3 DEF KidIsWired
    <3> QED BY <3>1, <3>2, <3>5, <3>6, <3>7 DEF WireInv
  <2>2. CASE kids' \subseteq kids /\ born' = born
    BY <2>2 DEF WireInv
  <2>3. ASSUME NEW c \in Conn, Accept(c) \/ Hangup(c) \/ \E l \in Lines : ReadLine(c, l)
        PROVE  WireInv'
    BY <2>2, <2>3 DEF Accept, Hangup, ReadLine
  <2>4. CASE RunBuiltin \/ RunExit \/ SkipUnknown \/ OpenFails \/ EndLine
    BY <2>2, <2>4 DEF RunBuiltin, RunExit, SkipUnknown, OpenFails, EndLine
  <2>5. ASSUME NEW k \in kids, KidExit(k) PROVE WireInv'
    BY <2>2, <2>5 DEF KidExit
  <2> QED BY <2>1, <2>2, <2>3, <2>4, <2>5 DEF Next, ShellStep, vars
<1>3. Spec => []Wired
  BY PipesStayWithTheirClients, PTL DEF Wired
<1> QED BY <1>1, <1>2, <1>3, TypeCorrect, IdsCorrect, PTL DEF Spec

\* The output of a command with a pipe sign goes into the pipe made for it, unless a
\* number pipe its client made earlier is due at the same time; a user pipe is never
\* bypassed that way.
THEOREM OutputsAreWired == Spec => []OutputIsWired
<1>1. WireInv => OutputIsWired
  BY DEF WireInv, KidIsWired, OutputIsWired
<1> QED BY <1>1, WireInvHolds, PTL

\* Whatever a command waits for was started before it: the write end of its input
\* is held by no pipe of the server and by no later child.  So there is no circle of
\* children waiting for each other, and none that includes the server.
THEOREM WaitsAreOrdered == Spec => []WaitsOnlyForEarlier
<1>1. Init => WaitsOnlyForEarlier
  BY DEF Init, WaitsOnlyForEarlier
<1>2. TypeOK /\ TypeOK' /\ IdsMatchClients /\ Wired /\ WaitsOnlyForEarlier /\ [Next]_vars
        => WaitsOnlyForEarlier'
  <2> SUFFICES ASSUME TypeOK, TypeOK', IdsMatchClients, Wired, WaitsOnlyForEarlier, [Next]_vars
               PROVE  WaitsOnlyForEarlier'
    OBVIOUS
  <2>1. CASE RunCmd
    <3> DEFINE c == Head(shell.rest)
               P == CreatePipe(c)
               Q == ClosePipe(P, MyId, c.readId)
    <3>1. /\ P \in SUBSET PipeType /\ FdsDiffer(P)
          /\ \A p \in P : p \in pipeV \/ p.fd = Len(born) + 1
      BY <2>1, CreatedIsOwned DEF Wired
    <3>2. PICK k \in KidType :
            /\ kids' = kids \cup {k} /\ k.pid = nextPid
            /\ k.in = InputOf(P, MyId, c, UserPipeInError(c))
            /\ k.holds \subseteq EndsHeld(P, k.in)
      BY <2>1, ForkedKid
    <3>3. \A q \in pipeV' : \E p \in Q : q.fd = p.fd
      <4>1. pipeV' = ReducePipe(Q, MyId) /\ Q \in SUBSET PipeType
        BY <2>1, <3>1, PipesStayPipes DEF RunCmd
      <4> HIDE DEF Q
      <4>2. KeptFrom(Q, ReducePipe(Q, MyId))
        BY <4>1, PipesAreKept
      <4> QED BY <4>1, <4>2 DEF KeptFrom
    <3>4. Q \subseteq P
      BY DEF ClosePipe
    <3>5. UserPipeInError(c) \in BOOLEAN
      BY DEF UserPipeInError
    <3>6. \A p \in P : FeedsInput(p, MyId, c.readId) => p \notin Q
      BY DEF FeedsInput, ClosePipe
    <3>7. Len(born) \in Nat /\ \A p \in P : p.fd \in Nat
      BY <2>1, <3>1, BornGrows DEF PipeType
    <3>8. \A j \in kids : j.in \in Int /\ j.in <= Len(born) /\ j.pid < nextPid
      <4>1. \A j \in kids : j.in <= Len(born) /\ j.pid < nextPid
        BY OwnedIs DEF Wired
      <4>2. \A j \in KidType : j.in \in Int
        BY DEF KidType, DevNull
      <4> QED BY <4>1, <4>2 DEF TypeOK
    <3> HIDE DEF c, P, Q
    <3>9. ASSUME k.in > 0 PROVE \A q \in pipeV' : q.fd # k.in
      <4>1. PICK p \in P : FeedsInput(p, MyId, c.readId) /\ k.in = p.fd
        <5>1. \/ k.in \in {Stdin, DevNull}
              \/ \E p \in P : FeedsInput(p, MyId, c.readId) /\ k.in = p.fd
          BY <3>1, <3>2, <3>5, InputIsFeeding
        <5> QED BY <3>9, <5>1 DEF Stdin, DevNull
      <4> QED BY <3>1, <3>3, <3>4, <3>6, <4>1 DEF FdsDiffer
    <3>10. ASSUME k.in > 0, NEW j \in kids', <<k.in, "w">> \in j.holds PROVE j.pid < k.pid
      <4>1. <<k.in, "w">> \notin k.holds
        BY <3>2 DEF EndsHeld
      <4> QED BY <3>2, <3>8, <3>10, <4>1
    <3>11. ASSUME NEW j \in kids, j.in > 0
           PROVE  /\ \A q \in pipeV' : q.fd # j.in
                  /\ <<j.in, "w">> \notin k.holds
      <4>1. \A p \in P : p.fd # j.in
        <5>1. \A p \in pipeV : p.fd # j.in
          BY <3>11 DEF WaitsOnlyForEarlier
        <5>2. Len(born) + 1 # j.in
          BY <3>7, <3>8
        <5> QED BY <3>1, <5>1, <5>2
      <4>2. \A q \in pipeV' : q.fd # j.in
        BY <3>3, <3>4, <4>1
      <4>3. <<j.in, "w">> \notin k.holds
        BY <3>2, <4>1 DEF EndsHeld
      <4> QED BY <4>2, <4>3
    <3> QED BY <3>2, <3>9, <3>10, <3>11 DEF WaitsOnlyForEarlier
  <2>2. CASE kids' \subseteq kids /\ \A q \in pipeV' : \E p \in pipeV : q.fd = p.fd
    BY <2>2 DEF WaitsOnlyForEarlier
  <2>3. pipeV \in SUBSET PipeType
    BY DEF TypeOK
  <2>4. ASSUME NEW i, NEW r
        PROVE  \A q \in ReducePipe(ClosePipe(pipeV, i, r), i) : \E p \in pipeV : q.fd = p.fd
    <3>1. KeptFrom(pipeV, ReducePipe(ClosePipe(pipeV, i, r), i))
      BY <2>3, PipesAreKept, PipesStayPipes, KeptTwice
    <3> QED BY <3>1 DEF KeptFrom
  <2>5. ASSUME NEW c \in Conn, Accept(c) \/ Hangup(c) \/ \E l \in Lines : ReadLine(c, l)
        PROVE  WaitsOnlyForEarlier'
    BY <2>2, <2>5 DEF Accept, Hangup, ReadLine, RemoveClient, WithoutClient
  <2>6. CASE RunBuiltin \/ RunExit
    BY <2>2, <2>4, <2>6 DEF RunBuiltin, RunExit, RemoveClient, WithoutClient
  <2>7. CASE SkipUnknown \/ OpenFails
    BY <2>2, <2>7 DEF SkipUnknown, OpenFails, RemoveClient, WithoutClient
  <2>8. CASE EndLine
    <3>1. KeptFrom(pipeV, pipeV') /\ kids' = kids
      BY <2>3, <2>8, PipesAreKept DEF EndLine
    <3> QED BY <2>2, <3>1 DEF KeptFrom
  <2>9. ASSUME NEW k \in kids, KidExit(k) PROVE WaitsOnlyForEarlier'
    BY <2>2, <2>9 DEF KidExit
  <2> QED BY <2>1, <2>2, <2>5, <2>6, <2>7, <2>8, <2>9 DEF Next, ShellStep, vars
<1>3. Spec => []Wired
  BY PipesStayWithTheirClients, PTL DEF Wired
<1> QED BY <1>1, <1>2, <1>3, TypeCorrect, IdsCorrect, PTL DEF Spec

-----------------------------------------------------------------------------
\* What is closed unread.

\* Pipe p is not an ordinary pipe from before line n.
Timely(p, b, n) == p.sign = "Pipe" => b[p.fd].line >= n

\* Of the pipes of one client that are due at the same time, ordinary pipes from before
\* line n apart, only the first is ever written to.
FirstsAreFed(P, b, f, n) ==
  \A p, q \in P :
    /\ p.clientId = q.clientId /\ p.pipeNum = q.pipeNum
    /\ p.sign # "WriteUserPipe" /\ q.sign # "WriteUserPipe"
    /\ Timely(p, b, n) /\ Timely(q, b, n) /\ p.fd \in f
    => p.fd <= q.fd

\* The same for an ordinary pipe of line l, which stays due when the line ends, and a
\* number pipe that becomes due then.
CrossingsAreFed(P, b, f, l) ==
  \A p, q \in P :
    /\ p.sign = "Pipe" /\ b[p.fd].line = l
    /\ q.sign \in {"NumberPipe", "ErrorPipe"} /\ q.clientId = p.clientId /\ q.pipeNum = 1
    => (p.fd \in f => p.fd <= q.fd) /\ (q.fd \in f => q.fd <= p.fd)

DropInv ==
  /\ fed \subseteq 1..Len(born)
  /\ \A i \in 1..Len(born) : born[i].line <= lines
  /\ FirstsAreFed(pipeV, born, fed, IF shell = Idle THEN lines ELSE lines - 1)
  /\ shell # Idle => CrossingsAreFed(pipeV, born, fed, lines)

\* Lines are numbers.
LEMMA BornLines ==
  ASSUME TypeOK
  PROVE  \A i \in 1..Len(born) : born[i].line \in Nat
<1> DEFINE B == [by : Conn, id : 0..KMaxClient, sign : Signs, line : Nat, to : Conn \cup {NoConn}]
<1>1. born \in Seq(B)
  BY DEF TypeOK
<1>2. \A b \in B : b.line \in Nat
  OBVIOUS
<1> HIDE DEF B
<1>3. \A i \in 1..Len(born) : born[i] \in B
  BY <1>1, ElementOfSeq
<1> QED BY <1>2, <1>3

\* Fewer pipes, a later line.
LEMMA FewerStayFed ==
  ASSUME NEW P, NEW Q \in SUBSET P, NEW b, NEW f, NEW n \in Int, NEW m \in Int, n <= m,
         \A p \in P : b[p.fd].line \in Nat
  PROVE  /\ FirstsAreFed(P, b, f, n) => FirstsAreFed(Q, b, f, m)
         /\ CrossingsAreFed(P, b, f, m) => CrossingsAreFed(Q, b, f, m)
<1>1. \A p \in P : Timely(p, b, m) => Timely(p, b, n)
  BY DEF Timely
<1> QED BY <1>1 DEF FirstsAreFed, CrossingsAreFed

\* Between two commands ClosePipe leaves no ordinary pipe of the client, so that
\* ReducePipe changes nothing.
LEMMA ClosingIsRemoving ==
  ASSUME NEW P \in SUBSET PipeType, NEW i, NEW r, \A p \in P : p.sign = "Pipe" => p.pipeNum = 0
  PROVE  ReducePipe(ClosePipe(P, i, r), i) \subseteq P
BY DEF ReducePipe, ClosePipe, PipeType

\* The end of a line: the number pipes of the client come one line nearer.
LEMMA EndLineKeepsFed ==
  ASSUME NEW P \in SUBSET PipeType, NEW b, NEW f, NEW l \in Nat, NEW i,
         \A p \in P : /\ b[p.fd].line \in Nat /\ b[p.fd].line <= l /\ p.sign \in PipeSigns
                      /\ p.sign = "Pipe" => p.pipeNum = 0,
         FirstsAreFed(P, b, f, l - 1), CrossingsAreFed(P, b, f, l)
  PROVE  FirstsAreFed(ReducePipeNum(P, i), b, f, l)
<1> DEFINE R(p) == IF p.sign \in {"NumberPipe", "ErrorPipe"} /\ p.clientId = i
                   THEN [p EXCEPT !.pipeNum = @ - 1] ELSE p
<1> SUFFICES ASSUME NEW p \in P, NEW q \in P,
                    R(p).clientId = R(q).clientId, R(p).pipeNum = R(q).pipeNum,
                    R(p).sign # "WriteUserPipe", R(q).sign # "WriteUserPipe",
                    Timely(R(p), b, l), Timely(R(q), b, l), R(p).fd \in f
             PROVE  R(p).fd <= R(q).fd
  <2>1. ReducePipeNum(P, i) = {R(x) : x \in P}
    BY DEF ReducePipeNum
  <2> HIDE DEF R
  <2> QED BY <2>1 DEF FirstsAreFed
<1>1. \A x \in P : /\ R(x).fd = x.fd /\ R(x).sign = x.sign /\ R(x).clientId = x.clientId
                   /\ R(x).pipeNum = (IF x.sign \in {"NumberPipe", "ErrorPipe"} /\ x.clientId = i
                                      THEN x.pipeNum - 1 ELSE x.pipeNum)
  BY DEF PipeType
<1> HIDE DEF R
<1>2. /\ p.clientId = q.clientId /\ p.sign # "WriteUserPipe" /\ q.sign # "WriteUserPipe"
      /\ Timely(p, b, l) /\ Timely(q, b, l) /\ p.fd \in f
  BY <1>1 DEF Timely
<1>3. Timely(p, b, l - 1) /\ Timely(q, b, l - 1)
  BY <1>2 DEF Timely
<1>4. p.pipeNum \in Int /\ q.pipeNum \in Int
  BY DEF PipeType
<1>5. CASE p.pipeNum = q.pipeNum
  BY <1>1, <1>2, <1>3, <1>5 DEF FirstsAreFed
<1>6. CASE p.pipeNum # q.pipeNum
  <2>1. \/ p.sign = "Pipe" /\ q.sign \in {"NumberPipe", "ErrorPipe"} /\ q.pipeNum = p.pipeNum + 1
        \/ q.sign = "Pipe" /\ p.sign \in {"NumberPipe", "ErrorPipe"} /\ p.pipeNum = q.pipeNum + 1
    BY <1>1, <1>2, <1>4, <1>6 DEF PipeSigns
  <2>2. CASE p.sign = "Pipe" /\ q.sign \in {"NumberPipe", "ErrorPipe"} /\ q.pipeNum = p.pipeNum + 1
    <3>1. b[p.fd].line = l /\ q.pipeNum = 1
      BY <1>2, <2>2 DEF Timely
    <3> QED BY <1>1, <1>2, <2>2, <3>1 DEF CrossingsAreFed
  <2>3. CASE q.sign = "Pipe" /\ p.sign \in {"NumberPipe", "ErrorPipe"} /\ p.pipeNum = q.pipeNum + 1
    <3>1. b[q.fd].line = l /\ p.pipeNum = 1
      BY <1>2, <2>3 DEF Timely
    <3> QED BY <1>1, <1>2, <2>3, <3>1 DEF CrossingsAreFed
  <2> QED BY <2>1, <2>2, <2>3
<1> QED BY <1>5, <1>6

\* What the pipes come from when a command has been forked: nothing of the client that
\* was due is left, and its new ordinary pipe is due now.
LEMMA PipesAfterFork ==
  ASSUME NEW P \in SUBSET PipeType, NEW i, NEW r,
         NEW x \in ReducePipe(ClosePipe(P, i, r), i)
  PROVE  \E p \in P :
           /\ x.fd = p.fd /\ x.sign = p.sign /\ x.clientId = p.clientId
           /\ p.clientId = i => p.pipeNum # 0
           /\ p.sign # "Pipe" \/ p.clientId # i => x.pipeNum = p.pipeNum
           /\ p.sign = "Pipe" /\ p.clientId = i => x.pipeNum = p.pipeNum - 1
BY DEF ReducePipe, ClosePipe, PipeType

\* The pipe that RunCmd makes, as seen among the others.
LEMMA NewPipeIs ==
  ASSUME TypeOK, IdsMatchClients, Wired, RunCmd, NEW p \in CreatePipe(Head(shell.rest)),
         p.fd = Len(born) + 1
  PROVE  LET c == Head(shell.rest)
         IN  p.clientId = MyId /\ p.sign = c.sign
             /\ (p.sign # "WriteUserPipe" => p.pipeNum = c.pipeNum)
<1>1. p = NewPipe(Head(shell.rest))
  <2>1. p \notin pipeV
    <3>1. Owned(pipeV, born, id) /\ Len(born) \in Nat
      BY OwnedIs, BornGrows DEF Wired
    <3> QED BY <3>1 DEF Owned
  <2> QED BY <2>1 DEF CreatePipe
<1> QED BY <1>1 DEF NewPipe

LEMMA RunCmdKeepsDropInv ==
  ASSUME TypeOK, TypeOK', IdsMatchClients, Wired, DropInv, RunCmd
  PROVE  DropInv'
<1> DEFINE c == Head(shell.rest)
           P == CreatePipe(c)
           out == OutputOf(P, MyId, c, UserPipeOutError(c))
           n == Len(born) + 1
<1>1. /\ P \in SUBSET PipeType
      /\ Owned(P, born', id)
      /\ FdsDiffer(P)
      /\ \A p \in P : p \in pipeV \/ p.fd = n
      /\ \A p \in P : p.sign = "Pipe" => p.pipeNum = 0 \/ (p.pipeNum = 1 /\ p.clientId = MyId)
  BY CreatedIsOwned DEF Wired
<1>2. \A p \in P : p.fd = n => /\ p.clientId = MyId /\ p.sign = c.sign
                               /\ p.sign # "WriteUserPipe" => p.pipeNum = c.pipeNum
  BY NewPipeIs
<1>3. /\ pipeV' = ReducePipe(ClosePipe(P, MyId, c.readId), MyId)
      /\ fed' = fed \cup ({out} \ {Sock, DevNull, File})
      /\ lines' = lines
  BY DEF RunCmd
<1>4. /\ n \in Nat /\ n - 1 \in Nat /\ Len(born') >= n - 1 /\ Len(born') \in Nat
      /\ \A i \in 1..(n - 1) : born'[i] = born[i]
      /\ \A i \in 1..Len(born') : i \notin 1..(n - 1) => born'[i].line = lines
  <2>1. /\ Len(born') = (IF Creates(c) THEN Len(born) + 1 ELSE Len(born))
        /\ \A i \in 1..Len(born) : born'[i] = born[i]
        /\ Creates(c) => born'[Len(born) + 1].line = lines
        /\ Len(born) \in Nat
    BY BornGrows
  <2> HIDE DEF c, P, out
  <2> QED BY <2>1
<1>5. shell # Idle /\ shell' # Idle
  <2>1. shell # Idle /\ shell'.conn = shell.conn /\ shell.conn \in Conn
    BY DEF RunCmd, At, TypeOK
  <2> QED BY <2>1, ConnAssumption DEF Idle
<1>6. \/ out \in {Sock, DevNull, File}
      \/ \E r \in P : /\ TakesOutput(r, MyId, c) /\ out = r.fd
                      /\ \A q \in P : TakesOutput(q, MyId, c) => r.fd <= q.fd
  <2>1. UserPipeOutError(c) \in BOOLEAN
    BY DEF UserPipeOutError
  <2> QED BY <1>1, <2>1, OutputIsFirst
<1>7. c \in Cmd /\ (c.sign = "WriteUserPipe") = (c.writeId # 0)
      /\ (c.sign = "Pipe" => c.pipeNum = 1)
  <2>1. c \in Cmd
    BY <1>5, HeadIsCmd DEF RunCmd, At
  <2> QED BY <2>1 DEF Cmd
<1>8. /\ fed \subseteq 1..(n - 1)
      /\ \A i \in 1..(n - 1) : born[i].line <= lines
      /\ FirstsAreFed(pipeV, born, fed, lines - 1) /\ CrossingsAreFed(pipeV, born, fed, lines)
  BY <1>5 DEF DropInv
<1>9. lines \in Nat /\ \A i \in 1..(n - 1) : born[i].line \in Nat
  BY SMTT(20), BornLines DEF TypeOK
<1>10. \A x \in pipeV' : \E p \in P :
          /\ x.fd = p.fd /\ x.sign = p.sign /\ x.clientId = p.clientId
          /\ p.clientId = MyId => p.pipeNum # 0
          /\ p.sign # "Pipe" \/ p.clientId # MyId => x.pipeNum = p.pipeNum
          /\ p.sign = "Pipe" /\ p.clientId = MyId => x.pipeNum = p.pipeNum - 1
  BY <1>1, <1>3, PipesAfterFork
<1> HIDE DEF c, P, out, n
\* Old pipes.
<1>11. \A p \in P : /\ p.fd \in 1..Len(born')
                    /\ p.fd # n => p \in pipeV /\ p.fd \in 1..(n - 1) /\ born'[p.fd] = born[p.fd]
  <2>1. \A p \in pipeV : p.fd \in 1..(n - 1)
    <3>1. Owned(pipeV, born, id)
      BY OwnedIs DEF Wired
    <3> QED BY <3>1, <1>4 DEF Owned, n
  <2> QED BY <1>1, <1>4, <2>1 DEF Owned
\* What is newly written to is the first of those that match.
<1>12. ASSUME NEW p \in P, p.fd \in fed', p.fd \notin fed, p.sign # "WriteUserPipe"
       PROVE  /\ p.clientId = MyId /\ p.pipeNum = c.pipeNum
              /\ \A q \in P : q.clientId = MyId /\ q.pipeNum = p.pipeNum => p.fd <= q.fd
  <2>1. p.fd = out /\ out \notin {Sock, DevNull, File}
    BY <1>3, <1>12
  <2>2. TakesOutput(p, MyId, c) /\ \A q \in P : TakesOutput(q, MyId, c) => p.fd <= q.fd
    BY <1>1, <1>6, <2>1 DEF FdsDiffer
  <2>3. c.sign # "WriteUserPipe"
    <3>1. p.recverId = 0
      BY <1>1, <1>12 DEF Owned
    <3> QED BY <1>7, <2>2, <3>1 DEF TakesOutput
  <2> QED BY <2>2, <2>3 DEF TakesOutput
<1>13. FirstsAreFed(pipeV', born', fed', lines - 1)
  <2> SUFFICES ASSUME NEW x \in pipeV', NEW y \in pipeV',
                      x.clientId = y.clientId, x.pipeNum = y.pipeNum,
                      x.sign # "WriteUserPipe", y.sign # "WriteUserPipe",
                      Timely(x, born', lines - 1), Timely(y, born', lines - 1), x.fd \in fed'
               PROVE  x.fd <= y.fd
    BY DEF FirstsAreFed
  <2>1. PICK p \in P :
          /\ x.fd = p.fd /\ x.sign = p.sign /\ x.clientId = p.clientId
          /\ p.clientId = MyId => p.pipeNum # 0
          /\ p.sign # "Pipe" \/ p.clientId # MyId => x.pipeNum = p.pipeNum
          /\ p.sign = "Pipe" /\ p.clientId = MyId => x.pipeNum = p.pipeNum - 1
    BY <1>10
  <2>2. PICK q \in P :
          /\ y.fd = q.fd /\ y.sign = q.sign /\ y.clientId = q.clientId
          /\ q.clientId = MyId => q.pipeNum # 0
          /\ q.sign # "Pipe" \/ q.clientId # MyId => y.pipeNum = q.pipeNum
          /\ q.sign = "Pipe" /\ q.clientId = MyId => y.pipeNum = q.pipeNum - 1
    BY <1>10
  <2>3. p.fd # n => Timely(p, born, lines - 1)
    BY <1>11, <2>1 DEF Timely
  <2>4. q.fd # n => Timely(q, born, lines - 1)
    BY <1>11, <2>2 DEF Timely
  <2>5. CASE p.clientId # MyId
    <3>1. p.fd # n /\ q.fd # n
      BY <1>2, <2>1, <2>2, <2>5
    <3>2. p.fd \in fed
      BY <1>12, <2>1, <2>5
    <3>3. p.pipeNum = q.pipeNum /\ p.clientId = q.clientId
      BY <2>1, <2>2, <2>5
    <3> QED BY <1>8, <1>11, <2>1, <2>2, <2>3, <2>4, <3>1, <3>2, <3>3 DEF FirstsAreFed
  <2>6. CASE p.clientId = MyId /\ p.sign # "Pipe" /\ q.sign # "Pipe"
    <3>1. p.pipeNum = q.pipeNum /\ p.clientId = q.clientId
      BY <2>1, <2>2, <2>6
    <3>2. CASE p.fd \in fed /\ q.fd # n
      <4>1. p.fd # n
        BY <1>4, <1>8, <3>2
      <4> QED BY <1>8, <1>11, <2>1, <2>2, <2>3, <2>4, <3>1, <3>2, <4>1 DEF FirstsAreFed
    <3>3. CASE p.fd \in fed /\ q.fd = n
      <4>1. p.fd \in 1..(n - 1)
        BY <1>8, <3>3
      <4>2. p.fd <= n
        BY <1>4, <4>1
      <4> QED BY <2>1, <2>2, <3>3, <4>2
    <3>4. CASE p.fd \notin fed
      BY <1>12, <2>1, <2>2, <2>6, <3>1, <3>4
    <3> QED BY <3>2, <3>3, <3>4
  <2>7. CASE p.clientId = MyId /\ (p.sign = "Pipe" \/ q.sign = "Pipe")
    <3>1. p.pipeNum \in Int /\ q.pipeNum \in Int
      BY <1>1 DEF PipeType
    <3>2. p.sign = "Pipe" /\ q.sign = "Pipe"
      <4>1. q.clientId = MyId /\ p.pipeNum # 0 /\ q.pipeNum # 0
        BY <2>1, <2>2, <2>7
      <4>2. p.sign = "Pipe" => p.pipeNum = 1 /\ x.pipeNum = 0
        BY <1>1, <2>1, <2>7, <3>1, <4>1
      <4>3. q.sign = "Pipe" => q.pipeNum = 1 /\ y.pipeNum = 0
        BY <1>1, <2>2, <3>1, <4>1
      <4>4. (p.sign # "Pipe" => x.pipeNum = p.pipeNum) /\ (q.sign # "Pipe" => y.pipeNum = q.pipeNum)
        BY <2>1, <2>2
      <4> QED BY <2>7, <4>1, <4>2, <4>3, <4>4
    <3>3. p.pipeNum = 1 /\ q.pipeNum = 1
      BY <1>1, <2>1, <2>2, <2>7, <3>2
    <3>4. p.fd = n /\ q.fd = n
      <4>1. \A z \in pipeV : z.sign = "Pipe" => z.pipeNum = 0
        BY OwnedIs DEF Wired
      <4> QED BY <1>11, <3>2, <3>3, <4>1
    <3> QED BY <1>4, <2>1, <2>2, <3>4
  <2> QED BY <2>5, <2>6, <2>7
<1>14. CrossingsAreFed(pipeV', born', fed', lines)
  <2> SUFFICES ASSUME NEW x \in pipeV', NEW y \in pipeV',
                      x.sign = "Pipe", born'[x.fd].line = lines,
                      y.sign \in {"NumberPipe", "ErrorPipe"}, y.clientId = x.clientId,
                      y.pipeNum = 1
               PROVE  (x.fd \in fed' => x.fd <= y.fd) /\ (y.fd \in fed' => y.fd <= x.fd)
    BY DEF CrossingsAreFed
  <2>1. PICK p \in P :
          /\ x.fd = p.fd /\ x.sign = p.sign /\ x.clientId = p.clientId
          /\ p.clientId = MyId => p.pipeNum # 0
          /\ p.sign # "Pipe" \/ p.clientId # MyId => x.pipeNum = p.pipeNum
          /\ p.sign = "Pipe" /\ p.clientId = MyId => x.pipeNum = p.pipeNum - 1
    BY <1>10
  <2>2. PICK q \in P :
          /\ y.fd = q.fd /\ y.sign = q.sign /\ y.clientId = q.clientId
          /\ q.sign # "Pipe" \/ q.clientId # MyId => y.pipeNum = q.pipeNum
    BY <1>10
  <2>3. q.pipeNum = 1 /\ q.sign \in {"NumberPipe", "ErrorPipe"} /\ q.clientId = p.clientId
    BY <2>1, <2>2
  <2>4. CASE p.clientId # MyId
    <3>1. p.fd # n /\ q.fd # n
      BY <1>2, <2>1, <2>3, <2>4
    <3>2. (p.fd \in fed' => p.fd \in fed) /\ (q.fd \in fed' => q.fd \in fed)
      BY <1>12, <2>1, <2>3, <2>4
    <3>3. p \in pipeV /\ q \in pipeV /\ born[p.fd].line = lines
      BY <1>11, <2>1, <3>1
    <3> QED BY <1>8, <2>1, <2>2, <2>3, <3>2, <3>3 DEF CrossingsAreFed
  <2>5. CASE p.clientId = MyId
    <3>1. p.pipeNum = 1
      BY <1>1, <2>1, <2>5
    <3>2. p.fd = n
      <4>1. \A z \in pipeV : z.sign = "Pipe" => z.pipeNum = 0
        BY OwnedIs DEF Wired
      <4> QED BY <1>11, <2>1, <3>1, <4>1
    <3>3. q.fd \in 1..(n - 1)
      <4>1. q.fd # n
        BY <1>1, <2>1, <2>3, <3>2 DEF FdsDiffer
      <4> QED BY <1>11, <4>1
    <3>4. p.fd \notin fed
      BY <1>4, <1>8, <3>2
    <3>5. p.fd \in fed' => p.fd <= q.fd
      BY <1>12, <2>1, <2>3, <2>5, <3>1, <3>4
    <3> QED BY <1>4, <2>1, <2>2, <3>2, <3>3, <3>5
  <2> QED BY <2>4, <2>5
<1>15. fed' \subseteq 1..Len(born')
  <2>1. fed \subseteq 1..Len(born')
    BY <1>4, <1>8
  <2>2. out \in {Sock, DevNull, File} \/ out \in 1..Len(born')
    BY <1>6, <1>11
  <2> QED BY <1>3, <2>1, <2>2
<1>16. \A i \in 1..Len(born') : born'[i].line <= lines
  BY <1>4, <1>8, <1>9
<1> QED BY <1>3, <1>5, <1>13, <1>14, <1>15, <1>16 DEF DropInv

\* Every other step keeps the invariant: pipes are only removed, and a line's number does
\* not decrease between one prompt and the next.
LEMMA RemovingKeepsDropInv ==
  ASSUME TypeOK, Wired, DropInv, pipeV' \subseteq pipeV, UNCHANGED <<born, fed, lines>>,
         shell' = Idle \/ shell # Idle
  PROVE  DropInv'
<1> DEFINE n == IF shell = Idle THEN lines ELSE lines - 1
           m == IF shell' = Idle THEN lines ELSE lines - 1
<1>1. n \in Int /\ m \in Int /\ n <= m /\ lines \in Int
  BY DEF TypeOK
<1>2. \A p \in pipeV : born[p.fd].line \in Nat
  <2>1. \A p \in pipeV : p.fd \in 1..Len(born)
    BY OwnedIs DEF Wired, Owned
  <2> QED BY <2>1, BornLines
<1>3. FirstsAreFed(pipeV, born, fed, n)
  BY DEF DropInv
<1>4. FirstsAreFed(pipeV', born, fed, m)
  <2> HIDE DEF n, m
  <2> QED BY <1>1, <1>2, <1>3, FewerStayFed
<1>5. shell' # Idle => CrossingsAreFed(pipeV', born, fed, lines)
  <2>1. shell # Idle => CrossingsAreFed(pipeV, born, fed, lines)
    BY DEF DropInv
  <2>2. lines <= lines
    BY <1>1
  <2> QED BY <1>1, <1>2, <2>1, <2>2, FewerStayFed
<1> QED BY <1>4, <1>5 DEF DropInv

\* What a command that asks for no user pipe reads when it starts.
LEMMA NothingIsDropped ==
  ASSUME TypeOK, IdsMatchClients, Wired, DropInv, RunCmd, NEW k \in KidType,
         k.id = MyId, k.readId = Head(shell.rest).readId, k.readId = 0,
         k.in = InputOf(CreatePipe(Head(shell.rest)), MyId, Head(shell.rest),
                        UserPipeInError(Head(shell.rest))),
         NEW p \in pipeV, p.clientId = k.id, p.pipeNum = 0, p.fd \in fed,
         \A q \in pipeV : q.clientId = k.id /\ q.pipeNum = 0 => ~LeftBehind(q)
  PROVE  \/ k.in = p.fd
         \/ /\ k.in > 0
            /\ born[k.in].sign = "WriteUserPipe"
<1> DEFINE c == Head(shell.rest)
           P == CreatePipe(c)
           S == {q \in P : FeedsInput(q, MyId, c.readId)}
<1>1. P \in SUBSET PipeType /\ \A q \in P : q \in pipeV \/ q.fd = Len(born) + 1
  BY CreatedIsOwned DEF Wired
<1>2. p \in S
  <2>1. p \in P
    BY DEF CreatePipe
  <2> QED BY <2>1 DEF FeedsInput
<1>3. ~UserPipeInError(c)
  BY DEF UserPipeInError
<1>4. k.in = First(S).fd
  <2>1. k.in = InputOf(P, MyId, c, UserPipeInError(c))
    OBVIOUS
  <2> HIDE DEF P, c
  <2> QED BY <1>2, <1>3, <2>1 DEF InputOf
<1>5. First(S) \in S /\ First(S).fd <= p.fd
  BY <1>1, <1>2, FirstIsIn
<1>6. PICK f \in P : FeedsInput(f, MyId, 0) /\ k.in = f.fd /\ f.fd <= p.fd
  BY <1>4, <1>5
<1>7. Owned(pipeV, born, id) /\ FdsDiffer(pipeV) /\ Len(born) \in Nat
  BY OwnedIs, BornGrows DEF Wired
<1>8. f \in pipeV
  <2>1. p.fd <= Len(born) /\ p.fd \in Nat
    BY <1>7 DEF Owned
  <2> HIDE DEF P, S, c
  <2> QED BY <1>1, <1>6, <1>7, <2>1
<1> HIDE DEF P, S, c
<1>9. CASE f.sign = "WriteUserPipe"
  <2>1. f.fd \in 1..Len(born) /\ born[f.fd].sign = f.sign
    BY <1>7, <1>8 DEF Owned
  <2> QED BY <1>6, <1>7, <1>9, <2>1
<1>10. CASE f.sign # "WriteUserPipe"
  <2>1. f.pipeNum = 0 /\ f.clientId = MyId
    BY <1>6, <1>10 DEF FeedsInput, IsUserPipe
  <2>2. p.sign # "WriteUserPipe"
    BY <1>7 DEF Owned
  <2>3. shell # Idle /\ lines \in Nat
    BY DEF RunCmd, At, TypeOK
  <2>4. Timely(p, born, lines - 1) /\ Timely(f, born, lines - 1)
    <3>1. ~LeftBehind(p) /\ ~LeftBehind(f)
      BY <1>8, <2>1
    <3>2. born[p.fd].line \in Nat /\ born[f.fd].line \in Nat
      BY <1>7, <1>8, BornLines DEF Owned
    <3> QED BY <2>3, <3>1, <3>2 DEF Timely, LeftBehind
  <2>5. p.fd <= f.fd
    BY <1>8, <1>10, <2>1, <2>2, <2>3, <2>4 DEF DropInv, FirstsAreFed
  <2>6. p.fd \in Nat /\ f.fd \in Nat
    BY <1>8 DEF TypeOK, PipeType
  <2> QED BY <1>6, <2>5, <2>6
<1> QED BY <1>9, <1>10

\* When a command that asks for no user pipe starts, it reads what was written for its line,
\* and nothing else that is closed unread then has been written to: unless a pipe was left
\* behind two lines ago, or the input comes from a client without an id.
THEOREM OutputIsRead == Spec => NoOutputDropped
<1>1. Init => DropInv
  BY EmptySeq DEF Init, DropInv, FirstsAreFed
<1>2. TypeOK /\ TypeOK' /\ IdsMatchClients /\ Wired /\ WireInv /\ DropInv /\ [Next]_vars => DropInv'
  <2> SUFFICES ASSUME TypeOK, TypeOK', IdsMatchClients, Wired, WireInv, DropInv, [Next]_vars
               PROVE  DropInv'
    OBVIOUS
  <2>1. pipeV \in SUBSET PipeType /\ \A p \in pipeV : p.sign = "Pipe" => p.pipeNum = 0
    BY OwnedIs DEF Wired, TypeOK
  <2>2. ASSUME NEW c \in Conn, Accept(c) \/ Hangup(c) PROVE DropInv'
    <3>1. pipeV' \subseteq pipeV /\ shell' = Idle /\ UNCHANGED <<born, fed, lines>>
      BY <2>2 DEF Accept, Hangup, RemoveClient, WithoutClient
    <3> QED BY <3>1, RemovingKeepsDropInv
  <2>3. ASSUME NEW c \in Conn, NEW l \in Lines, ReadLine(c, l) PROVE DropInv'
    <3>1. /\ shell = Idle /\ lines' = lines + 1 /\ UNCHANGED <<pipeV, born, fed>>
          /\ shell'.conn = c
      BY <2>3 DEF ReadLine
    <3>2. shell' # Idle
      BY <3>1, ConnAssumption DEF Idle
    <3>3. lines \in Nat /\ lines' - 1 = lines /\ Len(born) \in Nat
      BY <3>1, LenProperties DEF TypeOK
    <3>4. \A i \in 1..Len(born) : born[i].line \in Nat /\ born[i].line <= lines
      BY BornLines DEF DropInv
    <3>5. FirstsAreFed(pipeV', born', fed', lines' - 1)
      BY <3>1, <3>3 DEF DropInv
    <3>6. CrossingsAreFed(pipeV', born', fed', lines')
      <4>1. \A p \in pipeV : p.fd \in 1..Len(born)
        BY OwnedIs DEF Wired, Owned
      <4>2. \A p \in pipeV : born[p.fd].line # lines'
        BY <3>1, <3>3, <3>4, <4>1
      <4> QED BY <3>1, <4>2 DEF CrossingsAreFed
    <3>7. \A i \in 1..Len(born') : born'[i].line <= lines'
      BY <3>1, <3>3, <3>4
    <3> QED BY <3>1, <3>2, <3>5, <3>6, <3>7 DEF DropInv
  <2>4. CASE RunBuiltin
    <3>1. pipeV' \subseteq pipeV
      BY <2>1, <2>4, ClosingIsRemoving DEF RunBuiltin
    <3>2. shell # Idle /\ UNCHANGED <<born, fed, lines>>
      BY <2>4 DEF RunBuiltin, At
    <3> QED BY <3>1, <3>2, RemovingKeepsDropInv
  <2>5. CASE RunExit \/ OpenFails
    <3>1. pipeV' \subseteq pipeV
      <4>1. CASE RunExit
        <5>1. pipeV' \subseteq ReducePipe(ClosePipe(pipeV, MyId, Head(shell.rest).readId), MyId)
          BY <4>1 DEF RunExit, RemoveClient, WithoutClient
        <5> QED BY <2>1, <5>1, ClosingIsRemoving
      <4>2. CASE OpenFails
        BY <4>2 DEF OpenFails, RemoveClient, WithoutClient
      <4> QED BY <2>5, <4>1, <4>2
    <3>2. shell # Idle /\ UNCHANGED <<born, fed, lines>>
      BY <2>5 DEF RunExit, OpenFails, At
    <3> QED BY <3>1, <3>2, RemovingKeepsDropInv
  <2>6. CASE SkipUnknown
    <3>1. pipeV' \subseteq pipeV /\ shell # Idle /\ UNCHANGED <<born, fed, lines>>
      BY <2>6 DEF SkipUnknown, At
    <3> QED BY <3>1, RemovingKeepsDropInv
  <2>7. CASE RunCmd
    BY <2>7, RunCmdKeepsDropInv
  <2>8. CASE EndLine
    <3>1. /\ shell # Idle /\ shell' = Idle /\ pipeV' = ReducePipeNum(pipeV, MyId)
          /\ UNCHANGED <<born, fed, lines>>
      BY <2>8 DEF EndLine
    <3>2. \A p \in pipeV : p.fd \in 1..Len(born) /\ born[p.fd].sign = p.sign
      BY OwnedIs DEF Wired, Owned
    <3>3. \A p \in pipeV : /\ born[p.fd].line \in Nat /\ born[p.fd].line <= lines
                           /\ p.sign \in PipeSigns
      BY <3>2, BornLines DEF DropInv, WireInv
    <3>4. lines \in Nat
      BY DEF TypeOK
    <3>5. FirstsAreFed(pipeV, born, fed, lines - 1) /\ CrossingsAreFed(pipeV, born, fed, lines)
      BY <3>1 DEF DropInv
    <3>6. FirstsAreFed(ReducePipeNum(pipeV, MyId), born, fed, lines)
      BY <2>1, <3>3, <3>4, <3>5, EndLineKeepsFed
    <3>7. fed \subseteq 1..Len(born) /\ \A i \in 1..Len(born) : born[i].line <= lines
      BY DEF DropInv
    <3> QED BY <3>1, <3>6, <3>7 DEF DropInv
  <2>9. ASSUME (\E k \in kids : KidExit(k)) \/ UNCHANGED vars PROVE DropInv'
    <3>1. UNCHANGED <<pipeV, shell, born, fed, lines>>
      BY <2>9 DEF KidExit, vars
    <3> QED BY <3>1 DEF DropInv
  <2> QED BY <2>2, <2>3, <2>4, <2>5, <2>6, <2>7, <2>8, <2>9 DEF Next, ShellStep
<1> DEFINE Read(k) ==
      LET due == {p \in pipeV : p.clientId = k.id /\ p.pipeNum = 0}
      IN  \/ \A p \in due : p.fd \in fed => k.in = p.fd
          \/ \E p \in due : LeftBehind(p)
          \/ /\ k.in > 0
             /\ born[k.in].sign = "WriteUserPipe"
<1>3. TypeOK /\ IdsMatchClients /\ Wired /\ DropInv /\ [Next]_vars
        => [\A k \in kids' \ kids : k.readId = 0 => Read(k)]_vars
  <2> SUFFICES ASSUME TypeOK, IdsMatchClients, Wired, DropInv, Next,
                      NEW k \in kids' \ kids, k.readId = 0
               PROVE  Read(k)
    OBVIOUS
  <2>1. RunCmd
    BY DEF Next, ShellStep, Accept, Hangup, ReadLine, RunBuiltin, RunExit, SkipUnknown,
           OpenFails, EndLine, KidExit
  <2>2. /\ k \in KidType /\ k.id = MyId /\ k.readId = Head(shell.rest).readId
        /\ k.in = InputOf(CreatePipe(Head(shell.rest)), MyId, Head(shell.rest),
                          UserPipeInError(Head(shell.rest)))
    <3>1. PICK j \in KidType :
            /\ kids' = kids \cup {j} /\ j.id = MyId /\ j.readId = Head(shell.rest).readId
            /\ j.in = InputOf(CreatePipe(Head(shell.rest)), MyId, Head(shell.rest),
                              UserPipeInError(Head(shell.rest)))
      BY <2>1, ForkedKid
    <3>2. k = j
      BY <3>1
    <3> QED BY <3>1, <3>2
  <2>3. ASSUME \A q \in pipeV : q.clientId = k.id /\ q.pipeNum = 0 => ~LeftBehind(q),
               NEW p \in pipeV, p.clientId = k.id, p.pipeNum = 0, p.fd \in fed
        PROVE  \/ k.in = p.fd
               \/ /\ k.in > 0
                  /\ born[k.in].sign = "WriteUserPipe"
    BY <2>1, <2>2, <2>3, NothingIsDropped
  <2> QED BY <2>3
<1>4. Spec => []Wired
  BY PipesStayWithTheirClients, PTL DEF Wired
<1>5. Spec => []DropInv
  BY <1>1, <1>2, <1>4, TypeCorrect, IdsCorrect, WireInvHolds, PTL DEF Spec
<1> QED BY <1>3, <1>4, <1>5, TypeCorrect, IdsCorrect, PTL DEF Spec, NoOutputDropped

=============================================================================
