------------------------ MODULE ConsoleSession_proofs ------------------------
(***************************************************************************)
(* Proofs about the console's page, for every number of slots, all         *)
(* queries, files and outputs: types, all or nothing, and one command for  *)
(* each prompt.                                                            *)
(***************************************************************************)
EXTENDS ConsoleSession, SequenceTheorems, FiniteSetTheorems, TLAPS

\* A set of naturals with an element has a least one.
LEMMA LeastNat ==
  ASSUME NEW T \in SUBSET Nat, T # {}
  PROVE  \E n \in T : \A m \in T : n <= m
<1>1. IsWellFoundedOn(OpToRel(<, Nat), Nat)
  BY NatLessThanWellFounded
<1>2. \A m, n \in Nat : <<m, n>> \in OpToRel(<, Nat) <=> m < n
  BY DEF OpToRel
<1>3. PICK R : IsWellFoundedOn(R, Nat) /\ \A m \in Nat : \A n \in Nat : <<m, n>> \in R <=> m < n
  BY <1>1, <1>2, Zenon
<1>4. T \subseteq Nat
  OBVIOUS
<1>5. \E n \in T : \A m \in T : ~(<<m, n>> \in R)
  <2>1. IsWellFoundedOn(R, Nat)
    BY <1>3, Zenon
  <2>2. ASSUME NEW U, U \subseteq Nat, U # {}
        PROVE  \E x \in U : \A y \in U : ~(<<y, x>> \in R)
    BY ONLY <2>1, <2>2, WFMin, Zenon
  <2> QED BY <1>4, <2>2, Zenon
<1>6. PICK n \in T : \A m \in T : ~(<<m, n>> \in R)
  BY <1>5
<1>7. ASSUME NEW m \in T PROVE n <= m
  <2>1. m \in Nat /\ n \in Nat
    OBVIOUS
  <2>2. ~(m < n)
    BY <1>3, <1>6, <2>1, Zenon
  <2> QED BY <2>1, <2>2
<1> QED BY <1>7

\* The handlers run only after the launch, so that until then, and when the launch has
\* ended the page, no session has sent a line or come to its end.
PageInv ==
  /\ st \in [Slot -> {"none", "resolve", "connect", "reply", "read", "done"}]
  /\ line \in [Slot -> Nat]
  /\ main \in {"launch", "run", "done", "dead"}
  /\ main \in {"launch", "dead"} => \A i \in Slot : line[i] = 0 /\ st[i] # "done"

LEMMA PageInit == Init => PageInv
BY DEF Init, PageInv

LEMMA PageStep == PageInv /\ [Next]_vars => PageInv'
<1> SUFFICES ASSUME PageInv, [Next]_vars PROVE PageInv'
  OBVIOUS
<1> USE DEF PageInv, session, remote
<1>1. CASE UNCHANGED vars
  BY <1>1 DEF vars
<1>2. CASE Launching
  <2>1. CASE Skip \/ Run
    BY <2>1 DEF Skip, Run
  <2>2. CASE NoFile \/ LaunchThrows \/ NoReply
    BY <2>2 DEF NoFile, LaunchThrows, NoReply, Die
  <2>3. CASE Launch
    BY <2>3 DEF Launch, To
  <2>4. CASE ReplyComes
    BY <2>4 DEF ReplyComes, To
  <2> QED BY <1>2, <2>1, <2>2, <2>3, <2>4 DEF Launching
<1>3. CASE Return
  BY <1>3 DEF Return, Running
<1>4. ASSUME NEW i \in Slot, Session(i) \/ OnTimeout(i) PROVE PageInv'
  <2>1. main = "run" /\ UNCHANGED main
    BY <1>4 DEF Session, OnResolve, OnConnect, OnRead, OnEndOfFile, OnTimeout, Running
  <2>2. st' \in [Slot -> {"none", "resolve", "connect", "reply", "read", "done"}]
    BY <1>4 DEF Session, OnResolve, OnConnect, OnRead, OnEndOfFile, OnTimeout, To, Finish
  <2>3. line' \in [Slot -> Nat]
    BY <1>4 DEF Session, OnResolve, OnConnect, OnRead, OnEndOfFile, OnTimeout, Send
  <2> QED BY <2>1, <2>2, <2>3
<1>5. ASSUME NEW i \in Slot, Shell(i) PROVE PageInv'
  BY <1>5 DEF Shell, ShellPrints, ShellReads
<1> QED BY <1>1, <1>2, <1>3, <1>4, <1>5 DEF Next

\* A page that ends because one of its servers or files is not there has sent no
\* command to any of the others.
THEOREM AllOrNothing == Spec => []NoCommandBeforeDeath
<1>1. PageInv => NoCommandBeforeDeath
  BY DEF PageInv, NoCommandBeforeDeath
<1> QED BY <1>1, PageInit, PageStep, PTL DEF Spec

-----------------------------------------------------------------------------
\* The query.

LEMMA FieldType ==
  ASSUME NEW q \in Seq(Parameter), NEW i, NEW letter
  PROVE  Field(q, i, letter) \in Nat
<1> DEFINE G == Given(q, i, letter)
<1>1. CASE G = {}
  BY <1>1 DEF Field
<1>2. CASE G # {}
  <2>1. G \subseteq 1..Len(q) /\ Len(q) \in Nat
    BY DEF Given
  <2>2. Max(G) \in G
    <3>1. \E x \in G : \A y \in G : x >= y
      <4> DEFINE T == {n \in Nat : \A y \in G : n >= y}
      <4>1. T \in SUBSET Nat /\ Len(q) \in T
        BY <2>1
      <4>2. PICK n \in T : \A m \in T : n <= m
        BY <4>1, LeastNat
      <4>3. n \in G
        <5>1. SUFFICES ASSUME n \notin G PROVE FALSE
          OBVIOUS
        <5>2. PICK z \in G : TRUE
          BY <1>2
        <5>3. n > z /\ z >= 1 /\ z \in Nat
          BY <2>1, <4>2, <5>1, <5>2
        <5>4. n - 1 \in Nat /\ \A y \in G : n - 1 >= y
          BY <2>1, <4>2, <5>1, <5>3
        <5>5. n - 1 \in T
          BY <5>4
        <5> QED BY <4>2, <5>5
      <4> QED BY <4>2, <4>3
    <3> QED BY <3>1 DEF Max
  <2>3. q[Max(G)] \in Parameter
    BY <2>1, <2>2
  <2> QED BY <1>2, <2>3 DEF Field, Parameter
<1> QED BY <1>1, <1>2

LEMMA ParsedType ==
  ASSUME NEW q \in Seq(Parameter)
  PROVE  Parsed(q) \in [Slot -> [h : Nat, p : Nat, f : Nat]]
BY FieldType DEF Parsed

-----------------------------------------------------------------------------
\* Types.

SlotCount == Cardinality(Slot)

LEMMA SlotsAre == SlotCount \in Nat /\ Slot = 0..(SlotCount - 1)
BY ConsoleSlotAssumption, FS_CardinalityType DEF SlotCount

HistoryType == history \in [Slot -> [prompts : Nat, fakes : Nat, missed : BOOLEAN]]

TypeInv == TypeOK /\ HistoryType

\* What session i waits for is one of the things its project waits for.
States == {"none", "read", "done"} \cup IF version = 3 THEN {"resolve", "connect"} ELSE {"reply"}

LEMMA PromptsAre ==
  ASSUME NEW s \in Seq(Char)
  PROVE  /\ IsFiniteSet(Prompts(s)) /\ Cardinality(Prompts(s)) \in Nat
         /\ Prompts(s) \subseteq 1..(Len(s) - 1)
<1>1. Prompts(s) \subseteq 1..(Len(s) - 1) /\ Len(s) - 1 \in Int
  BY DEF Prompts
<1>2. IsFiniteSet(1..(Len(s) - 1))
  BY <1>1, FS_Interval
<1>3. IsFiniteSet(Prompts(s))
  BY <1>1, <1>2, FS_Subset
<1> QED BY <1>1, <1>3, FS_CardinalityType

LEMMA TypeInit == Init => TypeInv
<1> SUFFICES ASSUME Init PROVE TypeInv
  OBVIOUS
<1>1. servers \in [Slot -> [h : Nat, p : Nat, f : Nat]]
  BY ParsedType, ConsoleQueryAssumption DEF Init
<1>2. slot \in 0..Cardinality(Slot)
  BY SlotsAre DEF Init, SlotCount
<1>3. HistoryType
  BY DEF Init, HistoryType, NoHistory
<1> QED BY <1>1, <1>2, <1>3 DEF Init, TypeInv, TypeOK

\* A command of shell i runs and prints out.
Printed(i, out) ==
  /\ shell' = [shell EXCEPT ![i] = "print"]
  /\ toPage' = [toPage EXCEPT ![i] = @ \o out]
  /\ history' = [history EXCEPT ![i].fakes = @ + Cardinality(Prompts(out))]

LEMMA ShellReadsIs ==
  ASSUME NEW i, ShellReads(i)
  PROVE  /\ shell[i] = "read" /\ toShell[i] # <<>>
         /\ toShell' = [toShell EXCEPT ![i] = Tail(@)]
         /\ \/ shell' = [shell EXCEPT ![i] = "closed"] /\ UNCHANGED <<toPage, history>>
            \/ \E out \in Outputs : Printed(i, out)
         /\ UNCHANGED <<version, servers, main, slot, st, line>>
<1>1. /\ shell[i] = "read" /\ toShell[i] # <<>>
      /\ toShell' = [toShell EXCEPT ![i] = Tail(@)]
      /\ UNCHANGED <<version, servers, main, slot, session>>
  BY Zenon DEF ShellReads
<1>2. UNCHANGED <<version, servers, main, slot, st, line>>
  BY <1>1 DEF session
<1> QED
  <2>1. \/ shell' = [shell EXCEPT ![i] = "closed"] /\ UNCHANGED <<toPage, history>>
        \/ \E out \in Outputs : Printed(i, out)
    <3>1. Head(toShell[i]) => shell' = [shell EXCEPT ![i] = "closed"] /\ UNCHANGED <<toPage, history>>
      BY Zenon DEF ShellReads
    <3>2. ~Head(toShell[i]) => \E out \in Outputs : Printed(i, out)
      BY Zenon DEF ShellReads, Printed
    <3> QED BY <3>1, <3>2, Zenon
  <2> QED BY <1>1, <1>2, <2>1, Zenon

LEMMA TypeStep == TypeInv /\ [Next]_vars => TypeInv'
<1> SUFFICES ASSUME TypeInv, [Next]_vars PROVE TypeInv'
  OBVIOUS
<1> USE DEF session, remote
<1>1. CASE UNCHANGED vars
  BY <1>1 DEF vars, TypeInv, TypeOK, HistoryType
<1>2. CASE Skip \/ NoFile \/ LaunchThrows \/ NoReply \/ Run \/ Return
  <2>1. CASE UNCHANGED slot
    BY <1>2, <2>1 DEF TypeInv, TypeOK, HistoryType, Skip, NoFile, LaunchThrows, NoReply, Run, Return, Die
  <2>2. CASE Skip
    <3>1. slot' \in 0..Cardinality(Slot)
      BY <2>2, SlotsAre DEF Skip, SlotCount
    <3> QED BY <2>2, <3>1 DEF TypeInv, TypeOK, HistoryType, Skip
  <2> QED BY <1>2, <2>1, <2>2 DEF NoFile, LaunchThrows, NoReply, Run, Return, Die
<1>3. CASE Launch \/ ReplyComes
  <2>1. slot \in Slot /\ (slot' = slot \/ slot' = slot + 1)
    BY <1>3 DEF Launch, ReplyComes
  <2>2. slot' \in 0..Cardinality(Slot)
    BY <2>1, SlotsAre DEF SlotCount
  <2>3. version' = version /\ st' \in [Slot -> States]
    BY SMTT(20), <1>3, <2>1 DEF Launch, ReplyComes, To, Blocking, TypeInv, TypeOK, States
  <2>4. shell' \in [Slot -> {"off", "print", "read", "closed"}]
    BY <1>3 DEF Launch, ReplyComes, TypeInv, TypeOK
  <2>5. UNCHANGED <<servers, main, line, toPage, toShell, history>>
    BY <1>3 DEF Launch, ReplyComes
  <2> QED BY <2>2, <2>3, <2>4, <2>5 DEF TypeInv, TypeOK, HistoryType, States
<1>4. ASSUME NEW i \in Slot, OnResolve(i) \/ OnConnect(i) \/ OnEndOfFile(i) \/ OnTimeout(i)
      PROVE  TypeInv'
  <2>1. version' = version /\ st' \in [Slot -> States]
    BY <1>4 DEF OnResolve, OnConnect, OnEndOfFile, OnTimeout, HasDeadline, To, Finish, TypeInv, TypeOK, States
  <2>2. shell' \in [Slot -> {"off", "print", "read", "closed"}]
    BY <1>4 DEF OnResolve, OnConnect, OnEndOfFile, OnTimeout, TypeInv, TypeOK
  <2>3. UNCHANGED <<servers, main, slot, line, toPage, toShell, history>>
    BY <1>4 DEF OnResolve, OnConnect, OnEndOfFile, OnTimeout
  <2> QED BY <2>1, <2>2, <2>3 DEF TypeInv, TypeOK, HistoryType, States
<1>5. ASSUME NEW i \in Slot, OnRead(i) PROVE TypeInv'
  <2>1. PICK k \in 1..Len(toPage[i]) :
          LET chunk == SubSeq(toPage[i], 1, k)
              rest  == SubSeq(toPage[i], k + 1, Len(toPage[i]))
          IN  /\ toPage' = [toPage EXCEPT ![i] = rest]
              /\ IF Hears(chunk) THEN Send(i) ELSE UNCHANGED <<toShell, line>>
              /\ history' = [history EXCEPT ![i].missed =
                   @ \/ Cardinality(Prompts(chunk)) > 1 \/ k \in Prompts(toPage[i])]
    BY <1>5 DEF OnRead
  <2>2. toPage[i] \in Seq(Char) /\ k \in Nat
    BY DEF TypeInv, TypeOK
  <2>3. SubSeq(toPage[i], k + 1, Len(toPage[i])) \in Seq(Char)
    BY <2>2
  <2>4. toPage' \in [Slot -> Seq(Char)]
    BY <2>1, <2>3 DEF TypeInv, TypeOK
  <2>5. toShell' \in [Slot -> Seq(BOOLEAN)] /\ line' \in [Slot -> Nat]
    <3>1. CASE UNCHANGED <<toShell, line>>
      BY <3>1 DEF TypeInv, TypeOK
    <3>2. CASE Send(i)
      <4>1. IsExit(i, line[i] + 1) \in BOOLEAN
        BY DEF IsExit
      <4> DEFINE e == IsExit(i, line[i] + 1)
      <4> HIDE DEF e
      <4>2. Append(toShell[i], e) \in Seq(BOOLEAN)
        BY <4>1 DEF TypeInv, TypeOK, e
      <4>3. toShell' = [toShell EXCEPT ![i] = Append(toShell[i], e)]
        BY <3>2 DEF Send, e
      <4> QED BY <3>2, <4>2, <4>3 DEF Send, TypeInv, TypeOK
    <3> QED BY <2>1, <3>1, <3>2
  <2>6. HistoryType'
    BY <2>1 DEF TypeInv, HistoryType
  <2>7. UNCHANGED <<version, servers, main, slot, st, shell>>
    BY <1>5 DEF OnRead
  <2> QED BY <2>4, <2>5, <2>6, <2>7 DEF TypeInv, TypeOK
<1>6. ASSUME NEW i \in Slot, ShellPrints(i) PROVE TypeInv'
  <2>1. toPage[i] \in Seq(Char) /\ <<"percent", "blank">> \in Seq(Char)
    BY DEF TypeInv, TypeOK, Char
  <2>2. toPage[i] \o <<"percent", "blank">> \in Seq(Char)
    BY <2>1
  <2>3. toPage' \in [Slot -> Seq(Char)]
    BY <1>6, <2>2 DEF ShellPrints, TypeInv, TypeOK
  <2>4. HistoryType'
    <3>1. history' = [history EXCEPT ![i].prompts = @ + 1]
      BY <1>6 DEF ShellPrints
    <3> QED BY <3>1 DEF TypeInv, HistoryType
  <2> QED BY <1>6, <2>3, <2>4 DEF ShellPrints, TypeInv, TypeOK
<1>7. ASSUME NEW i \in Slot, ShellReads(i) PROVE TypeInv'
  <2>1. toShell' \in [Slot -> Seq(BOOLEAN)]
    <3>1. toShell[i] \in Seq(BOOLEAN) /\ toShell[i] # <<>>
      BY <1>7, ShellReadsIs DEF TypeInv, TypeOK
    <3>2. Tail(toShell[i]) \in Seq(BOOLEAN)
      BY ONLY <3>1, HeadTailProperties, Zenon
    <3>3. toShell' = [toShell EXCEPT ![i] = Tail(@)]
      BY <1>7, ShellReadsIs
    <3> QED BY <3>2, <3>3 DEF TypeInv, TypeOK
  <2>2. toPage' \in [Slot -> Seq(Char)] /\ HistoryType'
    <3>1. CASE UNCHANGED <<toPage, history>>
      BY <3>1 DEF TypeInv, TypeOK, HistoryType
    <3>2. ASSUME NEW out \in Outputs, Printed(i, out)
          PROVE  toPage' \in [Slot -> Seq(Char)] /\ HistoryType'
      <4>1. out \in Seq(Char) /\ toPage[i] \in Seq(Char)
        BY ConsoleOutputAssumption DEF TypeInv, TypeOK
      <4>2. toPage[i] \o out \in Seq(Char)
        BY <4>1
      <4>3. Cardinality(Prompts(out)) \in Nat
        BY <4>1, PromptsAre
      <4>4. HistoryType'
        <5> DEFINE n == Cardinality(Prompts(out))
        <5> HIDE DEF n
        <5>1. n \in Nat /\ history' = [history EXCEPT ![i].fakes = @ + n]
          BY <3>2, <4>3 DEF Printed, n
        <5> QED BY <5>1 DEF TypeInv, HistoryType
      <4> QED BY <3>2, <4>2, <4>4 DEF TypeInv, TypeOK, Printed
    <3> QED BY <1>7, <3>1, <3>2, ShellReadsIs
  <2>3. UNCHANGED <<version, servers, main, slot, st, line>>
        /\ shell' \in [Slot -> {"off", "print", "read", "closed"}]
    <3>1. shell' = [shell EXCEPT ![i] = "closed"] \/ shell' = [shell EXCEPT ![i] = "print"]
      BY <1>7, ShellReadsIs DEF Printed
    <3> QED BY <1>7, <3>1, ShellReadsIs DEF TypeInv, TypeOK
  <2> QED BY <2>1, <2>2, <2>3 DEF TypeInv, TypeOK
<1> QED BY <1>1, <1>2, <1>3, <1>4, <1>5, <1>6, <1>7 DEF Next, Launching, Session, Shell

LEMMA TypeAlways == Spec => []TypeInv
BY TypeInit, TypeStep, PTL DEF Spec

\* The types hold for every number of slots, all queries, files and outputs.
THEOREM ConsoleTypesCorrect == Spec => []TypeOK
<1>1. TypeInv => TypeOK
  BY DEF TypeInv
<1> QED BY <1>1, TypeAlways, PTL

-----------------------------------------------------------------------------
\* Counting prompts.

\* The prompts of a text are those of its two parts, and one that is cut in two.
LEMMA SplitCount ==
  ASSUME NEW u \in Seq(Char), NEW k \in 0..Len(u)
  PROVE  Cardinality(Prompts(u)) =
           Cardinality(Prompts(SubSeq(u, 1, k))) + Cardinality(Prompts(SubSeq(u, k + 1, Len(u))))
           + (IF k \in Prompts(u) THEN 1 ELSE 0)
<1> DEFINE s == SubSeq(u, 1, k)
           t == SubSeq(u, k + 1, Len(u))
           L == {j \in Prompts(u) : j < k}
           R == {j \in Prompts(u) : j > k}
           M == Prompts(u) \cap {k}
<1>0. Len(u) \in Nat /\ k \in Nat /\ k <= Len(u)
  OBVIOUS
<1>1. s \in Seq(Char) /\ Len(s) = k /\ \A j \in 1..k : s[j] = u[j]
  <2>1. 1 \in 1..(Len(u) + 1)
    BY <1>0
  <2> QED BY <1>0, <2>1, SubSeqProperties
<1>2. t \in Seq(Char) /\ Len(t) = Len(u) - k /\ \A j \in 1..(Len(u) - k) : t[j] = u[k + j]
  <2>1. k + 1 \in 1..(Len(u) + 1)
    BY <1>0
  <2> QED BY <1>0, <2>1, SubSeqProperties
<1> HIDE DEF s, t
<1>3. Prompts(s) = L
  BY <1>0, <1>1 DEF Prompts
<1>4. Cardinality(R) = Cardinality(Prompts(t))
  <2> DEFINE f == [j \in Prompts(t) |-> k + j]
  <2>1. ASSUME NEW j \in Prompts(t) PROVE k + j \in R
    <3>1. j \in 1..(Len(t) - 1) /\ t[j] = "percent" /\ t[j + 1] = "blank"
      BY DEF Prompts
    <3>2. j \in Nat /\ j >= 1 /\ j <= Len(u) - k - 1
      BY <1>0, <1>2, <3>1
    <3>3. u[k + j] = "percent" /\ u[(k + j) + 1] = "blank"
      <4>1. j \in 1..(Len(u) - k) /\ j + 1 \in 1..(Len(u) - k) /\ k + (j + 1) = (k + j) + 1
        BY <1>0, <3>2
      <4> QED BY <1>2, <3>1, <4>1
    <3>4. k + j \in 1..(Len(u) - 1) /\ k + j > k
      BY <1>0, <3>2
    <3> QED BY <3>3, <3>4 DEF Prompts
  <2>2. ASSUME NEW r \in R PROVE r - k \in Prompts(t) /\ k + (r - k) = r
    <3>1. r \in 1..(Len(u) - 1) /\ u[r] = "percent" /\ u[r + 1] = "blank" /\ r > k
      BY DEF Prompts
    <3>2. r \in Nat /\ r - k \in 1..(Len(t) - 1) /\ k + (r - k) = r
      BY <1>0, <1>2, <3>1
    <3>3. t[r - k] = "percent" /\ t[(r - k) + 1] = "blank"
      <4>1. /\ r - k \in 1..(Len(u) - k) /\ (r - k) + 1 \in 1..(Len(u) - k)
            /\ k + (r - k) = r /\ k + ((r - k) + 1) = r + 1
        BY <1>0, <1>2, <3>1
      <4> QED BY <1>2, <3>1, <4>1
    <3> QED BY <3>2, <3>3 DEF Prompts
  <2>3. \A j \in Prompts(t) : j \in Nat
    BY DEF Prompts
  <2>4. f \in Bijection(Prompts(t), R)
    <3>1. f \in [Prompts(t) -> R]
      BY <2>1
    <3>2. \A a, b \in Prompts(t) : f[a] = f[b] => a = b
      BY <1>0, <2>3
    <3>3. \A r \in R : \E j \in Prompts(t) : f[j] = r
      BY <2>2
    <3> HIDE DEF f, R
    <3> QED BY <3>1, <3>2, <3>3 DEF Bijection, Injection, Surjection, IsInjective
  <2>5. ExistsBijection(Prompts(t), R)
    BY <2>4 DEF ExistsBijection
  <2> QED BY <1>2, <2>5, PromptsAre, FS_Bijection
<1>5. IsFiniteSet(Prompts(u)) /\ Cardinality(Prompts(u)) \in Nat
      /\ \A j \in Prompts(u) : j \in Nat
  <2>1. \A j \in Prompts(u) : j \in Nat
    BY DEF Prompts
  <2> QED BY <2>1, PromptsAre
<1>6. IsFiniteSet(L) /\ IsFiniteSet(R) /\ IsFiniteSet(M) /\ IsFiniteSet(L \cup R)
  <2>1. L \in SUBSET Prompts(u) /\ R \in SUBSET Prompts(u) /\ M \in SUBSET Prompts(u)
        /\ L \cup R \in SUBSET Prompts(u)
    OBVIOUS
  <2> HIDE DEF L, R, M
  <2> QED BY <1>5, <2>1, FS_Subset
<1>7. Prompts(u) = (L \cup R) \cup M /\ L \cap R = {} /\ (L \cup R) \cap M = {}
  BY <1>0, <1>5
<1>8. Cardinality(M) = IF k \in Prompts(u) THEN 1 ELSE 0
  <2>1. CASE k \in Prompts(u)
    <3>1. M = {k}
      BY <2>1
    <3> QED BY <2>1, <3>1, FS_Singleton
  <2>2. CASE k \notin Prompts(u)
    <3>1. M = {}
      BY <2>2
    <3> QED BY <2>2, <3>1, FS_EmptySet
  <2> QED BY <2>1, <2>2
<1> HIDE DEF L, R, M
<1>9. Cardinality(L) \in Nat /\ Cardinality(R) \in Nat /\ Cardinality(M) \in Nat
      /\ Cardinality(L \cup R) \in Nat
  BY <1>6, FS_CardinalityType
<1>10. Cardinality(L \cup R) = Cardinality(L) + Cardinality(R)
  <2>1. Cardinality(L \cup R) = Cardinality(L) + Cardinality(R) - Cardinality(L \cap R)
    BY <1>6, FS_Union
  <2>2. Cardinality(L \cap R) = 0
    BY <1>7, FS_EmptySet
  <2> QED BY <1>9, <2>1, <2>2
<1>11. Cardinality(Prompts(u)) = Cardinality(L \cup R) + Cardinality(M)
  <2>1. Cardinality((L \cup R) \cup M)
          = Cardinality(L \cup R) + Cardinality(M) - Cardinality((L \cup R) \cap M)
    BY <1>6, FS_Union
  <2>2. Cardinality((L \cup R) \cap M) = 0
    BY <1>7, FS_EmptySet
  <2> QED BY <1>7, <1>9, <2>1, <2>2
<1>12. Cardinality(Prompts(u)) = Cardinality(Prompts(s)) + Cardinality(Prompts(t)) + Cardinality(M)
  BY <1>3, <1>4, <1>9, <1>10, <1>11
<1> QED BY <1>8, <1>12 DEF s, t

\* A text that does not begin with a blank, or follows one that does not end in a
\* percent, adds its own prompts.
LEMMA JoinCount ==
  ASSUME NEW s \in Seq(Char), NEW t \in Seq(Char),
         s # <<>> => s[Len(s)] = "blank" \/ (t # <<>> => t[1] = "percent")
  PROVE  Cardinality(Prompts(s \o t)) = Cardinality(Prompts(s)) + Cardinality(Prompts(t))
<1> DEFINE u == s \o t
           k == Len(s)
<1>1. /\ u \in Seq(Char) /\ Len(u) = Len(s) + Len(t) /\ Len(s) \in Nat /\ Len(t) \in Nat
      /\ (\A j \in 1..Len(s) : u[j] = s[j]) /\ (\A j \in 1..Len(t) : u[Len(s) + j] = t[j])
  BY ConcatProperties
<1> HIDE DEF u
<1>2. k \in 0..Len(u)
  BY <1>1
<1>3. SubSeq(u, 1, k) = s
  <2>1. 1 \in 1..(Len(u) + 1)
    BY <1>1
  <2>2. /\ SubSeq(u, 1, k) \in Seq(Char) /\ Len(SubSeq(u, 1, k)) = k
        /\ \A j \in 1..k : SubSeq(u, 1, k)[j] = u[j]
    BY <1>1, <2>1, SubSeqProperties
  <2> QED BY <1>1, <2>2, SeqEqual
<1>4. SubSeq(u, k + 1, Len(u)) = t
  <2>1. k + 1 \in 1..(Len(u) + 1)
    BY <1>1
  <2>2. /\ SubSeq(u, k + 1, Len(u)) \in Seq(Char) /\ Len(SubSeq(u, k + 1, Len(u))) = Len(t)
        /\ \A j \in 1..Len(t) : SubSeq(u, k + 1, Len(u))[j] = u[k + j]
    BY <1>1, <2>1, SubSeqProperties
  <2> QED BY <1>1, <2>2, SeqEqual
<1>5. k \notin Prompts(u)
  <2>1. SUFFICES ASSUME k \in Prompts(u) PROVE FALSE
    OBVIOUS
  <2>2. k >= 1 /\ k <= Len(u) - 1 /\ u[k] = "percent" /\ u[k + 1] = "blank"
    BY <1>1, <2>1 DEF Prompts
  <2>3. s # <<>> /\ t # <<>> /\ s[Len(s)] = "percent" /\ t[1] = "blank"
    BY <1>1, <2>2
  <2> QED BY <2>3
<1>6. Cardinality(Prompts(s)) \in Nat /\ Cardinality(Prompts(t)) \in Nat
  BY PromptsAre
<1>7. Cardinality(Prompts(u)) = Cardinality(Prompts(s)) + Cardinality(Prompts(t))
                                + (IF k \in Prompts(u) THEN 1 ELSE 0)
  BY <1>1, <1>2, <1>3, <1>4, SplitCount
<1> QED BY <1>5, <1>6, <1>7 DEF u

-----------------------------------------------------------------------------
\* One command for each prompt.

\* Prompts on their way to session i.
Ahead(i) == Cardinality(Prompts(toPage[i]))

Asked(i) == history[i].prompts + history[i].fakes

\* Early: a session that has not heard of its shell.
Early == {"none", "resolve", "connect", "reply"}

\* Each prompt of shell i has been answered, missed, or is on its way, whatever became
\* of the session; and if no command printed "% ", only a shell that reads has been
\* prompted and not read the answer: there is one prompt, or one answer, for it.  What
\* it prints next cannot be the blank of a prompt that was cut in two.
AskedOf(i) ==
  /\ line[i] + Ahead(i) <= Asked(i)
  /\ ~history[i].missed => line[i] + Ahead(i) = Asked(i)
  /\ history[i].fakes = 0 => Len(toShell[i]) + Ahead(i) <= IF shell[i] = "read" THEN 1 ELSE 0
  /\ shell[i] = "off" => toPage[i] = <<>> /\ toShell[i] = <<>>
  /\ shell[i] = "read" /\ toPage[i] # <<>> => toPage[i][Len(toPage[i])] = "blank"
  /\ st[i] \in Early => shell[i] = "off"

AskInv == \A i \in Slot : AskedOf(i)

\* The types of what a session has to do with its shell.
LEMMA SessionTypes ==
  ASSUME TypeInv, NEW i \in Slot
  PROVE  /\ line[i] \in Nat /\ Ahead(i) \in Nat
         /\ history[i].prompts \in Nat /\ history[i].fakes \in Nat /\ Asked(i) \in Nat
         /\ toPage[i] \in Seq(Char) /\ toShell[i] \in Seq(BOOLEAN) /\ Len(toShell[i]) \in Nat
<1>1. toPage[i] \in Seq(Char) /\ toShell[i] \in Seq(BOOLEAN) /\ line[i] \in Nat
  BY DEF TypeInv, TypeOK
<1>2. history[i].prompts \in Nat /\ history[i].fakes \in Nat
  BY DEF TypeInv, HistoryType
<1>3. Ahead(i) \in Nat
  BY <1>1, PromptsAre DEF Ahead
<1>4. Len(toShell[i]) \in Nat
  BY <1>1, LenProperties
<1>5. Asked(i) \in Nat
  BY <1>2 DEF Asked
<1> QED BY <1>1, <1>2, <1>3, <1>4, <1>5

\* What was asked and what was answered, in numbers.
LEMMA AskedNumbers ==
  ASSUME AskInv, NEW i \in Slot
  PROVE  /\ line[i] + Ahead(i) <= Asked(i)
         /\ ~history[i].missed => line[i] + Ahead(i) = Asked(i)
BY DEF AskInv, AskedOf

LEMMA NoPrompts == Cardinality(Prompts(<<>>)) = 0
<1>1. Prompts(<<>>) = {}
  BY DEF Prompts
<1> QED BY <1>1, FS_EmptySet

\* A session whose shell and line are as they were.
LEMMA AskedKept ==
  ASSUME NEW i \in Slot, AskedOf(i), line'[i] = line[i], shell'[i] = shell[i],
         toPage'[i] = toPage[i], toShell'[i] = toShell[i], history'[i] = history[i],
         st'[i] \in Early => st[i] \in Early
  PROVE  AskedOf(i)'
BY DEF AskedOf, Ahead, Asked

\* A shell answers a session.
LEMMA AskedStarts ==
  ASSUME TypeInv, NEW i \in Slot, AskedOf(i), line'[i] = line[i], shell[i] = "off",
         shell'[i] \in {"print", "closed"}, st'[i] \notin Early,
         toPage'[i] = toPage[i], toShell'[i] = toShell[i], history'[i] = history[i]
  PROVE  AskedOf(i)'
<1>1. Ahead(i)' = Ahead(i) /\ Asked(i)' = Asked(i) /\ toPage[i] = <<>>
  BY DEF AskedOf, Ahead, Asked
<1> QED BY <1>1 DEF AskedOf

LEMMA AskStep == TypeInv /\ AskInv /\ [Next]_vars => AskInv'
<1> SUFFICES ASSUME TypeInv, AskInv, [Next]_vars PROVE AskInv'
  OBVIOUS
<1> USE DEF session, remote
<1>1. \A j \in Slot : AskedOf(j)
  BY DEF AskInv
<1>2. CASE /\ UNCHANGED <<line, shell, toPage, toShell, history>>
           /\ \A j \in Slot : st'[j] \in Early => st[j] \in Early
  BY <1>1, <1>2, AskedKept DEF AskInv
<1>3. CASE UNCHANGED vars
  BY <1>2, <1>3 DEF vars
<1>4. CASE Skip \/ NoFile \/ LaunchThrows \/ NoReply \/ Run \/ Return
  BY <1>2, <1>4 DEF Skip, NoFile, LaunchThrows, NoReply, Run, Return, Die
<1>5. CASE Launch
  <2>1. \A j \in Slot : st'[j] \in Early => st[j] \in Early
    BY <1>5 DEF Launch, To, Early, TypeInv, TypeOK
  <2> QED BY <1>2, <1>5, <2>1 DEF Launch
<1>6. ASSUME NEW i \in Slot, OnResolve(i) \/ OnEndOfFile(i) \/ OnTimeout(i) PROVE AskInv'
  <2>1. \A j \in Slot : st'[j] \in Early => st[j] \in Early
    BY <1>6 DEF OnResolve, OnEndOfFile, OnTimeout, To, Finish, Early, TypeInv, TypeOK
  <2> QED BY <1>2, <1>6, <2>1 DEF OnResolve, OnEndOfFile, OnTimeout
\* Shell i answers.
<1>7. ASSUME NEW i \in Slot, st[i] \in Early, st' = [st EXCEPT ![i] = "read"],
             NEW s \in {"print", "closed"}, shell' = [shell EXCEPT ![i] = s],
             UNCHANGED <<line, toPage, toShell, history>>
      PROVE  AskInv'
  <2>1. shell[i] = "off" /\ shell'[i] = s /\ st'[i] = "read"
    BY <1>1, <1>7 DEF AskedOf, TypeInv, TypeOK
  <2>2. AskedOf(i)'
    BY <1>1, <1>7, <2>1, AskedStarts DEF Early
  <2>3. ASSUME NEW j \in Slot, j # i PROVE AskedOf(j)'
    BY <1>1, <1>7, <2>3, AskedKept DEF TypeInv, TypeOK
  <2> QED BY <2>2, <2>3 DEF AskInv
<1>8. CASE ReplyComes
  BY <1>7, <1>8 DEF ReplyComes, To, Early
<1>9. ASSUME NEW i \in Slot, OnConnect(i) PROVE AskInv'
  <2>1. CASE Finish(i) /\ UNCHANGED shell
    <3>1. \A j \in Slot : st'[j] \in Early => st[j] \in Early
      BY <2>1 DEF Finish, To, Early, TypeInv, TypeOK
    <3> QED BY <1>2, <1>9, <2>1, <3>1 DEF OnConnect
  <2>2. CASE To(i, "read") /\ shell' = [shell EXCEPT ![i] = "print"]
    BY <1>7, <1>9, <2>2 DEF OnConnect, To, Early
  <2> QED BY <1>9, <2>1, <2>2 DEF OnConnect
\* The session reads: what it answers was ahead of it.
<1>10. ASSUME NEW i \in Slot, OnRead(i) PROVE AskInv'
  <2> DEFINE u == toPage[i]
  <2>1. PICK k \in 1..Len(u) :
          LET chunk == SubSeq(u, 1, k)
              rest  == SubSeq(u, k + 1, Len(u))
          IN  /\ toPage' = [toPage EXCEPT ![i] = rest]
              /\ IF Hears(chunk) THEN Send(i) ELSE UNCHANGED <<toShell, line>>
              /\ history' = [history EXCEPT ![i].missed =
                   @ \/ Cardinality(Prompts(chunk)) > 1 \/ k \in Prompts(u)]
    BY <1>10 DEF OnRead
  <2> DEFINE chunk == SubSeq(u, 1, k)
             rest == SubSeq(u, k + 1, Len(u))
             n == Cardinality(Prompts(chunk))
             cut == IF k \in Prompts(u) THEN 1 ELSE 0
  <2>2. UNCHANGED <<st, shell>>
    BY <1>10 DEF OnRead
  <2>3. /\ u \in Seq(Char) /\ Len(u) \in Nat /\ k \in Nat /\ 1 <= k /\ k <= Len(u)
        /\ chunk \in Seq(Char) /\ rest \in Seq(Char)
        /\ IsFiniteSet(Prompts(chunk)) /\ n \in Nat /\ Cardinality(Prompts(rest)) \in Nat
    <3>1. u \in Seq(Char) /\ k \in Nat
      BY DEF TypeInv, TypeOK
    <3>2. chunk \in Seq(Char) /\ rest \in Seq(Char)
      BY <3>1
    <3>3. IsFiniteSet(Prompts(chunk)) /\ n \in Nat /\ Cardinality(Prompts(rest)) \in Nat
      BY <3>2, PromptsAre
    <3>4. Len(u) \in Nat /\ 1 <= k /\ k <= Len(u)
      BY <3>1
    <3> HIDE DEF u, chunk, rest, n
    <3> QED BY <3>1, <3>2, <3>3, <3>4
  <2>4. Ahead(i) = n + Cardinality(Prompts(rest)) + cut
    <3>1. k \in 0..Len(u)
      BY <2>3
    <3> QED BY <2>3, <3>1, SplitCount DEF Ahead
  <2>5. Hears(chunk) <=> n > 0
    BY <2>3, FS_EmptySet DEF Hears
  <2>6. toPage'[i] = rest /\ Ahead(i)' = Cardinality(Prompts(rest))
    BY <2>1 DEF TypeInv, TypeOK, Ahead
  <2>7. /\ history'[i].prompts = history[i].prompts /\ history'[i].fakes = history[i].fakes
        /\ history'[i].missed <=> (history[i].missed \/ n > 1 \/ k \in Prompts(u))
    <3>1. history[i] \in [prompts : Nat, fakes : Nat, missed : BOOLEAN] /\ history \in [Slot -> [prompts : Nat, fakes : Nat, missed : BOOLEAN]]
      BY DEF TypeInv, HistoryType
    <3> DEFINE now == history[i].missed \/ n > 1 \/ k \in Prompts(u)
    <3>2. history' = [history EXCEPT ![i].missed = now]
      BY <2>1
    <3> HIDE DEF now
    <3>3. history'[i].prompts = history[i].prompts /\ history'[i].fakes = history[i].fakes
          /\ (history'[i].missed <=> now)
      BY <3>1, <3>2
    <3> QED BY <3>3 DEF now
  <2>8. \/ n > 0 /\ line'[i] = line[i] + 1 /\ Len(toShell'[i]) = Len(toShell[i]) + 1 /\ toShell'[i] # <<>>
        \/ n = 0 /\ line'[i] = line[i] /\ toShell'[i] = toShell[i]
    <3>1. CASE n > 0
      <4> DEFINE e == IsExit(i, line[i] + 1)
      <4>1. e \in BOOLEAN
        BY DEF IsExit
      <4>2. Send(i)
        BY <2>1, <2>5, <3>1
      <4> HIDE DEF n
      <4>3. line' = [line EXCEPT ![i] = @ + 1] /\ toShell' = [toShell EXCEPT ![i] = Append(@, e)]
        BY <4>2 DEF Send
      <4> HIDE DEF e
      <4>4. line'[i] = line[i] + 1 /\ toShell'[i] = Append(toShell[i], e)
        BY <4>3 DEF TypeInv, TypeOK
      <4>5. toShell[i] \in Seq(BOOLEAN)
        BY DEF TypeInv, TypeOK
      <4>6. Len(Append(toShell[i], e)) = Len(toShell[i]) + 1 /\ Append(toShell[i], e) # <<>>
        BY <4>1, <4>5, AppendProperties
      <4> QED BY <3>1, <4>4, <4>6
    <3>2. CASE ~(n > 0)
      BY <2>1, <2>3, <2>5, <3>2
    <3> QED BY <3>1, <3>2
  <2>9. AskedOf(i)'
    <3> HIDE DEF n, cut, u, chunk, rest
    <3>1. /\ line[i] \in Nat /\ Ahead(i) \in Nat /\ Asked(i) \in Nat /\ Len(toShell[i]) \in Nat
          /\ history[i].fakes \in Nat
      BY SessionTypes
    <3>2. Asked(i)' = Asked(i)
      BY <2>7 DEF Asked
    <3>3. cut \in {0, 1} /\ (k \in Prompts(u) <=> cut = 1)
      BY DEF cut
    <3> DEFINE r == Cardinality(Prompts(rest))
    <3>10. n \in Nat /\ r \in Nat /\ Ahead(i) = n + r + cut /\ Ahead(i)' = r
      BY <2>3, <2>4, <2>6
    <3>11. \/ n > 0 /\ line'[i] = line[i] + 1 /\ Len(toShell'[i]) = Len(toShell[i]) + 1
           \/ n = 0 /\ line'[i] = line[i] /\ Len(toShell'[i]) = Len(toShell[i])
      BY <2>8
    <3> HIDE DEF r
    <3>4. line'[i] + Ahead(i)' <= Asked(i)'
      <4>1. line[i] + Ahead(i) <= Asked(i)
        BY AskedNumbers
      <4> QED BY ONLY <3>1, <3>2, <3>3, <3>10, <3>11, <4>1
    <3>5. ~history'[i].missed => line'[i] + Ahead(i)' = Asked(i)'
      <4>1. SUFFICES ASSUME ~history'[i].missed PROVE line'[i] + Ahead(i)' = Asked(i)'
        OBVIOUS
      <4>2. ~history[i].missed /\ ~(n > 1) /\ cut = 0
        BY <2>7, <3>3, <4>1
      <4>3. line[i] + Ahead(i) = Asked(i)
        BY <4>2, AskedNumbers
      <4> QED BY ONLY <3>1, <3>2, <3>10, <3>11, <4>2, <4>3
    <3>6. history'[i].fakes = 0 =>
            Len(toShell'[i]) + Ahead(i)' <= IF shell'[i] = "read" THEN 1 ELSE 0
      <4>1. SUFFICES ASSUME history'[i].fakes = 0
                     PROVE  Len(toShell'[i]) + Ahead(i)' <= IF shell'[i] = "read" THEN 1 ELSE 0
        OBVIOUS
      <4>2. history[i].fakes = 0
        BY <2>7, <4>1
      <4>3. Len(toShell[i]) + Ahead(i) <= IF shell[i] = "read" THEN 1 ELSE 0
        BY <1>1, <4>2 DEF AskedOf
      <4>4. shell'[i] = shell[i]
        BY <2>2
      <4>5. Len(toShell'[i]) + Ahead(i)' <= Len(toShell[i]) + Ahead(i)
            /\ Len(toShell'[i]) + Ahead(i)' \in Nat
        <5> DEFINE m == Len(toShell[i])
                   now == Len(toShell'[i])
        <5>1. m \in Nat /\ ((now = m + 1 /\ n > 0) \/ (now = m /\ n = 0))
          BY <3>1, <3>11, Zenon
        <5> HIDE DEF m, now
        <5>2. now + Ahead(i)' <= m + Ahead(i) /\ now + Ahead(i)' \in Nat
          BY ONLY <5>1, <3>3, <3>10
        <5> QED BY <5>2 DEF m, now
      <4> QED BY ONLY <3>1, <4>3, <4>4, <4>5
    <3>7. shell'[i] # "off"
      <4>1. u # <<>>
        BY <2>3
      <4> QED BY <1>1, <2>2, <4>1 DEF AskedOf, u
    <3>8. shell'[i] = "read" /\ toPage'[i] # <<>> => toPage'[i][Len(toPage'[i])] = "blank"
      <4>1. SUFFICES ASSUME shell'[i] = "read", rest # <<>> PROVE rest[Len(rest)] = "blank"
        BY <2>6
      <4>2. /\ Len(rest) = Len(u) - k /\ (\A j \in 1..(Len(u) - k) : rest[j] = u[k + j])
        <5>1. k + 1 \in 1..(Len(u) + 1)
          BY <2>3
        <5> QED BY <2>3, <5>1, SubSeqProperties DEF rest
      <4>3. Len(u) - k \in 1..(Len(u) - k) /\ k + (Len(u) - k) = Len(u)
        BY <2>3, <4>1, <4>2
      <4>4. u # <<>> /\ u[Len(u)] = "blank"
        <5>1. u # <<>>
          BY <2>3
        <5> QED BY <1>1, <2>2, <4>1, <5>1 DEF AskedOf, u
      <4> QED BY <4>2, <4>3, <4>4
    <3>9. st'[i] \in Early => shell'[i] = "off"
      BY <1>1, <2>2 DEF AskedOf
    <3> QED BY <3>4, <3>5, <3>6, <3>7, <3>8, <3>9 DEF AskedOf
  <2>10. ASSUME NEW j \in Slot, j # i PROVE AskedOf(j)'
    <3>1. line'[j] = line[j] /\ toShell'[j] = toShell[j]
      BY <2>1, <2>10 DEF Send, TypeInv, TypeOK
    <3>2. toPage'[j] = toPage[j]
      BY <2>1, <2>10 DEF TypeInv, TypeOK
    <3>3. history'[j] = history[j]
      BY <2>1, <2>10 DEF TypeInv, HistoryType
    <3> QED BY <1>1, <2>2, <3>1, <3>2, <3>3, AskedKept
  <2> QED BY <2>9, <2>10 DEF AskInv
\* The shell prompts.
<1>11. ASSUME NEW i \in Slot, ShellPrints(i) PROVE AskInv'
  <2> DEFINE u == toPage[i]
             ask == <<"percent", "blank">>
  <2>1. /\ shell[i] = "print" /\ UNCHANGED <<st, line, toShell>>
        /\ toPage' = [toPage EXCEPT ![i] = @ \o ask]
        /\ shell' = [shell EXCEPT ![i] = "read"]
        /\ history' = [history EXCEPT ![i].prompts = @ + 1]
    BY <1>11 DEF ShellPrints
  <2>2. u \in Seq(Char) /\ ask \in Seq(Char) /\ Len(ask) = 2 /\ ask[1] = "percent" /\ ask[2] = "blank"
    BY DEF TypeInv, TypeOK, Char
  <2>3. Cardinality(Prompts(ask)) = 1
    <3>1. Prompts(ask) = {1}
      <4>1. Len(ask) - 1 = 1
        BY <2>2
      <4>2. 1..(Len(ask) - 1) = {1}
        BY <4>1
      <4> HIDE DEF ask
      <4>3. 1 + 1 = 2
        OBVIOUS
      <4> QED BY <2>2, <4>2, <4>3 DEF Prompts
    <3> QED BY <3>1, FS_Singleton
  <2> HIDE DEF ask
  <2>4. toPage'[i] = u \o ask /\ shell'[i] = "read"
    BY <2>1 DEF TypeInv, TypeOK
  <2>5. Ahead(i)' = Ahead(i) + 1
    BY <2>2, <2>3, <2>4, JoinCount DEF Ahead
  <2>6. /\ history'[i].prompts = history[i].prompts + 1 /\ history'[i].fakes = history[i].fakes
        /\ history'[i].missed <=> history[i].missed
    BY <2>1 DEF TypeInv, HistoryType
  <2>7. toPage'[i][Len(toPage'[i])] = "blank"
    <3>1. Len(u \o ask) = Len(u) + 2 /\ Len(u) \in Nat /\ (u \o ask)[Len(u) + 2] = ask[2]
      <4>1. Len(u) \in Nat
        BY <2>2
      <4>2. /\ Len(u \o ask) = Len(u) + Len(ask)
            /\ \A j \in 1..(Len(u) + Len(ask)) :
                 (u \o ask)[j] = IF j <= Len(u) THEN u[j] ELSE ask[j - Len(u)]
        BY ONLY <2>2, ConcatProperties, Zenon
      <4>3. Len(u) + 2 \in 1..(Len(u) + Len(ask)) /\ ~(Len(u) + 2 <= Len(u)) /\ (Len(u) + 2) - Len(u) = 2
        BY <2>2, <4>1
      <4> QED BY <2>2, <4>1, <4>2, <4>3
    <3> QED BY <2>2, <2>4, <3>1
  <2>8. AskedOf(i)'
    <3> HIDE DEF u
    <3>1. /\ line[i] \in Nat /\ Ahead(i) \in Nat /\ Asked(i) \in Nat /\ Len(toShell[i]) \in Nat
          /\ history[i].fakes \in Nat /\ history[i].prompts \in Nat
      BY SessionTypes
    <3>2. Asked(i)' = Asked(i) + 1
      <4>1. history'[i].prompts = history[i].prompts + 1 /\ history'[i].fakes = history[i].fakes
        BY <2>6
      <4> QED BY <3>1, <4>1 DEF Asked
    <3>3. line'[i] = line[i] /\ toShell'[i] = toShell[i] /\ st'[i] = st[i]
      BY <2>1
    <3>4. line'[i] + Ahead(i)' <= Asked(i)'
      BY <2>5, <3>1, <3>2, <3>3, AskedNumbers
    <3>5. ~history'[i].missed => line'[i] + Ahead(i)' = Asked(i)'
      <4>1. ~history'[i].missed => line[i] + Ahead(i) = Asked(i)
        BY <2>6, AskedNumbers
      <4> QED BY <2>5, <3>1, <3>2, <3>3, <4>1
    <3>6. history'[i].fakes = 0 =>
            Len(toShell'[i]) + Ahead(i)' <= IF shell'[i] = "read" THEN 1 ELSE 0
      BY SMTT(20), <1>1, <2>1, <2>4, <2>5, <2>6, <3>1, <3>3 DEF AskedOf
    <3>7. st'[i] \notin Early
      BY <1>1, <2>1, <3>3 DEF AskedOf
    <3> QED BY <2>4, <2>7, <3>4, <3>5, <3>6, <3>7 DEF AskedOf
  <2>9. ASSUME NEW j \in Slot, j # i PROVE AskedOf(j)'
    <3>1. toPage'[j] = toPage[j] /\ shell'[j] = shell[j]
      BY <2>1, <2>9 DEF TypeInv, TypeOK
    <3>2. history'[j] = history[j]
      BY <2>1, <2>9 DEF TypeInv, HistoryType
    <3> QED BY <1>1, <2>1, <3>1, <3>2, AskedKept
  <2> QED BY <2>8, <2>9 DEF AskInv
\* The shell takes a command, and prints.
<1>12. ASSUME NEW i \in Slot, ShellReads(i) PROVE AskInv'
  <2> DEFINE u == toPage[i]
  <2>1. /\ shell[i] = "read" /\ toShell[i] # <<>> /\ UNCHANGED <<st, line>>
        /\ toShell' = [toShell EXCEPT ![i] = Tail(@)]
        /\ \/ shell' = [shell EXCEPT ![i] = "closed"] /\ UNCHANGED <<toPage, history>>
           \/ \E out \in Outputs : Printed(i, out)
    BY <1>12, ShellReadsIs
  <2>2. /\ line[i] \in Nat /\ Ahead(i) \in Nat /\ Asked(i) \in Nat /\ Len(toShell[i]) \in Nat
        /\ history[i].fakes \in Nat /\ history[i].prompts \in Nat
        /\ toShell[i] \in Seq(BOOLEAN) /\ u \in Seq(Char)
    BY SessionTypes
  <2>3. Len(toShell'[i]) = Len(toShell[i]) - 1
    <3>1. Len(Tail(toShell[i])) = Len(toShell[i]) - 1
      BY ONLY <2>1, <2>2, HeadTailProperties, Zenon
    <3>2. toShell'[i] = Tail(toShell[i])
      BY <2>1 DEF TypeInv, TypeOK
    <3> QED BY <3>1, <3>2
  <2>4. ASSUME NEW j \in Slot, j # i PROVE AskedOf(j)'
    <3>1. toShell'[j] = toShell[j] /\ shell'[j] = shell[j] /\ toPage'[j] = toPage[j]
      BY <2>1, <2>4 DEF Printed, TypeInv, TypeOK
    <3>2. history'[j] = history[j]
      BY <2>1, <2>4 DEF Printed, TypeInv, HistoryType
    <3> QED BY <1>1, <2>1, <3>1, <3>2, AskedKept
  <2>5. st[i] \notin Early /\ st'[i] = st[i]
    BY <1>1, <2>1 DEF AskedOf
  <2>6. CASE shell' = [shell EXCEPT ![i] = "closed"] /\ UNCHANGED <<toPage, history>>
    <3>1. shell'[i] = "closed"
      BY <2>6 DEF TypeInv, TypeOK
    <3>2. Ahead(i)' = Ahead(i) /\ Asked(i)' = Asked(i) /\ history'[i] = history[i] /\ line'[i] = line[i]
      BY <2>1, <2>6 DEF Ahead, Asked
    <3>3. history[i].fakes = 0 => Len(toShell'[i]) + Ahead(i) <= 0
      BY <1>1, <2>1, <2>2, <2>3 DEF AskedOf
    <3>4. AskedOf(i)'
      <4>1. /\ line'[i] + Ahead(i)' <= Asked(i)'
            /\ ~history'[i].missed => line'[i] + Ahead(i)' = Asked(i)'
        BY <3>2, AskedNumbers
      <4>2. history'[i].fakes = 0 => Len(toShell'[i]) + Ahead(i)' <= 0
        BY <3>2, <3>3
      <4>3. history'[i].fakes = 0 => Len(toShell'[i]) + Ahead(i)' <= IF shell'[i] = "read" THEN 1 ELSE 0
        BY <3>1, <4>2
      <4>4. shell'[i] # "off" /\ shell'[i] # "read" /\ st'[i] \notin Early
        BY <2>5, <3>1
      <4> QED BY <4>1, <4>3, <4>4 DEF AskedOf
    <3> QED BY <2>4, <3>4 DEF AskInv
  <2>7. ASSUME NEW out \in Outputs, Printed(i, out) PROVE AskedOf(i)'
    <3> DEFINE n == Cardinality(Prompts(out))
    <3>1. out \in Seq(Char) /\ n \in Nat
      BY ConsoleOutputAssumption, PromptsAre
    <3> HIDE DEF n, u
    <3>2. history' = [history EXCEPT ![i].fakes = @ + n]
      BY <2>7 DEF Printed, n
    <3>3. /\ history'[i].prompts = history[i].prompts /\ history'[i].fakes = history[i].fakes + n
          /\ history'[i].missed <=> history[i].missed
      BY <3>2 DEF TypeInv, HistoryType
    <3>4. Asked(i)' = Asked(i) + n
      <4>1. history'[i].prompts = history[i].prompts /\ history'[i].fakes = history[i].fakes + n
        BY <3>3
      <4> QED BY <2>2, <3>1, <4>1 DEF Asked
    <3>5. shell'[i] = "print" /\ toPage'[i] = u \o out
      BY <2>7 DEF Printed, TypeInv, TypeOK, u
    <3>6. Ahead(i)' = Ahead(i) + n
      <4>1. u # <<>> => u[Len(u)] = "blank"
        BY <1>1, <2>1 DEF AskedOf, u
      <4>2. Cardinality(Prompts(u \o out)) = Cardinality(Prompts(u)) + Cardinality(Prompts(out))
        BY <2>2, <3>1, <4>1, JoinCount
      <4> QED BY <3>5, <4>2 DEF Ahead, u, n
    <3>7. line'[i] = line[i]
      BY <2>1
    <3>8. line'[i] + Ahead(i)' <= Asked(i)'
      <4>1. line[i] + Ahead(i) <= Asked(i)
        BY AskedNumbers
      <4> QED BY <2>2, <3>1, <3>4, <3>6, <3>7, <4>1
    <3>9. ~history'[i].missed => line'[i] + Ahead(i)' = Asked(i)'
      <4>1. ~history'[i].missed => line[i] + Ahead(i) = Asked(i)
        BY <3>3, AskedNumbers
      <4> QED BY <2>2, <3>1, <3>4, <3>6, <3>7, <4>1
    <3>10. history'[i].fakes = 0 => Len(toShell'[i]) + Ahead(i)' <= 0
      <4>1. history'[i].fakes = 0 => history[i].fakes = 0 /\ n = 0
        <5>1. history'[i].fakes = history[i].fakes + n
          BY <3>3
        <5> QED BY <2>2, <3>1, <5>1
      <4>2. history[i].fakes = 0 => Len(toShell[i]) + Ahead(i) <= 1
        BY <1>1, <2>1 DEF AskedOf
      <4> QED BY <2>2, <2>3, <3>6, <4>1, <4>2
    <3> QED BY <2>5, <3>5, <3>8, <3>9, <3>10 DEF AskedOf
  <2> QED BY <2>1, <2>4, <2>6, <2>7 DEF AskInv
<1> QED
  BY <1>3, <1>4, <1>5, <1>6, <1>8, <1>9, <1>10, <1>11, <1>12 DEF Next, Launching, Session, Shell

LEMMA AskInit == Init => AskInv
<1> SUFFICES ASSUME Init, NEW i \in Slot PROVE AskedOf(i)
  BY DEF AskInv
<1>1. /\ line[i] = 0 /\ shell[i] = "off" /\ toPage[i] = <<>> /\ toShell[i] = <<>>
      /\ history[i].prompts = 0 /\ history[i].fakes = 0 /\ ~history[i].missed
  BY DEF Init, NoHistory
<1>2. Ahead(i) = 0 /\ Asked(i) = 0
  BY <1>1, NoPrompts DEF Ahead, Asked
<1>3. Len(toShell[i]) = 0
  BY <1>1
<1> QED BY <1>1, <1>2, <1>3 DEF AskedOf

\* The console keeps step with its shells, whatever they print and however it is read:
\* for every number of slots, all files and outputs.
THEOREM ConsoleKeepsStep == Spec => []OneCommandPerPrompt
<1>1. TypeInv /\ AskInv => OneCommandPerPrompt
  <2> SUFFICES ASSUME TypeInv, AskInv, NEW i \in Slot
               PROVE  /\ line[i] <= Asked(i)
                      /\ (history[i].fakes = 0 /\ toShell[i] # <<>>) =>
                           shell[i] = "read" /\ Len(toShell[i]) = 1
                      /\ (st[i] = "read" /\ toPage[i] = <<>> /\ ~history[i].missed) => line[i] = Asked(i)
    BY DEF OneCommandPerPrompt, Asked
  <2>1. /\ line[i] \in Nat /\ Ahead(i) \in Nat /\ Asked(i) \in Nat /\ Len(toShell[i]) \in Nat
        /\ toShell[i] \in Seq(BOOLEAN)
    BY SessionTypes
  <2>2. toPage[i] = <<>> => Ahead(i) = 0
    BY NoPrompts DEF Ahead
  <2>3. toShell[i] # <<>> => Len(toShell[i]) > 0
    BY <2>1, EmptySeq
  <2>4. AskedOf(i)
    BY DEF AskInv
  <2>5. line[i] <= Asked(i)
    BY <2>1, AskedNumbers
  <2>6. (st[i] = "read" /\ toPage[i] = <<>> /\ ~history[i].missed) => line[i] = Asked(i)
    <3>1. ~history[i].missed => line[i] + Ahead(i) = Asked(i)
      BY AskedNumbers
    <3> QED BY <2>1, <2>2, <3>1
  <2>7. (history[i].fakes = 0 /\ toShell[i] # <<>>) => shell[i] = "read" /\ Len(toShell[i]) = 1
    <3>1. history[i].fakes = 0 => Len(toShell[i]) + Ahead(i) <= IF shell[i] = "read" THEN 1 ELSE 0
      BY <2>4 DEF AskedOf
    <3>2. Ahead(i) \in Nat /\ Len(toShell[i]) \in Nat
      BY <2>1
    <3> DEFINE m == Len(toShell[i])
               a == Ahead(i)
    <3>3. toShell[i] # <<>> => m > 0
      BY <2>3
    <3>4. history[i].fakes = 0 => m + a <= IF shell[i] = "read" THEN 1 ELSE 0
      BY <3>1
    <3>5. m \in Nat /\ a \in Nat
      BY <3>2
    <3>6. (history[i].fakes = 0 /\ toShell[i] # <<>>) => shell[i] = "read" /\ m = 1
      <4> HIDE DEF m, a
      <4> QED BY <3>3, <3>4, <3>5
    <3> QED BY <3>6
  <2> QED BY <2>5, <2>6, <2>7
<1>2. TypeInv /\ AskInv /\ [Next]_vars => AskInv'
  BY AskStep
<1> QED BY <1>1, <1>2, AskInit, TypeAlways, PTL DEF Spec
=============================================================================
