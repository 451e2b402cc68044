------------------------ MODULE NpSingleUsers_proofs ------------------------
(***************************************************************************)
(* Proofs about the users of the single-process server, for every number of *)
(* connections and ids and all commands: names, news, what ends the server,  *)
(* and lines that run into each other.                                      *)
(***************************************************************************)
EXTENDS NpSingleUsers, WellFoundedInduction, SequenceTheorems, TLAPS

-----------------------------------------------------------------------------
\* A set of naturals with an element has a least one.
LEMMA LeastNat ==
  ASSUME NEW T \in SUBSET Nat, T # {}
  PROVE  \E n \in T : \A m \in T : n <= m
<1>1. IsWellFoundedOn(OpToRel(<, Nat), Nat)
  BY NatLessThanWellFounded
<1>2. \A m, n \in Nat : <<m, n>> \in OpToRel(<, Nat) <=> m < n
  BY DEF OpToRel
<1>3. PICK R : IsWellFoundedOn(R, Nat) /\ \A m \in Nat : \A n \in Nat : <<m, n>> \in R <=> m < n
  BY <1>1, <1>2, Zenon
<1>4. T \subseteq Nat
  OBVIOUS
<1>5. \E n \in T : \A m \in T : ~(<<m, n>> \in R)
  <2>1. IsWellFoundedOn(R, Nat)
    BY <1>3, Zenon
  <2>2. ASSUME NEW U, U \subseteq Nat, U # {}
        PROVE  \E x \in U : \A y \in U : ~(<<y, x>> \in R)
    BY ONLY <2>1, <2>2, WFMin, Zenon
  <2> QED BY <1>4, <2>2, Zenon
<1>6. PICK n \in T : \A m \in T : ~(<<m, n>> \in R)
  BY <1>5
<1>7. ASSUME NEW m \in T PROVE n <= m
  <2>1. m \in Nat /\ n \in Nat
    OBVIOUS
  <2>2. ~(m < n)
    BY <1>3, <1>6, <2>1, Zenon
  <2> QED BY <2>1, <2>2
<1> QED BY <1>7

-----------------------------------------------------------------------------
\* Names and news.

\* What the proofs need of the types.
ClientTypes ==
  /\ id \in [Conn -> {NotYet, Gone} \cup 0..KMaxClient]
  /\ DOMAIN name = Conn /\ DOMAIN view = Conn
  /\ \A c \in Conn : DOMAIN view[c] = Conn

\* Ids other than 0 have one client each; one that has not entered has no name, has
\* heard of nobody, and nobody has heard of it.
Newcomers ==
  /\ \A c, d \in Everyone : c # d /\ id[c] > 0 => id[c] # id[d]
  /\ \A c \in Conn : id[c] = NotYet =>
       name[c] = NoName /\ \A d \in Conn : view[c][d] = Unknown

UsersInv == ClientTypes /\ Newcomers /\ NamesAreUnique /\ NewsAreCurrent

\* SetId returns 0 or a free id.
LEMMA SetIdIsFree ==
  SetId \in 0..KMaxClient /\ (SetId > 0 => SetId \notin Ids)
<1> USE UsersLimitAssumption
<1>1. CASE 1..KMaxClient \subseteq Ids
  BY <1>1 DEF SetId
<1>2. CASE ~(1..KMaxClient \subseteq Ids)
  <2> DEFINE Free == 1..KMaxClient \ Ids
  <2>1. PICK i \in Free : \A j \in Free : i <= j
    <3>1. Free \in SUBSET Nat /\ Free # {}
      BY <1>2
    <3> QED BY <3>1, LeastNat
  <2>2. \A j \in 1..(i - 1) : j \in Ids
    BY <2>1
  <2>3. \E k \in 1..KMaxClient \ Ids : \A j \in 1..(k - 1) : j \in Ids
    BY <2>1, <2>2
  <2>4. SetId \in 1..KMaxClient \ Ids
    BY <1>2, <2>3 DEF SetId
  <2> QED BY <2>4
<1> QED BY <1>1, <1>2

Enters(c) ==
  /\ id[c] = NotYet /\ id' = [id EXCEPT ![c] = SetId]
  /\ view' = News(Everyone \cup {c}, c, NoName) /\ UNCHANGED name

Leaves(c) ==
  /\ id[c] >= 0 /\ id' = [id EXCEPT ![c] = Gone]
  /\ view' = News(Everyone, c, Left) /\ UNCHANGED name

Renames(c) ==
  \E n : /\ id[c] >= 0 /\ ~NameTaken(c, n) /\ UNCHANGED id
         /\ name' = [name EXCEPT ![c] = n] /\ view' = News(Everyone, c, n)

\* A line that has been read does one of these.
DoesLine(c, cmd) ==
  \/ Plain(c, cmd) \/ Run(c, cmd) \/ Tell(c, cmd) \/ Name(c, cmd)
  \/ SetEnv(c, cmd) \/ PrintEnv(c, cmd) \/ Garbled(c, cmd) \/ Exit(c, cmd)

LEMMA RunLineDoes ==
  ASSUME NEW c \in Conn, RunLine(c)
  PROVE  /\ up /\ busy = NoConn /\ id[c] >= 0 /\ typed[c] # <<>> /\ UNCHANGED <<lines, hasty>>
         /\ \E cmd \in Command : DoesLine(c, cmd)
         /\ \E cmd \in Command : ReadLines(c, cmd) \/ ReadPart(c, cmd)
BY DEF RunLine, DoesLine

\* A client enters, leaves, or takes another name; nothing else touches these tables.
LEMMA TableSteps ==
  ASSUME [Next]_vars
  PROVE  UNCHANGED <<id, name, view>> \/ \E c \in Conn : Enters(c) \/ Leaves(c) \/ Renames(c)
<1> USE DEF client, history
<1>1. CASE UNCHANGED vars
  BY <1>1 DEF vars
<1>2. ASSUME NEW c \in Conn,
             Dial(c) \/ (\E cmd \in Commands : Type(c, cmd)) \/ HangUp(c) \/ ResetArrives(c)
      PROVE  UNCHANGED <<id, name, view>>
  BY <1>2 DEF Dial, Type, HangUp, ResetArrives
<1>3. ASSUME NEW c \in Conn, Accept(c) PROVE UNCHANGED <<id, name, view>> \/ Enters(c)
  BY <1>3 DEF Accept, Enters
<1>4. ASSUME NEW c \in Conn, id[c] >= 0, Logout(c), UNCHANGED name
      PROVE  UNCHANGED <<id, name, view>> \/ Leaves(c)
  BY <1>4 DEF Logout, Leaves
<1>5. ASSUME NEW c \in Conn, EndOfFile(c) PROVE UNCHANGED <<id, name, view>> \/ Leaves(c)
  BY <1>4, <1>5 DEF EndOfFile
<1>6. ASSUME NEW c \in Conn, RunLine(c)
      PROVE  UNCHANGED <<id, name, view>> \/ Leaves(c) \/ Renames(c)
  <2>1. PICK cmd \in Command : id[c] >= 0 /\ DoesLine(c, cmd)
    BY <1>6, RunLineDoes
  <2>2. CASE Plain(c, cmd) \/ Run(c, cmd) \/ Tell(c, cmd) \/ SetEnv(c, cmd) \/ PrintEnv(c, cmd)
             \/ Garbled(c, cmd)
    BY <2>2 DEF Plain, Run, Tell, SetEnv, PrintEnv, Garbled
  <2>3. CASE Name(c, cmd)
    BY <2>1, <2>3 DEF Name, Renames
  <2>4. CASE Exit(c, cmd)
    BY <1>4, <2>1, <2>4 DEF Exit
  <2> QED BY <2>1, <2>2, <2>3, <2>4 DEF DoesLine
<1>7. ASSUME NEW c \in Conn, ProgramsEnd(c) PROVE UNCHANGED <<id, name, view>>
  BY <1>7 DEF ProgramsEnd
<1> QED BY <1>1, <1>2, <1>3, <1>5, <1>6, <1>7 DEF Next

LEMMA UsersInit == Init => UsersInv
BY DEF Init, UsersInv, ClientTypes, Newcomers, NamesAreUnique, NewsAreCurrent, Everyone, NotYet

\* What News writes: one entry in the row of each that hears.
Heard(S, c, m, v) ==
  /\ DOMAIN v = Conn /\ \A x \in Conn : DOMAIN v[x] = Conn
  /\ \A x, d \in Conn : v[x][d] = IF x \in S /\ d = c THEN m ELSE view[x][d]

LEMMA NewsReach == ClientTypes => \A S, c, m : Heard(S, c, m, News(S, c, m))
<1> SUFFICES ASSUME ClientTypes, NEW S, NEW c, NEW m, NEW v, v = News(S, c, m)
             PROVE  Heard(S, c, m, v)
  OBVIOUS
<1>1. DOMAIN v = Conn
  BY DEF News
<1>2. ASSUME NEW x \in Conn
      PROVE  /\ DOMAIN v[x] = Conn
             /\ \A d \in Conn : v[x][d] = IF x \in S /\ d = c THEN m ELSE view[x][d]
  <2>1. DOMAIN view[x] = Conn
    BY DEF ClientTypes
  <2>2. CASE x \in S
    <3>1. v[x] = [view[x] EXCEPT ![c] = m]
      BY <2>2 DEF News
    <3> QED BY <2>1, <2>2, <3>1
  <2>3. CASE x \notin S
    <3>1. v[x] = view[x]
      BY <2>3 DEF News
    <3> QED BY <2>1, <2>3, <3>1
  <2> QED BY <2>2, <2>3
<1> QED BY <1>1, <1>2 DEF Heard

LEMMA UsersStep == UsersInv /\ [Next]_vars => UsersInv'
<1> SUFFICES ASSUME UsersInv, [Next]_vars PROVE UsersInv'
  OBVIOUS
<1> USE UsersLimitAssumption DEF UsersInv, NotYet, Gone
<1>1. CASE UNCHANGED <<id, name, view>>
  BY <1>1 DEF ClientTypes, Newcomers, NamesAreUnique, NewsAreCurrent, Everyone
<1>2. ASSUME NEW c \in Conn, Enters(c) PROVE UsersInv'
  <2>1. SetId \in 0..KMaxClient /\ \A d \in Everyone : SetId > 0 => id[d] # SetId
    BY SetIdIsFree DEF Ids
  <2>2. /\ id[c] = -2 /\ id' = [id EXCEPT ![c] = SetId] /\ name' = name /\ name[c] = NoName
        /\ Everyone' = Everyone \cup {c} /\ \A d \in Conn : view[c][d] = Unknown
    BY <1>2, <2>1 DEF ClientTypes, Enters, Newcomers, Everyone
  <2>3. /\ DOMAIN view' = Conn /\ \A x \in Conn : DOMAIN view'[x] = Conn
        /\ \A x, d \in Conn : view'[x][d] = IF x \in Everyone \cup {c} /\ d = c
                                            THEN NoName ELSE view[x][d]
    <3> HIDE DEF UsersInv
    <3>1. ClientTypes /\ view' = News(Everyone \cup {c}, c, NoName)
      BY <1>2 DEF Enters, UsersInv
    <3> QED BY <3>1, NewsReach DEF Heard
  <2>4. ClientTypes'
    BY <2>1, <2>2, <2>3 DEF ClientTypes
  <2>5. Newcomers'
    BY <2>1, <2>2, <2>3 DEF ClientTypes, Newcomers, Everyone
  <2>6. NamesAreUnique'
    BY <2>1, <2>2 DEF ClientTypes, Newcomers, NamesAreUnique, Everyone
  <2>7. NewsAreCurrent'
    BY <2>1, <2>2, <2>3 DEF ClientTypes, NewsAreCurrent, Everyone
  <2> QED BY <2>4, <2>5, <2>6, <2>7
<1>3. ASSUME NEW c \in Conn, Leaves(c) PROVE UsersInv'
  <2>1. /\ id[c] >= 0 /\ id' = [id EXCEPT ![c] = -1] /\ name' = name
        /\ Everyone' = Everyone \ {c}
    BY <1>3 DEF ClientTypes, Leaves, Everyone
  <2>2. /\ DOMAIN view' = Conn /\ \A x \in Conn : DOMAIN view'[x] = Conn
        /\ \A x, d \in Conn : view'[x][d] = IF x \in Everyone /\ d = c
                                            THEN Left ELSE view[x][d]
    <3> HIDE DEF UsersInv
    <3>1. ClientTypes /\ view' = News(Everyone, c, Left)
      BY <1>3 DEF Leaves, UsersInv
    <3> QED BY <3>1, NewsReach DEF Heard
  <2>3. ClientTypes'
    BY <2>1, <2>2 DEF ClientTypes
  <2>4. Newcomers' /\ NamesAreUnique'
    BY <2>1, <2>2 DEF ClientTypes, Newcomers, NamesAreUnique, Everyone
  <2>5. NewsAreCurrent'
    BY <2>1, <2>2 DEF ClientTypes, NewsAreCurrent, Everyone
  <2> QED BY <2>3, <2>4, <2>5
<1>4. ASSUME NEW c \in Conn, Renames(c) PROVE UsersInv'
  <2>1. PICK n : /\ id[c] >= 0 /\ ~NameTaken(c, n) /\ id' = id
                 /\ name' = [name EXCEPT ![c] = n] /\ view' = News(Everyone, c, n)
    BY <1>4 DEF Renames
  <2>2. /\ DOMAIN view' = Conn /\ \A x \in Conn : DOMAIN view'[x] = Conn
        /\ \A x, d \in Conn : view'[x][d] = IF x \in Everyone /\ d = c
                                            THEN n ELSE view[x][d]
    <3> HIDE DEF UsersInv
    <3>1. ClientTypes /\ view' = News(Everyone, c, n)
      BY <2>1 DEF UsersInv
    <3> QED BY <3>1, NewsReach DEF Heard
  <2>3. Everyone' = Everyone /\ DOMAIN name' = Conn
        /\ \A d \in Conn : name'[d] = IF d = c THEN n ELSE name[d]
    BY <2>1 DEF ClientTypes, Everyone
  <2>4. ClientTypes'
    BY <2>1, <2>2, <2>3 DEF ClientTypes
  <2>5. Newcomers'
    BY <2>1, <2>2, <2>3 DEF Newcomers, Everyone
  <2>6. NamesAreUnique'
    BY <2>1, <2>3 DEF Newcomers, NamesAreUnique, NameTaken, Everyone
  <2>7. NewsAreCurrent'
    BY <2>1, <2>2, <2>3 DEF NewsAreCurrent, Everyone
  <2> QED BY <2>4, <2>5, <2>6, <2>7
<1> QED BY <1>1, <1>2, <1>3, <1>4, TableSteps

LEMMA UsersAlways == Spec => []UsersInv
BY UsersInit, UsersStep, PTL DEF Spec

\* Two clients with ids of their own never have the same name, for every number of
\* connections and ids.
THEOREM NamesStayUnique == Spec => []NamesAreUnique
<1>1. UsersInv => NamesAreUnique
  BY DEF UsersInv
<1> QED BY <1>1, UsersAlways, PTL

\* What a client has been told of another is so, until it is told otherwise.
THEOREM NewsStayCurrent == Spec => []NewsAreCurrent
<1>1. UsersInv => NewsAreCurrent
  BY DEF UsersInv
<1> QED BY <1>1, UsersAlways, PTL

-----------------------------------------------------------------------------
\* Types.

LEMMA SetInEnvironment ==
  ASSUME NEW e \in Environment, NEW x \in Vars \cup {"PATH"}
  PROVE  [v \in DOMAIN e \cup {x} |-> IF v = x THEN "set" ELSE e[v]] \in Environment
<1>1. PICK V \in SUBSET Vars : e \in [V \cup {"PATH"} -> {"default", "set"}]
  BY DEF Environment
<1>2. (V \cup (Vars \cap {x})) \in SUBSET Vars
      /\ DOMAIN e \cup {x} = (V \cup (Vars \cap {x})) \cup {"PATH"}
  BY <1>1
<1>3. [v \in DOMAIN e \cup {x} |-> IF v = x THEN "set" ELSE e[v]]
        \in [(V \cup (Vars \cap {x})) \cup {"PATH"} -> {"default", "set"}]
  BY <1>1, <1>2
<1> QED BY <1>2, <1>3 DEF Environment

Heardable == Names \cup {NoName, Unknown, Left}

LEMMA NewsType ==
  ASSUME TypeOK, NEW S, NEW d \in Conn, NEW m \in Heardable
  PROVE  News(S, d, m) \in [Conn -> [Conn -> Heardable]]
BY DEF News, TypeOK, Heardable

\* A write strikes a closed socket at most, and the socket of the leaver is closed.
WrittenTo(l) ==
  /\ sock' \in [Conn -> {"out", "open", "closed", "struck", "reset", "gone"}]
  /\ rude' \in [Conn -> BOOLEAN] /\ up' \in BOOLEAN
  /\ \A c \in Conn : /\ sock'[c] = "out" => sock[c] = "out"
                     /\ sock'[c] = "gone" => sock[c] = "gone" \/ c = l

LEMMA WritesType ==
  ASSUME TypeOK, NEW n, NEW l, Writes(n, l) \/ (SigPipe(n, l) /\ UNCHANGED sock)
  PROVE  WrittenTo(l)
<1>1. rude' = [c \in Conn |-> rude[c] \/ (n[c] > 0 /\ sock[c] = "closed" /\ c # l)]
      /\ up' \in BOOLEAN
  BY DEF Writes, SigPipe, TypeOK
<1>2. rude' \in [Conn -> BOOLEAN]
  BY <1>1 DEF TypeOK
<1>3. CASE UNCHANGED sock
  BY <1>1, <1>2, <1>3 DEF TypeOK, WrittenTo
<1>4. CASE sock' = [c \in Conn |-> IF c = l THEN "gone"
                                  ELSE IF n[c] > 0 /\ sock[c] = "closed" THEN "struck" ELSE sock[c]]
  BY <1>1, <1>2, <1>4 DEF TypeOK, WrittenTo
<1> QED BY <1>3, <1>4 DEF Writes

LEMMA LogoutType ==
  ASSUME TypeOK, NEW c \in Conn, id[c] >= 0, Logout(c)
  PROVE  /\ rude' \in [Conn -> BOOLEAN] /\ up' \in BOOLEAN
         /\ sock' \in [Conn -> {"out", "open", "closed", "struck", "reset", "gone"}]
         /\ id' \in [Conn -> {NotYet, Gone} \cup 0..KMaxClient]
         /\ view' \in [Conn -> [Conn -> Heardable]]
         /\ \A d \in Conn : /\ sock'[d] = "out"  => id'[d] = NotYet
                            /\ sock'[d] = "gone" => id'[d] = Gone
<1>1. CASE SigPipe(Goodbye(c), c) /\ UNCHANGED <<sock, view, id>>
  BY <1>1, WritesType DEF WrittenTo, TypeOK, Heardable
<1>2. CASE Writes(Goodbye(c), c) /\ view' = News(Everyone, c, Left) /\ id' = [id EXCEPT ![c] = Gone]
  <2>1. WrittenTo(c)
    BY <1>2, WritesType
  <2>2. view' \in [Conn -> [Conn -> Heardable]]
    BY <1>2, NewsType DEF Heardable
  <2>3. sock[c] # "out" /\ id' \in [Conn -> {NotYet, Gone} \cup 0..KMaxClient]
        /\ id'[c] = Gone /\ \A d \in Conn \ {c} : id'[d] = id[d]
    BY <1>2 DEF TypeOK, NotYet, Gone
  <2> QED BY <2>1, <2>2, <2>3 DEF WrittenTo, TypeOK
<1> QED BY <1>1, <1>2 DEF Logout

LEMMA PrintsType ==
  ASSUME TypeOK, NEW c \in Conn, NEW n, Prints(c, n)
  PROVE  WrittenTo(NoConn) /\ prompts' \in [Conn -> Nat]
<1>1. WrittenTo(NoConn)
  BY WritesType DEF Prints, Completes, Fails
<1>2. prompts' = [prompts EXCEPT ![c] = @ + 1] \/ prompts' = prompts
  BY DEF Prints, Completes, Fails, Prompt
<1>3. prompts \in [Conn -> Nat]
  BY DEF TypeOK
<1>4. prompts' \in [Conn -> Nat]
  BY <1>2, <1>3
<1> QED BY <1>1, <1>4

\* What a line leaves: everything but what RunLine itself sets.
LineType ==
  /\ up' \in BOOLEAN /\ thrown' \in BOOLEAN /\ rude' \in [Conn -> BOOLEAN]
  /\ id' \in [Conn -> {NotYet, Gone} \cup 0..KMaxClient]
  /\ name' \in [Conn -> Names \cup {NoName}]
  /\ env' \in [Conn -> Environment]
  /\ sock' \in [Conn -> {"out", "open", "closed", "struck", "reset", "gone"}]
  /\ prompts' \in [Conn -> Nat]
  /\ view' \in [Conn -> [Conn -> Heardable]]
  /\ \A d \in Conn : /\ sock'[d] = "out"  => id'[d] = NotYet
                     /\ sock'[d] = "gone" => id'[d] = Gone
  /\ busy' \in {NoConn} \cup Everyone'

LEMMA CommandType ==
  ASSUME TypeOK, NEW c \in Conn, id[c] >= 0, busy = NoConn, NEW cmd \in Command,
         DoesLine(c, cmd)
  PROVE  LineType
<1> USE DEF client
<1>0. view \in [Conn -> [Conn -> Heardable]]
  BY DEF TypeOK, Heardable
<1>1. NoConn \notin Conn
  BY UsersConnAssumption
<1>2. ASSUME WrittenTo(NoConn), prompts' \in [Conn -> Nat], UNCHANGED id
      PROVE  /\ up' \in BOOLEAN /\ rude' \in [Conn -> BOOLEAN] /\ prompts' \in [Conn -> Nat]
             /\ sock' \in [Conn -> {"out", "open", "closed", "struck", "reset", "gone"}]
             /\ id' \in [Conn -> {NotYet, Gone} \cup 0..KMaxClient]
             /\ \A d \in Conn : /\ sock'[d] = "out"  => id'[d] = NotYet
                                /\ sock'[d] = "gone" => id'[d] = Gone
  BY <1>1, <1>2 DEF WrittenTo, TypeOK
<1>3. CASE Plain(c, cmd) \/ Tell(c, cmd)
  <2>1. (\E n : Prints(c, n)) /\ UNCHANGED <<client, busy, thrown>>
    BY <1>3 DEF Plain, Tell
  <2>2. WrittenTo(NoConn) /\ prompts' \in [Conn -> Nat]
    BY <2>1, PrintsType
  <2> QED BY <1>0, <1>2, <2>1, <2>2 DEF LineType, TypeOK
<1>4. CASE Name(c, cmd)
  <2>1. (\E n : Prints(c, n)) /\ UNCHANGED <<id, env, busy, thrown>>
        /\ \/ UNCHANGED <<name, view>>
           \/ view' = News(Everyone, c, cmd.name) /\ name' = [name EXCEPT ![c] = cmd.name]
    BY <1>4 DEF Name
  <2>2. cmd.name \in Names
    BY <1>4 DEF Name, Command
  <2>3. WrittenTo(NoConn) /\ prompts' \in [Conn -> Nat]
    BY <2>1, PrintsType
  <2>4. name' \in [Conn -> Names \cup {NoName}]
    BY <2>1, <2>2 DEF TypeOK
  <2>5. view' \in [Conn -> [Conn -> Heardable]]
    <3>1. cmd.name \in Heardable
      BY <2>2 DEF Heardable
    <3>2. News(Everyone, c, cmd.name) \in [Conn -> [Conn -> Heardable]]
      BY <3>1, NewsType
    <3>3. view' = view \/ view' = News(Everyone, c, cmd.name)
      BY <2>1
    <3> QED BY <1>0, <3>2, <3>3
  <2> QED BY <1>2, <2>1, <2>3, <2>4, <2>5 DEF LineType, TypeOK
<1>5. CASE SetEnv(c, cmd)
  <2>1. (\E n : Prints(c, n)) /\ UNCHANGED <<id, name, view, busy, thrown>>
        /\ env' = [env EXCEPT ![c] = [v \in DOMAIN env[c] \cup {cmd.var} |->
                                        IF v = cmd.var THEN "set" ELSE env[c][v]]]
    BY <1>5 DEF SetEnv
  <2>2. cmd.var \in Vars \cup {"PATH"} /\ env[c] \in Environment
    BY <1>5 DEF SetEnv, Command, TypeOK
  <2>3. env' \in [Conn -> Environment]
    BY <2>1, <2>2, SetInEnvironment DEF TypeOK
  <2>4. WrittenTo(NoConn) /\ prompts' \in [Conn -> Nat]
    BY <2>1, PrintsType
  <2> QED BY <1>0, <1>2, <2>1, <2>3, <2>4 DEF LineType, TypeOK
<1>6. CASE PrintEnv(c, cmd) \/ Garbled(c, cmd)
  <2>1. UNCHANGED <<client, busy>>
    BY <1>6 DEF PrintEnv, Garbled
  <2>2. CASE Prints(c, Count(c, 1, {})) /\ UNCHANGED thrown
    <3>1. WrittenTo(NoConn) /\ prompts' \in [Conn -> Nat]
      BY <2>2, PrintsType
    <3> QED BY <1>0, <1>2, <2>1, <2>2, <3>1 DEF LineType, TypeOK
  <2>3. CASE Throw
    BY <1>0, <2>1, <2>3 DEF LineType, TypeOK, Throw
  <2> QED BY <1>6, <2>2, <2>3 DEF PrintEnv, Garbled
<1>7. CASE Exit(c, cmd)
  <2>1. Logout(c) /\ UNCHANGED <<name, env, prompts, busy, thrown>>
    BY <1>7 DEF Exit
  <2> QED BY <2>1, LogoutType DEF LineType, TypeOK
<1>8. CASE Run(c, cmd)
  <2>1. UNCHANGED <<client, thrown>>
    BY <1>8 DEF Run
  <2>2. CASE (\E n : Prints(c, n)) /\ UNCHANGED busy
    <3>1. WrittenTo(NoConn) /\ prompts' \in [Conn -> Nat]
      BY <2>2, PrintsType
    <3> QED BY <1>0, <1>2, <2>1, <2>2, <3>1 DEF LineType, TypeOK
  <2>3. CASE busy' = c /\ UNCHANGED <<up, sock, prompts, rude>>
    BY <1>0, <2>1, <2>3 DEF LineType, TypeOK, Everyone
  <2> QED BY <1>8, <2>2, <2>3 DEF Run
<1> QED BY <1>3, <1>4, <1>5, <1>6, <1>7, <1>8 DEF DoesLine

LEMMA UsersTypeInit == Init => TypeOK
<1> SUFFICES ASSUME Init PROVE TypeOK
  OBVIOUS
<1>1. NewEnv \in Environment
  <2>1. NewEnv \in [{} \cup {"PATH"} -> {"default", "set"}]
    BY DEF NewEnv
  <2>2. {} \in SUBSET Vars
    OBVIOUS
  <2> QED BY <2>1, <2>2 DEF Environment
<1>2. typed \in [Conn -> Seq(Command)]
  BY EmptySeq DEF Init
<1>3. 0 \in 0..MaxLines
  BY UsersLimitAssumption
<1>4. view \in [Conn -> [Conn -> Names \cup {NoName, Unknown, Left}]]
  BY DEF Init
<1>5. /\ rude \in [Conn -> BOOLEAN] /\ hasty \in [Conn -> BOOLEAN]
      /\ swallowed \in [Conn -> BOOLEAN] /\ cut \in [Conn -> 0..MaxCuts]
  BY UsersLimitAssumption DEF Init
<1>6. /\ id \in [Conn -> {NotYet, Gone} \cup 0..KMaxClient]
      /\ name \in [Conn -> Names \cup {NoName}]
      /\ env \in [Conn -> Environment]
      /\ sock \in [Conn -> {"out", "open", "closed", "struck", "reset", "gone"}]
      /\ prompts \in [Conn -> Nat] /\ lines \in 0..MaxLines
  BY <1>1, <1>3 DEF Init
<1>7. /\ up \in BOOLEAN /\ thrown \in BOOLEAN /\ busy = NoConn
      /\ \A c \in Conn : sock[c] = "out" /\ id[c] = NotYet
  BY DEF Init
<1> QED BY <1>2, <1>4, <1>5, <1>6, <1>7 DEF TypeOK

\* A read takes k lines, and leaves the others, or the rest of the last one before them.
LEMMA ReadTakes ==
  ASSUME NEW c \in Conn, NEW cmd, ReadLines(c, cmd) \/ ReadPart(c, cmd)
  PROVE  \E k \in 1..Len(typed[c]) :
           /\ swallowed' = [swallowed EXCEPT ![c] = swallowed[c] \/ k > 1]
           /\ \/ /\ typed' = [typed EXCEPT ![c] = SubSeq(typed[c], k + 1, Len(typed[c]))]
                 /\ UNCHANGED cut
              \/ /\ cut[c] < MaxCuts /\ cut' = [cut EXCEPT ![c] = cut[c] + 1]
                 /\ \E rest \in Pieces :
                      typed' = [typed EXCEPT ![c] =
                                  <<rest>> \o SubSeq(typed[c], k + 1, Len(typed[c]))]
<1>1. CASE ReadLines(c, cmd)
  BY <1>1 DEF ReadLines
<1>2. CASE ReadPart(c, cmd)
  BY <1>2 DEF ReadPart
<1> QED BY <1>1, <1>2

LEMMA ReadsTyped ==
  ASSUME TypeOK, NEW c \in Conn, RunLine(c)
  PROVE  /\ typed' \in [Conn -> Seq(Command)] /\ swallowed' \in [Conn -> BOOLEAN]
         /\ cut' \in [Conn -> 0..MaxCuts]
<1>1. PICK cmd \in Command : ReadLines(c, cmd) \/ ReadPart(c, cmd)
  BY RunLineDoes
<1>2. PICK k \in 1..Len(typed[c]) :
           /\ swallowed' = [swallowed EXCEPT ![c] = swallowed[c] \/ k > 1]
           /\ \/ /\ typed' = [typed EXCEPT ![c] = SubSeq(typed[c], k + 1, Len(typed[c]))]
                 /\ UNCHANGED cut
              \/ /\ cut[c] < MaxCuts /\ cut' = [cut EXCEPT ![c] = cut[c] + 1]
                 /\ \E rest \in Pieces :
                      typed' = [typed EXCEPT ![c] =
                                  <<rest>> \o SubSeq(typed[c], k + 1, Len(typed[c]))]
  BY <1>1, ReadTakes
<1>3. typed[c] \in Seq(Command)
  BY DEF TypeOK
<1>4. SubSeq(typed[c], k + 1, Len(typed[c])) \in Seq(Command)
  BY <1>3, SubSeqProperties, LenProperties
<1>5. \A rest \in Pieces : <<rest>> \o SubSeq(typed[c], k + 1, Len(typed[c])) \in Seq(Command)
  <2> SUFFICES ASSUME NEW rest \in Pieces
               PROVE  <<rest>> \o SubSeq(typed[c], k + 1, Len(typed[c])) \in Seq(Command)
    OBVIOUS
  <2>1. <<rest>> \in Seq(Command)
    BY UsersCommandAssumption
  <2> QED BY <1>4, <2>1, ConcatProperties
<1>6. cut' \in [Conn -> 0..MaxCuts]
  <2>1. cut \in [Conn -> 0..MaxCuts] /\ MaxCuts \in Nat
    BY UsersLimitAssumption DEF TypeOK
  <2>2. cut' = cut \/ (cut[c] < MaxCuts /\ cut' = [cut EXCEPT ![c] = cut[c] + 1])
    BY <1>2
  <2> QED BY <2>1, <2>2
<1>7. swallowed' \in [Conn -> BOOLEAN]
  BY <1>2 DEF TypeOK
<1>8. typed' \in [Conn -> Seq(Command)]
  <2>1. PICK q \in Seq(Command) : typed' = [typed EXCEPT ![c] = q]
    BY <1>2, <1>4, <1>5
  <2> QED BY <2>1 DEF TypeOK
<1> QED BY <1>6, <1>7, <1>8

LEMMA UsersTypeStep == TypeOK /\ [Next]_vars => TypeOK'
<1> SUFFICES ASSUME TypeOK, [Next]_vars PROVE TypeOK'
  OBVIOUS
<1> USE DEF client, history
<1>0. view \in [Conn -> [Conn -> Heardable]]
  BY DEF TypeOK, Heardable
<1>1. ASSUME NEW c \in Conn, Dial(c) \/ HangUp(c) \/ ResetArrives(c) PROVE TypeOK'
  <2>1. PICK s \in {"open", "closed", "struck", "reset"} :
          sock' = [sock EXCEPT ![c] = s] /\ sock[c] # "gone"
    BY <1>1 DEF Dial, HangUp, ResetArrives
  <2>2. sock' \in [Conn -> {"out", "open", "closed", "struck", "reset", "gone"}]
        /\ \A d \in Conn : sock'[d] \in {"out", "gone"} => sock'[d] = sock[d]
    BY <2>1 DEF TypeOK
  <2>3. rude' \in [Conn -> BOOLEAN]
    BY <1>1 DEF Dial, HangUp, ResetArrives, TypeOK
  <2>4. UNCHANGED <<up, client, busy, typed, prompts, lines, hasty, cut, swallowed, thrown>>
    BY <1>1 DEF Dial, HangUp, ResetArrives
  <2> QED BY <2>2, <2>3, <2>4 DEF TypeOK, Everyone
<1>2. ASSUME NEW c \in Conn, NEW cmd \in Commands, Type(c, cmd) PROVE TypeOK'
  <2>1. typed' \in [Conn -> Seq(Command)]
    <3>1. cmd \in Command /\ typed[c] \in Seq(Command)
      BY UsersCommandAssumption DEF TypeOK
    <3>2. Append(typed[c], cmd) \in Seq(Command)
      BY <3>1, AppendProperties
    <3> QED BY <1>2, <3>2 DEF Type, TypeOK
  <2>2. prompts' \in [Conn -> Nat] /\ lines' \in 0..MaxLines
    <3>1. \/ prompts' = [prompts EXCEPT ![c] = prompts[c] - 1] /\ prompts[c] > 0
          \/ prompts' = prompts
      BY <1>2 DEF Type
    <3>2. prompts \in [Conn -> Nat] /\ (prompts[c] > 0 => prompts[c] - 1 \in Nat)
      BY DEF TypeOK
    <3>3. lines' = lines + 1 /\ lines < MaxLines
      BY <1>2 DEF Type
    <3>4. lines' \in 0..MaxLines
      BY <3>3, UsersLimitAssumption DEF TypeOK
    <3> QED BY <3>1, <3>2, <3>4
  <2>4. hasty' \in [Conn -> BOOLEAN]
    BY <1>2 DEF Type, TypeOK
  <2>3. UNCHANGED <<up, client, busy, sock, rude, cut, swallowed, thrown>>
    BY <1>2 DEF Type
  <2> QED BY <2>1, <2>2, <2>3, <2>4 DEF TypeOK, Everyone
<1>3. ASSUME NEW c \in Conn, Accept(c) PROVE TypeOK'
  <2>1. WrittenTo(NoConn)
    BY <1>3, WritesType DEF Accept
  <2>2. SetId \in 0..KMaxClient
    BY SetIdIsFree
  <2>3. id[c] = NotYet /\ sock[c] # "out"
        /\ \/ /\ id' = [id EXCEPT ![c] = SetId]
              /\ view' = News(Everyone \cup {c}, c, NoName)
              /\ prompts' = Prompt(c)
           \/ UNCHANGED <<id, view, prompts>>
    BY <1>3 DEF Accept
  <2>4. id' \in [Conn -> {NotYet, Gone} \cup 0..KMaxClient]
        /\ \A d \in Conn : d # c => id'[d] = id[d]
    BY <2>2, <2>3 DEF TypeOK
  <2>5. view' \in [Conn -> [Conn -> Heardable]]
    <3>1. News(Everyone \cup {c}, c, NoName) \in [Conn -> [Conn -> Heardable]]
      BY NewsType DEF Heardable
    <3> QED BY <1>0, <2>3, <3>1
  <2>6. prompts' \in [Conn -> Nat]
    <3>1. prompts' = [prompts EXCEPT ![c] = prompts[c] + 1] \/ prompts' = prompts
      BY <2>3 DEF Prompt
    <3>2. prompts \in [Conn -> Nat]
      BY DEF TypeOK
    <3> QED BY <3>1, <3>2
  <2>7. NoConn \notin Conn /\ sock[c] # "gone"
    BY <2>3, UsersConnAssumption DEF TypeOK, NotYet, Gone
  <2>8. busy = NoConn /\ UNCHANGED <<name, env, busy, typed, lines, hasty, cut, swallowed, thrown>>
    BY <1>3 DEF Accept
  <2>9. \A d \in Conn : /\ sock'[d] = "out"  => id'[d] = NotYet
                        /\ sock'[d] = "gone" => id'[d] = Gone
    BY <2>1, <2>3, <2>4, <2>7 DEF WrittenTo, TypeOK
  <2> QED BY <2>1, <2>4, <2>5, <2>6, <2>8, <2>9 DEF WrittenTo, TypeOK, Heardable
<1>4. ASSUME NEW c \in Conn, EndOfFile(c) PROVE TypeOK'
  <2>1. id[c] >= 0 /\ busy = NoConn /\ Logout(c)
        /\ UNCHANGED <<name, env, busy, typed, prompts, lines, hasty, cut, swallowed, thrown>>
    BY <1>4 DEF EndOfFile
  <2> QED BY <2>1, LogoutType DEF TypeOK, Heardable
<1>5. ASSUME NEW c \in Conn, RunLine(c) PROVE TypeOK'
  <2>1. id[c] >= 0 /\ busy = NoConn /\ typed[c] # <<>> /\ UNCHANGED <<lines, hasty>>
    BY <1>5, RunLineDoes
  <2>2. /\ typed' \in [Conn -> Seq(Command)] /\ swallowed' \in [Conn -> BOOLEAN]
        /\ cut' \in [Conn -> 0..MaxCuts]
    BY <1>5, ReadsTyped
  <2>3. LineType
    BY <1>5, <2>1, RunLineDoes, CommandType
  <2> QED BY <2>1, <2>2, <2>3 DEF LineType, TypeOK, Heardable
<1>7. ASSUME NEW c \in Conn, ProgramsEnd(c) PROVE TypeOK'
  <2>1. (\E n : Prints(c, n)) /\ busy' = NoConn
        /\ UNCHANGED <<client, typed, lines, hasty, cut, swallowed, thrown>>
    BY <1>7 DEF ProgramsEnd
  <2>2. WrittenTo(NoConn) /\ prompts' \in [Conn -> Nat]
    BY <2>1, PrintsType
  <2>3. NoConn \notin Conn
    BY UsersConnAssumption
  <2>4. \A d \in Conn : /\ sock'[d] = "out"  => id'[d] = NotYet
                        /\ sock'[d] = "gone" => id'[d] = Gone
    BY <2>1, <2>2, <2>3 DEF WrittenTo, TypeOK
  <2> QED BY <2>1, <2>2, <2>4 DEF WrittenTo, TypeOK
<1>6. CASE UNCHANGED vars
  BY <1>6 DEF vars, TypeOK, Everyone
<1> QED BY <1>1, <1>2, <1>3, <1>4, <1>5, <1>6, <1>7 DEF Next

\* Type correctness; in particular a client in the table has a socket that the server has
\* not closed, so that a handler never writes to a closed or reused descriptor.
THEOREM UsersTypesCorrect == Spec => []TypeOK
BY UsersTypeInit, UsersTypeStep, PTL DEF Spec

-----------------------------------------------------------------------------
\* What ends the server.

\* A client that has not closed its socket was not rude; one whose socket is reset, or
\* soon will be, was.
RudeInv ==
  /\ DOMAIN sock = Conn /\ rude \in [Conn -> BOOLEAN]
  /\ \A c \in Conn : sock[c] \in {"out", "open"} => ~rude[c]
  /\ \A c \in Conn : sock[c] \in {"struck", "reset"} => rude[c]
  /\ ServerSurvives

\* Writing to a closed socket is rude, and rude is as long as it is closed.
LEMMA WritesAreRude ==
  ASSUME RudeInv, NEW n, NEW l, Writes(n, l), UNCHANGED thrown
  PROVE  RudeInv'
<1>1. ASSUME NEW c \in Conn
      PROVE  /\ sock'[c] \in {"out", "open"} => ~rude'[c]
             /\ sock'[c] \in {"struck", "reset"} => rude'[c]
             /\ rude[c] => rude'[c]
  BY DEF RudeInv, Writes
<1>2. DOMAIN sock' = Conn /\ rude' \in [Conn -> BOOLEAN] /\ up' = up
  BY DEF RudeInv, Writes
<1> QED BY <1>1, <1>2 DEF RudeInv, ServerSurvives

\* One write to the socket that is being closed is not enough for SIGPIPE.
LEMMA SigPipeIsRude ==
  ASSUME RudeInv, NEW n, NEW l, SigPipe(n, l), l \in Conn => ~(n[l] > 1), UNCHANGED sock
  PROVE  RudeInv'
<1>1. PICK c \in Conn : n[c] > 0 /\ \/ sock[c] \in {"struck", "reset"}
                                    \/ sock[c] = "closed" /\ n[c] > 1
  BY DEF SigPipe
<1>2. rude' = [d \in Conn |-> rude[d] \/ (n[d] > 0 /\ sock[d] = "closed" /\ d # l)]
  BY DEF SigPipe
<1>3. rude'[c]
  BY <1>1, <1>2 DEF RudeInv
<1>4. rude' \in [Conn -> BOOLEAN]
      /\ \A d \in Conn : /\ sock[d] \in {"out", "open"} => ~rude'[d]
                         /\ sock[d] \in {"struck", "reset"} => rude'[d]
  BY <1>2 DEF RudeInv
<1> QED BY <1>3, <1>4 DEF RudeInv, ServerSurvives

LEMMA LogoutIsPolite ==
  ASSUME RudeInv, NEW c \in Conn, Logout(c), UNCHANGED thrown
  PROVE  RudeInv'
<1>1. ~(Goodbye(c)[c] > 1)
  BY DEF Goodbye, Count
<1> QED BY <1>1, WritesAreRude, SigPipeIsRude DEF Logout

LEMMA PrintsAreRude ==
  ASSUME RudeInv, NEW c \in Conn, NEW n, Prints(c, n), UNCHANGED thrown
  PROVE  RudeInv'
BY UsersConnAssumption, WritesAreRude, SigPipeIsRude DEF Prints, Completes, Fails

LEMMA RudeStep == RudeInv /\ [Next]_vars => RudeInv'
<1> SUFFICES ASSUME RudeInv, [Next]_vars PROVE RudeInv'
  OBVIOUS
<1> USE DEF client, history
<1>1. CASE UNCHANGED <<sock, rude, up, thrown>>
  BY <1>1 DEF RudeInv, ServerSurvives
<1>2. ASSUME NEW c \in Conn, Dial(c) \/ ResetArrives(c) PROVE RudeInv'
  <2>1. \A d \in Conn : \/ sock'[d] = sock[d]
                        \/ sock[d] = "out" /\ sock'[d] = "open"
                        \/ sock[d] = "struck" /\ sock'[d] = "reset"
    BY <1>2 DEF RudeInv, Dial, ResetArrives
  <2>2. DOMAIN sock' = Conn /\ rude' = rude /\ up' = up /\ thrown' = thrown
    BY <1>2 DEF RudeInv, Dial, ResetArrives
  <2> QED BY <2>1, <2>2 DEF RudeInv, ServerSurvives
<1>3. ASSUME NEW c \in Conn, HangUp(c) PROVE RudeInv'
  <2>1. PICK s \in {"closed", "reset"} : /\ sock' = [sock EXCEPT ![c] = s]
                                         /\ rude' = [rude EXCEPT ![c] = s = "reset"]
    BY <1>3 DEF HangUp
  <2>2. sock[c] = "open" /\ up' = up /\ thrown' = thrown
    BY <1>3 DEF HangUp
  <2>3. \A d \in Conn : sock'[d] = IF d = c THEN s ELSE sock[d]
    BY <2>1 DEF RudeInv
  <2>4. (rude'[c] <=> s = "reset") /\ \A d \in Conn \ {c} : rude'[d] = rude[d]
    BY <2>1 DEF RudeInv
  <2>5. DOMAIN sock' = Conn /\ rude' \in [Conn -> BOOLEAN]
    BY <2>1 DEF RudeInv
  <2>6. ServerSurvives'
    BY <2>2, <2>4 DEF RudeInv, ServerSurvives
  <2> QED BY <2>1, <2>3, <2>4, <2>5, <2>6 DEF RudeInv
<1>4. ASSUME NEW c \in Conn, \E cmd \in Commands : Type(c, cmd) PROVE RudeInv'
  BY <1>1, <1>4 DEF Type
<1>5. ASSUME NEW c \in Conn, Accept(c) PROVE RudeInv'
  <2>1. thrown' = thrown
    BY <1>5 DEF Accept
  <2>2. \/ Writes(Count(c, 4, Everyone \cup {c}), NoConn)
        \/ SigPipe(Count(c, 4, Everyone \cup {c}), NoConn) /\ UNCHANGED sock
    BY <1>5, Zenon DEF Accept
  <2> QED BY <2>1, <2>2, UsersConnAssumption, WritesAreRude, SigPipeIsRude
<1>6. ASSUME NEW c \in Conn, EndOfFile(c) PROVE RudeInv'
  BY <1>6, LogoutIsPolite DEF EndOfFile
<1>7. ASSUME NEW c \in Conn, RunLine(c) PROVE RudeInv'
  <2>1. PICK cmd \in Command : DoesLine(c, cmd)
    BY <1>7, RunLineDoes
  <2>2. CASE Plain(c, cmd) \/ Tell(c, cmd) \/ Name(c, cmd) \/ SetEnv(c, cmd)
    <3>1. UNCHANGED thrown /\ \E n : Prints(c, n)
      BY <2>2 DEF Plain, Tell, Name, SetEnv
    <3> QED BY <3>1, PrintsAreRude
  <2>3. CASE PrintEnv(c, cmd) \/ Garbled(c, cmd)
    <3>1. CASE UNCHANGED thrown /\ Prints(c, Count(c, 1, {}))
      BY <3>1, PrintsAreRude
    <3>2. CASE Throw
      BY <3>2 DEF RudeInv, ServerSurvives, Throw
    <3> QED BY <2>3, <3>1, <3>2 DEF PrintEnv, Garbled
  <2>4. CASE Exit(c, cmd)
    BY <2>4, LogoutIsPolite DEF Exit
  <2>5. CASE Run(c, cmd)
    <3>1. UNCHANGED thrown /\ ((\E n : Prints(c, n)) \/ UNCHANGED <<up, sock, prompts, rude>>)
      BY <2>5 DEF Run
    <3> QED BY <1>1, <3>1, PrintsAreRude
  <2> QED BY <2>1, <2>2, <2>3, <2>4, <2>5 DEF DoesLine
<1>9. ASSUME NEW c \in Conn, ProgramsEnd(c) PROVE RudeInv'
  BY <1>9, PrintsAreRude DEF ProgramsEnd
<1>8. CASE UNCHANGED vars
  BY <1>1, <1>8 DEF vars
<1> QED BY <1>2, <1>3, <1>4, <1>5, <1>6, <1>7, <1>8, <1>9 DEF Next

\* With any number of clients, and however their lines come, the server ends only over a
\* line that makes it throw, or over a client that aborted its connection or was written
\* to after it had closed it.
THEOREM OnlyRudenessKills == Spec => []ServerSurvives
<1>1. Init => RudeInv
  BY DEF Init, RudeInv, ServerSurvives
<1>2. RudeInv => ServerSurvives
  BY DEF RudeInv
<1> QED BY <1>1, <1>2, RudeStep, PTL DEF Spec

-----------------------------------------------------------------------------
\* Lines and prompts.

\* Nothing is typed, and nothing prompted, before a client is accepted; and one that
\* was never hasty, and had no line cut, has a line on its way, or a prompt to answer, or
\* neither, and neither while its programs run.
LineInv ==
  \A c \in Conn :
    /\ id[c] = NotYet => typed[c] = <<>> /\ prompts[c] = 0
    /\ ~hasty[c] /\ cut[c] = 0 =>
         /\ ~swallowed[c] /\ Len(typed[c]) + prompts[c] <= 1
         /\ busy = c => Len(typed[c]) + prompts[c] = 0

\* Whatever a line does, it prompts its client once at most, and not while its programs
\* run.
LEMMA RunLinePrompts ==
  ASSUME NEW c \in Conn, RunLine(c)
  PROVE  \/ UNCHANGED prompts /\ busy' \in {NoConn, c}
         \/ prompts' = [prompts EXCEPT ![c] = @ + 1] /\ busy' = NoConn
<1>1. PICK cmd \in Command : busy = NoConn /\ DoesLine(c, cmd)
  BY RunLineDoes
<1>2. ASSUME NEW n, Prints(c, n)
      PROVE  prompts' = prompts \/ prompts' = [prompts EXCEPT ![c] = @ + 1]
  BY <1>2 DEF Prints, Completes, Fails, Prompt
<1>3. CASE (\E n : Prints(c, n)) /\ UNCHANGED busy
  BY <1>1, <1>2, <1>3
<1>4. CASE UNCHANGED prompts /\ (UNCHANGED busy \/ busy' = c)
  BY <1>1, <1>4
<1>5. ((\E n : Prints(c, n)) /\ UNCHANGED busy) \/ (UNCHANGED prompts /\ (UNCHANGED busy \/ busy' = c))
  BY <1>1 DEF DoesLine, Plain, Run, Tell, Name, SetEnv, PrintEnv, Garbled, Throw, Exit
<1> QED BY <1>3, <1>4, <1>5

LEMMA LineStep == TypeOK /\ TypeOK' /\ LineInv /\ [Next]_vars => LineInv'
<1> SUFFICES ASSUME TypeOK, TypeOK', LineInv, [Next]_vars PROVE LineInv'
  OBVIOUS
<1> USE DEF client, history
<1>1. \A d \in Conn : id'[d] = NotYet => id[d] = NotYet
  <2>1. CASE UNCHANGED <<id, name, view>>
    BY <2>1
  <2>2. ASSUME NEW c \in Conn, Enters(c) PROVE \A d \in Conn : id'[d] = NotYet => id[d] = NotYet
    BY <2>2 DEF Enters, TypeOK
  <2>3. ASSUME NEW c \in Conn, Leaves(c) PROVE \A d \in Conn : id'[d] = NotYet => id[d] = NotYet
    BY <2>3 DEF Leaves, TypeOK, NotYet, Gone
  <2>4. ASSUME NEW c \in Conn, Renames(c) PROVE \A d \in Conn : id'[d] = NotYet => id[d] = NotYet
    BY <2>4 DEF Renames
  <2> QED BY <2>1, <2>2, <2>3, <2>4, TableSteps
<1>2. CASE UNCHANGED <<typed, prompts, hasty, cut, swallowed, busy>>
  BY <1>1, <1>2 DEF LineInv
<1>3. CASE UNCHANGED vars
  BY <1>2, <1>3 DEF vars
<1>4. ASSUME NEW c \in Conn, Dial(c) \/ HangUp(c) \/ ResetArrives(c) \/ EndOfFile(c) PROVE LineInv'
  BY <1>2, <1>4 DEF Dial, HangUp, ResetArrives, EndOfFile
<1>5. ASSUME NEW c \in Conn, NEW cmd \in Commands, Type(c, cmd) PROVE LineInv'
  <2>1. /\ id[c] >= 0 /\ id' = id /\ swallowed' = swallowed /\ cut' = cut /\ busy' = busy
        /\ typed' = [typed EXCEPT ![c] = Append(@, cmd)]
        /\ \/ prompts[c] > 0 /\ prompts' = [prompts EXCEPT ![c] = @ - 1] /\ hasty' = hasty
           \/ hasty' = [hasty EXCEPT ![c] = TRUE] /\ prompts' = prompts
    BY <1>5 DEF Type
  <2>2. ASSUME NEW d \in Conn, d # c
        PROVE  typed'[d] = typed[d] /\ prompts'[d] = prompts[d] /\ (hasty'[d] <=> hasty[d])
    BY <2>1, <2>2 DEF TypeOK
  <2>3. id[c] # NotYet
    BY <2>1 DEF NotYet
  <2>4. CASE prompts[c] > 0 /\ prompts' = [prompts EXCEPT ![c] = @ - 1] /\ hasty' = hasty
    <3>1. typed[c] \in Seq(Command) /\ prompts[c] \in Nat
      BY DEF TypeOK
    <3>2. typed'[c] = Append(typed[c], cmd) /\ prompts'[c] = prompts[c] - 1
      BY <2>1, <2>4 DEF TypeOK
    <3>3. Len(typed'[c]) = Len(typed[c]) + 1
      BY <3>1, <3>2
    <3>4. ~hasty'[c] /\ cut'[c] = 0 =>
            /\ ~swallowed'[c] /\ Len(typed'[c]) + prompts'[c] <= 1
            /\ busy' = c => Len(typed'[c]) + prompts'[c] = 0
      BY <2>1, <2>4, <3>1, <3>2, <3>3 DEF LineInv
    <3> QED BY <2>1, <2>2, <2>3, <3>4 DEF LineInv
  <2>5. CASE hasty' = [hasty EXCEPT ![c] = TRUE] /\ prompts' = prompts
    <3>1. hasty'[c]
      BY <2>5 DEF TypeOK
    <3> QED BY <2>1, <2>2, <2>3, <3>1 DEF LineInv
  <2> QED BY <2>1, <2>4, <2>5
<1>6. ASSUME NEW c \in Conn, Accept(c) PROVE LineInv'
  <2>1. CASE UNCHANGED prompts
    BY <1>2, <1>6, <2>1 DEF Accept
  <2>2. CASE prompts' = [prompts EXCEPT ![c] = @ + 1] /\ id' = [id EXCEPT ![c] = SetId]
    <3>1. /\ id[c] = NotYet /\ typed' = typed /\ hasty' = hasty /\ swallowed' = swallowed
          /\ cut' = cut /\ busy' = NoConn /\ NoConn \notin Conn
          /\ typed[c] = <<>> /\ prompts[c] = 0
      BY <1>6, UsersConnAssumption DEF Accept, LineInv
    <3>2. SetId # NotYet
      BY SetIdIsFree DEF NotYet
    <3>3. prompts'[c] = 1 /\ id'[c] # NotYet /\ \A d \in Conn \ {c} : prompts'[d] = prompts[d]
      BY <2>2, <3>1, <3>2 DEF TypeOK
    <3> QED BY <1>1, <3>1, <3>3 DEF LineInv
  <2> QED BY <1>6, <2>1, <2>2 DEF Accept, Prompt
<1>7. ASSUME NEW c \in Conn, RunLine(c) PROVE LineInv'
  <2>1. /\ id[c] >= 0 /\ typed[c] # <<>> /\ hasty' = hasty
        /\ \E cmd \in Command : ReadLines(c, cmd) \/ ReadPart(c, cmd)
    BY <1>7, RunLineDoes
  <2>2. PICK k \in 1..Len(typed[c]) :
          /\ swallowed' = [swallowed EXCEPT ![c] = swallowed[c] \/ k > 1]
          /\ \/ /\ typed' = [typed EXCEPT ![c] = SubSeq(typed[c], k + 1, Len(typed[c]))]
                /\ UNCHANGED cut
             \/ /\ cut[c] < MaxCuts /\ cut' = [cut EXCEPT ![c] = cut[c] + 1]
                /\ \E rest \in Pieces :
                     typed' = [typed EXCEPT ![c] =
                                 <<rest>> \o SubSeq(typed[c], k + 1, Len(typed[c]))]
    BY <2>1, ReadTakes
  <2>3. \/ UNCHANGED prompts /\ busy' \in {NoConn, c}
        \/ prompts' = [prompts EXCEPT ![c] = @ + 1] /\ busy' = NoConn
    BY <1>7, RunLinePrompts
  <2>4. ASSUME NEW d \in Conn, d # c
        PROVE  /\ typed'[d] = typed[d] /\ prompts'[d] = prompts[d] /\ cut'[d] = cut[d]
               /\ (swallowed'[d] <=> swallowed[d]) /\ busy' # d
    <3>1. typed'[d] = typed[d] /\ (swallowed'[d] <=> swallowed[d])
      BY <2>2, <2>4 DEF TypeOK
    <3>2. cut'[d] = cut[d]
      BY <2>2, <2>4 DEF TypeOK
    <3>3. prompts'[d] = prompts[d] /\ busy' # d
      BY <2>3, <2>4, UsersConnAssumption DEF TypeOK
    <3> QED BY <3>1, <3>2, <3>3
  <2>5. id'[c] # NotYet
    BY <1>1, <2>1 DEF NotYet
  <2>6. ~hasty'[c] /\ cut'[c] = 0 =>
          /\ ~swallowed'[c] /\ Len(typed'[c]) + prompts'[c] <= 1
          /\ busy' = c => Len(typed'[c]) + prompts'[c] = 0
    <3> SUFFICES ASSUME ~hasty'[c], cut'[c] = 0
                 PROVE  /\ ~swallowed'[c] /\ Len(typed'[c]) + prompts'[c] <= 1
                        /\ busy' = c => Len(typed'[c]) + prompts'[c] = 0
      OBVIOUS
    <3>1. cut[c] \in Nat /\ prompts[c] \in Nat /\ typed[c] \in Seq(Command) /\ Len(typed[c]) \in Nat
      BY UsersLimitAssumption DEF TypeOK
    <3>2. cut' = cut /\ typed' = [typed EXCEPT ![c] = SubSeq(typed[c], k + 1, Len(typed[c]))]
      <4>1. ~(cut' = [cut EXCEPT ![c] = cut[c] + 1])
        BY <3>1 DEF TypeOK
      <4> QED BY <2>2, <4>1
    <3>3. ~swallowed[c] /\ Len(typed[c]) + prompts[c] <= 1
      BY <2>1, <3>2 DEF LineInv
    <3>4. k = 1 /\ Len(typed[c]) = 1 /\ prompts[c] = 0
      <4> DEFINE n == Len(typed[c])
                 m == prompts[c]
      <4>1. k \in Nat /\ k >= 1 /\ k <= n
        BY <2>2, <3>1
      <4>2. n \in Nat /\ m \in Nat /\ n + m <= 1
        BY <3>1, <3>3
      <4> HIDE DEF n, m
      <4>3. k = 1 /\ n = 1 /\ m = 0
        BY ONLY <4>1, <4>2
      <4> QED BY <4>3 DEF n, m
    <3>5. typed'[c] = <<>>
      BY <3>1, <3>2, <3>4 DEF TypeOK
    <3>6. Len(typed'[c]) = 0
      BY <3>5
    <3>7. ~swallowed'[c]
      BY <2>2, <3>3, <3>4 DEF TypeOK
    <3>8. prompts'[c] = 0 \/ (prompts'[c] = 1 /\ busy' # c)
      BY <2>3, <3>4, UsersConnAssumption DEF TypeOK
    <3> QED BY <3>6, <3>7, <3>8
  <2> QED BY <1>1, <2>1, <2>4, <2>5, <2>6 DEF LineInv
<1>8. ASSUME NEW c \in Conn, ProgramsEnd(c) PROVE LineInv'
  <2>1. /\ busy = c /\ busy' = NoConn /\ UNCHANGED <<id, typed, hasty, cut, swallowed>>
        /\ \E n : Prints(c, n)
    BY <1>8 DEF ProgramsEnd
  <2>2. prompts' = prompts \/ prompts' = [prompts EXCEPT ![c] = @ + 1]
    BY <2>1 DEF Prints, Completes, Fails, Prompt
  <2>3. id[c] # NotYet
    BY <2>1, UsersConnAssumption DEF TypeOK, Everyone, NotYet
  <2>4. typed[c] \in Seq(Command) /\ Len(typed[c]) \in Nat /\ prompts[c] \in Nat
    BY DEF TypeOK
  <2>5. prompts'[c] \in {prompts[c], prompts[c] + 1} /\ \A d \in Conn \ {c} : prompts'[d] = prompts[d]
    BY <2>2 DEF TypeOK
  <2>6. ~hasty[c] /\ cut[c] = 0 => Len(typed[c]) + prompts'[c] <= 1
    BY <2>1, <2>4, <2>5 DEF LineInv
  <2>7. \A d \in Conn : busy' # d
    BY <2>1, UsersConnAssumption
  <2> QED BY <2>1, <2>3, <2>5, <2>6, <2>7 DEF LineInv
<1> QED BY <1>3, <1>4, <1>5, <1>6, <1>7, <1>8 DEF Next

\* Whatever the lines do: a client that waits for the prompt before it types a line loses
\* none, unless a read ended within one.
THEOREM LinesAreKeptApart == Spec => []NoLineIsSwallowed
<1>1. Init => LineInv
  BY DEF Init, LineInv
<1>2. TypeOK /\ LineInv => NoLineIsSwallowed
  <2> SUFFICES ASSUME LineInv, TypeOK, NEW c \in Conn, swallowed[c], ~hasty[c]
               PROVE  cut[c] > 0
    BY DEF NoLineIsSwallowed
  <2>1. cut[c] \in Nat /\ cut[c] # 0
    BY UsersLimitAssumption DEF LineInv, TypeOK
  <2> QED BY <2>1
<1>3. TypeOK /\ TypeOK' /\ LineInv /\ [Next]_vars => LineInv'
  BY LineStep
<1> QED BY <1>1, <1>2, <1>3, UsersTypesCorrect, PTL DEF Spec
=============================================================================
