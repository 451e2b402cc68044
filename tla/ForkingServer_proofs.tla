------------------------ MODULE ForkingServer_proofs ------------------------
(***************************************************************************)
(* Proofs about the forking servers, for every number of connections: no   *)
(* zombie is forgotten, and no socket is left open in another process.     *)
(***************************************************************************)
EXTENDS ForkingServer, SequenceTheorems, TLAPS

Busy == {"accepted", "close", "wait"}

\* What is in each variable, the replies apart.
ServerTypes ==
  /\ kind \in Kinds
  /\ conn \in [Conn -> {"out", "queued", "accepted", "gone"}]
  /\ hold \in [Conn -> SUBSET Process]
  /\ child \in [Conn -> {"none", "session", "cgi", "zombie", "reaped"}]
  /\ acceptor \subseteq Process
  /\ parent \in {"poll", "accepted", "close", "reap", "wait"}
  /\ socket \in Conn \cup {NoConn}
  /\ sigchld \in BOOLEAN
  /\ armed \in [Process -> BOOLEAN]
  /\ inherited \subseteq Conn
  /\ parent \in Busy => socket \in Conn
  /\ Asio => parent # "wait"

\* A connection is forked for once, and its status lines come from that process.
Replies ==
  /\ \A c \in Conn : conn[c] \in {"out", "queued"} => child[c] = "none"
  /\ parent = "accepted" => child[socket] = "none" /\ conn[socket] \in {"accepted", "gone"}
  /\ reply \in [Conn -> {<<>>, <<"200">>, <<"200", "404">>}]
  /\ \A c \in Conn : child[c] \in {"none", "session"} => reply[c] = <<>>

\* A socket that the server has open is the one at hand, or that of a failed fork of
\* np_simple; a process that has ended does not have its own open.
Holders ==
  \A c \in Conn :
    /\ hold[c] \subseteq {c, Parent} \/ c \in Leaked
    /\ child[c] \in {"zombie", "reaped"} => c \notin hold[c]
    /\ Parent \in hold[c] => (socket = c /\ parent \in Busy) \/ c \in Leaked

ServerInv == ServerTypes /\ Replies /\ Holders

\* The first status lines of a connection are all it has.
LEMMA StatusLines ==
  /\ <<>> \o <<"200">> = <<"200">>
  /\ <<>> \o <<"200", "404">> = <<"200", "404">>
<1> DEFINE S == {"200", "404"}
<1>1. ASSUME NEW s \in Seq(S) PROVE <<>> \o s = s
  BY ConcatEmptySeq
<1>2. <<"200">> \in Seq(S) /\ <<"200", "404">> \in Seq(S)
  OBVIOUS
<1> HIDE DEF S
<1> QED BY <1>1, <1>2

LEMMA ServerInit == Init => ServerInv
BY ServerAssumption DEF Init, ServerInv, ServerTypes, Replies, Holders, Leaked, Process, Busy, Asio

\* A process that ends leaves the types and the holders in order.
LEMMA ExitsCleanly ==
  ASSUME ServerInv, NEW c \in Conn, child[c] # "none", Exits(c),
         UNCHANGED <<kind, conn, parent, socket, armed, inherited>>,
         reply' \in [Conn -> {<<>>, <<"200">>, <<"200", "404">>}],
         \A d \in Conn \ {c} : reply'[d] = reply[d]
  PROVE  ServerInv'
<1> USE ServerAssumption DEF ServerInv, ServerTypes, Busy, Asio, Exits, Process
<1>1. ServerTypes'
  OBVIOUS
<1>2. Replies'
  BY DEF Replies
<1>3. Holders'
  BY DEF Holders, Leaked, Replies
<1> QED BY <1>1, <1>2, <1>3

LEMMA ServerStep == ServerInv /\ [Next]_vars => ServerInv'
<1> SUFFICES ASSUME ServerInv, [Next]_vars PROVE ServerInv'
  OBVIOUS
<1> USE ServerAssumption DEF ServerInv, ServerTypes, Replies, Holders, Leaked, Busy, Asio, Process
<1>1. CASE UNCHANGED vars
  BY <1>1 DEF vars
<1>2. ASSUME NEW c \in Conn, Accept(c) PROVE ServerInv'
  BY <1>2 DEF Accept
<1>3. ASSUME NEW c \in Conn, Reap(c) PROVE ServerInv'
  BY <1>3 DEF Reap, Zombies, AfterReap
<1>4. CASE Fork
  <2>1. socket \in Conn /\ child[socket] = "none" /\ conn[socket] \in {"accepted", "gone"}
    BY <1>4 DEF Fork
  <2>2. ServerTypes'
    BY <1>4, <2>1 DEF Fork, AfterFork, ChildAcceptor
  <2>3. Replies'
    BY <1>4, <2>1 DEF Fork, AfterFork
  <2>4. Holders'
    BY <1>4, <2>1 DEF Fork, AfterFork
  <2> QED BY <2>2, <2>3, <2>4
<1>5. CASE ForkFails
  BY <1>5 DEF ForkFails
<1>6. CASE Close
  <2>1. socket \in Conn
    BY <1>6 DEF Close
  <2> QED BY <1>6, <2>1 DEF Close
<1>7. CASE Wait
  BY <1>7 DEF Wait
<1>8. CASE OnSignal \/ ReapEnds
  <2>1. /\ UNCHANGED <<kind, conn, hold, child, acceptor, socket, inherited, reply>>
        /\ parent' \in {"reap", "poll"} /\ sigchld' \in BOOLEAN
        /\ parent \in {"reap", "poll"}
        /\ \E b \in BOOLEAN : armed' = [armed EXCEPT ![Parent] = b]
    BY <1>8 DEF OnSignal, ReapEnds
  <2>2. armed' \in [Process -> BOOLEAN]
    BY <2>1
  <2> QED BY <2>1, <2>2
<1>9. ASSUME NEW c \in Conn, ChildSignal(c) PROVE ServerInv'
  <2>1. armed' \in [Process -> BOOLEAN] /\ inherited' \subseteq Conn
    <3>1. armed' = [armed EXCEPT ![c] = c \in acceptor]
      BY <1>9 DEF ChildSignal
    <3>2. armed' = [armed EXCEPT ![c] = TRUE] \/ armed' = [armed EXCEPT ![c] = FALSE]
      <4>1. CASE c \in acceptor
        BY <3>1, <4>1
      <4>2. CASE c \notin acceptor
        <5>1. (c \in acceptor) = FALSE
          BY <4>2
        <5> QED BY <3>1, <5>1, Zenon
      <4> QED BY <4>1, <4>2
    <3>3. inherited' = inherited \ {c}
      BY <1>9 DEF ChildSignal
    <3> QED BY <3>1, <3>2, <3>3
  <2> QED BY <1>9, <2>1 DEF ChildSignal
<1>10. ASSUME NEW c \in Conn, ExecFails(c) PROVE ServerInv'
  <2>1. reply[c] = <<>> /\ reply[c] \o <<"200", "404">> = <<"200", "404">>
    BY <1>10, StatusLines DEF ExecFails
  <2>2. reply' = [reply EXCEPT ![c] = <<"200", "404">>]
    BY <1>10, <2>1 DEF ExecFails, Status
  <2> QED BY <1>10, <2>2, ExitsCleanly DEF ExecFails
<1>11. ASSUME NEW c \in Conn, CgiExits(c) \/ SessionExits(c) PROVE ServerInv'
  BY <1>11, ExitsCleanly DEF CgiExits, SessionExits
<1>12. ASSUME NEW c \in Conn, ExecCgi(c) PROVE ServerInv'
  <2>1. reply[c] = <<>> /\ reply[c] \o <<"200">> = <<"200">>
    BY <1>12, StatusLines DEF ExecCgi
  <2>2. reply' = [reply EXCEPT ![c] = <<"200">>]
    BY <1>12, <2>1 DEF ExecCgi, Status
  <2> QED BY <1>12, <2>2 DEF ExecCgi
<1>13. ASSUME NEW c \in Conn, Dial(c) \/ Leave(c) PROVE ServerInv'
  BY <1>13 DEF Dial, Leave
<1> QED
  BY <1>1, <1>2, <1>3, <1>4, <1>5, <1>6, <1>7, <1>8, <1>9, <1>10, <1>11, <1>12, <1>13
  DEF Next, Server, Child

LEMMA ServerAlways == Spec => []ServerInv
BY ServerInit, ServerStep, PTL DEF Spec

\* Type correctness for every number of connections: no client gets status lines of
\* two requests, in particular.
THEOREM ServerTypesCorrect == Spec => []TypeOK
<1>1. ServerInv => TypeOK
  BY DEF ServerInv, ServerTypes, Replies, TypeOK
<1> QED BY <1>1, ServerAlways, PTL

\* Only the process of a connection has its socket, and the server while it forks: the
\* sockets of np_simple whose fork failed apart.
THEOREM SocketsArePrivate == Spec => []SocketsAreNotShared
<1>1. ServerInv => SocketsAreNotShared
  BY DEF ServerInv, ServerTypes, Holders, SocketsAreNotShared
<1> QED BY <1>1, ServerAlways, PTL

\* When the process of a connection has been reaped and the server polls again, nobody
\* has the socket open: the client sees its end.
THEOREM EndsAreSeen == Spec => []EndIsSeen
<1>1. ServerInv => EndIsSeen
  BY DEF ServerInv, ServerTypes, Holders, Leaked, EndIsSeen, Busy
<1> QED BY <1>1, ServerAlways, PTL

-----------------------------------------------------------------------------
\* Children that end while SIGCHLD is handled, for every number of them: the handler's
\* loop finds each, or the signal is still to be handled.
THEOREM ZombiesAreFound == Spec => []NoZombieIsForgotten
<1> USE DEF NoZombieIsForgotten, Zombies, Asio
<1>1. Init => NoZombieIsForgotten
  BY DEF Init
<1>2. ServerInv /\ NoZombieIsForgotten /\ [Next]_vars => NoZombieIsForgotten'
  <2> SUFFICES ASSUME ServerInv, NoZombieIsForgotten, [Next]_vars PROVE NoZombieIsForgotten'
    OBVIOUS
  <2> USE DEF ServerInv, ServerTypes
  <2>1. CASE UNCHANGED vars
    BY <2>1 DEF vars
  <2>2. CASE Server
    <3>1. ASSUME NEW c \in Conn, Accept(c) \/ Reap(c) PROVE NoZombieIsForgotten'
      BY <3>1 DEF Accept, Reap, AfterReap
    <3>2. CASE Fork \/ ForkFails \/ Close \/ Wait
      BY <3>2 DEF Fork, ForkFails, Close, Wait, AfterFork, Busy
    <3>3. CASE OnSignal \/ ReapEnds
      BY <3>3 DEF OnSignal, ReapEnds
    <3> QED BY <2>2, <3>1, <3>2, <3>3 DEF Server
  <2>3. ASSUME NEW c \in Conn, Child(c) PROVE NoZombieIsForgotten'
    BY <2>3 DEF Child, ChildSignal, ExecFails, CgiExits, SessionExits, Exits
  <2>4. ASSUME NEW c \in Conn, ExecCgi(c) \/ Dial(c) \/ Leave(c) PROVE NoZombieIsForgotten'
    BY <2>4 DEF ExecCgi, Dial, Leave
  <2> QED BY <2>1, <2>2, <2>3, <2>4 DEF Next
<1> QED BY <1>1, <1>2, ServerAlways, PTL DEF Spec
=============================================================================
