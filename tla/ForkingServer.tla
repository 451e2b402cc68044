---------------------------- MODULE ForkingServer ----------------------------
(***************************************************************************)
(* The servers that fork a process for each connection: http_server and     *)
(* socks_server, whose class server is the same, and np_simple, which waits  *)
(* for the process before it accepts the next connection.                    *)
(*                                                                         *)
(* A process of http_server reads once and becomes a CGI program; what a     *)
(* process of socks_server does is SocksSession, what one of np_simple does   *)
(* NpShell: here they may end, and need not.                                 *)
(***************************************************************************)
EXTENDS Integers, Sequences, FiniteSets

CONSTANTS
  Conn,      \* the connections, and the processes forked for them
  Parent,    \* the server
  NoConn,
  Kinds      \* which of the servers: "http", "socks", "simple"

ASSUME ServerAssumption == Parent \notin Conn /\ NoConn \notin Conn
ASSUME ServerKindAssumption == Kinds \subseteq {"http", "socks", "simple"}

VARIABLES
  kind,      \* the server this is
  conn,      \* conn[c]: "out", "queued", "accepted", "gone" (the client has closed)
  hold,      \* hold[c]: the processes that have the socket of c open
  child,     \* child[c]: "none", "session", "cgi", "zombie", "reaped"
  acceptor,  \* the processes that have the listening socket open
  parent,    \* "poll", "accepted", "close", "reap", "wait"
  socket,    \* socket_: the connection at hand
  sigchld,   \* a SIGCHLD has arrived and its handler has not run
  armed,     \* armed[p]: wait_for_signal is pending in process p
  inherited, \* processes forked with the handler of a signal still to run
  reply      \* reply[c]: the lines of status c has got

vars == <<kind, conn, hold, child, acceptor, parent, socket, sigchld, armed, inherited, reply>>

Process == Conn \cup {Parent}

\* np_simple handles no signal.
Asio == kind # "simple"

Init ==
  /\ kind \in Kinds
  /\ conn = [c \in Conn |-> "out"]
  /\ hold = [c \in Conn |-> {}]
  /\ child = [c \in Conn |-> "none"]
  /\ acceptor = {Parent}
  /\ parent = "poll" /\ socket = NoConn
  /\ sigchld = FALSE
  /\ armed = [p \in Process |-> p = Parent /\ Asio]
  /\ inherited = {}
  /\ reply = [c \in Conn |-> <<>>]

-----------------------------------------------------------------------------
\* The clients.

Dial(c) ==
  /\ conn[c] = "out"
  /\ conn' = [conn EXCEPT ![c] = "queued"]
  /\ UNCHANGED <<kind, hold, child, acceptor, parent, socket, sigchld, armed, inherited, reply>>

Leave(c) ==
  /\ conn[c] = "accepted"
  /\ conn' = [conn EXCEPT ![c] = "gone"]
  /\ UNCHANGED <<kind, hold, child, acceptor, parent, socket, sigchld, armed, inherited, reply>>

-----------------------------------------------------------------------------
\* The server.

\* The accept completes; asio moves the new socket to socket_.
Accept(c) ==
  /\ parent = "poll" /\ conn[c] = "queued"
  /\ conn' = [conn EXCEPT ![c] = "accepted"]
  /\ hold' = [hold EXCEPT ![c] = {Parent}]
  /\ socket' = c
  /\ parent' = "accepted"
  /\ UNCHANGED <<kind, child, acceptor, sigchld, armed, inherited, reply>>

\* The child closes the acceptor.
ChildAcceptor(c) == {}

\* Mutant of AfterFork: every server waits for its child.
AfterForkWaits == "wait"

\* The parent goes on at once, or waits (np_simple).
AfterFork == IF Asio THEN "close" ELSE "wait"

\* The child has every socket open that the server has.  It cancels its wait for a signal;
\* a handler that was ready runs in it as well.
Fork ==
  /\ parent = "accepted"
  /\ child' = [child EXCEPT ![socket] = "session"]
  /\ hold' = [c \in Conn |-> IF Parent \in hold[c] THEN hold[c] \cup {socket} ELSE hold[c]]
  /\ acceptor' = acceptor \cup ChildAcceptor(socket)
  /\ inherited' = IF Asio THEN inherited \cup {socket} ELSE inherited
  /\ parent' = AfterFork
  /\ UNCHANGED <<kind, conn, socket, sigchld, armed, reply>>

\* fork fails.  asio's server goes on as the parent; np_simple goes on without closing.
ForkFails ==
  /\ parent = "accepted"
  /\ IF Asio THEN parent' = "close" /\ UNCHANGED socket
     ELSE parent' = "poll" /\ socket' = NoConn
  /\ UNCHANGED <<kind, conn, hold, child, acceptor, sigchld, armed, inherited, reply>>

\* Mutant of Close: the parent leaves its copy open.
CloseNot ==
  /\ parent = "close"
  /\ socket' = NoConn
  /\ parent' = "poll"
  /\ UNCHANGED <<kind, conn, hold, child, acceptor, sigchld, armed, inherited, reply>>

\* The parent closes its copy and waits for the next connection.
Close ==
  /\ parent = "close"
  /\ hold' = [hold EXCEPT ![socket] = @ \ {Parent}]
  /\ socket' = NoConn
  /\ parent' = "poll"
  /\ UNCHANGED <<kind, conn, child, acceptor, sigchld, armed, inherited, reply>>

\* np_simple: wait(nullptr), then close.
Wait ==
  /\ parent = "wait" /\ child[socket] = "zombie"
  /\ child' = [child EXCEPT ![socket] = "reaped"]
  /\ parent' = "close"
  /\ UNCHANGED <<kind, conn, hold, acceptor, socket, sigchld, armed, inherited, reply>>

\* The handler of SIGCHLD starts; signals that arrive from now on wait for the next one.
OnSignal ==
  /\ parent = "poll" /\ Asio /\ sigchld /\ armed[Parent]
  /\ sigchld' = FALSE
  /\ armed' = [armed EXCEPT ![Parent] = FALSE]
  /\ parent' = "reap"
  /\ UNCHANGED <<kind, conn, hold, child, acceptor, socket, inherited, reply>>

Zombies == {c \in Conn : child[c] = "zombie"}

\* Mutant of AfterReap: one waitpid for each signal.
AfterReapOne == "poll"

\* The loop goes on until waitpid finds nothing more.
AfterReap == "reap"

Reap(c) ==
  /\ parent = "reap" /\ c \in Zombies
  /\ child' = [child EXCEPT ![c] = "reaped"]
  /\ parent' = AfterReap
  /\ armed' = [armed EXCEPT ![Parent] = AfterReap = "poll"]
  /\ UNCHANGED <<kind, conn, hold, acceptor, socket, sigchld, inherited, reply>>

ReapEnds ==
  /\ parent = "reap" /\ Zombies = {}
  /\ armed' = [armed EXCEPT ![Parent] = TRUE]
  /\ parent' = "poll"
  /\ UNCHANGED <<kind, conn, hold, child, acceptor, socket, sigchld, inherited, reply>>

-----------------------------------------------------------------------------
\* The forked processes.

\* The handler that the cancel has made ready, in the child: only a process whose
\* acceptor is open waits for the next signal.
ChildSignal(c) ==
  /\ child[c] = "session" /\ c \in inherited
  /\ inherited' = inherited \ {c}
  /\ armed' = [armed EXCEPT ![c] = c \in acceptor]
  /\ UNCHANGED <<kind, conn, hold, child, acceptor, parent, socket, sigchld, reply>>

Status(c, s) == reply' = [reply EXCEPT ![c] = @ \o s]

\* A process ends, its copies are closed and its parent is told.
Exits(c) ==
  /\ child' = [child EXCEPT ![c] = "zombie"]
  /\ hold' = [x \in Conn |-> hold[x] \ {c}]
  /\ acceptor' = acceptor \ {c}
  /\ sigchld' = Asio

\* http_server, do_read: the request names a program that execv finds.
ExecCgi(c) ==
  /\ kind = "http" /\ child[c] = "session"
  /\ conn[c] \in {"accepted", "gone"}
  /\ child' = [child EXCEPT ![c] = "cgi"]
  /\ Status(c, <<"200">>)
  /\ UNCHANGED <<kind, conn, hold, acceptor, parent, socket, sigchld, armed, inherited>>

\* It does not, because there is none or the request came in more than one piece.
ExecFails(c) ==
  /\ kind = "http" /\ child[c] = "session"
  /\ Exits(c)
  /\ Status(c, <<"200", "404">>)
  /\ UNCHANGED <<kind, conn, parent, socket, armed, inherited>>

CgiExits(c) ==
  /\ child[c] = "cgi"
  /\ Exits(c)
  /\ UNCHANGED <<kind, conn, parent, socket, armed, inherited, reply>>

\* http_server gets an end of file instead of a request; a session of the others may end
\* at any time.  The process ends when its io_context has nothing to wait for.
SessionExits(c) ==
  /\ child[c] = "session" /\ (kind = "http" => conn[c] = "gone")
  /\ c \notin inherited /\ ~armed[c]
  /\ Exits(c)
  /\ UNCHANGED <<kind, conn, parent, socket, armed, inherited, reply>>

-----------------------------------------------------------------------------
Server == (\E c \in Conn : Accept(c) \/ Reap(c)) \/ Fork \/ ForkFails \/ Close \/ Wait
          \/ OnSignal \/ ReapEnds

Child(c) == ChildSignal(c) \/ ExecFails(c) \/ CgiExits(c) \/ SessionExits(c)

Next ==
  \/ Server
  \/ \E c \in Conn : Child(c) \/ ExecCgi(c) \/ Dial(c) \/ Leave(c)

Spec == Init /\ [][Next]_vars

\* The server is scheduled, and accepts whoever has waited long enough; so is a child of
\* http_server, which ends at an end of file or when its CGI program does.  Nothing ends a
\* session of socks_server whose other side is silent, or a shell that waits for a program.
FairSpec ==
  /\ Spec /\ WF_vars(Server) /\ WF_vars(OnSignal \/ ReapEnds \/ \E c \in Conn : Reap(c))
  /\ \A c \in Conn : SF_vars(Accept(c)) /\ WF_vars(ChildSignal(c)) /\ WF_vars(CgiExits(c))
                     /\ WF_vars(kind = "http" /\ SessionExits(c))

-----------------------------------------------------------------------------
\* The types of connections, processes and descriptors.  No client gets a status line
\* that follows one of another request.
TypeOK ==
  /\ kind \in Kinds
  /\ conn \in [Conn -> {"out", "queued", "accepted", "gone"}]
  /\ hold \in [Conn -> SUBSET Process]
  /\ child \in [Conn -> {"none", "session", "cgi", "zombie", "reaped"}]
  /\ acceptor \subseteq Process
  /\ parent \in {"poll", "accepted", "close", "reap", "wait"}
  /\ socket \in Conn \cup {NoConn}
  /\ sigchld \in BOOLEAN
  /\ armed \in [Process -> BOOLEAN]
  /\ inherited \subseteq Conn
  /\ reply \in [Conn -> {<<>>, <<"200">>, <<"200", "404">>}]

\* No child is forgotten, however many end while one signal is handled: a zombie is
\* found by the handler that runs or by the next one.
NoZombieIsForgotten ==
  Asio /\ Zombies # {} => sigchld \/ parent = "reap"

\* The sockets of np_simple whose fork has failed: it goes on without closing them.
Leaked == {c \in Conn : /\ kind = "simple" /\ child[c] = "none"
                        /\ conn[c] \in {"accepted", "gone"} /\ socket # c}

\* A socket is open in the process of its connection and, while that is being forked, in
\* the server: no other process keeps a client's connection from ending.  But the socket
\* of a client for which np_simple could not fork stays open in the server, and in every
\* process that it forks from then on.
SocketsAreNotShared ==
  \A c \in Conn \ Leaked : hold[c] \subseteq {c, Parent} /\ (Parent \in hold[c] => socket = c)

\* A client whose process has ended finds its connection closed, as soon as the server
\* is back at its poll: as far as the server and its children go, for a program that a
\* shell leaves running has the socket of its client open too.
EndIsSeen ==
  \A c \in Conn : child[c] = "reaped" /\ parent = "poll" => hold[c] = {}

\* A client that waits is accepted: by http_server and socks_server whatever the others
\* do, by np_simple unless the shell of another one stays for ever.  A process that has
\* ended is reaped, and a process of http_server ends when its client has left: also one
\* that was forked with a signal still to handle, which must not wait for the next.
EveryoneIsServed ==
  \A c \in Conn :
    /\ \/ conn[c] = "queued" ~> conn[c] # "queued"
       \/ \E d \in Conn : <>[](kind = "simple" /\ child[d] = "session")
    /\ (\/ child[c] = "zombie"
        \/ kind = "http" /\ child[c] = "session" /\ conn[c] = "gone") ~> child[c] = "reaped"
=============================================================================
