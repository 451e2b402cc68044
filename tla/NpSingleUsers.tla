---------------------------- MODULE NpSingleUsers ----------------------------
(***************************************************************************)
(* The single-process chat shell, np_single_proc.cpp, as its users see it:  *)
(* names, news, environments, prompts, and clients that are cut off.  The    *)
(* pipes of their commands are NpSingle.                                    *)
(*                                                                         *)
(* The server handles one socket at a time, and a handler is one action.    *)
(* What matters of its writes is how many go to each socket: the peer of a   *)
(* closed socket answers the first with a reset, and the next raises SIGPIPE, *)
(* which nothing catches.                                                   *)
(***************************************************************************)
EXTENDS Integers, Sequences, FiniteSets

CONSTANTS
  Conn,        \* connections; each is accepted at most once
  NoConn,
  KMaxClient,  \* number of client ids
  Names,       \* names clients give themselves
  NoName,      \* "(no name)"
  Unknown,     \* nothing has been heard of a client
  Left,        \* a client has been heard to leave
  Vars,        \* variables of an environment other than PATH
  Commands,    \* what clients type
  Pieces,      \* what a part of a line may read as
  Leavers,     \* bound: connections that end otherwise than by exit
  MaxLines,    \* bound: lines typed
  MaxCuts      \* bound: reads of a client that end within a line

\* The commands: the name of name, the id of tell, the variable of setenv and printenv.
\* yell stands for every command that is announced, and so for those with a user pipe;
\* exit also for a program whose output file cannot be opened.  garbled is a program with
\* something else than a number after |, !, > or <, such as ls >file or cat |x.
Command ==
  [kind : {"yell", "who", "run", "garbled", "unknown", "blank", "exit"}]
  \cup [kind : {"name"}, name : Names]
  \cup [kind : {"tell"}, id : 0..KMaxClient]
  \cup [kind : {"setenv", "printenv"}, var : Vars \cup {"PATH"}]

ASSUME UsersConnAssumption    == NoConn \notin Conn /\ Leavers \subseteq Conn
ASSUME UsersLimitAssumption   == KMaxClient \in Nat \ {0} /\ MaxLines \in Nat
                                 /\ MaxCuts \in Nat
ASSUME UsersNameAssumption    == /\ {NoName, Unknown, Left} \cap Names = {}
                                 /\ Cardinality({NoName, Unknown, Left}) = 3
ASSUME UsersCommandAssumption == Commands \subseteq Command /\ Pieces \subseteq Command

NotYet == -2   \* a connection that has not been accepted
Gone   == -1   \* one that has logged out

VARIABLES
  up,        \* the server runs
  id,        \* id[c], as in NpSingle
  name,      \* name[c]
  env,       \* env[c]: env_table, the values of the variables that are set
  busy,      \* the client whose programs RunShell waits for, or NoConn
  sock,      \* sock[c]: "out", "open", "closed" (by the peer), "struck" (written to since;
             \*   a reset is on its way), "reset", "gone" (closed by the server as well)
  typed,     \* typed[c]: lines the server has not read
  prompts,   \* prompts[c]: those c has not answered with a line
  lines,     \* lines typed so far
  view,      \* history: view[c][d]: what the news have told c about the name of d
  rude,      \* history: c aborted its connection, or was written to after it closed it
  hasty,     \* history: c typed a line without a prompt
  cut,       \* history: cut[c]: reads that ended within a line of c
  swallowed, \* history: a line of c became an argument of the one before
  thrown     \* history: a line made RunShell throw

client == <<id, name, env, view>>
history == <<rude, hasty, cut, swallowed, thrown>>
vars == <<up, client, busy, sock, typed, prompts, lines, history>>

Everyone == {c \in Conn : id[c] >= 0}

\* env_table: the values of the variables it has.  "default" is bin:. for PATH.  A line
\* starts with init_env, which makes it the environment of the process, and no other.
NewEnv == [v \in {"PATH"} |-> "default"]

Init ==
  /\ up = TRUE
  /\ id = [c \in Conn |-> NotYet]
  /\ name = [c \in Conn |-> NoName]
  /\ env = [c \in Conn |-> NewEnv]
  /\ busy = NoConn
  /\ sock = [c \in Conn |-> "out"]
  /\ typed = [c \in Conn |-> <<>>]
  /\ prompts = [c \in Conn |-> 0]
  /\ lines = 0
  /\ view = [c \in Conn |-> [d \in Conn |-> Unknown]]
  /\ rude = [c \in Conn |-> FALSE]
  /\ hasty = [c \in Conn |-> FALSE]
  /\ cut = [c \in Conn |-> 0]
  /\ swallowed = [c \in Conn |-> FALSE]
  /\ thrown = FALSE

-----------------------------------------------------------------------------
\* The clients and the network, as long as the server runs.

Dial(c) ==
  /\ up /\ sock[c] = "out"
  /\ sock' = [sock EXCEPT ![c] = "open"]
  /\ UNCHANGED <<up, client, busy, typed, prompts, lines, history>>

Type(c, cmd) ==
  /\ up /\ sock[c] = "open" /\ id[c] >= 0 /\ lines < MaxLines
  /\ typed' = [typed EXCEPT ![c] = Append(@, cmd)]
  /\ lines' = lines + 1
  /\ IF prompts[c] > 0
     THEN prompts' = [prompts EXCEPT ![c] = @ - 1] /\ UNCHANGED hasty
     ELSE hasty' = [hasty EXCEPT ![c] = TRUE] /\ UNCHANGED prompts
  /\ UNCHANGED <<up, client, busy, sock, rude, cut, swallowed, thrown>>

\* The client closes its socket; with output of the server unread that is a reset.
HangUp(c) ==
  /\ up /\ c \in Leavers /\ sock[c] = "open"
  /\ \E s \in {"closed", "reset"} :
       /\ sock' = [sock EXCEPT ![c] = s]
       /\ rude' = [rude EXCEPT ![c] = s = "reset"]
  /\ UNCHANGED <<up, client, busy, typed, prompts, lines, hasty, cut, swallowed, thrown>>

\* A write to a closed socket is answered.
ResetArrives(c) ==
  /\ up /\ sock[c] = "struck"
  /\ sock' = [sock EXCEPT ![c] = "reset"]
  /\ UNCHANGED <<up, client, busy, typed, prompts, lines, history>>

-----------------------------------------------------------------------------
\* What a handler writes: n[c] writes to each client.

\* k writes to c, and one to each of S.
Count(c, k, S) == [d \in Conn |-> (IF d = c THEN k ELSE 0) + (IF d \in S THEN 1 ELSE 0)]

\* No write meets a socket that has been reset; leaver is closed by the server.
Writes(n, leaver) ==
  /\ \A c \in Conn : n[c] > 0 => sock[c] # "reset"
  /\ sock' = [c \in Conn |-> IF c = leaver THEN "gone"
                             ELSE IF n[c] > 0 /\ sock[c] = "closed" THEN "struck" ELSE sock[c]]
  /\ rude' = [c \in Conn |-> rude[c] \/ (n[c] > 0 /\ sock[c] = "closed" /\ c # leaver)]
  /\ up' = up

\* One does: it had been reset before, or the answer to an earlier write has come.
SigPipe(n, leaver) ==
  /\ \E c \in Conn : n[c] > 0 /\ \/ sock[c] \in {"struck", "reset"}
                                 \/ sock[c] = "closed" /\ n[c] > 1
  /\ rude' = [c \in Conn |-> rude[c] \/ (n[c] > 0 /\ sock[c] = "closed" /\ c # leaver)]
  /\ up' = FALSE

\* The news of BroadCast: all of S hear that d is now called m.
News(S, d, m) == [c \in Conn |-> IF c \in S THEN [view[c] EXCEPT ![d] = m] ELSE view[c]]

-----------------------------------------------------------------------------
\* main.

Ids == {id[c] : c \in Everyone}

\* Mutant of Prompt: the welcome ends with one of its own.
PromptTwice(c) == [prompts EXCEPT ![c] = IF id[c] = NotYet THEN 2 ELSE @ + 1]

\* "% "
Prompt(c) == [prompts EXCEPT ![c] = @ + 1]

\* The smallest free id, 0 when the table is full.
SetId ==
  IF 1..KMaxClient \subseteq Ids THEN 0
  ELSE CHOOSE i \in 1..KMaxClient \ Ids : \A j \in 1..(i - 1) : j \in Ids

\* A client is taken in: three lines of welcome, the news, and a prompt.
Accept(c) ==
  /\ up /\ busy = NoConn /\ id[c] = NotYet /\ sock[c] # "out"
  /\ LET n == Count(c, 4, Everyone \cup {c})
     IN  \/ /\ Writes(n, NoConn)
            /\ id' = [id EXCEPT ![c] = SetId]
            /\ view' = News(Everyone \cup {c}, c, NoName)
            /\ prompts' = Prompt(c)
         \/ SigPipe(n, NoConn) /\ UNCHANGED <<id, view, prompts, sock>>
  /\ UNCHANGED <<name, env, busy, typed, lines, hasty, cut, swallowed, thrown>>

\* Mutant of Goodbye: a prompt follows the news.
GoodbyeAndPrompt(c) == Count(c, 1, Everyone)

\* The writes of a logout: the leaver is still among those who hear of it.
Goodbye(c) == Count(c, 0, Everyone)

\* BroadCast, RemoveClient, close, FD_CLR.
Logout(c) ==
  \/ /\ Writes(Goodbye(c), c)
     /\ view' = News(Everyone, c, Left)
     /\ id' = [id EXCEPT ![c] = Gone]
  \/ SigPipe(Goodbye(c), c) /\ UNCHANGED <<sock, view, id>>

\* Mutant of AtEndOfFile: read failed, and the socket is left for the next round.
AtEndOfFileOnly(c) == typed[c] = <<>> /\ sock[c] \in {"closed", "struck"}

\* read returns 0, or -1 after a reset; what was typed before is read first.
AtEndOfFile(c) == typed[c] = <<>> /\ sock[c] \in {"closed", "struck", "reset"}

EndOfFile(c) ==
  /\ up /\ busy = NoConn /\ id[c] >= 0 /\ AtEndOfFile(c)
  /\ Logout(c)
  /\ UNCHANGED <<name, env, busy, typed, prompts, lines, hasty, cut, swallowed, thrown>>

-----------------------------------------------------------------------------
\* RunShell, one line.

\* Mutant of NameTaken: the clients are numbered from zero.
NameTakenBeforeLast(c, n) ==
  \E d \in Everyone : id[d] \in 1..(KMaxClient - 1) /\ d # c /\ name[d] = n

\* The loop of name: clients with an id of their own.
NameTaken(c, n) == \E d \in Everyone : id[d] > 0 /\ id[d] # id[c] /\ name[d] = n

\* IdentifyClientById: any of several with id 0.
WithId(i) == {d \in Everyone : id[d] = i}

\* All of cmd succeeds, with the writes n apart from the prompt.
Completes(c, n) ==
  /\ prompts' = Prompt(c)
  /\ Writes([n EXCEPT ![c] = @ + 1], NoConn)

Fails(c, n) == SigPipe([n EXCEPT ![c] = @ + 1], NoConn) /\ UNCHANGED <<sock, prompts>>

Prints(c, n) == Completes(c, n) \/ Fails(c, n)

\* yell, who, a blank line, an unknown command.
Plain(c, cmd) ==
  /\ cmd.kind \in {"yell", "who", "blank", "unknown"}
  /\ Prints(c, CASE cmd.kind = "yell"  -> Count(c, 0, Everyone)
                 [] cmd.kind = "who"   -> Count(c, 1 + Cardinality(Ids \ {0}), {})
                 [] cmd.kind = "blank" -> Count(c, 0, {})
                 [] OTHER              -> Count(c, 1, {}))
  /\ UNCHANGED <<client, busy, thrown>>

\* A program is unknown while PATH is not the default one.  RunShell waits for it, unless
\* its output is for a later line.
Run(c, cmd) ==
  /\ cmd.kind = "run"
  /\ IF env[c]["PATH"] = "default"
     THEN \/ busy' = c /\ UNCHANGED <<up, sock, prompts, rude>>
          \/ Prints(c, Count(c, 0, {})) /\ UNCHANGED busy
     ELSE Prints(c, Count(c, 1, {})) /\ UNCHANGED busy
  /\ UNCHANGED <<client, thrown>>

Tell(c, cmd) ==
  /\ cmd.kind = "tell"
  /\ IF WithId(cmd.id) = {} THEN Prints(c, Count(c, 1, {}))
     ELSE \E d \in WithId(cmd.id) : Prints(c, Count(d, 1, {}))
  /\ UNCHANGED <<client, busy, thrown>>

\* Mutant of Name: the news come first, then the test.
NameAnnouncedFirst(c, cmd) ==
  /\ cmd.kind = "name"
  /\ Prints(c, Count(c, 0, Everyone))
  /\ view' = News(Everyone, c, cmd.name)
  /\ name' = IF NameTaken(c, cmd.name) THEN name ELSE [name EXCEPT ![c] = cmd.name]
  /\ UNCHANGED <<id, env, busy, thrown>>

Name(c, cmd) ==
  /\ cmd.kind = "name"
  /\ IF NameTaken(c, cmd.name)
     THEN Prints(c, Count(c, 1, {})) /\ UNCHANGED <<name, view>>
     ELSE /\ Prints(c, Count(c, 0, Everyone))
          /\ view' = News(Everyone, c, cmd.name)
          /\ name' = [name EXCEPT ![c] = cmd.name]
  /\ UNCHANGED <<id, env, busy, thrown>>

\* Any value but the default one.  PATH goes into pathV as well.
SetEnv(c, cmd) ==
  /\ cmd.kind = "setenv"
  /\ env' = [env EXCEPT ![c] = [v \in DOMAIN @ \cup {cmd.var} |->
                                  IF v = cmd.var THEN "set" ELSE @[v]]]
  /\ Prints(c, Count(c, 0, {}))
  /\ UNCHANGED <<id, name, view, busy, thrown>>

\* Nobody catches what RunShell throws.
Throw == up' = FALSE /\ thrown' = TRUE /\ UNCHANGED <<sock, prompts, rude>>

\* printenv of a variable that is not set makes a string of the null pointer.
PrintEnv(c, cmd) ==
  /\ cmd.kind = "printenv"
  /\ \/ cmd.var \in DOMAIN env[c] /\ Prints(c, Count(c, 1, {})) /\ UNCHANGED thrown
     \/ cmd.var \notin DOMAIN env[c] /\ Throw
  /\ UNCHANGED <<client, busy>>

\* stoi throws on what is not a number.
Garbled(c, cmd) ==
  /\ cmd.kind = "garbled"
  /\ Throw
  /\ UNCHANGED <<client, busy>>

Exit(c, cmd) ==
  /\ cmd.kind = "exit"
  /\ Logout(c)
  /\ UNCHANGED <<name, env, prompts, busy, thrown>>

\* A read takes the lines that have come, and runs them as one: the words of the second
\* line and of those after it are arguments.
ReadLines(c, cmd) ==
  /\ cmd = Head(typed[c])
  /\ \E k \in 1..Len(typed[c]) :
       /\ typed' = [typed EXCEPT ![c] = SubSeq(@, k + 1, Len(@))]
       /\ swallowed' = [swallowed EXCEPT ![c] = @ \/ k > 1]
  /\ UNCHANGED cut

\* What the first part of a line may read as.  (The rest, as in tell 2 exit, may be anything.)
Beginnings(cmd) ==
  {p \in Pieces : \/ p.kind \in {cmd.kind, "unknown"}
                  \/ {p.kind, cmd.kind} \subseteq {"yell", "run", "garbled"}}

\* The last line the read takes has come only in part.  The rest is a line of its own,
\* or the beginning of the next one.
ReadPart(c, cmd) ==
  /\ cut[c] < MaxCuts
  /\ \E k \in 1..Len(typed[c]), rest \in Pieces :
       /\ typed' = [typed EXCEPT ![c] = <<rest>> \o SubSeq(@, k + 1, Len(@))]
       /\ swallowed' = [swallowed EXCEPT ![c] = @ \/ k > 1]
       /\ cmd \in (IF k = 1 THEN Beginnings(Head(typed[c])) ELSE {Head(typed[c])})
  /\ cut' = [cut EXCEPT ![c] = @ + 1]

RunLine(c) ==
  /\ up /\ busy = NoConn /\ id[c] >= 0 /\ typed[c] # <<>>
  /\ \E cmd \in Command :
       /\ ReadLines(c, cmd) \/ ReadPart(c, cmd)
       /\ \/ Plain(c, cmd) \/ Run(c, cmd) \/ Tell(c, cmd) \/ Name(c, cmd)
          \/ SetEnv(c, cmd) \/ PrintEnv(c, cmd) \/ Garbled(c, cmd) \/ Exit(c, cmd)
  /\ UNCHANGED <<lines, hasty>>

\* The programs of the line have ended, with a line of output or none.  (SIGPIPE ends the
\* program that meets a reset, and then the server, which writes the prompt.)
ProgramsEnd(c) ==
  /\ up /\ busy = c
  /\ \E k \in {0, 1} : Prints(c, Count(c, k, {}))
  /\ busy' = NoConn
  /\ UNCHANGED <<client, typed, lines, hasty, cut, swallowed, thrown>>

-----------------------------------------------------------------------------
Next ==
  \E c \in Conn :
    \/ Dial(c) \/ (\E cmd \in Commands : Type(c, cmd)) \/ HangUp(c) \/ ResetArrives(c)
    \/ Accept(c) \/ RunLine(c) \/ ProgramsEnd(c) \/ EndOfFile(c)

Spec == Init /\ [][Next]_vars

\* select returns every socket that is ready, and the loop goes through all of them.  A
\* program may run for ever.
FairSpec ==
  Spec /\ \A c \in Conn : WF_vars(Accept(c)) /\ WF_vars(RunLine(c)) /\ WF_vars(EndOfFile(c))

-----------------------------------------------------------------------------
Environment == UNION {[V \cup {"PATH"} -> {"default", "set"}] : V \in SUBSET Vars}

\* The types of clients, sockets and what the users know; a client in the table has a
\* socket that the server has not closed.
TypeOK ==
  /\ up \in BOOLEAN /\ thrown \in BOOLEAN
  /\ id \in [Conn -> {NotYet, Gone} \cup 0..KMaxClient]
  /\ name \in [Conn -> Names \cup {NoName}]
  /\ env \in [Conn -> Environment]
  /\ sock \in [Conn -> {"out", "open", "closed", "struck", "reset", "gone"}]
  /\ typed \in [Conn -> Seq(Command)]
  /\ prompts \in [Conn -> Nat] /\ lines \in 0..MaxLines
  /\ busy \in {NoConn} \cup Everyone
  /\ view \in [Conn -> [Conn -> Names \cup {NoName, Unknown, Left}]]
  /\ rude \in [Conn -> BOOLEAN] /\ hasty \in [Conn -> BOOLEAN]
  /\ cut \in [Conn -> 0..MaxCuts] /\ swallowed \in [Conn -> BOOLEAN]
  /\ \A c \in Conn : /\ sock[c] = "out"  => id[c] = NotYet
                     /\ sock[c] = "gone" => id[c] = Gone

\* Two clients with ids of their own never have the same name, whoever renames,
\* enters and leaves in between.  (One without an id is not asked.)
NamesAreUnique ==
  \A c, d \in Everyone :
    (c # d /\ id[c] > 0 /\ id[d] > 0 /\ name[c] = name[d]) => name[c] = NoName

\* The news agree with the table: a client that has heard of another knows its present
\* name, or that it has left.
NewsAreCurrent ==
  \A c \in Everyone, d \in Conn :
    view[c][d] # Unknown => view[c][d] = IF id[d] >= 0 THEN name[d] ELSE Left

\* The server ends only over a line that makes it throw (printenv of a variable that is
\* not set, a number that is none), or over a client that aborted its connection or was
\* written to after it had closed it: one that just hangs up, and is logged out before
\* anybody writes to it, does no harm, and neither does a line that comes in parts.
ServerSurvives == up \/ thrown \/ \E c \in Conn : rude[c]

\* A client that types a line only when it sees a prompt loses none, unless a read ended
\* within one of its lines, which is answered with a prompt too many.
NoLineIsSwallowed == \A c \in Conn : swallowed[c] => hasty[c] \/ cut[c] > 0

\* Every line is run and every end is noticed, as long as the server runs, unless it
\* waits for ever for the programs of a client.
EveryoneIsServed ==
  \/ <>[](busy # NoConn)
  \/ \A c \in Conn :
       []<>(~up \/ id[c] = Gone \/ (typed[c] = <<>> /\ sock[c] \in {"out", "open"}))
=============================================================================
