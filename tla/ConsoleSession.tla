--------------------------- MODULE ConsoleSession ---------------------------
(***************************************************************************)
(* console.cgi of project 3, which connects to its servers itself, and of   *)
(* project 4, which connects through a SOCKS server before it serves any.   *)
(*                                                                         *)
(* Each session reads what a remote shell writes, and for a prompt sends    *)
(* the next line of its file.  A shell's output is characters: a percent,   *)
(* a blank and any other; it may be read in any pieces.                     *)
(***************************************************************************)
EXTENDS Integers, Sequences, FiniteSets, SequencesExt

CONSTANTS
  Slot,      \* the servers a page has room for, 0, 1, ... (five in the source)
  Queries,   \* the query strings: sequences of parameters
  Files,     \* Files[f]: the lines of file f, TRUE for exit
  Outputs,   \* what a command may print
  MaxPrompts \* bound: prompts a shell prints

Char == {"percent", "blank", "other"}

\* One parameter: the letter h, p or f and the slot, and its value, 0 for none.
Parameter == [letter : {"h", "p", "f"}, slot : Slot, value : Nat]

ASSUME ConsoleQueryAssumption == Queries \subseteq Seq(Parameter)
ASSUME ConsoleSlotAssumption  == IsFiniteSet(Slot) /\ Slot = 0..(Cardinality(Slot) - 1)
ASSUME ConsoleFileAssumption  == \A f \in DOMAIN Files : Files[f] \in Seq(BOOLEAN)
ASSUME ConsoleOutputAssumption == Outputs \subseteq Seq(Char)

VARIABLES
  version,   \* 3 or 4: the project
  servers,   \* servers[i]: what the query says of slot i
  main,      \* "launch", "run", "done", and "dead" after exit(1) or an exception
  slot,      \* the slot main launches
  st,        \* st[i]: what session i is waiting for
  line,      \* line[i]: lines of the file session i has sent, empty ones included
  shell,     \* shell[i]: "off", "print", "read", "closed"
  toPage,    \* toPage[i]: what shell i has written and session i has not read
  toShell,   \* toShell[i]: commands shell i has not read, TRUE for exit
  history    \* history[i], see NoHistory

session == <<st, line>>
remote == <<shell, toPage, toShell>>
vars == <<version, servers, main, slot, session, remote, history>>

\* prompts: "% " the shell has written as a prompt; fakes: those in the output of a
\* command; missed: some "% " was split over two reads, or was not alone in its chunk.
NoHistory == [prompts |-> 0, fakes |-> 0, missed |-> FALSE]

-----------------------------------------------------------------------------
\* The query.

\* The parameters for a field of slot i; one without value is skipped.
Given(query, i, letter) ==
  {j \in DOMAIN query : query[j].letter = letter /\ query[j].slot = i /\ query[j].value # 0}

\* The last of several counts; an empty field stays empty.
Field(query, i, letter) ==
  LET given == Given(query, i, letter)
  IN  IF given = {} THEN 0 ELSE query[Max(given)].value

Parsed(query) ==
  [i \in Slot |-> [h |-> Field(query, i, "h"), p |-> Field(query, i, "p"), f |-> Field(query, i, "f")]]

Exists(i) == servers[i].h # 0 /\ servers[i].p # 0 /\ servers[i].f # 0

File(i) == servers[i].f

Init ==
  /\ version \in {3, 4}
  /\ \E q \in Queries : servers = Parsed(q)
  /\ main = "launch" /\ slot = 0
  /\ st = [i \in Slot |-> "none"]
  /\ line = [i \in Slot |-> 0]
  /\ shell = [i \in Slot |-> "off"]
  /\ toPage = [i \in Slot |-> <<>>]
  /\ toShell = [i \in Slot |-> <<>>]
  /\ history = [i \in Slot |-> NoHistory]

-----------------------------------------------------------------------------
\* main launches the sessions, one after the other.

To(i, state) == st' = [st EXCEPT ![i] = state]

\* A session ends, and with it its connection: the shell finds its input closed.
Finish(i) == To(i, "done")

Skip ==
  /\ main = "launch" /\ slot \in Slot /\ ~Exists(slot)
  /\ slot' = slot + 1
  /\ UNCHANGED <<version, servers, main, session, remote, history>>

\* exit(1), or an exception that nobody catches: the page and all sessions end.
Die ==
  /\ main' = "dead"
  /\ UNCHANGED <<version, servers, slot, session, remote, history>>

NoFile ==
  /\ main = "launch" /\ slot \in Slot /\ Exists(slot) /\ st[slot] = "none"
  /\ File(slot) \notin DOMAIN Files
  /\ Die

\* Mutant of Blocking: the two ways to launch a session are mixed up.
BlockingBefore4 == version < 4

Blocking == version = 4

\* Project 3: the session starts to resolve; project 4: it resolves, connects to the
\* SOCKS server and asks it for the shell, all before the constructor's caller goes on.
Launch ==
  /\ main = "launch" /\ slot \in Slot /\ Exists(slot) /\ st[slot] = "none"
  /\ File(slot) \in DOMAIN Files
  /\ IF Blocking
     THEN To(slot, "reply") /\ UNCHANGED slot
     ELSE To(slot, "resolve") /\ slot' = slot + 1
  /\ UNCHANGED <<version, servers, main, line, remote, history>>

\* Nobody answers at the SOCKS server, or a name is not found.
LaunchThrows ==
  /\ main = "launch" /\ version = 4 /\ slot \in Slot /\ Exists(slot) /\ st[slot] = "none"
  /\ File(slot) \in DOMAIN Files
  /\ Die

\* The reply has come.  Its status is ignored: after a REJECT the session reads until
\* the SOCKS server closes.
ReplyComes ==
  /\ main = "launch" /\ version = 4 /\ slot \in Slot /\ st[slot] = "reply"
  /\ \E s \in {"print", "closed"} : shell' = [shell EXCEPT ![slot] = s]
  /\ To(slot, "read")
  /\ slot' = slot + 1
  /\ UNCHANGED <<version, servers, main, line, toPage, toShell, history>>

\* The SOCKS server closes without a reply: an exception.
NoReply ==
  /\ main = "launch" /\ version = 4 /\ slot \in Slot /\ st[slot] = "reply"
  /\ Die

Run ==
  /\ main = "launch" /\ slot \notin Slot
  /\ main' = "run"
  /\ UNCHANGED <<version, servers, slot, session, remote, history>>

-----------------------------------------------------------------------------
\* The handlers, which run one at a time.

\* Mutant of Running: the handlers run while main still launches sessions.
RunningEarly == main \in {"launch", "run"}

Running == main = "run"

OnResolve(i) ==
  /\ Running /\ st[i] = "resolve"
  /\ To(i, "connect") \/ Finish(i)
  /\ UNCHANGED <<version, servers, main, slot, line, remote, history>>

OnConnect(i) ==
  /\ Running /\ st[i] = "connect"
  /\ \/ /\ To(i, "read")
        /\ shell' = [shell EXCEPT ![i] = "print"]
     \/ Finish(i) /\ UNCHANGED shell
  /\ UNCHANGED <<version, servers, main, slot, line, toPage, toShell, history>>

\* The positions of "% " in a text.
Prompts(s) == {j \in 1..(Len(s) - 1) : s[j] = "percent" /\ s[j + 1] = "blank"}

\* The line is exit.  After the last line, getline leaves an empty one.
IsExit(i, n) == n \in DOMAIN Files[File(i)] /\ Files[File(i)][n]

\* handle_async_write.
Send(i) ==
  /\ toShell' = [toShell EXCEPT ![i] = Append(@, IsExit(i, line[i] + 1))]
  /\ line' = [line EXCEPT ![i] = @ + 1]

\* Mutant of Hears: a prompt must be all of the chunk.
HearsAlone(chunk) == Len(chunk) = 2 /\ Prompts(chunk) # {}

\* A prompt is looked for in this chunk alone.
Hears(chunk) == Prompts(chunk) # {}

\* on_read: one chunk, and one command if there is a prompt in it, or several.
OnRead(i) ==
  /\ Running /\ st[i] = "read" /\ toPage[i] # <<>>
  /\ \E k \in 1..Len(toPage[i]) :
       LET chunk == SubSeq(toPage[i], 1, k)
           rest  == SubSeq(toPage[i], k + 1, Len(toPage[i]))
       IN  /\ toPage' = [toPage EXCEPT ![i] = rest]
           /\ IF Hears(chunk) THEN Send(i) ELSE UNCHANGED <<toShell, line>>
           /\ history' = [history EXCEPT ![i].missed =
                @ \/ Cardinality(Prompts(chunk)) > 1 \/ k \in Prompts(toPage[i])]
  /\ UNCHANGED <<version, servers, main, slot, st, shell>>

AtEndOfFile(i) == toPage[i] = <<>> /\ shell[i] = "closed"

OnEndOfFile(i) ==
  /\ Running /\ st[i] = "read" /\ AtEndOfFile(i)
  /\ Finish(i)
  /\ UNCHANGED <<version, servers, main, slot, line, remote, history>>

\* Mutant of HasDeadline: only the connection has one.
HasDeadlineToConnect(i) == version = 3 /\ st[i] = "connect"

HasDeadline(i) == version = 3 /\ st[i] \in {"connect", "read"}

\* The deadline of 30 seconds of project 3, set on connecting: it may come at any time.
OnTimeout(i) ==
  /\ Running /\ HasDeadline(i)
  /\ Finish(i)
  /\ UNCHANGED <<version, servers, main, slot, line, remote, history>>

\* No session is left: run returns.
Return ==
  /\ Running /\ \A i \in Slot : st[i] \in {"none", "done"}
  /\ main' = "done"
  /\ UNCHANGED <<version, servers, slot, session, remote, history>>

-----------------------------------------------------------------------------
\* The shells.

ShellPrints(i) ==
  /\ shell[i] = "print" /\ history[i].prompts < MaxPrompts
  /\ toPage' = [toPage EXCEPT ![i] = @ \o <<"percent", "blank">>]
  /\ shell' = [shell EXCEPT ![i] = "read"]
  /\ history' = [history EXCEPT ![i].prompts = @ + 1]
  /\ UNCHANGED <<version, servers, main, slot, session, toShell>>

\* A command runs and prints; exit closes the connection.
ShellReads(i) ==
  /\ shell[i] = "read" /\ toShell[i] # <<>>
  /\ toShell' = [toShell EXCEPT ![i] = Tail(@)]
  /\ IF Head(toShell[i])
     THEN shell' = [shell EXCEPT ![i] = "closed"] /\ UNCHANGED <<toPage, history>>
     ELSE \E out \in Outputs :
            /\ shell' = [shell EXCEPT ![i] = "print"]
            /\ toPage' = [toPage EXCEPT ![i] = @ \o out]
            /\ history' = [history EXCEPT ![i].fakes = @ + Cardinality(Prompts(out))]
  /\ UNCHANGED <<version, servers, main, slot, session>>

Session(i) ==
  OnResolve(i) \/ OnConnect(i) \/ OnRead(i) \/ OnEndOfFile(i)

Shell(i) == ShellPrints(i) \/ ShellReads(i)

Launching == Skip \/ NoFile \/ Launch \/ LaunchThrows \/ ReplyComes \/ NoReply \/ Run

Next ==
  \/ Launching \/ Return
  \/ \E i \in Slot : Session(i) \/ OnTimeout(i) \/ Shell(i)

Spec == Init /\ [][Next]_vars

\* main and the handlers run; a SOCKS server replies or closes; a shell prints and reads;
\* the deadline comes.
FairSpec ==
  /\ Spec /\ WF_vars(Launching) /\ WF_vars(Return)
  /\ \A i \in Slot : WF_vars(Session(i)) /\ WF_vars(OnTimeout(i)) /\ WF_vars(Shell(i))

-----------------------------------------------------------------------------
\* The types; what a session waits for depends on the project.
TypeOK ==
  /\ version \in {3, 4}
  /\ servers \in [Slot -> [h : Nat, p : Nat, f : Nat]]
  /\ main \in {"launch", "run", "done", "dead"}
  /\ slot \in 0..Cardinality(Slot)
  /\ st \in [Slot -> {"none", "read", "done"} \cup
                     IF version = 3 THEN {"resolve", "connect"} ELSE {"reply"}]
  /\ line \in [Slot -> Nat]
  /\ shell \in [Slot -> {"off", "print", "read", "closed"}]
  /\ toPage \in [Slot -> Seq(Char)]
  /\ toShell \in [Slot -> Seq(BOOLEAN)]

\* A command is sent only for a "% ", and, unless a command prints "% " itself, never
\* while another one runs.  Every "% " that has been read was answered with a line,
\* unless two reads or one prompt too many made one go unnoticed.
OneCommandPerPrompt ==
  \A i \in Slot :
    LET asked == history[i].prompts + history[i].fakes
    IN  /\ line[i] <= asked
        /\ (history[i].fakes = 0 /\ toShell[i] # <<>>) => shell[i] = "read" /\ Len(toShell[i]) = 1
        /\ (st[i] = "read" /\ toPage[i] = <<>> /\ ~history[i].missed) => line[i] = asked

\* All or nothing: a page that dies over one of its servers has sent no command to any.
NoCommandBeforeDeath == main = "dead" => \A i \in Slot : line[i] = 0 /\ st[i] # "done"

EndsInExit(i) == \E n \in DOMAIN Files[File(i)] : Files[File(i)][n]

\* A page comes to its end: with the deadline of project 3 always; in project 4, where
\* a session waits for as long as it takes, if every file has an exit and every prompt
\* was noticed.
PageEnds ==
  main = "run" ~>
    \/ main = "done"
    \/ version = 4 /\ \E i \in Slot : st[i] # "none" /\ (history[i].missed \/ ~EndsInExit(i))
=============================================================================
