---------------------------- MODULE NpMultiTable ----------------------------
(***************************************************************************)
(* The multi-process chat server, np_multi_proc.cpp: its client table in   *)
(* shared memory and the messages that go through it.                      *)
(*                                                                         *)
(* One process serves each client.  The table has no lock: a process takes *)
(* a row (SetClient), fills it in, writes messages into the rows of others *)
(* and signals them (BroadCast, tell), shows the message in its own row    *)
(* when it is signalled (SigClient), and empties its row when it leaves    *)
(* (ResetShmCurrent).  An action is one access to the table or one signal, *)
(* so every interleaving of those is explored.                             *)
(***************************************************************************)
EXTENDS Integers, FiniteSets

CONSTANTS
  Proc,        \* the processes forked for clients; each serves one client
  NoProc,      \* pid -1
  KMaxClient,  \* rows of the table
  Commands,    \* which of "yell", "tell", "name", "exit", "hangup" clients use
  Names,       \* the names clients give themselves
  NoName,      \* "(no name)", and the name of a row nobody has had
  NoMsg,       \* the empty message; also: nothing is being sent
  Off,         \* no handler runs
  MaxCommands  \* bound: commands per client, its exit not counted

ASSUME ProcAssumption    == NoProc \notin Proc
ASSUME LimitAssumption   == KMaxClient \in Nat \ {0} /\ MaxCommands \in Nat
ASSUME NameAssumption    == NoName \notin Names
ASSUME CommandAssumption == Commands \subseteq {"yell", "tell", "name", "exit", "hangup"}

Rows == 1..KMaxClient
Null == 0        \* shmCurrentAddr before SetClient and after ResetShmCurrent

VARIABLES
  uid,       \* uid[i] = i, or -1
  pid,       \* pid[i]: a process, or NoProc for -1
  fd,        \* fd[i] is the socket; FALSE for -1.  (accept returns the same number each time)
  name,      \* name[i]
  msg,       \* msg[i]: the one message row i has room for
  row,       \* row[p]: shmCurrentAddr of p
  pc,        \* pc[p]: what p does next
  at,        \* at[p]: the row its loop is at, or the one it tells something to
  sending,   \* sending[p]: the message p is sending, or the name p is taking
  told,      \* told[p]: sendId, the id p tells something to, or 0
  signalled, \* signalled[p]: SIGUSR1 is "pending", or "now" if p has sent it itself
  handler,   \* handler[p]: Off, or the message SigClient has copied
  readers,   \* history: readers[i] are the processes that have read msg[i]
  twice,     \* history: some process has read a message twice
  sent,      \* sent[p]: commands p has run
  raced,     \* history: pairs that ran name at the same time
  shared,    \* history: two running processes have had the same row at a time
  lost,      \* history: rows whose message's sender was killed before its kill
  vacated,   \* history: processes whose target gave up its row after their test of it
  master     \* the process that accepts: "up", or "down" after SIGUSR1

table == <<uid, pid, fd, name, msg>>
history == <<readers, twice, sent, raced, shared, lost, vacated>>
vars == <<table, row, pc, at, sending, told, signalled, handler, history, master>>

\* A message is named by its sender and a number: 0 for ENTER, then one for each
\* command, the last for EXIT.
Message == [from : Proc, nr : 0..(MaxCommands + 1)]
Exiting == MaxCommands + 1

ASSUME MessageAssumption ==
  /\ NoMsg \notin Message \cup Names
  /\ Off \notin Message \cup {NoMsg}

Init ==
  /\ uid = [i \in Rows |-> -1]
  /\ pid = [i \in Rows |-> NoProc]
  /\ fd = [i \in Rows |-> FALSE]
  /\ name = [i \in Rows |-> NoName]
  /\ msg = [i \in Rows |-> NoMsg]
  /\ row = [p \in Proc |-> Null]
  /\ pc = [p \in Proc |-> "unborn"]
  /\ at = [p \in Proc |-> 0]
  /\ sending = [p \in Proc |-> NoMsg]
  /\ told = [p \in Proc |-> 0]
  /\ signalled = [p \in Proc |-> "no"]
  /\ handler = [p \in Proc |-> Off]
  /\ readers = [i \in Rows |-> {}]
  /\ twice = FALSE
  /\ sent = [p \in Proc |-> 0]
  /\ raced = {}
  /\ shared = FALSE
  /\ lost = {}
  /\ vacated = {}
  /\ master = "up"

Alive(p) == pc[p] \notin {"unborn", "dead", "gone"}

\* p's own code goes on; not while its signal handler runs, and after a signal to
\* itself only when that has been handled.
Step(p, from) == pc[p] = from /\ handler[p] = Off /\ signalled[p] # "now"

Goto(p, to) == pc' = [pc EXCEPT ![p] = to]

-----------------------------------------------------------------------------
\* main: the client's process is forked and fills in its row.

Fork(p) ==
  /\ master = "up"
  /\ pc[p] = "unborn"
  /\ at' = [at EXCEPT ![p] = 1]
  /\ Goto(p, "claim")
  /\ UNCHANGED <<table, row, sending, signalled, told, handler, history, master>>

\* Row i is p's: nothing but its uid says so yet.
Take(p, i) ==
  /\ uid' = [uid EXCEPT ![i] = i]
  /\ row' = [row EXCEPT ![p] = i]
  /\ shared' = (shared \/ \E q \in Proc : Alive(q) /\ row[q] = i)

\* SetClient's loop: the first row without a pid is taken.  (That its pid is read
\* and its uid is written in one step hides nothing: a process that writes its pid in
\* between has written the same uid before.)  Behind the last row SetClient returns
\* nullptr, and the next statement writes through it.
SetClient(p) ==
  /\ Step(p, "claim")
  /\ \/ /\ pid[at[p]] = NoProc
        /\ Take(p, at[p])
        /\ at' = [at EXCEPT ![p] = 0]
        /\ Goto(p, "fd")
     \/ /\ pid[at[p]] # NoProc
        /\ IF at[p] < KMaxClient
           THEN at' = [at EXCEPT ![p] = @ + 1] /\ UNCHANGED pc
           ELSE UNCHANGED at /\ Goto(p, "dead")
        /\ UNCHANGED <<uid, row, shared>>
  /\ UNCHANGED <<pid, fd, name, msg, sending, signalled, told, handler, readers, twice,
                 sent, raced, lost, vacated, master>>

SetFd(p) ==
  /\ Step(p, "fd")
  /\ fd' = [fd EXCEPT ![row[p]] = TRUE]
  /\ Goto(p, "pid")
  /\ UNCHANGED <<uid, pid, name, msg, row, at, sending, signalled, told, handler, history,
                 master>>

\* Mutant of SetPid: the pid stays -1.
SetPidForgotten(p) ==
  /\ Step(p, "pid")
  /\ Goto(p, "name")
  /\ UNCHANGED <<table, row, at, sending, signalled, told, handler, history, master>>

SetPid(p) ==
  /\ Step(p, "pid")
  /\ pid' = [pid EXCEPT ![row[p]] = p]
  /\ Goto(p, "name")
  /\ UNCHANGED <<uid, fd, name, msg, row, at, sending, signalled, told, handler, history,
                 master>>

\* The name is "(no name)", and ENTER is broadcast.
SetName(p) ==
  /\ Step(p, "name")
  /\ name' = [name EXCEPT ![row[p]] = NoName]
  /\ at' = [at EXCEPT ![p] = 1]
  /\ sending' = [sending EXCEPT ![p] = [from |-> p, nr |-> 0]]
  /\ Goto(p, "scan")
  /\ UNCHANGED <<uid, pid, fd, msg, row, signalled, told, handler, history, master>>

-----------------------------------------------------------------------------
\* BroadCast and tell.

\* kill(target, SIGUSR1) by p.  A pid of -1 stands for every process p may signal,
\* the master included, which has no row: its handler goes through a null pointer.
Kill(p, target) ==
  LET targets == IF target = NoProc THEN {q \in Proc \ {p} : Alive(q)}
                                    ELSE {q \in {target} : Alive(q)}
  IN  /\ signalled' = [q \in Proc |->
                         IF q \notin targets THEN signalled[q]
                         ELSE IF q = p THEN "now" ELSE "pending"]
      /\ master' = IF target = NoProc THEN "down" ELSE master

\* After a broadcast p goes back to its shell, or on with its exit.
AfterBroadCast(p) == IF sending[p].nr = Exiting THEN "resetPid" ELSE "shell"

\* The loop of BroadCast moves to the next row, or ends.
NextRow(p) ==
  IF at[p] < KMaxClient
  THEN /\ at' = [at EXCEPT ![p] = @ + 1]
       /\ Goto(p, "scan")
       /\ UNCHANGED sending
  ELSE /\ at' = [at EXCEPT ![p] = 0]
       /\ Goto(p, AfterBroadCast(p))
       /\ sending' = [sending EXCEPT ![p] = NoMsg]

\* Mutant of Scan: no test of the pid.
ScanAll(p) ==
  /\ Step(p, "scan")
  /\ Goto(p, "copy")
  /\ vacated' = vacated \ {p}
  /\ UNCHANGED <<table, row, at, sending, signalled, told, handler, readers, twice, sent,
                 raced, shared, lost, master>>

\* if (pid != -1) ...
Scan(p) ==
  /\ Step(p, "scan")
  /\ IF pid[at[p]] # NoProc
     THEN Goto(p, "copy") /\ vacated' = vacated \ {p} /\ UNCHANGED <<at, sending>>
     ELSE NextRow(p) /\ UNCHANGED vacated
  /\ UNCHANGED <<table, row, signalled, told, handler, readers, twice, sent, raced, shared,
                 lost, master>>

\* strcpy into a row's msg, where nobody has read it yet.
Put(i, m) ==
  /\ msg' = [msg EXCEPT ![i] = m]
  /\ readers' = [readers EXCEPT ![i] = {}]
  /\ lost' = lost \ {i}

\* ... strcpy(msg, buffer) ...
Copy(p) ==
  /\ Step(p, "copy")
  /\ Put(at[p], sending[p])
  /\ Goto(p, "kill")
  /\ UNCHANGED <<uid, pid, fd, name, row, at, sending, signalled, told, handler, twice,
                 sent, raced, shared, vacated, master>>

\* ... kill(pid, SIGUSR1): the pid is read again.
Signal(p) ==
  /\ Step(p, "kill")
  /\ Kill(p, pid[at[p]])
  /\ NextRow(p)
  /\ UNCHANGED <<table, row, told, handler, history>>

\* tell: a row with that uid is looked for, then written and signalled.  (Only row i
\* can have uid i; -1 is the uid of every free row.  HasClient's loop and the one after
\* it are one: what the first has found the second looks for again.)
TellEnds(p) ==
  /\ Goto(p, "shell")
  /\ at' = [at EXCEPT ![p] = 0]
  /\ sending' = [sending EXCEPT ![p] = NoMsg]
  /\ told' = [told EXCEPT ![p] = 0]

Tell(p) ==
  /\ Step(p, "tell")
  /\ \/ /\ uid[at[p]] = told[p]
        /\ Goto(p, "tellCopy")
        /\ vacated' = vacated \ {p}
        /\ UNCHANGED <<at, sending, told>>
     \/ /\ uid[at[p]] # told[p]
        /\ IF told[p] = -1 /\ at[p] < KMaxClient
           THEN at' = [at EXCEPT ![p] = @ + 1] /\ UNCHANGED <<pc, sending, told>>
           ELSE TellEnds(p)
        /\ UNCHANGED vacated
  /\ UNCHANGED <<table, row, signalled, handler, readers, twice, sent, raced, shared, lost,
                 master>>

TellCopy(p) ==
  /\ Step(p, "tellCopy")
  /\ Put(at[p], sending[p])
  /\ Goto(p, "tellKill")
  /\ UNCHANGED <<uid, pid, fd, name, row, at, sending, signalled, told, handler, twice,
                 sent, raced, shared, vacated, master>>

TellSignal(p) ==
  /\ Step(p, "tellKill")
  /\ Kill(p, pid[at[p]])
  /\ TellEnds(p)
  /\ UNCHANGED <<table, row, handler, history>>

-----------------------------------------------------------------------------
\* SigClient, the handler of SIGUSR1: it runs between any two steps of p.

\* The message is copied out of p's row; a process without a row crashes.
HandlerReads(p) ==
  /\ signalled[p] # "no" /\ handler[p] = Off /\ Alive(p)
  /\ signalled' = [signalled EXCEPT ![p] = "no"]
  /\ IF row[p] = Null
     THEN Goto(p, "dead") /\ UNCHANGED <<handler, readers, twice>>
     ELSE /\ handler' = [handler EXCEPT ![p] = msg[row[p]]]
          /\ readers' = [readers EXCEPT ![row[p]] = @ \cup {p}]
          /\ twice' = (twice \/ (msg[row[p]] # NoMsg /\ p \in readers[row[p]]))
          /\ UNCHANGED pc
  /\ UNCHANGED <<table, row, at, sending, told, sent, raced, shared, lost, vacated, master>>

\* Mutant of HandlerClears: the message stays in the row.
HandlerKeepsMessage(p) ==
  /\ handler[p] # Off
  /\ handler' = [handler EXCEPT ![p] = Off]
  /\ UNCHANGED <<table, row, pc, at, sending, told, signalled, history, master>>

\* The row is emptied, and the message and a line feed are written to the socket ...
HandlerClears(p) ==
  /\ handler[p] # Off
  /\ msg' = [msg EXCEPT ![row[p]] = NoMsg]
  /\ handler' = [handler EXCEPT ![p] = Off]
  /\ UNCHANGED <<uid, pid, fd, name, row, pc, at, sending, told, signalled, history, master>>

\* SIGPIPE ends p: its row stays as it is, and so does a message that it has put into
\* a row without a signal for it.
Dies(p) ==
  /\ Goto(p, "dead")
  /\ at' = [at EXCEPT ![p] = 0]
  /\ sending' = [sending EXCEPT ![p] = NoMsg]
  /\ told' = [told EXCEPT ![p] = 0]

\* ... whose client may have closed its connection by then, wherever p was when the
\* signal came.  (The write to a descriptor of -1 only fails.)
HandlerDies(p) ==
  /\ "hangup" \in Commands
  /\ handler[p] # Off /\ fd[row[p]]
  /\ msg' = [msg EXCEPT ![row[p]] = NoMsg]
  /\ handler' = [handler EXCEPT ![p] = Off]
  /\ lost' = IF pc[p] \in {"kill", "tellKill"} /\ msg'[at[p]] = sending[p]
             THEN lost \cup {at[p]} ELSE lost
  /\ Dies(p)
  /\ UNCHANGED <<uid, pid, fd, name, row, signalled, readers, twice, sent, raced, shared,
                 vacated, master>>

-----------------------------------------------------------------------------
\* Shell: the client's commands.

StartBroadCast(p, m) ==
  /\ sending' = [sending EXCEPT ![p] = m]
  /\ at' = [at EXCEPT ![p] = 1]
  /\ Goto(p, "scan")

MayRun(p, command) ==
  command \in Commands /\ Step(p, "shell") /\ sent[p] < MaxCommands

Yell(p) ==
  /\ MayRun(p, "yell")
  /\ sent' = [sent EXCEPT ![p] = @ + 1]
  /\ StartBroadCast(p, [from |-> p, nr |-> sent[p] + 1])
  /\ UNCHANGED <<table, row, signalled, told, handler, readers, twice, raced, shared, lost,
                 vacated, master>>

\* tell id: an id that no row ever has is like that of a row nobody has taken.
StartTell(p, id) ==
  /\ MayRun(p, "tell")
  /\ sent' = [sent EXCEPT ![p] = @ + 1]
  /\ sending' = [sending EXCEPT ![p] = [from |-> p, nr |-> sent[p] + 1]]
  /\ told' = [told EXCEPT ![p] = id]
  /\ at' = [at EXCEPT ![p] = IF id = -1 THEN 1 ELSE id]
  /\ Goto(p, "tell")
  /\ UNCHANGED <<table, row, signalled, handler, readers, twice, raced, shared, lost,
                 vacated, master>>

\* Mutant of StartName: the loop starts at the second row.
StartNameAtSecond(p, n) ==
  /\ MayRun(p, "name")
  /\ sent' = [sent EXCEPT ![p] = @ + 1]
  /\ sending' = [sending EXCEPT ![p] = n]
  /\ at' = [at EXCEPT ![p] = 2]
  /\ Goto(p, "nameCheck")
  /\ UNCHANGED <<table, row, signalled, told, handler, readers, twice, raced, shared, lost,
                 vacated, master>>

\* name n: every row's name is compared, taken or not, ...
StartName(p, n) ==
  /\ MayRun(p, "name")
  /\ sent' = [sent EXCEPT ![p] = @ + 1]
  /\ sending' = [sending EXCEPT ![p] = n]
  /\ at' = [at EXCEPT ![p] = 1]
  /\ Goto(p, "nameCheck")
  /\ UNCHANGED <<table, row, signalled, told, handler, readers, twice, raced, shared, lost,
                 vacated, master>>

\* ... the command ends at the first that is the same, ...
NameCheck(p) ==
  /\ Step(p, "nameCheck")
  /\ \/ /\ name[at[p]] = sending[p]
        /\ Goto(p, "shell")
        /\ at' = [at EXCEPT ![p] = 0]
        /\ sending' = [sending EXCEPT ![p] = NoMsg]
     \/ /\ name[at[p]] # sending[p]
        /\ UNCHANGED sending
        /\ IF at[p] < KMaxClient
           THEN at' = [at EXCEPT ![p] = @ + 1] /\ UNCHANGED pc
           ELSE Goto(p, "nameCopy") /\ UNCHANGED at
  /\ UNCHANGED <<table, row, signalled, told, handler, history, master>>

\* ... and otherwise the name is written and NAME is broadcast.
NameCopy(p) ==
  /\ Step(p, "nameCopy")
  /\ name' = [name EXCEPT ![row[p]] = sending[p]]
  /\ raced' = raced \cup
       {{p, q} : q \in {r \in Proc \ {p} : pc[r] \in {"nameCheck", "nameCopy"}}}
  /\ StartBroadCast(p, [from |-> p, nr |-> sent[p]])
  /\ UNCHANGED <<uid, pid, fd, msg, row, signalled, told, handler, readers, twice, sent,
                 shared, lost, vacated, master>>

\* exit: Shell returns and ClientExit broadcasts EXIT.
Exit(p) ==
  /\ "exit" \in Commands
  /\ Step(p, "shell")
  /\ StartBroadCast(p, [from |-> p, nr |-> Exiting])
  /\ UNCHANGED <<table, row, signalled, told, handler, history, master>>

\* The client has closed its connection, and a write of p's own to it raises SIGPIPE:
\* that of the prompt (getline has failed before, but Shell does not look at that), of
\* the welcome, or of a message of tell or name, which ends where the prompt begins.
\* Nothing of ClientExit runs.
Hangup(p) ==
  /\ "hangup" \in Commands
  /\ \/ Step(p, "shell")
     \/ Step(p, "scan") /\ at[p] = 1 /\ sending[p].nr = 0
  /\ Dies(p)
  /\ UNCHANGED <<table, row, signalled, handler, history, master>>

-----------------------------------------------------------------------------
\* ResetShmCurrent, statement by statement.

\* The row is being given up while others are sending something to it.
Vacate(i) ==
  vacated' = vacated \cup
    {q \in Proc : pc[q] \in {"copy", "kill", "tellCopy", "tellKill"} /\ at[q] = i}

ResetPid(p) ==
  /\ Step(p, "resetPid")
  /\ pid' = [pid EXCEPT ![row[p]] = NoProc]
  /\ Vacate(row[p])
  /\ Goto(p, "resetUid")
  /\ UNCHANGED <<uid, fd, name, msg, row, at, sending, signalled, told, handler, readers,
                 twice, sent, raced, shared, lost, master>>

ResetUid(p) ==
  /\ Step(p, "resetUid")
  /\ uid' = [uid EXCEPT ![row[p]] = -1]
  /\ Vacate(row[p])
  /\ Goto(p, "resetFd")
  /\ UNCHANGED <<pid, fd, name, msg, row, at, sending, signalled, told, handler, readers,
                 twice, sent, raced, shared, lost, master>>

ResetFd(p) ==
  /\ Step(p, "resetFd")
  /\ fd' = [fd EXCEPT ![row[p]] = FALSE]
  /\ Goto(p, "resetMsg")
  /\ UNCHANGED <<uid, pid, name, msg, row, at, sending, signalled, told, handler, history,
                 master>>

ResetMsg(p) ==
  /\ Step(p, "resetMsg")
  /\ msg' = [msg EXCEPT ![row[p]] = NoMsg]
  /\ Goto(p, "resetRow")
  /\ UNCHANGED <<uid, pid, fd, name, row, at, sending, signalled, told, handler, history,
                 master>>

\* shmCurrentAddr = nullptr; the process ends soon after.
ResetRow(p) ==
  /\ Step(p, "resetRow")
  /\ row' = [row EXCEPT ![p] = Null]
  /\ Goto(p, "leaving")
  /\ UNCHANGED <<table, at, sending, signalled, told, handler, history, master>>

Leave(p) ==
  /\ Step(p, "leaving")
  /\ Goto(p, "gone")
  /\ UNCHANGED <<table, row, at, sending, signalled, told, handler, history, master>>
-----------------------------------------------------------------------------

\* What p does by itself once it has started it.
Continue(p) ==
  \/ SetClient(p) \/ SetFd(p) \/ SetPid(p) \/ SetName(p)
  \/ Scan(p) \/ Copy(p) \/ Signal(p)
  \/ Tell(p) \/ TellCopy(p) \/ TellSignal(p)
  \/ NameCheck(p) \/ NameCopy(p)
  \/ ResetPid(p) \/ ResetUid(p) \/ ResetFd(p) \/ ResetMsg(p) \/ ResetRow(p)
  \/ Leave(p)

Handler(p) == HandlerReads(p) \/ HandlerClears(p) \/ HandlerDies(p)

Client(p) ==
  \/ Fork(p)
  \/ Yell(p)
  \/ \E id \in Rows \cup {-1} : StartTell(p, id)
  \/ \E n \in Names : StartName(p, n)
  \/ Exit(p)
  \/ Hangup(p)

Next == \E p \in Proc : Continue(p) \/ Handler(p) \/ Client(p)

Spec == Init /\ [][Next]_vars

-----------------------------------------------------------------------------
Places ==
  {"unborn", "claim", "fd", "pid", "name", "shell", "scan", "copy", "kill",
   "tell", "tellCopy", "tellKill", "nameCheck", "nameCopy", "resetPid", "resetUid",
   "resetFd", "resetMsg", "resetRow", "leaving", "gone", "dead"}

\* The types of the table and of every process's state.
TypeOK ==
  /\ uid \in [Rows -> Rows \cup {-1}]
  /\ pid \in [Rows -> Proc \cup {NoProc}]
  /\ fd \in [Rows -> BOOLEAN]
  /\ name \in [Rows -> Names \cup {NoName}]
  /\ msg \in [Rows -> Message \cup {NoMsg}]
  /\ row \in [Proc -> Rows \cup {Null}]
  /\ pc \in [Proc -> Places]
  /\ at \in [Proc -> Rows \cup {0}]
  /\ sending \in [Proc -> Message \cup Names \cup {NoMsg}]
  /\ told \in [Proc -> Rows \cup {-1, 0}]
  /\ signalled \in [Proc -> {"no", "pending", "now"}]
  /\ handler \in [Proc -> Message \cup {NoMsg, Off}]
  /\ readers \in [Rows -> SUBSET Proc]
  /\ twice \in BOOLEAN
  /\ sent \in [Proc -> 0..MaxCommands]
  /\ raced \subseteq SUBSET Proc
  /\ shared \in BOOLEAN
  /\ lost \subseteq Rows
  /\ vacated \subseteq Proc
  /\ master \in {"up", "down"}

\* p's row is its own: entered by pid, and not yet given up.
Placed(p) == pc[p] \in Places \ {"unborn", "claim", "fd", "pid", "resetUid", "resetFd",
                                  "resetMsg", "resetRow", "leaving", "gone", "dead"}

EnteringOrLeaving(p) == pc[p] \in {"fd", "pid", "resetUid", "resetFd", "resetMsg", "resetRow"}

\* SetClient takes a row that another running process still uses only if that process is
\* between taking the row and writing its pid, or between clearing its pid and
\* dropping the row: the table is not locked, but the window is no wider than that.
TakesOnlyInWindow ==
  [][~shared => \A p, q \in Proc :
       (p # q /\ row'[p] # row[p] /\ row'[p] # Null /\ Alive(q) /\ row[q] = row'[p])
         => EnteringOrLeaving(q)]_vars

\* While no two processes have shared a row, a message in the row of a client that
\* sits in its shell is on its way to the client: its handler runs or will run, or the
\* sender is between its strcpy and its kill.  Only a sender whose own client has gone
\* can leave it there: its handler wrote to that client between the two.
NoMessageIsStuck ==
  \A p \in Proc :
    (~shared /\ pc[p] = "shell" /\ msg[row[p]] # NoMsg) =>
      \/ signalled[p] # "no"
      \/ handler[p] # Off
      \/ \E q \in Proc : /\ pc[q] \in {"kill", "tellKill"}
                       /\ at[q] = row[p] /\ sending[q] = msg[row[p]]
      \/ row[p] \in lost

\* No order of strcpy, kill, the handler's copy and the handler's clearing strands a
\* message, nor shows it twice, however many signals arrive.
MailIsShownOnce == ~twice /\ NoMessageIsStuck

\* Row i has a uid and no pid: its user has taken it or begun to give it up, or was
\* killed at that point and nobody has taken the row since.
Halfway(i) ==
  \E q \in Proc :
    /\ row[q] = i
    /\ \/ pc[q] \in {"fd", "pid", "resetUid"}
       \/ pc[q] = "dead" /\ ~\E r \in Proc : Alive(r) /\ row[r] = i

\* kill(-1) takes the server down.  While no row has been shared, whoever does it has
\* asked for user -1, or the row it signals through was given up since it tested the
\* row, or it found the row by a uid that was there without a pid.  A signal never goes
\* to -1 through a row at rest.
MasterFallsInAWindow ==
  [][(~shared /\ master' # master) =>
       \E p \in Proc :
         /\ pc[p] \in {"kill", "tellKill"}
         /\ \/ told[p] = -1
            \/ p \in vacated
            \/ pc[p] = "tellKill" /\ Halfway(at[p])]_vars

\* Two clients have the same name only if they ran the name command at the same time,
\* or their row was shared.
NamesAreUnique ==
  ~shared =>
    \A p, q \in Proc :
      ( /\ p # q
        /\ Placed(p) /\ pc[p] # "name"
        /\ Placed(q) /\ pc[q] # "name"
        /\ name[row[p]] = name[row[q]] /\ name[row[p]] # NoName )
      => {p, q} \in raced

\* A row with a pid belongs to a running process: "exit or EOF" both end Shell and
\* give the row back.  (The code does not do this on EOF.)
RowsOfTheLiving ==
  \A i \in Rows : pid[i] # NoProc => Alive(pid[i])
=============================================================================
