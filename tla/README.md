# A formal model of the NYCU network programming servers

The repository holds four course projects: a shell with numbered pipes
(`nycu-np-proj1`), three network shells and chat servers (`nycu-np-proj2`), an HTTP
server with a CGI console (`nycu-np-proj3`) and a SOCKS 4 server with a console that
uses it (`nycu-np-proj4`). This directory holds TLA+ models of them, the TLC
configurations that check the models on small instances, and proofs checked by TLAPS.
`submission/` directories hold byte-identical copies of `src/` and are not listed.

Paths below are relative to `src/`; `single` stands for
`nycu-np-proj2/src/np_single_proc.cpp`, `multi` for `nycu-np-proj2/src/np_multi_proc.cpp`.

## The system

| component | state | operations | what makes it hard | what makes it correct |
|---|---|---|---|---|
| **np_single_proc** (`single`): one process, `select` over all clients | `clientV`, `ids[]`, `pipeV` (all pipes of all clients), running children, per-client `env_table` and name | accept, read a line, `RunShell` command by command, built-ins, logout | ids are reused; every child inherits every open pipe; the server waits for children while all other clients wait for the server; one environment is swapped between clients | ids and clients agree; pipes never change hands with an id; a command gets its own pipes; waits end; names are unique, news true; only certain lines and certain clients end the server |
| **np_multi_proc** (`multi`): a process per client, a table in shared memory, a FIFO file per user pipe | the `ClientInfo` table (`uid`, `pid`, `name`, `msg`, `sendInfo`, `recvInfo`), FIFO files, per-process `pipeV` | `SetClient`, login writes, `BroadCast`, tell, `SIGUSR1` handler, `name`, `CreateFifo`, read of a user pipe, `ClientExit` | no lock anywhere: every statement interleaves with every other process; messages are one slot per receiver; user pipes are regular files | slots are not shared; a message is shown to its receiver; signals go to clients only; a user pipe is read by the client it was made for, and whole |
| **npshell** (`nycu-np-proj1/npshell.cpp`), **np_simple** (`nycu-np-proj2/src/np_simple.cpp`) | a deque of 4096 numbered pipes, `pid_table` | a line in batches of 50 commands, shift of the deque per line | batches, the shift, a wait list that keeps the children of number-pipe lines | a number pipe reaches the n-th line after it; a line is not held up by unrelated children |
| **http_server** (`nycu-np-proj3/src/code/http_server.cpp`) | one session per connection | accept, fork, read the request once, exec the CGI program | process per connection, one read per request | parent and child keep to their own descriptors; no child is forgotten |
| **console** (`nycu-np-proj3/src/code/console.cpp`, `nycu-np-proj4/src/console/console.cpp`) | up to five sessions: socket, command file, deadline | resolve, connect, read until a prompt, send the next command | prompts split or merged by TCP, one 30 s deadline for the whole session | one command per prompt, in order |
| **socks_server** (`nycu-np-proj4/src/socks_server.cpp`, `firewall.cpp`) | a session per connection: two sockets, two buffers | parse request, firewall, resolve, connect or bind, relay in both directions | independent read/write chains, partial writes, one side closing first | bytes are relayed in order and completely; every address is answered; a session ends once both sides have |
| noop, number, delayedremovetag, ... (the programs the shells run) | none | read, write, exit | - | external: modelled by what the shells need of them |

## Modules

| module | models | with |
|---|---|---|
| `NpSingle` | `single`: ids, pipes, command lines | `MCNpSingle` gives it lines; `NpSingle_proofs` |
| `NpSingleUsers` | `single`: names, news, prompts, waits, what ends the server | `MCNpSingleUsers`; `NpSingleUsers_proofs` |
| `NpMultiTable` | `multi`: the table of clients in shared memory | `MCNpMultiTable`; `NpMultiTable_proofs` |
| `NpMultiPipes` | `multi`: command lines, user pipes, `ClientExit` | `MCNpMultiPipes`; `NpMultiPipes_proofs` |
| `NpShell` | `npshell.cpp`, and the session process of `np_simple.cpp` | proved about in `NpShell_proofs`; `MCNpShell` gives it lines |
| `ForkingServer` | the servers of `http_server.cpp`, `socks_server.cpp` and `np_simple.cpp`, and http's session | `MCForkingServer`; `ForkingServer_proofs` |
| `ConsoleSession` | both `console.cpp` | `MCConsoleSession`; `ConsoleSession_proofs` |
| `SocksRequest` | `socks4.hpp` and `firewall.cpp`, as operators | used by `SocksSession` |
| `SocksSession` | a session of `socks_server.cpp` | `MCSocksSession`; `SocksSession_proofs` |
| `RelayedStream` | what a relay promises about one direction (abstract) | `SocksSession` implements it twice |

`single` and `multi` are each split in two by what their state is for: `NpSingle` and `NpSingleUsers` share the ids,
`NpMultiTable` and `NpMultiPipes` the rows. In `ForkingServer` a session of
http_server ends at its CGI program's end or when its client has left; one of socks_server or np_simple ends when it likes, or
never: what it does is `SocksSession` for the one and `NpShell` for the other. Project 4's console talks to a socks_server, of
which `ConsoleSession` keeps the reply.

A definition whose comment begins with "Mutant of" is a plausible mistake in the operator that follows; it is
used only to see that the properties notice it.

### NpSingle: the single-process server

`NpSingle.tla` models `single` without names and messages.

* `id` is `clientV` (which connection has which id), `ids` the array `ids[]`.
* `pipeV` is the vector of pipes, as a set: an element has a creation stamp `fd`, the scans
  of the code go front to back over a vector that is only appended to and erased from, so
  "first match" is "smallest stamp" (`First`).
* `shell` is the activation of `RunShell`: its client, the commands left of its line,
  `isNumPipe` and `pidV`. `shell = Idle` is the select loop.
* `kids` are the running children with the pipe ends they hold: all that were open at their
  fork except those `SetStdInOut` closed. No descriptor is close-on-exec.
* `born`, `fed` and the fields `by`, `id`, `made`, `readId`, `sign` of a child are history: who made a pipe, on which line,
  for whom, which pipes a command has ever written into, and what a command asked for. The server never reads them.

| action | code |
|---|---|
| `Accept`, `ReadLine`, `Hangup` | the branches of the select loop in `main` (830-878) |
| `RunBuiltin`, `RunExit` | `RunShell` 595-606, with the logout that `main` adds for exit |
| `SkipUnknown` | 608-613, which skips `ClosePipe` and `ReducePipe` |
| `OpenFails` | 637-645 |
| `RunCmd` | 615-687: the tests of the user pipes, `CreatePipe`, `SetStdInOut`, `fork`, `ClosePipe`, `ReducePipe` |
| `EndLine` | 689-704: wait, `ReducePipeNum`, prompt |
| `KidExit` | a program ends (external) |

The server is one thread, so only `KidExit` interleaves with it: a command can end between any
two steps, and the pipes it holds go with it. A line is a sequence of commands as `IdentifyCmd` delivers
them; whether `LegalCmd` finds a program is part of the line (`kind`). Id 0, which `SetId` returns when all ids
are taken, is modelled: such clients share it.

### NpSingleUsers: the same server, as its users see it

A handler of the select loop is one action: `Accept` (830-852), `RunLine` (854-883 with the built-ins 384-470),
`EndOfFile` (861-874); only a line that starts programs is two, for `RunShell` waits for them (689-696) and the server with it: `busy` until
`ProgramsEnd`, which need not come. What the peers do comes in between: `Dial`, `Type`, `HangUp` (close, or reset), and
`ResetArrives`, the answer of TCP to data for a closed socket.

* `id`, `name`, `env` are `clientV`; `env` decides what `printenv` finds and whether `PATH` leads to any program.
* `sock` is what the kernel knows of a socket. A handler's writes are counted for each client (`Count`): `Writes` is the
  outcome in which none meets a reset, `SigPipe` the one in which one does and the server ends (`up`).
* `typed` are lines that wait to be read; `RunLine` takes one or several, as `read` does, and only the first is a command (`ReadLines`). The
  last may have come only in part (`ReadPart`): the part is run, and answered with a prompt, and what is left is a line again. A part
  of a line may read as something shorter (`Beginnings`), the rest as anything (`Pieces`).
* A `garbled` line is one on which `stoi` throws (`ls >file`); `Throw` ends the server, which catches nothing.
* `view` is history: what the broadcasts have told each client about each other. `rude`, `hasty`, `cut`, `swallowed`, `thrown` say
  what a client has done or suffered.

### NpMultiTable: the table shared by the processes

`NpMultiTable.tla` models `multi` one statement on shared memory at a time, because no lock protects anything.
A process has a `pc`, a row `at` in front of it in a loop, and a message it is `sending`. Rows are `uid`,
`pid`, `fd`, `name` and `msg`. `signalled` is the pending SIGUSR1 of a process, `handler` the message its handler
has copied. `Step(p, a)` lets a process take its next step only if it is not in its handler; a signal is taken
between any two steps. What is sent to pid -1 goes to every process (`Kill`), the accepting one included,
which has no row: its handler dereferences null and the server is down (`master`). A process whose client has gone
is killed by SIGPIPE at its next write to it, and its row stays taken: `Hangup` is a write of its own code (the prompt, the welcome), `HandlerDies` that of its
handler (967), which comes between any two accesses, `strcpy` and `kill` (838, 839) included.
`told` is the id that `tell` was given; -1 is well defined, and finds any free row. `readers`, `twice`, `sent`, `raced`, `shared`, `lost` (the rows with a
message whose sender was killed before its `kill`) and `vacated` (the processes whose target gave up its row after they had tested it) are history.

| actions | code |
|---|---|
| `Fork`, `Take`, `SetFd`, `SetPid`, `SetName` | the child's branch of `main` and `SetClient` |
| `Scan`, `Put`, `Copy`, `Signal` | `BroadCast` 836-841: the test of `pid`, `strcpy`, the second read of `pid` and `kill` |
| `StartTell`, `Tell`, `TellCopy`, `TellSignal`, `TellEnds` | `tell` 424-440: the search for the uid, `strcpy`, `kill` |
| `Yell`, `StartName`, `NameCheck`, `NameCopy`, `Exit` | the other built-ins |
| `Hangup` | end of file, seen at a write of the process's own |
| `ResetPid` ... `ResetRow`, `Leave` | `ResetShmCurrent`, one field at a time |
| `HandlerReads`, `HandlerClears`, `HandlerDies` | `SigClient` 962-968 |

### NpMultiPipes: user pipes through files

A pipe from s to r is `sendInfo[s][r]`, `recvInfo[r][s]` and a file. `CreateFifo` opens the file with `O_CREAT` before it
calls `mkfifo`, which therefore fails: the file is a regular one, nobody waits for anybody to open it, and a
reader that comes early sees end of file.

Rows are taken and given back one access at a time, as in `NpMultiTable`: a row is free as soon as its pid is -1, while its flags are still being
cleared, and two processes may find the same one. `Hangup` kills a process between any two accesses, for the handler writes to its client there.

| actions | code |
|---|---|
| `SetClient`, `SetPid` | 941-949, 1015-1018 |
| `Hangup` | SIGPIPE, from `SigClient` (967) or a write of the shell |
| `TestSender`, `TestRecv`, `TestSend`, `OpenFifo` | `<id`, 622-657: `HasClient`, the two flags of `HasUserPipe`, `open` |
| `Output`, `OpenFails`, `TestReceiver`, `TestSent`, `TestReceived` | what follows the command, 659-699 |
| `CreateFifo`, `SetSend`, `SetRecv` | `CreateFifo` 248-272, a step for the file and for each flag |
| `ClearRecv`, `ClearSend` | `ReadFifo` 95-98, called by `SetStdInOut` |
| `Fork`, `EndLine`, `NotRun` | `fork` with `ClosePipe` and `ReducePipe`; wait and `ReducePipeNum`; commands that are not run |
| `ResetPid`, `ResetUid`, `Reset` | `ResetShmCurrent` 874-890; its last turn calls `ClearPipe`, which dereferences null if `pipeV` is not empty ("crashed") |
| `KidWrites`, `KidReads`, `KidExit` | the programs (external) |

`job` is what a process knows in the middle of a command, `file[s][r]` whose output the file holds. `made`, `latest`, `taken`,
`spoilt`, `gaveUp` (who left because an output did not open), `shared` (a row has had two processes) and the fields `raced` (made while the one before was being read), `crossed` (the receiver had
begun to leave when its flag was set), `announced` (both flags were set), `clean` are history. A process whose uid another one
has taken out uses -1 for an index; what it does then is undefined and is not followed (`Astray`).

### NpShell: numbered pipes in a deque

`NpShell.tla` models `npshell.cpp` and, when `program = "np_simple"`, the session process of `np_simple.cpp`. The
two differ in the node that a split line inserts (`Split`) and in built-ins, which shift the deque in npshell
and do nothing in np_simple (`Builtin` is disabled there: it would change no variable).

* `slots` is `redirection_info`, front first; in a node `in` and `wr` are the two ends of the pipe due on that line,
  `out` and `err` the output of the line.
* `open` are the ends the shell holds, `kids` the children with theirs, `pidTable` is `pid_table`.
* `job` is the activation of `run`: the commands left, the pipes of the batch (`pipes_fd`), how many commands
  of it are to be forked. `pc` says where the shell is.
* `made`, `blank`, and the fields `line`, `at`, `last`, `n`, `wantErr` of a child are history.

`StartLine` is lines 145-169, `StartBatch` 171-195, `Fork` one turn of the loop 200-221, `CloseBatch` 223-226,
`EndBatch` 228-238, `EndLine` the shift 270-273. The pipes are closed (`CloseBatch`) before the shell waits
(`EndBatch`), so that the children can see their end of file meanwhile.

### ForkingServer: a process for each connection

`parent` says where the server is between accepting a connection, forking, closing its copy of the socket and reaping;
`hold[c]` are the processes that have the socket of c open. `sigchld` is the pending signal (one bit: signals merge),
`armed` who waits for one, `inherited` the children forked with a handler still to run. In
http_server and socks_server (`Asio`) `OnSignal`, `Reap`, `ReapEnds` are the handler of SIGCHLD (136-151); in
np_simple `Wait` comes first and `Close` after it. `ExecCgi` and `ExecFails` are http's `do_read`, `SessionExits` its end of file
or the end of another server's session. `Fork` gives the child every socket that the server has open, those that np_simple's failed forks
have left open (325-326) included.

### ConsoleSession: the page that drives remote shells

`servers` is the query, parsed by `Parsed`. `main` launches the sessions slot by slot and then runs the handlers
(`io_context.run`); project 4 does everything up to the SOCKS reply in the launch, so that an error there is an
exception (`Die`). `st` says what a session waits for, `line` how much of its file it has sent. `toPage` is a sequence of characters, of which only
the percent sign and the blank are told apart from the others (`Char`): `OnRead` takes any non-empty part of it and looks for "% " in that part alone. The remote shell (`ShellPrints`,
`ShellReads`) is external. `history` counts prompts, and the "% " in the output of commands.

### SocksSession, SocksRequest, RelayedStream: a SOCKS session

`SocksRequest` has the parser over bytes (`Parse`, with `address_` uninitialized), the encoder (`Encode`), and the firewall (`Check`).
`SocksSession` has one action for each handler:

| actions | code of `socks_server.cpp` |
|---|---|
| `ReadRequest`, `NoRequestComes` | `receive_socks4_request` 298-328: one read, whatever it brings |
| `DoResolve`, `SkipV6`, `Connect`, `Bind`, `Refuse` | `do_resolve` 262-295 and, for each address, `do_connect` 192-233 |
| `ConnectDone`, `ConnectPosted`, `AcceptDone` | the handlers 205-217, 233-260 |
| `DoReply`, `LateReply` | `do_reply` 173-190; what the socket does not take at once is sent from a buffer that is gone |
| `RelayReads`, `RelayEnds`, `RelayWrites`, `RelayFails` | the relay, 76-171, the same for both directions |
| `End` | `io_context::run` returns, `main` 448-453 |

`conn` is the state of the one socket `server_`; a second `async_connect` on it (`AsyncConnect`) gets what Linux and asio
answer in each state. `chain[x]` are the relays of what side x sends: two run at once if two connects succeed. `inq` and `outq` are
the socket buffers in units. The peers write, read, close and reset at any time.

`RelayedStream` is the abstract specification of one direction: units 1, 2, ... are sent; what arrives is an increasing sequence of
them, without a gap as long as no write was partial (`whole`), with the relay's own replies (0) in between. Once a second relay runs in
the same direction (a second connect succeeded) nothing is promised but that what arrives was sent. The refinement mapping takes `delivered` from what the
receiver has read and what is on its way, `single` from the number of relays, `whole` from `history.torn`.

## Checks

`MaxLines`, `MaxShared`, `MaxHangups`, `MaxCommands`, `MaxCuts`, `MaxPrompts`, `MaxSend`, `Window` and `Leavers` are the bounds that keep a run finite; they occur in guards only.

| run | instance | question |
|---|---|---|
| `user_pipes` | 3 connections for 2 ids, 8 lines, `MaxLines = 3` | do pipes stay with their clients when ids are reused, clients leave, lines stop half way, or too many come? |
| `number_pipes` | 1 client, 17 lines, `MaxLines = 4`, fairness | which pipe is a command wired to, what is thrown away, who waits for whom, what can stop the server? |
| `ordinary_pipe` | 1 client, the lines 5-7 of `t1.txt`, expected to fail | does a command with `\|` feed the next one? |
| `table` | 2 processes, 2 rows, all commands, `tell -1`, exit, SIGPIPE at any write, `MaxCommands = 1` | when can a row be taken twice or a signal reach everybody; what may the one-slot mailbox strand or repeat; when can two clients have one name? |
| `end_of_file` | 2 processes that hang up, expected to fail | do rows belong to running processes? |
| `shells` | npshell and np_simple, 7 lines each, `Depth = 4`, `BatchSize = 2`, `MaxLines = 4`, fairness | does every output reach the line it was meant for, what stays open, who waits for whom, what can hang, is every other line answered? |
| `number_pipe_wait` | npshell, `MaxLines = 2`, expected to fail | are children of number-pipe lines waited for? |
| `multi_pipes` | 3 processes for 2 rows, 6 lines, `MaxLines = 3` (2 once a row is shared), `MaxHangups = 2` | who reads a user pipe and what, with rows, flags and files changed by two processes at once, and processes killed at any point? |
| `socks_session` | 9 requests, `Window = 2`, one unit from the client after its request, two from the server, fairness | what is understood, answered, relayed; whom does a BIND let in; does a session end? |
| `console` | 3 slots, 4 queries, `MaxPrompts = 3`, both projects, fairness | is every command asked for and every prompt answered; does the page end? |
| `servers` | 3 connections, each of the 3 servers, fairness | whose sockets are open where, are children reaped, who is kept waiting? |
| `users` | 3 connections for 2 ids, 9 commands, `MaxLines = 2`, `MaxCuts = 1`, 1 that hangs up, fairness | do names and news agree, what ends the server, which lines run into each other, who is kept waiting? |

Why the bounds are enough. In `single` the interesting cases take a number pipe that is due in two lines, one that is
due in one and an ordinary pipe, so three lines and the one that reads; a reused id takes two connections, a
third one makes the table of two ids overflow. In `users` a logout that strikes a closed socket and the next write that ends the server take three connections, one of which hangs up; two lines
are what it takes to swallow one or to collide over a name, and one read that ends within a line is what makes a second prompt. In `multi` every race on the table is between two
processes, and the proofs cover any number; user pipes need a third process that inherits the row, and three lines to
write, read, and write again while the first is read; two processes killed are both sides of a pipe, or a sender and the next one in its row. Once a row is shared
the properties but `ExitForgetsPipes` and `CleanInput` promise nothing, so two lines suffice then; the proofs cover any number. In the shells a batch of two stands for the batch of 50:
a line of five commands makes three batches, the smallest number in which a batch is neither the first nor the last, and
four lines suffice to start a pipe, split a line in between, read, and see what is left over. A relay with a window of
two is torn by two units that meet one already waiting. Three prompts are enough for one that is split, one that is
printed by a command, and one after either.
`CHECK_DEADLOCK FALSE` is in every configuration because clients may leave and lines run out; the deadlocks of
the code itself are the subject of the liveness properties.

What the properties say:

* **Whose pipe is it?** `PipesBelongToTheLiving`, `NoCrossTalk` (single). They hold, with id 0 excepted: clients for
  whom no id was left share everything. In `multi` flags are left behind in the rows of others, and still `NoInheritedPipe` holds: a pipe is read by the
  client it was made for, with two exceptions: the receiver was leaving or had left when its flag was set, or a row was taken that another process still had,
  because it was clearing its flags or had been killed before it could. `PipeIsReadable`: a pipe whose two flags have been set is there until it is read or one of its clients leaves, whoever is killed
  at whatever point, unless it was made while the one before it was being read, or a row is shared. (A sender killed between the two flags, 260 and 261, has announced nothing.)
  `CleanInput`: a reader that opens after the writer has ended reads all that it wrote and nothing else, unless a later pipe is made meanwhile or an earlier writer still runs.
  `ExitForgetsPipes`: a client that leaves with `exit` has nothing but number pipes left over which `ClearPipe`, on a null pointer by then, can crash. One that leaves because an
  output does not open (668-672) may crash over the user pipe or the ordinary pipe that the command was to read as well: `cat <1 >/no/file` does.
* **Is a command wired to the right pipe?** `OutputIsWired`, `NoOutputDropped` (single), `InputIsDue`, `OutputIsAimed`
  (shells). In single an earlier number pipe, due at the same time, may take an ordinary pipe's
  output; that is what `OrdinaryPipeIsWired` refutes. `NoOutputDropped`: what is due for a command and has been written to is its input, although `ClosePipe`
  closes all that is due. Two exceptions were found with the proof: a pipe left behind by `ls | unknown`, which survives a line that runs nothing and so
  meets a number pipe due later; and the user pipe of a client without an id, which a command reads without `<n`, because 0 is also "no `<n`".
  In np_simple a line of more than one batch loses its number pipe. With `!n`, the error output of a line that joins an existing pipe stays on the terminal; in np_simple
  so does that of the last command of each batch but the last, unless the line made the pipe, which then gets it.
* **Can it hang?** Every child holds the ends of pipes it has nothing to do with. `WaitsOnlyForEarlier` (single and shells) says that a reader
  nevertheless waits only for children forked before it (and for a shell only while it still forks the batch), `LineCompletes` (single and shells) that every line ends unless the server or shell is
  held up by a program that writes more than a pipe holds while nobody reads.
* **What is left open?** `DescriptorsAreAccountedFor`: at the prompt of a shell exactly the pipes in the deque, and those
  of lines that started no command. `SocketsAreNotShared`: no process of a forking server keeps another client's connection open, but for those that np_simple accepted and could not
  fork for: they stay open in the server and in every child it forks later.
* **What can the races on the table do?** `TakesOnlyInWindow`: a row is shared only by a process that entered while the
  other was between `SetClient` and setting its pid, or between clearing its pid and its last write.
  `MasterFallsInAWindow`: a signal to pid -1, which takes the server down, comes, while no row has been shared, only from `tell -1`, from a process whose target gave up its row
  after the process had tested it, or from a `tell` that found a row by a uid that was there without a pid: its user was entering, leaving, or killed at that point.
  `NamesAreUnique`: names clash only if the two `name` commands overlapped. `MailIsShownOnce`:
  a message may be overwritten, but the last one is on its way to be shown, unless its sender was killed by its own client's hang-up between `strcpy` and `kill`; and none is shown twice.
* **What do the users of `single` see?** `NamesAreUnique`, `NewsAreCurrent` (whatever order renames, logins and logouts come in).
  `ServerSurvives`: only a line that throws (printenv of an unset variable, something else than a number where `stoi` wants one), or a client that aborts or is written to after it closed, ends the server.
  `NoLineIsSwallowed`: one who types a line only at a prompt loses none, unless a read ended within one of its lines: then there is a prompt too many, and who answers it may
  have the next line read together with the rest of the first. `EveryoneIsServed`: no line and no end waits for ever, unless the server waits for ever for a client's programs.
* **Is nobody forgotten?** `NoZombieIsForgotten`, `EveryoneIsServed` (servers), also when signals merge and children inherit a handler: who waits is accepted,
  by np_simple unless the shell of another client stays for ever; a process that has ended is reaped, and one of http_server ends when its client has left. (A session of socks_server
  whose other side is silent, or a shell that waits for a program, does not end because its client has left; `SessionEnds` says what a session of socks_server needs.)
* **Does the console keep step?** `OneCommandPerPrompt`: one command for each "% " that is read in one piece and alone.
  One that is cut in two is missed, and project 4, which has no deadline, then waits for ever (`PageEnds`).
  `NoCommandBeforeDeath`: a page that dies on one server has sent nothing to the others.
* **Does the SOCKS server keep its word?** `RequestIsUnderstood` (a request in one read, and, with a host name, no user id), `BindIsAnswered` (one ACCEPT for each address of the host that the firewall permits,
  and one more for the caller that is let in, none being let in if no address is permitted; the firewall is asked about the host, never about the caller),
  `EveryAddressIsAnswered` (one reply for each address, though one is due), `AcceptIsTrue`, `RelaysAreStreams` (the refinement: each direction is a stream without gaps, but for
  partial writes, which lose the rest of a chunk, and no data comes before an ACCEPT), `SessionEnds`
  (once both peers have gone, unless a BIND still waits for a caller).

Findings, each with the line of the repository that says otherwise in `PROJECT.json`:
`OrdinaryPipeIsWired`, `RowsOfTheLiving`, `NumberPipesAreNotWaitedFor`.

### Fairness

`FairSpec` of `NpSingle` and `NpShell` assumes that the server or shell takes a step when it can (it is one process, which the
kernel schedules) and that some program ends when one can: a program whose input has ended and whose output has room
does not run for ever. Nothing obliges a user to type. `NpSingleUsers`: each socket that is ready is handled, because the loop after `select` goes through
all of them, as long as the server does not wait for programs; those may run for ever (`ProgramsEnd` is not fair). `SocksSession`: a handler whose operation can complete runs, each direction of the relay for itself, and a host answers or the connect fails; no
peer has to send, read or close. `ConsoleSession`: handlers run, remote shells print and read, deadlines come. `ForkingServer`: server
and children are scheduled, a CGI program ends, a session of http_server ends at its end of file, and the queue of connections is first come, first
served, hence strong fairness of each `Accept`; nothing is assumed of the sessions of socks_server and np_simple. `NpMultiTable` and `NpMultiPipes` are checked for safety only.

## Proofs

TLAPS proves, for every number of ids, connections, rows, processes and slots and every set of lines, commands, queries and rules:

* `NpSingle_proofs`: `TypeCorrect`, `IdsCorrect`, `PipesStayWithTheirClients`, `PipesHaveTheirMakers`, `CommandsArePrivate`, `WaitsAreOrdered`.
  `IdsMatchClients` is inductive by itself with the types. `PipesBelongToTheLiving` needs it, because `RemoveClient`
  compares ids and only unique ids make that the same as comparing clients; for the same reason it needs
  what the history says of each pipe (`PipesAreBorn`, in part). `NoCrossTalk` follows at each fork from what the pipes in `pipeV` are,
  and is then stable, since children never change their ends. `WaitsOnlyForEarlier` needs that ends held by children belong to pipes
  that are already made, and that the pipe a child reads leaves `pipeV` in the very step of its fork. That the scan of `SetId` has a
  first free id is a lemma on the least element of a set of numbers (`LeastNat`), which also says that a scan of `pipeV` (`First`) finds the pipe that was made first.
  `OutputsAreWired`, from `WireInv`: whatever has been made has a sign that makes pipes, so another pipe that the scan finds for the output can only be a number pipe, or, for
  `>n`, a user pipe, and then the command would have been refused. `OutputIsRead` (`NoOutputDropped`), from `DropInv`: of the pipes of one client that are due at the same time only the first is ever
  written to, ordinary pipes that were left behind apart (`FirstsAreFed`); an ordinary pipe of the current line and a number pipe due on the next,
  which the end of the line brings together, must be in order before it (`CrossingsAreFed`).
* `NpSingleUsers_proofs`: `UsersTypesCorrect`, `NamesStayUnique`, `NewsStayCurrent` (together one invariant, `UsersInv`: a name is announced to everybody who is there when it changes, and whoever
  has not been accepted has heard nothing and has no name), `OnlyRudenessKills` (`RudeInv`: a socket that is struck or reset belongs to a rude client, so that only such a one
  can raise SIGPIPE, and whatever else ends the server is a throw), `LinesAreKeptApart` (`LineInv`: a client that waits for its prompts, none of whose lines has been cut, has a line on its way, or its programs running, or a prompt to answer, never two of these,
  so no second line can stand behind the first when the server reads).
* `NpShell_proofs`: `ShellTypesCorrect` and `NumberPipesArriveInTime`, from `DueInv`: the node i lines behind the current one holds the pipe that is due there,
  and a pipe that is due is in its node; the front holds what is due now only until the first batch is over, from then on the pipe between two batches; and while a line is split, there is one node
  more (`Extra`), by which all others are displaced. `ShiftMoves` and `SplitInserts` are the lemmas about the deque.
  `OutputsGoWhereTheyShould`, from `AimInv`: the front names the line's own target until the last command is forked, in np_simple only as long as the line is
  not split. `NoDescriptorIsLost`, from `CountInv`: at every place of the shell the open ends are those of the pipes in the deque, of the batch, and of blank lines.
  `WaitsFollowForks`, from `WaitInv`: what a child reads has left the deque and the rest of the batch, so no command that is still to be forked can write to it (`Past`), and a line
  never writes to what it reads, nor does what is split off it (`OutsInv`); it needs `CountInv`, because a new command gets every end that the shell holds.
* `NpMultiTable_proofs`: `TableTypes`, `RowsAreTakenInWindows`, `MailIsShown`, `SignalsAreAimed`. `MailIsShown` is the hardest: its
  invariant `MailInv` says, while no row is shared, of every row with a message that a signal for its process is on the way or that its sender is about to send it,
  and the steps that could break it are the ones that reset a row, or end a process in its handler with a message already in place (`lost`; that nothing is shown twice is `OnceInv`); for all others the lemma `MostAreQuiet` says that they leave rows and signals alone.
  `NamesClashInRaces`, from `NameInv`: a row that the loop of a `name` command has passed, and that has the name now, got it meanwhile from a client that was renaming at the same time.
  `SignalInv` says, while no row is shared, that a row with a uid has a pid or is halfway (`Halfway`: being entered or left, or its process was killed at that point), and that a row that a message goes to has a pid, unless
  it was given up since it was tested, or found half-way or as user -1.
* `ForkingServer_proofs`: `ServerTypesCorrect`, `SocketsArePrivate`, `EndsAreSeen`, `ZombiesAreFound`, from `ServerInv`: the types, what a client in each state has been
  told, and who may hold which socket at each place of the server.
* `NpMultiPipes_proofs`: `PipesTypesCorrect`, `NoPipeIsInherited`, `PipesStayReadable`, `InputIsClean`, `ExitsForgetPipes`: what each statement of `CreateFifo`, `ReadFifo` and `ClientExit`
  may assume of the flags and the file that other processes change in between; what a process has tested and is about to use (`job`) is still
  true, or the history says who has interfered. `OwnerInv` (a flag that is found set is of a pipe made for the client in the row) and `ReadableInv` (which flags of the last pipe are
  set at which place of its maker) hold as long as no row is shared, and are what the first two need; `ForgetInv` follows an entry of `pipeV` from its making through `ClosePipe` and both countdowns to the end of the line, and `CleanInv` the contents of a file, whoever shares rows.
* `ConsoleSession_proofs`: `ConsoleTypesCorrect`; `AllOrNothing`, from `PageInv`: handlers run only after the launch; `ConsoleKeepsStep` (`OneCommandPerPrompt`), from `AskInv`: each prompt that was printed
  has been answered, was missed, or is still on its way, whatever became of the session. `SplitCount` and `JoinCount` count the prompts of a text that is cut in two or joined, for every text.
* `SocksSession_proofs`: `SessionTypesCorrect`; `RequestsAreUnderstood`: the parser takes from every sequence of bytes what the encoder put there (`ParsesWhole`); `AddressesAreAnswered`, from `DueInv`;
  `BindsAreAnswered` (`BindIsAnswered`), from `BindInv`, which counts the replies to the addresses the loop has behind it: each accept that was started has let a caller in, has turned one away, or still waits; `AcceptsAreTrue`, from `TruthInv` (an outcome "ok" that waits to be handled is of a socket that is
  connected, or of an attempt whose failure was taken by the next); and the refinement, `RelaysRefineStreams`: every step of a session is a step of `RelayedStream` or none, in either direction. It needs `RunInv` (which relays run in which state) and `FlowInv`: what is in a
  chain, in the socket buffers and on its way is a stretch of what was sent. Each action is reduced to a move of one direction (`EveryMove`), and the moves to the steps of the abstract specification (`DirectionStep`), both directions by the same lemmas.
  `RelaysStream` (`RelaysAreStreams`) adds `AcceptInv`: no data comes before an ACCEPT.

The type invariants of all these modules are proved with them.

Assumptions: those named in the modules (`ConnAssumption`, `LimitAssumption`, `LinesAssumption`, and their
like), which TLC evaluates in every run. Two are about the world: `SocksNameAssumption` (a client that sends a host name sends 0.0.0.x as the address, as SOCKS 4A says) and `SocksRoomAssumption` (the replies to the addresses of one host, eight bytes each, fit the
empty buffer of a socket, so no reply is torn). Only model-checked: the liveness properties (`LineCompletes`, `SessionEnds`, `PageEnds`, `EveryoneIsServed`), because the
prover has no fairness; every other property of a passing run is a theorem.

## Not modelled

* Inputs on which the code has undefined behaviour: a user id outside the table (0 or above it) in `>n` or `<n`, `|n` with n of 4096 or more
  in the shells, a built-in without its argument, a slot above 4 in the console's query; and what a process of multi does after
  another one has taken the uid out of the row they share (`Astray`), for it then uses -1 as an index.
* Lines on which `stoi` throws, because there is something else than a number after `|`, `!`, `<` or `>`, in `NpSingle`, `NpMultiPipes` and `NpShell`. They end the server or the process on the spot;
  `NpSingleUsers` has them (`garbled`).
* In single: pipes and users are not in one module; `yell` stands for every command that is announced, so the lines `cat <1`
  and `cat >2` as far as news go. The ids array is not written at index -1 when a client without an id leaves. The standard input of the server is at its end. In `NpSingleUsers` a program
  prints one line or nothing, and one whose line does not wait for it prints nothing; that a program waits for ever is told from `NpSingle` there, where it has a reason.
* In multi: pid reuse, allocation inside the signal handler, commands that a `kill(-1)` hits besides the servers, the
  content of a shared memory segment left by an earlier run (`ClearClientTable` is never called). `who` only reads. `setenv` and `printenv` change the process's own
  environment. The ordinary and number pipes inside one process are as in `NpSingle` with one client.
* In the shells: the environment; a shell whose input has ended prompts for ever without any other effect.
* How far a program has come: one that reads takes all its input, one that writes much fills the pipe, and a reader of the
  terminal or of an idle client ends at any time. The commands of `src/cmd` are known by these two facts only.
* In the SOCKS server: what asio answers to a second connect or accept on one socket is external; a reply or a buffer that is used
  after its function has returned is "garbage" for its reader; that `remote_endpoint` throws for a connection that is already reset. That whoever calls a BIND is let in, without a
  question to the firewall, is what the code does and is modelled.
* In the console: a command is taken by the socket at once; the HTML it prints. In the HTTP server: the text of the request and the variables made of it; that
  `remote_endpoint` throws for a connection that is already reset, before a status is sent.
* Descriptor and process limits; a failing `pipe`; `fork` is retried by the shells until it succeeds.

## Plan

Done: all the modules above, one for each server and program of the repository but the filters in `src/cmd`, and the proofs of their safety properties. Left, in this order:

1. `NumberPipes`: the abstract specification of `|n` (a line owes its output to the n-th line after it, which gets all that is
   owed), implemented by `NpShell` under a refinement mapping from the deque.
2. The composition of `ConsoleSession` of project 4 with `SocksSession`, whose streams are the console's `toPage` and `toShell`.
