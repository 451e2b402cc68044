---------------------------- MODULE SocksSession ----------------------------
(***************************************************************************)
(* The process that serves one client of socks_server.cpp: it reads the     *)
(* request, resolves the host, connects to it or waits for it (BIND),       *)
(* replies, and relays in both directions.                                  *)
(*                                                                         *)
(* One thread runs the handlers, one at a time; the network moves between    *)
(* any two steps, also between two turns of the loop over the addresses.    *)
(* What travels is units: pieces of the request, the replies, and numbered   *)
(* data.  The two relays are alike but for their ends.                      *)
(***************************************************************************)
EXTENDS SocksRequest, FiniteSets

CONSTANTS
  Wants,     \* what a client may ask for: command, port, address, user id and host
  Lookup,    \* Lookup[h]: what the resolver finds for host h, a sequence
  Conf,      \* the lines of socks.conf
  MaxSend,   \* bound: MaxSend[x] units of data side x sends
  Window     \* bound: units a socket takes before its reader reads

Side  == {"client", "server"}   \* a side, and the socket that leads to it
Other == [client |-> "server", server |-> "client"]
Chain == 1..2                   \* bound: relays that run at once

ASSUME SocksBoundAssumption == MaxSend \in [Side -> Nat] /\ Window \in Nat \ {0}
ASSUME SocksWantAssumption ==
  Wants \subseteq [command : Byte, port : PortNumber, address : [1..4 -> Byte],
                   userId : Seq(Byte \ {0}), domain : Seq(Byte \ {0})]

\* The address 0.0.0.x, with x other than 0, says that a host name follows.
ASSUME SocksNameAssumption ==
  \A w \in Wants : w.domain # <<>> =>
    w.address[1] = 0 /\ w.address[2] = 0 /\ w.address[3] = 0 /\ w.address[4] # 0

ASSUME SocksLookupAssumption == \A h \in DOMAIN Lookup : Lookup[h] \in Seq(Seq(Byte))

\* A socket takes the replies for all the addresses of a host: they are eight bytes each.
ASSUME SocksRoomAssumption ==
  \A h \in DOMAIN Lookup :
    Cardinality({i \in 1..Len(Lookup[h]) : Len(Lookup[h][i]) = 4}) <= Window

VARIABLES
  want,      \* the request of this client
  sent,      \* sent[x]: the data x has sent; the pieces of the request: pieces
  pieces,
  inq,       \* inq[x]: units x has sent and the process has not read
  outq,      \* outq[x]: units written for x that x has not read
  got,       \* got[x]: units x has read
  gone,      \* the sides that have closed
  rst,       \* those that closed with units unread: their connection is reset
  pc,        \* "request", "resolve", "run", "done"
  request,   \* request_
  todo,      \* the results the loop in do_resolve has not come to
  conn,      \* server_: "none", "connecting", "up", "failed", "cleared"
  remote,    \* the address server_ was to connect to
  waiting,   \* a connect operation is registered
  posted,    \* outcomes of connects that were decided at once
  accepts,   \* pending async_accept
  callers,   \* hosts that have connected to acceptor_
  late,      \* replies the client's socket did not take at once
  chain,     \* chain[x][i]: relay i of what x sends
  buf,       \* client_buffer and server_buffer
  shut,      \* sockets that were shut down
  history    \* see NoHistory

peers == <<want, sent, pieces, got, gone, rst>>
connecting == <<conn, remote, waiting, posted, accepts, callers>>
relay == <<chain, buf, shut>>
vars == <<peers, inq, outq, pc, request, todo, connecting, late, relay, history>>

\* read: pieces of the request that were read with it; swallowed: data read with it;
\* torn: relays that lost the rest of a chunk; answers: replies;
\* skipped: a connect failed and the failure was taken by the next.
NoHistory == [read |-> 0, swallowed |-> FALSE, torn |-> {}, answers |-> <<>>,
              skipped |-> FALSE]

NoRequest == [command |-> "UNKNOWN", port |-> 0, address |-> <<0, 0, 0, 0>>,
              isSocks4a |-> FALSE, domain |-> <<>>]

Off == [st |-> "off", len |-> 0]

Init ==
  /\ want \in Wants
  /\ sent = [x \in Side |-> 0] /\ pieces = 0
  /\ inq = [x \in Side |-> <<>>]
  /\ outq = [x \in Side |-> <<>>]
  /\ got = [x \in Side |-> <<>>]
  /\ gone = {} /\ rst = {} /\ shut = {}
  /\ pc = "request"
  /\ request = NoRequest
  /\ todo = <<>>
  /\ conn = "none" /\ remote = <<>> /\ waiting = FALSE /\ posted = <<>>
  /\ accepts = 0 /\ callers = 0
  /\ late = 0
  /\ chain = [x \in Side |-> [i \in Chain |-> Off]]
  /\ buf = [x \in Side |-> <<>>]
  /\ history = NoHistory

packet == Encode(want)

\* What n pieces of it bring.
Brought(n) ==
  packet[1] \o (IF n > 1 THEN packet[2] ELSE <<>>) \o (IF n > 2 THEN packet[3] ELSE <<>>)

\* What travels: number n of what a side sends (the pieces of the request are the
\* client's first), or a reply.
Unit(n) == [is |-> "data", n |-> n]
Reply(answer) == [is |-> answer, n |-> 0]

-----------------------------------------------------------------------------
\* The peers and the network.

SendPiece ==
  /\ "client" \notin gone /\ pieces < Len(packet)
  /\ pieces' = pieces + 1
  /\ inq' = [inq EXCEPT !["client"] = Append(@, Unit(pieces'))]
  /\ UNCHANGED <<want, sent, outq, got, gone, rst, pc, request, todo, connecting, late,
                 relay, history>>

\* The server speaks once it is connected; the client may before it has its reply.
SendData(x) ==
  /\ x \notin gone /\ sent[x] < MaxSend[x]
  /\ IF x = "client" THEN pieces = Len(packet) ELSE conn = "up"
  /\ sent' = [sent EXCEPT ![x] = @ + 1]
  /\ inq' = [inq EXCEPT ![x] = Append(@, Unit(sent'[x] + pieces * (IF x = "client" THEN 1 ELSE 0)))]
  /\ UNCHANGED <<want, pieces, outq, got, gone, rst, pc, request, todo, connecting, late,
                 relay, history>>

PeerReads(x) ==
  /\ x \notin gone /\ outq[x] # <<>>
  /\ got' = [got EXCEPT ![x] = Append(@, Head(outq[x]))]
  /\ outq' = [outq EXCEPT ![x] = Tail(@)]
  /\ UNCHANGED <<want, sent, pieces, gone, rst, inq, pc, request, todo, connecting, late,
                 relay, history>>

\* A side that closes before it has read everything resets the connection: what it sent
\* and the process has not read is lost.
PeerCloses(x) ==
  /\ x \notin gone
  /\ x = "server" => conn = "up"
  /\ gone' = gone \cup {x}
  /\ IF outq[x] = <<>>
     THEN UNCHANGED <<rst, inq, outq>>
     ELSE /\ rst' = rst \cup {x}
          /\ inq' = [inq EXCEPT ![x] = <<>>]
          /\ outq' = [outq EXCEPT ![x] = <<>>]
  /\ UNCHANGED <<want, sent, pieces, got, pc, request, todo, connecting, late, relay, history>>

\* The host answers the connect, or refuses.
HostAnswers ==
  /\ conn = "connecting"
  /\ conn' \in {"up", "failed"}
  /\ UNCHANGED <<peers, inq, outq, pc, request, todo, remote, waiting, posted, accepts, callers,
                 late, relay, history>>

\* Some host connects to acceptor_.
HostCalls ==
  /\ request.command = "BIND" /\ accepts > 0 /\ callers < 2
  /\ callers' = callers + 1
  /\ UNCHANGED <<peers, inq, outq, pc, request, todo, conn, remote, waiting, posted, accepts,
                 late, relay, history>>

-----------------------------------------------------------------------------
\* do_reply.  async_write_some sends at once what the socket takes.  What it does not
\* take is sent later, from a buffer that is gone by then.

DoReply(answer) ==
  LET fails == "client" \in gone \cup shut
      takes == ~fails /\ Len(outq["client"]) < Window
  IN  /\ outq' = IF takes THEN [outq EXCEPT !["client"] = Append(@, Reply(answer))] ELSE outq
      /\ late' = IF takes \/ fails THEN late ELSE late + 1
      /\ history' = [history EXCEPT !.answers = Append(@, answer)]

LateReply ==
  /\ late > 0
  /\ late' = late - 1
  /\ \/ /\ "client" \in gone \cup shut
        /\ UNCHANGED outq
     \/ /\ "client" \notin gone \cup shut /\ Len(outq["client"]) < Window
        /\ outq' = [outq EXCEPT !["client"] = Append(@, Reply("garbage"))]
  /\ UNCHANGED <<peers, inq, pc, request, todo, connecting, relay, history>>

-----------------------------------------------------------------------------
\* The request.

\* One read, whatever it brings; data that comes with the request goes with it.
ReadRequest ==
  /\ pc = "request" /\ inq["client"] # <<>>
  /\ \E k \in 1..Len(inq["client"]), garbage \in {<<0, 0, 0, 0>>, <<255, 255, 255, 255>>} :
       LET n == IF k < Len(packet) THEN k ELSE Len(packet)
       IN  /\ request' = Parse(garbage, Brought(n))
           /\ inq' = [inq EXCEPT !["client"] = SubSeq(@, k + 1, Len(@))]
           /\ history' = [history EXCEPT !.read = n, !.swallowed = k > n]
  /\ pc' = "resolve"
  /\ UNCHANGED <<peers, outq, todo, connecting, late, relay>>

\* End of file or an error instead of a request: nothing is pending any more.
NoRequestComes ==
  /\ pc = "request" /\ "client" \in gone /\ inq["client"] = <<>>
  /\ pc' = "run"
  /\ UNCHANGED <<peers, inq, outq, request, todo, connecting, late, relay, history>>

\* What the resolver finds.
Found == IF Host(request) \in DOMAIN Lookup THEN Lookup[Host(request)] ELSE <<>>

\* do_resolve.  A host that is not found leaves nothing pending, and no reply.
DoResolve ==
  /\ pc = "resolve"
  /\ pc' = "run"
  /\ todo' = Found
  /\ UNCHANGED <<peers, inq, outq, request, connecting, late, relay, history>>

\* Only IPv4 addresses.
SkipV6 ==
  /\ todo # <<>> /\ Len(Head(todo)) # 4
  /\ todo' = Tail(todo)
  /\ UNCHANGED <<peers, inq, outq, pc, request, connecting, late, relay, history>>

-----------------------------------------------------------------------------
\* do_connect, called for each address in turn, always with the one socket server_.

\* async_connect: the first opens server_, or fails at once.  The system refuses a further
\* one while the first is in progress (EALREADY) and after it was told of its success
\* (EISCONN); if the first has succeeded or failed unobserved, the further one takes that
\* result.
AsyncConnect(address) ==
  \/ /\ conn = "none"
     /\ remote' = address
     /\ \/ (conn' = "connecting" /\ waiting' = TRUE /\ UNCHANGED posted)
        \/ (conn' = "up" /\ posted' = Append(posted, "ok") /\ UNCHANGED waiting)
     /\ UNCHANGED history
  \/ /\ conn \in {"none", "connecting", "cleared"} \/ (conn = "up" /\ ~waiting)
     /\ posted' = Append(posted, "error")
     /\ UNCHANGED <<conn, remote, waiting, history>>
  \/ /\ conn = "up" /\ waiting
     /\ posted' = Append(posted, "ok")
     /\ UNCHANGED <<conn, remote, waiting, history>>
  \/ /\ conn = "failed"
     /\ conn' = "cleared"
     /\ posted' = Append(posted, "error")
     /\ history' = [history EXCEPT !.skipped = TRUE]
     /\ UNCHANGED <<remote, waiting>>

Permitted(address) == Check(Conf, address, request.command)

Connect ==
  /\ todo # <<>> /\ Len(Head(todo)) = 4 /\ request.command = "CONNECT"
  /\ Permitted(Head(todo))
  /\ AsyncConnect(Head(todo))
  /\ todo' = Tail(todo)
  /\ UNCHANGED <<peers, inq, outq, pc, request, accepts, callers, late, relay>>

Bind ==
  /\ todo # <<>> /\ Len(Head(todo)) = 4 /\ request.command = "BIND"
  /\ Permitted(Head(todo))
  /\ DoReply("ACCEPT")
  /\ accepts' = accepts + 1
  /\ todo' = Tail(todo)
  /\ UNCHANGED <<peers, inq, pc, request, conn, remote, waiting, posted, callers, relay>>

Refuse ==
  /\ todo # <<>> /\ Len(Head(todo)) = 4 /\ ~Permitted(Head(todo))
  /\ DoReply("REJECT")
  /\ todo' = Tail(todo)
  /\ UNCHANGED <<peers, inq, pc, request, connecting, relay>>

\* A handler can run.
Idle == pc = "run" /\ todo = <<>>

\* async_read_from_server and async_read_from_client: the next relay in each direction.
StartRelay ==
  LET i == IF chain["client"][1].st = "off" THEN 1 ELSE 2
  IN  chain' = [x \in Side |-> [chain[x] EXCEPT ![i] = [st |-> "read", len |-> 0]]]

\* Mutant of Answer: the reply is ACCEPT before the outcome is looked at.
AnswerAccept(ok) == DoReply("ACCEPT") /\ IF ok THEN StartRelay ELSE UNCHANGED chain

\* Mutant of Answer: a failure returns before the reply.
AnswerSuccess(ok) ==
  IF ok THEN DoReply("ACCEPT") /\ StartRelay ELSE UNCHANGED <<outq, late, history, chain>>

Answer(ok) ==
  IF ok THEN DoReply("ACCEPT") /\ StartRelay ELSE DoReply("REJECT") /\ UNCHANGED chain

\* The handler of async_connect.
Connected(ok) ==
  /\ Answer(ok)
  /\ UNCHANGED <<peers, inq, pc, request, todo, conn, remote, accepts, callers, buf, shut>>

ConnectDone ==
  /\ Idle /\ waiting /\ conn \in {"up", "failed", "cleared"}
  /\ waiting' = FALSE
  /\ Connected(conn # "failed")
  /\ UNCHANGED posted

ConnectPosted ==
  /\ Idle /\ posted # <<>>
  /\ posted' = Tail(posted)
  /\ Connected(Head(posted) = "ok")
  /\ UNCHANGED waiting

\* The handler of async_accept.  The first caller becomes server_; for another one
\* server_ is taken, which is an error.
AcceptDone ==
  /\ Idle /\ accepts > 0 /\ callers > 0
  /\ accepts' = accepts - 1 /\ callers' = callers - 1
  /\ conn' = "up"
  /\ Answer(conn = "none")
  /\ UNCHANGED <<peers, inq, pc, request, todo, remote, waiting, posted, buf, shut>>

-----------------------------------------------------------------------------
\* The relays.  Two that run at once share the buffers.

Set(x, i, st, len) == chain' = [chain EXCEPT ![x][i] = [st |-> st, len |-> len]]

\* Mutant of Fill: the read goes behind what the buffer holds.
FillBehind(old, chunk) == old \o chunk

\* A read overwrites the front of the buffer.
Fill(old, chunk) == chunk \o SubSeq(old, Len(chunk) + 1, Len(old))

\* async_read_from_x: some of what has come.
RelayReads(x, i) ==
  /\ Idle /\ chain[x][i].st = "read" /\ x \notin shut /\ inq[x] # <<>>
  /\ \E k \in 1..Len(inq[x]) :
       /\ inq' = [inq EXCEPT ![x] = SubSeq(@, k + 1, Len(@))]
       /\ buf' = [buf EXCEPT ![x] = Fill(@, SubSeq(inq[x], 1, k))]
       /\ Set(x, i, "write", k)
  /\ UNCHANGED <<peers, outq, pc, request, todo, connecting, late, shut, history>>

\* Mutant of RelayEnds: after a reset the relay reads on.
RelayRetries(x, i) ==
  /\ Idle /\ chain[x][i].st = "read"
  /\ x \in shut \/ (x \in gone \ rst /\ inq[x] = <<>>)
  /\ shut' = shut \cup {x}
  /\ Set(x, i, "end", 0)
  /\ UNCHANGED <<peers, inq, outq, pc, request, todo, connecting, late, buf, history>>

\* End of file: the socket that was read is shut down, the other side is told nothing.
\* After an error nothing is shut down.
RelayEnds(x, i) ==
  /\ Idle /\ chain[x][i].st = "read"
  /\ x \in shut \/ (x \in gone /\ inq[x] = <<>>)
  /\ shut' = IF x \in rst THEN shut ELSE shut \cup {x}
  /\ Set(x, i, "end", 0)
  /\ UNCHANGED <<peers, inq, outq, pc, request, todo, connecting, late, buf, history>>

Space(y) == Window - Len(outq[y])

\* async_write_some to the other side: what its socket takes; the rest is forgotten.
RelayWrites(x, i) ==
  LET y == Other[x]
      n == chain[x][i].len
      k == IF n <= Space(y) THEN n ELSE Space(y)
  IN  /\ Idle /\ chain[x][i].st = "write"
      /\ y \notin gone \cup shut /\ k > 0
      /\ outq' = [outq EXCEPT ![y] = @ \o SubSeq(buf[x], 1, k)]
      /\ history' = IF k < n THEN [history EXCEPT !.torn = @ \cup {x}] ELSE history
      /\ Set(x, i, "read", 0)
      /\ UNCHANGED <<peers, inq, pc, request, todo, connecting, late, buf, shut>>

\* The other side has closed: one write may seem to succeed, then they fail.
RelayFails(x, i) ==
  /\ Idle /\ chain[x][i].st = "write" /\ Other[x] \in gone \cup shut
  /\ \/ Set(x, i, "end", 0)
     \/ /\ Other[x] \notin shut \cup rst
        /\ Set(x, i, "read", 0)
  /\ UNCHANGED <<peers, inq, outq, pc, request, todo, connecting, late, buf, shut, history>>

-----------------------------------------------------------------------------
\* io_context::run returns when no operation is pending: the process ends.

Active(x) == {i \in Chain : chain[x][i].st \in {"read", "write"}}

Pending ==
  \/ ~Idle \/ waiting \/ posted # <<>> \/ accepts > 0 \/ late > 0
  \/ Active("client") # {} \/ Active("server") # {}

End ==
  /\ ~Pending
  /\ pc' = "done"
  /\ UNCHANGED <<peers, inq, outq, request, todo, connecting, late, relay, history>>

Relay(x) == \E i \in Chain : RelayReads(x, i) \/ RelayEnds(x, i) \/ RelayWrites(x, i) \/ RelayFails(x, i)

\* The handlers.
Handler ==
  \/ ReadRequest \/ NoRequestComes \/ DoResolve \/ SkipV6 \/ Connect \/ Bind \/ Refuse
  \/ ConnectDone \/ ConnectPosted \/ AcceptDone \/ LateReply \/ End

Peer(x) == SendData(x) \/ PeerReads(x) \/ PeerCloses(x)

Next ==
  \/ pc # "done" /\ (SendPiece \/ HostAnswers \/ HostCalls \/ \E x \in Side : Peer(x))
  \/ Handler
  \/ \E x \in Side : Relay(x)

Spec == Init /\ [][Next]_vars

\* io_context runs every handler whose operation can complete; a host answers or the
\* connect fails in the end.
FairSpec ==
  /\ Spec
  /\ WF_vars(Handler) /\ WF_vars(HostAnswers)
  /\ \A x \in Side : WF_vars(Relay(x))

-----------------------------------------------------------------------------
Units == [is : {"data"}, n : Nat] \cup [is : {"ACCEPT", "REJECT", "garbage"}, n : {0}]

\* The types of the sockets, the operations and the relays.
TypeOK ==
  /\ want \in Wants /\ pieces \in 0..3
  /\ sent \in [Side -> Nat]
  /\ inq \in [Side -> Seq(Units)]
  /\ outq \in [Side -> Seq(Units)] /\ \A x \in Side : Len(outq[x]) <= Window
  /\ got \in [Side -> Seq(Units)]
  /\ rst \subseteq gone /\ gone \subseteq Side /\ shut \subseteq Side
  /\ pc \in {"request", "resolve", "run", "done"}
  /\ request \in [command : {"CONNECT", "BIND", "UNKNOWN"}, port : PortNumber,
                  address : [1..4 -> Byte], isSocks4a : BOOLEAN, domain : Seq(Byte)]
  /\ conn \in {"none", "connecting", "up", "failed", "cleared"}
  /\ waiting \in BOOLEAN
  /\ posted \in Seq({"ok", "error"})
  /\ accepts \in Nat /\ callers \in Nat /\ late \in Nat
  /\ chain \in [Side -> [Chain -> [st : {"off", "read", "write", "end"}, len : Nat]]]
  /\ buf \in [Side -> Seq(Units)]

\* When the whole request has come in one read, the server does what it asks for, with
\* whatever was in address_ before: unless a user id stands before a host name, or
\* before nothing where the address announces a host name.
RequestIsUnderstood ==
  LET is4a == want.domain # <<>>
  IN  ( /\ pc \notin {"request"} /\ history.read = Len(packet)
        /\ want.userId = <<>> \/ (~is4a /\ Head(want.address) # 0) )
      => request = [command |-> Command(want.command), port |-> want.port,
                    address |-> want.address, isSocks4a |-> is4a, domain |-> want.domain]

\* The IPv4 addresses among the first n that were found.
V4(n) == {i \in 1..n : Len(Found[i]) = 4}

\* A CONNECT gets one reply for each IPv4 address of the host: several, when the host
\* has several, though there is one connection.
EveryAddressIsAnswered ==
  (Idle /\ ~waiting /\ posted = <<>> /\ request.command = "CONNECT") =>
    Len(history.answers) = Cardinality(V4(Len(Found)))

\* The replies of one kind, and the addresses that a BIND may wait for.
Given(answer) == {i \in DOMAIN history.answers : history.answers[i] = answer}
Awaited == {i \in V4(Len(Found)) : Permitted(Found[i])}

\* A BIND for which the firewall permits no address lets nobody in.  Otherwise the client
\* is told ACCEPT for each address that is permitted, before anybody calls, and once more
\* for the one caller that is let in, of whom the firewall is not asked; REJECT for each
\* other address, and for each caller that finds server_ taken.
BindIsAnswered ==
  (Idle /\ request.command = "BIND") =>
    LET in == IF conn = "up" THEN 1 ELSE 0
    IN  /\ Awaited = {} => in = 0
        /\ Cardinality(Given("ACCEPT")) = Cardinality(Awaited) + in
        /\ Cardinality(Given("REJECT")) =
             Cardinality(V4(Len(Found)) \ Awaited) + Cardinality(Awaited) - accepts - in

\* ACCEPT for a CONNECT means that server_ is connected; the exception is a first
\* attempt whose failure was reported to the next one.
AcceptIsTrue ==
  (request.command = "CONNECT" /\ conn # "up" /\ ~history.skipped) =>
    \A i \in DOMAIN history.answers : history.answers[i] # "ACCEPT"

\* What is on its way to side x or there, by its numbers: 0 for a reply.
Stream(x)    == got[x] \o outq[x]
Delivered(x) == [i \in DOMAIN Stream(x) |-> Stream(x)[i].n]
SentBy(x)    == sent[x] + IF x = "client" THEN pieces ELSE 0
Doubled      == chain["client"][2].st # "off"

\* Data goes to the client after an ACCEPT, and no reply is lost for want of space
\* before there is one.
DataFollowsAccept ==
  LET s == Stream("client")
  IN  \A i \in DOMAIN s : s[i].is # "ACCEPT" =>
        s[i].is = "REJECT" \/ \E j \in 1..(i - 1) : s[j].is = "ACCEPT"

ToServer == INSTANCE RelayedStream WITH
  sent <- SentBy("client"), delivered <- Delivered("server"), single <- ~Doubled,
  whole <- "client" \notin history.torn, open <- "server" \notin gone

ToClient == INSTANCE RelayedStream WITH
  sent <- SentBy("server"), delivered <- Delivered("client"), single <- ~Doubled,
  whole <- "server" \notin history.torn, open <- "client" \notin gone

\* What reaches the server is what the client has sent, what reaches the client is what
\* the server has sent: in order, no unit twice, and none missing in the middle, through
\* any partial reads and writes, unless two relays run or a write took only part of a
\* chunk.  The client gets no data before it gets an ACCEPT.
RelaysAreStreams == ToServer!Spec /\ ToClient!Spec /\ []DataFollowsAccept

\* A session whose two sides have closed ends, if it is not waiting for callers.
SessionEnds == (pc = "run" /\ gone = Side /\ accepts = 0) ~> pc = "done"
=============================================================================
