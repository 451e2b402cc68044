---------------------------- MODULE SocksRequest ----------------------------
(***************************************************************************)
(* A SOCKS4 or SOCKS4A request as socks4.hpp reads it, and the decision of  *)
(* firewall.cpp.                                                            *)
(*                                                                         *)
(* A request is a sequence of bytes: version, command, port (2), address   *)
(* (4), user id and 0, and in SOCKS4A a host name and 0.  The buffer is    *)
(* filled with zeros, so that a byte that has not come reads as 0.         *)
(***************************************************************************)
EXTENDS Integers, Sequences, SequencesExt

Byte == 0..255
MaxPort == 256 * 256 - 1
PortNumber == 0..MaxPort

\* buffer[i] of the source, for the bytes that one read has brought.
At(bytes, i) == IF i < Len(bytes) THEN bytes[i + 1] ELSE 0

\* Mutant of Shift: the register is wider than 32 bits and keeps what it held.
ShiftKeeps(register, b) == Append(register, b)

\* address_ is a register of four bytes: (address_ << 8) | b.
Shift(register, b) == Append(Tail(register), b)

\* address_ is not initialized; four shifts follow.
Address(garbage, bytes) ==
  Shift(Shift(Shift(Shift(garbage, At(bytes, 4)), At(bytes, 5)), At(bytes, 6)), At(bytes, 7))

\* get_port.
Port(bytes) == 256 * At(bytes, 2) + At(bytes, 3)

\* The bytes from position i to the next 0, or to the end.
Text(bytes, i) ==
  LET ends == {j \in i..Len(bytes) : j = Len(bytes) \/ bytes[j + 1] = 0}
  IN  IF i >= Len(bytes) THEN <<>>
      ELSE SubSeq(bytes, i + 1, CHOOSE j \in ends : \A k \in ends : j <= k)

\* 0 < address_ <= 255, and a byte behind the 0 of an empty user id.
IsSocks4a(address, bytes) ==
  /\ address[1] = 0 /\ address[2] = 0 /\ address[3] = 0 /\ address[4] # 0
  /\ 10 < Len(bytes)

\* Mutant of DomainAt: the search starts at the user id.
DomainAtUserId == 8

\* The host name is looked for at byte 9, wherever the user id ends.
DomainAt == 9

Command(b) == CASE b = 1 -> "CONNECT" [] b = 2 -> "BIND" [] OTHER -> "UNKNOWN"

\* Request(buffer, bytes).
Parse(garbage, bytes) ==
  LET address == Address(garbage, bytes)
      is4a    == IsSocks4a(address, bytes)
  IN  [command |-> Command(At(bytes, 1)), port |-> Port(bytes), address |-> address,
       isSocks4a |-> is4a, domain |-> IF is4a THEN Text(bytes, DomainAt) ELSE <<>>]

\* What do_resolve looks up.
Host(request) == IF request.isSocks4a THEN request.domain ELSE request.address

\* What a client that wants this sends, in the pieces in which it may arrive: see
\* buffers() for SOCKS4.  A SOCKS4A client adds the host name.
Encode(want) ==
  << <<4, want.command, want.port \div 256, want.port % 256>>, want.address,
     want.userId \o <<0>> \o IF want.domain = <<>> THEN <<>> ELSE want.domain \o <<0>> >>

-----------------------------------------------------------------------------
\* socks.conf: "permit c 140.113.*.*".  An octet "*" of a rule stands for any.

Star == -1

Matches(rule, address) ==
  /\ Len(rule.address) = Len(address)
  /\ \A i \in DOMAIN address : rule.address[i] \in {Star, address[i]}

\* Firewall::check.  A line that does not permit is no rule.
Check(conf, address, command) ==
  \E i \in DOMAIN conf :
    /\ conf[i].action = "permit"
    /\ \/ conf[i].type = "c" /\ command = "CONNECT"
       \/ conf[i].type = "b" /\ command = "BIND"
    /\ Matches(conf[i], address)
=============================================================================
