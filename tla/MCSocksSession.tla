--------------------------- MODULE MCSocksSession ---------------------------
(* Requests, hosts and a firewall for TLC's run of SocksSession. *)
EXTENDS SocksSession, TLC

Net1 == <<140, 113, 1, 1>>
Net2 == <<10, 0, 0, 1>>
Net3 == <<140, 1, 1, 1>>
V6   == <<0, 1>>
Name(n) == <<0, 0, 0, n>>

Ask(command, address, userId, domain) ==
  [command |-> command, port |-> 258, address |-> address, userId |-> userId, domain |-> domain]

\* CONNECT to an address and, by name, to several; BIND; neither; a user id before the
\* name; addresses the firewall refuses.
SomeWants ==
  {Ask(1, Net1, <<>>, <<>>), Ask(1, Net1, <<7>>, <<>>), Ask(1, Name(1), <<>>, <<9, 9>>),
   Ask(1, Name(1), <<>>, <<9, 8>>), Ask(1, Name(1), <<7, 9>>, <<9, 8>>), Ask(1, Net2, <<>>, <<>>),
   Ask(2, Net1, <<>>, <<>>), Ask(2, Name(1), <<>>, <<9, 9>>), Ask(2, Name(1), <<>>, <<9, 7>>),
   Ask(3, Net1, <<>>, <<>>)}

\* Host <<9, 9>> has two addresses that are permitted, <<9, 8>> one that is
\* permitted for BIND only.
SomeLookup ==
  (Net1 :> <<Net1>>) @@ (Net2 :> <<Net2>>) @@ (<<0, 0, 0, 0>> :> << <<0, 0, 0, 0>> >>)
  @@ (<<9, 9>> :> <<Net1, V6, <<140, 113, 2, 2>> >>) @@ (<<9, 8>> :> <<Net3, Net1>>)
  @@ (<<9>> :> <<Net2>>) @@ (<<9, 7>> :> <<Net2, Net1>>)

SomeSends == [client |-> 1, server |-> 2]

Rule(action, type, address) == [action |-> action, type |-> type, address |-> address]

SomeConf ==
  <<Rule("permit", "c", <<140, 113, Star, Star>>), Rule("permit", "b", <<140, Star, Star, Star>>),
    Rule("permit", "c", <<0, 0, 0, 0>>), Rule("deny", "c", <<10, 0, 0, 1>>),
    Rule("permit", "c", <<10, Star>>)>>
=============================================================================
