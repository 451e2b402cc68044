---------------------------- MODULE RelayedStream ----------------------------
(***************************************************************************)
(* What a relay promises about one direction: what arrives was sent, in the *)
(* order it was sent, and no unit twice; what is missing is missing at the   *)
(* start, or was lost when a chunk was torn.  When two relays have been       *)
(* started for the direction, all that is promised is that what arrives was  *)
(* sent.                                                                     *)
(***************************************************************************)
EXTENDS Integers, Sequences, SequencesExt

VARIABLES
  sent,       \* number of units sent; they are 1, 2, ...
  delivered,  \* the units on their way to the receiver or received; 0 for the relay's own
  single,     \* one relay at most
  whole,      \* no chunk has been torn
  open        \* the receiver has not closed

svars == <<sent, delivered, single, whole, open>>

Init == sent = 0 /\ delivered = <<>> /\ single = TRUE /\ whole = TRUE /\ open = TRUE

\* The i-th and then the j-th of what arrives are units that were sent.
Both(s, i, j) == i < j /\ s[i] # 0 /\ s[j] # 0

Increasing(s) == \A i, j \in DOMAIN s : Both(s, i, j) => s[i] < s[j]

\* Each unit but the first comes after the one that was sent before it.
NoGap(s) == \A i, j \in DOMAIN s : Both(s, i, j) => \E k \in 1..(j - 1) : s[k] = s[j] - 1

Send == sent' = sent + 1 /\ UNCHANGED <<delivered, single, whole, open>>

\* Some of what was sent arrives.  The last chunk may be torn: its rest is lost.
Deliver ==
  /\ open
  /\ IsPrefix(delivered, delivered')
  /\ \A i \in DOMAIN delivered' : delivered'[i] \in 0..sent
  /\ single => Increasing(delivered')
  /\ single /\ whole => NoGap(delivered')
  /\ whole' => whole
  /\ UNCHANGED <<sent, single, open>>

\* A second relay is started, when the receiver is told of a second connection.
Second ==
  /\ single /\ single' = FALSE
  /\ delivered' \in {delivered, Append(delivered, 0)}
  /\ UNCHANGED <<sent, whole, open>>

\* The receiver closes; what was still on its way is lost.
Close ==
  /\ open /\ open' = FALSE
  /\ IsPrefix(delivered', delivered)
  /\ UNCHANGED <<sent, single, whole>>

Next == Send \/ Deliver \/ Second \/ Close

Spec == Init /\ [][Next]_svars
=============================================================================
