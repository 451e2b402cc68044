------------------------ MODULE NpMultiTable_proofs ------------------------
(***************************************************************************)
(* Proofs about the shared client table, for every number of rows and      *)
(* processes and all commands.                                             *)
(***************************************************************************)
EXTENDS NpMultiTable, TLAPS

HasRow == Places \ {"unborn", "claim", "leaving", "gone", "dead"}
Sends == {"scan", "copy", "kill", "tell", "tellCopy", "tellKill"}

\* Where a process is says what it has at hand.
AtHand(p) ==
  /\ pc[p] \in HasRow => row[p] \in Rows
  /\ handler[p] # Off => row[p] \in Rows
  /\ pc[p] \in Sends \cup {"claim", "nameCheck"} => at[p] \in Rows
  /\ pc[p] \in Sends => sending[p] \in Message
  /\ pc[p] \in {"nameCheck", "nameCopy"} => sending[p] \in Names
  /\ pc[p] = "tell" => told[p] = -1 \/ told[p] = at[p]

TypeInv == TypeOK /\ \A p \in Proc : AtHand(p)

LEMMA MessageMade ==
  ASSUME NEW p \in Proc, NEW n \in 0..(MaxCommands + 1)
  PROVE  [from |-> p, nr |-> n] \in Message
BY DEF Message

LEMMA MessageNr ==
  ASSUME NEW m \in Message
  PROVE  m.nr \in 0..(MaxCommands + 1)
BY DEF Message

\* Where BroadCast's loop goes next.
LEMMA NextRowType ==
  ASSUME TypeInv, NEW p \in Proc, pc[p] \in Sends, NextRow(p)
  PROVE  /\ at' \in [Proc -> Rows \cup {0}]
         /\ pc' \in [Proc -> Places]
         /\ sending' \in [Proc -> Message \cup Names \cup {NoMsg}]
         /\ pc'[p] \in {"scan", "shell", "resetPid"}
         /\ pc'[p] = "scan" => at'[p] \in Rows /\ sending'[p] \in Message
         /\ \A q \in Proc \ {p} : at'[q] = at[q] /\ pc'[q] = pc[q] /\ sending'[q] = sending[q]
<1> USE LimitAssumption DEF TypeInv, TypeOK, AtHand, Rows, Sends, Places
<1>1. CASE at[p] < KMaxClient
  <2>1. /\ at' = [at EXCEPT ![p] = at[p] + 1] /\ pc' = [pc EXCEPT ![p] = "scan"]
        /\ sending' = sending
    BY <1>1 DEF NextRow, Goto
  <2>2. at[p] + 1 \in Rows
    BY <1>1
  <2> QED BY <2>1, <2>2
<1>2. CASE ~(at[p] < KMaxClient)
  <2>1. AfterBroadCast(p) \in {"shell", "resetPid"}
    BY DEF AfterBroadCast
  <2> QED BY <1>2, <2>1 DEF NextRow, Goto
<1> QED BY <1>1, <1>2

\* The types, with what each process has at hand, are kept by every step.
LEMMA TypeStep == TypeInv /\ [Next]_vars => TypeInv'
<1> SUFFICES ASSUME TypeInv, [Next]_vars PROVE TypeInv'
  OBVIOUS
<1> USE ProcAssumption, LimitAssumption DEF Rows, Null
<1>1. ASSUME UNCHANGED vars PROVE TypeInv'
  BY <1>1 DEF TypeInv, TypeOK, AtHand, vars, table, history
<1>2. ASSUME NEW p \in Proc, Continue(p) \/ Handler(p) \/ Client(p) PROVE TypeInv'
  <2> USE DEF TypeInv, TypeOK, AtHand, HasRow, Sends, Places, table, history
  <2>1. CASE SetClient(p)
    <3>1. CASE pid[at[p]] = NoProc
      <4>1. Take(p, at[p]) /\ at' = [at EXCEPT ![p] = 0] /\ pc' = [pc EXCEPT ![p] = "fd"]
        BY <2>1, <3>1 DEF SetClient, Goto
      <4> QED BY <2>1, <4>1 DEF SetClient, Step, Take
    <3>2. CASE pid[at[p]] # NoProc
      <4>1. CASE at[p] < KMaxClient
        <5>1. at' = [at EXCEPT ![p] = at[p] + 1] /\ UNCHANGED <<pc, uid, row, shared>>
          BY <2>1, <3>2, <4>1 DEF SetClient
        <5> QED BY <2>1, <4>1, <5>1 DEF SetClient, Step
      <4>2. CASE ~(at[p] < KMaxClient)
        <5>1. pc' = [pc EXCEPT ![p] = "dead"] /\ UNCHANGED <<at, uid, row, shared>>
          BY <2>1, <3>2, <4>2 DEF SetClient, Goto
        <5> QED BY <2>1, <5>1 DEF SetClient, Step
      <4> QED BY <4>1, <4>2
    <3> QED BY <3>1, <3>2
  <2>2. CASE SetFd(p)
    BY <2>2 DEF SetFd, Step, Goto
  <2>3. CASE SetPid(p)
    BY <2>3 DEF SetPid, Step, Goto
  <2>4. CASE SetName(p)
    <3> DEFINE m == [from |-> p, nr |-> 0]
    <3>1. m \in Message
      BY MessageMade
    <3>2. sending' = [sending EXCEPT ![p] = m]
      BY <2>4 DEF SetName
    <3>4. /\ name' \in [Rows -> Names \cup {NoName}]
          /\ UNCHANGED <<uid, pid, fd, msg, row, signalled, told, handler, readers, twice, sent, raced, shared, lost, vacated, master>>
      BY <2>4 DEF SetName, Step
    <3>5. /\ pc[p] = "name" /\ 1 \in Rows
          /\ at' = [at EXCEPT ![p] = 1] /\ pc' = [pc EXCEPT ![p] = "scan"]
      BY <2>4 DEF SetName, Step, Goto
    <3> HIDE DEF m
    <3> QED BY <3>1, <3>2, <3>4, <3>5
  <2>5. CASE Scan(p)
    <3>1. CASE pid[at[p]] # NoProc
      <4>1. /\ pc[p] = "scan" /\ pc' = [pc EXCEPT ![p] = "copy"] /\ vacated' \subseteq Proc
            /\ UNCHANGED <<uid, pid, fd, name, msg, row, at, sending, signalled, told, handler, readers, twice, sent, raced, shared, lost, master>>
        BY <2>5, <3>1 DEF Scan, Step, Goto
      <4> QED BY <4>1
    <3>2. CASE pid[at[p]] = NoProc
      <4>1. NextRow(p)
        BY <2>5, <3>2 DEF Scan
      <4>2. /\ pc[p] = "scan"
            /\ UNCHANGED <<uid, pid, fd, name, msg, row, signalled, told, handler, readers, twice, sent, raced, shared, lost, vacated, master>>
        BY <2>5, <3>2 DEF Scan, Step
      <4> QED BY <4>1, <4>2, NextRowType
    <3> QED BY <3>1, <3>2
  <2>6. CASE Copy(p)
    BY <2>6 DEF Copy, Step, Goto, Put
  <2>7. CASE Signal(p)
    <3>1. signalled' \in [Proc -> {"no", "pending", "now"}] /\ master' \in {"up", "down"}
      BY <2>7 DEF Signal, Kill
    <3>2. NextRow(p)
      BY <2>7 DEF Signal
    <3> QED BY <2>7, <3>1, <3>2, NextRowType DEF Signal, Step
  <2>8. CASE Tell(p)
    <3>0. /\ pc[p] = "tell" /\ vacated' \subseteq Proc
          /\ UNCHANGED <<uid, pid, fd, name, msg, row, signalled, handler, readers, twice, sent, raced, shared, lost, master>>
      BY <2>8 DEF Tell, Step
    <3>1. CASE pc' = [pc EXCEPT ![p] = "tellCopy"] /\ UNCHANGED <<at, sending, told>>
      BY <3>0, <3>1
    <3>2. CASE told[p] = -1 /\ at[p] < KMaxClient /\ at' = [at EXCEPT ![p] = at[p] + 1]
               /\ UNCHANGED <<pc, sending, told>>
      <4>1. at[p] + 1 \in Rows
        BY <3>0, <3>2
      <4> QED BY <3>0, <3>2, <4>1
    <3>3. CASE TellEnds(p)
      <4>1. /\ pc' = [pc EXCEPT ![p] = "shell"] /\ at' = [at EXCEPT ![p] = 0]
            /\ sending' = [sending EXCEPT ![p] = NoMsg] /\ told' = [told EXCEPT ![p] = 0]
        BY <3>3 DEF TellEnds, Goto
      <4> QED BY <3>0, <4>1
    <3> QED BY <2>8, <3>1, <3>2, <3>3 DEF Tell, Goto
  <2>9. CASE TellCopy(p)
    BY <2>9 DEF TellCopy, Step, Goto, Put
  <2>10. CASE TellSignal(p)
    <3>1. /\ pc[p] = "tellKill" /\ pc' = [pc EXCEPT ![p] = "shell"] /\ at' = [at EXCEPT ![p] = 0]
          /\ sending' = [sending EXCEPT ![p] = NoMsg] /\ told' = [told EXCEPT ![p] = 0]
          /\ signalled' \in [Proc -> {"no", "pending", "now"}] /\ master' \in {"up", "down"}
          /\ UNCHANGED <<uid, pid, fd, name, msg, row, handler, readers, twice, sent, raced, shared, lost, vacated>>
      BY <2>10 DEF TellSignal, TellEnds, Step, Goto, Kill
    <3> QED BY <3>1
  <2>11. CASE NameCheck(p)
    <3>1. CASE name[at[p]] = sending[p]
      <4>1. /\ pc[p] = "nameCheck" /\ pc' = [pc EXCEPT ![p] = "shell"]
            /\ at' = [at EXCEPT ![p] = 0] /\ sending' = [sending EXCEPT ![p] = NoMsg]
            /\ UNCHANGED <<uid, pid, fd, name, msg, row, signalled, told, handler, readers, twice, sent, raced, shared, lost, vacated, master>>
        BY <2>11, <3>1 DEF NameCheck, Step, Goto
      <4> QED BY <4>1
    <3>2. CASE name[at[p]] # sending[p] /\ at[p] < KMaxClient
      <4>1. /\ pc[p] = "nameCheck" /\ at' = [at EXCEPT ![p] = at[p] + 1]
            /\ UNCHANGED <<uid, pid, fd, name, msg, row, pc, sending, signalled, told, handler, readers, twice, sent, raced, shared, lost, vacated, master>>
        BY <2>11, <3>2 DEF NameCheck, Step, Goto
      <4>2. at[p] + 1 \in Rows
        BY <3>2, <4>1
      <4> QED BY <4>1, <4>2
    <3>3. CASE name[at[p]] # sending[p] /\ ~(at[p] < KMaxClient)
      <4>1. /\ pc[p] = "nameCheck" /\ pc' = [pc EXCEPT ![p] = "nameCopy"]
            /\ UNCHANGED <<uid, pid, fd, name, msg, row, at, sending, signalled, told, handler, readers, twice, sent, raced, shared, lost, vacated, master>>
        BY <2>11, <3>3 DEF NameCheck, Step, Goto
      <4> QED BY <4>1
    <3> QED BY <3>1, <3>2, <3>3
  <2>12. CASE NameCopy(p)
    <3> DEFINE m == [from |-> p, nr |-> sent[p]]
    <3>1. m \in Message
      BY MessageMade
    <3>2. sending' = [sending EXCEPT ![p] = m]
      BY <2>12 DEF NameCopy, StartBroadCast, Goto
    <3>3. raced' \subseteq SUBSET Proc
      <4> DEFINE others == {r \in Proc \ {p} : pc[r] \in {"nameCheck", "nameCopy"}}
      <4>1. ASSUME NEW s \in {{p, q} : q \in others} PROVE s \subseteq Proc
        <5>1. PICK q \in others : s = {p, q}
          OBVIOUS
        <5>2. q \in Proc
          OBVIOUS
        <5> HIDE DEF others
        <5> QED BY <5>1, <5>2
      <4>2. raced' = raced \cup {{p, q} : q \in others}
        BY <2>12 DEF NameCopy
      <4>3. raced \subseteq SUBSET Proc
        OBVIOUS
      <4> HIDE DEF others
      <4> QED BY <4>1, <4>2, <4>3
    <3>4. /\ name' \in [Rows -> Names \cup {NoName}]
          /\ UNCHANGED <<uid, pid, fd, msg, row, signalled, told, handler, readers, twice, sent, shared, lost, vacated, master>>
      BY <2>12 DEF NameCopy, Step
    <3>5. /\ pc[p] = "nameCopy" /\ 1 \in Rows
          /\ at' = [at EXCEPT ![p] = 1] /\ pc' = [pc EXCEPT ![p] = "scan"]
      BY <2>12 DEF NameCopy, Step, StartBroadCast, Goto
    <3> HIDE DEF m
    <3> QED BY <3>1, <3>2, <3>3, <3>4, <3>5
  <2>13. CASE ResetPid(p)
    BY <2>13 DEF ResetPid, Step, Goto, Vacate
  <2>14. CASE ResetUid(p)
    BY <2>14 DEF ResetUid, Step, Goto, Vacate
  <2>15. CASE ResetFd(p)
    BY <2>15 DEF ResetFd, Step, Goto
  <2>16. CASE ResetMsg(p)
    BY <2>16 DEF ResetMsg, Step, Goto
  <2>17. CASE ResetRow(p)
    BY <2>17 DEF ResetRow, Step, Goto
  <2>18. CASE Leave(p)
    BY <2>18 DEF Leave, Step, Goto
  <2>19. CASE HandlerReads(p)
    <3>1. CASE row[p] = 0
      <4>1. /\ pc' = [pc EXCEPT ![p] = "dead"] /\ signalled' = [signalled EXCEPT ![p] = "no"]
            /\ UNCHANGED <<uid, pid, fd, name, msg, row, at, sending, told, handler, readers, twice, sent, raced, shared, lost, vacated, master>>
        BY <2>19, <3>1 DEF HandlerReads, Goto
      <4> QED BY <4>1
    <3>2. CASE row[p] # 0
      <4>1. row[p] \in Rows /\ msg[row[p]] \in Message \cup {NoMsg}
        BY <3>2
      <4>2. /\ handler' = [handler EXCEPT ![p] = msg[row[p]]]
            /\ readers' = [readers EXCEPT ![row[p]] = @ \cup {p}]
            /\ twice' \in BOOLEAN
            /\ UNCHANGED pc
        BY <2>19, <3>2 DEF HandlerReads
      <4> QED BY <2>19, <4>1, <4>2 DEF HandlerReads
    <3> QED BY <3>1, <3>2
  <2>20. CASE HandlerClears(p)
    BY <2>20 DEF HandlerClears
  <2>21. CASE Fork(p)
    BY <2>21 DEF Fork, Goto
  <2>22. CASE Yell(p)
    <3> DEFINE m == [from |-> p, nr |-> sent[p] + 1]
    <3>1. m \in Message
      BY <2>22, MessageMade DEF Yell, MayRun
    <3>2. sending' = [sending EXCEPT ![p] = m]
      BY <2>22 DEF Yell, StartBroadCast, Goto
    <3>4. /\ sent' \in [Proc -> 0..MaxCommands]
          /\ UNCHANGED <<uid, pid, fd, name, msg, row, signalled, told, handler, readers, twice, raced, shared, lost, vacated, master>>
      BY <2>22 DEF Yell, Step, MayRun
    <3>5. /\ pc[p] = "shell" /\ 1 \in Rows
          /\ at' = [at EXCEPT ![p] = 1] /\ pc' = [pc EXCEPT ![p] = "scan"]
      BY <2>22 DEF Yell, Step, MayRun, StartBroadCast, Goto
    <3> HIDE DEF m
    <3> QED BY <3>1, <3>2, <3>4, <3>5
  <2>23. CASE \E id \in Rows \cup {-1} : StartTell(p, id)
    <3>1. PICK id \in Rows \cup {-1} : StartTell(p, id)
      BY <2>23
    <3> DEFINE m == [from |-> p, nr |-> sent[p] + 1]
               i == IF id = -1 THEN 1 ELSE id
    <3>2. m \in Message
      BY <3>1, MessageMade DEF StartTell, MayRun
    <3>3. i \in Rows /\ (id = -1 \/ id = i)
      OBVIOUS
    <3>4. /\ sending' = [sending EXCEPT ![p] = m] /\ at' = [at EXCEPT ![p] = i]
          /\ told' = [told EXCEPT ![p] = id]
      BY <3>1 DEF StartTell
    <3>5. /\ pc[p] = "shell" /\ pc' = [pc EXCEPT ![p] = "tell"]
          /\ sent' \in [Proc -> 0..MaxCommands]
          /\ UNCHANGED <<uid, pid, fd, name, msg, row, signalled, handler, readers, twice, raced, shared, lost, vacated, master>>
      BY <3>1 DEF StartTell, Step, MayRun, Goto
    <3> HIDE DEF m, i
    <3> QED BY <3>2, <3>3, <3>4, <3>5
  <2>24. CASE \E n \in Names : StartName(p, n)
    BY <2>24 DEF StartName, Step, Goto, MayRun
  <2>25. CASE Exit(p)
    BY <2>25, MessageMade DEF Exit, Exiting, Step, Goto, StartBroadCast
  <2>26. CASE Hangup(p)
    BY <2>26 DEF Hangup, Dies, Step, Goto
  <2>27. CASE HandlerDies(p)
    <3>1. row[p] \in Rows
      BY <2>27 DEF HandlerDies
    <3>3. lost' \subseteq Rows
      <4>1. \/ lost' = lost
            \/ at[p] \in Rows /\ lost' = lost \cup {at[p]}
        BY <2>27 DEF HandlerDies
      <4> QED BY <4>1
    <3>2. /\ msg' = [msg EXCEPT ![row[p]] = NoMsg] /\ handler' = [handler EXCEPT ![p] = Off]
          /\ pc' = [pc EXCEPT ![p] = "dead"] /\ at' = [at EXCEPT ![p] = 0]
          /\ sending' = [sending EXCEPT ![p] = NoMsg] /\ told' = [told EXCEPT ![p] = 0]
          /\ UNCHANGED <<uid, pid, fd, name, row, signalled, readers, twice, sent, raced, shared, vacated, master>>
      BY <2>27 DEF HandlerDies, Dies, Goto
    <3> QED BY <3>1, <3>2, <3>3
  <2> QED
    BY <1>2, <2>1, <2>2, <2>3, <2>4, <2>5, <2>6, <2>7, <2>8, <2>9, <2>10, <2>11, <2>12, <2>13, <2>14, <2>15, <2>16, <2>17, <2>18, <2>19, <2>20, <2>21, <2>22, <2>23, <2>24, <2>25, <2>26, <2>27 DEF Continue, Handler, Client
<1> QED BY <1>1, <1>2 DEF Next

LEMMA TypeInit == Init => TypeInv
<1> SUFFICES ASSUME Init PROVE TypeInv
  OBVIOUS
<1> USE LimitAssumption DEF Init, Rows, Null
<1>1. TypeOK
  <2>1. /\ uid \in [Rows -> Rows \cup {-1}] /\ pid \in [Rows -> Proc \cup {NoProc}]
        /\ fd \in [Rows -> BOOLEAN] /\ name \in [Rows -> Names \cup {NoName}]
        /\ msg \in [Rows -> Message \cup {NoMsg}] /\ readers \in [Rows -> SUBSET Proc]
    OBVIOUS
  <2>2. /\ row \in [Proc -> Rows \cup {Null}] /\ at \in [Proc -> Rows \cup {0}]
        /\ pc \in [Proc -> Places] /\ sending \in [Proc -> Message \cup Names \cup {NoMsg}]
        /\ signalled \in [Proc -> {"no", "pending", "now"}]
        /\ told \in [Proc -> Rows \cup {-1, 0}]
    BY DEF Places
  <2>3. /\ handler \in [Proc -> Message \cup {NoMsg, Off}]
        /\ sent \in [Proc -> 0..MaxCommands] /\ raced \subseteq SUBSET Proc
    OBVIOUS
  <2> QED BY <2>1, <2>2, <2>3 DEF TypeOK
<1>2. ASSUME NEW p \in Proc PROVE AtHand(p)
  <2>1. pc[p] = "unborn" /\ handler[p] = Off
    BY DEF Init
  <2> QED BY <2>1 DEF AtHand, HasRow, Sends
<1> QED BY <1>1, <1>2 DEF TypeInv

\* The types and what every process has at hand, in every state.
LEMMA TypeAlways == Spec => []TypeInv
BY TypeInit, TypeStep, PTL DEF Spec

\* Type correctness for any number of rows and processes.
THEOREM TableTypes == Spec => []TypeOK
<1>1. TypeInv => TypeOK
  BY DEF TypeInv
<1> QED BY <1>1, TypeAlways, PTL

-----------------------------------------------------------------------------
\* No message is read twice.

\* A message that a process has read and that is still in its row is in the hands of
\* the process's handler, which is about to clear it: SIGUSR1 is blocked until then.
ReadIsBeingCleared ==
  \A p \in Proc : \A i \in Rows :
    (p \in readers[i] /\ msg[i] # NoMsg) => (handler[p] # Off /\ row[p] = i)

OnceInv == ~twice /\ ReadIsBeingCleared

LEMMA OnceInit == Init => OnceInv
BY DEF Init, OnceInv, ReadIsBeingCleared

LEMMA OnceStep == TypeInv /\ OnceInv /\ [Next]_vars => OnceInv'
<1> SUFFICES ASSUME TypeInv, OnceInv, [Next]_vars PROVE OnceInv'
  OBVIOUS
<1> USE DEF TypeInv, TypeOK, OnceInv, ReadIsBeingCleared
<1>1. ASSUME UNCHANGED vars PROVE OnceInv'
  BY <1>1 DEF vars, table, history
<1>2. ASSUME NEW p \in Proc, Continue(p) \/ Handler(p) \/ Client(p) PROVE OnceInv'
  <2> USE DEF table, history
  <2>1. CASE SetClient(p)
    <3>1. UNCHANGED <<msg, readers, twice, handler>> /\ handler[p] = Off
      BY <2>1 DEF SetClient, Step
    <3>2. \A q \in Proc \ {p} : row'[q] = row[q]
      BY <2>1 DEF SetClient, Take
    <3> QED BY <3>1, <3>2
  <2>2. CASE Copy(p) \/ TellCopy(p)
    <3>1. Put(at[p], sending[p]) /\ UNCHANGED <<row, handler, twice>>
      BY <2>2 DEF Copy, TellCopy
    <3> QED BY <3>1 DEF Put
  <2>3. CASE HandlerReads(p)
    <3>1. CASE row[p] = Null
      BY <2>3, <3>1 DEF HandlerReads
    <3>2. CASE row[p] # Null
      <4>1. row[p] \in Rows /\ handler[p] = Off /\ UNCHANGED <<msg, row>>
        BY <2>3, <3>2 DEF HandlerReads, Null
      <4>2. /\ handler' = [handler EXCEPT ![p] = msg[row[p]]]
            /\ readers' = [readers EXCEPT ![row[p]] = @ \cup {p}]
            /\ twice' = (twice \/ (msg[row[p]] # NoMsg /\ p \in readers[row[p]]))
        BY <2>3, <3>2 DEF HandlerReads
      <4>3. ~twice'
        BY <4>1, <4>2
      <4>4. handler'[p] # Off
        BY <4>1, <4>2, MessageAssumption
      <4> QED BY <4>1, <4>2, <4>3, <4>4
    <3> QED BY <3>1, <3>2
  <2>4. CASE HandlerClears(p)
    <3>1. row[p] \in Rows /\ UNCHANGED <<row, readers, twice>>
      BY <2>4 DEF HandlerClears, AtHand
    <3> QED BY <2>4, <3>1 DEF HandlerClears
  <2>9. CASE HandlerDies(p)
    <3>1. row[p] \in Rows /\ UNCHANGED <<row, readers, twice>>
      BY <2>9 DEF HandlerDies, AtHand
    <3> QED BY <2>9, <3>1 DEF HandlerDies
  <2>5. CASE ResetMsg(p)
    <3>1. row[p] \in Rows
      BY <2>5 DEF ResetMsg, Step, AtHand, HasRow, Places
    <3> QED BY <2>5, <3>1 DEF ResetMsg, Step
  <2>6. CASE ResetRow(p)
    BY <2>6 DEF ResetRow, Step
  <2>7. CASE UNCHANGED <<msg, row, handler, readers, twice>>
    BY <2>7
  <2>8. Continue(p) \/ Client(p) =>
          \/ SetClient(p) \/ Copy(p) \/ TellCopy(p) \/ ResetMsg(p) \/ ResetRow(p)
          \/ UNCHANGED <<msg, row, handler, readers, twice>>
    BY DEF Continue, Client, SetFd, SetPid, SetName, Scan, Signal, Tell, TellSignal,
       NameCheck, NameCopy, ResetPid, ResetUid, ResetFd, Leave, Fork, Yell, StartTell,
       StartName, Exit, Hangup
  <2> QED BY <1>2, <2>1, <2>2, <2>3, <2>4, <2>5, <2>6, <2>7, <2>8, <2>9 DEF Handler
<1> QED BY <1>1, <1>2 DEF Next

\* Whatever the order of strcpy, kill and the handler's own copy and clearing, and
\* whoever shares a row, no process shows its client a message twice.
LEMMA NeverTwice == Spec => []~twice
<1>1. OnceInv => ~twice
  BY DEF OnceInv
<1>2. Spec => []OnceInv
  BY OnceInit, OnceStep, TypeAlways, PTL DEF Spec
<1> QED BY <1>1, <1>2, PTL

-----------------------------------------------------------------------------
\* When rows change hands.

Away == {"unborn", "claim", "leaving", "gone"}
Window == {"fd", "pid", "resetUid", "resetFd", "resetMsg", "resetRow"}

\* Until two running processes have shared a row, a row in use has one user, and outside
\* of the user's windows the row's pid says so.  (A killed process keeps its row.)
RowInv ==
  /\ \A p \in Proc : pc[p] \in Away => row[p] = Null
  /\ ~shared => \A p, q \in Proc : 
       (p # q /\ Alive(p) /\ Alive(q) /\ row[p] = row[q]) => row[p] = Null
  /\ ~shared => \A p \in Proc :
       (Alive(p) /\ row[p] # Null /\ pc[p] \notin Window) => pid[row[p]] = p

\* A step of p that leaves the rows, and p's right to one, as they are.
Quiet(p) ==
  /\ UNCHANGED <<pid, row, shared>>
  /\ \A q \in Proc \ {p} : pc'[q] = pc[q]
  /\ Alive(p)' => Alive(p) \/ row[p] = Null
  /\ pc[p] \in Window => pc'[p] \in Window \cup {"dead"}
  /\ pc'[p] \in Away => row[p] = Null

\* All steps but four are of that kind.
LEMMA MostAreQuiet ==
  ASSUME TypeInv, RowInv, NEW p \in Proc, Continue(p) \/ Handler(p) \/ Client(p)
  PROVE  SetClient(p) \/ SetPid(p) \/ ResetPid(p) \/ ResetRow(p) \/ Quiet(p)
<1> USE DEF TypeInv, TypeOK, Quiet, Alive, Away, Window, table, history
<1>1. CASE Scan(p)
  <2>1. CASE pid[at[p]] # NoProc
    BY <1>1, <2>1 DEF Scan, Step, Goto
  <2>2. CASE pid[at[p]] = NoProc
    <3>1. NextRow(p) /\ pc[p] = "scan" /\ UNCHANGED <<pid, row, shared>>
      BY <1>1, <2>2 DEF Scan, Step
    <3> QED BY <3>1, NextRowType DEF Sends
  <2> QED BY <2>1, <2>2
<1>2. CASE Signal(p)
  <2>1. NextRow(p) /\ pc[p] = "kill" /\ UNCHANGED <<pid, row, shared>>
    BY <1>2 DEF Signal, Step
  <2> QED BY <2>1, NextRowType DEF Sends
<1>3. CASE Tell(p) \/ TellSignal(p) \/ NameCheck(p)
  BY <1>3 DEF Tell, TellSignal, TellEnds, NameCheck, Step, Goto
<1>4. CASE Copy(p) \/ TellCopy(p)
  BY <1>4 DEF Copy, TellCopy, Step, Goto
<1>5. CASE SetFd(p) \/ SetName(p) \/ NameCopy(p)
  BY <1>5 DEF SetFd, SetName, NameCopy, StartBroadCast, Step, Goto
<1>6. CASE ResetUid(p) \/ ResetFd(p) \/ ResetMsg(p)
  BY <1>6 DEF ResetUid, ResetFd, ResetMsg, Step, Goto
<1>7. CASE Leave(p)
  BY <1>7 DEF RowInv, Leave, Step, Goto
<1>8. CASE HandlerReads(p)
  <2>1. CASE row[p] = Null
    <3>1. Null \notin Rows
      BY LimitAssumption DEF Null, Rows
    <3>2. pc[p] \notin Window
      BY <2>1, <3>1 DEF AtHand, HasRow, Places
    <3> QED BY <1>8, <2>1, <3>2 DEF HandlerReads, Goto
  <2>2. CASE row[p] # Null
    BY <1>8, <2>2 DEF HandlerReads, RowInv
  <2> QED BY <2>1, <2>2
<1>9. CASE HandlerClears(p) \/ HandlerDies(p)
  BY <1>9 DEF HandlerClears, HandlerDies, Dies, Goto, RowInv
<1>10. CASE Fork(p)
  BY <1>10 DEF Fork, Goto, RowInv
<1>11. CASE Yell(p) \/ (\E id \in Rows \cup {-1} : StartTell(p, id)) \/ (\E n \in Names : StartName(p, n))
  BY <1>11 DEF Yell, StartTell, StartName, MayRun, StartBroadCast, Step, Goto
<1>12. CASE Exit(p) \/ Hangup(p)
  BY <1>12 DEF Exit, Hangup, Dies, StartBroadCast, Step, Goto
<1> QED
  BY <1>1, <1>2, <1>3, <1>4, <1>5, <1>6, <1>7, <1>8, <1>9, <1>10, <1>11, <1>12
  DEF Continue, Handler, Client

LEMMA RowInit == Init => RowInv
BY DEF Init, RowInv, Null

LEMMA RowStep == TypeInv /\ RowInv /\ [Next]_vars => RowInv'
<1> SUFFICES ASSUME TypeInv, RowInv, [Next]_vars PROVE RowInv'
  OBVIOUS
<1> USE DEF Alive, Away, Window
<1>1. ASSUME UNCHANGED vars PROVE RowInv'
  BY <1>1 DEF RowInv, vars, table, history
<1>2. ASSUME NEW p \in Proc, Continue(p) \/ Handler(p) \/ Client(p) PROVE RowInv'
  <2> USE DEF TypeInv, TypeOK
  <2>1. CASE SetClient(p)
    <3>1. CASE pid[at[p]] = NoProc
      <4>1. /\ row' = [row EXCEPT ![p] = at[p]]
            /\ shared' = (shared \/ \E q \in Proc : Alive(q) /\ row[q] = at[p])
            /\ pc' = [pc EXCEPT ![p] = "fd"] /\ UNCHANGED pid
        BY <2>1, <3>1 DEF SetClient, Take, Goto
      <4> QED BY <4>1 DEF RowInv
    <3>2. CASE pid[at[p]] # NoProc
      <4>1. /\ UNCHANGED <<row, shared, pid>> /\ pc[p] = "claim"
            /\ UNCHANGED pc \/ pc' = [pc EXCEPT ![p] = "dead"]
        BY <2>1, <3>2 DEF SetClient, Step, Goto
      <4> QED BY <4>1 DEF RowInv
    <3> QED BY <3>1, <3>2
  <2>2. CASE SetPid(p)
    <3>1. row[p] \in Rows
      BY <2>2 DEF SetPid, Step, AtHand, HasRow, Places
    <3>2. /\ pid' = [pid EXCEPT ![row[p]] = p] /\ pc' = [pc EXCEPT ![p] = "name"]
          /\ UNCHANGED <<row, shared>>
      BY <2>2 DEF SetPid, Goto, history
    <3>3. pc[p] = "pid" /\ row[p] # Null
      BY <2>2, <3>1 DEF SetPid, Step, Rows, Null
    <3>4. \A q \in Proc \ {p} : (~shared /\ Alive(q) /\ row[q] # Null) => row[q] # row[p]
      BY <3>3 DEF RowInv
    <3> QED BY <3>1, <3>2, <3>3, <3>4 DEF RowInv
  <2>3. CASE ResetPid(p)
    <3>1. row[p] \in Rows
      BY <2>3 DEF ResetPid, Step, AtHand, HasRow, Places
    <3>2. /\ pid' = [pid EXCEPT ![row[p]] = NoProc] /\ pc' = [pc EXCEPT ![p] = "resetUid"]
          /\ UNCHANGED <<row, shared>>
      BY <2>3 DEF ResetPid, Goto, history
    <3>3. pc[p] = "resetPid" /\ row[p] # Null
      BY <2>3, <3>1 DEF ResetPid, Step, Rows, Null
    <3>4. \A q \in Proc \ {p} : (~shared /\ Alive(q) /\ row[q] # Null) => row[q] # row[p]
      BY <3>3 DEF RowInv
    <3> QED BY <3>1, <3>2, <3>3, <3>4 DEF RowInv
  <2>4. CASE ResetRow(p)
    <3>1. /\ row' = [row EXCEPT ![p] = Null] /\ pc' = [pc EXCEPT ![p] = "leaving"]
          /\ UNCHANGED <<pid, shared>>
      BY <2>4 DEF ResetRow, Goto, table, history
    <3> QED BY <3>1 DEF RowInv
  <2>5. CASE Quiet(p)
    BY <2>5 DEF Quiet, RowInv
  <2> QED BY <1>2, <2>1, <2>2, <2>3, <2>4, <2>5, MostAreQuiet
<1> QED BY <1>1, <1>2 DEF Next

LEMMA RowAlways == Spec => []RowInv
BY RowInit, RowStep, TypeAlways, PTL DEF Spec

\* A process takes a row that another still uses only within that process's windows,
\* for any number of rows and processes.
THEOREM RowsAreTakenInWindows == Spec => TakesOnlyInWindow
<1> DEFINE A == ~shared => \A p, q \in Proc :
       (p # q /\ row'[p] # row[p] /\ row'[p] # Null /\ Alive(q) /\ row[q] = row'[p])
         => EnteringOrLeaving(q)
<1>1. TypeInv /\ RowInv /\ [Next]_vars => [A]_vars
  <2> SUFFICES ASSUME TypeInv, RowInv, [Next]_vars, ~shared, NEW p \in Proc, NEW q \in Proc,
                      p # q, row'[p] # row[p], row'[p] # Null, Alive(q), row[q] = row'[p]
               PROVE  EnteringOrLeaving(q)
    OBVIOUS
  <2> USE DEF TypeInv, TypeOK
  <2>1. PICK r \in Proc : Continue(r) \/ Handler(r) \/ Client(r)
    BY DEF Next, vars
  <2>2. SetClient(r) \/ ResetRow(r) \/ UNCHANGED row
    BY <2>1, MostAreQuiet DEF SetPid, ResetPid, Quiet
  <2>3. CASE ResetRow(r)
    BY <2>3 DEF ResetRow
  <2>4. CASE SetClient(r)
    <3>1. pid[at[r]] = NoProc /\ row' = [row EXCEPT ![r] = at[r]]
      BY <2>4 DEF SetClient, Take
    <3>2. row[q] # Null /\ pid[row[q]] = NoProc
      BY <3>1
    <3>3. pc[q] \in Window
      BY <3>2, ProcAssumption DEF RowInv
    <3> QED BY <3>3 DEF EnteringOrLeaving, Window
  <2> QED BY <2>2, <2>3, <2>4
<1>2. Spec => [][A]_vars
  BY <1>1, TypeAlways, RowAlways, PTL DEF Spec
<1> QED BY <1>2 DEF TakesOnlyInWindow

-----------------------------------------------------------------------------
\* No message is stranded.

\* p has put its own ENTER message into its row, and has not begun to empty the row.
\* (Before that the row may hold a message that was for its last owner.)
Settled(p) ==
  \/ pc[p] \in {"shell", "tell", "tellCopy", "tellKill", "nameCheck", "nameCopy", "resetPid"}
  \/ /\ pc[p] \in {"scan", "copy", "kill"}
     /\ \/ sending[p].nr # 0
        \/ at[p] > row[p]
        \/ at[p] = row[p] /\ pc[p] = "kill"

OnItsWay(p) ==
  \/ signalled[p] # "no"
  \/ handler[p] # Off
  \/ \E q \in Proc : /\ pc[q] \in {"kill", "tellKill"}
                   /\ at[q] = row[p] /\ sending[q] = msg[row[p]]
  \/ row[p] \in lost

MailInv ==
  ~shared => \A p \in Proc : (Settled(p) /\ msg[row[p]] # NoMsg) => OnItsWay(p)

\* A settled process has a row, and until rows are shared the row's pid is its own.
LEMMA SettledHasRow ==
  ASSUME TypeInv, RowInv, ~shared, NEW p \in Proc, Settled(p)
  PROVE  row[p] \in Rows /\ pid[row[p]] = p /\ Alive(p)
<1>1. pc[p] \in HasRow /\ pc[p] \notin Window
  BY DEF Settled, HasRow, Places, Window
<1>2. row[p] \in Rows
  BY <1>1 DEF TypeInv, AtHand
<1>3. row[p] # Null
  BY <1>2, LimitAssumption DEF Rows, Null
<1> QED BY <1>1, <1>2, <1>3 DEF RowInv, HasRow, Alive

\* What a signal through row i does: the row's process has it.
LEMMA KillReaches ==
  ASSUME TypeInv, RowInv, ~shared, NEW r \in Proc, NEW i \in Rows, Kill(r, pid[i])
  PROVE  /\ \A q \in Proc : signalled[q] # "no" => signalled'[q] # "no"
         /\ \A p \in Proc : Settled(p) /\ row[p] = i => signalled'[p] # "no"
<1> USE DEF TypeInv, TypeOK
<1>1. \A q \in Proc : signalled[q] # "no" => signalled'[q] # "no"
  BY DEF Kill
<1>2. ASSUME NEW p \in Proc, Settled(p), row[p] = i PROVE signalled'[p] # "no"
  <2>1. pid[i] = p /\ Alive(p)
    BY <1>2, SettledHasRow
  <2> QED BY <2>1, ProcAssumption DEF Kill
<1> QED BY <1>1, <1>2

LEMMA MailInit == Init => MailInv
BY DEF Init, MailInv, Settled

\* Steps that neither write a row's message nor signal nor run a handler.
MailQuiet(r) ==
  /\ UNCHANGED <<msg, row, signalled, handler, lost>>
  /\ pc[r] \notin {"kill", "tellKill"}
  /\ \A q \in Proc \ {r} : pc'[q] = pc[q] /\ at'[q] = at[q] /\ sending'[q] = sending[q]
  /\ Settled(r)' => Settled(r)

\* BroadCast's loop passes p's own row only through the kill.
LEMMA NextRowSettles ==
  ASSUME TypeInv, NEW r \in Proc, pc[r] \in {"scan", "kill"}, NextRow(r), UNCHANGED row,
         pc[r] = "scan" => at[r] # row[r], Settled(r)'
  PROVE  Settled(r)
<1> USE LimitAssumption DEF TypeInv, TypeOK
<1>1. at[r] \in Rows /\ row[r] \in Rows
  BY DEF AtHand, HasRow, Places, Sends
<1>2. CASE at[r] < KMaxClient
  <2>1. /\ at'[r] = at[r] + 1 /\ pc'[r] = "scan" /\ sending' = sending
        /\ row'[r] = row[r]
    BY <1>2 DEF NextRow, Goto
  <2>2. sending[r].nr # 0 \/ at[r] + 1 > row[r]
    BY <2>1 DEF Settled
  <2>3. sending[r].nr # 0 \/ at[r] > row[r] \/ at[r] = row[r]
    BY <1>1, <2>2 DEF Rows
  <2> QED BY <2>3 DEF Settled
<1>3. CASE ~(at[r] < KMaxClient)
  <2>1. at[r] > row[r] \/ at[r] = row[r]
    BY <1>1, <1>3 DEF Rows
  <2> QED BY <2>1 DEF Settled
<1> QED BY <1>2, <1>3

LEMMA MailStep == TypeInv /\ RowInv /\ MailInv /\ [Next]_vars => MailInv'
<1> SUFFICES ASSUME TypeInv, RowInv, MailInv, [Next]_vars, ~shared',
                    NEW p \in Proc, Settled(p)', msg'[row'[p]] # NoMsg
             PROVE  OnItsWay(p)'
  BY DEF MailInv
<1> USE DEF TypeInv, TypeOK
<1>1. CASE UNCHANGED vars
  BY <1>1 DEF MailInv, Settled, OnItsWay, vars, table, history
<1>2. ASSUME NEW r \in Proc, Continue(r) \/ Handler(r) \/ Client(r) PROVE OnItsWay(p)'
  <2>1. ~shared
    <3>1. CASE SetClient(r)
      BY <3>1 DEF SetClient, Take
    <3> QED BY <1>2, <3>1, MostAreQuiet DEF SetPid, ResetPid, ResetRow, Quiet, history
  <2>2. CASE Copy(r) \/ TellCopy(r)
    <3>1. /\ Put(at[r], sending[r]) /\ UNCHANGED <<row, at, sending, signalled, handler>>
          /\ pc' = [pc EXCEPT ![r] = IF Copy(r) THEN "kill" ELSE "tellKill"]
          /\ pc[r] \in {"copy", "tellCopy"} /\ (pc[r] = "copy" <=> Copy(r))
      BY <2>2 DEF Copy, TellCopy, Step, Goto
    <3>2. CASE at[r] = row[p]
      <4>1. at[r] \in Rows /\ msg' = [msg EXCEPT ![at[r]] = sending[r]]
        BY <3>1 DEF Put, AtHand, Sends
      <4> QED BY <3>1, <3>2, <4>1 DEF OnItsWay
    <3>3. CASE at[r] # row[p]
      <4>1. msg'[row'[p]] = msg[row[p]]
        BY <3>1, <3>3 DEF Put
      <4>2. Settled(p)
        BY <3>1, <3>3 DEF Settled
      <4>3. OnItsWay(p)
        BY <2>1, <4>1, <4>2 DEF MailInv
      <4>4. row[p] \in lost => row[p] \in lost'
        BY <3>1, <3>3 DEF Put
      <4> QED BY <3>1, <4>1, <4>3, <4>4 DEF OnItsWay
    <3> QED BY <3>2, <3>3
  <2>3. CASE Signal(r) \/ TellSignal(r)
    <3>1. /\ Kill(r, pid[at[r]]) /\ UNCHANGED <<msg, row, handler, lost>>
          /\ pc[r] \in {"kill", "tellKill"}
      BY <2>3 DEF Signal, TellSignal, Step, table, history
    <3>2. at[r] \in Rows
      BY <3>1 DEF AtHand, Sends
    <3>3. \A q \in Proc \ {r} : pc'[q] = pc[q] /\ at'[q] = at[q] /\ sending'[q] = sending[q]
      BY <2>3, NextRowType DEF Signal, TellSignal, TellEnds, Step, Goto, Sends
    <3>4. Settled(p)
      <4>1. CASE p # r
        BY <3>1, <3>3, <4>1 DEF Settled
      <4>2. CASE p = r /\ Signal(r)
        BY <4>2, NextRowSettles DEF Signal, Step, table
      <4>3. CASE p = r /\ TellSignal(r)
        BY <4>3 DEF TellSignal, Step, Settled
      <4> QED BY <2>3, <4>1, <4>2, <4>3
    <3>5. CASE at[r] = row[p]
      BY <2>1, <3>1, <3>2, <3>4, <3>5, KillReaches DEF OnItsWay
    <3>6. CASE at[r] # row[p]
      <4>1. OnItsWay(p)
        BY <2>1, <3>1, <3>4 DEF MailInv
      <4>2. \A q \in Proc : signalled[q] # "no" => signalled'[q] # "no"
        BY <2>1, <3>1, <3>2, KillReaches
      <4> QED BY <3>1, <3>3, <3>6, <4>1, <4>2 DEF OnItsWay
    <3> QED BY <3>5, <3>6
  <2>4. CASE HandlerReads(r)
    <3>1. CASE row[r] = Null
      <4>1. pc[r] \notin HasRow
        BY <3>1, LimitAssumption DEF AtHand, Null, Rows
      <4>2. /\ pc' = [pc EXCEPT ![r] = "dead"] /\ signalled' = [signalled EXCEPT ![r] = "no"]
            /\ UNCHANGED <<msg, row, handler, at, sending, lost>>
        BY <2>4, <3>1 DEF HandlerReads, Goto, table, history
      <4>3. p # r /\ Settled(p)
        BY <4>2 DEF Settled
      <4>4. OnItsWay(p)
        BY <2>1, <4>2, <4>3 DEF MailInv
      <4> QED BY <4>1, <4>2, <4>3, <4>4 DEF OnItsWay, HasRow, Places
    <3>2. CASE row[r] # Null
      <4>1. msg[row[r]] # Off
        BY <3>2, MessageAssumption
      <4>2. /\ handler' = [handler EXCEPT ![r] = msg[row[r]]]
            /\ signalled' = [signalled EXCEPT ![r] = "no"]
            /\ UNCHANGED <<msg, row, pc, at, sending, lost>>
        BY <2>4, <3>2 DEF HandlerReads, table, history
      <4>3. CASE p = r
        BY <4>1, <4>2, <4>3 DEF OnItsWay
      <4>4. CASE p # r
        <5>1. Settled(p)
          BY <4>2 DEF Settled
        <5>2. OnItsWay(p)
          BY <2>1, <4>2, <5>1 DEF MailInv
        <5> QED BY <4>2, <4>4, <5>2 DEF OnItsWay
      <4> QED BY <4>3, <4>4
    <3> QED BY <3>1, <3>2
  <2>5. CASE HandlerClears(r)
    <3>1. /\ msg' = [msg EXCEPT ![row[r]] = NoMsg] /\ handler' = [handler EXCEPT ![r] = Off]
          /\ UNCHANGED <<row, pc, at, sending, signalled, lost>> /\ row[r] \in Rows
      BY <2>5 DEF HandlerClears, AtHand, history
    <3>2. row[p] # row[r]
      BY <3>1
    <3>3. Settled(p)
      BY <3>1 DEF Settled
    <3>4. OnItsWay(p)
      BY <2>1, <3>1, <3>2, <3>3 DEF MailInv
    <3> QED BY <3>1, <3>2, <3>4 DEF OnItsWay
  <2>6. CASE SetClient(r)
    <3>1. /\ UNCHANGED <<msg, signalled, handler, sending, lost>> /\ pc[r] = "claim"
          /\ pc'[r] \in {"fd", "claim", "dead"}
          /\ \A q \in Proc \ {r} : pc'[q] = pc[q] /\ at'[q] = at[q] /\ row'[q] = row[q]
      BY <2>6 DEF SetClient, Take, Step, Goto
    <3>2. p # r
      BY <3>1 DEF Settled
    <3>3. Settled(p)
      BY <3>1, <3>2 DEF Settled
    <3>4. OnItsWay(p)
      BY <2>1, <3>1, <3>2, <3>3 DEF MailInv
    <3> QED BY <3>1, <3>2, <3>4 DEF OnItsWay
  <2>7. CASE ResetMsg(r)
    <3>1. /\ msg' = [msg EXCEPT ![row[r]] = NoMsg] /\ pc[r] = "resetMsg" /\ row[r] \in Rows
          /\ pc' = [pc EXCEPT ![r] = "resetRow"]
          /\ UNCHANGED <<row, at, sending, signalled, handler, lost>>
      BY <2>7 DEF ResetMsg, Step, Goto, AtHand, HasRow, Places, history
    <3>2. p # r /\ row[p] # row[r]
      BY <3>1 DEF Settled
    <3>3. Settled(p)
      BY <3>1, <3>2 DEF Settled
    <3>4. OnItsWay(p)
      BY <2>1, <3>1, <3>2, <3>3 DEF MailInv
    <3> QED BY <3>1, <3>2, <3>4 DEF OnItsWay
  <2>8. CASE ResetRow(r)
    <3>1. /\ UNCHANGED <<msg, at, sending, signalled, handler, lost>> /\ pc[r] = "resetRow"
          /\ pc' = [pc EXCEPT ![r] = "leaving"]
          /\ \A q \in Proc \ {r} : row'[q] = row[q]
      BY <2>8 DEF ResetRow, Step, Goto, table, history
    <3>2. p # r
      BY <3>1 DEF Settled
    <3>3. Settled(p)
      BY <3>1, <3>2 DEF Settled
    <3>4. OnItsWay(p)
      BY <2>1, <3>1, <3>2, <3>3 DEF MailInv
    <3> QED BY <3>1, <3>2, <3>4 DEF OnItsWay
  <2>11. CASE HandlerDies(r)
    <3>1. /\ msg' = [msg EXCEPT ![row[r]] = NoMsg] /\ handler' = [handler EXCEPT ![r] = Off]
          /\ pc' = [pc EXCEPT ![r] = "dead"]
          /\ lost' = IF pc[r] \in {"kill", "tellKill"} /\ msg'[at[r]] = sending[r]
                     THEN lost \cup {at[r]} ELSE lost
          /\ UNCHANGED <<row, signalled>> /\ row[r] \in Rows
          /\ \A q \in Proc \ {r} : at'[q] = at[q] /\ sending'[q] = sending[q]
      BY <2>11 DEF HandlerDies, Dies, Goto, AtHand
    <3>2. p # r /\ row[p] # row[r] /\ Settled(p)
      BY <3>1 DEF Settled
    <3>3. msg'[row[p]] = msg[row[p]]
      BY <3>1, <3>2
    <3>4. OnItsWay(p)
      BY <2>1, <3>1, <3>2, <3>3 DEF MailInv
    <3>5. ASSUME pc[r] \in {"kill", "tellKill"}, at[r] = row[p], sending[r] = msg[row[p]]
          PROVE  row[p] \in lost'
      BY <3>1, <3>3, <3>5
    <3> QED BY <3>1, <3>2, <3>3, <3>4, <3>5 DEF OnItsWay
  <2>9. CASE MailQuiet(r)
    <3>1. Settled(p)
      BY <2>9 DEF MailQuiet, Settled
    <3>2. OnItsWay(p)
      BY <2>1, <2>9, <3>1 DEF MailInv, MailQuiet
    <3> QED BY <2>9, <3>2 DEF OnItsWay, MailQuiet
  <2>10. Continue(r) \/ Client(r) =>
           \/ Copy(r) \/ TellCopy(r) \/ Signal(r) \/ TellSignal(r) \/ SetClient(r)
           \/ ResetMsg(r) \/ ResetRow(r) \/ MailQuiet(r)
    <3> USE DEF MailQuiet, Settled, table, history
    <3>1. CASE Scan(r)
      <4>1. CASE pid[at[r]] # NoProc
        BY <4>1, <3>1 DEF Scan, Step, Goto
      <4>2. CASE pid[at[r]] = NoProc
        <5>1. NextRow(r) /\ pc[r] = "scan" /\ UNCHANGED <<msg, row, signalled, handler, lost>>
          BY <3>1, <4>2 DEF Scan, Step
        <5>2. at[r] # row[r]
          <6>1. row[r] \in Rows
            BY <5>1 DEF AtHand, HasRow, Places
          <6>2. row[r] # Null /\ pc[r] \notin Window
            BY <5>1, <6>1, LimitAssumption DEF Rows, Null, Window
          <6>3. pid[row[r]] = r
            BY <2>1, <5>1, <6>2 DEF RowInv, Alive
          <6> QED BY <4>2, <6>3, ProcAssumption
        <5>3. Settled(r)' => Settled(r)
          BY <5>1, <5>2, NextRowSettles
        <5> QED BY <5>1, <5>3, NextRowType DEF Sends
      <4> QED BY <4>1, <4>2
    <3>2. CASE Tell(r) \/ NameCheck(r)
      BY <3>2 DEF Tell, TellEnds, NameCheck, Step, Goto
    <3>3. CASE SetFd(r) \/ SetPid(r)
      BY <3>3 DEF SetFd, SetPid, Step, Goto
    <3>4. CASE SetName(r)
      <4>1. row[r] \in Rows
        BY <3>4 DEF SetName, Step, AtHand, HasRow, Places
      <4>2. /\ pc[r] = "name" /\ pc' = [pc EXCEPT ![r] = "scan"] /\ at' = [at EXCEPT ![r] = 1]
            /\ sending' = [sending EXCEPT ![r] = [from |-> r, nr |-> 0]]
            /\ UNCHANGED <<msg, row, signalled, handler, lost>>
        BY <3>4 DEF SetName, Step, Goto
      <4>3. sending'[r].nr = 0
        BY <4>2
      <4>4. ~(1 > row[r])
        BY <4>1 DEF Rows
      <4>5. ~Settled(r)'
        BY <4>2, <4>3, <4>4
      <4> QED BY <4>2, <4>5
    <3>5. CASE NameCopy(r) \/ Exit(r)
      BY <3>5 DEF NameCopy, Exit, StartBroadCast, Step, Goto
    <3>6. CASE ResetPid(r) \/ ResetUid(r) \/ ResetFd(r) \/ Leave(r)
      BY <3>6 DEF ResetPid, ResetUid, ResetFd, Leave, Step, Goto
    <3>7. CASE Fork(r) \/ Hangup(r)
      BY <3>7 DEF Fork, Hangup, Dies, Step, Goto
    <3>8. CASE Yell(r)
      BY <3>8 DEF Yell, MayRun, StartBroadCast, Step, Goto
    <3>9. CASE (\E id \in Rows \cup {-1} : StartTell(r, id)) \/ (\E n \in Names : StartName(r, n))
      BY <3>9 DEF StartTell, StartName, MayRun, Step, Goto
    <3> QED BY <3>1, <3>2, <3>3, <3>4, <3>5, <3>6, <3>7, <3>8, <3>9 DEF Continue, Client
  <2> QED
    BY <1>2, <2>2, <2>3, <2>4, <2>5, <2>6, <2>7, <2>8, <2>9, <2>10, <2>11 DEF Handler
<1> QED BY <1>1, <1>2 DEF Next

\* No message is shown twice, and while rows are not shared, one in the row of a client in
\* its shell is being read, or a signal for it is on the way, unless its sender was killed
\* before it could signal, for any number of rows and processes.
THEOREM MailIsShown == Spec => []MailIsShownOnce
<1>1. MailInv => NoMessageIsStuck
  BY DEF MailInv, NoMessageIsStuck, Settled, OnItsWay
<1>2. Spec => []MailInv
  BY MailInit, MailStep, TypeAlways, RowAlways, PTL DEF Spec
<1>3. ~twice /\ NoMessageIsStuck => MailIsShownOnce
  BY DEF MailIsShownOnce
<1> QED BY <1>1, <1>2, <1>3, NeverTwice, PTL

-----------------------------------------------------------------------------
\* A signal never goes to -1 through a row at rest.

Aims == {"copy", "kill", "tellCopy", "tellKill"}

\* Why a row that p is about to signal through may be without a pid.
Excused(p) ==
  \/ told[p] = -1
  \/ p \in vacated
  \/ pc[p] \in {"tellCopy", "tellKill"} /\ Halfway(at[p])

\* A row with a uid has a pid, or is halfway; and so is a row that a message goes to,
\* unless it was given up meanwhile or found by the uid of a free row.
SignalInv ==
  ~shared =>
    /\ \A i \in Rows : uid[i] = i => pid[i] # NoProc \/ Halfway(i)
    /\ \A p \in Proc : pc[p] \in Aims => pid[at[p]] # NoProc \/ Excused(p)

LEMMA SignalInit == Init => SignalInv
BY DEF Init, SignalInv, Rows, Aims

\* Who is where in the rows, apart from p.
LEMMA OthersStay ==
  ASSUME TypeInv, NEW p \in Proc, Continue(p) \/ Handler(p) \/ Client(p)
  PROVE  \A q \in Proc \ {p} : /\ pc'[q] = pc[q] /\ row'[q] = row[q]
                               /\ at'[q] = at[q] /\ told'[q] = told[q]
<1> USE DEF TypeInv, TypeOK
<1>1. CASE Scan(p) \/ Signal(p)
  BY <1>1, NextRowType DEF Scan, Signal, Step, Goto, Sends, table
<1>2. CASE Tell(p) \/ TellSignal(p)
  BY <1>2 DEF Tell, TellSignal, TellEnds, Goto, table
<1>3. CASE ~(Scan(p) \/ Signal(p) \/ Tell(p) \/ TellSignal(p))
  BY <1>3 DEF Continue, Handler, Client, SetClient, Take, SetFd, SetPid, SetName, Copy,
     TellCopy, NameCheck, NameCopy, ResetPid, ResetUid, ResetFd, ResetMsg, ResetRow, Leave,
     Fork, Yell, StartTell, StartName, Exit, Hangup, HandlerReads, HandlerClears, HandlerDies,
     Dies, MayRun, StartBroadCast, Goto, table, history
<1> QED BY <1>1, <1>2, <1>3

\* Steps that leave uids, pids and rows alone and aim at no other row, of a process that
\* goes on taking or giving up a row if it was at that, or is killed.
AimsAtNothingNew(p) ==
  /\ UNCHANGED <<uid, pid, row, vacated, shared>>
  /\ pc[p] \in {"fd", "pid", "resetUid"} => pc'[p] \in {"fd", "pid", "resetUid", "dead"}
  /\ Alive(p)' => Alive(p) \/ row[p] = Null
  /\ pc[p] = "dead" => pc'[p] = "dead"
  /\ pc'[p] \in {"copy", "kill"} =>
       pc[p] \in {"copy", "kill"} /\ at'[p] = at[p] /\ told'[p] = told[p]
  /\ pc'[p] \in {"tellCopy", "tellKill"} =>
       pc[p] \in {"tellCopy", "tellKill"} /\ at'[p] = at[p] /\ told'[p] = told[p]

LEMMA MostAimAtNothingNew ==
  ASSUME TypeInv, RowInv, NEW p \in Proc, Continue(p) \/ Handler(p) \/ Client(p)
  PROVE  \/ SetClient(p) \/ SetPid(p) \/ Scan(p) \/ Tell(p) \/ ResetPid(p) \/ ResetUid(p)
         \/ ResetRow(p) \/ AimsAtNothingNew(p)
<1> USE DEF TypeInv, TypeOK, AimsAtNothingNew, Alive, table, history
<1>2. CASE Signal(p)
  <2>1. NextRow(p) /\ pc[p] = "kill" /\ UNCHANGED <<uid, pid, row, vacated, shared>>
    BY <1>2 DEF Signal, Step
  <2> QED BY <2>1, NextRowType DEF Sends
<1>3. CASE SetFd(p) \/ SetName(p) \/ Copy(p) \/ TellCopy(p)
  BY <1>3 DEF SetFd, SetName, Copy, TellCopy, Step, Goto
<1>4. CASE NameCheck(p) \/ NameCopy(p) \/ TellSignal(p)
  BY <1>4 DEF NameCheck, NameCopy, TellSignal, TellEnds, StartBroadCast, Step, Goto
<1>5. CASE ResetFd(p) \/ ResetMsg(p) \/ Leave(p)
  BY <1>5 DEF ResetFd, ResetMsg, Leave, Step, Goto
<1>6. CASE HandlerReads(p)
  <2>1. CASE row[p] = Null
    <3>1. pc[p] \notin HasRow
      BY <2>1, LimitAssumption DEF AtHand, Null, Rows
    <3>2. /\ UNCHANGED <<uid, pid, row, vacated, shared>> /\ pc' = [pc EXCEPT ![p] = "dead"]
      BY <1>6, <2>1 DEF HandlerReads, Goto
    <3> QED BY <3>1, <3>2 DEF HasRow, Places
  <2>2. CASE row[p] # Null
    BY <1>6, <2>2 DEF HandlerReads
  <2> QED BY <2>1, <2>2
<1>9. CASE HandlerClears(p) \/ HandlerDies(p)
  BY <1>9 DEF HandlerClears, HandlerDies, Dies, Goto
<1>7. CASE Fork(p) \/ Yell(p) \/ Exit(p) \/ Hangup(p)
  BY <1>7 DEF Fork, Yell, Exit, Hangup, Dies, MayRun, StartBroadCast, Step, Goto, RowInv, Away
<1>8. CASE (\E id \in Rows \cup {-1} : StartTell(p, id)) \/ (\E n \in Names : StartName(p, n))
  BY <1>8 DEF StartTell, StartName, MayRun, Step, Goto
<1> QED BY <1>2, <1>3, <1>4, <1>5, <1>6, <1>7, <1>8, <1>9 DEF Continue, Handler, Client

LEMMA SignalStep == TypeInv /\ RowInv /\ SignalInv /\ [Next]_vars => SignalInv'
<1> SUFFICES ASSUME TypeInv, RowInv, SignalInv, [Next]_vars, ~shared' PROVE SignalInv'
  BY DEF SignalInv
<1> USE DEF TypeInv, TypeOK
<1>1. CASE UNCHANGED vars
  BY <1>1 DEF SignalInv, Excused, Halfway, Alive, vars, table, history
<1>2. ASSUME NEW p \in Proc, Continue(p) \/ Handler(p) \/ Client(p) PROVE SignalInv'
  <2>0. \A q \in Proc \ {p} : /\ pc'[q] = pc[q] /\ row'[q] = row[q]
                              /\ at'[q] = at[q] /\ told'[q] = told[q]
    BY <1>2, OthersStay
  <2>1. ~shared
    <3>1. CASE SetClient(p)
      BY <3>1 DEF SetClient, Take
    <3> QED BY <1>2, <3>1, MostAreQuiet DEF SetPid, ResetPid, ResetRow, Quiet, history
  <2>a. \A q \in Proc : pc[q] \in Aims => at[q] \in Rows /\ row[q] \in Rows
    BY DEF Aims, AtHand, Sends, HasRow, Places
  <2>2. CASE SetClient(p)
    <3>1. /\ UNCHANGED <<pid, vacated>> /\ pc[p] = "claim" /\ at[p] \in Rows
          /\ \/ UNCHANGED <<uid, row>> /\ pc'[p] \in {"claim", "dead"}
             \/ /\ uid' = [uid EXCEPT ![at[p]] = at[p]]
                /\ row' = [row EXCEPT ![p] = at[p]] /\ pc'[p] = "fd"
      BY <2>2 DEF SetClient, Take, Step, Goto, AtHand
    <3>2. row[p] = Null
      BY <3>1 DEF RowInv, Away
    <3>3. \A i \in Rows : Halfway(i) => Halfway(i)'
      <4> SUFFICES ASSUME NEW i \in Rows, Halfway(i) PROVE Halfway(i)'
        OBVIOUS
      <4>1. CASE row'[p] = i /\ pc'[p] = "fd"
        BY <4>1 DEF Halfway
      <4>2. CASE ~(row'[p] = i /\ pc'[p] = "fd")
        <5>1. row'[p] # i
          BY <3>1, <3>2, <4>2, LimitAssumption DEF Null, Rows
        <5>2. \A q \in Proc : row[q] = i => q # p
          BY <3>2, LimitAssumption DEF Null, Rows
        <5> QED BY <2>0, <5>1, <5>2 DEF Halfway, Alive
      <4> QED BY <4>1, <4>2
    <3>4. \A i \in Rows : uid'[i] = i => uid[i] = i \/ Halfway(i)'
      BY <3>1 DEF Halfway
    <3>5. \A q \in Proc : pc'[q] \in Aims => q # p
      BY <3>1 DEF Aims
    <3> QED BY <2>0, <2>1, <2>a, <3>1, <3>3, <3>4, <3>5 DEF SignalInv, Excused
  <2>3. CASE SetPid(p)
    <3>1. row[p] \in Rows
      BY <2>3 DEF SetPid, Step, AtHand, HasRow, Places
    <3>2. /\ pid' = [pid EXCEPT ![row[p]] = p] /\ pc[p] = "pid"
          /\ pc' = [pc EXCEPT ![p] = "name"] /\ UNCHANGED <<uid, row, at, told, vacated>>
      BY <2>3 DEF SetPid, Step, Goto, history
    <3>3. \A i \in Rows : pid[i] # NoProc => pid'[i] # NoProc
      BY <3>1, <3>2, ProcAssumption
    <3>4. \A i \in Rows : Halfway(i) => Halfway(i)' \/ pid'[i] # NoProc
      <4> SUFFICES ASSUME NEW i \in Rows, Halfway(i), i # row[p] PROVE Halfway(i)'
        BY <3>1, <3>2, ProcAssumption
      <4>1. \A q \in Proc : row[q] = i => q # p
        OBVIOUS
      <4> QED BY <2>0, <3>2, <4>1 DEF Halfway, Alive
    <3>5. \A q \in Proc : pc'[q] \in Aims => q # p
      BY <3>2 DEF Aims
    <3> QED BY <2>0, <2>1, <2>a, <3>2, <3>3, <3>4, <3>5 DEF SignalInv, Excused
  <2>4. CASE Scan(p) \/ Tell(p)
    <3>1. /\ UNCHANGED <<uid, pid, row>> /\ pc[p] \in {"scan", "tell"} /\ at[p] \in Rows
          /\ \A q \in Proc \ {p} : q \in vacated => q \in vacated'
      BY <2>4 DEF Scan, Tell, Step, table, AtHand, Sends
    <3>2. \/ pc'[p] \in {"scan", "tell", "shell", "resetPid"}
          \/ pc'[p] = "copy" /\ at'[p] = at[p] /\ pid[at[p]] # NoProc
          \/ pc'[p] = "tellCopy" /\ at'[p] = at[p] /\ told'[p] = told[p] /\ uid[at[p]] = told[p]
      <4>1. CASE Scan(p)
        <5>1. CASE pid[at[p]] # NoProc
          BY <4>1, <5>1 DEF Scan, Goto
        <5>2. CASE pid[at[p]] = NoProc
          <6>1. NextRow(p) /\ pc[p] = "scan"
            BY <4>1, <5>2 DEF Scan, Step
          <6> QED BY <6>1, NextRowType DEF Sends
        <5> QED BY <5>1, <5>2
      <4>2. CASE Tell(p)
        BY <4>2 DEF Tell, TellEnds, Step, Goto
      <4> QED BY <2>4, <4>1, <4>2
    <3>3. \A i : Halfway(i) <=> Halfway(i)'
      BY <2>0, <3>1, <3>2 DEF Halfway, Alive
    <3>4. ASSUME pc'[p] \in Aims PROVE pid'[at'[p]] # NoProc \/ Excused(p)'
      <4>1. CASE pc'[p] = "copy"
        BY <3>1, <3>2, <4>1
      <4>2. CASE pc'[p] = "tellCopy"
        <5>1. told[p] = -1 \/ told[p] = at[p]
          BY <2>4, <3>2, <4>2, NextRowType DEF Scan, Tell, Step, Goto, AtHand, Sends
        <5>2. CASE told[p] = -1
          BY <3>2, <4>2, <5>2 DEF Excused
        <5>3. CASE told[p] = at[p]
          <6>1. pid[at[p]] # NoProc \/ Halfway(at[p])
            BY <2>1, <3>1, <3>2, <4>2, <5>3 DEF SignalInv
          <6> QED BY <3>1, <3>2, <3>3, <4>2, <6>1 DEF Excused
        <5> QED BY <5>1, <5>2, <5>3
      <4> QED BY <3>2, <3>4, <4>1, <4>2 DEF Aims
    <3> QED BY <2>0, <2>1, <3>1, <3>3, <3>4 DEF SignalInv, Excused
  <2>5. CASE ResetPid(p) \/ ResetUid(p)
    <3>1. row[p] \in Rows
      BY <2>5 DEF ResetPid, ResetUid, Step, AtHand, HasRow, Places
    <3>2. /\ UNCHANGED <<row, at, told>> /\ Vacate(row[p])
          /\ \A i \in Rows \ {row[p]} : uid'[i] = uid[i] /\ pid'[i] = pid[i]
          /\ pc[p] \in {"resetPid", "resetUid"} /\ pc'[p] \in {"resetUid", "resetFd"}
      BY <2>5 DEF ResetPid, ResetUid, Step, Goto
    <3>3. uid'[row[p]] = row[p] => Halfway(row[p])'
      <4>1. CASE ResetPid(p)
        BY <3>2, <4>1 DEF ResetPid, Goto, Halfway
      <4>2. CASE ResetUid(p)
        BY <3>1, <4>2 DEF ResetUid, Rows
      <4> QED BY <2>5, <4>1, <4>2
    <3>4. \A i \in Rows \ {row[p]} : Halfway(i) => Halfway(i)'
      <4> SUFFICES ASSUME NEW i \in Rows, i # row[p], Halfway(i) PROVE Halfway(i)'
        OBVIOUS
      <4>1. \A q \in Proc : row[q] = i => q # p
        OBVIOUS
      <4> QED BY <2>0, <3>2, <4>1 DEF Halfway, Alive
    <3>5. \A q \in Proc : pc'[q] \in Aims =>
            /\ q # p /\ q \in vacated => q \in vacated'
            /\ at[q] = row[p] => q \in vacated'
      BY <2>0, <3>2 DEF Vacate, Aims
    <3>6. \A q \in Proc : pc'[q] \in Aims => q # p
      BY <3>2 DEF Aims
    <3>7. ASSUME NEW q \in Proc, pc'[q] \in Aims PROVE pid'[at'[q]] # NoProc \/ Excused(q)'
      <4>1. q # p /\ pc[q] \in Aims /\ at'[q] = at[q] /\ told'[q] = told[q] /\ pc'[q] = pc[q]
        BY <2>0, <3>6, <3>7
      <4>2. CASE at[q] = row[p]
        BY <3>5, <3>7, <4>2 DEF Excused
      <4>3. CASE at[q] # row[p]
        <5>1. pid[at[q]] # NoProc \/ Excused(q)
          BY <2>1, <4>1 DEF SignalInv
        <5>2. at[q] \in Rows \ {row[p]}
          BY <2>a, <4>1, <4>3
        <5>3. q \in vacated => q \in vacated'
          BY <3>2 DEF Vacate
        <5> QED BY <3>2, <3>4, <4>1, <5>1, <5>2, <5>3 DEF Excused
      <4> QED BY <4>2, <4>3
    <3>8. ASSUME NEW i \in Rows, uid'[i] = i PROVE pid'[i] # NoProc \/ Halfway(i)'
      BY <2>1, <3>2, <3>3, <3>4, <3>8 DEF SignalInv
    <3> QED BY <3>7, <3>8 DEF SignalInv
  <2>6. CASE ResetRow(p)
    <3>1. /\ row' = [row EXCEPT ![p] = Null] /\ pc' = [pc EXCEPT ![p] = "leaving"]
          /\ pc[p] = "resetRow" /\ UNCHANGED <<uid, pid, at, told, vacated>>
      BY <2>6 DEF ResetRow, Step, Goto, table, history
    <3>2. \A i \in Rows : Halfway(i) => Halfway(i)'
      <4> SUFFICES ASSUME NEW i \in Rows, Halfway(i) PROVE Halfway(i)'
        OBVIOUS
      <4>1. /\ \A q \in Proc \ {p} : pc'[q] = pc[q] /\ row'[q] = row[q]
            /\ row'[p] # i /\ pc[p] = "resetRow"
        BY <2>0, <3>1, LimitAssumption DEF Null, Rows
      <4> QED BY <4>1 DEF Halfway, Alive
    <3>3. \A q \in Proc : pc'[q] \in Aims => q # p
      BY <3>1 DEF Aims
    <3> QED BY <2>0, <2>1, <2>a, <3>1, <3>2, <3>3 DEF SignalInv, Excused
  <2>7. CASE AimsAtNothingNew(p)
    <3>1. /\ UNCHANGED <<uid, pid, row, vacated>>
          /\ pc[p] \in {"fd", "pid", "resetUid"} => pc'[p] \in {"fd", "pid", "resetUid", "dead"}
          /\ Alive(p)' => Alive(p) \/ row[p] = Null
          /\ pc[p] = "dead" => pc'[p] = "dead"
      BY <2>7 DEF AimsAtNothingNew
    <3>2. \A i \in Rows : Halfway(i) => Halfway(i)'
      <4> SUFFICES ASSUME NEW i \in Rows, Halfway(i) PROVE Halfway(i)'
        OBVIOUS
      <4>1. \A r \in Proc : (Alive(r)' /\ row'[r] = i) => (Alive(r) /\ row[r] = i)
        BY <2>0, <3>1, LimitAssumption DEF Alive, Null, Rows
      <4>2. PICK q \in Proc :
              /\ row[q] = i
              /\ \/ pc[q] \in {"fd", "pid", "resetUid"}
                 \/ pc[q] = "dead" /\ ~\E r \in Proc : Alive(r) /\ row[r] = i
        BY DEF Halfway
      <4>3. CASE pc[q] \in {"fd", "pid", "resetUid"} /\ pc'[q] = "dead"
        <5>1. Alive(q) /\ row[q] # Null
          BY <4>2, <4>3, LimitAssumption DEF Alive, Null, Rows
        <5>2. \A r \in Proc : (Alive(r) /\ row[r] = i) => r = q
          BY <2>1, <4>2, <5>1 DEF RowInv
        <5>3. ~Alive(q)'
          BY <4>3 DEF Alive
        <5> QED BY <3>1, <4>1, <4>2, <4>3, <5>2, <5>3 DEF Halfway
      <4>4. CASE pc[q] \in {"fd", "pid", "resetUid"} /\ pc'[q] # "dead"
        BY <2>0, <3>1, <4>2, <4>4 DEF Halfway
      <4>5. CASE pc[q] = "dead" /\ ~\E r \in Proc : Alive(r) /\ row[r] = i
        BY <2>0, <3>1, <4>1, <4>2, <4>5 DEF Halfway
      <4> QED BY <4>2, <4>3, <4>4, <4>5
    <3>3. \A q \in Proc : pc'[q] \in Aims =>
            /\ pc[q] \in Aims /\ at'[q] = at[q] /\ told'[q] = told[q]
            /\ pc[q] \in {"tellCopy", "tellKill"} <=> pc'[q] \in {"tellCopy", "tellKill"}
      BY <2>0, <2>7 DEF AimsAtNothingNew, Aims
    <3> QED BY <2>1, <2>a, <3>1, <3>2, <3>3 DEF SignalInv, Excused
  <2> QED BY <1>2, <2>2, <2>3, <2>4, <2>5, <2>6, <2>7, MostAimAtNothingNew
<1> QED BY <1>1, <1>2 DEF Next

\* For any number of rows and processes, and while no row has been shared: whoever signals
\* every process has asked for user -1, or its target's row was given up since it tested
\* the row, or was found halfway between having a uid and having a pid.
THEOREM SignalsAreAimed == Spec => MasterFallsInAWindow
<1> DEFINE A == (~shared /\ master' # master) =>
       \E p \in Proc :
         /\ pc[p] \in {"kill", "tellKill"}
         /\ \/ told[p] = -1
            \/ p \in vacated
            \/ pc[p] = "tellKill" /\ Halfway(at[p])
<1>1. TypeInv /\ SignalInv /\ [Next]_vars => [A]_vars
  <2> SUFFICES ASSUME TypeInv, SignalInv, [Next]_vars, master' # master, ~shared
               PROVE  \E p \in Proc :
                        /\ pc[p] \in {"kill", "tellKill"}
                        /\ \/ told[p] = -1
                           \/ p \in vacated
                           \/ pc[p] = "tellKill" /\ Halfway(at[p])
    OBVIOUS
  <2>1. PICK p \in Proc : Continue(p) \/ Handler(p) \/ Client(p)
    BY DEF Next, vars
  <2>2. Signal(p) \/ TellSignal(p)
    BY <2>1 DEF Continue, Handler, Client, SetClient, SetFd, SetPid, SetName, Scan, Copy, Tell,
       TellCopy, NameCheck, NameCopy, ResetPid, ResetUid, ResetFd, ResetMsg, ResetRow, Leave,
       Fork, Yell, StartTell, StartName, Exit, Hangup, HandlerReads, HandlerClears, HandlerDies
  <2>3. Kill(p, pid[at[p]]) /\ (pc[p] = "kill" \/ pc[p] = "tellKill")
    BY <2>2 DEF Signal, TellSignal, Step
  <2>4. pid[at[p]] = NoProc
    BY <2>3 DEF Kill
  <2>5. Excused(p)
    BY <2>3, <2>4 DEF SignalInv, Aims
  <2> QED BY <2>3, <2>5 DEF Excused
<1>2. Spec => []SignalInv
  BY SignalInit, SignalStep, TypeAlways, RowAlways, PTL DEF Spec
<1>3. Spec => [][A]_vars
  BY <1>1, <1>2, TypeAlways, PTL DEF Spec
<1> QED BY <1>3 DEF MasterFallsInAWindow

-----------------------------------------------------------------------------
\* Names.

Named(p) == Placed(p) /\ pc[p] # "name"
Renaming(p) == pc[p] \in {"nameCheck", "nameCopy"}

\* p's loop has left row i behind.
HasPassed(p, i) == pc[p] = "nameCopy" \/ i < at[p]

\* A row that the loop has passed and that has the name now has got it meanwhile, from a
\* client that was renaming itself at the same time.
PassedInv ==
  \A p, q \in Proc :
    (p # q /\ Renaming(p) /\ Named(q) /\ HasPassed(p, row[q]) /\ name[row[q]] = sending[p])
      => {p, q} \in raced

NameInv == NamesAreUnique /\ (~shared => PassedInv)

\* A step of p that gives no client a name: rows keep theirs, nobody starts or goes on
\* with name, and no client becomes a named one.
KeepsNames(p) ==
  /\ UNCHANGED <<name, raced>>
  /\ \A q \in Proc : Named(q)' => Named(q) /\ row'[q] = row[q]
  /\ \A q \in Proc : Renaming(q)' =>
       /\ Renaming(q) /\ sending'[q] = sending[q]
       /\ at'[q] = at[q] /\ pc'[q] = pc[q]
  /\ shared => shared'

\* All steps but those of name, and SetName, are of that kind.
LEMMA MostKeepNames ==
  ASSUME TypeInv, RowInv, NEW p \in Proc, Continue(p) \/ Handler(p) \/ Client(p)
  PROVE  \/ SetName(p) \/ (\E n \in Names : StartName(p, n)) \/ NameCheck(p) \/ NameCopy(p)
         \/ KeepsNames(p)
<1> USE DEF TypeInv, TypeOK, KeepsNames, Named, Placed, Renaming, Places, table, history
<1>1. CASE Scan(p)
  <2>1. CASE pid[at[p]] # NoProc
    BY <1>1, <2>1 DEF Scan, Step, Goto
  <2>2. CASE pid[at[p]] = NoProc
    <3>1. NextRow(p) /\ pc[p] = "scan" /\ UNCHANGED <<name, raced, row, shared>>
      BY <1>1, <2>2 DEF Scan, Step
    <3> QED BY <3>1, NextRowType DEF Sends
  <2> QED BY <2>1, <2>2
<1>2. CASE Signal(p)
  <2>1. NextRow(p) /\ pc[p] = "kill" /\ UNCHANGED <<name, raced, row, shared>>
    BY <1>2 DEF Signal, Step
  <2> QED BY <2>1, NextRowType DEF Sends
<1>3. CASE Tell(p) \/ TellSignal(p)
  BY <1>3 DEF Tell, TellSignal, TellEnds, Step, Goto
<1>4. CASE Copy(p) \/ TellCopy(p)
  BY <1>4 DEF Copy, TellCopy, Step, Goto
<1>5. CASE SetFd(p) \/ SetPid(p)
  BY <1>5 DEF SetFd, SetPid, Step, Goto
<1>6. CASE ResetPid(p) \/ ResetUid(p) \/ ResetFd(p) \/ ResetMsg(p)
  BY <1>6 DEF ResetPid, ResetUid, ResetFd, ResetMsg, Step, Goto
<1>7. CASE ResetRow(p) \/ Leave(p)
  BY <1>7 DEF ResetRow, Leave, Step, Goto
<1>8. CASE HandlerReads(p)
  BY <1>8 DEF HandlerReads, Goto
<1>9. CASE HandlerClears(p) \/ HandlerDies(p)
  BY <1>9 DEF HandlerClears, HandlerDies, Dies, Goto
<1>10. CASE Fork(p)
  BY <1>10 DEF Fork, Goto
<1>11. CASE Yell(p) \/ (\E id \in Rows \cup {-1} : StartTell(p, id))
  BY <1>11 DEF Yell, StartTell, MayRun, StartBroadCast, Step, Goto
<1>12. CASE Exit(p) \/ Hangup(p)
  BY <1>12 DEF Exit, Hangup, Dies, StartBroadCast, Step, Goto
<1>13. CASE SetClient(p)
  BY <1>13 DEF SetClient, Take, Step, Goto
<1> QED
  BY <1>1, <1>2, <1>3, <1>4, <1>5, <1>6, <1>7, <1>8, <1>9, <1>10, <1>11, <1>12, <1>13
  DEF Continue, Handler, Client

LEMMA NameInit == Init => NameInv
BY DEF Init, NameInv, NamesAreUnique, PassedInv, Named, Placed, Renaming, Places

LEMMA NameStep == TypeInv /\ RowInv /\ NameInv /\ [Next]_vars => NameInv'
<1> SUFFICES ASSUME TypeInv, RowInv, NameInv, [Next]_vars PROVE NameInv'
  OBVIOUS
<1>a. NamesAreUnique <=>
        (~shared => \A p, q \in Proc :
           (p # q /\ Named(p) /\ Named(q) /\ name[row[p]] = name[row[q]] /\ name[row[p]] # NoName)
             => {p, q} \in raced)
  BY DEF NamesAreUnique, Named
<1>b. NamesAreUnique' <=>
        (~shared' => \A p, q \in Proc :
           (p # q /\ Named(p)' /\ Named(q)' /\ name'[row'[p]] = name'[row'[q]] /\ name'[row'[p]] # NoName)
             => {p, q} \in raced')
  BY DEF NamesAreUnique, Named
<1>1. ASSUME UNCHANGED vars PROVE NameInv'
  BY <1>1 DEF NameInv, NamesAreUnique, PassedInv, Named, Placed, Renaming, HasPassed, vars, table, history
<1>2. ASSUME NEW p \in Proc, Continue(p) \/ Handler(p) \/ Client(p) PROVE NameInv'
  <2> USE DEF TypeInv, TypeOK, Renaming, HasPassed
  <2>1. CASE SetName(p)
    <3>1. pc[p] = "name" /\ row[p] \in Rows
      BY <2>1 DEF SetName, Step, AtHand, HasRow, Places
    <3>2. /\ name' = [name EXCEPT ![row[p]] = NoName] /\ pc' = [pc EXCEPT ![p] = "scan"]
          /\ at' = [at EXCEPT ![p] = 1]
          /\ UNCHANGED <<row, shared, raced>>
          /\ \A q \in Proc \ {p} : sending'[q] = sending[q]
      BY <2>1 DEF SetName, Goto, history
    <3>3. \A q \in Proc \ {p} : Named(q)' <=> Named(q)
      BY <3>2 DEF Named, Placed
    <3>4. \A q \in Proc \ {p} : (~shared /\ Named(q)) => row[q] \in Rows /\ row[q] # row[p]
      <4>1. \A q \in Proc : Named(q) => row[q] \in Rows /\ Alive(q)
        BY DEF Named, Placed, AtHand, HasRow, Places, Alive
      <4>2. Alive(p) /\ row[p] # Null
        BY <3>1 DEF Alive, Null, Rows
      <4> QED BY <4>1, <4>2 DEF RowInv
    <3>5. NamesAreUnique'
      BY <1>a, <1>b, <3>1, <3>2, <3>3, <3>4 DEF NameInv
    <3>6. ASSUME ~shared, NEW q \in Proc, NEW r \in Proc, q # r, Renaming(q)', Named(r)',
                 HasPassed(q, row[r])', name'[row'[r]] = sending'[q]
          PROVE  {q, r} \in raced
      <4>1. q # p /\ Renaming(q) /\ sending[q] \in Names
        BY <3>2, <3>6 DEF AtHand
      <4>2. r # p
        BY <3>1, <3>2, <3>6, <4>1, NameAssumption
      <4> QED BY <3>2, <3>3, <3>4, <3>6, <4>1, <4>2 DEF NameInv, PassedInv
    <3> QED BY <3>2, <3>5, <3>6 DEF NameInv, PassedInv
  <2>2. CASE \E n \in Names : StartName(p, n)
    <3>1. /\ pc[p] = "shell" /\ pc' = [pc EXCEPT ![p] = "nameCheck"] /\ at' = [at EXCEPT ![p] = 1]
          /\ UNCHANGED <<name, row, shared, raced>>
          /\ \A q \in Proc \ {p} : sending'[q] = sending[q]
      BY <2>2 DEF StartName, MayRun, Step, Goto, table
    <3>2. \A q \in Proc : Named(q)' <=> Named(q)
      BY <3>1 DEF Named, Placed, Places
    <3>3. \A q \in Proc : Named(q) => row[q] \in Rows
      BY DEF Named, Placed, AtHand, HasRow, Places
    <3>4. \A q \in Proc : Named(q) => ~HasPassed(p, row[q])'
      BY <3>1, <3>3 DEF Rows
    <3> QED BY <1>a, <1>b, <3>1, <3>2, <3>4 DEF NameInv, PassedInv
  <2>3. CASE NameCheck(p)
    <3>1. pc[p] = "nameCheck" /\ UNCHANGED <<name, row, shared, raced>> /\ at[p] \in Rows
      BY <2>3 DEF NameCheck, Step, AtHand, table, history
    <3>2. /\ \A q \in Proc \ {p} : pc'[q] = pc[q] /\ at'[q] = at[q] /\ sending'[q] = sending[q]
          /\ pc'[p] \in {"shell", "nameCheck", "nameCopy"}
          /\ pc'[p] # "shell" => sending'[p] = sending[p] /\ name[at[p]] # sending[p]
          /\ pc'[p] = "nameCheck" => at'[p] = at[p] + 1
          /\ pc'[p] = "nameCopy" => ~(at[p] < KMaxClient)
      BY <2>3 DEF NameCheck, Step, Goto
    <3>3. \A q \in Proc : Named(q)' <=> Named(q)
      BY <3>1, <3>2 DEF Named, Placed, Places
    <3>4. \A q \in Proc : Named(q) => row[q] \in Rows
      BY DEF Named, Placed, AtHand, HasRow, Places
    <3>5. \A q \in Proc : (Renaming(p)' /\ Named(q) /\ HasPassed(p, row[q])')
                            => (HasPassed(p, row[q]) \/ row[q] = at[p])
      BY <3>1, <3>2, <3>4, LimitAssumption DEF Rows
    <3> QED BY <1>a, <1>b, <3>1, <3>2, <3>3, <3>5 DEF NameInv, PassedInv
  <2>4. CASE NameCopy(p)
    <3>1. pc[p] = "nameCopy" /\ row[p] \in Rows /\ sending[p] \in Names
      BY <2>4 DEF NameCopy, Step, AtHand, HasRow, Places
    <3>2. /\ name' = [name EXCEPT ![row[p]] = sending[p]] /\ pc' = [pc EXCEPT ![p] = "scan"]
          /\ at' = [at EXCEPT ![p] = 1] /\ UNCHANGED <<row, shared>>
          /\ \A q \in Proc \ {p} : sending'[q] = sending[q]
      BY <2>4 DEF NameCopy, StartBroadCast, Goto
    <3>3. /\ raced \subseteq raced'
          /\ \A q \in Proc \ {p} : Renaming(q) => {p, q} \in raced'
      BY <2>4 DEF NameCopy
    <3>4. \A q \in Proc : Named(q)' <=> Named(q)
      BY <3>1, <3>2 DEF Named, Placed, Places
    <3>5. \A q \in Proc \ {p} : (~shared /\ Named(q)) => row[q] \in Rows /\ row[q] # row[p]
      <4>1. \A q \in Proc : Named(q) => row[q] \in Rows /\ Alive(q)
        BY DEF Named, Placed, AtHand, HasRow, Places, Alive
      <4>2. Alive(p) /\ row[p] # Null
        BY <3>1 DEF Alive, Null, Rows
      <4> QED BY <4>1, <4>2 DEF RowInv
    <3>6. \A q \in Proc \ {p} :
            (~shared /\ Named(q) /\ name'[row[q]] = sending[p]) => {p, q} \in raced
      BY <3>1, <3>2, <3>5 DEF NameInv, PassedInv
    <3>7. ASSUME ~shared, NEW q \in Proc, NEW r \in Proc, q # r, Named(q), Named(r),
                 name'[row[q]] = name'[row[r]], name'[row[q]] # NoName
          PROVE  {q, r} \in raced'
      <4>1. CASE q = p
        BY <3>1, <3>2, <3>3, <3>6, <3>7, <4>1
      <4>2. CASE r = p
        <5>1. {r, q} \in raced
          BY <3>1, <3>2, <3>6, <3>7, <4>2
        <5>2. {r, q} = {q, r}
          OBVIOUS
        <5> QED BY <3>3, <5>1, <5>2
      <4>3. CASE q # p /\ r # p
        BY <1>a, <3>2, <3>3, <3>5, <3>7, <4>3 DEF NameInv
      <4> QED BY <4>1, <4>2, <4>3
    <3>8. ASSUME ~shared, NEW q \in Proc, NEW r \in Proc, q # r, Renaming(q)', Named(r),
                 HasPassed(q, row[r])', name'[row[r]] = sending'[q]
          PROVE  {q, r} \in raced'
      <4>1. q # p /\ Renaming(q) /\ pc'[q] = pc[q] /\ at'[q] = at[q] /\ sending'[q] = sending[q]
        BY <3>2, <3>8
      <4>2. CASE r = p
        <5>1. {p, q} = {q, r}
          BY <4>2
        <5> QED BY <3>3, <4>1, <5>1
      <4>3. CASE r # p
        BY <3>2, <3>3, <3>5, <3>8, <4>1, <4>3 DEF NameInv, PassedInv
      <4> QED BY <4>2, <4>3
    <3> QED BY <1>b, <3>2, <3>4, <3>7, <3>8 DEF NameInv, PassedInv
  <2>5. CASE KeepsNames(p)
    BY <1>a, <1>b, <2>5 DEF KeepsNames, NameInv, PassedInv
  <2> QED BY <1>2, <2>1, <2>2, <2>3, <2>4, <2>5, MostKeepNames
<1> QED BY <1>1, <1>2 DEF Next

\* For any number of rows and processes, while no row is shared two clients have one name
\* only if one wrote it while the other was between its test and its own write.
THEOREM NamesClashInRaces == Spec => []NamesAreUnique
<1>1. NameInv => NamesAreUnique
  BY DEF NameInv
<1> QED BY <1>1, NameInit, NameStep, TypeAlways, RowAlways, PTL DEF Spec
=============================================================================
