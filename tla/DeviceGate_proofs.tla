-------------------------- MODULE DeviceGate_proofs --------------------------
(***************************************************************************)
(* Proofs about DeviceGate for every set of nodes, keys and dials, and for *)
(* any number of faults.                                                   *)
(***************************************************************************)
EXTENDS DeviceGate, TLAPS

USE DEF Pair, Conn

(***************************************************************************)
(* Type correctness: TypeOK is inductive.                                  *)
(***************************************************************************)

\* Noting a proved peer keeps the types of what it writes.
LEMMA MarkProvedType ==
    ASSUME GateAssumption, TypeOK, NEW n \in Node, NEW p \in Node,
           MarkProved(n, p)
    PROVE  /\ proved' \subseteq Pair
           /\ stream' \in [Pair -> {"none", "waiting", "served"}]
           /\ held' \subseteq Node \X Conn
           /\ told' \subseteq Pair
BY DEF GateAssumption, TypeOK, MarkProved, Woken, Served, HeldFor

\* Starting an exchange keeps the types of what it writes.
LEMMA StartExchangeType ==
    ASSUME GateAssumption, TypeOK, NEW n \in Node, NEW p \in Node,
           StartExchange(n, p)
    PROVE  /\ ex' \in [Pair -> {"idle", "open", "read"}]
           /\ pipe' \in [Pair -> {"none", "proof", "empty", "back"}]
           /\ ans' \in [Pair -> {"idle", "check", "late", "reply"}]
BY DEF GateAssumption, TypeOK, StartExchange, Orphaned

\* What a closed connection takes with it leaves well-typed values.
LEMMA DropType ==
    ASSUME GateAssumption, TypeOK, NEW C \in SUBSET Conn, Drop(C)
    PROVE  /\ conn' \subseteq Conn
           /\ ident' \subseteq Node \X Conn
           /\ closing' \subseteq Node \X Conn
           /\ told' \subseteq Pair
           /\ pipe' \in [Pair -> {"none", "proof", "empty", "back"}]
           /\ ans' \in [Pair -> {"idle", "check", "late", "reply"}]
           /\ stream' \in [Pair -> {"none", "waiting", "served"}]
BY DEF GateAssumption, TypeOK, Drop, Orphaned

\* A fault is counted up to its bound.
LEMMA FaultType ==
    ASSUME GateAssumption, TypeOK, Fault
    PROVE  faults' \in 0..MaxFaults
BY DEF GateAssumption, TypeOK, Fault

\* Every step keeps the types.
LEMMA TypeStep ==
    ASSUME GateAssumption, TypeOK, [Next]_vars
    PROVE  TypeOK'
<1> USE GateAssumption DEF net, exchange, topology
<1>1. ASSUME NEW n \in Node, NEW p \in Node, Dial(n, p)
      PROVE  TypeOK'
  BY <1>1, StartExchangeType DEF Dial, TypeOK, GateAssumption
<1>2. ASSUME NEW n \in Node, NEW p \in Node, ProveAgain(n, p)
      PROVE  TypeOK'
  BY <1>2, StartExchangeType DEF ProveAgain, TypeOK
<1>3. ASSUME NEW n \in Node, NEW p \in Node, Exchange(n, p)
      PROVE  TypeOK'
  <2>1. CASE ReadProof(n, p) BY <2>1 DEF ReadProof, TypeOK
  <2>2. CASE Accept(n, p) BY <2>2, MarkProvedType DEF Accept, TypeOK
  <2>3. CASE Refuse(n, p) BY <2>3 DEF Refuse, TypeOK
  <2>4. CASE WriteBack(n, p) BY <2>4 DEF WriteBack, TypeOK
  <2>5. CASE ReadBack(n, p) BY <2>5 DEF ReadBack, TypeOK
  <2>6. CASE Finish(n, p) BY <2>6, MarkProvedType DEF Finish, TypeOK
  <2>7. CASE Fail(n, p) BY <2>7 DEF Fail, TypeOK
  <2> QED BY <1>3, <2>1, <2>2, <2>3, <2>4, <2>5, <2>6, <2>7 DEF Exchange
<1>4. ASSUME NEW n \in Node, NEW p \in Node, TimeOut(n, p)
      PROVE  TypeOK'
  BY <1>4, FaultType DEF TimeOut, TypeOK
<1>5. ASSUME NEW n \in Node, NEW p \in Node, Reset(n, p)
      PROVE  TypeOK'
  BY <1>5, FaultType DEF Reset, TypeOK, Orphaned
<1>6. ASSUME NEW n \in Node, NEW p \in Node,
             OpenStream(n, p) \/ WaitOver(n, p) \/ StreamDone(n, p)
      PROVE  TypeOK'
  BY <1>6 DEF OpenStream, WaitOver, StreamDone, Served, TypeOK
<1>7. ASSUME NEW n \in Node, NEW p \in Node, LetIn(n, p)
      PROVE  TypeOK'
  BY <1>7 DEF LetIn, TypeOK
<1>8. ASSUME NEW n \in Node, NEW p \in Node, Remove(n, p)
      PROVE  TypeOK'
  <2>1. faults' \in 0..MaxFaults
    BY <1>8, FaultType DEF Remove
  <2>2. closing' \subseteq Node \X Conn
    BY <1>8 DEF Remove, HangUpSet, Between, TypeOK
  <2>3. held' \subseteq Node \X Conn
    BY <1>8 DEF Remove, TypeOK
  <2> QED BY <1>8, <2>1, <2>2, <2>3 DEF Remove, TypeOK
<1>9. ASSUME NEW c \in Conn, Close(c)
      PROVE  TypeOK'
  <2>1. {c} \in SUBSET Conn /\ Drop({c}) BY <1>9 DEF Close
  <2>2. held' \subseteq Node \X Conn BY <1>9 DEF Close, TypeOK
  <2>3. faults' \in 0..MaxFaults BY <1>9, FaultType DEF Close
  <2> QED BY <1>9, <2>1, <2>2, <2>3, DropType DEF Close, TypeOK
<1>10. ASSUME NEW c \in Conn, NEW n \in Node, HangUpStep(n, c)
       PROVE  TypeOK'
  <2>1. {c} \in SUBSET Conn /\ Drop({c}) BY <1>10 DEF HangUpStep
  <2>2. held' \subseteq Node \X Conn BY <1>10 DEF HangUpStep, TypeOK
  <2> QED BY <1>10, <2>1, <2>2, DropType DEF HangUpStep, TypeOK
<1>11. ASSUME NEW c \in Conn, NEW n \in Node, Identify(n, c)
       PROVE  TypeOK'
  BY <1>11 DEF Identify, Other, TypeOK
<1>12. ASSUME NEW n \in Node, Restart(n)
       PROVE  TypeOK'
  BY <1>12, FaultType DEF Restart, Orphaned, TypeOK
<1>13. CASE UNCHANGED vars
  BY <1>13 DEF vars, TypeOK
<1> QED BY <1>1, <1>2, <1>3, <1>4, <1>5, <1>6, <1>7, <1>8, <1>9, <1>10,
           <1>11, <1>12, <1>13 DEF Next

\* The variables keep their types in every run.
THEOREM TypeCorrect == ASSUME GateAssumption PROVE Spec => []TypeOK
<1>1. ASSUME GateAssumption, Init PROVE TypeOK
  BY <1>1 DEF Init, TypeOK, GateAssumption
<1> QED BY <1>1, TypeStep, PTL DEF Spec

-----------------------------------------------------------------------------
(***************************************************************************)
(* Only own devices: what is noted, served or told goes back to a proof    *)
(* that was right under the key of the pair, and the keys do not change.   *)
(***************************************************************************)

\* Noting a peer whose proof was right keeps OnlyOwnDevices.
LEMMA MarkProvedOwn ==
    ASSUME GateAssumption, TypeOK, OnlyOwnDevices,
           NEW n \in Node, NEW p \in Node, SameKey(n, p), MarkProved(n, p),
           UNCHANGED keyFor
    PROVE  OnlyOwnDevices'
<1> SUFFICES ASSUME NEW m \in Node, NEW q \in Node
             PROVE  /\ <<m, q>> \in proved' => SameKey(m, q)
                    /\ stream'[<<m, q>>] = "served" \/ <<m, q>> \in told'
                          => SameKey(m, q) /\ ~Limited(m, q)
  BY DEF OnlyOwnDevices, SameKey, Limited
<1>1. CASE <<m, q>> = <<n, p>>
  BY <1>1 DEF TypeOK, OnlyOwnDevices, MarkProved, Woken, Served
<1>2. CASE <<m, q>> # <<n, p>>
  BY <1>2 DEF TypeOK, OnlyOwnDevices, MarkProved, Woken, Served
<1> QED BY <1>1, <1>2

\* A step that only takes away from what is proved, served and told keeps it.
LEMMA LessOwn ==
    ASSUME TypeOK, OnlyOwnDevices, UNCHANGED keyFor,
           proved' \subseteq proved, told' \subseteq told,
           \A d \in Pair : stream'[d] = "served" => stream[d] = "served"
    PROVE  OnlyOwnDevices'
BY DEF TypeOK, OnlyOwnDevices, SameKey, Limited

\* Every step keeps OnlyOwnDevices: what is proved anew had its proof checked.
LEMMA OwnStep ==
    ASSUME GateAssumption, TypeOK, OnlyOwnDevices, [Next]_vars
    PROVE  OnlyOwnDevices'
<1> USE GateAssumption DEF net, exchange, topology
<1>1. ASSUME NEW n \in Node, NEW p \in Node,
             Dial(n, p) \/ ProveAgain(n, p) \/ TimeOut(n, p) \/ Reset(n, p)
                \/ LetIn(n, p) \/ Remove(n, p)
      PROVE  OnlyOwnDevices'
  BY <1>1, LessOwn DEF Dial, ProveAgain, TimeOut, Reset, LetIn, Remove
<1>2. ASSUME NEW n \in Node, NEW p \in Node, Exchange(n, p)
      PROVE  OnlyOwnDevices'
  <2>1. CASE ReadProof(n, p) BY <2>1, LessOwn DEF ReadProof
  <2>2. CASE Accept(n, p)
    <3>1. SameKey(p, n) BY <2>2 DEF Accept, ProofRight
    <3> QED BY <2>2, <3>1, MarkProvedOwn DEF Accept
  <2>3. CASE Refuse(n, p) BY <2>3, LessOwn DEF Refuse
  <2>4. CASE WriteBack(n, p) BY <2>4, LessOwn DEF WriteBack
  <2>5. CASE ReadBack(n, p) BY <2>5, LessOwn DEF ReadBack
  <2>6. CASE Finish(n, p)
    <3>1. CASE ProofRight(n, p) /\ Admit(n, p)
      BY <2>6, <3>1, MarkProvedOwn DEF Finish, ProofRight
    <3>2. CASE ~(ProofRight(n, p) /\ Admit(n, p))
      BY <2>6, <3>2, LessOwn DEF Finish
    <3> QED BY <3>1, <3>2
  <2>7. CASE Fail(n, p) BY <2>7, LessOwn DEF Fail
  <2> QED BY <1>2, <2>1, <2>2, <2>3, <2>4, <2>5, <2>6, <2>7 DEF Exchange
<1>3. ASSUME NEW n \in Node, NEW p \in Node,
             OpenStream(n, p) \/ WaitOver(n, p)
      PROVE  OnlyOwnDevices'
  <2> SUFFICES ASSUME NEW m \in Node, NEW q \in Node,
                      stream'[<<m, q>>] = "served"
               PROVE  SameKey(m, q) /\ ~Limited(m, q)
    BY <1>3 DEF OpenStream, WaitOver, OnlyOwnDevices, SameKey, Limited
  <2>1. CASE <<m, q>> = <<n, p>>
    BY <1>3, <2>1 DEF OpenStream, WaitOver, Served, TypeOK, OnlyOwnDevices
  <2>2. CASE <<m, q>> # <<n, p>>
    BY <1>3, <2>2 DEF OpenStream, WaitOver, TypeOK, OnlyOwnDevices
  <2> QED BY <2>1, <2>2
<1>4. ASSUME NEW n \in Node, NEW p \in Node, StreamDone(n, p)
      PROVE  OnlyOwnDevices'
  BY <1>4, LessOwn DEF StreamDone, TypeOK
<1>5. ASSUME NEW c \in Conn, NEW n \in Node, HangUpStep(n, c)
      PROVE  OnlyOwnDevices'
  BY <1>5, LessOwn DEF HangUpStep, Drop, TypeOK
<1>6. ASSUME NEW c \in Conn, Close(c)
      PROVE  OnlyOwnDevices'
  BY <1>6, LessOwn DEF Close, Drop, TypeOK
<1>7. ASSUME NEW c \in Conn, NEW n \in Node, Identify(n, c)
      PROVE  OnlyOwnDevices'
  <2> DEFINE p == Other(n, c)
  <2>1. p \in Node BY DEF Other
  <2>2. CASE <<n, p>> \notin proved \/ Limited(n, p)
    BY <1>7, <2>2, LessOwn DEF Identify
  <2>3. CASE <<n, p>> \in proved /\ ~Limited(n, p)
    <3>1. SameKey(n, p) /\ told' = told \cup {<<n, p>>}
      BY <1>7, <2>1, <2>3 DEF Identify, OnlyOwnDevices
    <3> HIDE DEF p
    <3> QED BY <1>7, <2>1, <2>3, <3>1
            DEF Identify, OnlyOwnDevices, SameKey, Limited
  <2> QED BY <2>2, <2>3
<1>8. ASSUME NEW n \in Node, Restart(n)
      PROVE  OnlyOwnDevices'
  BY <1>8, LessOwn DEF Restart, TypeOK
<1>9. CASE UNCHANGED vars
  BY <1>9, LessOwn DEF vars
<1> QED BY <1>1, <1>2, <1>3, <1>4, <1>5, <1>6, <1>7, <1>8, <1>9 DEF Next

\* In every run, whatever is lost, repeated, removed or restarted: only a peer
\* that holds the key is proved, served or told, and never the bridge's node.
THEOREM OwnDevicesOnly == ASSUME GateAssumption PROVE Spec => []OnlyOwnDevices
<1>1. ASSUME GateAssumption, Init PROVE OnlyOwnDevices
  BY <1>1 DEF Init, OnlyOwnDevices
<1> QED BY <1>1, TypeCorrect, OwnStep, PTL DEF Spec

-----------------------------------------------------------------------------
(***************************************************************************)
(* Removed devices: without a path in the own network, admit and blocked   *)
(* exclude each other, so no exchange that was running at the removal      *)
(* brings the device back.                                                 *)
(***************************************************************************)

\* A device is not named and removed at once, nor proved and removed.
RemovedInv == known \cap blocked = {} /\ proved \cap blocked = {}

\* Every step keeps RemovedInv: an exchange that ends asks whether its peer is
\* named then, and a removal takes the name and the proof at once.
LEMMA RemovedStep ==
    ASSUME GateAssumption, LocalPaths = {}, TypeOK, RemovedInv, [Next]_vars
    PROVE  RemovedInv'
<1> USE GateAssumption DEF net, exchange, topology, RemovedInv
<1>1. ASSUME NEW n \in Node, NEW p \in Node,
             Dial(n, p) \/ ProveAgain(n, p) \/ TimeOut(n, p) \/ Reset(n, p)
                \/ OpenStream(n, p) \/ WaitOver(n, p) \/ StreamDone(n, p)
      PROVE  RemovedInv'
  BY <1>1 DEF Dial, ProveAgain, TimeOut, Reset, OpenStream, WaitOver, StreamDone
<1>2. ASSUME NEW n \in Node, NEW p \in Node, Exchange(n, p)
      PROVE  RemovedInv'
  BY <1>2 DEF Exchange, ReadProof, Accept, Refuse, WriteBack, ReadBack, Finish,
              Fail, MarkProved, Admit
<1>3. ASSUME NEW n \in Node, NEW p \in Node, LetIn(n, p) \/ Remove(n, p)
      PROVE  RemovedInv'
  BY <1>3 DEF LetIn, Remove, TypeOK
<1>4. ASSUME NEW c \in Conn, NEW n \in Node,
             HangUpStep(n, c) \/ Identify(n, c)
      PROVE  RemovedInv'
  BY <1>4 DEF HangUpStep, Identify
<1>5. ASSUME NEW c \in Conn, Close(c) PROVE RemovedInv'
  BY <1>5 DEF Close
<1>6. ASSUME NEW n \in Node, Restart(n) PROVE RemovedInv'
  BY <1>6 DEF Restart
<1>7. CASE UNCHANGED vars
  BY <1>7 DEF vars
<1> QED BY <1>1, <1>2, <1>3, <1>4, <1>5, <1>6, <1>7 DEF Next

\* A removed device is never counted as proved, whatever exchange was running.
THEOREM RemovedStaysOut ==
    ASSUME GateAssumption, LocalPaths = {} PROVE Spec => []RemovedIsNotProved
<1>1. ASSUME Init PROVE RemovedInv
  BY <1>1 DEF Init, RemovedInv
<1>2. RemovedInv => RemovedIsNotProved
  BY DEF RemovedInv, RemovedIsNotProved
<1> QED BY <1>1, <1>2, TypeCorrect, RemovedStep, PTL DEF Spec

-----------------------------------------------------------------------------
(***************************************************************************)
(* The streams that wait: a proof that comes wakes every one of them.      *)
(***************************************************************************)

\* Every step keeps NoSleepingStream: who is noted as proved is woken.
LEMMA SleepStep ==
    ASSUME GateAssumption, TypeOK, NoSleepingStream, [Next]_vars
    PROVE  NoSleepingStream'
<1> USE GateAssumption DEF net, exchange, topology
<1> SUFFICES ASSUME NEW m \in Node, NEW q \in Node,
                    stream'[<<m, q>>] = "waiting"
             PROVE  <<m, q>> \notin proved'
  BY DEF NoSleepingStream
<1>0. stream[<<m, q>>] = "waiting" => <<m, q>> \notin proved
  BY DEF NoSleepingStream
<1>1. ASSUME NEW n \in Node, NEW p \in Node,
             Dial(n, p) \/ ProveAgain(n, p) \/ TimeOut(n, p) \/ Reset(n, p)
                \/ LetIn(n, p) \/ Remove(n, p)
      PROVE  <<m, q>> \notin proved'
  BY <1>0, <1>1 DEF Dial, ProveAgain, TimeOut, Reset, LetIn, Remove
<1>2. ASSUME NEW n \in Node, NEW p \in Node, MarkProved(n, p)
      PROVE  <<m, q>> \notin proved'
  <2>1. CASE <<n, p>> \in proved
    BY <1>0, <1>2, <2>1 DEF MarkProved
  <2>2. CASE <<n, p>> \notin proved
    <3>1. proved' = proved \cup {<<n, p>>} /\ stream' = Woken(n, p)
      BY <1>2, <2>2 DEF MarkProved
    <3>2. Served(n, p) # "waiting"
      BY DEF Served
    <3>3. stream \in [Pair -> {"none", "waiting", "served"}]
      BY DEF TypeOK, Pair
    <3>4. CASE m = n /\ q = p
      <4>1. stream'[<<n, p>>] =
               IF stream[<<n, p>>] = "waiting" THEN Served(n, p)
                                               ELSE stream[<<n, p>>]
        BY <3>1, <3>3 DEF Woken
      <4> QED BY <4>1, <3>2, <3>4
    <3>5. CASE ~(m = n /\ q = p)
      <4>1. <<m, q>> # <<n, p>>
        BY <3>5
      <4>2. stream'[<<m, q>>] = stream[<<m, q>>]
        BY <4>1, <3>1, <3>3 DEF Woken
      <4> QED BY <4>1, <4>2, <3>1, <1>0
    <3> QED BY <3>4, <3>5
  <2> QED BY <2>1, <2>2
<1>3. ASSUME NEW n \in Node, NEW p \in Node, Exchange(n, p)
      PROVE  <<m, q>> \notin proved'
  BY <1>0, <1>2, <1>3 DEF Exchange, ReadProof, Accept, Refuse, WriteBack,
                          ReadBack, Finish, Fail
<1>4. ASSUME NEW n \in Node, NEW p \in Node,
             OpenStream(n, p) \/ WaitOver(n, p) \/ StreamDone(n, p)
      PROVE  <<m, q>> \notin proved'
  BY <1>0, <1>4 DEF OpenStream, WaitOver, StreamDone, Served, TypeOK
<1>5. ASSUME NEW c \in Conn, Drop({c}), UNCHANGED proved
      PROVE  <<m, q>> \notin proved'
  BY <1>0, <1>5 DEF Drop, TypeOK
<1>6. ASSUME NEW c \in Conn, NEW n \in Node,
             HangUpStep(n, c) \/ Identify(n, c)
      PROVE  <<m, q>> \notin proved'
  BY <1>0, <1>5, <1>6 DEF HangUpStep, Identify
<1>7. ASSUME NEW c \in Conn, Close(c)
      PROVE  <<m, q>> \notin proved'
  BY <1>5, <1>7 DEF Close
<1>8. ASSUME NEW n \in Node, Restart(n)
      PROVE  <<m, q>> \notin proved'
  BY <1>0, <1>8 DEF Restart, TypeOK
<1>9. CASE UNCHANGED vars
  BY <1>0, <1>9 DEF vars
<1> QED BY <1>1, <1>3, <1>4, <1>6, <1>7, <1>8, <1>9 DEF Next

\* No stream of a gated protocol waits for a proof that has already come.
THEOREM NoWakeUpLost == ASSUME GateAssumption PROVE Spec => []NoSleepingStream
<1>1. ASSUME GateAssumption, Init PROVE NoSleepingStream
  BY <1>1 DEF Init, NoSleepingStream
<1> QED BY <1>1, TypeCorrect, SleepStep, PTL DEF Spec

-----------------------------------------------------------------------------
(***************************************************************************)
(* The calls held back between onConnect and markProved: none is lost.     *)
(***************************************************************************)

\* Noting a proved peer makes the calls held for it that are still of use.
LEMMA MarkProvedNotified ==
    ASSUME GateAssumption, TypeOK, Notified,
           NEW n \in Node, NEW p \in Node, MarkProved(n, p),
           UNCHANGED <<conn, closing, ident>>
    PROVE  Notified'
<1>1. CASE <<n, p>> \in proved
  BY <1>1 DEF MarkProved, Notified, Limited, Other
<1>2. CASE <<n, p>> \notin proved
  <2> DEFINE mine(i) == i[1] = n /\ Other(n, i[2]) = p
  <2>1. /\ proved' = proved \cup {<<n, p>>}
        /\ held' = { h \in held : ~mine(h) }
        /\ told \subseteq told'
    BY <1>2 DEF MarkProved
  <2>2. ASSUME NEW i \in held'
        PROVE  \/ <<i[1], Other(i[1], i[2])>> \notin proved'
               \/ Limited(i[1], Other(i[1], i[2]))
    BY <2>1, <2>2 DEF Notified
  <2>3. ASSUME NEW i \in ident \ (closing \cup held')
        PROVE  \/ <<i[1], Other(i[1], i[2])>> \in told'
               \/ Limited(i[1], Other(i[1], i[2]))
    <3>1. CASE i \notin held BY <2>1, <2>3, <3>1 DEF Notified
    <3>2. CASE i \in held
      <4>1. mine(i) BY <2>1, <2>3, <3>2
      <4>2. i[2] \in conn BY <2>3 DEF Notified
      <4>3. i \in HeldFor(n, p) BY <3>2, <4>1 DEF HeldFor
      <4>4. Limited(n, p) \/ <<n, p>> \in told'
        BY <1>2, <4>2, <4>3 DEF MarkProved
      <4> QED BY <4>1, <4>4
    <3> QED BY <3>1, <3>2
  <2>4. held' \subseteq ident' BY <2>1 DEF Notified
  <2> HIDE DEF mine
  <2> QED BY <2>2, <2>3, <2>4 DEF Notified, Limited, Other
<1> QED BY <1>1, <1>2

\* A closed connection takes its notifications with it, and what the
\* topologies were told of its peer only when it was the last one.
LEMMA DropNotified ==
    ASSUME GateAssumption, TypeOK, Notified, NEW c \in Conn, Drop({c}),
           held' = { h \in held : h[2] # c }, UNCHANGED proved
    PROVE  Notified'
<1>1. /\ conn' = conn \ {c}
      /\ ident' = { i \in ident : i[2] # c }
      /\ closing' = { i \in closing : i[2] # c }
  BY DEF Drop
<1>2. ASSUME NEW i \in ident' \ (closing' \cup held')
      PROVE  \/ <<i[1], Other(i[1], i[2])>> \in told'
             \/ Limited(i[1], Other(i[1], i[2]))
  <2> DEFINE n == i[1]
             p == Other(i[1], i[2])
  <2>1. i \in ident \ (closing \cup held) /\ i[2] # c
    BY <1>1, <1>2
  <2>2. <<n, p>> \in told \/ Limited(n, p) BY <2>1 DEF Notified
  <2>3. i[2] \in Between(n, p)
    BY <2>1 DEF Notified, Between, Other, TypeOK
  <2>4. ~(Between(n, p) \subseteq {c}) BY <2>1, <2>3
  <2>5. <<n, p>> \in told => <<n, p>> \in told'
    BY <2>4 DEF Drop
  <2> QED BY <2>2, <2>5
<1> QED BY <1>1, <1>2 DEF Notified, Limited, Other

\* Every step keeps Notified.
LEMMA NotifiedStep ==
    ASSUME GateAssumption, TypeOK, Notified, [Next]_vars
    PROVE  Notified'
<1> USE GateAssumption DEF net, exchange, topology
<1>1. ASSUME NEW n \in Node, NEW p \in Node,
             Dial(n, p) \/ ProveAgain(n, p) \/ TimeOut(n, p) \/ Reset(n, p)
                \/ OpenStream(n, p) \/ WaitOver(n, p) \/ StreamDone(n, p)
                \/ LetIn(n, p)
      PROVE  Notified'
  BY <1>1 DEF Dial, ProveAgain, TimeOut, Reset, OpenStream, WaitOver,
              StreamDone, LetIn, Notified, Limited, Other
<1>2. ASSUME UNCHANGED <<conn, closing, proved, held, ident, told>>
      PROVE  Notified'
  BY <1>2 DEF Notified, Limited, Other
<1>3. ASSUME NEW n \in Node, NEW p \in Node, Exchange(n, p)
      PROVE  Notified'
  <2>1. CASE Accept(n, p) BY <2>1, MarkProvedNotified DEF Accept
  <2>2. CASE Finish(n, p) BY <1>2, <2>2, MarkProvedNotified DEF Finish
  <2>3. CASE ReadProof(n, p) \/ Refuse(n, p) \/ WriteBack(n, p)
                \/ ReadBack(n, p) \/ Fail(n, p)
    BY <1>2, <2>3 DEF ReadProof, Refuse, WriteBack, ReadBack, Fail
  <2> QED BY <1>3, <2>1, <2>2, <2>3 DEF Exchange
<1>4. ASSUME NEW n \in Node, NEW p \in Node, Remove(n, p)
      PROVE  Notified'
  <2> DEFINE mine(i) == i[1] = n /\ Other(n, i[2]) = p
  <2>1. /\ UNCHANGED <<conn, ident, told>>
        /\ proved' = proved \ {<<n, p>>}
        /\ held' = { h \in held : ~mine(h) }
        /\ closing \subseteq closing'
    BY <1>4 DEF Remove
  <2>2. ASSUME NEW i \in ident, mine(i) PROVE i \in closing'
    <3>1. i[1] \notin Server /\ i[2] \in conn /\ i[1] \in {i[2][1], i[2][2]}
      BY DEF Notified
    <3>2. i[2] \in Between(n, p)
      BY <2>2, <3>1 DEF Between, Other, TypeOK
    <3>3. i = <<i[1], i[2]>> BY DEF TypeOK
    <3>4. i \in {n} \X Between(n, p) BY <2>2, <3>2, <3>3
    <3> QED BY <1>4, <2>2, <3>1, <3>4 DEF Remove, HangUpSet
  <2>3. ASSUME NEW i \in ident' \ (closing' \cup held')
        PROVE  i \in ident \ (closing \cup held)
    BY <2>1, <2>2, <2>3
  <2> HIDE DEF mine
  <2> QED BY <2>1, <2>3 DEF Notified, Limited, Other
<1>5. ASSUME NEW c \in Conn, NEW n \in Node, HangUpStep(n, c)
      PROVE  Notified'
  BY <1>5, DropNotified DEF HangUpStep
<1>6. ASSUME NEW c \in Conn, Close(c) PROVE Notified'
  BY <1>6, DropNotified DEF Close
<1>7. ASSUME NEW c \in Conn, NEW n \in Node, Identify(n, c)
      PROVE  Notified'
  BY <1>7 DEF Identify, Notified, Limited, Other
<1>8. ASSUME NEW n \in Node, Restart(n) PROVE Notified'
  <2>1. ASSUME NEW i \in ident'
        PROVE  /\ i \in ident /\ i[1] # n /\ n \notin {i[2][1], i[2][2]}
               /\ i[2] \in conn'
    BY <1>8, <2>1 DEF Restart, Notified, TypeOK
  <2>2. ASSUME NEW i \in ident', i \notin closing' PROVE i \notin closing
    BY <1>8, <2>1, <2>2 DEF Restart
  <2>3. ASSUME NEW i \in ident', i \notin held' PROVE i \notin held
    BY <1>8, <2>1, <2>3 DEF Restart
  <2>4. ASSUME NEW i \in ident'
        PROVE  <<i[1], Other(i[1], i[2])>> \in told
                  => <<i[1], Other(i[1], i[2])>> \in told'
    BY <1>8, <2>1 DEF Restart, Other
  <2>5. /\ held' \subseteq held \cap ident'
        /\ proved' \subseteq proved
    BY <1>8 DEF Restart, Notified
  <2> QED BY <2>1, <2>2, <2>3, <2>4, <2>5 DEF Notified, Limited, Other
<1>9. CASE UNCHANGED vars
  BY <1>2, <1>9 DEF vars
<1> QED BY <1>1, <1>3, <1>4, <1>5, <1>6, <1>7, <1>8, <1>9 DEF Next

\* Once a peer is proved, the topologies know of every connection with it that
\* is not being hung up: no notification is lost between the two callbacks.
THEOREM NoNotificationLost == ASSUME GateAssumption PROVE Spec => []NoTellLost
<1>1. ASSUME GateAssumption, Init PROVE Notified
  BY <1>1 DEF Init, Notified
<1>2. Notified => NoTellLost
  BY DEF Notified, NoTellLost
<1> QED BY <1>1, <1>2, TypeCorrect, NotifiedStep, PTL DEF Spec
=============================================================================
