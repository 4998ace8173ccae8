--------------------------- MODULE DeviceSync_proofs ---------------------------
(***************************************************************************)
(* Proofs about DeviceSync for any finite set of devices and any number of *)
(* rounds, decisions and restarts.  That nobody who is blocked keeps a     *)
(* connection is proved where the dials that take long are to devices that *)
(* are never removed; sync_dialled.cfg shows what another one does.        *)
(***************************************************************************)
EXTENDS DeviceSync, FiniteSetTheorems, WellFoundedInduction, TLAPS

Finitely == \E n \in Nat : Device \subseteq 0..n
QuickDials == SlowDials \subseteq Device \X (Device \ Removable)

\* Only who is removed now and then has a deleted record.
Records ==
    /\ clock \in Nat /\ recs \in [Device -> [Device -> DeviceRecord]]
    /\ \A d, p \in Device : /\ recs[d][p].changed <= clock
                            /\ recs[d][p].removed => p \in Removable
    /\ since \in [Device -> Nat] /\ \A d \in Device : since[d] <= clock

RoundsOf(d) == { r \in RoundRecord : r.left \subseteq Others(d)
                                     /\ r.removed \subseteq Removable }

\* What a device holds is about others, and it blocks only who was removed;
\* who is closed holds nothing.
Held ==
    /\ mode \in [Device -> {"closed", "on", "left"}]
    /\ known \in [Device -> SUBSET Device]
    /\ blocked \in [Device -> SUBSET Device]
    /\ rounds \in [Device -> SUBSET RoundRecord]
    /\ pending \in [Device -> SUBSET ({"let in", "block", "hang up"}
                                      \X Removable)]
    /\ \A d \in Device :
        /\ known[d] \subseteq Others(d)
        /\ blocked[d] \subseteq Others(d) \cap Removable
        /\ rounds[d] \subseteq RoundsOf(d)
        /\ \A x \in pending[d] : x[2] # d
        /\ mode[d] = "closed" =>
              rounds[d] = {} /\ known[d] = {} /\ pending[d] = {}

\* Connections and dials are of two devices; who dials or is connected is up.
Connected ==
    /\ dialling \subseteq SlowDials
    /\ \A x \in dialling : x[1] # x[2] /\ mode[x[1]] # "closed"
    /\ \A c \in conn : /\ c \subseteq Device /\ Cardinality(c) = 2
                       /\ \A d \in c : mode[d] # "closed"

Typed == Records /\ Held /\ Connected

-----------------------------------------------------------------------------
(* The parts of a step.                                                    *)

\* Two devices are two.
LEMMA Pair == ASSUME NEW d, NEW p, d # p PROVE Cardinality({d, p}) = 2
<1>1. IsFiniteSet({p}) /\ Cardinality({p}) = 1 BY FS_Singleton
<1>2. Cardinality({p} \cup {d}) = Cardinality({p}) + 1
  BY <1>1, FS_AddElement
<1>3. {p} \cup {d} = {d, p} OBVIOUS
<1> QED BY <1>1, <1>2, <1>3

\* Every set of naturals that has an element has a least one.
LEMMA LeastNat ==
    ASSUME NEW T \in SUBSET Nat, T # {}
    PROVE  \E x \in T : \A y \in T : x <= y
<1>1. PICK x \in T : \A y \in T : ~ (<<y, x>> \in OpToRel(<, Nat))
  BY NatLessThanWellFounded, WFMin, Zenon
<1>2. \A y \in T : ~(y < x)
  <2> TAKE y \in T
  <2>1. <<y, x>> \notin OpToRel(<, Nat) BY <1>1
  <2> QED BY <2>1, Zenon DEF OpToRel
<1> QED BY <1>2

\* Every set of naturals up to n that has an element has a greatest one.
LEMMA GreatestNat ==
    ASSUME NEW n \in Nat, NEW T \in SUBSET (0..n), T # {}
    PROVE  \E x \in T : \A y \in T : y <= x
<1> DEFINE U == { n - y : y \in T }
<1>1. U \in SUBSET Nat /\ U # {}
  <2>1. PICK y \in T : TRUE OBVIOUS
  <2>2. n - y \in U BY <2>1
  <2>3. \A z \in T : n - z \in Nat OBVIOUS
  <2>4. U \subseteq Nat BY <2>3
  <2> QED BY <2>2, <2>4
<1> HIDE DEF U
<1>2. PICK u \in U : \A v \in U : u <= v BY <1>1, LeastNat
<1>3. PICK x \in T : u = n - x BY <1>2 DEF U
<1>4. \A y \in T : n - y \in U BY DEF U
<1>5. \A y \in T : n - x <= n - y BY <1>2, <1>3, <1>4
<1> QED BY <1>5

\* A set of devices has its largest.
LEMMA MaxIsIn ==
    ASSUME DeviceSyncAssumption, Finitely, NEW S \in SUBSET Device, S # {}
    PROVE  Max(S) \in S
<1>1. PICK n \in Nat : Device \subseteq 0..n BY DEF Finitely
<1>2. PICK x \in S : \A y \in S : y <= x BY <1>1, GreatestNat
<1>3. \A y \in S : x >= y BY <1>1, <1>2
<1> QED BY <1>2, <1>3 DEF Max

\* A write of a record: a deleted one only of who may be removed.
LEMMA PutDoes ==
    ASSUME Records, NEW d \in Device, NEW p \in Device,
           NEW removed \in BOOLEAN, removed => p \in Removable,
           PutRecord(d, p, removed), UNCHANGED since
    PROVE  Records'
<1> DEFINE r == [removed |-> removed, changed |-> clock + 1,
                 at |-> recs[d][p].at + 1, by |-> d]
<1>1. recs' = [recs EXCEPT ![d] = [recs[d] EXCEPT ![p] = r]]
      /\ clock' = clock + 1
  BY DEF PutRecord
<1>2. recs[d][p] \in DeviceRecord BY DEF Records
<1>3. r \in DeviceRecord /\ r.changed = clock + 1 /\ r.removed = removed
  <2>1. recs[d][p].at \in Nat BY <1>2 DEF DeviceRecord
  <2>2. clock + 1 \in Nat BY DEF Records
  <2> QED BY <2>1, <2>2 DEF DeviceRecord
<1> HIDE DEF r
<1>4. recs' \in [Device -> [Device -> DeviceRecord]]
  BY <1>1, <1>3 DEF Records
<1>5. \A e, q \in Device : recs'[e][q] = IF e = d /\ q = p THEN r
                                         ELSE recs[e][q]
  BY <1>1 DEF Records
<1>6. \A e, q \in Device : recs[e][q].changed \in Nat
  BY DEF Records, DeviceRecord
<1>7. \A e, q \in Device : /\ recs'[e][q].changed <= clock'
                           /\ recs'[e][q].removed => q \in Removable
  BY <1>1, <1>3, <1>5, <1>6 DEF Records
<1> QED BY <1>1, <1>4, <1>7 DEF Records

\* What a round does to the known, the blocked and the rounds of its device:
\* whom it blocks it will hang up on, and the other rounds stay.
LEMMA HandleDoes ==
    ASSUME DeviceSyncAssumption, Finitely, Held, NEW d \in Device,
           NEW round \in RoundsOf(d), Handle(d, round)
    PROVE  /\ known' \in [Device -> SUBSET Device]
           /\ blocked' \in [Device -> SUBSET Device]
           /\ rounds' \in [Device -> SUBSET RoundRecord]
           /\ known'[d] \subseteq Others(d)
           /\ blocked'[d] \subseteq Others(d) \cap Removable
           /\ rounds'[d] \subseteq RoundsOf(d)
           /\ \A e \in Device \ {d} : /\ known'[e] = known[e]
                                      /\ blocked'[e] = blocked[e]
                                      /\ rounds'[e] = rounds[e]
           /\ rounds[d] \ {round} \subseteq rounds'[d]
           /\ \A p \in blocked'[d] \ blocked[d] :
                \E r \in rounds'[d] : p \in r.hangUp
<1> DEFINE fresh == { p \in round.left : p \in round.removed \ blocked[d] }
           next == IF fresh = {} THEN {} ELSE {Max(fresh)}
           part == { p \in round.left : \A q \in next : p >= q }
           live == part \ round.removed
           now == rounds[d] \ {round}
           rest == [round EXCEPT !.left = round.left \ part, !.hangUp = next,
                                 !.first = FALSE]
<1>1. /\ known' = [known EXCEPT ![d] =
              (IF round.first THEN {} ELSE known[d]) \cup live]
      /\ blocked' = [blocked EXCEPT ![d] = (blocked[d] \ live) \cup next]
      /\ rounds' = [rounds EXCEPT ![d] =
              IF next = {} THEN now ELSE now \cup {rest}]
  BY DEF Handle
<1>2. /\ round \in RoundRecord /\ round.left \subseteq Others(d)
      /\ round.removed \subseteq Removable
  BY DEF RoundsOf
<1>3. Others(d) \subseteq Device BY DEF Others
<1>4. next \subseteq fresh
  <2>1. fresh \in SUBSET Device BY <1>2, <1>3
  <2> HIDE DEF fresh
  <2> QED BY <2>1, MaxIsIn
<1>5. /\ fresh \subseteq Others(d) \cap Removable
      /\ live \subseteq Others(d)
  BY <1>2
<1>6. part \subseteq round.left OBVIOUS
<1>7. now \subseteq rounds[d] /\ rounds[d] \ {round} \subseteq now OBVIOUS
<1> HIDE DEF fresh, next, part, live, now
<1>8. rest \in RoundsOf(d) /\ rest.hangUp = next
  <2>1. next \subseteq Device BY <1>3, <1>4, <1>5
  <2>2. round.left \ part \subseteq Device BY <1>2, <1>3
  <2>3. /\ rest \in RoundRecord /\ rest.hangUp = next
        /\ rest.left \subseteq round.left /\ rest.removed = round.removed
    BY <1>2, <2>1, <2>2 DEF RoundRecord
  <2> HIDE DEF rest
  <2> QED BY <1>2, <2>3 DEF RoundsOf
<1>9. RoundsOf(d) \subseteq RoundRecord BY DEF RoundsOf
<1> HIDE DEF rest
<1>10. /\ known'[d] \subseteq Others(d)
       /\ known' \in [Device -> SUBSET Device]
  BY <1>1, <1>3, <1>5 DEF Held
<1>11. /\ blocked'[d] \subseteq Others(d) \cap Removable
       /\ blocked' \in [Device -> SUBSET Device]
       /\ blocked'[d] \ blocked[d] \subseteq next
  <2>1. next \subseteq Others(d) \cap Removable BY <1>4, <1>5
  <2>2. blocked[d] \subseteq Others(d) \cap Removable BY DEF Held
  <2>3. blocked'[d] = (blocked[d] \ live) \cup next BY <1>1 DEF Held
  <2>4. blocked'[d] \in SUBSET Device BY <1>3, <2>1, <2>2, <2>3
  <2>5. blocked' = [blocked EXCEPT ![d] = blocked'[d]] BY <1>1 DEF Held
  <2>6. blocked' \in [Device -> SUBSET Device] BY <2>4, <2>5 DEF Held
  <2> QED BY <2>1, <2>2, <2>3, <2>6
<1>12. /\ rounds'[d] \subseteq RoundsOf(d)
       /\ rounds' \in [Device -> SUBSET RoundRecord]
       /\ now \subseteq rounds'[d]
       /\ next # {} => rest \in rounds'[d]
  <2>1. rounds'[d] = IF next = {} THEN now ELSE now \cup {rest}
    BY <1>1 DEF Held
  <2>2. now \subseteq RoundsOf(d) BY <1>7 DEF Held
  <2>3. rounds'[d] \in SUBSET RoundRecord BY <1>8, <1>9, <2>1, <2>2
  <2>4. rounds' = [rounds EXCEPT ![d] = rounds'[d]] BY <1>1 DEF Held
  <2>5. rounds' \in [Device -> SUBSET RoundRecord] BY <2>3, <2>4 DEF Held
  <2> QED BY <1>8, <2>1, <2>2, <2>5
<1>13. \A e \in Device \ {d} : /\ known'[e] = known[e]
                               /\ blocked'[e] = blocked[e]
                               /\ rounds'[e] = rounds[e]
  BY <1>1 DEF Held
<1> QED BY <1>7, <1>8, <1>10, <1>11, <1>12, <1>13

\* A dial connects two that do not block each other.
LEMMA DialDoes ==
    ASSUME NEW d, NEW peers, NEW open, Dial(d, peers, open)
    PROVE  /\ open \subseteq conn'
           /\ \A c \in conn' \ open : \E p \in peers :
                /\ c = {d, p} /\ p \notin blocked'[d] /\ d \notin blocked[p]
                /\ mode[d] = "on" /\ mode[p] # "closed"
           /\ dialling \subseteq dialling'
           /\ \A x \in dialling' \ dialling :
                /\ x \in SlowDials /\ x[1] = d /\ x[2] \in peers
                /\ mode[d] = "on"
<1> DEFINE to == { p \in peers \ blocked'[d] :
                     mode[d] = "on" /\ {d, p} \notin open }
           slow == { p \in to : <<d, p>> \in SlowDials }
<1>1. /\ dialling' = dialling \cup ({d} \X slow)
      /\ conn' = open \cup
             { {d, p} : p \in { q \in to \ slow : LetsIn(q, d) } }
  BY DEF Dial
<1>2. ASSUME NEW c \in conn' \ open
      PROVE  \E p \in peers :
                /\ c = {d, p} /\ p \notin blocked'[d] /\ d \notin blocked[p]
                /\ mode[d] = "on" /\ mode[p] # "closed"
  <2>1. PICK p \in to \ slow : c = {d, p} /\ LetsIn(p, d) BY <1>1
  <2> QED BY <2>1 DEF LetsIn
<1>3. ASSUME NEW x \in dialling' \ dialling
      PROVE  /\ x \in SlowDials /\ x[1] = d /\ x[2] \in peers
             /\ mode[d] = "on"
  <2>1. PICK p \in slow : x = <<d, p>> BY <1>1
  <2> QED BY <2>1
<1> QED BY <1>1, <1>2, <1>3

\* A round that goes on hangs up on whom it blocked before, and connects only
\* where nobody is blocked.
LEMMA ContinueDoes ==
    ASSUME Held, NEW d \in Device, NEW round, Continue(d, round),
           known'[d] \subseteq Others(d)
    PROVE  /\ \A p \in round.hangUp : {d, p} \in conn' =>
                p \in Others(d) /\ p \notin blocked'[d]
           /\ \A c \in conn' \ conn : \E p \in Others(d) :
                /\ c = {d, p} /\ p \notin blocked'[d] /\ d \notin blocked[p]
                /\ mode[d] = "on" /\ mode[p] # "closed"
           /\ dialling \subseteq dialling'
           /\ \A x \in dialling' \ dialling :
                /\ x \in SlowDials /\ x[1] = d /\ x[2] \in Others(d)
                /\ mode[d] = "on"
<1> DEFINE open == conn \ { {d, p} : p \in round.hangUp }
<1>1. \/ Dial(d, known'[d], open)
      \/ conn' = open /\ UNCHANGED dialling
  BY DEF Continue
<1>2. open \subseteq conn /\ \A p \in round.hangUp : {d, p} \notin open
  OBVIOUS
<1> HIDE DEF open
<1>3. CASE conn' = open /\ UNCHANGED dialling BY <1>2, <1>3
<1>4. CASE Dial(d, known'[d], open)
  <2>1. /\ \A c \in conn' \ open : \E p \in known'[d] :
             /\ c = {d, p} /\ p \notin blocked'[d] /\ d \notin blocked[p]
             /\ mode[d] = "on" /\ mode[p] # "closed"
        /\ dialling \subseteq dialling'
        /\ \A x \in dialling' \ dialling :
             /\ x \in SlowDials /\ x[1] = d /\ x[2] \in known'[d]
             /\ mode[d] = "on"
    BY <1>4, DialDoes
  <2>2. ASSUME NEW p \in round.hangUp, {d, p} \in conn'
        PROVE  p \in Others(d) /\ p \notin blocked'[d]
    <3>1. PICK q \in known'[d] : {d, p} = {d, q} /\ q \notin blocked'[d]
      BY <1>2, <2>1, <2>2
    <3>2. q # d BY DEF Others
    <3>3. p = q BY <3>1, <3>2
    <3> QED BY <3>1, <3>3
  <2> QED BY <1>2, <2>1, <2>2
<1> QED BY <1>1, <1>3, <1>4

\* A round, begun or gone on with, is one of RoundsOf.
LEMMA RoundsDo ==
    ASSUME Records, Held, NEW d \in Device
    PROVE  /\ [left |-> Others(d), removed |-> RemovedIn(recs[d], d),
               hangUp |-> {}, first |-> TRUE] \in RoundsOf(d)
           /\ rounds[d] \subseteq RoundsOf(d)
<1> DEFINE R == RemovedIn(recs[d], d)
<1>1. R \subseteq Removable /\ R \subseteq Device
  BY DEF RemovedIn, Others, Records
<1>2. Others(d) \subseteq Device BY DEF Others
<1> HIDE DEF R
<1>3. [left |-> Others(d), removed |-> R, hangUp |-> {}, first |-> TRUE]
        \in RoundsOf(d)
  BY <1>1, <1>2 DEF RoundsOf, RoundRecord
<1> QED BY <1>3 DEF R, Held

-----------------------------------------------------------------------------
(* Each part of the types is kept.                                         *)

\* Records are deleted only by who removes, and merging takes one of the two.
LEMMA RecordsStep ==
    ASSUME DeviceSyncAssumption, Records, Held, [Next]_vars PROVE Records'
<1>1. CASE UNCHANGED <<recs, clock, since>> BY <1>1 DEF Records
<1>2. ASSUME NEW d \in Device, NEW p \in Device, WriteDevice(d, p),
             UNCHANGED since
      PROVE  Records'
  BY <1>1, <1>2, PutDoes DEF WriteDevice
<1>3. ASSUME NEW d \in Device, RoundStep(d) PROVE Records'
  <2>1. CASE WriteSelf(d) BY <1>2, <2>1 DEF WriteSelf
  <2>2. CASE Round(d)
    <3>1. CASE Leave(d)
      <4>1. since' = [since EXCEPT ![d] = 0] /\ UNCHANGED <<recs, clock>>
        BY <3>1 DEF Leave
      <4> QED BY <4>1 DEF Records
    <3> QED BY <1>1, <2>2, <3>1 DEF Round
  <2>3. CASE GoOn(d) BY <1>1, <2>3 DEF GoOn
  <2> QED BY <1>3, <2>1, <2>2, <2>3 DEF RoundStep
<1>4. ASSUME NEW d \in Device, NEW p \in Device,
             PersonStep(d, p) \/ Dialled(d, p)
      PROVE  Records'
  BY <1>1, <1>4 DEF PersonStep, LetIn, Block, HangUp, Dialled
<1>5. ASSUME NEW d \in Device, NEW e \in Device, Sync(d, e) PROVE Records'
  <2>1. /\ recs' = [recs EXCEPT ![d] = Merged(recs[d], recs[e])]
        /\ UNCHANGED <<clock, since>>
    BY <1>5 DEF Sync
  <2>2. \A p \in Device : Merged(recs[d], recs[e])[p]
                            \in {recs[d][p], recs[e][p]}
    BY DEF Merged
  <2>3. Merged(recs[d], recs[e]) \in [Device -> DeviceRecord]
    BY DEF Merged, Records
  <2> QED BY <2>1, <2>2, <2>3 DEF Records
<1>6. ASSUME NEW d \in Restarting, Close(d) PROVE Records'
  BY <1>1, <1>6 DEF Close
<1>7. ASSUME NEW d \in Restarting, Open(d) PROVE Records'
  <2>1. PICK t \in {0, clock, since[d]} :
          since' = [since EXCEPT ![d] = t] /\ UNCHANGED <<recs, clock>>
    BY <1>7 DEF Open
  <2>2. d \in Device BY DEF DeviceSyncAssumption
  <2> QED BY <2>1, <2>2 DEF Records
<1>8. ASSUME NEW d \in Device, NEW p \in Removable, Decision(d, p)
      PROVE  Records'
  <2>1. p \in Device BY DEF DeviceSyncAssumption
  <2>2. CASE AddDevice(d, p) BY <1>2, <2>1, <2>2 DEF AddDevice, Decide
  <2>3. CASE RemoveDevice(d, p)
    BY <2>1, <2>3, PutDoes DEF RemoveDevice, Decide
  <2> QED BY <1>8, <2>2, <2>3 DEF Decision
<1>9. CASE UNCHANGED vars BY <1>1, <1>9 DEF vars
<1> QED
  BY <1>3, <1>4, <1>5, <1>6, <1>7, <1>8, <1>9 DEF Next, Step, SyncStep

\* What a device holds is about others, and gone when it is closed.
LEMMA HeldStep ==
    ASSUME DeviceSyncAssumption, Finitely, Records, Held, [Next]_vars
    PROVE  Held'
<1> DEFINE Kinds == {"let in", "block", "hang up"}
<1>1. CASE UNCHANGED <<mode, known, blocked, rounds, pending>>
  BY <1>1 DEF Held
<1>2. ASSUME NEW d \in Device, NEW round \in RoundsOf(d),
             Continue(d, round), mode[d] # "closed", UNCHANGED <<mode, pending>>
      PROVE  Held'
  <2>1. /\ known' \in [Device -> SUBSET Device]
        /\ blocked' \in [Device -> SUBSET Device]
        /\ rounds' \in [Device -> SUBSET RoundRecord]
        /\ known'[d] \subseteq Others(d)
        /\ blocked'[d] \subseteq Others(d) \cap Removable
        /\ rounds'[d] \subseteq RoundsOf(d)
        /\ \A e \in Device \ {d} : /\ known'[e] = known[e]
                                   /\ blocked'[e] = blocked[e]
                                   /\ rounds'[e] = rounds[e]
    BY <1>2, HandleDoes DEF Continue
  <2> QED BY <1>2, <2>1 DEF Held
<1>3. ASSUME NEW d \in Device, Round(d) PROVE Held'
  <2>1. CASE Leave(d)
    <3>1. /\ mode' = [mode EXCEPT ![d] = "left"]
          /\ UNCHANGED <<known, blocked, rounds, pending>>
      BY <1>3, <2>1 DEF Leave, Round
    <3> QED BY <3>1 DEF Held
  <2>2. CASE ~Leave(d)
    <3>1. /\ Continue(d, [left |-> Others(d),
                          removed |-> RemovedIn(recs[d], d),
                          hangUp |-> {}, first |-> TRUE])
          /\ mode[d] = "on" /\ UNCHANGED <<mode, pending>>
      BY <1>3, <2>2 DEF Round
    <3> QED BY <1>2, <3>1, RoundsDo
  <2> QED BY <2>1, <2>2
<1>4. ASSUME NEW d \in Device, GoOn(d) PROVE Held'
  <2>1. PICK round \in rounds[d] : Continue(d, round) BY <1>4 DEF GoOn
  <2>2. mode[d] # "closed" /\ round \in RoundsOf(d) BY <2>1 DEF Held
  <2> QED BY <1>2, <1>4, <2>1, <2>2 DEF GoOn
<1>5. ASSUME NEW d \in Device, NEW p \in Device, LetIn(d, p) PROVE Held'
  <2>1. /\ pending' = [pending EXCEPT ![d] = pending[d] \ {<<"let in", p>>}]
        /\ blocked' = [blocked EXCEPT ![d] = blocked[d] \ {p}]
        /\ known' = [known EXCEPT ![d] = known[d] \cup {p}]
        /\ UNCHANGED <<mode, rounds>> /\ <<"let in", p>> \in pending[d]
    BY <1>5 DEF LetIn
  <2>2. p # d /\ mode[d] # "closed"
    <3>1. <<"let in", p>>[2] = p OBVIOUS
    <3>2. \A x \in pending[d] : x[2] # d BY DEF Held
    <3>3. pending[d] # {} => mode[d] # "closed" BY DEF Held
    <3> QED BY <2>1, <3>1, <3>2, <3>3
  <2>3. p \in Others(d) BY <2>2 DEF Others
  <2>4. /\ \A e \in Device : /\ pending'[e] \subseteq pending[e]
                            /\ blocked'[e] \subseteq blocked[e]
        /\ \A e \in Device \ {d} : known'[e] = known[e]
        /\ known'[d] = known[d] \cup {p}
    BY <2>1 DEF Held
  <2>5. /\ known' \in [Device -> SUBSET Device]
        /\ blocked' \in [Device -> SUBSET Device]
        /\ pending' \in [Device -> SUBSET (Kinds \X Removable)]
    BY <2>1 DEF Held
  <2> HIDE DEF Kinds
  <2> QED BY <2>1, <2>2, <2>3, <2>4, <2>5 DEF Held, Kinds
<1>6. ASSUME NEW d \in Device, NEW p \in Device, Block(d, p) PROVE Held'
  <2>1. /\ <<"block", p>> \in pending[d]
        /\ pending' = [pending EXCEPT ![d] = (pending[d] \ {<<"block", p>>})
                                                \cup {<<"hang up", p>>}]
        /\ known' = [known EXCEPT ![d] = known[d] \ {p}]
        /\ blocked' = [blocked EXCEPT ![d] = blocked[d] \cup {p}]
        /\ UNCHANGED <<mode, rounds>>
    BY <1>6 DEF Block
  <2>2. p # d /\ mode[d] # "closed" /\ p \in Removable
    <3>1. pending[d] \subseteq Kinds \X Removable BY DEF Held
    <3>2. <<"block", p>> \in Kinds \X Removable BY <2>1, <3>1
    <3>3. p \in Removable BY <3>2
    <3>4. <<"block", p>>[2] = p OBVIOUS
    <3>5. \A x \in pending[d] : x[2] # d BY DEF Held
    <3>6. pending[d] # {} => mode[d] # "closed" BY DEF Held
    <3> QED BY <2>1, <3>3, <3>4, <3>5, <3>6
  <2>3. p \in Others(d) BY <2>2 DEF Others
  <2>4. <<"hang up", p>> \in Kinds \X Removable BY <2>2
  <2>5. /\ known' \in [Device -> SUBSET Device]
        /\ blocked' \in [Device -> SUBSET Device]
        /\ pending' \in [Device -> SUBSET (Kinds \X Removable)]
    BY <2>1, <2>4 DEF Held
  <2>6. /\ \A e \in Device : known'[e] \subseteq known[e]
        /\ \A e \in Device \ {d} : /\ blocked'[e] = blocked[e]
                                   /\ pending'[e] = pending[e]
        /\ blocked'[d] = blocked[d] \cup {p}
        /\ pending'[d] \subseteq pending[d] \cup {<<"hang up", p>>}
    BY <2>1 DEF Held
  <2>7. \A x \in pending'[d] : x[2] # d
    <3>1. <<"hang up", p>>[2] = p OBVIOUS
    <3>2. \A x \in pending[d] : x[2] # d BY DEF Held
    <3> QED BY <2>2, <2>6, <3>1, <3>2
  <2>8. blocked'[d] \subseteq Others(d) \cap Removable
    BY <2>2, <2>3, <2>6 DEF Held
  <2> QED BY <2>1, <2>2, <2>5, <2>6, <2>7, <2>8 DEF Held
<1>7. ASSUME NEW d \in Device, NEW p \in Device, HangUp(d, p) PROVE Held'
  <2>1. /\ pending' = [pending EXCEPT ![d] = pending[d] \ {<<"hang up", p>>}]
        /\ UNCHANGED <<mode, known, blocked, rounds>>
    BY <1>7 DEF HangUp
  <2> QED BY <2>1 DEF Held
<1>8. ASSUME NEW d \in Restarting, Close(d) PROVE Held'
  <2>1. /\ d \in Device
        /\ mode' = [mode EXCEPT ![d] = "closed"]
        /\ known' = [known EXCEPT ![d] = {}]
        /\ blocked' = [blocked EXCEPT ![d] = {}]
        /\ rounds' = [rounds EXCEPT ![d] = {}]
        /\ pending' = [pending EXCEPT ![d] = {}]
    BY <1>8 DEF Close, DeviceSyncAssumption
  <2> QED BY <2>1 DEF Held
<1>9. ASSUME NEW d \in Restarting, Open(d) PROVE Held'
  <2>1. PICK m \in {"left", "on"} : mode' = [mode EXCEPT ![d] = m]
    BY <1>9 DEF Open
  <2>2. UNCHANGED <<known, blocked, rounds, pending>>
    BY <1>9 DEF Open
  <2> QED BY <2>1, <2>2 DEF Held
<1>10. ASSUME NEW d \in Device, NEW p \in Removable, NEW k \in Kinds,
              Decide(d, <<k, p>>)
       PROVE  Held'
  <2>1. /\ mode[d] = "on" /\ p # d
        /\ pending' = [pending EXCEPT ![d] = pending[d] \cup {<<k, p>>}]
        /\ UNCHANGED <<mode, known, blocked, rounds>>
    BY <1>10 DEF Decide
  <2>2. <<k, p>> \in Kinds \X Removable OBVIOUS
  <2>3. pending' \in [Device -> SUBSET (Kinds \X Removable)]
    BY <2>1, <2>2 DEF Held
  <2>4. /\ \A e \in Device \ {d} : pending'[e] = pending[e]
        /\ pending'[d] = pending[d] \cup {<<k, p>>}
    BY <2>1 DEF Held
  <2>5. \A e \in Device : \A x \in pending'[e] : x[2] # e
    <3>1. <<k, p>>[2] = p OBVIOUS
    <3>2. \A e \in Device : \A x \in pending[e] : x[2] # e BY DEF Held
    <3> QED BY <2>1, <2>4, <3>1, <3>2
  <2> QED BY <2>1, <2>3, <2>4, <2>5 DEF Held
<1>11. ASSUME NEW d \in Device, NEW p \in Removable, Decision(d, p)
       PROVE  Held'
  BY <1>10, <1>11 DEF Decision, AddDevice, RemoveDevice
<1>12. ASSUME NEW d \in Device, NEW p \in Device,
              WriteSelf(d) \/ Sync(d, p) \/ Dialled(d, p)
       PROVE  Held'
  BY <1>1, <1>12 DEF WriteSelf, Sync, Dialled, local
<1>13. CASE UNCHANGED vars BY <1>1, <1>13 DEF vars, local
<1> QED
  BY <1>3, <1>4, <1>5, <1>6, <1>7, <1>8, <1>9, <1>11, <1>12, <1>13
  DEF Next, Step, RoundStep, PersonStep, SyncStep

\* Who dials is up and so is who is connected: a page that is closed takes its
\* dials and connections with it.
LEMMA ConnectedStep ==
    ASSUME DeviceSyncAssumption, Finitely, Records, Held, Connected,
           [Next]_vars
    PROVE  Connected'
<1>1. ASSUME conn' \subseteq conn, dialling' \subseteq dialling,
             \A d \in Device : mode[d] # "closed" => mode'[d] # "closed"
      PROVE  Connected'
  <2>1. \A x \in dialling : x[1] \in Device
    BY DEF Connected, DeviceSyncAssumption
  <2> QED BY <1>1, <2>1 DEF Connected
<1>2. ASSUME NEW d \in Device, mode' = mode,
             \A c \in conn' \ conn : \E p \in Others(d) :
                c = {d, p} /\ mode[d] = "on" /\ mode[p] # "closed",
             \A x \in dialling' \ dialling :
                /\ x \in SlowDials /\ x[1] = d /\ x[2] \in Others(d)
                /\ mode[d] = "on"
      PROVE  Connected'
  <2>1. ASSUME NEW c \in conn' \ conn
        PROVE  /\ c \subseteq Device /\ Cardinality(c) = 2
               /\ \A e \in c : mode[e] # "closed"
    <3>1. PICK p \in Others(d) :
             c = {d, p} /\ mode[d] = "on" /\ mode[p] # "closed"
      BY <1>2
    <3>2. p \in Device /\ p # d BY DEF Others
    <3> QED BY <3>1, <3>2, Pair
  <2>2. ASSUME NEW x \in dialling' \ dialling
        PROVE  x \in SlowDials /\ x[1] # x[2] /\ mode[x[1]] # "closed"
    BY <1>2 DEF Others
  <2> QED BY <1>2, <2>1, <2>2 DEF Connected
<1>3. ASSUME NEW d \in Device, NEW round \in RoundsOf(d),
             Continue(d, round), UNCHANGED mode
      PROVE  Connected'
  <2>1. known'[d] \subseteq Others(d)
    BY <1>3, HandleDoes DEF Continue
  <2>2. /\ \A c \in conn' \ conn : \E p \in Others(d) :
             c = {d, p} /\ mode[d] = "on" /\ mode[p] # "closed"
        /\ \A x \in dialling' \ dialling :
             /\ x \in SlowDials /\ x[1] = d /\ x[2] \in Others(d)
             /\ mode[d] = "on"
    BY <1>3, <2>1, ContinueDoes
  <2> QED BY <1>2, <1>3, <2>2
<1>4. ASSUME NEW d \in Device, Round(d) PROVE Connected'
  <2>1. CASE Leave(d)
    <3>1. /\ conn' \subseteq conn /\ UNCHANGED dialling
          /\ mode' = [mode EXCEPT ![d] = "left"]
      BY <2>1 DEF Leave
    <3>2. \A e \in Device : mode[e] # "closed" => mode'[e] # "closed"
      BY <3>1 DEF Held
    <3> QED BY <1>1, <3>1, <3>2
  <2>2. CASE ~Leave(d)
    <3>1. /\ Continue(d, [left |-> Others(d),
                          removed |-> RemovedIn(recs[d], d),
                          hangUp |-> {}, first |-> TRUE])
          /\ UNCHANGED mode
      BY <1>4, <2>2 DEF Round
    <3> QED BY <1>3, <3>1, RoundsDo
  <2> QED BY <2>1, <2>2
<1>5. ASSUME NEW d \in Device, GoOn(d) PROVE Connected'
  <2>1. PICK round \in rounds[d] : Continue(d, round) BY <1>5 DEF GoOn
  <2> QED BY <1>3, <1>5, <2>1, RoundsDo DEF GoOn
<1>6. ASSUME NEW d \in Device, NEW p \in Device, LetIn(d, p)
      PROVE  Connected'
  <2>1. p # d
    <3>1. <<"let in", p>> \in pending[d] /\ <<"let in", p>>[2] = p
      BY <1>6 DEF LetIn
    <3> QED BY <3>1 DEF Held
  <2>2. /\ \A c \in conn' \ conn : \E q \in {p} :
             c = {d, q} /\ mode[d] = "on" /\ mode[q] # "closed"
        /\ \A x \in dialling' \ dialling :
             x \in SlowDials /\ x[1] = d /\ x[2] \in {p} /\ mode[d] = "on"
    <3>1. Dial(d, {p}, conn) BY <1>6 DEF LetIn
    <3> QED BY <3>1, DialDoes
  <2>3. p \in Others(d) /\ mode' = mode BY <1>6, <2>1 DEF Others, LetIn
  <2> QED BY <1>2, <2>2, <2>3
<1>7. ASSUME NEW d \in Device, NEW p \in Device, Dialled(d, p)
      PROVE  Connected'
  <2>1. /\ <<d, p>> \in dialling /\ dialling' \subseteq dialling
        /\ mode' = mode
        /\ \/ conn' = conn
           \/ conn' = conn \cup {{d, p}} /\ LetsIn(p, d)
    <3>1. conn' = IF LetsIn(p, d) THEN conn \cup {{d, p}} ELSE conn
      BY <1>7 DEF Dialled
    <3>2. UNCHANGED mode /\ <<d, p>> \in dialling
      BY <1>7 DEF Dialled
    <3>3. dialling' \subseteq dialling BY <1>7 DEF Dialled
    <3> QED BY <3>1, <3>2, <3>3
  <2>2. d # p /\ mode[d] # "closed"
    <3>1. <<d, p>>[1] = d /\ <<d, p>>[2] = p OBVIOUS
    <3> QED BY <2>1, <3>1 DEF Connected
  <2>3. CASE conn' = conn BY <1>1, <2>1, <2>3
  <2>4. CASE conn' = conn \cup {{d, p}} /\ LetsIn(p, d)
    <3>1. Cardinality({d, p}) = 2 BY <2>2, Pair
    <3>2. mode[p] # "closed" BY <2>4 DEF LetsIn
    <3> QED BY <2>1, <2>2, <2>4, <3>1, <3>2 DEF Connected
  <2> QED BY <2>1, <2>3, <2>4
<1>8. ASSUME NEW d \in Restarting, Close(d) PROVE Connected'
  <2>1. /\ mode' = [mode EXCEPT ![d] = "closed"]
        /\ conn' = { c \in conn : d \notin c }
        /\ dialling' = { x \in dialling : x[1] # d }
    BY <1>8 DEF Close
  <2>2. \A x \in dialling : x[1] \in Device
    BY DEF Connected, DeviceSyncAssumption
  <2>3. \A e \in Device : e # d => mode'[e] = mode[e] BY <2>1 DEF Held
  <2>4. ASSUME NEW c \in conn', NEW e \in c PROVE mode'[e] # "closed"
    BY <2>1, <2>3 DEF Connected
  <2> QED BY <2>1, <2>2, <2>3, <2>4 DEF Connected
<1>9. ASSUME NEW d \in Restarting, Open(d) PROVE Connected'
  <2>1. UNCHANGED <<conn, dialling>> BY <1>9 DEF Open
  <2>2. PICK m \in {"left", "on"} : mode' = [mode EXCEPT ![d] = m]
    BY <1>9 DEF Open
  <2>3. \A e \in Device : mode[e] # "closed" => mode'[e] # "closed"
    BY <2>2 DEF Held
  <2> QED BY <1>1, <2>1, <2>3
<1>10. ASSUME NEW d \in Device, NEW p \in Device,
              \/ WriteSelf(d) \/ Sync(d, p) \/ Block(d, p) \/ HangUp(d, p)
       PROVE  Connected'
  BY <1>1, <1>10 DEF WriteSelf, Sync, Block, HangUp
<1>11. ASSUME NEW d \in Device, NEW p \in Removable, Decision(d, p)
       PROVE  Connected'
  BY <1>1, <1>11 DEF Decision, AddDevice, RemoveDevice, Decide
<1>12. CASE UNCHANGED vars BY <1>1, <1>12 DEF vars
<1> QED
  BY <1>4, <1>5, <1>6, <1>7, <1>8, <1>9, <1>10, <1>11, <1>12
  DEF Next, Step, RoundStep, PersonStep, SyncStep

-----------------------------------------------------------------------------
(* Nobody who is blocked keeps a connection.                               *)

\* A round hangs up on whom it blocked and only then is it gone; what connects
\* meanwhile does not block each other.
LEMMA HungUpByRounds ==
    ASSUME DeviceSyncAssumption, Finitely, Held, Connected, BlockedIsHungUp,
           NEW d \in Device, NEW round \in RoundsOf(d), Continue(d, round),
           UNCHANGED pending
    PROVE  BlockedIsHungUp'
<1>1. /\ known'[d] \subseteq Others(d)
      /\ blocked'[d] \subseteq Others(d)
      /\ \A e \in Device \ {d} : /\ blocked'[e] = blocked[e]
                                 /\ rounds'[e] = rounds[e]
      /\ rounds[d] \ {round} \subseteq rounds'[d]
      /\ \A p \in blocked'[d] \ blocked[d] :
           \E r \in rounds'[d] : p \in r.hangUp
  BY HandleDoes DEF Continue
<1>2. /\ \A p \in round.hangUp : {d, p} \in conn' => p \notin blocked'[d]
      /\ \A c \in conn' \ conn : \E p \in Others(d) :
           c = {d, p} /\ p \notin blocked'[d] /\ d \notin blocked[p]
  BY <1>1, ContinueDoes
<1> SUFFICES ASSUME NEW e \in Device, NEW q \in blocked'[e], {e, q} \in conn'
             PROVE  HangsUpOn(e, q)'
  BY DEF BlockedIsHungUp
<1>3. CASE e # d
  <2>1. q \in blocked[e] /\ rounds'[e] = rounds[e] BY <1>1, <1>3
  <2>2. {e, q} \in conn
    <3> SUFFICES ASSUME {e, q} \notin conn PROVE FALSE OBVIOUS
    <3>1. PICK p \in Others(d) : {e, q} = {d, p} /\ d \notin blocked[p]
      BY <1>2
    <3>2. q = d /\ e = p BY <1>3, <3>1
    <3> QED BY <2>1, <3>1, <3>2
  <2> QED BY <2>1, <2>2 DEF BlockedIsHungUp, HangsUpOn
<1>4. CASE e = d
  <2>1. q # d /\ q \in blocked'[d] BY <1>1, <1>4 DEF Others
  <2>2. {d, q} \in conn
    <3> SUFFICES ASSUME {d, q} \notin conn PROVE FALSE OBVIOUS
    <3>1. PICK p \in Others(d) : {d, q} = {d, p} /\ p \notin blocked'[d]
      BY <1>2, <1>4
    <3>2. q = p BY <2>1, <3>1
    <3> QED BY <2>1, <3>1, <3>2
  <2>3. CASE q \notin blocked[d]
    <3>1. \E r \in rounds'[d] : q \in r.hangUp BY <1>1, <2>1, <2>3
    <3> QED BY <1>4, <3>1 DEF HangsUpOn
  <2>4. CASE q \in blocked[d]
    <3>1. HangsUpOn(d, q) BY <2>2, <2>4 DEF BlockedIsHungUp
    <3>2. q \notin round.hangUp BY <1>2, <1>4, <2>1
    <3>3. \A r \in rounds[d] : q \in r.hangUp => r \in rounds'[d]
      BY <1>1, <3>2
    <3> QED BY <1>4, <3>1, <3>3 DEF HangsUpOn
  <2> QED BY <2>3, <2>4
<1> QED BY <1>3, <1>4

LEMMA HungUpStep ==
    ASSUME DeviceSyncAssumption, Finitely, QuickDials, Typed,
           BlockedIsHungUp, [Next]_vars
    PROVE  BlockedIsHungUp'
<1> USE DEF Typed
<1>1. ASSUME UNCHANGED <<rounds, pending>>, conn' \subseteq conn,
             \A e \in Device : blocked'[e] \subseteq blocked[e]
      PROVE  BlockedIsHungUp'
  BY <1>1 DEF BlockedIsHungUp, HangsUpOn
<1>2. ASSUME NEW d \in Device, Round(d) PROVE BlockedIsHungUp'
  <2>1. CASE Leave(d) BY <1>1, <1>2, <2>1 DEF Leave, Round
  <2>2. CASE ~Leave(d)
    <3>1. /\ Continue(d, [left |-> Others(d),
                          removed |-> RemovedIn(recs[d], d),
                          hangUp |-> {}, first |-> TRUE])
          /\ UNCHANGED pending
      BY <1>2, <2>2 DEF Round
    <3> QED BY <3>1, RoundsDo, HungUpByRounds
  <2> QED BY <2>1, <2>2
<1>3. ASSUME NEW d \in Device, GoOn(d) PROVE BlockedIsHungUp'
  <2>1. PICK round \in rounds[d] : Continue(d, round) BY <1>3 DEF GoOn
  <2> QED BY <1>3, <2>1, RoundsDo, HungUpByRounds DEF GoOn
<1>4. ASSUME NEW d \in Device, NEW p \in Device, LetIn(d, p)
      PROVE  BlockedIsHungUp'
  <2>1. /\ pending' = [pending EXCEPT ![d] = pending[d] \ {<<"let in", p>>}]
        /\ blocked' = [blocked EXCEPT ![d] = blocked[d] \ {p}]
        /\ UNCHANGED rounds /\ Dial(d, {p}, conn)
    BY <1>4 DEF LetIn
  <2>2. \A c \in conn' \ conn :
          c = {d, p} /\ p \notin blocked'[d] /\ d \notin blocked[p]
    <3>1. \A c \in conn' \ conn : \E q \in {p} :
            c = {d, q} /\ q \notin blocked'[d] /\ d \notin blocked[q]
      <4>1. Dial(d, {p}, conn) BY <2>1
      <4> QED BY <4>1, DialDoes
    <3> QED BY <3>1
  <2>3. /\ \A e \in Device : blocked'[e] \subseteq blocked[e]
        /\ \A e \in Device, q \in Device, k \in {"block", "hang up"} :
             <<k, q>> \in pending[e] => <<k, q>> \in pending'[e]
    BY <2>1 DEF Held
  <2> SUFFICES ASSUME NEW e \in Device, NEW q \in blocked'[e],
                      {e, q} \in conn'
               PROVE  HangsUpOn(e, q)'
    BY DEF BlockedIsHungUp
  <2>4. q \in blocked[e] /\ q \in Device BY <2>3 DEF Held
  <2>5. {e, q} \in conn
    <3> SUFFICES ASSUME {e, q} = {d, p}, p \notin blocked'[d],
                        d \notin blocked[p]
                 PROVE  FALSE
      BY <2>2
    <3> QED BY <2>4
  <2>6. HangsUpOn(e, q) BY <2>4, <2>5 DEF BlockedIsHungUp
  <2> QED BY <2>1, <2>3, <2>4, <2>6 DEF HangsUpOn
<1>5. ASSUME NEW d \in Device, NEW p \in Device, Block(d, p)
      PROVE  BlockedIsHungUp'
  <2>1. /\ pending' = [pending EXCEPT ![d] = (pending[d] \ {<<"block", p>>})
                                                \cup {<<"hang up", p>>}]
        /\ blocked' = [blocked EXCEPT ![d] = blocked[d] \cup {p}]
        /\ UNCHANGED <<rounds, conn>>
    BY <1>5 DEF Block
  <2>2. /\ pending'[d] = (pending[d] \ {<<"block", p>>})
                            \cup {<<"hang up", p>>}
        /\ blocked'[d] = blocked[d] \cup {p}
        /\ \A e \in Device \ {d} : /\ pending'[e] = pending[e]
                                   /\ blocked'[e] = blocked[e]
    BY <2>1 DEF Held
  <2> SUFFICES ASSUME NEW e \in Device, NEW q \in blocked'[e],
                      {e, q} \in conn
               PROVE  HangsUpOn(e, q)'
    BY <2>1 DEF BlockedIsHungUp
  <2>3. CASE e = d /\ q = p BY <2>2, <2>3 DEF HangsUpOn
  <2>4. CASE e # d \/ q # p
    <3>1. q \in blocked[e] BY <2>2, <2>4
    <3>2. HangsUpOn(e, q) BY <3>1 DEF BlockedIsHungUp
    <3>3. \A k \in {"block", "hang up"} :
            <<k, q>> \in pending[e] => <<k, q>> \in pending'[e]
      BY <2>2, <2>4
    <3> QED BY <2>1, <3>2, <3>3 DEF HangsUpOn
  <2> QED BY <2>3, <2>4
<1>6. ASSUME NEW d \in Device, NEW p \in Device, HangUp(d, p)
      PROVE  BlockedIsHungUp'
  <2>1. /\ pending' = [pending EXCEPT ![d] = pending[d] \ {<<"hang up", p>>}]
        /\ conn' = conn \ {{d, p}}
        /\ UNCHANGED <<rounds, blocked>>
    BY <1>6 DEF HangUp
  <2> SUFFICES ASSUME NEW e \in Device, NEW q \in blocked[e],
                      {e, q} \in conn, {e, q} # {d, p}
               PROVE  HangsUpOn(e, q)'
    BY <2>1 DEF BlockedIsHungUp
  <2>2. HangsUpOn(e, q) BY DEF BlockedIsHungUp
  <2>3. \A k \in {"block", "hang up"} :
          <<k, q>> \in pending[e] => <<k, q>> \in pending'[e]
    BY <2>1 DEF Held
  <2> QED BY <2>1, <2>2, <2>3 DEF HangsUpOn
<1>7. ASSUME NEW d \in Device, NEW p \in Device, Dialled(d, p)
      PROVE  BlockedIsHungUp'
  <2>1. /\ UNCHANGED <<rounds, pending, blocked>>
        /\ conn' = IF LetsIn(p, d) THEN conn \cup {{d, p}} ELSE conn
        /\ <<d, p>> \in dialling
    BY <1>7 DEF Dialled, local
  <2>2. p \notin Removable
    <3>1. <<d, p>> \in Device \X (Device \ Removable)
      BY <2>1 DEF Connected, QuickDials
    <3> QED BY <3>1
  <2>3. p \notin blocked[d] BY <2>2 DEF Held
  <2> SUFFICES ASSUME NEW e \in Device, NEW q \in blocked[e],
                      {e, q} \in conn'
               PROVE  HangsUpOn(e, q)
    BY <2>1 DEF BlockedIsHungUp, HangsUpOn
  <2>4. {e, q} \in conn
    <3> SUFFICES ASSUME {e, q} = {d, p}, LetsIn(p, d) PROVE FALSE BY <2>1
    <3>1. d \notin blocked[p] BY DEF LetsIn
    <3> QED BY <2>3, <3>1
  <2> QED BY <2>4 DEF BlockedIsHungUp
<1>8. ASSUME NEW d \in Restarting, Close(d) PROVE BlockedIsHungUp'
  <2>1. /\ conn' = { c \in conn : d \notin c }
        /\ blocked' = [blocked EXCEPT ![d] = {}]
        /\ rounds' = [rounds EXCEPT ![d] = {}]
        /\ pending' = [pending EXCEPT ![d] = {}]
    BY <1>8 DEF Close
  <2> SUFFICES ASSUME NEW e \in Device, NEW q \in blocked'[e],
                      {e, q} \in conn'
               PROVE  HangsUpOn(e, q)'
    BY DEF BlockedIsHungUp
  <2>2. e # d /\ {e, q} \in conn BY <2>1
  <2>3. /\ blocked'[e] = blocked[e] /\ rounds'[e] = rounds[e]
        /\ pending'[e] = pending[e]
    BY <2>1, <2>2 DEF Held
  <2> QED BY <2>2, <2>3 DEF BlockedIsHungUp, HangsUpOn
<1>9. ASSUME NEW d \in Device, NEW p \in Device, NEW k,
             Decide(d, <<k, p>>), UNCHANGED conn
      PROVE  BlockedIsHungUp'
  <2>1. /\ pending' = [pending EXCEPT ![d] = pending[d] \cup {<<k, p>>}]
        /\ UNCHANGED <<rounds, blocked>>
    BY <1>9 DEF Decide
  <2>2. \A e \in Device : pending[e] \subseteq pending'[e]
    BY <2>1 DEF Held
  <2> QED BY <1>9, <2>1, <2>2 DEF BlockedIsHungUp, HangsUpOn
<1>10. ASSUME NEW d \in Device, NEW p \in Removable, Decision(d, p)
       PROVE  BlockedIsHungUp'
  <2>1. p \in Device BY DEF DeviceSyncAssumption
  <2> QED BY <1>9, <1>10, <2>1
    DEF Decision, AddDevice, RemoveDevice, Decide
<1>11. ASSUME NEW d \in Device, NEW p \in Device, WriteSelf(d) \/ Sync(d, p)
       PROVE  BlockedIsHungUp'
  BY <1>1, <1>11 DEF WriteSelf, Sync, local
<1>12. ASSUME NEW d \in Restarting, Open(d) PROVE BlockedIsHungUp'
  BY <1>1, <1>12 DEF Open
<1>13. CASE UNCHANGED vars BY <1>1, <1>13 DEF vars, local
<1> QED
  BY <1>2, <1>3, <1>4, <1>5, <1>6, <1>7, <1>8, <1>10, <1>11, <1>12, <1>13
  DEF Next, Step, RoundStep, PersonStep, SyncStep

-----------------------------------------------------------------------------
(* The theorems.                                                           *)

\* At the beginning all devices are up, connected and block nobody.
LEMMA SyncInit == Init => Typed /\ BlockedIsHungUp
<1> SUFFICES ASSUME Init PROVE Typed /\ BlockedIsHungUp OBVIOUS
<1>1. recs \in [Device -> [Device -> DeviceRecord]] /\ clock = 1
  BY DEF Init, DeviceRecord
<1>2. Records BY <1>1 DEF Init, Records
<1>3. Held
  <2>1. \A d \in Device : Others(d) \subseteq Device BY DEF Others
  <2> QED BY <2>1 DEF Init, Held
<1>4. Connected BY DEF Init, Connected
<1>5. BlockedIsHungUp BY DEF Init, BlockedIsHungUp
<1> QED BY <1>2, <1>3, <1>4, <1>5 DEF Typed

\* State is well formed for any finite set of devices: nobody knows, blocks or
\* dials itself, and a closed page holds no round and no connection.
THEOREM TypeCorrect ==
    ASSUME DeviceSyncAssumption, Finitely PROVE Spec => []TypeOK
<1>1. Typed /\ [Next]_vars => Typed'
  BY RecordsStep, HeldStep, ConnectedStep DEF Typed
<1>2. ASSUME Typed PROVE TypeOK
  <2>1. \A d, p \in Device :
          recs[d][p] \in DeviceRecord /\ recs[d][p].changed <= clock
    BY <1>2 DEF Typed, Records
  <2>2. \A d \in Device :
          pending[d] \subseteq {"let in", "block", "hang up"} \X Others(d)
    <3> SUFFICES ASSUME NEW d \in Device, NEW x \in pending[d]
                 PROVE  x \in {"let in", "block", "hang up"} \X Others(d)
      OBVIOUS
    <3>1. x \in {"let in", "block", "hang up"} \X Removable /\ x[2] # d
      BY <1>2 DEF Typed, Held
    <3>2. x[2] \in Others(d) BY <3>1 DEF DeviceSyncAssumption, Others
    <3> QED BY <3>1, <3>2
  <2>3. \A d \in Device : /\ since[d] <= clock
                          /\ known[d] \cup blocked[d] \subseteq Others(d)
                          /\ rounds[d] \subseteq RoundRecord
                          /\ mode[d] = "closed" =>
                                rounds[d] = {} /\ known[d] = {}
    BY <1>2 DEF Typed, Held, Records
  <2>4. /\ dialling \subseteq Device \X Device
        /\ mode \in [Device -> {"closed", "on", "left"}]
    BY <1>2 DEF Typed, Connected, Held, DeviceSyncAssumption
  <2>5. \A c \in conn : /\ Cardinality(c) = 2
                        /\ \A d \in c : mode[d] # "closed"
    BY <1>2 DEF Typed, Connected
  <2> QED BY <2>1, <2>2, <2>3, <2>4, <2>5 DEF TypeOK
<1> QED BY <1>1, <1>2, SyncInit, PTL DEF Spec

\* However rounds, additions and removals overlap, nobody who is blocked keeps
\* a connection that nothing will close, if what dials slowly dials devices
\* that are not removed.
THEOREM BlockedIsCutOff ==
    ASSUME DeviceSyncAssumption, Finitely, QuickDials
    PROVE  Spec => []BlockedIsHungUp
<1>1. Typed /\ BlockedIsHungUp /\ [Next]_vars => Typed' /\ BlockedIsHungUp'
  BY RecordsStep, HeldStep, ConnectedStep, HungUpStep DEF Typed
<1> QED BY <1>1, SyncInit, PTL DEF Spec
=============================================================================
