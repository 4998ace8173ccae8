--------------------------- MODULE BookMove_proofs ---------------------------
(***************************************************************************)
(* Proofs about BookMove for every set of books and every number of keys,  *)
(* packs and attempts.  All but type correctness assume that none of the   *)
(* old books took others over before (MovedIn = {}): a pack of such books  *)
(* brings a mark of its own, and move_again.cfg shows what comes of it.    *)
(***************************************************************************)
EXTENDS BookMove, FiniteSetTheorems, TLAPS

Writing == {"mark", "read", "records"}

\* The old books, and every pack of them, have their first receipt and no
\* record of other books, and no setting of theirs is the mark.
WellPacked(b, R) ==
    /\ \A r \in R : r.of = b /\ (r.coll = "settings" => r.n \in Keys)
    /\ Rec(b, "receipts", 1) \in R

PacksAreWhole ==
    /\ \A b \in Books : WellPacked(b, old[b])
    /\ \A i \in 1..Len(packs) : WellPacked(packs[i].of, packs[i].records)

\* How far the take-over is, against what it leaves in the books.
Progress ==
    /\ phase \in {"read", "records"} => marker = job
    /\ phase = "records" => /\ rest \subseteq packs[job].records
                            /\ packs[job].records \subseteq here \cup rest
    /\ phase \in {"event", "drop"} => packs[job].records \subseteq here
    /\ phase # "idle" /\ page = "unlocking" => job = kept
    /\ phase = "drop" => page = "unlocking"

\* No record of old books is in without a receipt of theirs: the receipts
\* come first.
ReceiptsFirst ==
    \A r \in here : r.of # Here =>
        \E s \in here : s.coll = "receipts" /\ s.of = r.of

\* While a take-over writes, the books have nothing of another one's.
OneOrigin ==
    phase \in Writing =>
        /\ \A r \in here : r.of \in {Here, packs[job].of}
        /\ Moved \subseteq packs[job].records
        /\ marker # 0 \/ Moved = {}

\* A moved setting is live once it is in.
MovedIsLive ==
    \A r \in here :
        r.coll = "settings" /\ r.n \in Keys /\ r.of # Here
            => r.of \in setting[r.n]

\* Of a key no session wrote too late, one record is live; while records are
\* written, it is the one the take-over read or the one it moved.
OneLive ==
    \A k \in Keys \ late :
        /\ \A x \in setting[k], y \in setting[k] : x = y
        /\ phase = "records" =>
               setting[k] \subseteq {existing[k], packs[job].of}

\* What the history tells of is in.
ToldIsIn == \A i \in told : packs[i].records \subseteq here

IInv ==
    /\ TypeOK /\ PacksAreWhole /\ Progress /\ ReceiptsFirst /\ OneOrigin
    /\ MarkedWhileIncomplete /\ MovedIsLive /\ OneLive
    /\ ToldIsIn

-----------------------------------------------------------------------------
(* Type correctness.                                                       *)

\* What First, collect and Rec give is well typed.
LEMMA RecordType ==
    ASSUME MoveAssumption, NEW o \in Books \cup {Here},
           NEW c \in Collections, NEW n \in 0..Size
    PROVE  Rec(o, c, n) \in Record
BY DEF Rec, Record

\* The names of the collections, and how many there are.
LEMMA CollectionNames ==
    /\ Collections = {"receipts", "settings", "matches", "events"}
    /\ DOMAIN COLLECTIONS = 1..4
BY DEF Collections, COLLECTIONS

\* A pack more leaves the others where they were.
LEMMA AppendPack ==
    ASSUME packs \in Seq(Pack), NEW p \in Pack, packs' = Append(packs, p)
    PROVE  /\ packs' \in Seq(Pack) /\ Len(packs') = Len(packs) + 1
           /\ \A i \in 1..Len(packs) : packs'[i] = packs[i]
           /\ packs'[Len(packs')] = p
           /\ Len(packs) \in Nat
OBVIOUS

\* A pack is of old books, and holds records.
LEMMA PackType ==
    ASSUME TypeOK, NEW i \in 1..Len(packs)
    PROVE  packs[i].of \in Books /\ packs[i].records \subseteq Record
<1>1. packs \in Seq(Pack) BY DEF TypeOK
<1>2. packs[i] \in Pack BY <1>1
<1> QED BY <1>2 DEF Pack

\* A pack of old books is a pack.
LEMMA CollectType ==
    ASSUME TypeOK, NEW b \in Books
    PROVE  collect(b) \in Pack
BY DEF TypeOK, collect, Pack

\* What is put into the old books at first.
LEMMA FirstType ==
    ASSUME MoveAssumption, NEW b \in Books
    PROVE  First(b) \in SUBSET Record
<1>1. 1 \in 0..Size /\ Keys \subseteq 0..Size /\ 0 \in 0..Size
  BY DEF MoveAssumption, Keys
<1>2. "settings" \in Collections BY CollectionNames
<1> QED BY <1>1, <1>2, RecordType DEF First, MOVE_IN_SETTING

\* The first state is well typed.
LEMMA TypeInit == ASSUME MoveAssumption, Init PROVE TypeOK
<1>1. old \in [Books -> SUBSET Record] BY FirstType DEF Init
<1>2. packs \in Seq(Pack) /\ Len(packs) = 0 BY DEF Init
<1>3. existing \in [0..Size -> Books \cup {Here, None}]
  BY DEF Init, NotRead
<1>4. MaxCuts \in Nat BY DEF MoveAssumption
<1> QED BY <1>1, <1>2, <1>3, <1>4 DEF Init, TypeOK

\* Every step keeps the types.
LEMMA TypeStep ==
    ASSUME MoveAssumption, TypeOK, [Next]_vars
    PROVE  TypeOK'
<1> USE MoveAssumption DEF oldVars, jobVars, bookVars
<1>0. Len(packs) \in Nat BY DEF TypeOK
<1>1. ASSUME NEW b \in Books, Grow(b) PROVE TypeOK'
  <2>1. PICK c \in Later, n \in Keys :
          old' = [old EXCEPT ![b] = @ \cup {Rec(b, c, n)}]
    BY <1>1 DEF Grow
  <2>2. Rec(b, c, n) \in Record
    BY RecordType DEF MoveAssumption, Keys
  <2>3. old' \in [Books -> SUBSET Record] BY <2>1, <2>2 DEF TypeOK
  <2> QED BY <1>1, <2>3 DEF Grow, TypeOK
<1>2. ASSUME NEW b \in Books, PackBooks(b) PROVE TypeOK'
  <2>1. /\ packs' \in Seq(Pack) /\ Len(packs') = Len(packs) + 1
    BY <1>2, AppendPack, CollectType DEF PackBooks, TypeOK
  <2> QED BY <1>0, <1>2, <2>1 DEF PackBooks, TypeOK
<1>3. ASSUME NEW b \in Books, RenewBooksKeys(b) PROVE TypeOK'
  <2>1. /\ packs' \in Seq(Pack) /\ Len(packs') = Len(packs) + 1
    BY <1>3, AppendPack, CollectType DEF RenewBooksKeys, TypeOK
  <2> QED BY <1>0, <1>3, <2>1 DEF RenewBooksKeys, TypeOK
<1>4. CASE TakeOverAfterNewKeys
  BY <1>0, <1>4 DEF TakeOverAfterNewKeys, TakeOver, TypeOK
<1>5. CASE PickFile
  BY <1>0, <1>5 DEF PickFile, TakeOver, TypeOK
<1>6. CASE Mark BY <1>6 DEF Mark, TypeOK
<1>7. CASE ReadSettings
  <2>1. job \in 1..Len(packs) BY <1>0, <1>7 DEF ReadSettings, TypeOK
  <2>2. packs[job].records \in SUBSET Record BY <2>1, PackType
  <2> QED BY <1>7, <2>2 DEF ReadSettings, TypeOK
<1>8. CASE RemoveMark BY <1>0, <1>8 DEF RemoveMark, TypeOK
<1>9. CASE RecordEvent
  <2>1. job \in 1..Len(packs) BY <1>0, <1>9 DEF RecordEvent, TypeOK
  <2>2. NotRead \in [0..Size -> Books \cup {Here, None}] BY DEF NotRead
  <2>3. told' \subseteq 1..Len(packs)
    BY <1>9, <2>1 DEF RecordEvent, TypeOK
  <2> QED BY <1>0, <1>9, <2>1, <2>2, <2>3 DEF RecordEvent, Over, TypeOK
<1>10. NotRead \in [0..Size -> Books \cup {Here, None}] BY DEF NotRead
<1>11. CASE DropRekeyFile
  BY <1>0, <1>10, <1>11 DEF DropRekeyFile, Over, TypeOK
<1>12. ASSUME NEW r \in rest, DropLocal(r) PROVE TypeOK'
  <2>1. r \in Record BY DEF TypeOK
  <2>2. existing' \in [0..Size -> Books \cup {Here, None}]
    BY <1>12 DEF DropLocal, TypeOK
  <2>3. setting' \in [Keys -> SUBSET (Books \cup {Here})]
    BY <1>12 DEF DropLocal, TypeOK
  <2>4. marker' \in {0, marker} BY <1>12 DEF DropLocal
  <2> QED BY <1>0, <1>12, <2>2, <2>3, <2>4 DEF DropLocal, TypeOK
<1>13. ASSUME NEW r \in rest, Restore(r) PROVE TypeOK'
  <2>1. r \in Record /\ r.of \in Books \cup {Here}
    BY DEF TypeOK, Record
  <2>2. setting' \in [Keys -> SUBSET (Books \cup {Here})]
    BY <1>13, <2>1 DEF Restore, TypeOK
  <2> QED BY <1>13, <2>1, <2>2 DEF Restore, TypeOK
<1>14. CASE Fail BY <1>0, <1>10, <1>14 DEF Fail, Over, TypeOK
<1>15. CASE Crash BY <1>0, <1>10, <1>15 DEF Crash, Over, TypeOK
<1>16. CASE Leave \/ Unlock \/ Opened
  BY <1>16 DEF Leave, Unlock, Opened, TypeOK
<1>17. ASSUME NEW c \in Meanwhile \ {"settings"}, WriteRecord(c)
       PROVE  TypeOK'
  <2>1. Rec(Here, c, 1) \in Record BY RecordType DEF MoveAssumption
  <2> QED BY <1>17, <2>1 DEF WriteRecord, TypeOK
<1>18. ASSUME NEW k \in Keys, WriteSetting(k) PROVE TypeOK'
  <2>1. setting' \in [Keys -> SUBSET (Books \cup {Here})]
    BY <1>18 DEF WriteSetting, TypeOK
  <2>2. late' \subseteq Keys BY <1>18 DEF WriteSetting, TypeOK
  <2> QED BY <1>18, <2>1, <2>2 DEF WriteSetting, TypeOK
<1>19. CASE UNCHANGED vars BY <1>19 DEF vars, TypeOK
<1> QED
  BY <1>1, <1>2, <1>3, <1>4, <1>5, <1>6, <1>7, <1>8, <1>9, <1>11, <1>12,
     <1>13, <1>14, <1>15, <1>16, <1>17, <1>18, <1>19
  DEF Next, MoveAssumption

\* Every variable keeps its type, nothing is written into books that are not
\* open, and the mark and the pack in the browser are of a packed file.
THEOREM TypeCorrect == ASSUME MoveAssumption PROVE Spec => []TypeOK
BY TypeInit, TypeStep, PTL DEF Spec

-----------------------------------------------------------------------------
(* What the old books and their packs are, at every step.                  *)

\* A pack that was made stays as it is.
LEMMA PacksStay ==
    ASSUME MoveAssumption, TypeOK, [Next]_vars
    PROVE  \A i \in 1..Len(packs) :
               i \in 1..Len(packs') /\ packs'[i] = packs[i]
<1> USE MoveAssumption DEF oldVars
<1>1. ASSUME NEW p \in Pack, packs' = Append(packs, p)
      PROVE  \A i \in 1..Len(packs) :
                 i \in 1..Len(packs') /\ packs'[i] = packs[i]
  BY <1>1, AppendPack DEF TypeOK
<1>2. ASSUME NEW b \in Books, PackBooks(b) \/ RenewBooksKeys(b)
      PROVE  \E p \in Pack : packs' = Append(packs, p)
  BY <1>2, CollectType DEF PackBooks, RenewBooksKeys
<1>3. CASE UNCHANGED packs BY <1>3 DEF TypeOK
<1> QED
  BY <1>1, <1>2, <1>3
  DEF Next, vars, Grow, TakeOverAfterNewKeys, PickFile, TakeOver, Mark,
      ReadSettings, RemoveMark, RecordEvent, DropRekeyFile, DropLocal,
      Restore, Fail, Crash, Leave, Unlock, Opened, WriteRecord, WriteSetting,
      MoveAssumption

\* The old books have a first receipt before any of them is packed.
LEMMA WholeInit ==
    ASSUME MoveAssumption, MovedIn = {}, Init PROVE PacksAreWhole
<1>1. ASSUME NEW b \in Books PROVE WellPacked(b, First(b))
  BY <1>1, CollectionNames DEF WellPacked, First, Rec, MoveAssumption
<1> QED BY <1>1 DEF Init, PacksAreWhole

\* What is packed is of the books it is packed from, with their receipts.
LEMMA CollectWhole ==
    ASSUME PacksAreWhole, NEW b \in Books
    PROVE  WellPacked(b, collect(b).records) /\ collect(b).of = b
BY DEF PacksAreWhole, WellPacked, collect, leftOut, Rec

\* The old books keep their first receipt, and packing copies all they have.
LEMMA WholeStep ==
    ASSUME MoveAssumption, TypeOK, PacksAreWhole, [Next]_vars
    PROVE  PacksAreWhole'
<1> USE MoveAssumption DEF oldVars
<1>1. ASSUME NEW b \in Books, Grow(b) PROVE PacksAreWhole'
  <2>1. PICK c \in Later, n \in Keys :
          old' = [old EXCEPT ![b] = @ \cup {Rec(b, c, n)}]
    BY <1>1 DEF Grow
  <2>2. Rec(b, c, n).of = b /\ Rec(b, c, n).coll # "settings"
    BY DEF Rec, MoveAssumption
  <2>3. ASSUME NEW a \in Books PROVE WellPacked(a, old'[a])
    BY <2>1, <2>2 DEF TypeOK, PacksAreWhole, WellPacked
  <2> QED BY <1>1, <2>3 DEF Grow, PacksAreWhole
<1>2. ASSUME NEW b \in Books, old' = old, packs' = Append(packs, collect(b))
      PROVE  PacksAreWhole'
  <2>1. /\ Len(packs') = Len(packs) + 1 /\ Len(packs) \in Nat
        /\ \A i \in 1..Len(packs) : packs'[i] = packs[i]
        /\ packs'[Len(packs')] = collect(b)
    BY <1>2, AppendPack, CollectType DEF TypeOK
  <2>2. ASSUME NEW i \in 1..Len(packs')
        PROVE  WellPacked(packs'[i].of, packs'[i].records)
    <3>1. CASE i = Len(packs') BY <2>1, <3>1, CollectWhole
    <3>2. CASE i # Len(packs')
      <4>1. i \in 1..Len(packs) BY <2>1, <3>2
      <4> QED BY <2>1, <4>1 DEF PacksAreWhole
    <3> QED BY <3>1, <3>2
  <2> QED BY <1>2, <2>2 DEF PacksAreWhole
<1>3. CASE UNCHANGED oldVars BY <1>3 DEF PacksAreWhole
<1> QED
  BY <1>1, <1>2, <1>3
  DEF Next, vars, PackBooks, RenewBooksKeys, TakeOverAfterNewKeys, PickFile,
      TakeOver, Mark, ReadSettings, RemoveMark, RecordEvent, DropRekeyFile,
      DropLocal, Restore, Fail, Crash, Leave, Unlock, Opened, WriteRecord,
      WriteSetting, MoveAssumption

-----------------------------------------------------------------------------
(* How far a take-over is.                                                 *)

\* What is written of a pack is the packed books' own, and never the mark.
LEMMA WrittenIsPacked ==
    ASSUME TypeOK, PacksAreWhole, Progress, phase = "records", NEW r \in rest
    PROVE  /\ job \in 1..Len(packs) /\ r \in packs[job].records
           /\ r \in Record /\ r.of = packs[job].of /\ r.of \in Books
           /\ r.coll = "settings" => r.n \in Keys
<1>1. job \in 1..Len(packs) BY DEF TypeOK
<1> QED BY <1>1, PackType DEF Progress, PacksAreWhole, WellPacked, TypeOK

\* How far the take-over is agrees with the mark and with what is in.
LEMMA ProgressStep ==
    ASSUME MoveAssumption, TypeOK, PacksAreWhole, Progress, [Next]_vars
    PROVE  Progress'
<1> USE MoveAssumption DEF oldVars, jobVars, bookVars
<1>0. /\ Len(packs) \in Nat
      /\ \A i \in 1..Len(packs) : packs'[i] = packs[i]
      /\ phase # "idle" => job \in 1..Len(packs)
  BY PacksStay DEF TypeOK
<1>1. ASSUME UNCHANGED <<job, phase, marker, rest>>, here \subseteq here',
             page' = page, phase # "idle" => kept' = kept \/ page = "ready"
      PROVE  Progress'
  BY <1>0, <1>1 DEF Progress, TypeOK
<1>2. ASSUME NEW b \in Books, Grow(b) \/ PackBooks(b) \/ RenewBooksKeys(b)
      PROVE  Progress'
  BY <1>0, <1>2 DEF Grow, PackBooks, RenewBooksKeys, Progress, TypeOK
<1>3. CASE TakeOverAfterNewKeys
  BY <1>0, <1>3 DEF TakeOverAfterNewKeys, TakeOver, Again, Progress
<1>4. CASE PickFile
  BY <1>0, <1>4 DEF PickFile, TakeOver, Again, Progress
<1>5. CASE Mark BY <1>0, <1>5 DEF Mark, Progress
<1>6. CASE ReadSettings BY <1>0, <1>6 DEF ReadSettings, Progress
<1>7. CASE RemoveMark BY <1>0, <1>7 DEF RemoveMark, Progress
<1>8. CASE RecordEvent BY <1>0, <1>8 DEF RecordEvent, Over, Progress
<1>9. CASE DropRekeyFile \/ Fail \/ Crash
  BY <1>9 DEF DropRekeyFile, Fail, Crash, Progress
<1>10. ASSUME NEW r \in rest, DropLocal(r) PROVE Progress'
  <2>1. r.n # MOVE_IN_SETTING
    BY <1>10, WrittenIsPacked DEF DropLocal, Turn, Local, Keys,
       MOVE_IN_SETTING
  <2> QED BY <1>0, <1>10, <2>1 DEF DropLocal, Progress
<1>11. ASSUME NEW r \in rest, Restore(r) PROVE Progress'
  BY <1>0, <1>11 DEF Restore, Turn, Progress
<1>12. CASE Leave \/ Unlock \/ Opened
  BY <1>0, <1>12 DEF Leave, Unlock, Opened, Progress, TypeOK
<1>13. ASSUME NEW c \in Meanwhile, WriteRecord(c) PROVE Progress'
  BY <1>1, <1>13 DEF WriteRecord
<1>14. ASSUME NEW k \in Keys, WriteSetting(k) PROVE Progress'
  BY <1>1, <1>14 DEF WriteSetting
<1>15. CASE UNCHANGED vars BY <1>1, <1>15 DEF vars
<1> QED
  BY <1>2, <1>3, <1>4, <1>5, <1>6, <1>7, <1>8, <1>9, <1>10, <1>11, <1>12,
     <1>13, <1>14, <1>15
  DEF Next, MoveAssumption

-----------------------------------------------------------------------------
(* What is in the new books.                                               *)

\* The receipts come first in the order of COLLECTIONS.
LEMMA RankReceipts ==
    /\ Rank("receipts") = 1
    /\ \A c \in Collections \ {"receipts"} : Rank(c) \in Int /\ Rank(c) > 1
<1>1. ASSUME NEW c \in Collections
      PROVE  Rank(c) \in 1..4 /\ COLLECTIONS[Rank(c)] = c
  <2>1. \E i \in DOMAIN COLLECTIONS : COLLECTIONS[i] = c BY DEF Collections
  <2>2. /\ (CHOOSE i \in DOMAIN COLLECTIONS : COLLECTIONS[i] = c)
               \in DOMAIN COLLECTIONS
        /\ COLLECTIONS[CHOOSE i \in DOMAIN COLLECTIONS : COLLECTIONS[i] = c]
               = c
    BY <2>1
  <2>3. /\ Rank(c) \in DOMAIN COLLECTIONS /\ COLLECTIONS[Rank(c)] = c
    BY <2>2 DEF Rank
  <2> QED BY <2>3, CollectionNames
<1>2. COLLECTIONS[1] = "receipts" /\ COLLECTIONS[2] # "receipts"
      /\ COLLECTIONS[3] # "receipts" /\ COLLECTIONS[4] # "receipts"
  BY DEF COLLECTIONS
<1>3. "receipts" \in Collections BY CollectionNames
<1> QED BY <1>1, <1>2, <1>3

\* A restored record finds a receipt of its books in, or is one.
LEMMA ReceiptFirst ==
    ASSUME TypeOK, PacksAreWhole, Progress, NEW r \in rest, Restore(r)
    PROVE  \E s \in here' : s.coll = "receipts" /\ s.of = r.of
<1>1. phase = "records" BY DEF Restore, Turn
<1>2. /\ job \in 1..Len(packs) /\ r \in Record /\ r.of = packs[job].of
  BY <1>1, WrittenIsPacked
<1> DEFINE first == Rec(r.of, "receipts", 1)
<1>3. first \in packs[job].records
  BY <1>2 DEF PacksAreWhole, WellPacked
<1>4. first \in here \cup rest BY <1>1, <1>3 DEF Progress
<1>5. first.coll = "receipts" /\ first.of = r.of BY DEF Rec
<1>6. CASE first \in here BY <1>5, <1>6 DEF Restore
<1>7. CASE first \in rest
  <2>1. Rank(r.coll) =< 1 BY <1>5, <1>7, RankReceipts DEF Restore, Turn
  <2>2. r.coll \in Collections BY <1>2 DEF Record
  <2>3. r.coll = "receipts" BY <2>1, <2>2, RankReceipts
  <2> QED BY <2>3 DEF Restore
<1> QED BY <1>4, <1>6, <1>7

\* The first record a take-over writes is a receipt.
LEMMA ReceiptsFirstStep ==
    ASSUME MoveAssumption, TypeOK, PacksAreWhole, Progress, ReceiptsFirst,
           [Next]_vars
    PROVE  ReceiptsFirst'
<1>1. CASE UNCHANGED here BY <1>1 DEF ReceiptsFirst
<1>2. ASSUME NEW r \in rest, Restore(r) PROVE ReceiptsFirst'
  <2>1. here' = here \cup {r} BY <1>2 DEF Restore
  <2> QED BY <1>2, <2>1, ReceiptFirst DEF ReceiptsFirst
<1>3. ASSUME NEW c \in Meanwhile, WriteRecord(c) PROVE ReceiptsFirst'
  BY <1>3 DEF WriteRecord, ReceiptsFirst, Rec
<1> QED
  BY <1>1, <1>2, <1>3
  DEF Next, vars, oldVars, bookVars, Grow, PackBooks, RenewBooksKeys,
      TakeOverAfterNewKeys, PickFile, TakeOver, Mark, ReadSettings,
      RemoveMark, RecordEvent, DropRekeyFile, DropLocal, Fail, Crash, Leave,
      Unlock, Opened, WriteSetting

\* Books that accept a file have nothing of any other one.
LEMMA AcceptedIsOne ==
    ASSUME MoveAssumption, TypeOK, PacksAreWhole, ReceiptsFirst,
           NEW i \in 1..Len(packs), Accepts(i)
    PROVE  /\ \A r \in here : r.of \in {Here, packs[i].of}
           /\ Moved \subseteq packs[i].records
           /\ marker # 0 \/ Moved = {}
<1>1. ASSUME NEW r \in here, r.of # Here PROVE r.of = packs[i].of
  <2>1. PICK s \in here : s.coll = "receipts" /\ s.of = r.of
    BY <1>1 DEF ReceiptsFirst
  <2>2. s \in Filled BY <2>1 DEF Filled, MUST_BE_EMPTY
  <2>3. s \in packs[i].records
    BY <2>2 DEF Accepts, Again, onlyFrom, isEmptyBooks
  <2> QED BY <2>1, <2>3 DEF PacksAreWhole, WellPacked
<1> QED
  BY <1>1 DEF Accepts, Again, onlyFrom, isEmptyBooks, Moved

\* A take-over that writes finds the records of no other old books.
LEMMA OneOriginStep ==
    ASSUME MoveAssumption, TypeOK, PacksAreWhole, Progress, ReceiptsFirst,
           OneOrigin, [Next]_vars
    PROVE  OneOrigin'
<1> USE MoveAssumption DEF oldVars, jobVars, bookVars
<1>0. /\ \A i \in 1..Len(packs) : packs'[i] = packs[i]
      /\ phase # "idle" => job \in 1..Len(packs)
  BY PacksStay DEF TypeOK
<1>1. ASSUME UNCHANGED <<job, phase, marker, here>> PROVE OneOrigin'
  BY <1>0, <1>1 DEF OneOrigin, Moved, Filled, Writing
<1>2. ASSUME phase' \notin Writing PROVE OneOrigin'
  BY <1>2 DEF OneOrigin
<1>3. ASSUME NEW i \in 1..Len(packs), TakeOver(i) PROVE OneOrigin'
  <2>1. UNCHANGED <<here, marker, packs>> /\ job' = i /\ Accepts(i)
    BY <1>3 DEF TakeOver
  <2>2. /\ \A r \in here : r.of \in {Here, packs[i].of}
        /\ Moved \subseteq packs[i].records
        /\ marker # 0 \/ Moved = {}
    BY <2>1, AcceptedIsOne
  <2> QED BY <2>1, <2>2 DEF OneOrigin, Moved, Filled
<1>4. CASE TakeOverAfterNewKeys \/ PickFile
  BY <1>3, <1>4 DEF TakeOverAfterNewKeys, PickFile, TypeOK
<1>5. CASE Mark
  BY <1>0, <1>5 DEF Mark, OneOrigin, Moved, Filled, Writing, TypeOK
<1>6. CASE ReadSettings
  BY <1>0, <1>6 DEF ReadSettings, OneOrigin, Moved, Filled, Writing
<1>7. CASE RemoveMark \/ RecordEvent \/ DropRekeyFile \/ Fail \/ Crash
  BY <1>2, <1>7 DEF RemoveMark, RecordEvent, DropRekeyFile, Fail, Crash,
                    Writing, Over
<1>8. ASSUME NEW r \in rest, DropLocal(r) PROVE OneOrigin'
  <2>1. r.n # MOVE_IN_SETTING
    BY <1>8, WrittenIsPacked DEF DropLocal, Turn, Local, Keys,
       MOVE_IN_SETTING
  <2> QED BY <1>1, <1>8, <2>1 DEF DropLocal
<1>9. ASSUME NEW r \in rest, Restore(r) PROVE OneOrigin'
  <2>1. /\ job \in 1..Len(packs) /\ r \in packs[job].records
        /\ r.of = packs[job].of /\ phase = "records"
    BY <1>9, WrittenIsPacked DEF Restore, Turn
  <2>2. here' = here \cup {r} /\ UNCHANGED <<job, phase, marker, packs>>
    BY <1>9 DEF Restore
  <2>3. marker # 0 BY <2>1 DEF Progress
  <2> QED BY <2>1, <2>2, <2>3 DEF OneOrigin, Moved, Filled, Writing
<1>10. ASSUME NEW c \in Meanwhile, WriteRecord(c) PROVE OneOrigin'
  <2>1. here' = here \cup {Rec(Here, c, 1)}
        /\ UNCHANGED <<job, phase, marker, packs>>
    BY <1>10 DEF WriteRecord
  <2>2. Rec(Here, c, 1).of = Here BY DEF Rec
  <2> QED BY <2>1, <2>2 DEF OneOrigin, Moved, Filled
<1>11. CASE Leave \/ Unlock \/ Opened \/ UNCHANGED vars
  BY <1>1, <1>11 DEF Leave, Unlock, Opened, vars
<1>12. ASSUME NEW b \in Books, Grow(b) \/ PackBooks(b) \/ RenewBooksKeys(b)
       PROVE  OneOrigin'
  BY <1>1, <1>12 DEF Grow, PackBooks, RenewBooksKeys
<1>13. ASSUME NEW k \in Keys, WriteSetting(k) PROVE OneOrigin'
  BY <1>1, <1>13 DEF WriteSetting
<1> QED
  BY <1>4, <1>5, <1>6, <1>7, <1>8, <1>9, <1>10, <1>11, <1>12, <1>13
  DEF Next, MoveAssumption

\* A take-over writes one record at a time, everything else of the new books
\* is the session's own: what that leaves of the records and the mark.
LEMMA BooksStep ==
    ASSUME MoveAssumption, TypeOK, PacksAreWhole, Progress, [Next]_vars
    PROVE  \/ UNCHANGED <<here, marker>>
           \/ here' = here /\ marker' = job /\ job # 0
           \/ here' = here /\ marker' = 0 /\ phase = "records" /\ rest = {}
           \/ /\ marker' = marker /\ marker # 0 /\ phase = "records"
              /\ \E r \in rest : here' = here \cup {r} /\ r.of = packs[job].of
           \/ /\ marker' = marker
              /\ \E r : here' = here \cup {r} /\ r.of = Here
<1> USE DEF oldVars, bookVars
<1>1. CASE Mark BY <1>1 DEF Mark, TypeOK
<1>2. CASE RemoveMark BY <1>2 DEF RemoveMark
<1>3. ASSUME NEW r \in rest, DropLocal(r) PROVE UNCHANGED <<here, marker>>
  <2>1. r.n # MOVE_IN_SETTING
    BY <1>3, WrittenIsPacked DEF DropLocal, Turn, Local, Keys,
       MOVE_IN_SETTING
  <2> QED BY <1>3, <2>1 DEF DropLocal
<1>4. ASSUME NEW r \in rest, Restore(r)
      PROVE  /\ marker' = marker /\ marker # 0 /\ phase = "records"
             /\ here' = here \cup {r} /\ r.of = packs[job].of
  BY <1>4, WrittenIsPacked DEF Restore, Turn, Progress
<1>5. ASSUME NEW c \in Meanwhile, WriteRecord(c)
      PROVE  /\ marker' = marker
             /\ \E r : here' = here \cup {r} /\ r.of = Here
  BY <1>5 DEF WriteRecord, Rec
<1> QED
  BY <1>1, <1>2, <1>3, <1>4, <1>5
  DEF Next, vars, Grow, PackBooks, RenewBooksKeys, TakeOverAfterNewKeys,
      PickFile, TakeOver, ReadSettings, RecordEvent, DropRekeyFile, Fail,
      Crash, Leave, Unlock, Opened, WriteSetting

\* The mark is gone only when all of the marked pack is in.
LEMMA MarkedStep ==
    ASSUME MoveAssumption, TypeOK, PacksAreWhole, Progress, OneOrigin,
           MarkedWhileIncomplete, [Next]_vars
    PROVE  MarkedWhileIncomplete'
<1> SUFFICES ASSUME NEW b \in Books, NEW s \in here', s.of = b, marker' = 0
             PROVE  \E i \in 1..Len(packs') :
                        packs'[i].of = b /\ packs'[i].records \subseteq here'
  BY DEF MarkedWhileIncomplete
<1>1. /\ \A i \in 1..Len(packs) :
             i \in 1..Len(packs') /\ packs'[i] = packs[i]
      /\ b # Here
  BY PacksStay DEF MoveAssumption
<1>2. CASE here \subseteq here' /\ marker = 0 /\ s \in here
  <2>1. PICK i \in 1..Len(packs) : /\ packs[i].of = b
                                   /\ packs[i].records \subseteq here
    BY <1>2 DEF MarkedWhileIncomplete
  <2> QED BY <1>1, <1>2, <2>1
<1>3. CASE here' = here /\ phase = "records" /\ rest = {}
  <2>1. job \in 1..Len(packs) BY <1>3 DEF TypeOK
  <2>2. packs[job].records \subseteq here BY <1>3 DEF Progress
  <2>3. packs[job].of = b BY <1>1, <1>3 DEF OneOrigin, Writing
  <2> QED BY <1>1, <1>3, <2>1, <2>2, <2>3
<1> QED BY <1>1, <1>2, <1>3, BooksStep

\* A moved setting stays live: nothing that writes settings drops it.
LEMMA LiveStep ==
    ASSUME MoveAssumption, TypeOK, PacksAreWhole, Progress, OneOrigin,
           MovedIsLive, [Next]_vars
    PROVE  MovedIsLive'
<1> USE DEF oldVars, bookVars
<1>1. CASE UNCHANGED <<here, setting>> BY <1>1 DEF MovedIsLive
<1>2. ASSUME NEW r \in rest, DropLocal(r) PROVE MovedIsLive'
  <2>1. /\ phase = "records" /\ Local(r) /\ here' = here
        /\ r \in Record /\ r.of = packs[job].of
        /\ r.coll = "settings" => r.n \in Keys
    BY <1>2, WrittenIsPacked DEF DropLocal, Turn
  <2>2. ASSUME NEW s \in here, s.of # Here, s.n = r.n
        PROVE  s.of # existing[r.n]
    BY <2>1, <2>2 DEF OneOrigin, Writing, Local
  <2>3. r.n \in Keys /\ r.n # MOVE_IN_SETTING
    BY <2>1 DEF Local, Keys, MOVE_IN_SETTING
  <2>4. setting' = [setting EXCEPT ![r.n] = @ \ {existing[r.n]}]
    BY <1>2, <2>3 DEF DropLocal
  <2> QED BY <2>1, <2>2, <2>3, <2>4 DEF MovedIsLive, TypeOK
<1>3. ASSUME NEW r \in rest, Restore(r) PROVE MovedIsLive'
  BY <1>3 DEF Restore, MovedIsLive, TypeOK
<1>4. ASSUME NEW c \in Meanwhile, WriteRecord(c) PROVE MovedIsLive'
  BY <1>4 DEF WriteRecord, MovedIsLive, Rec
<1>5. ASSUME NEW k \in Keys, WriteSetting(k) PROVE MovedIsLive'
  BY <1>5 DEF WriteSetting, MovedIsLive, TypeOK
<1> QED
  BY <1>1, <1>2, <1>3, <1>4, <1>5
  DEF Next, vars, Grow, PackBooks, RenewBooksKeys, TakeOverAfterNewKeys,
      PickFile, TakeOver, Mark, ReadSettings, RemoveMark, RecordEvent,
      DropRekeyFile, Fail, Crash, Leave, Unlock, Opened

\* Where no session writes a setting late, a key has one live record.
LEMMA OneLiveStep ==
    ASSUME MoveAssumption, TypeOK, PacksAreWhole, Progress, OneLive,
           [Next]_vars
    PROVE  OneLive'
<1> USE DEF oldVars, jobVars, bookVars
<1>0. /\ \A i \in 1..Len(packs) : packs'[i] = packs[i]
      /\ phase # "idle" => job \in 1..Len(packs)
  BY PacksStay DEF TypeOK
<1>1. ASSUME UNCHANGED <<setting, late>>,
             phase' = "records" => UNCHANGED <<phase, job, existing>>
      PROVE  OneLive'
  BY <1>0, <1>1 DEF OneLive
<1>2. CASE ReadSettings
  <2>1. ASSUME NEW k \in Keys \ late, NEW x \in setting[k]
        PROVE  x = existing'[k]
    <3>1. k \in 0..Size /\ k # MOVE_IN_SETTING
      BY DEF Keys, MOVE_IN_SETTING
    <3>2. existing'[k] \in setting[k]
      BY <1>2, <2>1, <3>1 DEF ReadSettings, Origins
    <3> QED BY <2>1, <3>2 DEF OneLive
  <2> QED BY <1>2, <2>1 DEF ReadSettings, OneLive
<1>3. ASSUME NEW r \in rest, DropLocal(r) PROVE OneLive'
  <2>1. /\ phase = "records" /\ Local(r) /\ r \in Record
        /\ r.coll = "settings" => r.n \in Keys
    BY <1>3, WrittenIsPacked DEF DropLocal, Turn
  <2>2. r.n \in Keys /\ r.n \in 0..Size /\ r.n # MOVE_IN_SETTING
    BY <2>1 DEF Local, Keys, MOVE_IN_SETTING
  <2>3. /\ setting' = [setting EXCEPT ![r.n] = @ \ {existing[r.n]}]
        /\ existing' = [existing EXCEPT ![r.n] = None]
        /\ UNCHANGED <<packs, job, phase, late>>
    BY <1>3, <2>2 DEF DropLocal
  <2> QED BY <2>1, <2>2, <2>3 DEF OneLive, TypeOK
<1>4. ASSUME NEW r \in rest, Restore(r) PROVE OneLive'
  <2>1. /\ phase = "records" /\ ~Local(r) /\ r \in Record
        /\ r.of = packs[job].of
        /\ UNCHANGED <<packs, job, phase, late, existing>>
    BY <1>4, WrittenIsPacked DEF Restore, Turn
  <2>2. CASE r.coll # "settings" BY <1>4, <2>1, <2>2 DEF Restore, OneLive
  <2>3. CASE r.coll = "settings"
    <3>1. r.n \in Keys /\ existing[r.n] \in {None, r.of}
      BY <1>4, <2>1, <2>3, WrittenIsPacked DEF Local
    <3>2. setting' = [setting EXCEPT ![r.n] = @ \cup {r.of}]
      BY <1>4, <2>3, <3>1 DEF Restore
    <3>3. r.n \notin late => setting'[r.n] \subseteq {r.of}
      <4>1. None \notin setting[r.n]
        BY <3>1 DEF TypeOK, MoveAssumption, None, Here
      <4>2. r.n \notin late => setting[r.n] \subseteq {r.of}
        BY <2>1, <3>1, <4>1 DEF OneLive
      <4> QED BY <3>1, <3>2, <4>2 DEF TypeOK
    <3> QED BY <2>1, <3>1, <3>2, <3>3 DEF OneLive, TypeOK
  <2> QED BY <2>2, <2>3
<1>5. ASSUME NEW k \in Keys, WriteSetting(k) PROVE OneLive'
  BY <1>5 DEF WriteSetting, OneLive, TypeOK
<1> QED
  BY <1>1, <1>2, <1>3, <1>4, <1>5
  DEF Next, vars, Grow, PackBooks, RenewBooksKeys, TakeOverAfterNewKeys,
      PickFile, TakeOver, Mark, RemoveMark, RecordEvent,
      DropRekeyFile, Fail, Crash, Leave, Unlock, Opened, WriteRecord

\* The history tells of a pack only once its records are in.
LEMMA ToldStep ==
    ASSUME MoveAssumption, TypeOK, PacksAreWhole, Progress, ToldIsIn,
           [Next]_vars
    PROVE  ToldIsIn'
<1> USE DEF oldVars, bookVars
<1>1. here \subseteq here' BY BooksStep
<1>2. \A i \in 1..Len(packs) : packs'[i] = packs[i] BY PacksStay
<1>3. told \subseteq 1..Len(packs) BY DEF TypeOK
<1>4. CASE told' = told BY <1>1, <1>2, <1>3, <1>4 DEF ToldIsIn
<1>5. CASE RecordEvent
  <2>1. packs[job].records \subseteq here
    BY <1>5 DEF RecordEvent, Progress
  <2>2. job \in 1..Len(packs) /\ told' = told \cup {job}
    BY <1>5 DEF RecordEvent, TypeOK
  <2> QED BY <1>1, <1>2, <1>3, <2>1, <2>2 DEF ToldIsIn
<1> QED
  BY <1>4, <1>5
  DEF Next, vars, Grow, PackBooks, RenewBooksKeys, TakeOverAfterNewKeys,
      PickFile, TakeOver, Mark, ReadSettings, RemoveMark, DropLocal,
      Restore, DropRekeyFile, Fail, Crash, Leave, Unlock, Opened,
      WriteRecord, WriteSetting

-----------------------------------------------------------------------------
(* The inductive invariant, and the properties.                            *)

\* The invariant from which the properties follow: a take-over marks, writes
\* receipts first and unmarks last, wherever it is cut short
\* (book-move.js).
THEOREM Inductive ==
    ASSUME MoveAssumption, MovedIn = {} PROVE Spec => []IInv
<1>1. ASSUME MoveAssumption, MovedIn = {}, Init PROVE IInv
  <2>1. TypeOK /\ PacksAreWhole BY <1>1, TypeInit, WholeInit
  <2> QED
    BY <1>1, <2>1
    DEF IInv, Init, Progress, ReceiptsFirst, OneOrigin, Writing, MovedIsLive,
        MarkedWhileIncomplete, OneLive, ToldIsIn
<1>2. ASSUME MoveAssumption, IInv, [Next]_vars PROVE IInv'
  <2>1. TypeOK' BY <1>2, TypeStep DEF IInv
  <2>2. PacksAreWhole' BY <1>2, WholeStep DEF IInv
  <2>3. Progress' BY <1>2, ProgressStep DEF IInv
  <2>4. ReceiptsFirst' BY <1>2, ReceiptsFirstStep DEF IInv
  <2>5. OneOrigin' BY <1>2, OneOriginStep DEF IInv
  <2>6. MarkedWhileIncomplete' BY <1>2, MarkedStep DEF IInv
  <2>7. MovedIsLive' BY <1>2, LiveStep DEF IInv
  <2>8. OneLive' BY <1>2, OneLiveStep DEF IInv
  <2>9. ToldIsIn' BY <1>2, ToldStep DEF IInv
  <2> QED BY <2>1, <2>2, <2>3, <2>4, <2>5, <2>6, <2>7, <2>8, <2>9 DEF IInv
<1> QED BY <1>1, <1>2, PTL DEF Spec

\* Books that are filled in part carry the mark, at whatever write an attempt
\* was cut short and however often it was tried again.
THEOREM PartlyFilledIsMarked ==
    ASSUME MoveAssumption, MovedIn = {}
    PROVE  Spec => []MarkedWhileIncomplete
<1>1. IInv => MarkedWhileIncomplete BY DEF IInv
<1> QED BY <1>1, Inductive, PTL

\* What the history calls moved is in with all its records, and its settings
\* are the live ones.
THEOREM ToldOfIsThere ==
    ASSUME MoveAssumption, MovedIn = {} PROVE Spec => []MovedIsThere
<1>1. ASSUME MoveAssumption, IInv PROVE MovedIsThere
  <2> SUFFICES ASSUME NEW i \in told
               PROVE  /\ packs[i].records \subseteq here
                      /\ \A k \in Keys :
                           Rec(packs[i].of, "settings", k) \in packs[i].records
                             => packs[i].of \in setting[k]
    BY DEF MovedIsThere
  <2>1. i \in 1..Len(packs) /\ packs[i].records \subseteq here
    BY <1>1 DEF IInv, TypeOK, ToldIsIn
  <2>2. packs[i].of \in Books BY <1>1, <2>1, PackType DEF IInv
  <2>3. packs[i].of # Here BY <1>1, <2>2 DEF MoveAssumption
  <2>4. ASSUME NEW k \in Keys,
               Rec(packs[i].of, "settings", k) \in packs[i].records
        PROVE  packs[i].of \in setting[k]
    BY <1>1, <2>1, <2>3, <2>4 DEF IInv, MovedIsLive, Rec
  <2> QED BY <2>1, <2>4
<1> QED BY <1>1, Inductive, PTL

\* Of every setting one record is live, unless the session first wrote it
\* after the take-over had read the settings.
THEOREM OneRecordPerSetting ==
    ASSUME MoveAssumption, MovedIn = {} PROVE Spec => []NothingDoubles
<1>1. ASSUME IInv PROVE NothingDoubles
  <2> SUFFICES ASSUME NEW k \in Keys \ late
               PROVE  Cardinality(setting[k]) =< 1
    BY DEF NothingDoubles
  <2>1. CASE setting[k] = {} BY <2>1, FS_EmptySet
  <2>2. ASSUME NEW x \in setting[k] PROVE Cardinality(setting[k]) =< 1
    <3>1. setting[k] = {x} BY <1>1, <2>2 DEF IInv, OneLive
    <3>2. Cardinality({x}) = 1 BY FS_Singleton
    <3>3. Cardinality(setting[k]) = 1 BY <3>1, <3>2, Zenon
    <3> QED BY <3>3
  <2> QED BY <2>1, <2>2
<1> QED BY <1>1, Inductive, PTL

\* The pack of new keys goes only once the new books have all of it.
THEOREM PackOutlives ==
    ASSUME MoveAssumption, MovedIn = {} PROVE Spec => PackOutlivesTakeOver
<1>1. ASSUME IInv, [Next]_vars, kept # 0, kept' # kept
      PROVE  packs[kept].records \subseteq here
  <2>1. DropRekeyFile
    BY <1>1
    DEF Next, vars, Grow, PackBooks, RenewBooksKeys, TakeOverAfterNewKeys,
        PickFile, TakeOver, Mark, ReadSettings, RemoveMark, RecordEvent,
        DropLocal, Restore, Fail, Crash, Leave, Unlock, Opened, WriteRecord,
        WriteSetting
  <2> QED BY <1>1, <2>1 DEF DropRekeyFile, IInv, Progress
<1>2. IInv /\ [Next]_vars
        => [kept # 0 /\ kept' # kept => packs[kept].records \subseteq here]_vars
  BY <1>1
<1> QED BY <1>2, Inductive, PTL DEF Spec, PackOutlivesTakeOver

-----------------------------------------------------------------------------
(* The take-over implements what TakeOver promises.                        *)

\* What a pack brings of the collections that must be empty is a file.
LEMMA MattersOfPack ==
    ASSUME MoveAssumption, IInv, NEW i \in 1..Len(packs)
    PROVE  /\ packs[i].records \cap Matters
                \in UNION {SUBSET {r \in Matters : r.of = b} : b \in Books}
           /\ Filled \cap packs[i].records \subseteq Matters
           /\ packs[i].records \cap Matters # {}
<1>1. WellPacked(packs[i].of, packs[i].records) /\ packs[i].of \in Books
      /\ packs[i].records \subseteq Record
  BY PackType DEF IInv, PacksAreWhole
<1>2. packs[i].of # Here BY <1>1 DEF MoveAssumption
<1>3. packs[i].records \cap Matters
         \in SUBSET {r \in Matters : r.of = packs[i].of}
  BY <1>1 DEF WellPacked
<1>4. Rec(packs[i].of, "receipts", 1) \in packs[i].records \cap Matters
  BY <1>1, <1>2 DEF WellPacked, Matters, MUST_BE_EMPTY, Rec
<1> QED
  BY <1>1, <1>2, <1>3, <1>4 DEF WellPacked, Matters, Filled, MUST_BE_EMPTY

\* A step of the take-over begins, adds to or finishes the promised one, or the
\* promise does not notice it.
LEMMA PromiseStep ==
    ASSUME MoveAssumption, IInv, IInv', [Next]_vars
    PROVE  [Promise!Next]_(Promise!vars)
<1> USE DEF oldVars, bookVars
<1>0. /\ \A i \in 1..Len(packs) : packs'[i] = packs[i]
      /\ marker \in 0..Len(packs) /\ Len(packs) \in Nat
      /\ phase # "idle" => job \in 1..Len(packs)
  BY PacksStay DEF IInv, TypeOK
<1>1. ASSUME marker' = marker, Moved' = Moved PROVE UNCHANGED Promise!vars
  <2>1. marker # 0 => packs'[marker] = packs[marker] BY <1>0
  <2>2. Matters' = Matters BY DEF Matters
  <2> QED BY <1>1, <2>1, <2>2 DEF Promise!vars
<1>2. CASE Mark
  <2>1. /\ here' = here /\ packs' = packs /\ marker' = job
        /\ job \in 1..Len(packs) /\ phase = "mark"
    BY <1>0, <1>2 DEF Mark
  <2>2. /\ Moved \subseteq packs[job].records /\ (marker # 0 \/ Moved = {})
    BY <2>1 DEF IInv, OneOrigin, Writing
  <2>3. Moved' = Moved BY <2>1 DEF Moved, Filled
  <2>4. Moved \subseteq packs[job].records \cap Matters
    BY <2>1, <2>2, MattersOfPack DEF IInv, OneOrigin, Writing, Moved
  <2>5. Promise!Begin(packs[job].records \cap Matters)
    BY <2>1, <2>2, <2>3, <2>4 DEF Promise!Begin
  <2> QED BY <2>1, <2>5, MattersOfPack DEF Promise!Next
<1>3. CASE RemoveMark
  <2>1. /\ here' = here /\ packs' = packs /\ marker' = 0
        /\ job \in 1..Len(packs) /\ phase = "records" /\ rest = {}
    BY <1>0, <1>3 DEF RemoveMark
  <2>2. /\ marker = job /\ packs[job].records \subseteq here
        /\ Moved \subseteq packs[job].records
    BY <2>1 DEF IInv, Progress, OneOrigin, Writing
  <2>3. Moved' = Moved BY <2>1 DEF Moved, Filled
  <2>4. packs[job].records \cap Matters = Moved
    BY <2>1, <2>2, MattersOfPack DEF Moved, Filled, Matters
  <2>5. Moved # {} BY <2>1, <2>4, MattersOfPack
  <2>6. Promise!Finish
    BY <2>1, <2>2, <2>3, <2>4, <2>5 DEF Promise!Finish
  <2> QED BY <2>6 DEF Promise!Next
<1>4. ASSUME NEW r \in rest, Restore(r) PROVE [Promise!Next]_(Promise!vars)
  <2>1. /\ here' = here \cup {r} /\ packs' = packs /\ marker' = marker
        /\ phase = "records" /\ job \in 1..Len(packs)
        /\ r \in packs[job].records /\ r \in Record /\ r.of \in Books
    BY <1>4, WrittenIsPacked DEF Restore, Turn, IInv
  <2>2. marker = job /\ marker # 0
    BY <2>1 DEF IInv, Progress
  <2>3. r.of # Here BY <2>1 DEF MoveAssumption
  <2>4. CASE r.coll \notin MUST_BE_EMPTY \/ r \in Moved
    <3>1. Moved' = Moved BY <2>1, <2>4 DEF Moved, Filled
    <3> QED BY <1>1, <2>1, <3>1
  <2>5. CASE r.coll \in MUST_BE_EMPTY /\ r \notin Moved
    <3>1. r \in Matters BY <2>1, <2>3, <2>5 DEF Matters
    <3>2. Moved' = Moved \cup {r} BY <2>1, <2>3, <2>5 DEF Moved, Filled
    <3>3. Promise!Add(r)
      BY <2>1, <2>2, <2>5, <3>1, <3>2 DEF Promise!Add
    <3> QED BY <3>1, <3>3 DEF Promise!Next
  <2> QED BY <2>4, <2>5
<1>5. ASSUME NEW c \in Meanwhile, WriteRecord(c)
      PROVE  marker' = marker /\ Moved' = Moved
  BY <1>5 DEF WriteRecord, Moved, Filled, Rec
<1>6. ASSUME NEW r \in rest, DropLocal(r)
      PROVE  marker' = marker /\ Moved' = Moved
  <2>1. r.n # MOVE_IN_SETTING
    BY <1>6, WrittenIsPacked DEF DropLocal, Turn, Local, Keys,
       MOVE_IN_SETTING, IInv
  <2> QED BY <1>6, <2>1 DEF DropLocal, Moved, Filled
<1>7. CASE UNCHANGED <<here, marker>>
  BY <1>1, <1>7 DEF Moved, Filled
<1> QED
  BY <1>1, <1>2, <1>3, <1>4, <1>5, <1>6, <1>7
  DEF Next, vars, Grow, PackBooks, RenewBooksKeys, TakeOverAfterNewKeys,
      PickFile, TakeOver, ReadSettings, RecordEvent, DropRekeyFile, Fail,
      Crash, Leave, Unlock, Opened, WriteSetting

\* Every take-over, interrupted and tried again as it may be, is one of
\* TakeOver: from the files of one old books only, and once.
THEOREM Refines ==
    ASSUME MoveAssumption, MovedIn = {} PROVE Spec => TakesOverOnce
<1>1. Init => Promise!Init BY DEF Init, Promise!Init, Moved, Filled
<1>2. MoveAssumption /\ IInv /\ IInv' /\ [Next]_vars
        => [Promise!Next]_(Promise!vars)
  BY PromiseStep
<1> QED BY <1>1, <1>2, Inductive, PTL DEF Spec, TakesOverOnce, Promise!Spec
=============================================================================
