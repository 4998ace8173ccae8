--------------------------- MODULE Documents_proofs ---------------------------
(***************************************************************************)
(* Proofs about the documents of the books: what one device reads of a     *)
(* collection (SealedDocuments), and what becomes of the links that the    *)
(* devices write into theirs (Matching).                                   *)
(*                                                                         *)
(* SealedDocuments is proved about for every set of keys and of readers,   *)
(* any length of the log, any number of own writes on their way and a      *)
(* change of the access list at any moment.  The argument: what a walk may *)
(* miss is announced until a read claims it, and a read that claims what a *)
(* walk on its way may miss is counted as letting it go (`dropped`); the   *)
(* same holds of the Map that the walk leaves, and then of the index.      *)
(*                                                                         *)
(* Matching is proved about for any devices, receipts, bookings, scores    *)
(* and persons, and any number of links, decisions and runs.  That no link *)
(* is lost is proved where a person confirms no pair that the runs take by *)
(* themselves; links_confirmed.cfg shows what happens otherwise.           *)
(***************************************************************************)
EXTENDS SealedDocuments, Matching, WellFoundedInduction, TLAPS


Of(entries, k) == { e \in entries : e.key = k }

\* The shapes of an index and of walks; own writes are not a member's.
Forms ==
    /\ out \in BOOLEAN
    /\ index = NotBuilt \/ \E f \in Versions : index = Built(f)
    /\ \/ building = NoWalk
       \/ building \in [going : {TRUE}, readers : SUBSET Reader,
                        log : SUBSET log, out : BOOLEAN]
    /\ \/ ended = NoWalk
       \/ ended \in [going : {TRUE}, readers : SUBSET Reader,
                     seen : SUBSET log, out : BOOLEAN, newest : Versions]
    /\ building.going /\ building.out => out
    /\ ended.going /\ ended.out => out
    /\ writing \in Seq(Entry)
    /\ \A i \in 1..Len(writing) : ~writing[i].member

\* A rank that was returned or told is that of an entry in the set.
Own(entries, k, n) ==
    n = 0 \/ \E e \in Of(entries, k) : e.rank = n /\ ~e.member
Some(entries, k, n) == n = 0 \/ \E e \in Of(entries, k) : e.rank = n

Sources ==
    /\ \A k \in Key : Own(log, k, returned[k])
    /\ \A r \in Reader, k \in Key : Some(log, k, answer[r][k])

\* What those who wait knew when they began to, a walk sees or may miss.
Waits(readers, entries) ==
    \A r \in readers, k \in Key :
        /\ Own(entries \cup dropped, k, floor[r][k])
        /\ Some(entries \cup dropped, k, answer[r][k])

\* What a walk that is going misses is announced or was let go, and so is
\* what stopped to count meanwhile.  It began after the one that has ended.
Going ==
    building.going =>
        /\ log \ building.log \subseteq unclaimed \cup dropped
        /\ building.out # out => log \ Counting(log, out) \subseteq dropped
        /\ Waits(building.readers, building.log)
        /\ ended.going => /\ ended.seen \subseteq building.log
                          /\ ended.out => building.out

\* The Map of a walk has the newest version of what it saw, and what it missed
\* is announced or was let go.
Over ==
    ended.going =>
        /\ log \ ended.seen \subseteq unclaimed \cup dropped
        /\ \A k \in Key : ended.newest[k] # NoDoc =>
              /\ ended.newest[k] \in ended.seen
              /\ \/ ended.newest[k] \in Counting(log, out)
                 \/ ended.out # out /\ ended.newest[k] \in dropped
        /\ \A e \in Counting(ended.seen, out) :
              e.rank <= ended.newest[e.key].rank
        /\ Waits(ended.readers, ended.seen)

\* What counts and is newer than the index is announced or was let go, and so
\* is a version in the index that does not count.
Right ==
    index.built => \A k \in Key :
        /\ \A x \in Of(Counting(log, out), k) :
              x.rank > index.newest[k].rank => x \in unclaimed \cup dropped
        /\ index.newest[k] # NoDoc
              => index.newest[k] \in Counting(log, out) \cup dropped

IInv == TypeOK /\ Forms /\ Sources /\ Going /\ Over /\ Right

-----------------------------------------------------------------------------
(* The newest version of a key.                                            *)

\* Every set of naturals that has an element has a least one.
LEMMA LeastNat ==
    ASSUME NEW T \in SUBSET Nat, T # {}
    PROVE  \E x \in T : \A y \in T : x <= y
<1>1. PICK x \in T : \A y \in T : ~ (<<y, x>> \in OpToRel(<, Nat))
  BY NatLessThanWellFounded, WFMin, Zenon
<1>2. \A y \in T : ~(y < x)
  <2> TAKE y \in T
  <2>1. <<y, x>> \notin OpToRel(<, Nat) BY <1>1
  <2> QED BY <2>1, Zenon DEF OpToRel
<1> QED BY <1>2

\* Every set of naturals up to n that has an element has a greatest one.
LEMMA GreatestNat ==
    ASSUME NEW n \in Nat, NEW T \in SUBSET (0..n), T # {}
    PROVE  \E x \in T : \A y \in T : y <= x
<1> DEFINE U == { n - y : y \in T }
<1>1. U \in SUBSET Nat /\ U # {}
  <2>1. PICK y \in T : TRUE OBVIOUS
  <2>2. n - y \in U BY <2>1
  <2>3. \A z \in T : n - z \in Nat OBVIOUS
  <2>4. U \subseteq Nat BY <2>3
  <2> QED BY <2>2, <2>4
<1> HIDE DEF U
<1>2. PICK u \in U : \A v \in U : u <= v BY <1>1, LeastNat
<1>3. PICK x \in T : u = n - x BY <1>2 DEF U
<1>4. \A y \in T : n - y \in U BY DEF U
<1>5. \A y \in T : n - x <= n - y BY <1>2, <1>3, <1>4
<1> QED BY <1>5

\* Latest chooses an entry with the greatest rank.
LEMMA LatestIsGreatest ==
    ASSUME NEW S \in SUBSET Entry, NEW k \in Key
    PROVE  /\ Of(S, k) = {} => Latest(S, k) = NoDoc
           /\ Of(S, k) # {} =>
                 /\ Latest(S, k) \in Of(S, k)
                 /\ \A f \in Of(S, k) : f.rank <= Latest(S, k).rank
<1>1. Of(S, k) = {} => Latest(S, k) = NoDoc BY DEF Latest, Of
<1>2. ASSUME Of(S, k) # {}
      PROVE  /\ Latest(S, k) \in Of(S, k)
             /\ \A f \in Of(S, k) : f.rank <= Latest(S, k).rank
  <2> DEFINE V == Of(S, k)
             T == { e.rank : e \in V }
  <2>1. \A e \in V : e.rank \in 0..MaxRank
    BY IndexAssumption DEF Of, Entry, IndexAssumption
  <2>2. T \in SUBSET (0..MaxRank) BY <2>1
  <2>3. T # {} BY <1>2
  <2> HIDE DEF T
  <2>4. PICK n \in T : \A m \in T : m <= n
    BY <2>2, <2>3, IndexAssumption, GreatestNat DEF IndexAssumption
  <2>5. PICK e \in V : \A f \in V : f.rank <= e.rank BY <2>4 DEF T
  <2>6. Latest(S, k) = CHOOSE x \in V : \A f \in V : f.rank <= x.rank
    BY <1>2 DEF Latest, Of
  <2> QED BY <2>5, <2>6
<1> QED BY <1>1, <1>2

\* Latest looks at the key's versions only.
LEMMA LatestOfSame ==
    ASSUME NEW S, NEW T, NEW k, Of(S, k) = Of(T, k)
    PROVE  Latest(S, k) = Latest(T, k)
<1> DEFINE Greatest(V) == CHOOSE e \in V : \A f \in V : f.rank <= e.rank
<1>1. Latest(S, k) = IF Of(S, k) = {} THEN NoDoc ELSE Greatest(Of(S, k))
  BY DEF Latest, Of
<1>2. Latest(T, k) = IF Of(T, k) = {} THEN NoDoc ELSE Greatest(Of(T, k))
  BY DEF Latest, Of
<1> HIDE DEF Greatest
<1> QED BY <1>1, <1>2

\* Where no two entries have one rank, the greatest one is the one chosen.
LEMMA LatestIs ==
    ASSUME NEW S \in SUBSET Entry, NEW k \in Key, NEW e \in Of(S, k),
           \A x, y \in S : x.rank = y.rank => x = y,
           \A f \in Of(S, k) : f.rank <= e.rank
    PROVE  Latest(S, k) = e
<1>1. Latest(S, k) \in Of(S, k) /\ e.rank <= Latest(S, k).rank
  BY LatestIsGreatest
<1>2. Latest(S, k).rank <= e.rank BY <1>1
<1>3. e.rank \in Nat /\ Latest(S, k).rank \in Nat
  BY <1>1 DEF Of, Entry
<1>4. Latest(S, k).rank = e.rank BY <1>1, <1>2, <1>3
<1> QED BY <1>1, <1>4 DEF Of

\* The types of what a walk finds.
LEMMA NewestType ==
    ASSUME NEW S \in SUBSET Entry
    PROVE  /\ Newest(S) \in Versions
           /\ \A k \in Key : /\ Newest(S)[k] = Latest(S, k)
                             /\ \/ Newest(S)[k] = NoDoc
                                \/ Newest(S)[k] \in Of(S, k)
<1>1. \A k \in Key : Latest(S, k) = NoDoc \/ Latest(S, k) \in Of(S, k)
  BY LatestIsGreatest
<1>2. \A k \in Key : Latest(S, k) \in {NoDoc} \cup Entry
  BY <1>1 DEF Of
<1> QED BY <1>1, <1>2 DEF Newest, Versions

\* An own version among the entries is not newer than the newest.
LEMMA NewestIsAsNew ==
    ASSUME NEW S \in SUBSET Entry, NEW k \in Key, NEW n, Some(S, k, n)
    PROVE  n <= Newest(S)[k].rank
<1>1. Newest(S)[k] = Latest(S, k) BY NewestType
<1>2. CASE n = 0
  <2>1. Newest(S)[k].rank \in Nat
    BY NewestType DEF Of, Entry, NoDoc
  <2> QED BY <1>2, <2>1
<1>3. ASSUME NEW e \in Of(S, k), e.rank = n PROVE n <= Newest(S)[k].rank
  BY <1>1, <1>3, LatestIsGreatest
<1> QED BY <1>2, <1>3 DEF Some

\* The next own entry comes after all that are there.
LEMMA NextIsLast ==
    ASSUME log \subseteq Entry
    PROVE  NextRank \in 1..MaxRank + 1 /\ \A e \in log : e.rank < NextRank
<1> DEFINE T == { e.rank : e \in log }
<1>1. \A e \in log : e.rank \in 1..MaxRank BY DEF Entry
<1>2. CASE log = {}
  <2>1. 1 \in 1..MaxRank + 1 BY IndexAssumption DEF IndexAssumption
  <2> QED BY <1>2, <2>1 DEF NextRank
<1>3. CASE log # {}
  <2>1. T \in SUBSET (0..MaxRank)
    BY <1>1, IndexAssumption DEF IndexAssumption
  <2>2. T # {} BY <1>3
  <2> HIDE DEF T
  <2>3. PICK n \in T : \A m \in T : m <= n
    BY <2>1, <2>2, IndexAssumption, GreatestNat DEF IndexAssumption
  <2>4. PICK x \in log : x.rank = n BY <2>3 DEF T
  <2>5. \A e \in log : e.rank <= x.rank BY <2>3, <2>4 DEF T
  <2>6. /\ x.rank + 1 \in 1..MaxRank + 1
        /\ \A e \in log : e.rank < x.rank + 1
        /\ x.rank = (x.rank + 1) - 1
    BY <1>1, <2>5, IndexAssumption DEF IndexAssumption
  <2> QED BY <2>6 DEF NextRank
<1> QED BY <1>2, <1>3

\* How an index and a walk are told apart.
\* How an index and a walk are told apart.
LEMMA BuiltForms ==
    /\ \A f : Built(f).built /\ Built(f).newest = f
    /\ ~NotBuilt.built /\ ~NoWalk.going /\ NoWalk.readers = {}
BY DEF Built, NotBuilt, NoWalk

\* What is known of a walk that is going or has ended.
LEMMA WalkForm ==
    ASSUME Forms
    PROVE  /\ building.going \in BOOLEAN /\ ended.going \in BOOLEAN
           /\ building.readers \subseteq Reader
           /\ ended.readers \subseteq Reader
           /\ ~building.going => building.readers = {}
           /\ ~ended.going => ended.readers = {}
           /\ building.going => /\ building.log \subseteq log
                                /\ building.out \in BOOLEAN
           /\ ended.going => /\ ended.seen \subseteq log
                             /\ ended.out \in BOOLEAN
                             /\ ended.newest \in Versions
<1>1. CASE building = NoWalk /\ ended = NoWalk BY <1>1 DEF NoWalk
<1>2. CASE building = NoWalk /\ ended # NoWalk BY <1>2 DEF NoWalk, Forms
<1>3. CASE building # NoWalk /\ ended = NoWalk BY <1>3 DEF NoWalk, Forms
<1>4. CASE building # NoWalk /\ ended # NoWalk BY <1>4 DEF Forms
<1> QED BY <1>1, <1>2, <1>3, <1>4

\* The walk a read waits for: the one that is going, or a new one.
LEMMA ReadWaits ==
    ASSUME Forms, NEW r \in Reader, ReadByWalk(r)
    PROVE  /\ building'.going /\ building'.readers = building.readers \cup {r}
           /\ building' \in [going : {TRUE}, readers : SUBSET Reader,
                             log : SUBSET log, out : BOOLEAN]
           /\ building.going => /\ building'.log = building.log
                                /\ building'.out = building.out
           /\ ~building.going => building'.log = log /\ building'.out = out
<1>1. building' = [Walk EXCEPT !.readers = @ \cup {r}]
  BY DEF ReadByWalk
<1>2. Walk \in [going : {TRUE}, readers : SUBSET Reader,
                log : SUBSET log, out : BOOLEAN]
  BY BuiltForms DEF Walk, Forms
<1>3. /\ building' \in [going : {TRUE}, readers : SUBSET Reader,
                        log : SUBSET log, out : BOOLEAN]
      /\ building'.readers = Walk.readers \cup {r}
      /\ building'.log = Walk.log /\ building'.out = Walk.out
  BY <1>1, <1>2
<1>4. CASE building.going BY <1>3, <1>4 DEF Walk
<1>5. CASE ~building.going
  <2>1. building.readers = {} BY <1>5, WalkForm
  <2> QED BY <1>3, <1>5, <2>1 DEF Walk
<1> QED BY <1>3, <1>4, <1>5

\* A walk ends with the newest versions of some entries of the log: all that
\* count of those that it saw, and some that counted when it began.
LEMMA WalkSees ==
    ASSUME TypeOK, Forms, WalkEnds
    PROVE  \E came \in SUBSET (log \ building.log) :
             LET seen == building.log \cup came
             IN \E S \in SUBSET seen :
                  /\ Counting(seen, out) \subseteq S
                  /\ building.out = out => S = Counting(seen, out)
                  /\ ended' = [going |-> TRUE, readers |-> building.readers,
                               seen |-> seen, out |-> building.out,
                               newest |-> Newest(S)]
<1>1. PICK came \in SUBSET (log \ building.log) :
        LET seen == building.log \cup came
        IN \E newest \in Found(seen) :
             ended' = [going |-> TRUE, readers |-> building.readers,
                       seen |-> seen, out |-> building.out,
                       newest |-> newest]
  BY DEF WalkEnds
<1> DEFINE seen == building.log \cup came
           C == Counting(seen, out)
<1>2. PICK newest \in Found(seen) :
        ended' = [going |-> TRUE, readers |-> building.readers,
                  seen |-> seen, out |-> building.out, newest |-> newest]
  BY <1>1
<1>3. PICK earlier \in SUBSET (Counting(seen, building.out) \ C) :
        newest = Newest(C \cup earlier)
  BY <1>2 DEF Found
<1>4. C \cup earlier \in SUBSET seen BY DEF Counting
<1>5. building.out = out => C \cup earlier = C OBVIOUS
<1> QED BY <1>2, <1>3, <1>4, <1>5

\* The Map of a walk that has ended.
LEMMA EndedForm ==
    ASSUME TypeOK, Forms, WalkEnds
    PROVE  /\ ended' \in [going : {TRUE}, readers : SUBSET Reader,
                          seen : SUBSET log, out : BOOLEAN,
                          newest : Versions]
           /\ ended'.readers = building.readers
           /\ ended'.out = building.out
           /\ building.log \subseteq ended'.seen
           /\ \A k \in Key : ended'.newest[k] # NoDoc =>
                 /\ ended'.newest[k] \in Of(ended'.seen, k)
                 /\ \/ ended'.newest[k] \in Counting(ended'.seen, out)
                    \/ building.out # out
           /\ \A e \in Counting(ended'.seen, out) :
                 e.rank <= ended'.newest[e.key].rank
<1>1. PICK came \in SUBSET (log \ building.log) :
        LET seen == building.log \cup came
        IN \E S \in SUBSET seen :
             /\ Counting(seen, out) \subseteq S
             /\ building.out = out => S = Counting(seen, out)
             /\ ended' = [going |-> TRUE, readers |-> building.readers,
                          seen |-> seen, out |-> building.out,
                          newest |-> Newest(S)]
  BY WalkSees
<1> DEFINE seen == building.log \cup came
<1>2. PICK S \in SUBSET seen :
        /\ Counting(seen, out) \subseteq S
        /\ building.out = out => S = Counting(seen, out)
        /\ ended' = [going |-> TRUE, readers |-> building.readers,
                     seen |-> seen, out |-> building.out,
                     newest |-> Newest(S)]
  BY <1>1
<1>3. /\ building.log \subseteq log /\ building.out \in BOOLEAN
      /\ building.readers \subseteq Reader
  BY WalkForm DEF WalkEnds
<1>4. seen \subseteq log /\ building.log \subseteq seen BY <1>3
<1> HIDE DEF seen
<1>5. S \in SUBSET Entry /\ seen \in SUBSET Entry BY <1>4 DEF TypeOK
<1>6. /\ Newest(S) \in Versions
      /\ \A k \in Key : /\ Newest(S)[k] = Latest(S, k)
                        /\ Newest(S)[k] = NoDoc \/ Newest(S)[k] \in Of(S, k)
  BY <1>5, NewestType
<1>7. /\ ended'.readers = building.readers /\ ended'.seen = seen
      /\ ended'.out = building.out /\ ended'.newest = Newest(S)
  BY <1>2
<1>8. ended' \in [going : {TRUE}, readers : SUBSET Reader,
                  seen : SUBSET log, out : BOOLEAN, newest : Versions]
  BY <1>2, <1>3, <1>4, <1>6
<1>9. ASSUME NEW e \in Counting(seen, out)
      PROVE  e.rank <= Newest(S)[e.key].rank
  <2>1. e \in S /\ e.key \in Key BY <1>2, <1>5 DEF Entry
  <2>2. e \in Of(S, e.key) BY <2>1 DEF Of
  <2> QED BY <1>5, <1>6, <2>1, <2>2, LatestIsGreatest
<1>10. ASSUME NEW k \in Key, Newest(S)[k] # NoDoc
       PROVE  /\ Newest(S)[k] \in Of(seen, k)
              /\ Newest(S)[k] \in Counting(seen, out) \/ building.out # out
  <2>1. Newest(S)[k] \in Of(S, k) BY <1>6, <1>10
  <2>2. Newest(S)[k] \in S /\ Newest(S)[k].key = k BY <2>1 DEF Of
  <2> QED BY <1>2, <2>2 DEF Of
<1> QED BY <1>4, <1>7, <1>8, <1>9, <1>10

-----------------------------------------------------------------------------
(* What the steps have in common.                                          *)

\* Entries come and go on, and neither a walk nor who waits changes.
Quiet ==
    /\ log \subseteq log' /\ log' \ log \subseteq unclaimed'
    /\ \A e \in log' \ log : ~(e.member /\ out)
    /\ UNCHANGED <<out, kept, building, ended>>
    /\ dropped \subseteq dropped'
    /\ OnItsWay => unclaimed \cup dropped \subseteq unclaimed' \cup dropped'
    /\ \A r \in Waiting : answer'[r] = answer[r] /\ floor'[r] = floor[r]

\* A step is quiet, or changes a walk or the access list.
LEMMA Steps ==
    ASSUME TypeOK, Forms, [Next]_vars
    PROVE  \/ Quiet
           \/ \E before \in SUBSET { e \in log : e.member } : TakeOut(before)
           \/ \E r \in Reader : ReadByWalk(r)
           \/ WalkEnds \/ Told \/ WalkFails
<1>1. CASE UNCHANGED vars BY <1>1 DEF Quiet, vars
<1>2. ASSUME NEW k \in Key, Put(k) PROVE Quiet
  BY <1>2 DEF Put, Quiet
<1>3. CASE PutReturns
  <2>1. /\ unclaimed' = Claimed(Head(writing))
        /\ dropped' = dropped \cup LetGo(Head(writing))
        /\ UNCHANGED <<log, out, kept, building, ended, answer, floor>>
    BY <1>3 DEF PutReturns
  <2>2. OnItsWay => unclaimed \subseteq unclaimed' \cup dropped'
    BY <2>1 DEF OnItsWay, Claimed, LetGo
  <2> QED BY <2>1, <2>2 DEF Quiet
<1>4. ASSUME NEW k \in Key, NEW rank \in 1..MaxRank, NEW member \in BOOLEAN,
             Arrive(k, rank, member)
      PROVE  Quiet
  <2>1. [key |-> k, rank |-> rank, member |-> member].member = member
    OBVIOUS
  <2> QED BY <1>4, <2>1 DEF Arrive, Quiet
<1>5. ASSUME NEW r \in Reader, ReadIndex(r) PROVE Quiet
  <2>1. /\ answer' = [answer EXCEPT ![r] = Ranks(index.newest)]
        /\ floor' = [floor EXCEPT ![r] = returned] /\ r \notin Waiting
        /\ UNCHANGED <<log, out, kept, building, ended, unclaimed, dropped>>
    BY <1>5 DEF ReadIndex, StartsRead
  <2>2. Waiting \subseteq Reader BY DEF TypeOK
  <2> QED BY <2>1, <2>2 DEF Quiet, TypeOK
<1> QED BY <1>1, <1>2, <1>3, <1>4, <1>5 DEF Next

\* What counts still does when entries come, and nothing stops to.
LEMMA QuietCounts ==
    ASSUME Quiet
    PROVE  /\ Counting(log, out) \subseteq Counting(log, out)'
           /\ log' \ Counting(log, out)' \subseteq log \ Counting(log, out)
BY DEF Quiet, Counting

\* More entries leave a source a source.
LEMMA SourceGrows ==
    ASSUME NEW S, NEW T, S \subseteq T, NEW k, NEW n
    PROVE  /\ Own(S, k, n) => Own(T, k, n) /\ Some(S, k, n)
           /\ Some(S, k, n) => Some(T, k, n)
BY DEF Own, Some, Of

\* The same for all who wait.
LEMMA WaitsGrows ==
    ASSUME NEW R, NEW S, NEW T, Waits(R, S),
           S \cup dropped \subseteq T \cup dropped',
           \A r \in R : answer'[r] = answer[r] /\ floor'[r] = floor[r]
    PROVE  \A r \in R, k \in Key :
             /\ Own(T \cup dropped', k, floor'[r][k])
             /\ Some(T \cup dropped', k, answer'[r][k])
<1> TAKE r \in R, k \in Key
<1>1. /\ Own(S \cup dropped, k, floor[r][k])
      /\ Some(S \cup dropped, k, answer[r][k])
  BY DEF Waits
<1>2. /\ Own(T \cup dropped', k, floor[r][k])
      /\ Some(T \cup dropped', k, answer[r][k])
  BY <1>1, SourceGrows
<1> QED BY <1>2

-----------------------------------------------------------------------------
(* Types, and the shapes of the index and the walks.                       *)

\* A version of every key, each from the log.
LEMMA StillOfLog ==
    ASSUME NEW f, NEW S, NEW T, OfLog(f, S), S \subseteq T PROVE OfLog(f, T)
BY DEF OfLog, Versions

\* The versions an index has are of type numbers.
LEMMA RanksType ==
    ASSUME NEW f \in Versions
    PROVE  /\ Ranks(f) \in [Key -> 0..MaxRank]
           /\ \A k \in Key : Ranks(f)[k] = f[k].rank
BY IndexAssumption DEF Ranks, Versions, NoDoc, Entry, IndexAssumption

\* What an own write that returns does to an index.
LEMMA IndexUpdated ==
    ASSUME TypeOK, NEW e \in log, index.built, index' = Updated(e)
    PROVE  /\ index' = Built(index'.newest) /\ OfLog(index'.newest, log)
           /\ \A k \in Key : index'.newest[k] = IF k = e.key THEN e
                                                ELSE index.newest[k]
<1>1. index' = Built([index.newest EXCEPT ![e.key] = e]) BY DEF Updated
<1>2. index'.newest = [index.newest EXCEPT ![e.key] = e]
  BY <1>1, BuiltForms
<1>3. e \in Entry /\ e.key \in Key BY DEF TypeOK, Entry
<1>4. index.newest \in Versions BY DEF TypeOK, OfLog
<1>5. index'.newest \in Versions BY <1>2, <1>3, <1>4 DEF Versions
<1>6. \A k \in Key : index'.newest[k] = IF k = e.key THEN e
                                        ELSE index.newest[k]
  BY <1>2, <1>4 DEF Versions
<1>7. OfLog(index'.newest, log) BY <1>3, <1>5, <1>6 DEF OfLog, TypeOK
<1> QED BY <1>1, <1>2, <1>6, <1>7

\* Every entry, version and rank is of its type, whatever interleaves.
LEMMA TypeStep ==
    ASSUME TypeOK, Forms, [Next]_vars PROVE TypeOK'
<1>1. CASE UNCHANGED vars BY <1>1 DEF TypeOK, vars, Versions, OfLog, Waiting
<1>2. ASSUME NEW k \in Key, Put(k) PROVE TypeOK'
  <2> DEFINE e == [key |-> k, rank |-> NextRank, member |-> FALSE]
  <2>1. log \subseteq Entry BY DEF TypeOK
  <2>2. e \in Entry
    <3>1. NextRank \in 1..MaxRank
      BY <1>2, <2>1, NextIsLast, IndexAssumption DEF Put, IndexAssumption
    <3> QED BY <3>1 DEF Entry
  <2>3. /\ log' = log \cup {e} /\ unclaimed' = unclaimed \cup {e}
        /\ writing' = Append(writing, e)
        /\ UNCHANGED <<out, kept, index, building, ended, answer, returned,
                       floor, dropped>>
    BY <1>2 DEF Put
  <2>4. \A x, y \in log' : x.rank = y.rank => x = y
    <3>1. \A x \in log : x.rank # e.rank
      <4>1. \A x \in log : x.rank < NextRank BY <2>1, NextIsLast
      <4>2. \A x \in log : x.rank \in Nat BY <2>1 DEF Entry
      <4>3. NextRank \in Nat BY <2>1, NextIsLast
      <4> QED BY <4>1, <4>2, <4>3
    <3> HIDE DEF e
    <3> QED BY <2>3, <3>1 DEF TypeOK
  <2> HIDE DEF e
  <2>5. \A i \in 1..Len(writing') : writing'[i] \in log'
    <3>1. writing \in Seq(Entry) BY DEF Forms
    <3>2. \A i \in 1..Len(writing) : writing[i] \in log BY DEF TypeOK
    <3>3. /\ Len(writing') = Len(writing) + 1 /\ Len(writing) \in Nat
          /\ \A i \in 1..Len(writing) : writing'[i] = writing[i]
          /\ writing'[Len(writing) + 1] = e
      BY <2>2, <2>3, <3>1
    <3> QED BY <2>3, <3>2, <3>3
  <2>6. /\ index'.built => OfLog(index'.newest, log')
        /\ ended'.going => ended'.seen \subseteq log'
                           /\ OfLog(ended'.newest, log')
    BY <2>3, StillOfLog DEF TypeOK
  <2> QED BY <2>1, <2>2, <2>3, <2>4, <2>5, <2>6 DEF TypeOK, Waiting
<1>3. CASE PutReturns
  <2> DEFINE e == Head(writing)
  <2>1. /\ e \in log /\ e \in Entry
        /\ \A i \in 1..Len(Tail(writing)) : Tail(writing)[i] \in log
    BY <1>3 DEF PutReturns, Forms, TypeOK
  <2>2. /\ unclaimed' = Claimed(e) /\ dropped' = dropped \cup LetGo(e)
        /\ index' = Updated(e) /\ writing' = Tail(writing)
        /\ returned' = [returned EXCEPT ![e.key] = e.rank]
        /\ UNCHANGED <<log, out, kept, building, ended, answer, floor>>
    BY <1>3 DEF PutReturns
  <2> HIDE DEF e
  <2>3. e.rank \in 0..MaxRank /\ e.key \in Key BY <2>1 DEF Entry
  <2>4. returned' \in [Key -> 0..MaxRank] BY <2>2, <2>3 DEF TypeOK
  <2>5. unclaimed' \subseteq log /\ dropped' \subseteq log
    BY <2>1, <2>2 DEF Claimed, LetGo, TypeOK
  <2>6. index'.built => OfLog(index'.newest, log)
    <3>1. CASE index.built BY <2>1, <2>2, <3>1, IndexUpdated
    <3>2. CASE ~index.built BY <2>2, <3>2 DEF Updated
    <3> QED BY <3>1, <3>2
  <2>7. index'.built => OfLog(index'.newest, log')
    BY <2>2, <2>6, StillOfLog
  <2>8. ended'.going => OfLog(ended'.newest, log')
    BY <2>2, StillOfLog DEF TypeOK
  <2> QED BY <2>1, <2>2, <2>4, <2>5, <2>7, <2>8 DEF TypeOK, Waiting
<1>4. ASSUME NEW k \in Key, NEW rank \in 1..MaxRank, NEW member \in BOOLEAN,
             Arrive(k, rank, member)
      PROVE  TypeOK'
  <2> DEFINE e == [key |-> k, rank |-> rank, member |-> member]
  <2>1. e \in Entry BY DEF Entry
  <2>2. \A x \in log : x.rank # e.rank BY <1>4 DEF Arrive
  <2>3. /\ log' = log \cup {e} /\ unclaimed' = unclaimed \cup {e}
        /\ UNCHANGED <<out, kept, index, building, ended, writing, answer,
                       returned, floor, dropped>>
    BY <1>4 DEF Arrive
  <2> HIDE DEF e
  <2>4. /\ index'.built => OfLog(index'.newest, log')
        /\ ended'.going => OfLog(ended'.newest, log')
    BY <2>3, StillOfLog DEF TypeOK
  <2>5. \A x, y \in log' : x.rank = y.rank => x = y
    BY <2>2, <2>3 DEF TypeOK
  <2> QED BY <2>1, <2>3, <2>4, <2>5 DEF TypeOK, Waiting
<1>5. ASSUME NEW before \in SUBSET { e \in log : e.member }, TakeOut(before)
      PROVE  TypeOK'
  <2>1. /\ kept' \subseteq log /\ dropped' \subseteq log
        /\ UNCHANGED <<log, building, ended, unclaimed, writing, answer,
                       returned, floor>>
    BY <1>5 DEF TakeOut, TypeOK
  <2>2. ~index'.built BY <1>5, BuiltForms DEF TakeOut
  <2>3. ended'.going => OfLog(ended'.newest, log')
    BY <2>1, StillOfLog DEF TypeOK
  <2> QED BY <2>1, <2>2, <2>3 DEF TypeOK, Waiting
<1>6. ASSUME NEW r \in Reader, ReadIndex(r) PROVE TypeOK'
  <2>1. index.newest \in Versions BY <1>6 DEF ReadIndex, Known, TypeOK, OfLog
  <2>2. Ranks(index.newest) \in [Key -> 0..MaxRank] BY <2>1, RanksType
  <2>3. /\ answer' = [answer EXCEPT ![r] = Ranks(index.newest)]
        /\ floor' = [floor EXCEPT ![r] = returned]
        /\ UNCHANGED <<log, out, kept, index, building, ended, unclaimed,
                       writing, returned, dropped>>
    BY <1>6 DEF ReadIndex, StartsRead
  <2>4. /\ answer' \in [Reader -> [Key -> 0..MaxRank]]
        /\ floor' \in [Reader -> [Key -> 0..MaxRank]]
    BY <2>2, <2>3 DEF TypeOK
  <2>5. /\ index'.built => OfLog(index'.newest, log')
        /\ ended'.going => OfLog(ended'.newest, log')
    BY <2>3, StillOfLog DEF TypeOK
  <2> QED BY <2>3, <2>4, <2>5 DEF TypeOK, Waiting
<1>7. ASSUME NEW r \in Reader, ReadByWalk(r) PROVE TypeOK'
  <2>1. /\ building'.readers = building.readers \cup {r}
        /\ building'.log \subseteq log /\ r \notin Waiting
    BY <1>7, ReadWaits DEF ReadByWalk, StartsRead
  <2>2. ~index'.built BY <1>7, BuiltForms DEF ReadByWalk
  <2>3. /\ floor' = [floor EXCEPT ![r] = returned] /\ unclaimed' = {}
        /\ UNCHANGED <<log, out, kept, ended, writing, answer, returned>>
    BY <1>7 DEF ReadByWalk, StartsRead
  <2>4. dropped' \subseteq log BY <1>7 DEF ReadByWalk, TypeOK
  <2>5. ended'.going => OfLog(ended'.newest, log')
    BY <2>3, StillOfLog DEF TypeOK
  <2>6. floor' \in [Reader -> [Key -> 0..MaxRank]] BY <2>3 DEF TypeOK
  <2>7. /\ Waiting' \subseteq Reader
        /\ building'.readers \cap ended'.readers = {}
    BY <2>1, <2>3 DEF Waiting, TypeOK
  <2> QED BY <2>1, <2>2, <2>3, <2>4, <2>5, <2>6, <2>7 DEF TypeOK
<1>8. CASE WalkEnds
  <2>1. /\ ended'.readers = building.readers /\ ended'.seen \subseteq log
        /\ OfLog(ended'.newest, log)
    BY <1>8, EndedForm DEF OfLog, Of
  <2>2. /\ ~building'.going /\ building'.readers = {}
        /\ UNCHANGED <<log, out, kept, index, unclaimed, writing, answer,
                       returned, floor, dropped>>
    BY <1>8, BuiltForms DEF WalkEnds
  <2>3. /\ OfLog(ended'.newest, log')
        /\ index'.built => OfLog(index'.newest, log')
    BY <2>1, <2>2, StillOfLog DEF TypeOK
  <2> QED BY <2>1, <2>2, <2>3 DEF TypeOK, Waiting
<1>9. CASE Told
  <2>1. /\ index'.newest = ended.newest /\ ended.newest \in Versions
        /\ OfLog(ended.newest, log)
    BY <1>9, BuiltForms DEF Told, TypeOK, OfLog
  <2>2. /\ ~ended'.going /\ ended'.readers = {}
        /\ answer' = [r \in Reader |-> IF r \in ended.readers
                                       THEN Ranks(ended.newest)
                                       ELSE answer[r]]
        /\ UNCHANGED <<log, out, kept, building, unclaimed, writing, returned,
                       floor>>
    BY <1>9, BuiltForms DEF Told
  <2>3. OfLog(index'.newest, log') BY <2>1, <2>2, StillOfLog
  <2>4. Ranks(ended.newest) \in [Key -> 0..MaxRank] BY <2>1, RanksType
  <2>5. answer' \in [Reader -> [Key -> 0..MaxRank]]
    BY <2>2, <2>4 DEF TypeOK
  <2>6. dropped' \subseteq log BY <1>9 DEF Told, TypeOK
  <2> QED BY <2>2, <2>3, <2>5, <2>6 DEF TypeOK, Waiting
<1>10. CASE WalkFails
  <2>1. /\ ~building'.going /\ building'.readers = {}
        /\ floor' = [r \in Reader |-> IF r \in building.readers
                                      THEN [k \in Key |-> 0] ELSE floor[r]]
        /\ UNCHANGED <<log, out, kept, index, ended, unclaimed, writing,
                       answer, returned, dropped>>
    BY <1>10, BuiltForms DEF WalkFails
  <2>2. 0 \in 0..MaxRank BY IndexAssumption DEF IndexAssumption
  <2>3. floor' \in [Reader -> [Key -> 0..MaxRank]]
    BY <2>1, <2>2 DEF TypeOK
  <2>4. /\ index'.built => OfLog(index'.newest, log')
        /\ ended'.going => OfLog(ended'.newest, log')
    BY <2>1, StillOfLog DEF TypeOK
  <2> QED BY <2>1, <2>3, <2>4 DEF TypeOK, Waiting
<1> QED
  BY <1>1, <1>2, <1>3, <1>4, <1>5, <1>6, <1>7, <1>8, <1>9, <1>10 DEF Next

\* An index is a version of every key, a walk holds a part of the log, and own
\* writes are not a member's.
LEMMA FormsStep ==
    ASSUME TypeOK, Forms, [Next]_vars PROVE Forms'
<1>1. out' \in BOOLEAN /\ (out => out') /\ log \subseteq log'
  BY DEF Forms, Next, vars, Put, PutReturns, Arrive, TakeOut, ReadIndex,
         ReadByWalk, WalkEnds, Told, WalkFails
<1>2. \/ building' = NoWalk
      \/ building' \in [going : {TRUE}, readers : SUBSET Reader,
                        log : SUBSET log, out : BOOLEAN]
         /\ (building'.out => out)
  <2>1. CASE \E r \in Reader : ReadByWalk(r)
    <3>1. PICK r \in Reader : ReadByWalk(r) BY <2>1
    <3>2. CASE building.going BY <3>1, <3>2, ReadWaits DEF Forms
    <3>3. CASE ~building.going BY <3>1, <3>3, ReadWaits DEF Forms
    <3> QED BY <3>2, <3>3
  <2>2. CASE building' = building \/ building' = NoWalk
    BY <2>2, BuiltForms DEF Forms
  <2>3. \/ \E r \in Reader : ReadByWalk(r)
        \/ building' = building \/ building' = NoWalk
    BY DEF Next, vars, Put, PutReturns, Arrive, TakeOut, ReadIndex,
           WalkEnds, Told, WalkFails
  <2> QED BY <2>1, <2>2, <2>3
<1>3. \/ ended' = NoWalk
      \/ ended' \in [going : {TRUE}, readers : SUBSET Reader,
                     seen : SUBSET log, out : BOOLEAN, newest : Versions]
         /\ (ended'.out => out)
  <2>1. CASE WalkEnds
    <3>1. building.going BY <2>1 DEF WalkEnds
    <3> QED BY <2>1, <3>1, EndedForm DEF Forms
  <2>2. CASE ended' = ended \/ ended' = NoWalk
    BY <2>2, BuiltForms DEF Forms
  <2>3. WalkEnds \/ ended' = ended \/ ended' = NoWalk
    BY DEF Next, vars, Put, PutReturns, Arrive, TakeOut, ReadIndex,
           ReadByWalk, Told, WalkFails
  <2> QED BY <2>1, <2>2, <2>3
<1>4. index' = NotBuilt \/ \E f \in Versions : index' = Built(f)
  <2>1. CASE PutReturns
    <3>1. Head(writing) \in log /\ index' = Updated(Head(writing))
      BY <2>1 DEF PutReturns, TypeOK, Forms
    <3>2. CASE index.built BY <3>1, <3>2, IndexUpdated DEF OfLog
    <3>3. CASE ~index.built BY <3>1, <3>3 DEF Updated, Forms
    <3> QED BY <3>2, <3>3
  <2>2. CASE Told BY <2>2, WalkForm DEF Told
  <2>3. CASE index' = index \/ index' = NotBuilt BY <2>3 DEF Forms
  <2>4. PutReturns \/ Told \/ index' = index \/ index' = NotBuilt
    BY DEF Next, vars, Put, Arrive, TakeOut, ReadIndex, ReadByWalk, WalkEnds,
           WalkFails
  <2> QED BY <2>1, <2>2, <2>3, <2>4
<1>5. writing' \in Seq(Entry) /\ \A i \in 1..Len(writing') : ~writing'[i].member
  <2>1. ASSUME NEW k \in Key, Put(k)
        PROVE  /\ writing' \in Seq(Entry)
               /\ \A i \in 1..Len(writing') : ~writing'[i].member
    <3> DEFINE e == [key |-> k, rank |-> NextRank, member |-> FALSE]
    <3>1. NextRank \in 1..MaxRank
      BY <2>1, NextIsLast, IndexAssumption DEF Put, IndexAssumption, TypeOK
    <3>2. e \in Entry /\ ~e.member BY <3>1 DEF Entry
    <3>3. writing' = Append(writing, e) BY <2>1 DEF Put
    <3> HIDE DEF e
    <3> QED BY <3>2, <3>3 DEF Forms
  <2>2. CASE PutReturns
    <3>1. writing # <<>> /\ writing' = Tail(writing)
      BY <2>2 DEF PutReturns
    <3>2. /\ Tail(writing) \in Seq(Entry) /\ Len(writing) \in Nat
          /\ Len(Tail(writing)) = Len(writing) - 1
          /\ \A i \in 1..Len(Tail(writing)) : Tail(writing)[i] = writing[i + 1]
      BY <3>1 DEF Forms
    <3> QED BY <3>1, <3>2 DEF Forms
  <2>3. CASE writing' = writing BY <2>3 DEF Forms
  <2>4. (\E k \in Key : Put(k)) \/ PutReturns \/ writing' = writing
    BY DEF Next, vars, Arrive, TakeOut, ReadIndex, ReadByWalk, WalkEnds, Told,
           WalkFails
  <2> QED BY <2>1, <2>2, <2>3, <2>4
<1>6. Versions' = Versions BY DEF Versions
<1>7. \/ building' = NoWalk
      \/ building' \in [going : {TRUE}, readers : SUBSET Reader,
                        log : SUBSET log', out : BOOLEAN]
  BY <1>1, <1>2
<1>8. \/ ended' = NoWalk
      \/ ended' \in [going : {TRUE}, readers : SUBSET Reader,
                     seen : SUBSET log', out : BOOLEAN, newest : Versions]
  BY <1>1, <1>3
<1>9. /\ building'.going /\ building'.out => out'
      /\ ended'.going /\ ended'.out => out'
  BY <1>1, <1>2, <1>3, BuiltForms
<1> QED BY <1>1, <1>4, <1>5, <1>6, <1>7, <1>8, <1>9 DEF Forms

-----------------------------------------------------------------------------
(* Where ranks come from.                                                  *)

\* The versions of an index are of the log.
LEMMA RanksHaveSource ==
    ASSUME NEW f, NEW S, OfLog(f, S), NEW k \in Key
    PROVE  Some(S, k, Ranks(f)[k])
<1>1. f[k] = NoDoc \/ f[k] \in Of(S, k) BY DEF OfLog, Of
<1>2. Ranks(f)[k] = f[k].rank BY DEF Ranks
<1> QED BY <1>1, <1>2 DEF Some, Of, NoDoc

\* What was returned or told is in the log.
LEMMA SourcesStep ==
    ASSUME TypeOK, Forms, Sources, [Next]_vars PROVE Sources'
<1>1. CASE log \subseteq log' /\ UNCHANGED <<answer, returned>>
  BY <1>1, SourceGrows DEF Sources
<1>2. CASE PutReturns
  <2>1. Head(writing) \in log /\ ~Head(writing).member
    BY <1>2 DEF PutReturns, Forms, TypeOK
  <2>2. \A k \in Key : returned'[k] = IF k = Head(writing).key
                                      THEN Head(writing).rank
                                      ELSE returned[k]
    BY <1>2 DEF PutReturns, TypeOK
  <2>3. UNCHANGED <<log, answer>> BY <1>2 DEF PutReturns
  <2> QED BY <2>1, <2>2, <2>3 DEF Sources, Own, Of, Some
<1>3. ASSUME NEW f, OfLog(f, log), UNCHANGED <<log, returned>>,
             \A x \in Reader : answer'[x] = Ranks(f) \/ answer'[x] = answer[x]
      PROVE  Sources'
  <2>1. ASSUME NEW x \in Reader, NEW k \in Key
        PROVE  Some(log, k, answer'[x][k])
    <3>1. Some(log, k, Ranks(f)[k]) BY <1>3, RanksHaveSource
    <3>2. Some(log, k, answer[x][k]) BY DEF Sources
    <3> QED BY <1>3, <3>1, <3>2
  <2> QED BY <1>3, <2>1 DEF Sources, Own, Some
<1>4. ASSUME NEW r \in Reader, ReadIndex(r) PROVE Sources'
  <2>1. /\ OfLog(index.newest, log) /\ UNCHANGED <<log, returned>>
        /\ answer' = [answer EXCEPT ![r] = Ranks(index.newest)]
    BY <1>4 DEF ReadIndex, Known, TypeOK
  <2>2. \A x \in Reader : answer'[x] = Ranks(index.newest)
                          \/ answer'[x] = answer[x]
    BY <2>1 DEF TypeOK
  <2> QED BY <1>3, <2>1, <2>2
<1>5. CASE Told
  <2>1. /\ OfLog(ended.newest, log) /\ UNCHANGED <<log, returned>>
        /\ \A x \in Reader : answer'[x] = Ranks(ended.newest)
                             \/ answer'[x] = answer[x]
    BY <1>5 DEF Told, TypeOK
  <2> QED BY <1>3, <2>1
<1>6. \/ log \subseteq log' /\ UNCHANGED <<answer, returned>>
      \/ PutReturns \/ Told \/ \E r \in Reader : ReadIndex(r)
  BY DEF Next, vars, Put, Arrive, TakeOut, ReadByWalk, WalkEnds, WalkFails
<1> QED BY <1>1, <1>2, <1>4, <1>5, <1>6

-----------------------------------------------------------------------------
(* Walks, and what they may miss.                                          *)

\* What a walk that is going misses stays announced or let go.
LEMMA GoingStep ==
    ASSUME TypeOK, Forms, Sources, Going, [Next]_vars PROVE Going'
<1>1. CASE ~building'.going BY <1>1 DEF Going
<1>2. ASSUME Quiet, building'.going PROVE Going'
  <2>1. /\ building.going /\ OnItsWay
        /\ UNCHANGED <<building, ended, out>>
    BY <1>2 DEF Quiet, OnItsWay
  <2>2. log' \ building.log \subseteq unclaimed' \cup dropped'
    BY <1>2, <2>1 DEF Quiet, Going
  <2>3. building.out # out
          => log' \ Counting(log, out)' \subseteq dropped'
    BY <1>2, <2>1, QuietCounts DEF Quiet, Going
  <2>4. \A r \in building.readers :
           answer'[r] = answer[r] /\ floor'[r] = floor[r]
    BY <1>2 DEF Quiet, Waiting
  <2>5. building.log \cup dropped \subseteq building.log \cup dropped'
    BY <1>2 DEF Quiet
  <2>6. Waits(building.readers, building.log) BY <2>1 DEF Going
  <2>7. Waits(building.readers, building.log)'
    <3>1. \A x \in building.readers, k \in Key :
            /\ Own(building.log \cup dropped', k, floor'[x][k])
            /\ Some(building.log \cup dropped', k, answer'[x][k])
      BY <2>4, <2>5, <2>6, WaitsGrows
    <3> QED BY <2>1, <3>1 DEF Waits
  <2> QED BY <2>1, <2>2, <2>3, <2>7 DEF Going
<1>3. ASSUME NEW before \in SUBSET { e \in log : e.member }, TakeOut(before),
             building'.going
      PROVE  Going'
  <2>1. /\ building.going /\ OnItsWay /\ ~out /\ out' /\ kept' = before
        /\ dropped' = dropped \cup { e \in log : e.member /\ e \notin before }
        /\ UNCHANGED <<log, building, ended, unclaimed, answer, floor>>
    BY <1>3 DEF TakeOut, OnItsWay
  <2>2. log' \ building.log \subseteq unclaimed' \cup dropped'
    BY <2>1 DEF Going
  <2>3. log' \ Counting(log, out)' \subseteq dropped'
    BY <2>1 DEF Counting
  <2>4. building.log \cup dropped \subseteq building.log \cup dropped'
    BY <2>1
  <2>5. Waits(building.readers, building.log) BY <2>1 DEF Going
  <2>6. Waits(building.readers, building.log)'
    BY <2>1, <2>4, <2>5, WaitsGrows DEF Waits
  <2> QED BY <2>1, <2>2, <2>3, <2>6 DEF Going
<1>4. ASSUME NEW r \in Reader, ReadByWalk(r) PROVE Going'
  <2>1. /\ building'.going /\ building'.readers = building.readers \cup {r}
        /\ building'.log \subseteq log
        /\ building.going => /\ building'.log = building.log
                             /\ building'.out = building.out
        /\ ~building.going => building'.log = log /\ building'.out = out
    BY <1>4, ReadWaits
  <2>2. /\ floor' = [floor EXCEPT ![r] = returned] /\ r \notin Waiting
        /\ unclaimed' = {} /\ dropped \subseteq dropped'
        /\ building.going => dropped' = dropped \cup unclaimed
        /\ UNCHANGED <<log, out, kept, ended, answer, returned>>
    BY <1>4 DEF ReadByWalk, StartsRead, OnItsWay
  <2>3. log' \ building'.log \subseteq dropped'
    BY <2>1, <2>2 DEF Going
  <2>4. building'.out # out' => log' \ Counting(log, out)' \subseteq dropped'
    BY <2>1, <2>2 DEF Going, Counting
  <2>5. ended'.going => /\ ended'.seen \subseteq building'.log
                        /\ ended'.out => building'.out
    <3>1. CASE building.going BY <2>1, <2>2, <3>1 DEF Going
    <3>2. CASE ~building.going
      BY <2>1, <2>2, <3>2, WalkForm DEF Forms
    <3> QED BY <3>1, <3>2
  <2>6. ASSUME NEW x \in building'.readers, NEW k \in Key
        PROVE  /\ Own(building'.log \cup dropped', k, floor'[x][k])
               /\ Some(building'.log \cup dropped', k, answer'[x][k])
    <3>1. CASE x = r
      <4>1. log \subseteq building'.log \cup dropped' BY <2>2, <2>3
      <4>2. floor'[x] = returned /\ answer'[x] = answer[x]
        BY <2>2, <3>1 DEF TypeOK
      <4>3. Own(log, k, returned[k]) /\ Some(log, k, answer[x][k])
        BY <3>1 DEF Sources
      <4> QED BY <4>1, <4>2, <4>3, SourceGrows
    <3>2. CASE x # r
      <4>1. x \in building.readers BY <2>1, <2>6, <3>2
      <4>2. building.going BY <4>1, WalkForm
      <4>3. floor'[x] = floor[x] /\ answer'[x] = answer[x]
        BY <2>2, <3>2, <4>1, WalkForm DEF TypeOK
      <4>4. /\ Own(building.log \cup dropped, k, floor[x][k])
            /\ Some(building.log \cup dropped, k, answer[x][k])
        BY <4>1, <4>2 DEF Going, Waits
      <4>5. building.log \cup dropped \subseteq building'.log \cup dropped'
        BY <2>1, <2>2, <4>2
      <4> QED BY <4>3, <4>4, <4>5, SourceGrows
    <3> QED BY <3>1, <3>2
  <2>7. Waits(building.readers, building.log)' BY <2>6 DEF Waits
  <2> QED BY <2>3, <2>4, <2>5, <2>7 DEF Going
<1>5. ASSUME Told, building'.going PROVE Going'
  <2>1. /\ building.going /\ ended.going /\ ~ended'.going
        /\ dropped' = dropped \ (IF ended.out = out THEN ended.seen
                                 ELSE Counting(ended.seen, out))
        /\ UNCHANGED <<log, out, kept, building, unclaimed, floor>>
    BY <1>5, BuiltForms DEF Told
  <2>2. ended.seen \subseteq building.log /\ (ended.out => building.out)
    BY <2>1 DEF Going
  <2>3. dropped \ ended.seen \subseteq dropped' /\ dropped' \subseteq dropped
    BY <2>1 DEF Counting
  <2>4. log' \ building'.log \subseteq unclaimed' \cup dropped'
    BY <2>1, <2>2, <2>3 DEF Going
  <2>5. ASSUME building.out # out
        PROVE  log' \ Counting(log, out)' \subseteq dropped'
    <3>1. out /\ ~building.out BY <2>1, <2>5, WalkForm DEF Forms
    <3>2. ended.out # out BY <2>2, <3>1
    <3>3. dropped' = dropped \ Counting(ended.seen, out) BY <2>1, <3>2
    <3>4. ended.seen \subseteq log BY <2>1, WalkForm
    <3>5. Counting(ended.seen, out) \subseteq Counting(log, out)
      BY <3>4 DEF Counting
    <3>6. log \ Counting(log, out) \subseteq dropped
      BY <2>1, <2>5 DEF Going
    <3>7. Counting(log, out)' = Counting(log, out) BY <2>1 DEF Counting
    <3> QED BY <2>1, <3>3, <3>5, <3>6, <3>7
  <2>6. \A r \in building.readers :
           answer'[r] = answer[r] /\ floor'[r] = floor[r]
    <3>1. \A r \in building.readers : r \in Reader /\ r \notin ended.readers
      BY WalkForm DEF TypeOK
    <3> QED BY <1>5, <2>1, <3>1 DEF Told
  <2>7. building.log \cup dropped \subseteq building.log \cup dropped'
    BY <2>2, <2>3
  <2>8. Waits(building.readers, building.log) BY <2>1 DEF Going
  <2>9. Waits(building.readers, building.log)'
    <3>1. \A x \in building.readers, k \in Key :
            /\ Own(building.log \cup dropped', k, floor'[x][k])
            /\ Some(building.log \cup dropped', k, answer'[x][k])
      BY <2>6, <2>7, <2>8, WaitsGrows
    <3> QED BY <2>1, <3>1 DEF Waits
  <2> QED BY <2>1, <2>4, <2>5, <2>9 DEF Going
<1>6. WalkEnds \/ WalkFails => ~building'.going
  BY BuiltForms DEF WalkEnds, WalkFails
<1> QED BY <1>1, <1>2, <1>3, <1>4, <1>5, <1>6, Steps

\* What a walk that has ended missed stays announced or let go.
LEMMA OverStep ==
    ASSUME TypeOK, Forms, Going, Over, [Next]_vars PROVE Over'
<1>1. CASE ~ended'.going BY <1>1 DEF Over
<1>2. ASSUME Quiet, ended'.going PROVE Over'
  <2>1. ended.going /\ OnItsWay /\ UNCHANGED <<building, ended, out, kept>>
    BY <1>2 DEF Quiet, OnItsWay
  <2>2. log' \ ended.seen \subseteq unclaimed' \cup dropped'
    BY <1>2, <2>1 DEF Quiet, Over
  <2>3. \A k \in Key : ended.newest[k] # NoDoc =>
          /\ ended.newest[k] \in ended.seen
          /\ \/ ended.newest[k] \in Counting(log, out)'
             \/ ended.out # out /\ ended.newest[k] \in dropped'
    BY <1>2, <2>1, QuietCounts DEF Quiet, Over
  <2>4. Counting(ended.seen, out)' = Counting(ended.seen, out)
    BY <2>1 DEF Counting
  <2>5. \A r \in ended.readers :
           answer'[r] = answer[r] /\ floor'[r] = floor[r]
    BY <1>2 DEF Quiet, Waiting
  <2>6. ended.seen \cup dropped \subseteq ended.seen \cup dropped'
    BY <1>2 DEF Quiet
  <2>7. Waits(ended.readers, ended.seen) BY <2>1 DEF Over
  <2>8. Waits(ended.readers, ended.seen)'
    <3>1. \A x \in ended.readers, k \in Key :
            /\ Own(ended.seen \cup dropped', k, floor'[x][k])
            /\ Some(ended.seen \cup dropped', k, answer'[x][k])
      BY <2>5, <2>6, <2>7, WaitsGrows
    <3> QED BY <2>1, <3>1 DEF Waits
  <2> QED BY <2>1, <2>2, <2>3, <2>4, <2>8 DEF Over
<1>3. ASSUME NEW before \in SUBSET { e \in log : e.member }, TakeOut(before),
             ended'.going
      PROVE  Over'
  <2>1. /\ ended.going /\ OnItsWay /\ ~out /\ out' /\ kept' = before
        /\ dropped' = dropped \cup { e \in log : e.member /\ e \notin before }
        /\ UNCHANGED <<log, building, ended, unclaimed, answer, floor>>
    BY <1>3 DEF TakeOut, OnItsWay
  <2>2. ~ended.out /\ ended.out # out' BY <2>1, WalkForm DEF Forms
  <2>3. log' \ ended.seen \subseteq unclaimed' \cup dropped'
    BY <2>1 DEF Over
  <2>4. \A e \in log : e \in Counting(log, out)' \/ e \in dropped'
    BY <2>1 DEF Counting
  <2>5. \A k \in Key : ended.newest[k] # NoDoc =>
          /\ ended.newest[k] \in ended.seen
          /\ \/ ended.newest[k] \in Counting(log, out)'
             \/ ended.out # out' /\ ended.newest[k] \in dropped'
    <3>1. ended.seen \subseteq log BY <2>1, WalkForm
    <3> QED BY <2>1, <2>2, <2>4, <3>1 DEF Over
  <2>6. Counting(ended.seen, out)' \subseteq Counting(ended.seen, out)
    BY <2>1 DEF Counting
  <2>7. \A e \in Counting(ended.seen, out)' :
           e.rank <= ended'.newest[e.key].rank
    BY <2>1, <2>6 DEF Over, Counting
  <2>8. ended.seen \cup dropped \subseteq ended.seen \cup dropped'
    BY <2>1
  <2>9. Waits(ended.readers, ended.seen) BY <2>1 DEF Over
  <2>10. Waits(ended.readers, ended.seen)'
    BY <2>1, <2>8, <2>9, WaitsGrows DEF Waits
  <2> QED BY <2>1, <2>3, <2>5, <2>7, <2>10 DEF Over
<1>4. ASSUME NEW r \in Reader, ReadByWalk(r), ended'.going PROVE Over'
  <2>1. /\ ended.going /\ floor' = [floor EXCEPT ![r] = returned]
        /\ r \notin Waiting
        /\ unclaimed' = {} /\ dropped' = dropped \cup unclaimed
        /\ UNCHANGED <<log, out, kept, ended, answer>>
    BY <1>4 DEF ReadByWalk, StartsRead, OnItsWay
  <2>2. log' \ ended.seen \subseteq unclaimed' \cup dropped'
    BY <2>1 DEF Over
  <2>3. /\ Counting(log, out)' = Counting(log, out)
        /\ Counting(ended.seen, out)' = Counting(ended.seen, out)
    BY <2>1 DEF Counting
  <2>4. \A k \in Key : ended.newest[k] # NoDoc =>
          /\ ended.newest[k] \in ended.seen
          /\ \/ ended.newest[k] \in Counting(log, out)'
             \/ ended.out # out' /\ ended.newest[k] \in dropped'
    BY <2>1, <2>3 DEF Over
  <2>5. \A x \in ended.readers :
           answer'[x] = answer[x] /\ floor'[x] = floor[x]
    <3>1. \A x \in ended.readers : x \in Reader /\ x # r
      BY <2>1, WalkForm DEF Waiting
    <3> QED BY <2>1, <3>1 DEF TypeOK
  <2>6. ended.seen \cup dropped \subseteq ended.seen \cup dropped'
    BY <2>1
  <2>7. Waits(ended.readers, ended.seen) BY <2>1 DEF Over
  <2>8. Waits(ended.readers, ended.seen)'
    <3>1. \A x \in ended.readers, k \in Key :
            /\ Own(ended.seen \cup dropped', k, floor'[x][k])
            /\ Some(ended.seen \cup dropped', k, answer'[x][k])
      BY <2>5, <2>6, <2>7, WaitsGrows
    <3> QED BY <2>1, <3>1 DEF Waits
  <2> QED BY <2>1, <2>2, <2>3, <2>4, <2>8 DEF Over
<1>5. CASE WalkEnds
  <2>1. /\ ended'.readers = building.readers /\ ended'.out = building.out
        /\ building.log \subseteq ended'.seen /\ ended'.seen \subseteq log
        /\ \A k \in Key : ended'.newest[k] # NoDoc =>
              /\ ended'.newest[k] \in Of(ended'.seen, k)
              /\ \/ ended'.newest[k] \in Counting(ended'.seen, out)
                 \/ building.out # out
        /\ \A e \in Counting(ended'.seen, out) :
              e.rank <= ended'.newest[e.key].rank
    BY <1>5, EndedForm
  <2>2. /\ building.going
        /\ UNCHANGED <<log, out, kept, unclaimed, answer, floor, dropped>>
    BY <1>5 DEF WalkEnds
  <2>3. log' \ ended'.seen \subseteq unclaimed' \cup dropped'
    BY <2>1, <2>2 DEF Going
  <2>4. /\ Counting(log, out)' = Counting(log, out)
        /\ Counting(ended.seen, out)' = Counting(ended'.seen, out)
        /\ Counting(ended'.seen, out) \subseteq Counting(log, out)
    BY <2>1, <2>2 DEF Counting
  <2>5. \A k \in Key : ended'.newest[k] # NoDoc =>
          /\ ended'.newest[k] \in ended'.seen
          /\ \/ ended'.newest[k] \in Counting(log, out)'
             \/ ended'.out # out' /\ ended'.newest[k] \in dropped'
    BY <2>1, <2>2, <2>4 DEF Going, Of
  <2>6. Waits(building.readers, building.log) BY <2>2 DEF Going
  <2>7. building.log \cup dropped \subseteq ended'.seen \cup dropped'
    BY <2>1, <2>2
  <2>8. Waits(ended.readers, ended.seen)'
    BY <2>1, <2>2, <2>6, <2>7, WaitsGrows DEF Waits
  <2> QED BY <2>1, <2>2, <2>3, <2>4, <2>5, <2>8 DEF Over
<1>6. ASSUME WalkFails, ended'.going PROVE Over'
  <2>1. /\ ended.going
        /\ UNCHANGED <<log, out, kept, ended, unclaimed, answer, dropped>>
    BY <1>6 DEF WalkFails
  <2>2. \A r \in ended.readers : answer'[r] = answer[r] /\ floor'[r] = floor[r]
    <3>1. \A r \in ended.readers : r \in Reader /\ r \notin building.readers
      BY WalkForm DEF TypeOK
    <3> QED BY <1>6, <2>1, <3>1 DEF WalkFails
  <2>3. Waits(ended.readers, ended.seen) BY <2>1 DEF Over
  <2>4. ended.seen \cup dropped \subseteq ended.seen \cup dropped'
    BY <2>1
  <2>5. Waits(ended.readers, ended.seen)'
    BY <2>1, <2>2, <2>3, <2>4, WaitsGrows DEF Waits
  <2> QED BY <2>1, <2>5 DEF Over, Counting
<1>7. Told => ~ended'.going BY BuiltForms DEF Told
<1> QED BY <1>1, <1>2, <1>3, <1>4, <1>5, <1>6, <1>7, Steps

-----------------------------------------------------------------------------
(* What an index is right about.                                           *)

\* An index stays right but for what is announced or was let go.
LEMMA RightStep ==
    ASSUME TypeOK, Forms, Going, Over, Right, [Next]_vars PROVE Right'
<1>1. CASE ~index'.built BY <1>1 DEF Right
<1>2. ASSUME index.built, UNCHANGED <<index, out, kept>>, log \subseteq log',
             log' \ log \subseteq unclaimed',
             unclaimed \subseteq unclaimed', dropped \subseteq dropped'
      PROVE  Right'
  <2>1. /\ Counting(log, out) \subseteq Counting(log, out)'
        /\ Counting(log, out)' \ Counting(log, out) \subseteq unclaimed'
    BY <1>2 DEF Counting
  <2>2. ASSUME NEW k \in Key, NEW x \in Of(Counting(log, out)', k),
               x.rank > index.newest[k].rank
        PROVE  x \in unclaimed' \cup dropped'
    <3>1. CASE x \in Counting(log, out)
      <4>1. x \in Of(Counting(log, out), k) BY <3>1 DEF Of
      <4> QED BY <1>2, <2>2, <4>1 DEF Right
    <3>2. CASE x \notin Counting(log, out) BY <2>1, <2>2, <3>2 DEF Of
    <3> QED BY <3>1, <3>2
  <2>3. ASSUME NEW k \in Key, index.newest[k] # NoDoc
        PROVE  index.newest[k] \in Counting(log, out)' \cup dropped'
    BY <1>2, <2>1, <2>3 DEF Right
  <2> QED BY <1>2, <2>2, <2>3 DEF Right, Of
<1>3. ASSUME PutReturns, index.built PROVE Right'
  <2> DEFINE e == Head(writing)
  <2>1. /\ writing # <<>> /\ index' = Updated(e) /\ unclaimed' = Claimed(e)
        /\ dropped' = dropped \cup LetGo(e)
        /\ UNCHANGED <<log, out, kept>>
    BY <1>3 DEF PutReturns
  <2>2. e \in log /\ e \in Entry /\ ~e.member BY <2>1 DEF Forms, TypeOK
  <2> HIDE DEF e
  <2>3. \A k \in Key : index'.newest[k] = IF k = e.key THEN e
                                          ELSE index.newest[k]
    BY <1>3, <2>1, <2>2, IndexUpdated
  <2>4. unclaimed \ {e} \subseteq unclaimed' /\ dropped \subseteq dropped'
    BY <2>1 DEF Claimed
  <2>5. Counting(log, out)' = Counting(log, out) /\ e \in Counting(log, out)
    BY <2>1, <2>2 DEF Counting
  <2>6. ASSUME NEW k \in Key, NEW x \in Of(Counting(log, out), k),
               x.rank > index'.newest[k].rank
        PROVE  x \in unclaimed' \cup dropped'
    <3>1. x \in log /\ x.key = k /\ x.rank \in Nat /\ e.rank \in Nat
      BY <2>2 DEF Of, Counting, TypeOK, Entry
    <3>2. CASE k # e.key
      <4>1. x # e /\ index'.newest[k] = index.newest[k]
        BY <2>3, <3>1, <3>2
      <4>2. x \in unclaimed \cup dropped BY <1>3, <2>6, <4>1 DEF Right
      <4> QED BY <2>4, <4>1, <4>2
    <3>3. CASE k = e.key /\ x.rank > index.newest[k].rank
      <4>1. x.rank > e.rank BY <2>3, <2>6, <3>3
      <4>2. x # e BY <3>1, <4>1
      <4>3. x \in unclaimed \cup dropped BY <1>3, <3>3 DEF Right
      <4> QED BY <2>4, <4>2, <4>3
    <3>4. CASE k = e.key /\ ~(x.rank > index.newest[k].rank)
      <4>1. x.rank > e.rank BY <2>3, <2>6, <3>4
      <4>2. index.newest[k].rank \in Nat
        BY <1>3 DEF TypeOK, OfLog, Versions, Entry, NoDoc
      <4>3. index.newest[e.key].rank > e.rank BY <3>1, <3>4, <4>1, <4>2
      <4>4. x \in LetGo(e) BY <1>3, <3>1, <3>4, <4>1, <4>3 DEF LetGo
      <4> QED BY <2>1, <4>4
    <3> QED BY <3>2, <3>3, <3>4
  <2>7. ASSUME NEW k \in Key, index'.newest[k] # NoDoc
        PROVE  index'.newest[k] \in Counting(log, out) \cup dropped'
    <3>1. CASE k = e.key BY <2>3, <2>5, <3>1
    <3>2. CASE k # e.key
      <4>1. index'.newest[k] = index.newest[k] BY <2>3, <3>2
      <4> QED BY <1>3, <2>4, <2>7, <4>1 DEF Right
    <3> QED BY <3>1, <3>2
  <2> QED BY <2>5, <2>6, <2>7 DEF Right, Of
<1>4. CASE Told
  <2>1. /\ ended.going /\ index'.newest = ended.newest
        /\ dropped' = dropped \ (IF ended.out = out THEN ended.seen
                                 ELSE Counting(ended.seen, out))
        /\ UNCHANGED <<log, out, kept, unclaimed>>
    BY <1>4, BuiltForms DEF Told
  <2>2. Counting(log, out)' = Counting(log, out) BY <2>1 DEF Counting
  <2>3. dropped \ ended.seen \subseteq dropped' BY <2>1 DEF Counting
  <2>4. ASSUME NEW k \in Key, NEW x \in Of(Counting(log, out), k),
               x.rank > ended.newest[k].rank
        PROVE  x \in unclaimed' \cup dropped'
    <3>1. x \in log /\ x.key = k /\ x \in Counting(log, out)
      BY DEF Of, Counting
    <3>2. x \notin ended.seen
      <4>1. ASSUME x \in ended.seen PROVE x.rank <= ended.newest[k].rank
        <5>1. x \in Counting(ended.seen, out) BY <3>1, <4>1 DEF Counting
        <5> QED BY <2>1, <3>1, <5>1 DEF Over
      <4>2. x.rank \in Nat /\ ended.newest[k].rank \in Nat
        BY <2>1, <3>1 DEF TypeOK, OfLog, Versions, Entry, NoDoc
      <4> QED BY <2>4, <4>1, <4>2
    <3>3. x \in unclaimed \cup dropped BY <2>1, <3>1, <3>2 DEF Over
    <3> QED BY <2>1, <2>3, <3>2, <3>3
  <2>5. ASSUME NEW k \in Key, ended.newest[k] # NoDoc
        PROVE  ended.newest[k] \in Counting(log, out) \cup dropped'
    <3>1. \/ ended.newest[k] \in Counting(log, out)
          \/ ended.out # out /\ ended.newest[k] \in dropped
      BY <2>1, <2>5 DEF Over
    <3>2. ended.seen \subseteq log BY <2>1, WalkForm
    <3>3. Counting(ended.seen, out) \subseteq Counting(log, out)
      BY <3>2 DEF Counting
    <3> QED BY <2>1, <3>1, <3>3
  <2> QED BY <2>1, <2>2, <2>4, <2>5 DEF Right, Of
<1>5. \/ ~index'.built \/ (PutReturns /\ index.built) \/ Told
      \/ /\ index.built /\ UNCHANGED <<index, out, kept>>
         /\ log \subseteq log' /\ log' \ log \subseteq unclaimed'
         /\ unclaimed \subseteq unclaimed' /\ dropped \subseteq dropped'
  BY BuiltForms DEF Next, vars, Put, PutReturns, Updated, Arrive, TakeOut,
     ReadIndex, ReadByWalk, WalkEnds, WalkFails
<1> QED BY <1>1, <1>2, <1>3, <1>4, <1>5

-----------------------------------------------------------------------------
(* What a reader is told.                                                  *)

\* A counting version of the log is not newer than the index that a read uses
\* as it is, or was let go.
LEMMA KnownHas ==
    ASSUME TypeOK, Right, Known, NEW e \in Counting(log, out)
    PROVE  e.rank <= index.newest[e.key].rank \/ e \in dropped
<1>1. e \in log /\ e.key \in Key /\ e.rank \in Nat
  BY DEF Counting, TypeOK, Entry
<1>2. index.newest[e.key].rank \in Nat
  BY <1>1 DEF Known, TypeOK, OfLog, Versions, Entry, NoDoc
<1>3. e \in Of(Counting(log, out), e.key) BY DEF Of
<1> QED BY <1>1, <1>2, <1>3 DEF Known, Right

\* Nor is one that a walk saw newer than what its readers are told.
LEMMA ToldHas ==
    ASSUME TypeOK, Over, Told, NEW e \in ended.seen \cup dropped
    PROVE  \/ e \in Counting(ended.seen, out)
              /\ e.rank <= ended.newest[e.key].rank
           \/ e \in dropped' \/ e \notin Counting(log, out)
<1>1. /\ ended.going
      /\ dropped \ ended.seen \subseteq dropped'
  BY DEF Told, Counting
<1>2. CASE e \notin ended.seen BY <1>1, <1>2
<1>3. CASE e \in Counting(ended.seen, out) BY <1>1, <1>3 DEF Over
<1>4. CASE e \in ended.seen /\ e \notin Counting(ended.seen, out)
  BY <1>4 DEF Counting
<1> QED BY <1>2, <1>3, <1>4

\* A read is told what had returned when it began, or something newer, unless
\* it was let go.
LEMMA ReadsStep ==
    ASSUME IInv, NEW r \in Reader, NEW k \in Key, Tells(r)
    PROVE  \/ floor'[r][k] <= answer'[r][k]
           \/ \E e \in dropped' : e.key = k /\ e.rank = floor'[r][k]
<1> USE DEF IInv
<1>1. CASE ReadIndex(r)
  <2>1. /\ floor' = [floor EXCEPT ![r] = returned] /\ Known
        /\ answer' = [answer EXCEPT ![r] = Ranks(index.newest)]
        /\ UNCHANGED dropped
    BY <1>1 DEF ReadIndex, StartsRead
  <2>2. index.newest \in Versions BY <2>1 DEF Known, TypeOK, OfLog
  <2>3. /\ floor'[r][k] = returned[k]
        /\ answer'[r][k] = index.newest[k].rank
        /\ index.newest[k].rank \in Nat
    <3>1. floor'[r] = returned /\ answer'[r] = Ranks(index.newest)
      BY <2>1 DEF TypeOK
    <3>2. Ranks(index.newest)[k] = index.newest[k].rank BY DEF Ranks
    <3>3. index.newest[k].rank \in Nat
      BY <2>2 DEF Versions, Entry, NoDoc
    <3> QED BY <3>1, <3>2, <3>3
  <2>4. CASE returned[k] = 0 BY <2>3, <2>4
  <2>5. ASSUME NEW e \in Of(log, k), e.rank = returned[k], ~e.member
        PROVE  \/ floor'[r][k] <= answer'[r][k]
               \/ \E x \in dropped' : x.key = k /\ x.rank = floor'[r][k]
    <3>1. e \in Counting(log, out) /\ e.key = k
      BY <2>5 DEF Of, Counting
    <3>2. e.rank <= index.newest[k].rank \/ e \in dropped
      BY <2>1, <3>1, KnownHas
    <3> QED BY <2>1, <2>3, <2>5, <3>1, <3>2
  <2> QED BY <2>4, <2>5 DEF Sources, Own
<1>2. CASE Told /\ r \in ended.readers
  <2>1. ended.going /\ UNCHANGED floor /\ answer'[r] = Ranks(ended.newest)
    BY <1>2 DEF Told
  <2>2. answer'[r][k] = ended.newest[k].rank BY <2>1 DEF Ranks
  <2>3. ended.newest[k].rank \in Nat
    BY <2>1 DEF TypeOK, OfLog, Versions, Entry, NoDoc
  <2>4. Own(ended.seen \cup dropped, k, floor[r][k])
    BY <1>2, <2>1 DEF Over, Waits
  <2>5. CASE floor[r][k] = 0 BY <2>1, <2>2, <2>3, <2>5
  <2>6. ASSUME NEW e \in Of(ended.seen \cup dropped, k),
               e.rank = floor[r][k], ~e.member
        PROVE  \/ floor'[r][k] <= answer'[r][k]
               \/ \E x \in dropped' : x.key = k /\ x.rank = floor'[r][k]
    <3>1. e \in ended.seen \cup dropped /\ e.key = k BY DEF Of
    <3>2. e \in Counting(log, out)
      BY <2>1, <2>6, <3>1 DEF Counting, TypeOK
    <3>3. e.rank <= ended.newest[k].rank \/ e \in dropped'
      BY <1>2, <3>1, <3>2, ToldHas
    <3> QED BY <2>1, <2>2, <2>6, <3>1, <3>3
  <2> QED BY <2>4, <2>5, <2>6 DEF Own
<1> QED BY <1>1, <1>2 DEF Tells

\* A read is told no older version than the one before, but for what the
\* access list took out and what was let go.
LEMMA ForwardStep ==
    ASSUME IInv, [Next]_vars, NEW r \in Reader, NEW k \in Key
    PROVE  \/ answer[r][k] <= answer'[r][k]
           \/ \E e \in dropped' \cup (log \ Counting(log, out)) :
                 e.rank = answer[r][k]
<1> USE DEF IInv
<1>1. CASE answer'[r] = answer[r]
  <2>1. answer[r][k] \in Nat BY IndexAssumption DEF TypeOK, IndexAssumption
  <2> QED BY <1>1, <2>1
<1>2. CASE ReadIndex(r)
  <2>1. /\ Known /\ UNCHANGED dropped
        /\ answer' = [answer EXCEPT ![r] = Ranks(index.newest)]
    BY <1>2 DEF ReadIndex
  <2>2. answer'[r][k] = index.newest[k].rank /\ index.newest[k].rank \in Nat
    <3>1. answer'[r] = Ranks(index.newest) BY <2>1 DEF TypeOK
    <3>2. index.newest \in Versions BY <2>1 DEF Known, TypeOK, OfLog
    <3> QED BY <3>1, <3>2 DEF Ranks, Versions, Entry, NoDoc
  <2>3. CASE answer[r][k] = 0 BY <2>2, <2>3
  <2>4. ASSUME NEW e \in Of(log, k), e.rank = answer[r][k]
        PROVE  \/ answer[r][k] <= answer'[r][k]
               \/ \E x \in dropped' \cup (log \ Counting(log, out)) :
                     x.rank = answer[r][k]
    <3>1. e \in log /\ e.key = k BY DEF Of
    <3>2. e \in Counting(log, out)
             => e.rank <= index.newest[k].rank \/ e \in dropped
      BY <2>1, <3>1, KnownHas
    <3> QED BY <2>1, <2>2, <2>4, <3>1, <3>2
  <2> QED BY <2>3, <2>4 DEF Sources, Some
<1>3. CASE Told /\ r \in ended.readers
  <2>1. ended.going /\ answer'[r] = Ranks(ended.newest)
    BY <1>3 DEF Told
  <2>2. answer'[r][k] = ended.newest[k].rank BY <2>1 DEF Ranks
  <2>3. ended.newest[k].rank \in Nat
    BY <2>1 DEF TypeOK, OfLog, Versions, Entry, NoDoc
  <2>4. Some(ended.seen \cup dropped, k, answer[r][k])
    BY <1>3, <2>1 DEF Over, Waits
  <2>5. CASE answer[r][k] = 0 BY <2>2, <2>3, <2>5
  <2>6. ASSUME NEW e \in Of(ended.seen \cup dropped, k),
               e.rank = answer[r][k]
        PROVE  \/ answer[r][k] <= answer'[r][k]
               \/ \E x \in dropped' \cup (log \ Counting(log, out)) :
                     x.rank = answer[r][k]
    <3>1. e \in ended.seen \cup dropped /\ e.key = k BY DEF Of
    <3>2. e \in log BY <2>1, <3>1 DEF TypeOK
    <3>3. \/ e.rank <= ended.newest[k].rank
          \/ e \in dropped' \/ e \notin Counting(log, out)
      BY <1>3, <3>1, ToldHas
    <3> QED BY <2>2, <2>6, <3>2, <3>3
  <2> QED BY <2>4, <2>5, <2>6 DEF Some
<1>4. answer'[r] = answer[r] \/ ReadIndex(r) \/ (Told /\ r \in ended.readers)
  <2>1. ASSUME NEW x \in Reader, ReadIndex(x), x # r
        PROVE  answer'[r] = answer[r]
    BY <2>1 DEF ReadIndex, TypeOK
  <2>2. Told => answer'[r] = answer[r] \/ r \in ended.readers
    BY DEF Told
  <2> QED
    BY <2>1, <2>2 DEF Next, vars, Put, PutReturns, Arrive, TakeOut,
       ReadByWalk, WalkEnds, WalkFails
<1> QED BY <1>1, <1>2, <1>3, <1>4

-----------------------------------------------------------------------------
(* The theorems.                                                           *)

\* At the beginning nothing is in the log or on its way.
LEMMA TypeInit == Init => TypeOK /\ Forms
<1> SUFFICES ASSUME Init PROVE TypeOK /\ Forms OBVIOUS
<1>1. 0 \in 0..MaxRank BY IndexAssumption DEF IndexAssumption
<1>2. [k \in Key |-> 0] \in [Key -> 0..MaxRank] BY <1>1
<1>3. answer \in [Reader -> [Key -> 0..MaxRank]] BY <1>2 DEF Init
<1>4. writing = <<>> /\ writing \in Seq(Entry) /\ 1..Len(writing) = {}
  BY DEF Init
<1>5. TypeOK BY <1>2, <1>3, <1>4, BuiltForms DEF Init, TypeOK, Waiting
<1>6. Forms BY <1>4, BuiltForms DEF Init, Forms
<1> QED BY <1>5, <1>6

\* Types hold whatever interleaves: no index and no walk has a version that
\* the log has not.
THEOREM TypeCorrect == Spec => []TypeOK
<1>1. Init => TypeOK /\ Forms BY TypeInit
<1>2. TypeOK /\ Forms /\ [Next]_vars => TypeOK' /\ Forms'
  BY TypeStep, FormsStep
<1> QED BY <1>1, <1>2, PTL DEF Spec

\* The invariant from which the rest follows.
THEOREM Inductive == Spec => []IInv
<1>1. Init => IInv
  <2>1. Init => TypeOK /\ Forms BY TypeInit
  <2>2. Init => Sources BY DEF Init, Sources, Own, Some
  <2>3. Init => Going /\ Over /\ Right
    BY BuiltForms DEF Init, Going, Over, Right
  <2> QED BY <2>1, <2>2, <2>3 DEF IInv
<1>2. ASSUME IInv, [Next]_vars PROVE IInv'
  BY <1>2, TypeStep, FormsStep, SourcesStep, GoingStep, OverStep, RightStep
  DEF IInv
<1> QED BY <1>1, <1>2, PTL DEF Spec

\* An index that is used as it is has the newest version of every key, but for
\* what was let go.
THEOREM NeverStale == Spec => []NothingStale
<1>1. ASSUME IInv PROVE NothingStale
  <2> SUFFICES ASSUME Known, NEW k \in Key,
                      index.newest[k] # Latest(Counting(log, out), k)
               PROVE  (IF index.newest[k].rank
                             < Latest(Counting(log, out), k).rank
                       THEN Latest(Counting(log, out), k)
                       ELSE index.newest[k]) \in dropped
    BY DEF NothingStale
  <2> DEFINE C == Counting(log, out)
             is == index.newest[k]
             should == Latest(C, k)
  <2>1. TypeOK /\ Right /\ index.built BY <1>1 DEF IInv, Known
  <2>2. C \in SUBSET Entry /\ C \subseteq log BY <2>1 DEF Counting, TypeOK
  <2>3. /\ should = NoDoc \/ should \in Of(C, k)
        /\ \A f \in Of(C, k) : should # NoDoc /\ f.rank <= should.rank
    <3>1. Of(C, k) = {} => should = NoDoc BY <2>2, LatestIsGreatest
    <3>2. Of(C, k) # {} => /\ should \in Of(C, k)
                           /\ \A f \in Of(C, k) : f.rank <= should.rank
      BY <2>2, LatestIsGreatest
    <3>3. \A f \in Of(C, k) : f # NoDoc
      BY <2>2 DEF Of, Entry, NoDoc
    <3> QED BY <3>1, <3>2, <3>3
  <2>4. is = NoDoc \/ is \in Of(log, k)
    BY <2>1 DEF TypeOK, OfLog, Of
  <2>5. /\ is.rank \in Nat /\ should.rank \in Nat /\ NoDoc.rank = 0
        /\ \A x \in log : x.rank \in Nat /\ x.rank > 0
    BY <2>1, <2>2, <2>3, <2>4 DEF Of, TypeOK, Entry, NoDoc
  <2> HIDE DEF C, is, should
  <2>6. CASE is.rank < should.rank
    <3>1. should \in Of(C, k) BY <2>3, <2>5, <2>6
    <3>2. should \in C /\ should.key = k BY <3>1 DEF Of
    <3>3. should.rank <= is.rank \/ should \in dropped
      BY <2>1, <3>2, KnownHas DEF C, is
    <3> QED BY <2>5, <2>6, <3>3 DEF is, should, C
  <2>7. CASE ~(is.rank < should.rank)
    <3>1. is # should BY DEF is, should, C
    <3>2. is # NoDoc
      <4>1. is = NoDoc => should.rank = 0 BY <2>5, <2>7
      <4>2. should.rank = 0 => should = NoDoc
        BY <2>2, <2>3, <2>5 DEF Of
      <4> QED BY <3>1, <4>1, <4>2
    <3>3. is \in Of(log, k) BY <2>4, <3>2
    <3>4. is \notin C
      <4>1. ASSUME is \in C PROVE FALSE
        <5>1. is \in Of(C, k) BY <3>3, <4>1 DEF Of
        <5>2. should \in Of(C, k) /\ is.rank <= should.rank
          BY <2>3, <5>1
        <5>3. is.rank = should.rank BY <2>5, <2>7, <5>2
        <5>4. is \in log /\ should \in log BY <2>2, <5>1, <5>2 DEF Of
        <5> QED BY <2>1, <3>1, <5>3, <5>4 DEF TypeOK
      <4> QED BY <4>1
    <3>5. is \in C \cup dropped BY <2>1, <3>2 DEF Right, is, C
    <3> QED BY <2>7, <3>4, <3>5 DEF is, should, C
  <2> QED BY <2>6, <2>7
<1> QED BY <1>1, Inductive, PTL

\* A read that begins after a write returned is told that version or a newer
\* one, unless it was let go.
THEOREM SeesOwnWrites == Spec => ReadsOwnWrites
<1>1. IInv /\ [Next]_vars =>
        [\A r \in Reader, k \in Key : Tells(r) =>
            \/ floor'[r][k] <= answer'[r][k]
            \/ \E e \in dropped' : e.key = k /\ e.rank = floor'[r][k]]_vars
  BY ReadsStep
<1> QED BY <1>1, Inductive, PTL DEF Spec, ReadsOwnWrites

\* What a reader is told does not go back.
THEOREM NeverBack == Spec => ReadsGoForward
<1>1. IInv /\ [Next]_vars =>
        [\A r \in Reader, k \in Key :
            \/ answer[r][k] <= answer'[r][k]
            \/ \E e \in dropped' \cup (log \ Counting(log, out)) :
                  e.rank = answer[r][k]]_vars
  BY ForwardStep
<1> QED BY <1>1, Inductive, PTL DEF Spec, ReadsGoForward

-----------------------------------------------------------------------------
(* Matching.                                                               *)

Coll == [MatchId -> MatchRecord \cup {NoRecord}]
Bookings == [Tx -> TxRecord \cup {NoRecord}]
LinkWrite == [t : Tx, tx : TxRecord]
Decision == [going : BOOLEAN, reject : SUBSET [i : MatchId, m : MatchRecord],
             confirm : SUBSET [i : MatchId \cup {None}, m : MatchRecord],
             look : SUBSET Tx, put : SUBSET LinkWrite]

Shapes ==
    /\ matches \in [Device -> Coll] /\ txs \in [Device -> Bookings]
    /\ toWrite \in [Device -> [Thread -> SUBSET LinkWrite]]
    /\ run \in [Device -> [going : BOOLEAN, extra : SUBSET MatchId,
                           pairs : SUBSET Pair]]
    /\ decision \in [Device -> Decision]
    /\ nextId \in Nat \ {0} /\ linked \subseteq Pair /\ undone \subseteq Pair

\* A record has an id that was given away, and is of one pair everywhere.
Books ==
    /\ \A d \in Device, i \in MatchId : There(matches[d][i]) => i < nextId
    /\ \A d, e \in Device, i \in MatchId :
          There(matches[d][i]) /\ There(matches[e][i])
              => PairOf(matches[d][i]) = PairOf(matches[e][i])

\* No clock and no writer is beyond all bounds.
Dated ==
    \E n \in Nat : \A d \in Device, i \in MatchId :
        There(matches[d][i]) => matches[d][i].at <= n /\ matches[d][i].by <= n

\* A run is to delete what is there.
Extras == \A d \in Device : \A i \in run[d].extra : There(matches[d][i])

\* A decision writes records of the pairs they are of by now, and confirms
\* what it may confirm.
OfRecord(coll, w) == There(coll[w.i]) /\ PairOf(w.m) = PairOf(coll[w.i])
Sensible(coll, writes) ==
    /\ \A w \in writes.reject : OfRecord(coll, w)
    /\ \A w \in writes.confirm :
          /\ w.i # None => OfRecord(coll, w)
          /\ w.m.state = "confirmed" /\ ~w.m.deleted
          /\ ConfirmsSure \/ Score[PairOf(w.m)] < Sure
Decided == \A d \in Device : Sensible(matches[d], decision[d])

Typed == Shapes /\ Books /\ Dated /\ Extras /\ Decided

\* What a link of a pair that nobody undid says.
Kind(p) == IF Score[p] >= Sure THEN "auto" ELSE "confirmed"

\* There is an older record of the same pair.
Older(coll, i) ==
    \E j \in MatchId : /\ j < i /\ There(coll[j])
                       /\ PairOf(coll[j]) = PairOf(coll[i])

\* No record of a pair that nobody undid is rejected, and its oldest one on a
\* device is never deleted there.
Kept ==
    \A d \in Device, i \in MatchId : There(matches[d][i]) =>
        LET m == matches[d][i]
        IN \/ PairOf(m) \in undone
           \/ m.state = Kind(PairOf(m)) /\ (m.deleted => Older(matches[d], i))

\* What is left to write keeps to that; no booking is ever deleted.
Plans ==
    /\ \A d \in Device : \A p \in run[d].pairs : Score[p] >= Sure
    /\ \A d \in Device : \A i \in run[d].extra :
          PairOf(matches[d][i]) \in undone \/ Older(matches[d], i)
    /\ \A d \in Device, t \in Tx : There(txs[d][t]) => ~txs[d][t].deleted
    /\ \A d \in Device, w \in Thread :
          \A x \in toWrite[d][w] : ~x.tx.deleted
    /\ \A d \in Device : \A x \in decision[d].put : ~x.tx.deleted

\* Every pair that was linked has a record.
Recorded ==
    \A p \in linked : \E d \in Device, i \in MatchId :
        There(matches[d][i]) /\ PairOf(matches[d][i]) = p

LinksInv == Typed /\ Kept /\ Plans /\ Recorded

-----------------------------------------------------------------------------
(* Records.                                                                *)

\* Ids are positive numbers.
LEMMA IdsAreNumbers == MatchId \subseteq Nat \ {0}
  BY MatchingAssumption DEF MatchingAssumption, MatchId

\* What is in a collection is a record of a pair, or nothing.
LEMMA ThereIsRecord ==
    ASSUME NEW m \in MatchRecord \cup {NoRecord}
    PROVE  /\ m.at \in Nat
           /\ There(m) => m \in MatchRecord /\ PairOf(m) \in Pair
  BY DEF MatchRecord, NoRecord, There, PairOf, Pair

\* put leaves other records alone, and gives these a later clock.
LEMMA PutDoes ==
    ASSUME NEW coll \in Coll, NEW d \in Device, NEW new,
           DOMAIN new \subseteq MatchId,
           \A i \in DOMAIN new : new[i] \in MatchRecord
    PROVE  /\ PutRecords(coll, d, new) \in Coll
           /\ \A i \in MatchId \ DOMAIN new :
                 PutRecords(coll, d, new)[i] = coll[i]
           /\ \A i \in DOMAIN new :
                 LET m == PutRecords(coll, d, new)[i]
                 IN /\ There(m) /\ m \in MatchRecord
                    /\ PairOf(m) = PairOf(new[i])
                    /\ m.state = new[i].state /\ m.deleted = new[i].deleted
                    /\ m.at = coll[i].at + 1 /\ m.by = d
<1> DEFINE P == PutRecords(coll, d, new)
<1>1. d \in Nat BY MatchingAssumption DEF MatchingAssumption
<1>2. DOMAIN coll = MatchId BY DEF Coll
<1>3. ASSUME NEW m \in MatchRecord, NEW c \in Nat
      PROVE  LET n == [m EXCEPT !.at = c + 1, !.by = d]
             IN /\ n \in MatchRecord /\ n.at = c + 1 /\ n.by = d
                /\ n.r = m.r /\ n.t = m.t /\ n.state = m.state
                /\ n.deleted = m.deleted
  <2> DEFINE k == [m EXCEPT !.at = c + 1]
  <2>1. c + 1 \in Nat OBVIOUS
  <2>2. /\ k \in MatchRecord /\ k.at = c + 1 /\ k.r = m.r /\ k.t = m.t
        /\ k.state = m.state /\ k.deleted = m.deleted
    BY <2>1 DEF MatchRecord
  <2> HIDE DEF k
  <2> DEFINE n == [k EXCEPT !.by = d]
  <2>3. /\ n \in MatchRecord /\ n.at = c + 1 /\ n.by = d
        /\ n.r = m.r /\ n.t = m.t /\ n.state = m.state
        /\ n.deleted = m.deleted
    BY <1>1, <2>2 DEF MatchRecord
  <2> HIDE DEF n
  <2>4. n = [m EXCEPT !.at = c + 1, !.by = d] BY DEF n, k
  <2> QED BY <2>3, <2>4
<1>4. \A i \in MatchId :
        P[i] = IF i \in DOMAIN new
               THEN [new[i] EXCEPT !.at = coll[i].at + 1, !.by = d]
               ELSE coll[i]
  BY <1>2 DEF PutRecords
<1>5. P = [i \in MatchId |-> P[i]] BY <1>2 DEF PutRecords
<1>6. \A i \in MatchId :
         coll[i].at \in Nat /\ coll[i] \in MatchRecord \cup {NoRecord}
  BY ThereIsRecord DEF Coll
<1> HIDE DEF P
<1>7. ASSUME NEW i \in DOMAIN new
      PROVE  /\ There(P[i]) /\ P[i] \in MatchRecord
             /\ PairOf(P[i]) = PairOf(new[i])
             /\ P[i].state = new[i].state /\ P[i].deleted = new[i].deleted
             /\ P[i].at = coll[i].at + 1 /\ P[i].by = d
  <2>1. i \in MatchId /\ new[i] \in MatchRecord /\ coll[i].at \in Nat BY <1>6
  <2> DEFINE n == [new[i] EXCEPT !.at = coll[i].at + 1, !.by = d]
  <2>2. P[i] = n BY <1>4, <2>1
  <2>3. /\ n \in MatchRecord /\ n.at = coll[i].at + 1 /\ n.by = d
        /\ n.r = new[i].r /\ n.t = new[i].t /\ n.state = new[i].state
        /\ n.deleted = new[i].deleted
    BY <1>3, <2>1
  <2> HIDE DEF n
  <2> QED BY <2>1, <2>2, <2>3 DEF There, PairOf
<1>8. \A i \in MatchId \ DOMAIN new : P[i] = coll[i] BY <1>4
<1>9. P \in Coll BY <1>5, <1>6, <1>7, <1>8 DEF Coll
<1> QED BY <1>7, <1>8, <1>9 DEF P

\* A link as it is made.
LEMMA NewMatch ==
    ASSUME NEW p \in Pair, NEW state \in State
    PROVE  LET m == Match(p, state)
           IN /\ m \in MatchRecord /\ PairOf(m) = p
              /\ m.state = state /\ m.deleted = FALSE
  BY DEF Match, MatchRecord, PairOf, Pair

\* What is in the other collection is a booking, or nothing.
LEMMA BookingIsRecord ==
    ASSUME NEW x \in TxRecord \cup {NoRecord}
    PROVE  x.at \in Nat /\ (There(x) => x \in TxRecord)
  BY DEF TxRecord, NoRecord, There

-----------------------------------------------------------------------------
(* What a person decides (actions.js).                                     *)

\* Rejecting links changes nothing else of them.
LEMMA RejectingDoes ==
    ASSUME Typed, NEW d \in Device, NEW S \in SUBSET Active(matches[d]),
           NEW w \in Rejecting(matches[d], S)
    PROVE  w \in [i : MatchId, m : MatchRecord] /\ OfRecord(matches[d], w)
<1> DEFINE old(i) == matches[d][i]
           m(i) == [old(i) EXCEPT !.state = "rejected"]
<1>1. PICK i \in S : w = [i |-> i, m |-> m(i)] BY DEF Rejecting
<1>2. i \in MatchId /\ There(old(i)) BY DEF Active, IsActive, Live
<1>3. old(i) \in MatchRecord
  BY <1>2, ThereIsRecord DEF Typed, Shapes, Coll
<1> HIDE DEF old
<1>4. m(i) \in MatchRecord /\ m(i).r = old(i).r /\ m(i).t = old(i).t
  BY <1>3 DEF MatchRecord, State
<1> HIDE DEF m
<1>5. PairOf(m(i)) = PairOf(old(i)) BY <1>4 DEF PairOf
<1>6. w.i = i /\ w.m = m(i) BY <1>1
<1> QED BY <1>1, <1>2, <1>4, <1>5, <1>6 DEF OfRecord, old

\* A decision begins with what it means to write.
Decides(d) ==
    \E writes \in Decision :
        /\ Decide(d, writes) /\ Sensible(matches[d], writes)
        /\ Plans => \A x \in writes.put : ~x.tx.deleted

\* What confirmMatch means to write.
LEMMA ConfirmDecides ==
    ASSUME Typed, NEW d \in Device, NEW p \in Pair, Confirm(d, p)
    PROVE  Decides(d)
<1> DEFINE coll == matches[d]
           same == { i \in MatchId : Live(coll[i]) /\ PairOf(coll[i]) = p }
           others == { i \in Active(coll) :
                         coll[i].r = p[1] /\ coll[i].t # p[2] }
           m == [coll[Max(same)] EXCEPT !.state = "confirmed"]
           found == IF same = {}
                    THEN [i |-> None, m |-> Match(p, "confirmed")]
                    ELSE [i |-> Max(same), m |-> m]
           reject == Rejecting(coll, others)
           writes == [going |-> TRUE, reject |-> reject, confirm |-> {found},
                      look |-> {p[2]}, put |-> {}]
<1>1. (ConfirmsSure \/ Score[p] < Sure) /\ Decide(d, writes)
  BY Zenon DEF Confirm
<1>2. coll \in Coll BY DEF Typed, Shapes
<1>3. ASSUME same # {} PROVE Max(same) \in same
  <2>1. MaxMatch \in Nat BY MatchingAssumption DEF MatchingAssumption
  <2>2. same \in SUBSET (0..MaxMatch) BY <2>1 DEF MatchId
  <2> HIDE DEF same
  <2>3. PICK x \in same : \A y \in same : y <= x
    BY <1>3, <2>1, <2>2, GreatestNat
  <2>4. \A y \in same : x >= y BY <2>2, <2>3
  <2> QED BY <2>4 DEF Max
<1>4. /\ found \in [i : MatchId \cup {None}, m : MatchRecord]
      /\ found.i # None => OfRecord(coll, found)
      /\ PairOf(found.m) = p
      /\ found.m.state = "confirmed" /\ ~found.m.deleted
  <2>1. CASE same = {}
    <3> DEFINE new == Match(p, "confirmed")
    <3>1. /\ new \in MatchRecord /\ PairOf(new) = p
          /\ new.state = "confirmed" /\ new.deleted = FALSE
      BY NewMatch DEF State
    <3>2. found = [i |-> None, m |-> new] BY <2>1
    <3> HIDE DEF new, found
    <3> QED BY <3>1, <3>2
  <2>2. CASE same # {}
    <3> DEFINE id == Max(same)
               old == coll[id]
    <3>1. id \in MatchId /\ Live(old) /\ PairOf(old) = p BY <1>3, <2>2
    <3>2. There(old) /\ ~old.deleted BY <3>1 DEF Live
    <3>3. old \in MatchRecord BY <1>2, <3>1, <3>2, ThereIsRecord DEF Coll
    <3>4. m = [old EXCEPT !.state = "confirmed"] OBVIOUS
    <3>5. found = [i |-> id, m |-> m] BY <2>2
    <3> HIDE DEF m, same, old, id, found
    <3>6. /\ m \in MatchRecord /\ m.r = old.r /\ m.t = old.t
          /\ m.state = "confirmed" /\ m.deleted = old.deleted
      BY <3>3, <3>4 DEF MatchRecord, State
    <3>7. PairOf(m) = PairOf(old) BY <3>6 DEF PairOf
    <3>8. found.i = id /\ found.m = m BY <3>5
    <3> QED BY <3>1, <3>2, <3>5, <3>6, <3>7, <3>8 DEF OfRecord, old
  <2> QED BY <2>1, <2>2
<1>5. others \in SUBSET Active(coll) OBVIOUS
<1>6. \A w \in reject :
         w \in [i : MatchId, m : MatchRecord] /\ OfRecord(coll, w)
  BY <1>5, RejectingDoes
<1>7. p[2] \in Tx BY DEF Pair
<1> HIDE DEF coll, same, others, m, found, reject
<1>8. writes \in Decision BY <1>4, <1>6, <1>7 DEF Decision
<1>9. Sensible(coll, writes) BY <1>1, <1>4, <1>6 DEF Sensible
<1>10. \A x \in writes.put : ~x.tx.deleted OBVIOUS
<1> HIDE DEF writes
<1> QED BY <1>1, <1>8, <1>9, <1>10 DEF Decides, coll

\* What unlinkMatch means to write.
LEMMA UnlinkDecides ==
    ASSUME Typed, NEW d \in Device, NEW i \in MatchId, Unlink(d, i)
    PROVE  Decides(d)
<1> DEFINE reject == Rejecting(matches[d], {i})
           writes == [going |-> TRUE, reject |-> reject, confirm |-> {},
                      look |-> {}, put |-> {}]
<1>1. Decide(d, writes) BY DEF Unlink
<1>2. {i} \in SUBSET Active(matches[d]) BY DEF Unlink, Active
<1>3. \A w \in reject :
         w \in [i : MatchId, m : MatchRecord] /\ OfRecord(matches[d], w)
  BY <1>2, RejectingDoes
<1> HIDE DEF reject
<1>4. writes \in Decision BY <1>3 DEF Decision
<1>5. Sensible(matches[d], writes) BY <1>3 DEF Sensible
<1>6. \A x \in writes.put : ~x.tx.deleted OBVIOUS
<1> HIDE DEF writes
<1> QED BY <1>1, <1>4, <1>5, <1>6 DEF Decides

\* What setNoReceipt means to write.
LEMMA NoReceiptDecides ==
    ASSUME Typed, NEW d \in Device, NEW t \in Tx, NoReceipt(d, t)
    PROVE  Decides(d)
<1> DEFINE links == { i \in Active(matches[d]) : matches[d][i].t = t }
           reject == Rejecting(matches[d], links)
           old == txs[d][t]
           tx == [old EXCEPT !.noReceipt = TRUE]
           put == {[t |-> t, tx |-> tx]}
           writes == [going |-> TRUE, reject |-> reject, confirm |-> {},
                      look |-> {}, put |-> put]
<1>1. Live(old) /\ Decide(d, writes) BY DEF NoReceipt
<1>2. links \in SUBSET Active(matches[d]) OBVIOUS
<1>3. \A w \in reject :
         w \in [i : MatchId, m : MatchRecord] /\ OfRecord(matches[d], w)
  BY <1>2, RejectingDoes
<1>4. There(old) /\ ~old.deleted BY <1>1 DEF Live
<1>5. old \in TxRecord
  BY <1>4, BookingIsRecord DEF Typed, Shapes, Bookings
<1> HIDE DEF old
<1>6. tx \in TxRecord /\ tx.deleted = old.deleted BY <1>5 DEF TxRecord
<1> HIDE DEF tx
<1>7. put \subseteq LinkWrite /\ \A x \in put : x.tx = tx
  BY <1>6 DEF LinkWrite
<1> HIDE DEF reject, put
<1>8. writes \in Decision BY <1>3, <1>7 DEF Decision
<1>9. Sensible(matches[d], writes) BY <1>3 DEF Sensible
<1>10. Plans => \A x \in writes.put : ~x.tx.deleted BY <1>4, <1>6, <1>7
<1> HIDE DEF writes
<1> QED BY <1>1, <1>8, <1>9, <1>10 DEF Decides

\* All that can happen, with a decision's beginnings in one.
LEMMA NextIs ==
    ASSUME Typed, [LinksNext]_linksVars
    PROVE  \/ \E d \in Device :
                \/ StartRun(d) \/ Clean(d) \/ Link(d) \/ EndRun(d)
                \/ LinksStep(d) \/ Decides(d)
                \/ Reject(d) \/ PutConfirmed(d) \/ LookAtBooking(d)
                \/ PutBooking(d) \/ EndDecision(d)
           \/ \E d, e \in Device : SyncMatches(d, e) \/ SyncTxs(d, e)
           \/ UNCHANGED linksVars
<1>1. ASSUME NEW d \in Device, NEW p \in Pair, Confirm(d, p) PROVE Decides(d)
  BY <1>1, ConfirmDecides
<1>2. ASSUME NEW d \in Device, NEW i \in MatchId, Unlink(d, i) PROVE Decides(d)
  BY <1>2, UnlinkDecides
<1>3. ASSUME NEW d \in Device, NEW t \in Tx, NoReceipt(d, t) PROVE Decides(d)
  BY <1>3, NoReceiptDecides
<1> QED
  BY <1>1, <1>2, <1>3 DEF LinksNext, Progress, RunStep, DecisionStep

-----------------------------------------------------------------------------
(* What a step does to the links.                                          *)

\* A device puts records, of which at most one is new.
Writes(d, new) ==
    /\ DOMAIN new \subseteq MatchId
    /\ \A i \in DOMAIN new : new[i] \in MatchRecord
    /\ \A i \in DOMAIN new :
          IF There(matches[d][i]) THEN PairOf(new[i]) = PairOf(matches[d][i])
          ELSE i = nextId /\ nextId' = nextId + 1
    /\ matches' = [matches EXCEPT ![d] = PutRecords(@, d, new)]
    /\ nextId' \in {nextId, nextId + 1}

\* What is put is of pairs that a person undid, or is as it should be.
Allowed(d, new) ==
    /\ undone \subseteq undone'
    /\ linked' \subseteq linked \cup { PairOf(new[i]) : i \in DOMAIN new }
    /\ \A i \in DOMAIN new :
          \/ PairOf(new[i]) \in undone'
          \/ /\ new[i].state = Kind(PairOf(new[i]))
             /\ new[i].deleted => There(matches[d][i]) /\ Older(matches[d], i)

\* What is there stays, of the same pair.
Stays ==
    \A d \in Device, i \in MatchId : There(matches[d][i]) =>
        There(matches'[d][i]) /\ PairOf(matches'[d][i]) = PairOf(matches[d][i])

LinksKeep == /\ matches' \in [Device -> Coll] /\ nextId' \in Nat \ {0}
             /\ Books' /\ Dated' /\ Stays

\* A write of a device keeps the types of the books and the dates of records.
LEMMA WritesKeep ==
    ASSUME Typed, NEW d \in Device, NEW new, Writes(d, new)
    PROVE  LinksKeep
<1> DEFINE P == PutRecords(matches[d], d, new)
<1>1. /\ matches \in [Device -> Coll] /\ nextId \in Nat \ {0}
      /\ matches[d] \in Coll
  BY DEF Typed, Shapes
<1>2. /\ P \in Coll
      /\ \A i \in MatchId \ DOMAIN new : P[i] = matches[d][i]
      /\ \A i \in DOMAIN new :
            /\ There(P[i]) /\ P[i] \in MatchRecord
            /\ PairOf(P[i]) = PairOf(new[i])
            /\ P[i].at = matches[d][i].at + 1 /\ P[i].by = d
  BY <1>1, PutDoes DEF Writes
<1>3. /\ matches' = [matches EXCEPT ![d] = P]
      /\ nextId' \in {nextId, nextId + 1} /\ DOMAIN new \subseteq MatchId
  BY DEF Writes
<1> HIDE DEF P
<1>4. /\ matches'[d] = P
      /\ \A e \in Device : e # d => matches'[e] = matches[e]
  BY <1>1, <1>3
<1>5. \A i \in DOMAIN new :
         \/ There(matches[d][i]) /\ PairOf(P[i]) = PairOf(matches[d][i])
         \/ i = nextId /\ nextId' = nextId + 1
  BY <1>2 DEF Writes
<1>6. \A e \in Device : ~There(matches[e][nextId]) \/ nextId \notin MatchId
  BY <1>1 DEF Typed, Books
<1>7. matches' \in [Device -> Coll] /\ nextId' \in Nat \ {0}
  BY <1>1, <1>2, <1>3
<1>8. \A e \in Device, i \in MatchId :
         There(matches'[e][i]) =>
            \/ /\ There(matches[e][i])
               /\ PairOf(matches'[e][i]) = PairOf(matches[e][i])
            \/ e = d /\ i = nextId /\ nextId' = nextId + 1
  BY <1>2, <1>3, <1>4, <1>5
<1>9. Books'
  <2>1. \A e \in Device, i \in MatchId : There(matches'[e][i]) => i < nextId'
    <3> SUFFICES ASSUME NEW e \in Device, NEW i \in MatchId,
                        There(matches'[e][i])
                 PROVE  i < nextId'
      OBVIOUS
    <3>1. i \in Nat BY IdsAreNumbers
    <3>2. i < nextId \/ (i = nextId /\ nextId' = nextId + 1)
      BY <1>8 DEF Typed, Books
    <3> QED BY <1>1, <1>3, <3>1, <3>2
  <2>2. \A a, b \in Device, i \in MatchId :
           There(matches'[a][i]) /\ There(matches'[b][i])
              => PairOf(matches'[a][i]) = PairOf(matches'[b][i])
    <3> SUFFICES ASSUME NEW a \in Device, NEW b \in Device, NEW i \in MatchId,
                        There(matches'[a][i]), There(matches'[b][i])
                 PROVE  PairOf(matches'[a][i]) = PairOf(matches'[b][i])
      OBVIOUS
    <3>1. CASE There(matches[a][i]) /\ There(matches[b][i])
      <4>1. i # nextId BY <1>6, <3>1
      <4>2. /\ PairOf(matches'[a][i]) = PairOf(matches[a][i])
            /\ PairOf(matches'[b][i]) = PairOf(matches[b][i])
        BY <1>8, <4>1
      <4> QED BY <3>1, <4>2 DEF Typed, Books
    <3>2. CASE ~There(matches[a][i]) \/ ~There(matches[b][i])
      <4>1. i = nextId BY <1>8, <3>2
      <4>2. a = d /\ b = d BY <1>6, <1>8, <4>1
      <4> QED BY <4>2
    <3> QED BY <3>1, <3>2
  <2> QED BY <2>1, <2>2 DEF Books
<1>10. Stays BY <1>2, <1>3, <1>4, <1>5, <1>6 DEF Stays
<1>11. Dated'
  <2>1. PICK n \in Nat : \A e \in Device, i \in MatchId :
           There(matches[e][i])
              => matches[e][i].at <= n /\ matches[e][i].by <= n
    BY DEF Typed, Dated
  <2>2. d \in Nat BY MatchingAssumption DEF MatchingAssumption
  <2> DEFINE m == n + 1 + d
  <2>3. m \in Nat /\ n <= m /\ d <= m BY <2>2
  <2>4. \A e \in Device, i \in MatchId :
           There(matches[e][i])
              => matches[e][i].at <= m /\ matches[e][i].by <= m
    <3>1. \A e \in Device, i \in MatchId :
             There(matches[e][i]) => /\ matches[e][i].at \in Nat
                                     /\ matches[e][i].by \in Nat
      <4> SUFFICES ASSUME NEW e \in Device, NEW i \in MatchId,
                          There(matches[e][i])
                   PROVE  matches[e][i].at \in Nat /\ matches[e][i].by \in Nat
        OBVIOUS
      <4> DEFINE x == matches[e][i]
      <4>1. x \in MatchRecord \cup {NoRecord} BY <1>1 DEF Coll
      <4> HIDE DEF x
      <4>2. x \in MatchRecord BY <4>1, ThereIsRecord DEF x
      <4> QED BY <4>2 DEF MatchRecord, x
    <3>2. \A a \in Nat : a <= n => a <= m BY <2>2
    <3> HIDE DEF m
    <3> QED BY <2>1, <3>1, <3>2
  <2>5. \A i \in DOMAIN new : matches'[d][i].at <= m /\ matches'[d][i].by <= m
    <3> SUFFICES ASSUME NEW i \in DOMAIN new
                 PROVE  P[i].at <= m /\ P[i].by <= m
      BY <1>4
    <3>1. matches[d][i].at \in Nat /\ matches[d][i].at <= n
      <4>1. i \in MatchId BY <1>3
      <4>2. matches[d][i] \in MatchRecord \cup {NoRecord} BY <1>1, <4>1 DEF Coll
      <4>3. matches[d][i].at \in Nat BY <4>2, ThereIsRecord
      <4> QED BY <2>1, <4>1, <4>3 DEF There
    <3> QED BY <1>2, <2>2, <3>1
  <2>6. \A e \in Device, i \in MatchId :
           There(matches'[e][i])
              => matches'[e][i].at <= m /\ matches'[e][i].by <= m
    BY <1>2, <1>4, <2>4, <2>5
  <2> HIDE DEF m
  <2> QED BY <2>3, <2>6 DEF Dated
<1> QED BY <1>7, <1>9, <1>10, <1>11 DEF LinksKeep

\* A merge takes each record from one side, and one that is there if either
\* side has one.
LEMMA MergeDoes ==
    ASSUME NEW x \in MatchRecord \cup {NoRecord},
           NEW y \in MatchRecord \cup {NoRecord}
    PROVE  /\ Merge(x, y) \in {x, y}
           /\ There(x) \/ There(y) => There(Merge(x, y))
<1>1. x.at \in Nat /\ y.at \in Nat BY ThereIsRecord
<1> QED BY <1>1 DEF Merge, Wins, There

\* So does replication, which takes each record from one of the two sides.
LEMMA SyncKeeps ==
    ASSUME Typed, NEW d \in Device, NEW e \in Device, SyncMatches(d, e)
    PROVE  /\ LinksKeep
           /\ \A i \in MatchId :
                 matches'[d][i] \in {matches[d][i], matches[e][i]}
           /\ \A c \in Device : c # d => matches'[c] = matches[c]
           /\ \A i \in MatchId : There(matches[d][i]) \/ There(matches[e][i])
                                => There(matches'[d][i])
<1>1. /\ matches \in [Device -> Coll] /\ nextId \in Nat \ {0}
      /\ matches[d] \in Coll /\ matches[e] \in Coll
  BY DEF Typed, Shapes
<1> DEFINE M == MergeAll(matches[d], matches[e])
<1>2. DOMAIN matches[d] = MatchId BY <1>1 DEF Coll
<1>3. \A i \in MatchId : M[i] = Merge(matches[d][i], matches[e][i])
  BY <1>2 DEF MergeAll
<1>4. M = [i \in MatchId |-> M[i]] BY <1>2 DEF MergeAll
<1>5. matches' = [matches EXCEPT ![d] = M] /\ nextId' = nextId
  BY DEF SyncMatches, history
<1> HIDE DEF M
<1>6. \A i \in MatchId :
         /\ M[i] \in {matches[d][i], matches[e][i]}
         /\ There(matches[d][i]) \/ There(matches[e][i]) => There(M[i])
  <2> SUFFICES ASSUME NEW i \in MatchId
               PROVE  /\ M[i] \in {matches[d][i], matches[e][i]}
                      /\ There(matches[d][i]) \/ There(matches[e][i])
                            => There(M[i])
    OBVIOUS
  <2> DEFINE x == matches[d][i]
             y == matches[e][i]
  <2>1. /\ x \in MatchRecord \cup {NoRecord}
        /\ y \in MatchRecord \cup {NoRecord}
    BY <1>1 DEF Coll
  <2>2. M[i] = Merge(x, y) BY <1>3
  <2> HIDE DEF x, y
  <2>3. M[i] \in {x, y} /\ (There(x) \/ There(y) => There(M[i]))
    BY <2>1, <2>2, MergeDoes
  <2> QED BY <2>3 DEF x, y
<1>7. M \in Coll BY <1>1, <1>4, <1>6 DEF Coll
<1>8. matches'[d] = M /\ \A c \in Device : c # d => matches'[c] = matches[c]
  BY <1>1, <1>5
<1>9. \A c \in Device, i \in MatchId :
         \E b \in Device : matches'[c][i] = matches[b][i]
  BY <1>6, <1>8
<1>10. Books' BY <1>5, <1>9 DEF Typed, Books
<1>11. Dated' BY <1>9 DEF Typed, Dated
<1>12. Stays
  <2>1. \A i \in MatchId : There(matches[d][i]) =>
           There(M[i]) /\ PairOf(M[i]) = PairOf(matches[d][i])
    BY <1>6 DEF Typed, Books
  <2> QED BY <1>8, <2>1 DEF Stays
<1>13. matches' \in [Device -> Coll] BY <1>1, <1>5, <1>7
<1>14. nextId' \in Nat \ {0} BY <1>1, <1>5
<1>15. LinksKeep BY <1>10, <1>11, <1>12, <1>13, <1>14 DEF LinksKeep
<1> QED BY <1>6, <1>8, <1>15

-----------------------------------------------------------------------------
(* The writes of runs and of persons.                                      *)

\* A write of one record.
LEMMA OneRecord ==
    ASSUME NEW i, NEW m
    PROVE  DOMAIN One(i, m) = {i} /\ One(i, m)[i] = m
  BY DEF One

\* A run deletes only links that it may delete (engine.js).
LEMMA CleanWrites ==
    ASSUME Typed, NEW d \in Device, Clean(d)
    PROVE  \E new : Writes(d, new) /\ (Kept /\ Plans => Allowed(d, new))
<1>1. PICK i \in run[d].extra :
        /\ matches' = [matches EXCEPT ![d] =
              PutRecords(@, d, One(i, [@[i] EXCEPT !.deleted = TRUE]))]
        /\ UNCHANGED <<nextId, linked, undone>>
  BY DEF Clean, history
<1> DEFINE old == matches[d][i]
           m == [old EXCEPT !.deleted = TRUE]
           new == One(i, m)
<1>2. i \in MatchId /\ There(old) /\ old \in MatchRecord /\ nextId \in Nat
  <2>1. i \in MatchId /\ matches[d] \in Coll BY DEF Typed, Shapes
  <2>2. There(old) BY DEF Typed, Extras
  <2> QED BY <2>1, <2>2, ThereIsRecord DEF Coll, Typed, Shapes
<1>3. matches' = [matches EXCEPT ![d] = PutRecords(@, d, new)]
  BY <1>1
<1>4. DOMAIN new = {i} /\ new[i] = m BY OneRecord
<1> HIDE DEF new
<1>5. m \in MatchRecord /\ m.r = old.r /\ m.t = old.t /\ m.state = old.state
  BY <1>2 DEF MatchRecord
<1> HIDE DEF m
<1>6. PairOf(m) = PairOf(old) BY <1>5 DEF PairOf
<1>7. Writes(d, new) BY <1>1, <1>2, <1>3, <1>4, <1>5, <1>6 DEF Writes
<1>8. ASSUME Kept, Plans PROVE Allowed(d, new)
  <2>1. PairOf(old) \in undone \/ old.state = Kind(PairOf(old))
    BY <1>2, <1>8 DEF Kept
  <2>2. PairOf(old) \in undone \/ Older(matches[d], i) BY <1>8 DEF Plans
  <2> QED BY <1>1, <1>2, <1>4, <1>5, <1>6, <2>1, <2>2 DEF Allowed
<1> QED BY <1>7, <1>8

\* A run links under a new id (engine.js).
LEMMA LinkWrites ==
    ASSUME Typed, NEW d \in Device, Link(d)
    PROVE  \E new : Writes(d, new) /\ (Kept /\ Plans => Allowed(d, new))
<1>1. PICK p \in run[d].pairs :
        /\ matches' = [matches EXCEPT ![d] =
              PutRecords(@, d, One(nextId, Match(p, "auto")))]
        /\ linked' = linked \cup {p}
  BY DEF Link
<1>2. nextId <= MaxMatch /\ nextId' = nextId + 1 /\ undone' = undone
  BY DEF Link
<1> DEFINE m == Match(p, "auto")
           new == One(nextId, m)
<1>3. p \in Pair /\ nextId \in Nat \ {0} BY DEF Typed, Shapes
<1>4. nextId \in MatchId
  BY <1>2, <1>3, MatchingAssumption DEF MatchingAssumption, MatchId
<1>5. ~There(matches[d][nextId]) BY <1>3, <1>4 DEF Typed, Books
<1>6. /\ m \in MatchRecord /\ PairOf(m) = p
      /\ m.state = "auto" /\ m.deleted = FALSE
  BY <1>3, NewMatch DEF State
<1>7. DOMAIN new = {nextId} /\ new[nextId] = m BY OneRecord
<1> HIDE DEF m
<1>8. matches' = [matches EXCEPT ![d] = PutRecords(@, d, new)] BY <1>1 DEF m
<1> HIDE DEF new
<1>9. Writes(d, new) BY <1>2, <1>4, <1>5, <1>6, <1>7, <1>8 DEF Writes
<1>10. ASSUME Kept, Plans PROVE Allowed(d, new)
  <2>1. Score[p] >= Sure BY <1>10 DEF Plans
  <2> QED BY <1>1, <1>2, <1>6, <1>7, <2>1 DEF Allowed, Kind
<1> QED BY <1>9, <1>10

\* What a person rejects is a pair that was undone (actions.js).
LEMMA RejectWrites ==
    ASSUME Typed, NEW d \in Device, Reject(d)
    PROVE  \E new : Writes(d, new) /\ Allowed(d, new)
<1>1. PICK w \in decision[d].reject :
        /\ matches' = [matches EXCEPT ![d] = PutRecords(@, d, One(w.i, w.m))]
        /\ undone' = undone \cup {PairOf(w.m)}
  BY DEF Reject
<1>2. linked' = linked /\ nextId' = nextId BY DEF Reject
<1> DEFINE new == One(w.i, w.m)
<1>3. OfRecord(matches[d], w) BY DEF Typed, Decided, Sensible
<1>4. w.i \in MatchId /\ w.m \in MatchRecord
  <2>1. decision[d] \in Decision BY DEF Typed, Shapes
  <2>2. w \in [i : MatchId, m : MatchRecord] BY <2>1 DEF Decision
  <2> QED BY <2>2
<1>5. DOMAIN new = {w.i} /\ new[w.i] = w.m BY OneRecord
<1>6. matches' = [matches EXCEPT ![d] = PutRecords(@, d, new)] BY <1>1
<1> HIDE DEF new
<1>7. Writes(d, new) BY <1>2, <1>3, <1>4, <1>5, <1>6 DEF Writes, OfRecord
<1>8. Allowed(d, new) BY <1>1, <1>2, <1>5 DEF Allowed
<1> QED BY <1>7, <1>8

\* Confirming keeps to it where no sure pair is confirmed (actions.js).
LEMMA PutConfirmedWrites ==
    ASSUME Typed, NEW d \in Device, PutConfirmed(d)
    PROVE  \E new : Writes(d, new) /\ (~ConfirmsSure => Allowed(d, new))
<1>1. PICK w \in decision[d].confirm :
        LET i == IF w.i = None THEN nextId ELSE w.i
        IN /\ i <= MaxMatch
           /\ matches' = [matches EXCEPT ![d] = PutRecords(@, d, One(i, w.m))]
           /\ nextId' = IF w.i = None THEN nextId + 1 ELSE nextId
           /\ linked' = linked \cup {PairOf(w.m)}
  BY DEF PutConfirmed
<1> DEFINE i == IF w.i = None THEN nextId ELSE w.i
           new == One(i, w.m)
<1> HIDE DEF i
<1>2. undone' = undone BY DEF PutConfirmed
<1>3. /\ w.i # None => OfRecord(matches[d], w)
      /\ w.m.state = "confirmed" /\ ~w.m.deleted
      /\ ConfirmsSure \/ Score[PairOf(w.m)] < Sure
  BY DEF Typed, Decided, Sensible
<1>4. w.i \in MatchId \cup {None} /\ w.m \in MatchRecord
  <2>1. decision[d] \in Decision BY DEF Typed, Shapes
  <2>2. w \in [i : MatchId \cup {None}, m : MatchRecord] BY <2>1 DEF Decision
  <2> QED BY <2>2
<1>5. DOMAIN new = {i} /\ new[i] = w.m BY OneRecord
<1>6. /\ matches' = [matches EXCEPT ![d] = PutRecords(@, d, new)]
      /\ i <= MaxMatch
  BY <1>1 DEF i
<1>7. nextId \in Nat \ {0} BY DEF Typed, Shapes
<1>8. /\ i \in MatchId /\ nextId' \in {nextId, nextId + 1}
      /\ IF There(matches[d][i]) THEN PairOf(w.m) = PairOf(matches[d][i])
         ELSE i = nextId /\ nextId' = nextId + 1
  <2>1. CASE w.i = None
    <3>1. i = nextId /\ nextId' = nextId + 1 BY <1>1, <2>1 DEF i
    <3>2. i \in MatchId
      BY <1>6, <1>7, <3>1, MatchingAssumption DEF MatchingAssumption, MatchId
    <3>3. ~There(matches[d][i]) BY <1>7, <3>1, <3>2 DEF Typed, Books
    <3> QED BY <3>1, <3>2, <3>3
  <2>2. CASE w.i # None
    <3>1. i = w.i /\ nextId' = nextId BY <1>1, <2>2 DEF i
    <3> QED BY <1>3, <1>4, <2>2, <3>1 DEF OfRecord
  <2> QED BY <2>1, <2>2
<1> HIDE DEF new
<1>9. Writes(d, new) BY <1>4, <1>5, <1>6, <1>8 DEF Writes
<1>10. ASSUME ~ConfirmsSure PROVE Allowed(d, new)
  <2>1. PairOf(w.m) \in Pair BY <1>4 DEF MatchRecord, PairOf, Pair
  <2>2. Score[PairOf(w.m)] \in Nat /\ Sure \in Nat
    BY <2>1, MatchingAssumption DEF MatchingAssumption, Pair
  <2>3. Kind(PairOf(w.m)) = "confirmed" BY <1>3, <1>10, <2>2 DEF Kind
  <2> QED BY <1>1, <1>2, <1>3, <1>5, <2>3 DEF Allowed
<1> QED BY <1>9, <1>10

\* A step puts links as above, brings a device another one's, or neither.
Unlinked == UNCHANGED <<matches, nextId, linked, undone>>

\* All that can happen to links: an allowed write, replication, or nothing.
LEMMA MatchesStep ==
    ASSUME Typed, [LinksNext]_linksVars
    PROVE  \/ \E d \in Device : \E new :
                 /\ Writes(d, new)
                 /\ ~ConfirmsSure /\ Kept /\ Plans => Allowed(d, new)
           \/ \E d, e \in Device : SyncMatches(d, e)
           \/ Unlinked
<1> DEFINE Puts == \E d \in Device : \E new :
                      /\ Writes(d, new)
                      /\ ~ConfirmsSure /\ Kept /\ Plans => Allowed(d, new)
<1>1. ASSUME NEW d \in Device, Clean(d) PROVE Puts BY <1>1, CleanWrites
<1>2. ASSUME NEW d \in Device, Link(d) PROVE Puts BY <1>2, LinkWrites
<1>3. ASSUME NEW d \in Device, Reject(d) PROVE Puts BY <1>3, RejectWrites
<1>4. ASSUME NEW d \in Device, PutConfirmed(d) PROVE Puts
  BY <1>4, PutConfirmedWrites
<1> HIDE DEF Puts
<1>5. ASSUME NEW d \in Device,
             \/ Decides(d) \/ LookAtBooking(d) \/ PutBooking(d)
             \/ EndDecision(d)
      PROVE  Unlinked
  BY <1>5 DEF Decides, Decide, LookAtBooking, PutBooking, EndDecision, books,
              history, Unlinked
<1>6. ASSUME NEW d \in Device, StartRun(d) PROVE Unlinked
  BY <1>6 DEF StartRun, books, history, Unlinked
<1>7. ASSUME NEW d \in Device, EndRun(d) PROVE Unlinked
  BY <1>7 DEF EndRun, books, history, Unlinked
<1>8. ASSUME NEW d \in Device, LinksStep(d) PROVE Unlinked
  BY <1>8 DEF LinksStep, WriteLink, history, Unlinked
<1>9. ASSUME NEW d \in Device, NEW e \in Device, SyncTxs(d, e) PROVE Unlinked
  BY <1>9 DEF SyncTxs, Unlinked
<1>10. UNCHANGED linksVars => Unlinked BY DEF linksVars, Unlinked
<1>11. Puts \/ Unlinked \/ \E d, e \in Device : SyncMatches(d, e)
  BY <1>1, <1>2, <1>3, <1>4, <1>5, <1>6, <1>7, <1>8, <1>9, <1>10, NextIs
<1> QED BY <1>11 DEF Puts

\* No step loses the types or the dates of links.
LEMMA LinksKept ==
    ASSUME Typed, [LinksNext]_linksVars
    PROVE  LinksKeep
<1>1. ASSUME Unlinked PROVE LinksKeep
  <2>1. matches \in [Device -> Coll] /\ nextId \in Nat \ {0} /\ Books /\ Dated
    BY DEF Typed, Shapes
  <2>2. matches' = matches /\ nextId' = nextId BY <1>1 DEF Unlinked
  <2>3. Books' BY <2>1, <2>2 DEF Books
  <2>4. Dated' BY <2>1, <2>2 DEF Dated
  <2> QED BY <2>1, <2>2, <2>3, <2>4 DEF LinksKeep, Stays
<1> QED BY <1>1, WritesKeep, SyncKeeps, MatchesStep

\* A record that had an older one keeps it.
LEMMA OlderStays ==
    ASSUME Stays, NEW d \in Device, NEW i \in MatchId, There(matches[d][i]),
           Older(matches[d], i)
    PROVE  Older(matches'[d], i)
  BY DEF Stays, Older

\* No step deletes the oldest record of a pair that nobody undid.
LEMMA KeptStep ==
    ASSUME ~ConfirmsSure, LinksInv, [LinksNext]_linksVars
    PROVE  Kept' /\ Recorded' /\ undone \subseteq undone'
<1> DEFINE Good(m, coll, i) == m.state = Kind(PairOf(m))
                              /\ (m.deleted => Older(coll, i))
<1>1. Typed /\ Kept /\ Plans /\ Recorded /\ LinksKeep /\ Stays
  BY LinksKept DEF LinksInv, LinksKeep
<1>2. ASSUME NEW d \in Device, NEW i \in MatchId, There(matches[d][i]),
             undone \subseteq undone'
      PROVE  \/ PairOf(matches[d][i]) \in undone'
             \/ Good(matches[d][i], matches'[d], i)
  BY <1>1, <1>2, OlderStays DEF Kept
<1>3. ASSUME NEW d \in Device, NEW new, Writes(d, new), Allowed(d, new)
      PROVE  Kept' /\ Recorded' /\ undone \subseteq undone'
  <2> DEFINE P == PutRecords(matches[d], d, new)
  <2>1. /\ matches \in [Device -> Coll] /\ matches[d] \in Coll
        /\ DOMAIN new \subseteq MatchId
    BY <1>1, <1>3 DEF Typed, Shapes, Writes
  <2>2. /\ \A i \in MatchId \ DOMAIN new : P[i] = matches[d][i]
        /\ \A i \in DOMAIN new :
              /\ There(P[i]) /\ PairOf(P[i]) = PairOf(new[i])
              /\ P[i].state = new[i].state /\ P[i].deleted = new[i].deleted
    BY <1>3, <2>1, PutDoes DEF Writes
  <2>3. matches' = [matches EXCEPT ![d] = P] BY <1>3 DEF Writes
  <2> HIDE DEF P
  <2>4. matches'[d] = P /\ \A e \in Device : e # d => matches'[e] = matches[e]
    BY <2>1, <2>3
  <2>5. undone \subseteq undone' BY <1>3 DEF Allowed
  <2>6. ASSUME NEW i \in DOMAIN new, PairOf(P[i]) \notin undone'
        PROVE  Good(P[i], P, i)
    <3>1. /\ new[i].state = Kind(PairOf(new[i]))
          /\ new[i].deleted => There(matches[d][i]) /\ Older(matches[d], i)
      BY <1>3, <2>2, <2>6 DEF Allowed
    <3>2. i \in MatchId BY <2>1
    <3>3. new[i].deleted => Older(P, i) BY <1>1, <2>4, <3>1, <3>2, OlderStays
    <3> QED BY <2>2, <3>1, <3>3
  <2>7. \A e \in Device, i \in MatchId : There(matches'[e][i]) =>
           \/ PairOf(matches'[e][i]) \in undone'
           \/ Good(matches'[e][i], matches'[e], i)
    <3> SUFFICES ASSUME NEW e \in Device, NEW i \in MatchId,
                        There(matches'[e][i])
                 PROVE  \/ PairOf(matches'[e][i]) \in undone'
                        \/ Good(matches'[e][i], matches'[e], i)
      OBVIOUS
    <3>1. CASE e = d /\ i \in DOMAIN new BY <2>4, <2>6, <3>1
    <3>2. CASE ~(e = d /\ i \in DOMAIN new)
      <4>1. matches'[e][i] = matches[e][i] BY <2>2, <2>4, <3>2
      <4> QED BY <1>2, <2>5, <4>1
    <3> QED BY <3>1, <3>2
  <2>8. Kept' BY <2>7 DEF Kept
  <2>9. Recorded'
    <3> SUFFICES ASSUME NEW p \in linked'
                 PROVE  \E e \in Device, i \in MatchId :
                           There(matches'[e][i]) /\ PairOf(matches'[e][i]) = p
      BY DEF Recorded
    <3>1. CASE p \in linked BY <1>1, <3>1 DEF Recorded, Stays
    <3>2. CASE p \in { PairOf(new[i]) : i \in DOMAIN new }
      BY <2>1, <2>2, <2>4, <3>2
    <3> QED BY <1>3, <3>1, <3>2 DEF Allowed
  <2> QED BY <2>5, <2>8, <2>9
<1>4. ASSUME NEW d \in Device, NEW e \in Device, SyncMatches(d, e)
      PROVE  Kept' /\ Recorded' /\ undone \subseteq undone'
  <2>1. linked' = linked /\ undone' = undone BY <1>4 DEF SyncMatches, history
  <2>2. /\ \A i \in MatchId : matches'[d][i] \in {matches[d][i], matches[e][i]}
        /\ \A c \in Device : c # d => matches'[c] = matches[c]
        /\ \A i \in MatchId : There(matches[d][i]) \/ There(matches[e][i])
                             => There(matches'[d][i])
    BY <1>1, <1>4, SyncKeeps
  <2>3. ASSUME NEW c \in {d, e}, NEW i \in MatchId, There(matches[c][i]),
               matches'[d][i] = matches[c][i],
               PairOf(matches'[d][i]) \notin undone
        PROVE  Good(matches'[d][i], matches'[d], i)
    <3>1. Good(matches[c][i], matches[c], i) BY <1>1, <2>3 DEF Kept
    <3>2. ASSUME Older(matches[c], i) PROVE Older(matches'[d], i)
      <4>1. PICK j \in MatchId : /\ j < i /\ There(matches[c][j])
                                 /\ PairOf(matches[c][j])
                                       = PairOf(matches[c][i])
        BY <3>2 DEF Older
      <4>2. There(matches'[d][j]) BY <2>2, <4>1
      <4>3. PairOf(matches'[d][j]) = PairOf(matches[c][j])
        BY <1>1, <2>2, <4>1, <4>2 DEF Typed, Books
      <4> QED BY <2>3, <4>1, <4>2, <4>3 DEF Older
    <3> QED BY <2>3, <3>1, <3>2
  <2>4. \A c \in Device, i \in MatchId : There(matches'[c][i]) =>
           \/ PairOf(matches'[c][i]) \in undone'
           \/ Good(matches'[c][i], matches'[c], i)
    <3> SUFFICES ASSUME NEW c \in Device, NEW i \in MatchId,
                        There(matches'[c][i]),
                        PairOf(matches'[c][i]) \notin undone
                 PROVE  Good(matches'[c][i], matches'[c], i)
      BY <2>1
    <3>1. CASE c = d BY <2>2, <2>3, <3>1
    <3>2. CASE c # d BY <1>2, <2>1, <2>2, <3>2
    <3> QED BY <3>1, <3>2
  <2>5. Kept' BY <2>4 DEF Kept
  <2>6. Recorded' BY <1>1, <2>1 DEF Recorded, Stays
  <2> QED BY <2>1, <2>5, <2>6
<1>5. ASSUME Unlinked PROVE Kept' /\ Recorded' /\ undone \subseteq undone'
  BY <1>1, <1>5 DEF Unlinked, Kept, Recorded
<1> QED BY <1>1, <1>3, <1>4, <1>5, MatchesStep

-----------------------------------------------------------------------------
(* Bookings, and what runs and syncLinks have left to write.               *)

NoneDeleted(bookings) ==
    \A t \in Tx : There(bookings[t]) => ~bookings[t].deleted

\* A write of a booking deletes none.
LEMMA TxPutDoes ==
    ASSUME NEW bookings \in Bookings, NEW d \in Device, NEW t \in Tx,
           NEW tx \in TxRecord
    PROVE  /\ PutRecords(bookings, d, One(t, tx)) \in Bookings
           /\ NoneDeleted(bookings) /\ ~tx.deleted
                 => NoneDeleted(PutRecords(bookings, d, One(t, tx)))
<1> DEFINE P == PutRecords(bookings, d, One(t, tx))
           k == [tx EXCEPT !.at = bookings[t].at + 1]
           n == [k EXCEPT !.by = d]
<1>1. d \in Nat BY MatchingAssumption DEF MatchingAssumption
<1>2. DOMAIN bookings = Tx BY DEF Bookings
<1>3. DOMAIN One(t, tx) = {t} /\ One(t, tx)[t] = tx BY OneRecord
<1>4. P = [x \in Tx |-> P[x]] BY <1>2 DEF PutRecords
<1>5. \A x \in Tx : x # t => P[x] = bookings[x] BY <1>2, <1>3 DEF PutRecords
<1>6. P[t] = n BY <1>2, <1>3 DEF PutRecords
<1>7. bookings[t].at + 1 \in Nat BY BookingIsRecord DEF Bookings
<1>8. k \in TxRecord /\ k.deleted = tx.deleted BY <1>7 DEF TxRecord
<1> HIDE DEF P, k
<1>9. n \in TxRecord /\ n.deleted = tx.deleted BY <1>1, <1>8 DEF TxRecord
<1> HIDE DEF n
<1>10. P \in Bookings BY <1>4, <1>5, <1>6, <1>9 DEF Bookings
<1>11. NoneDeleted(bookings) /\ ~tx.deleted => NoneDeleted(P)
  BY <1>5, <1>6, <1>9 DEF NoneDeleted
<1> QED BY <1>10, <1>11 DEF P

\* The receipt of the oldest link is a receipt.
LEMMA ReceiptOfIs ==
    ASSUME NEW coll \in Coll, NEW t
    PROVE  ReceiptOf(coll, t) \in Receipt \cup {None}
<1> DEFINE links == { i \in Active(coll) : coll[i].t = t }
<1>1. ASSUME links # {} PROVE coll[Min(links)].r \in Receipt
  <2>1. links \subseteq MatchId BY DEF Active
  <2>2. \A i \in links : There(coll[i]) BY DEF Active, IsActive, Live
  <2> HIDE DEF links
  <2>3. PICK x \in links : \A y \in links : x <= y
    BY <1>1, <2>1, IdsAreNumbers, LeastNat
  <2>4. Min(links) \in links BY <2>3 DEF Min
  <2>5. coll[Min(links)] \in MatchRecord
    BY <2>1, <2>2, <2>4, ThereIsRecord DEF Coll
  <2> QED BY <2>5 DEF MatchRecord
<1> QED BY <1>1 DEF ReceiptOf

\* What syncLinks writes are bookings as they were read, with another link.
LEMMA LinksOfAre ==
    ASSUME NEW coll \in Coll, NEW bookings \in Bookings
    PROVE  /\ LinksOf(coll, bookings) \subseteq LinkWrite
           /\ NoneDeleted(bookings) =>
                 \A x \in LinksOf(coll, bookings) : ~x.tx.deleted
<1> DEFINE w(t) == [t |-> t, tx |-> [bookings[t] EXCEPT !.link =
                                       ReceiptOf(coll, t)]]
<1>1. \A x \in LinksOf(coll, bookings) :
         \E t \in Followed : Live(bookings[t]) /\ x = w(t)
  BY DEF LinksOf
<1>2. ASSUME NEW t \in Followed, Live(bookings[t])
      PROVE  /\ w(t) \in LinkWrite
             /\ NoneDeleted(bookings) => ~w(t).tx.deleted
  <2> DEFINE old == bookings[t]
             r == ReceiptOf(coll, t)
             n == [old EXCEPT !.link = r]
  <2>1. t \in Tx BY MatchingAssumption DEF MatchingAssumption
  <2>2. There(old) /\ ~old.deleted BY <1>2 DEF Live
  <2>3. old \in TxRecord BY <2>1, <2>2, BookingIsRecord DEF Bookings
  <2>4. r \in Receipt \cup {None} BY ReceiptOfIs
  <2> HIDE DEF old, r
  <2>5. n \in TxRecord /\ n.deleted = old.deleted BY <2>3, <2>4 DEF TxRecord
  <2>6. w(t) = [t |-> t, tx |-> n] BY DEF n, old, r
  <2> HIDE DEF n, w
  <2>7. w(t).tx = n BY <2>6
  <2>8. w(t) \in LinkWrite BY <2>1, <2>5, <2>6 DEF LinkWrite
  <2> QED BY <2>2, <2>5, <2>7, <2>8
<1> HIDE DEF w
<1> QED BY <1>1, <1>2

\* A device writes one booking, gets another one's, or leaves them alone.
LEMMA TxsStep ==
    ASSUME Typed, [LinksNext]_linksVars
    PROVE  /\ txs' \in [Device -> Bookings]
           /\ Plans => \A d \in Device : NoneDeleted(txs'[d])
<1> DEFINE Sound == /\ txs' \in [Device -> Bookings]
                    /\ Plans => \A d \in Device : NoneDeleted(txs'[d])
<1>1. txs \in [Device -> Bookings] /\ \A d \in Device : txs[d] \in Bookings
  BY DEF Typed, Shapes
<1>2. Plans => \A d \in Device : NoneDeleted(txs[d]) BY DEF Plans, NoneDeleted
<1>3. UNCHANGED txs => Sound BY <1>1, <1>2
<1>4. ASSUME NEW d \in Device, NEW t \in Tx, NEW tx \in TxRecord,
             txs' = [txs EXCEPT ![d] = PutRecords(@, d, One(t, tx))],
             Plans => ~tx.deleted
      PROVE  Sound
  <2> DEFINE P == PutRecords(txs[d], d, One(t, tx))
  <2>1. P \in Bookings /\ (NoneDeleted(txs[d]) /\ ~tx.deleted => NoneDeleted(P))
    BY <1>1, TxPutDoes
  <2>2. txs' = [txs EXCEPT ![d] = P] BY <1>4
  <2> HIDE DEF P
  <2>3. \A e \in Device : txs'[e] = IF e = d THEN P ELSE txs[e] BY <1>1, <2>2
  <2>4. txs' \in [Device -> Bookings] BY <1>1, <2>1, <2>2
  <2> QED BY <1>2, <1>4, <2>1, <2>3, <2>4
<1>5. ASSUME NEW d \in Device, PutBooking(d) PROVE Sound
  <2>1. PICK x \in decision[d].put :
          txs' = [txs EXCEPT ![d] = PutRecords(@, d, One(x.t, x.tx))]
    BY <1>5 DEF PutBooking
  <2>2. decision[d] \in Decision BY DEF Typed, Shapes
  <2>3. x \in LinkWrite BY <2>2 DEF Decision
  <2>4. x.t \in Tx /\ x.tx \in TxRecord BY <2>3 DEF LinkWrite
  <2>5. Plans => ~x.tx.deleted BY DEF Plans
  <2> HIDE DEF Sound
  <2> QED BY <1>4, <2>1, <2>4, <2>5
<1>6. ASSUME NEW d \in Device, LinksStep(d) PROVE Sound
  <2> PICK w \in Thread : WriteLink(d, w) BY <1>6 DEF LinksStep
  <2>1. PICK x \in toWrite[d][w] :
          txs' = [txs EXCEPT ![d] = PutRecords(@, d, One(x.t, x.tx))]
    BY DEF WriteLink
  <2>2. x \in LinkWrite BY DEF Typed, Shapes
  <2>3. x.t \in Tx /\ x.tx \in TxRecord BY <2>2 DEF LinkWrite
  <2>4. Plans => ~x.tx.deleted BY DEF Plans
  <2> HIDE DEF Sound
  <2> QED BY <1>4, <2>1, <2>3, <2>4
<1>9. ASSUME NEW d \in Device, NEW e \in Device, SyncTxs(d, e) PROVE Sound
  <2> DEFINE M == MergeAll(txs[d], txs[e])
  <2>1. txs' = [txs EXCEPT ![d] = M] BY <1>9 DEF SyncTxs
  <2>2. DOMAIN txs[d] = Tx BY <1>1 DEF Bookings
  <2>3. M = [t \in Tx |-> M[t]] /\ \A t \in Tx : M[t] \in {txs[d][t], txs[e][t]}
    BY <2>2 DEF MergeAll, Merge
  <2> HIDE DEF M
  <2>4. M \in Bookings BY <1>1, <2>3 DEF Bookings
  <2>5. NoneDeleted(txs[d]) /\ NoneDeleted(txs[e]) => NoneDeleted(M)
    BY <2>3 DEF NoneDeleted
  <2>6. \A c \in Device : txs'[c] = IF c = d THEN M ELSE txs[c] BY <1>1, <2>1
  <2>7. txs' \in [Device -> Bookings] BY <1>1, <2>1, <2>4
  <2> QED BY <1>2, <2>5, <2>6, <2>7
<1> HIDE DEF Sound
<1>10. ASSUME NEW d \in Device,
              StartRun(d) \/ Clean(d) \/ Link(d) \/ EndRun(d)
       PROVE  UNCHANGED txs
  BY <1>10 DEF StartRun, Clean, Link, EndRun, books
<1>11. ASSUME NEW d \in Device,
              \/ Decides(d) \/ Reject(d) \/ PutConfirmed(d)
              \/ LookAtBooking(d) \/ EndDecision(d)
       PROVE  UNCHANGED txs
  BY <1>11 DEF Decides, Decide, Reject, PutConfirmed, LookAtBooking,
               EndDecision, books
<1>12. ASSUME NEW d \in Device, NEW e \in Device, SyncMatches(d, e)
       PROVE  UNCHANGED txs
  BY <1>12 DEF SyncMatches
<1>13. UNCHANGED linksVars => UNCHANGED txs BY DEF linksVars
<1>14. Sound
  BY <1>3, <1>5, <1>6, <1>9, <1>10, <1>11, <1>12, <1>13, NextIs
<1> QED BY <1>14 DEF Sound

\* What syncLinks has left to write is what it read, or less.
LEMMA ToWriteStep ==
    ASSUME Typed, [LinksNext]_linksVars
    PROVE  /\ toWrite' \in [Device -> [Thread -> SUBSET LinkWrite]]
           /\ Plans => \A d \in Device, w \in Thread :
                          \A x \in toWrite'[d][w] : ~x.tx.deleted
<1> DEFINE Fine(T) == T \subseteq LinkWrite
                      /\ (Plans => \A x \in T : ~x.tx.deleted)
           Sound == /\ toWrite' \in [Device -> [Thread -> SUBSET LinkWrite]]
                    /\ Plans => \A d \in Device, w \in Thread :
                                   \A x \in toWrite'[d][w] : ~x.tx.deleted
<1>1. /\ matches \in [Device -> Coll] /\ txs \in [Device -> Bookings]
      /\ toWrite \in [Device -> [Thread -> SUBSET LinkWrite]]
  BY DEF Typed, Shapes
<1>2. \A d \in Device, w \in Thread : Fine(toWrite[d][w])
  BY <1>1 DEF Plans
<1>3. UNCHANGED toWrite => Sound BY <1>1 DEF Plans
<1>4. ASSUME NEW d \in Device, NEW w \in Thread, NEW T, Fine(T),
             toWrite' = [toWrite EXCEPT ![d][w] = T]
      PROVE  Sound
  <2>1. \A e \in Device, v \in Thread :
           toWrite'[e][v] = IF e = d /\ v = w THEN T ELSE toWrite[e][v]
    BY <1>1, <1>4
  <2>2. toWrite' \in [Device -> [Thread -> SUBSET LinkWrite]] BY <1>1, <1>4
  <2> QED BY <1>2, <1>4, <2>1, <2>2
<1>5. ASSUME NEW coll \in Coll, NEW bookings \in Bookings,
             Plans => NoneDeleted(bookings)
      PROVE  Fine(LinksOf(coll, bookings))
  BY <1>5, LinksOfAre
<1> HIDE DEF Fine, Sound
<1>6. \A d \in Device : Fine(LinksOf(matches[d], txs[d]))
  BY <1>1, <1>5 DEF Plans, NoneDeleted
<1>7. ASSUME NEW d \in Device, EndDecision(d) PROVE Sound
  <2>1. toWrite' = [toWrite EXCEPT ![d]["person"] = LinksOf(matches[d], txs[d])]
    BY <1>7 DEF EndDecision
  <2>2. "person" \in Thread BY DEF Thread
  <2> QED BY <1>4, <1>6, <2>1, <2>2
<1>8. ASSUME NEW d \in Device,
             \/ Decides(d) \/ Reject(d) \/ PutConfirmed(d)
             \/ LookAtBooking(d) \/ PutBooking(d)
      PROVE  Sound
  BY <1>3, <1>8 DEF Decides, Decide, Reject, PutConfirmed, LookAtBooking,
                    PutBooking
<1>9. ASSUME NEW d \in Device,
             toWrite' = [toWrite EXCEPT ![d]["run"] =
                            LinksOf(matches[d], txs[d])]
      PROVE  Sound
  <2>1. "run" \in Thread BY DEF Thread
  <2> QED BY <1>4, <1>6, <1>9, <2>1
<1>10. ASSUME NEW d \in Device, StartRun(d) PROVE Sound
  <2>1. \/ UNCHANGED toWrite
        \/ toWrite' = [toWrite EXCEPT ![d]["run"] = LinksOf(matches[d], txs[d])]
    BY <1>10 DEF StartRun
  <2> QED BY <1>3, <1>9, <2>1
<1>11. ASSUME NEW d \in Device, Clean(d) \/ Link(d) \/ EndRun(d) PROVE Sound
  BY <1>3, <1>9, <1>11 DEF Clean, Link, EndRun
<1>12. ASSUME NEW d \in Device, LinksStep(d) PROVE Sound
  <2>1. PICK w \in Thread : WriteLink(d, w) BY <1>12 DEF LinksStep
  <2>2. PICK x \in toWrite[d][w] :
          toWrite' = [toWrite EXCEPT ![d][w] = @ \ {x}]
    BY <2>1 DEF WriteLink
  <2> DEFINE T == toWrite[d][w] \ {x}
  <2>3. Fine(T) BY <1>2 DEF Fine
  <2>4. toWrite' = [toWrite EXCEPT ![d][w] = T] BY <2>2
  <2> HIDE DEF T
  <2> QED BY <1>4, <2>3, <2>4
<1>16. ASSUME NEW d \in Device, NEW e \in Device,
             SyncMatches(d, e) \/ SyncTxs(d, e)
       PROVE  Sound
  BY <1>3, <1>16 DEF SyncMatches, SyncTxs
<1>17. UNCHANGED linksVars => UNCHANGED toWrite BY DEF linksVars
<1>18. Sound
  BY <1>3, <1>7, <1>8, <1>10, <1>11, <1>12, <1>16, <1>17, NextIs
<1> QED BY <1>18 DEF Sound

-----------------------------------------------------------------------------
(* What a run has left to do.                                              *)

\* The pairs a run takes are pairs that it may take.
LEMMA AssignedAre ==
    ASSUME NEW open \in SUBSET Pair, NEW pairs \in Assigned(open)
    PROVE  pairs \subseteq Pair /\ \A p \in pairs : Score[p] >= Sure
  BY DEF Assigned

\* Of two links of one pair that nobody undid the older one comes first.
LEMMA TwiceIsOlder ==
    ASSUME Typed, Kept, NEW d \in Device, NEW i \in Active(matches[d]),
           NEW j \in Active(matches[d]),
           PairOf(matches[d][j]) = PairOf(matches[d][i]),
           Before(matches[d], j, i), PairOf(matches[d][i]) \notin undone
    PROVE  Older(matches[d], i)
<1>1. /\ i \in MatchId /\ j \in MatchId
      /\ There(matches[d][i]) /\ There(matches[d][j])
  BY DEF Active, IsActive, Live
<1>2. matches[d][i].state = matches[d][j].state BY <1>1 DEF Kept
<1>3. i \in Nat /\ j \in Nat BY <1>1, IdsAreNumbers
<1>4. j < i BY <1>2, <1>3 DEF Before
<1> QED BY <1>1, <1>4 DEF Older

\* What a run means to do when it begins.
LEMMA StartRunDoes ==
    ASSUME Typed, NEW d \in Device, StartRun(d)
    PROVE  \/ UNCHANGED run
           \/ \E extra \in SUBSET MatchId, pairs \in SUBSET Pair :
                /\ run' = [run EXCEPT ![d] = [going |-> TRUE, extra |-> extra,
                                              pairs |-> pairs]]
                /\ \A i \in extra : There(matches[d][i])
                /\ \A p \in pairs : Score[p] >= Sure
                /\ Kept /\ Plans => \A i \in extra :
                      PairOf(matches[d][i]) \in undone \/ Older(matches[d], i)
<1> DEFINE coll == matches[d]
           gone == Gone(coll, txs[d])
           twice == Twice(coll, Active(coll) \ gone)
           extra == gone \cup twice
           open == Open(coll, txs[d], Active(coll) \ extra)
<1>1. PICK pairs \in Assigned(open) :
        IF extra \cup pairs = {} THEN UNCHANGED run
        ELSE run' = [run EXCEPT ![d] =
                [going |-> TRUE, extra |-> extra, pairs |-> pairs]]
  BY Zenon DEF StartRun
<1>2. open \subseteq Pair BY DEF Open
<1>3. gone \subseteq Active(coll) /\ twice \subseteq Active(coll)
  BY DEF Gone, Twice
<1>4. \A i \in Active(coll) : i \in MatchId /\ There(coll[i])
  BY DEF Active, IsActive, Live
<1>5. ASSUME Kept, Plans, NEW i \in extra
      PROVE  PairOf(coll[i]) \in undone \/ Older(coll, i)
  <2>1. CASE i \in gone
    <3>1. i \in MatchId /\ There(coll[i]) BY <1>3, <1>4, <2>1
    <3>2. coll[i] \in MatchRecord
      BY <3>1, ThereIsRecord DEF Typed, Shapes, Coll
    <3>3. coll[i].t \in Tx BY <3>2 DEF MatchRecord
    <3>4. There(txs[d][coll[i].t]) /\ txs[d][coll[i].t].deleted
      BY <2>1 DEF Gone
    <3> QED BY <1>5, <3>3, <3>4 DEF Plans
  <2>2. CASE i \in twice
    <3>1. PICK j \in Active(coll) : /\ PairOf(coll[j]) = PairOf(coll[i])
                                    /\ Before(coll, j, i)
      BY <2>2 DEF Twice
    <3>2. i \in Active(coll) BY <1>3, <2>2
    <3> QED BY <1>5, <3>1, <3>2, TwiceIsOlder
  <2> QED BY <2>1, <2>2
<1> HIDE DEF extra, open
<1>6. pairs \subseteq Pair /\ \A p \in pairs : Score[p] >= Sure
  BY <1>2, AssignedAre
<1>7. extra \subseteq MatchId /\ \A i \in extra : There(coll[i])
  BY <1>3, <1>4 DEF extra
<1> QED BY <1>1, <1>5, <1>6, <1>7

\* A run begins with what it means to do, and does it bit by bit.
LEMMA RunShape ==
    ASSUME Typed, [LinksNext]_linksVars
    PROVE  \/ \E d \in Device : StartRun(d)
           \/ /\ run' \in [Device -> [going : BOOLEAN, extra : SUBSET MatchId,
                                      pairs : SUBSET Pair]]
              /\ \A d \in Device : /\ run'[d].extra \subseteq run[d].extra
                                   /\ run'[d].pairs \subseteq run[d].pairs
<1> DEFINE Runs == [going : BOOLEAN, extra : SUBSET MatchId,
                    pairs : SUBSET Pair]
           Less == /\ run' \in [Device -> Runs]
                   /\ \A d \in Device : /\ run'[d].extra \subseteq run[d].extra
                                        /\ run'[d].pairs \subseteq run[d].pairs
<1>1. run \in [Device -> Runs] BY DEF Typed, Shapes
<1>2. UNCHANGED run => Less BY <1>1
<1>3. ASSUME NEW d \in Device, NEW r \in Runs, run' = [run EXCEPT ![d] = r],
             r.extra \subseteq run[d].extra, r.pairs \subseteq run[d].pairs
      PROVE  Less
  <2> HIDE DEF Runs
  <2>1. \A e \in Device : run'[e] = IF e = d THEN r ELSE run[e] BY <1>1, <1>3
  <2>2. run' \in [Device -> Runs] BY <1>1, <1>3
  <2> QED BY <1>3, <2>1, <2>2
<1> HIDE DEF Less
<1>4. ASSUME NEW d \in Device, Clean(d) PROVE Less
  <2>1. PICK i \in run[d].extra :
          run' = [run EXCEPT ![d].extra = @ \ {i}]
    BY <1>4 DEF Clean
  <2> DEFINE r == [run[d] EXCEPT !.extra = @ \ {i}]
  <2>2. run' = [run EXCEPT ![d] = r] BY <2>1
  <2>3. run[d] \in Runs BY <1>1
  <2>4. /\ r \in Runs /\ r.extra \subseteq run[d].extra
        /\ r.pairs \subseteq run[d].pairs
    BY <2>3
  <2> HIDE DEF r, Runs
  <2> QED BY <1>3, <2>2, <2>4
<1>5. ASSUME NEW d \in Device, Link(d) PROVE Less
  <2>1. PICK p \in run[d].pairs :
          run' = [run EXCEPT ![d].pairs = @ \ {p}]
    BY <1>5 DEF Link
  <2> DEFINE r == [run[d] EXCEPT !.pairs = @ \ {p}]
  <2>2. run' = [run EXCEPT ![d] = r] BY <2>1
  <2>3. run[d] \in Runs BY <1>1
  <2>4. /\ r \in Runs /\ r.extra \subseteq run[d].extra
        /\ r.pairs \subseteq run[d].pairs
    BY <2>3
  <2> HIDE DEF r, Runs
  <2> QED BY <1>3, <2>2, <2>4
<1>6. ASSUME NEW d \in Device, EndRun(d) PROVE Less
  <2>1. run' = [run EXCEPT ![d] = NoRun] BY <1>6 DEF EndRun
  <2>2. NoRun \in Runs /\ NoRun.extra = {} /\ NoRun.pairs = {} BY DEF NoRun
  <2> HIDE DEF Runs
  <2> QED BY <1>3, <2>1, <2>2
<1>7. ASSUME NEW d \in Device,
             \/ LinksStep(d) \/ Decides(d) \/ Reject(d) \/ PutConfirmed(d)
             \/ LookAtBooking(d) \/ PutBooking(d) \/ EndDecision(d)
      PROVE  Less
  BY <1>2, <1>7 DEF LinksStep, WriteLink, Decides, Decide, Reject,
                    PutConfirmed, LookAtBooking, PutBooking, EndDecision
<1>11. ASSUME NEW d \in Device, NEW e \in Device,
             SyncMatches(d, e) \/ SyncTxs(d, e)
       PROVE  Less
  BY <1>2, <1>11 DEF SyncMatches, SyncTxs
<1>12. UNCHANGED linksVars => UNCHANGED run BY DEF linksVars
<1>13. Less \/ \E d \in Device : StartRun(d)
  BY <1>2, <1>4, <1>5, <1>6, <1>7, <1>11, <1>12, NextIs
<1> QED BY <1>13 DEF Less

\* What runs still mean to write keeps to what is kept.
LEMMA RunKept ==
    ASSUME Typed, [LinksNext]_linksVars, LinksKeep
    PROVE  /\ run' \in [Device -> [going : BOOLEAN, extra : SUBSET MatchId,
                                   pairs : SUBSET Pair]]
           /\ Extras'
           /\ Kept /\ Plans /\ undone \subseteq undone' =>
                /\ \A d \in Device : \A p \in run'[d].pairs : Score[p] >= Sure
                /\ \A d \in Device : \A i \in run'[d].extra :
                      \/ PairOf(matches'[d][i]) \in undone'
                      \/ Older(matches'[d], i)
<1> DEFINE Runs == [going : BOOLEAN, extra : SUBSET MatchId,
                    pairs : SUBSET Pair]
           Meant(d, i) == \/ PairOf(matches[d][i]) \in undone
                          \/ Older(matches[d], i)
<1>1. run \in [Device -> Runs] /\ Stays BY DEF Typed, Shapes, LinksKeep
<1>2. /\ \A d \in Device : run[d].extra \subseteq MatchId
      /\ \A d \in Device : \A i \in run[d].extra : There(matches[d][i])
  BY <1>1 DEF Typed, Extras
<1>3. ASSUME NEW d \in Device, NEW i \in MatchId, There(matches[d][i])
      PROVE  /\ There(matches'[d][i])
             /\ Meant(d, i) /\ undone \subseteq undone' =>
                   \/ PairOf(matches'[d][i]) \in undone'
                   \/ Older(matches'[d], i)
  BY <1>1, <1>3, OlderStays DEF Stays
<1> DEFINE Fine ==
             /\ run' \in [Device -> Runs]
             /\ \A d \in Device : \A i \in run'[d].extra :
                   /\ There(matches[d][i])
                   /\ Kept /\ Plans => Meant(d, i)
             /\ Kept /\ Plans => \A d \in Device : \A p \in run'[d].pairs :
                                    Score[p] >= Sure
<1>4. Plans => /\ \A d \in Device : \A i \in run[d].extra : Meant(d, i)
               /\ \A d \in Device : \A p \in run[d].pairs : Score[p] >= Sure
  BY DEF Plans
<1>5. ASSUME run' \in [Device -> Runs],
             \A d \in Device : /\ run'[d].extra \subseteq run[d].extra
                               /\ run'[d].pairs \subseteq run[d].pairs
      PROVE  Fine
  <2> HIDE DEF Runs, Meant
  <2> QED BY <1>2, <1>4, <1>5
<1>6. ASSUME NEW d \in Device, StartRun(d) PROVE Fine
  <2>1. CASE UNCHANGED run
    <3> HIDE DEF Runs, Meant, Fine
    <3> QED BY <1>1, <1>5, <2>1
  <2>2. CASE \E extra \in SUBSET MatchId, pairs \in SUBSET Pair :
                /\ run' = [run EXCEPT ![d] = [going |-> TRUE, extra |-> extra,
                                              pairs |-> pairs]]
                /\ \A i \in extra : There(matches[d][i])
                /\ \A p \in pairs : Score[p] >= Sure
                /\ Kept /\ Plans => \A i \in extra : Meant(d, i)
    <3>1. PICK extra \in SUBSET MatchId, pairs \in SUBSET Pair :
             /\ run' = [run EXCEPT ![d] = [going |-> TRUE, extra |-> extra,
                                           pairs |-> pairs]]
             /\ \A i \in extra : There(matches[d][i])
             /\ \A p \in pairs : Score[p] >= Sure
             /\ Kept /\ Plans => \A i \in extra : Meant(d, i)
      BY <2>2
    <3> DEFINE r == [going |-> TRUE, extra |-> extra, pairs |-> pairs]
    <3>2. r \in Runs /\ r.extra = extra /\ r.pairs = pairs OBVIOUS
    <3>3. run' = [run EXCEPT ![d] = r] BY <3>1
    <3> HIDE DEF r, Runs, Meant
    <3>4. /\ run' \in [Device -> Runs]
          /\ \A e \in Device : run'[e] = IF e = d THEN r ELSE run[e]
      BY <1>1, <3>2, <3>3
    <3> QED BY <1>2, <1>4, <3>1, <3>2, <3>4
  <2>3. \/ UNCHANGED run
        \/ \E extra \in SUBSET MatchId, pairs \in SUBSET Pair :
                /\ run' = [run EXCEPT ![d] = [going |-> TRUE, extra |-> extra,
                                              pairs |-> pairs]]
                /\ \A i \in extra : There(matches[d][i])
                /\ \A p \in pairs : Score[p] >= Sure
                /\ Kept /\ Plans => \A i \in extra : Meant(d, i)
    BY <1>6, StartRunDoes
  <2> HIDE DEF Fine, Meant
  <2> QED BY <2>1, <2>2, <2>3
<1>7. Fine
  <2> HIDE DEF Fine, Meant
  <2> QED BY <1>5, <1>6, RunShape
<1>8. \A d \in Device : \A i \in run'[d].extra :
         /\ There(matches'[d][i])
         /\ Kept /\ Plans /\ undone \subseteq undone' =>
               \/ PairOf(matches'[d][i]) \in undone'
               \/ Older(matches'[d], i)
  <2> SUFFICES ASSUME NEW d \in Device, NEW i \in run'[d].extra
               PROVE  /\ There(matches'[d][i])
                      /\ Kept /\ Plans /\ undone \subseteq undone' =>
                            \/ PairOf(matches'[d][i]) \in undone'
                            \/ Older(matches'[d], i)
    OBVIOUS
  <2>1. i \in MatchId /\ There(matches[d][i]) /\ (Kept /\ Plans => Meant(d, i))
    BY <1>7
  <2> HIDE DEF Meant, Fine
  <2> QED BY <1>3, <2>1
<1> QED BY <1>7, <1>8 DEF Extras

-----------------------------------------------------------------------------
(* What a decision has left to do.                                         *)

\* What a decision still means to write keeps to what is kept.
LEMMA DecisionKept ==
    ASSUME Typed, [LinksNext]_linksVars, LinksKeep
    PROVE  /\ decision' \in [Device -> Decision] /\ Decided'
           /\ Plans => \A d \in Device :
                          \A x \in decision'[d].put : ~x.tx.deleted
<1> DEFINE Fine(d, r) == /\ r \in Decision /\ Sensible(matches[d], r)
                         /\ Plans => \A x \in r.put : ~x.tx.deleted
           Sound == /\ decision' \in [Device -> Decision]
                    /\ \A d \in Device : Fine(d, decision'[d])
<1>1. decision \in [Device -> Decision] BY DEF Typed, Shapes
<1>2. \A d \in Device : Fine(d, decision[d])
  BY <1>1 DEF Typed, Decided, Plans
<1>3. UNCHANGED decision => Sound BY <1>1, <1>2
<1>4. ASSUME NEW d \in Device, NEW r, Fine(d, r),
             decision' = [decision EXCEPT ![d] = r]
      PROVE  Sound
  <2>1. r \in Decision BY <1>4
  <2> HIDE DEF Fine
  <2>2. \A e \in Device : decision'[e] = IF e = d THEN r ELSE decision[e]
    BY <1>1, <1>4
  <2> QED BY <1>1, <1>2, <1>4, <2>1, <2>2
<1>5. ASSUME NEW d \in Device, NEW r, r \in Decision,
             r.reject \subseteq decision[d].reject,
             r.confirm \subseteq decision[d].confirm,
             Plans => \A x \in r.put : ~x.tx.deleted
      PROVE  Fine(d, r)
  BY <1>2, <1>5 DEF Sensible
<1>6. ASSUME NEW d \in Device, NEW D, D = decision[d]
      PROVE  /\ D \in Decision /\ Fine(d, D)
             /\ D = [going |-> D.going, reject |-> D.reject,
                     confirm |-> D.confirm, look |-> D.look, put |-> D.put]
  <2>1. D \in Decision /\ Fine(d, D) BY <1>1, <1>2, <1>6
  <2> HIDE DEF Fine
  <2> QED BY <2>1 DEF Decision
<1>7. ASSUME NEW d \in Device, Decides(d) PROVE Sound
  <2>1. PICK r \in Decision :
          /\ Decide(d, r) /\ Sensible(matches[d], r)
          /\ Plans => \A x \in r.put : ~x.tx.deleted
    BY <1>7 DEF Decides
  <2>2. decision' = [decision EXCEPT ![d] = r] BY <2>1 DEF Decide
  <2>3. Fine(d, r) BY <2>1
  <2> HIDE DEF Fine, Sound
  <2> QED BY <1>4, <2>2, <2>3
<1>8. ASSUME NEW d \in Device, Reject(d) PROVE Sound
  <2>1. PICK w \in decision[d].reject :
          decision' = [decision EXCEPT ![d].reject = @ \ {w}]
    BY <1>8 DEF Reject
  <2> DEFINE D == decision[d]
             r == [D EXCEPT !.reject = @ \ {w}]
  <2>2. decision' = [decision EXCEPT ![d] = r] BY <2>1
  <2>3. D \in Decision /\ (Plans => \A x \in D.put : ~x.tx.deleted) BY <1>6
  <2> HIDE DEF D
  <2>4. /\ r \in Decision /\ r.reject = D.reject \ {w}
        /\ r.confirm = D.confirm /\ r.put = D.put
    BY <2>3 DEF Decision
  <2> HIDE DEF r, Fine, Sound
  <2>5. /\ r.reject \subseteq decision[d].reject
        /\ r.confirm \subseteq decision[d].confirm
    BY <2>4 DEF D
  <2>6. Plans => \A x \in r.put : ~x.tx.deleted BY <2>3, <2>4
  <2>7. Fine(d, r) BY <1>5, <2>4, <2>5, <2>6
  <2> QED BY <1>4, <2>2, <2>7
<1>9. ASSUME NEW d \in Device, PutConfirmed(d) PROVE Sound
  <2> DEFINE D == decision[d]
             r == [D EXCEPT !.confirm = {}]
  <2>1. decision' = [decision EXCEPT ![d] = r] BY <1>9 DEF PutConfirmed
  <2>2. D \in Decision /\ (Plans => \A x \in D.put : ~x.tx.deleted) BY <1>6
  <2> HIDE DEF D
  <2>3. /\ r \in Decision /\ r.reject = D.reject /\ r.confirm = {}
        /\ r.put = D.put
    BY <2>2 DEF Decision
  <2> HIDE DEF r, Fine, Sound
  <2>4. /\ r.reject \subseteq decision[d].reject
        /\ r.confirm \subseteq decision[d].confirm
    BY <2>3 DEF D
  <2>5. Plans => \A x \in r.put : ~x.tx.deleted BY <2>2, <2>3
  <2>6. Fine(d, r) BY <1>5, <2>3, <2>4, <2>5
  <2> QED BY <1>4, <2>1, <2>6
<1>10. ASSUME NEW d \in Device, PutBooking(d) PROVE Sound
  <2> DEFINE D == decision[d]
             r == [D EXCEPT !.put = {}]
  <2>1. decision' = [decision EXCEPT ![d] = r] BY <1>10 DEF PutBooking
  <2>2. D \in Decision BY <1>6
  <2> HIDE DEF D
  <2>3. /\ r \in Decision /\ r.reject = D.reject /\ r.confirm = D.confirm
        /\ r.put = {}
    BY <2>2 DEF Decision
  <2> HIDE DEF r, Fine, Sound
  <2>4. /\ r.reject \subseteq decision[d].reject
        /\ r.confirm \subseteq decision[d].confirm
    BY <2>3 DEF D
  <2>5. Plans => \A x \in r.put : ~x.tx.deleted BY <2>3
  <2>6. Fine(d, r) BY <1>5, <2>3, <2>4, <2>5
  <2> QED BY <1>4, <2>1, <2>6
<1>11. ASSUME NEW d \in Device, LookAtBooking(d) PROVE Sound
  <2>1. PICK t \in decision[d].look :
          decision' = [decision EXCEPT ![d].look = {}, ![d].put =
             IF There(txs[d][t]) /\ txs[d][t].noReceipt
             THEN {[t |-> t, tx |-> [txs[d][t] EXCEPT !.noReceipt = FALSE]]}
             ELSE {}]
    BY <1>11 DEF LookAtBooking
  <2> DEFINE D == decision[d]
             old == txs[d][t]
             tx == [old EXCEPT !.noReceipt = FALSE]
             put == IF There(old) /\ old.noReceipt
                    THEN {[t |-> t, tx |-> tx]} ELSE {}
             k == [D EXCEPT !.look = {}]
             r == [k EXCEPT !.put = put]
  <2>2. decision' = [decision EXCEPT ![d] = r] BY <2>1
  <2>3. D \in Decision BY <1>6
  <2>4. t \in Tx BY <2>3 DEF Decision
  <2>5. old \in TxRecord \cup {NoRecord}
    BY <2>4 DEF Typed, Shapes, Bookings
  <2>6. Plans /\ There(old) => ~old.deleted BY <2>4 DEF Plans
  <2> HIDE DEF D, old
  <2>7. There(old) => tx \in TxRecord /\ tx.deleted = old.deleted
    <3>1. ASSUME There(old) PROVE old \in TxRecord
      BY <2>5, <3>1, BookingIsRecord
    <3> QED BY <3>1 DEF TxRecord
  <2> HIDE DEF tx
  <2>8. put \subseteq LinkWrite /\ \A x \in put : There(old) /\ x.tx = tx
    BY <2>4, <2>7 DEF LinkWrite
  <2>9. Plans => \A x \in put : ~x.tx.deleted BY <2>6, <2>7, <2>8
  <2> HIDE DEF put
  <2>10. k \in Decision /\ k.reject = D.reject /\ k.confirm = D.confirm
    BY <2>3 DEF Decision
  <2> HIDE DEF k
  <2>11. /\ r \in Decision /\ r.reject = D.reject /\ r.confirm = D.confirm
         /\ r.put = put
    BY <2>8, <2>10 DEF Decision
  <2> HIDE DEF r, Fine, Sound
  <2>12. /\ r.reject \subseteq decision[d].reject
         /\ r.confirm \subseteq decision[d].confirm
    BY <2>11 DEF D
  <2>13. Plans => \A x \in r.put : ~x.tx.deleted BY <2>9, <2>11
  <2>14. Fine(d, r) BY <1>5, <2>11, <2>12, <2>13
  <2> QED BY <1>4, <2>2, <2>14
<1>12. ASSUME NEW d \in Device, EndDecision(d) PROVE Sound
  <2>1. decision' = [decision EXCEPT ![d] = Undecided]
    BY <1>12 DEF EndDecision
  <2>2. Fine(d, Undecided) BY DEF Undecided, Decision, Sensible
  <2> HIDE DEF Fine, Sound
  <2> QED BY <1>4, <2>1, <2>2
<1>13. ASSUME NEW d \in Device,
              \/ StartRun(d) \/ Clean(d) \/ Link(d) \/ EndRun(d)
              \/ LinksStep(d)
       PROVE  UNCHANGED decision
  BY <1>13 DEF StartRun, Clean, Link, EndRun, LinksStep, WriteLink
<1>14. ASSUME NEW d \in Device, NEW e \in Device,
              SyncMatches(d, e) \/ SyncTxs(d, e)
       PROVE  UNCHANGED decision
  BY <1>14 DEF SyncMatches, SyncTxs
<1>15. UNCHANGED linksVars => UNCHANGED decision BY DEF linksVars
<1>16. Sound
  <2> HIDE DEF Sound
  <2> QED BY <1>3, <1>7, <1>8, <1>9, <1>10, <1>11, <1>12, <1>13, <1>14, <1>15,
             NextIs
<1>17. ASSUME NEW d \in Device, NEW w, w.i \in MatchId,
              OfRecord(matches[d], w)
       PROVE  OfRecord(matches'[d], w)
  BY <1>17 DEF LinksKeep, Stays, OfRecord
<1>18. ASSUME NEW d \in Device
       PROVE  Sensible(matches'[d], decision'[d])
  <2> DEFINE r == decision'[d]
  <2>1. r \in Decision /\ Sensible(matches[d], r) BY <1>16
  <2> HIDE DEF r
  <2>2. /\ \A w \in r.reject : w.i \in MatchId
        /\ \A w \in r.confirm : w.i # None => w.i \in MatchId
    BY <2>1 DEF Decision
  <2>3. \A w \in r.reject : OfRecord(matches'[d], w)
    BY <1>17, <2>1, <2>2 DEF Sensible
  <2>4. \A w \in r.confirm : w.i # None => OfRecord(matches'[d], w)
    BY <1>17, <2>1, <2>2 DEF Sensible
  <2>5. Sensible(matches'[d], r) BY <2>1, <2>3, <2>4 DEF Sensible
  <2> QED BY <2>5 DEF r
<1>19. Decided' BY <1>18 DEF Decided
<1> QED BY <1>16, <1>19

-----------------------------------------------------------------------------
(* Every step keeps the invariant.                                         *)

\* What was linked and what was undone are pairs.
LEMMA HistoryTyped ==
    ASSUME Typed, [LinksNext]_linksVars
    PROVE  linked' \subseteq Pair /\ undone' \subseteq Pair
<1> DEFINE Sound == linked' \subseteq Pair /\ undone' \subseteq Pair
<1>1. linked \subseteq Pair /\ undone \subseteq Pair BY DEF Typed, Shapes
<1>2. UNCHANGED <<linked, undone>> => Sound BY <1>1
<1>3. ASSUME NEW d \in Device, Link(d) PROVE Sound
  <2>1. run[d].pairs \subseteq Pair BY DEF Typed, Shapes
  <2> QED BY <1>1, <1>3, <2>1 DEF Link
<1>4. ASSUME NEW m \in MatchRecord PROVE PairOf(m) \in Pair
  BY DEF MatchRecord, PairOf, Pair
<1>5. ASSUME NEW d \in Device, Reject(d) PROVE Sound
  <2>1. PICK w \in decision[d].reject :
          linked' = linked /\ undone' = undone \cup {PairOf(w.m)}
    BY <1>5 DEF Reject
  <2>2. decision[d] \in Decision BY DEF Typed, Shapes
  <2>3. w.m \in MatchRecord BY <2>2 DEF Decision
  <2> QED BY <1>1, <1>4, <2>1, <2>3
<1>6. ASSUME NEW d \in Device, PutConfirmed(d) PROVE Sound
  <2>1. PICK w \in decision[d].confirm :
          linked' = linked \cup {PairOf(w.m)} /\ undone' = undone
    BY <1>6 DEF PutConfirmed
  <2>2. decision[d] \in Decision BY DEF Typed, Shapes
  <2>3. w.m \in MatchRecord BY <2>2 DEF Decision
  <2> QED BY <1>1, <1>4, <2>1, <2>3
<1> HIDE DEF Sound
<1>7. ASSUME NEW d \in Device,
             \/ StartRun(d) \/ Clean(d) \/ EndRun(d) \/ LinksStep(d)
             \/ Decides(d) \/ LookAtBooking(d) \/ PutBooking(d)
             \/ EndDecision(d)
      PROVE  Sound
  BY <1>2, <1>7 DEF StartRun, Clean, EndRun, LinksStep, WriteLink, Decides,
                    Decide, LookAtBooking, PutBooking, EndDecision, history
<1>8. ASSUME NEW d \in Device, NEW e \in Device,
            SyncMatches(d, e) \/ SyncTxs(d, e)
      PROVE  Sound
  BY <1>2, <1>8 DEF SyncMatches, SyncTxs, history
<1>9. UNCHANGED linksVars => Sound BY <1>2 DEF linksVars
<1>10. Sound
  BY <1>3, <1>5, <1>6, <1>7, <1>8, <1>9, NextIs
<1> QED BY <1>10 DEF Sound

\* The types hold at the beginning,
LEMMA InitTyped == LinksInit => Typed
<1> SUFFICES ASSUME LinksInit PROVE Typed OBVIOUS
<1>1. \A d \in Device, i \in MatchId : matches[d][i] = NoRecord BY DEF LinksInit
<1>2. \A d \in Device, i \in MatchId : ~There(matches[d][i])
  BY <1>1 DEF There, NoRecord
<1>3. matches \in [Device -> Coll] BY DEF LinksInit, Coll
<1>4. txs \in [Device -> Bookings]
  <2>1. Booking \in TxRecord BY DEF Booking, TxRecord
  <2> HIDE DEF Booking
  <2> QED BY <2>1 DEF LinksInit, Bookings
<1>5. /\ toWrite \in [Device -> [Thread -> SUBSET LinkWrite]]
      /\ run \in [Device -> [going : BOOLEAN, extra : SUBSET MatchId,
                             pairs : SUBSET Pair]]
  BY DEF LinksInit, NoRun
<1>6. nextId \in Nat \ {0} /\ linked \subseteq Pair /\ undone \subseteq Pair
  BY DEF LinksInit
<1>7. Books BY <1>2 DEF Books
<1>8. Dated
  <2>1. 0 \in Nat OBVIOUS
  <2> QED BY <1>2, <2>1 DEF Dated
<1>9. Extras BY DEF Extras, LinksInit, NoRun
<1>10. decision \in [Device -> Decision] /\ Decided
  <2>1. Undecided \in Decision BY DEF Undecided, Decision
  <2>2. Undecided.reject = {} /\ Undecided.confirm = {} BY DEF Undecided
  <2> QED BY <2>1, <2>2 DEF LinksInit, Decided, Sensible
<1> QED BY <1>3, <1>4, <1>5, <1>6, <1>7, <1>8, <1>9, <1>10 DEF Typed, Shapes

\* and every step keeps them.
LEMMA TypedStep == Typed /\ [LinksNext]_linksVars => Typed'
<1> SUFFICES ASSUME Typed, [LinksNext]_linksVars PROVE Typed' OBVIOUS
<1>1. LinksKeep BY LinksKept
<1>2. txs' \in [Device -> Bookings] BY TxsStep
<1>3. toWrite' \in [Device -> [Thread -> SUBSET LinkWrite]] BY ToWriteStep
<1>4. /\ run' \in [Device -> [going : BOOLEAN, extra : SUBSET MatchId,
                              pairs : SUBSET Pair]]
      /\ Extras'
  BY <1>1, RunKept
<1>5. decision' \in [Device -> Decision] /\ Decided' BY <1>1, DecisionKept
<1>6. linked' \subseteq Pair /\ undone' \subseteq Pair BY HistoryTyped
<1> QED BY <1>1, <1>2, <1>3, <1>4, <1>5, <1>6 DEF Typed, Shapes, LinksKeep

\* The invariant holds at the beginning,
LEMMA InitInv == LinksInit => LinksInv
<1> SUFFICES ASSUME LinksInit PROVE LinksInv OBVIOUS
<1>1. Typed BY InitTyped
<1>2. \A d \in Device, i \in MatchId : ~There(matches[d][i])
  BY DEF LinksInit, There, NoRecord
<1>3. Kept BY <1>2 DEF Kept
<1>4. \A d \in Device, t \in Tx : There(txs[d][t]) => ~txs[d][t].deleted
  <2>1. \A d \in Device, t \in Tx : txs[d][t] \in {Booking, NoRecord}
    BY DEF LinksInit
  <2> QED BY <2>1 DEF There, Booking, NoRecord
<1>5. Plans BY <1>4 DEF Plans, LinksInit, NoRun, Undecided
<1>6. Recorded BY DEF Recorded, LinksInit
<1> QED BY <1>1, <1>3, <1>5, <1>6 DEF LinksInv

\* and every step keeps it where persons confirm no sure pair.
LEMMA InvStep ==
    ASSUME ~ConfirmsSure
    PROVE  LinksInv /\ [LinksNext]_linksVars => LinksInv'
<1> SUFFICES ASSUME LinksInv, [LinksNext]_linksVars PROVE LinksInv' OBVIOUS
<1>1. Typed /\ Kept /\ Plans BY DEF LinksInv
<1>2. Typed' BY <1>1, TypedStep
<1>3. Kept' /\ Recorded' /\ undone \subseteq undone' BY KeptStep
<1>4. LinksKeep BY <1>1, LinksKept
<1>5. \A d \in Device : NoneDeleted(txs'[d]) BY <1>1, TxsStep
<1>6. \A d \in Device, w \in Thread : \A x \in toWrite'[d][w] : ~x.tx.deleted
  BY <1>1, ToWriteStep
<1>7. /\ \A d \in Device : \A p \in run'[d].pairs : Score[p] >= Sure
      /\ \A d \in Device : \A i \in run'[d].extra :
            PairOf(matches'[d][i]) \in undone' \/ Older(matches'[d], i)
  BY <1>1, <1>3, <1>4, RunKept
<1>8. \A d \in Device : \A x \in decision'[d].put : ~x.tx.deleted
  BY <1>1, <1>4, DecisionKept
<1>9. Plans' BY <1>5, <1>6, <1>7, <1>8 DEF Plans, NoneDeleted
<1> QED BY <1>2, <1>3, <1>9 DEF LinksInv

-----------------------------------------------------------------------------
(* What the model promises.                                                *)

\* What LinksTypeOK says of a state: the records of the matching store are
\* complete, an id is given away before it is used, and it stands for one
\* pair of receipt and booking on every device.
THEOREM LinksTypeCorrect == LinksSpec => []LinksTypeOK
<1>1. Typed => LinksTypeOK
  BY DEF Typed, Shapes, Books, Coll, Bookings, LinksTypeOK
<1> QED BY <1>1, InitTyped, TypedStep, PTL DEF LinksSpec

\* The record of a link that all devices will come to have is one that some
\* device has now.
LEMMA NewestIsThere ==
    ASSUME Typed, NEW i \in MatchId, NEW d \in Device, There(matches[d][i])
    PROVE  \E e \in Device :
              NewestRecord(i) = matches[e][i] /\ There(matches[e][i])
<1> DEFINE at(e) == matches[e][i].at
           by(e) == matches[e][i].by
           here == { e \in Device : There(matches[e][i]) }
           Best(e) == \A c \in Device : ~Wins(matches[c][i], matches[e][i])
<1>1. \A e \in Device : at(e) \in Nat /\ (e \in here => by(e) \in Nat)
  <2>1. \A e \in Device : matches[e][i] \in MatchRecord \cup {NoRecord}
    BY DEF Typed, Shapes, Coll
  <2>2. \A e \in here : matches[e][i] \in MatchRecord BY <2>1, ThereIsRecord
  <2> QED BY <2>1, <2>2, ThereIsRecord DEF MatchRecord
<1>2. PICK n \in Nat : \A e \in here : at(e) <= n /\ by(e) <= n
  BY DEF Typed, Dated
<1>3. \A e \in Device : at(e) = 0 <=> e \notin here BY DEF There
<1>4. \A c, e \in Device : Wins(matches[c][i], matches[e][i]) <=>
         at(c) > at(e) \/ (at(c) = at(e) /\ c \in here /\ by(c) > by(e))
  BY DEF Wins
<1>5. d \in here OBVIOUS
<1> HIDE DEF at, by
<1>6. PICK a \in here : \A e \in here : at(e) <= at(a)
  <2> DEFINE T == { at(e) : e \in here }
  <2>1. T \in SUBSET (0..n) /\ T # {} BY <1>1, <1>2, <1>5
  <2> HIDE DEF T
  <2>2. PICK x \in T : \A y \in T : y <= x BY <2>1, GreatestNat
  <2> QED BY <2>2 DEF T
<1> DEFINE latest == { e \in here : at(e) = at(a) }
<1>7. PICK b \in latest : \A e \in latest : by(e) <= by(b)
  <2> DEFINE T == { by(e) : e \in latest }
  <2>1. T \in SUBSET (0..n) /\ T # {} BY <1>1, <1>2
  <2> HIDE DEF T
  <2>2. PICK x \in T : \A y \in T : y <= x BY <2>1, GreatestNat
  <2> QED BY <2>2 DEF T
<1>8. Best(b)
  <2> SUFFICES ASSUME NEW c \in Device, Wins(matches[c][i], matches[b][i])
               PROVE  FALSE
    OBVIOUS
  <2>1. b \in here /\ at(b) = at(a) /\ b \in Device OBVIOUS
  <2>2. at(c) > at(b) \/ (at(c) = at(b) /\ c \in here /\ by(c) > by(b))
    BY <1>4, <2>1
  <2>3. c \in here BY <1>1, <1>3, <2>1, <2>2
  <2>4. at(c) <= at(b) BY <1>6, <2>1, <2>3
  <2>5. c \in latest /\ by(c) > by(b) BY <1>1, <2>1, <2>2, <2>3, <2>4
  <2> QED BY <1>1, <1>7, <2>1, <2>3, <2>5
<1> DEFINE e == CHOOSE e \in Device : Best(e)
<1>9. e \in Device /\ Best(e) BY <1>8
<1>10. NewestRecord(i) = matches[e][i] BY DEF NewestRecord
<1>11. e \in here
  <2> HIDE DEF e
  <2>1. ~Wins(matches[d][i], matches[e][i]) BY <1>9
  <2>2. d \in Device OBVIOUS
  <2> QED BY <1>1, <1>3, <1>4, <1>5, <1>9, <2>1, <2>2
<1> QED BY <1>9, <1>10, <1>11

\* A pair that was linked and that nobody undid has a link on every device in
\* the end: its oldest record is never deleted, by no device.
LEMMA OldestStays == LinksInv => LastLinkStays
<1> SUFFICES ASSUME LinksInv, NEW p \in linked, p \notin undone
             PROVE  \E i \in MatchId :
                       IsActive(NewestRecord(i)) /\ PairOf(NewestRecord(i)) = p
  BY DEF LastLinkStays
<1>1. Typed /\ Kept /\ Recorded /\ Books BY DEF LinksInv, Typed
<1> DEFINE Linked(d, i) == There(matches[d][i]) /\ PairOf(matches[d][i]) = p
           ids == { i \in MatchId : \E d \in Device : Linked(d, i) }
<1>2. ids # {} BY <1>1 DEF Recorded
<1>3. ids \in SUBSET Nat BY IdsAreNumbers
<1>4. PICK i \in ids : \A j \in ids : i <= j
  <2> HIDE DEF ids
  <2> QED BY <1>2, <1>3, LeastNat
<1>5. PICK d \in Device : Linked(d, i) BY <1>4
<1>6. PICK e \in Device :
         NewestRecord(i) = matches[e][i] /\ There(matches[e][i])
  BY <1>1, <1>5, NewestIsThere
<1>7. PairOf(matches[e][i]) = p BY <1>1, <1>5, <1>6 DEF Books
<1>8. ~Older(matches[e], i)
  <2> SUFFICES ASSUME NEW j \in MatchId, j < i, There(matches[e][j]),
                      PairOf(matches[e][j]) = PairOf(matches[e][i])
               PROVE  FALSE
    BY DEF Older
  <2>1. j \in ids BY <1>7
  <2>2. i <= j BY <1>4, <2>1
  <2> QED BY <2>2, IdsAreNumbers
<1>9. matches[e][i].state = Kind(p) /\ ~matches[e][i].deleted
  <2>1. \/ PairOf(matches[e][i]) \in undone
        \/ /\ matches[e][i].state = Kind(PairOf(matches[e][i]))
           /\ matches[e][i].deleted => Older(matches[e], i)
    BY <1>1, <1>6 DEF Kept
  <2> QED BY <1>7, <1>8, <2>1
<1>10. Kind(p) # "rejected" BY DEF Kind
<1>11. IsActive(matches[e][i])
  BY <1>6, <1>9, <1>10 DEF IsActive, Live
<1> QED BY <1>6, <1>7, <1>11

\* Where persons confirm only what no run links by itself, a pair that was
\* once linked and that nobody undid keeps a link, whatever the runs of the
\* devices delete as duplicate, in whatever order the devices sync.
THEOREM LinkedStays == ~ConfirmsSure => (LinksSpec => []LastLinkStays)
<1> SUFFICES ASSUME ~ConfirmsSure PROVE LinksSpec => []LastLinkStays OBVIOUS
<1>1. LinksInv /\ [LinksNext]_linksVars => LinksInv' BY InvStep
<1> QED BY <1>1, InitInv, OldestStays, PTL DEF LinksSpec
=============================================================================
