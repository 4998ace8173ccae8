--------------------------- MODULE SealedDocuments ---------------------------
(***************************************************************************)
(* The index of one collection's database (app/src/lib/store/              *)
(* sealed-documents.js): every read walks the log once into a Map of the   *)
(* newest version of each key, which is kept until an entry comes that no  *)
(* own write claims.  Reads, own writes, entries that come by sync and a   *)
(* change of the access list interleave at every await.                    *)
(*                                                                         *)
(* OrbitDB's log is external: entries in one total order (`rank`, its      *)
(* clocks and their tie-breaker).  An own write is appended after all that *)
(* is there, is announced by "update" and returns once the database's      *)
(* queue is idle; what comes by sync is placed anywhere.  `del` has no     *)
(* caller and is left out.                                                 *)
(***************************************************************************)
EXTENDS Naturals, FiniteSets, Sequences, TLC

CONSTANTS
    Key,        \* ids of records
    Reader,     \* reads that may go on at once
    MaxRank,    \* bound on the entries of the log
    MaxWriting  \* bound on own writes on their way at once

ASSUME IndexAssumption == MaxRank \in Nat /\ MaxWriting \in Nat

Entry == [key : Key, rank : 1..MaxRank, member : BOOLEAN]
NoDoc == [rank |-> 0]        \* no version of the key

NotBuilt == [built |-> FALSE]
Built(newest) == [built |-> TRUE, newest |-> newest]
NoWalk == [going |-> FALSE, readers |-> {}]

VARIABLES
    log,       \* the entries of the log
    out,       \* the member was taken out of the access list
    kept,      \* the member's entries that count all the same
    index,     \* key -> newest version, or NotBuilt
    building,  \* the walk that is going: who waits, and what there was
    ended,     \* a walk that has ended, until it is told: what it found
    unclaimed, \* entries announced that no own write has claimed
    writing,   \* own writes appended that have not returned
    answer,    \* the version of each key a reader was told last
    returned,  \* the last own write of each key that has returned
    floor,     \* `returned` when the reader's last read began
    dropped    \* entries that the index may do without, for the properties

vars == <<log, out, kept, index, building, ended, unclaimed, writing, answer,
          returned, floor, dropped>>

-----------------------------------------------------------------------------
(* What a walk finds.                                                      *)

\* The entries that count: those of a member taken out no longer do,
\* except those they had written by then.
Counting(entries, takenOut) ==
    { e \in entries : ~(e.member /\ takenOut) \/ e \in kept }

\* (Mutant: the walk's last sight of a key wins, the oldest version.)
OldestOf(entries, k) ==
    LET versions == { e \in entries : e.key = k }
    IN IF versions = {} THEN NoDoc
       ELSE CHOOSE e \in versions : \A f \in versions : e.rank <= f.rank

Latest(entries, k) ==
    LET versions == { e \in entries : e.key = k }
    IN IF versions = {} THEN NoDoc
       ELSE CHOOSE e \in versions : \A f \in versions : f.rank <= e.rank

Newest(entries) == [k \in Key |-> Latest(entries, k)]

Ranks(newest) == [k \in Key |-> newest[k].rank]

-----------------------------------------------------------------------------
Init ==
    /\ log = {} /\ out = FALSE /\ kept = {} /\ unclaimed = {}
    /\ index = NotBuilt /\ building = NoWalk /\ ended = NoWalk
    /\ writing = <<>>
    /\ answer = [r \in Reader |-> [k \in Key |-> 0]]
    /\ returned = [k \in Key |-> 0] /\ floor = answer /\ dropped = {}

NextRank == CHOOSE n \in 1..MaxRank + 1 :
              /\ \A e \in log : e.rank < n
              /\ n = 1 \/ \E e \in log : e.rank = n - 1

\* `put`: the entry is in the log and announced, and waits for the queue.
Put(k) ==
    /\ Len(writing) < MaxWriting /\ NextRank <= MaxRank
    /\ LET e == [key |-> k, rank |-> NextRank, member |-> FALSE]
       IN /\ log' = log \cup {e}
          /\ unclaimed' = unclaimed \cup {e}
          /\ writing' = Append(writing, e)
    /\ UNCHANGED <<out, kept, index, building, ended, answer, returned, floor,
                   dropped>>

\* (Mutant: claimed at once, a walk that is going or not.)
ClaimedAlways(e) == unclaimed \ {e}

\* While a walk is going it may or may not see the entry, which then stays
\* unclaimed for the next read.
Claimed(e) == IF building.going THEN unclaimed ELSE unclaimed \ {e}

\* (Mutants: the Map is not told; a Map is made for it.)
NotUpdated(e) == index
UpdatedAnew(e) == IF index.built
                  THEN Built([index.newest EXCEPT ![e.key] = e])
                  ELSE Built(e.key :> e)

\* The Map is told of the write, if there is one.
Updated(e) == IF index.built THEN Built([index.newest EXCEPT ![e.key] = e])
              ELSE index

\* What a write that returns lets go: itself, where it is claimed when a walk
\* has ended and is not told yet; and what the Map had newer than it.
LetGo(e) ==
    (IF ended.going /\ ~building.going THEN {e} ELSE {})
    \cup { f \in log : /\ index.built /\ index.newest[e.key].rank > e.rank
                       /\ f.key = e.key /\ f.rank > e.rank }

\* `addOperation` returns: `put` claims its entry.
PutReturns ==
    /\ writing # <<>>
    /\ LET e == Head(writing)
       IN /\ unclaimed' = Claimed(e)
          /\ index' = Updated(e)
          /\ returned' = [returned EXCEPT ![e.key] = e.rank]
          /\ dropped' = dropped \cup LetGo(e)
    /\ writing' = Tail(writing)
    /\ UNCHANGED <<log, out, kept, building, ended, answer, floor>>

\* An entry comes by sync.  The access list refuses what a member taken out
\* wrote afterwards.
Arrive(k, rank, member) ==
    /\ \A e \in log : e.rank # rank
    /\ ~(member /\ out)
    /\ LET e == [key |-> k, rank |-> rank, member |-> member]
       IN log' = log \cup {e} /\ unclaimed' = unclaimed \cup {e}
    /\ UNCHANGED <<out, kept, index, building, ended, writing, answer,
                   returned, floor, dropped>>

\* A walk has begun whose Map is not in use yet.
OnItsWay == building.going \/ ended.going

\* The access list says that the member was taken out, and which of the
\* entries it names as written before are here.  The index is dropped, and a
\* walk that is on its way sets it again.
TakeOut(before) ==
    /\ ~out /\ out' = TRUE /\ kept' = before
    /\ index' = NotBuilt
    /\ dropped' = IF OnItsWay
                  THEN dropped \cup { e \in log : e.member /\ e \notin before }
                  ELSE dropped
    /\ UNCHANGED <<log, building, ended, unclaimed, writing, answer, returned,
                   floor>>

-----------------------------------------------------------------------------
(* Reading: `current`, and the walk it may start or join.                  *)

Known == index.built /\ unclaimed = {}
Waiting == building.readers \cup ended.readers

StartsRead(r) ==
    /\ r \notin Waiting
    /\ floor' = [floor EXCEPT ![r] = returned]

\* The index is there and nothing came from elsewhere: told at once.
ReadIndex(r) ==
    /\ StartsRead(r) /\ Known
    /\ answer' = [answer EXCEPT ![r] = Ranks(index.newest)]
    /\ UNCHANGED <<log, out, kept, index, building, ended, unclaimed, writing,
                   returned, dropped>>

\* `building ??= build()`: the walk that is going, or a new one.
Walk == IF building.going THEN building
        ELSE [going |-> TRUE, readers |-> {}, log |-> log, out |-> out]

\* What came from elsewhere is claimed by this read, the index dropped, and
\* the read waits for the walk.  One that began before may not have seen it.
ReadByWalk(r) ==
    /\ StartsRead(r) /\ ~Known
    /\ unclaimed' = {} /\ index' = NotBuilt
    /\ building' = [Walk EXCEPT !.readers = @ \cup {r}]
    /\ dropped' = IF OnItsWay THEN dropped \cup unclaimed ELSE dropped
    /\ UNCHANGED <<log, out, kept, ended, writing, answer, returned>>

\* What a walk finds: it saw what was in the log when it began and some of
\* what came meanwhile, and asked the access list entry by entry.
Found(seen) ==
    { Newest(Counting(seen, out) \cup earlier) : earlier \in
        SUBSET (Counting(seen, building.out) \ Counting(seen, out)) }

\* The walk ends (`finally`): the next read that needs one begins another.
WalkEnds ==
    /\ building.going /\ ~ended.going
    /\ \E came \in SUBSET (log \ building.log) :
          LET seen == building.log \cup came
          IN \E newest \in Found(seen) :
                ended' = [going |-> TRUE, readers |-> building.readers,
                          seen |-> seen, out |-> building.out,
                          newest |-> newest]
    /\ building' = NoWalk
    /\ UNCHANGED <<log, out, kept, index, unclaimed, writing, answer, returned,
                   floor, dropped>>

\* Those who waited go on, and each sets the index to the one Map.
Told ==
    /\ ended.going /\ ended' = NoWalk
    /\ index' = Built(ended.newest)
    /\ answer' = [r \in Reader |-> IF r \in ended.readers
                                   THEN Ranks(ended.newest) ELSE answer[r]]
    /\ dropped' = dropped \ (IF ended.out = out THEN ended.seen
                             ELSE Counting(ended.seen, out))
    /\ UNCHANGED <<log, out, kept, building, unclaimed, writing, returned,
                   floor>>

\* An entry cannot be read: the reads that wait fail, and are told nothing.
WalkFails ==
    /\ building.going /\ building' = NoWalk
    /\ floor' = [r \in Reader |-> IF r \in building.readers
                                  THEN [k \in Key |-> 0] ELSE floor[r]]
    /\ UNCHANGED <<log, out, kept, index, ended, unclaimed, writing, answer,
                   returned, dropped>>

Next ==
    \/ \E k \in Key : Put(k)
    \/ PutReturns
    \/ \E k \in Key, rank \in 1..MaxRank, member \in BOOLEAN :
          Arrive(k, rank, member)
    \/ \E before \in SUBSET { e \in log : e.member } : TakeOut(before)
    \/ \E r \in Reader : ReadIndex(r) \/ ReadByWalk(r)
    \/ WalkEnds \/ Told \/ WalkFails

Spec == Init /\ [][Next]_vars

-----------------------------------------------------------------------------
(* Properties.                                                             *)

Versions == [Key -> {NoDoc} \cup Entry]

\* Every version the index or a walk holds is one of the log, under its own
\* key; no two entries have one place in the order.
OfLog(newest, entries) ==
    /\ newest \in Versions
    /\ \A k \in Key : newest[k] # NoDoc
                         => newest[k] \in { e \in entries : e.key = k }
TypeOK ==
    /\ log \subseteq Entry /\ kept \subseteq log /\ unclaimed \subseteq log
    /\ dropped \subseteq log
    /\ \A e, f \in log : e.rank = f.rank => e = f
    /\ index.built => OfLog(index.newest, log)
    /\ building.going => building.log \subseteq log
    /\ ended.going => ended.seen \subseteq log /\ OfLog(ended.newest, log)
    /\ \A i \in 1..Len(writing) : writing[i] \in log
    /\ Waiting \subseteq Reader /\ building.readers \cap ended.readers = {}
    /\ answer \in [Reader -> [Key -> 0..MaxRank]]
    /\ returned \in [Key -> 0..MaxRank]
    /\ floor \in [Reader -> [Key -> 0..MaxRank]]

\* An index that the next read will use as it is has the newest version of
\* every key that counts, however reads, walks, own writes, sync and the access
\* list overlapped, but for what was let go: what a read claimed that joined a
\* walk, or came when one had ended and was not told; what an own write put
\* itself over; and what stopped to count during a walk.  A walk that saw it
\* since makes good for it (`current`, `put`).
NothingStale ==
    Known => \A k \in Key :
        LET is == index.newest[k]
            should == Latest(Counting(log, out), k)
        IN is # should =>
              (IF is.rank < should.rank THEN should ELSE is) \in dropped

Tells(r) == ReadIndex(r) \/ (Told /\ r \in ended.readers)

\* A read that begins after a write returned is told that version or a newer
\* one ("left unclaimed, the next read builds it again"), unless it was let go.
ReadsOwnWrites ==
    [][\A r \in Reader, k \in Key : Tells(r) =>
          \/ floor'[r][k] <= answer'[r][k]
          \/ \E e \in dropped' : e.key = k /\ e.rank = floor'[r][k]]_vars

\* What a reader is told of a key never goes back to an older version, unless
\* the access list took the newer one out, or it was let go.
ReadsGoForward ==
    [][\A r \in Reader, k \in Key :
          \/ answer[r][k] <= answer'[r][k]
          \/ \E e \in dropped' \cup (log \ Counting(log, out)) :
                e.rank = answer[r][k]]_vars

\* What the comments on `put` say of every read (index_joined.cfg).
OwnWritesAreRead ==
    \A r \in Reader \ Waiting, k \in Key : floor[r][k] <= answer[r][k]

\* What a member wrote after being taken out is in no index that is used as
\* it is (index_list.cfg).
TakenOutIsGone ==
    Known => \A k \in Key : index.newest[k] # NoDoc
                               => index.newest[k] \in Counting(log, out)
=============================================================================
