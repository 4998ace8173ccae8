--------------------------- MODULE RunQueue_proofs ---------------------------
(***************************************************************************)
(* Proofs about RunQueue for every set of receipts, any number of workers, *)
(* runs and reloads, and any length of the chain of saves.                 *)
(***************************************************************************)
EXTENDS RunQueue, TLAPS

AllAreOut == \A w \in Worker : pc[w] = "out"
Hands == {hand[w] : w \in Worker}

\* A worker has an id only while it asks; without a run going on in open
\* books, no worker does anything.
Workers ==
    /\ \A w \in Worker : pc[w] # "asking" => hand[w] = NoId
    /\ books = "open" /\ main # "running" => AllAreOut

\* The saves: what each kind saves, and that only the first has loaded.
SavesOK ==
    /\ disk \in [extract : SUBSET Id, suggest : OtherLists \cup {{}}]
    /\ \A i \in 1..Len(chain) :
         /\ chain[i].kind = "extract" => chain[i].ids \subseteq Id \cup {NoId}
         /\ chain[i].kind = "suggest" => chain[i].ids \in OtherLists
         /\ chain[i].now \in {NotLoaded, disk}
         /\ i # 1 => chain[i].now = NotLoaded

\* Whose saves they are: a worker waits for its own, and the run's first save
\* is the last of its kind as long as it is there.
Whose ==
    \A i \in 1..Len(chain) :
        /\ chain[i].who \in Worker =>
             /\ pc[chain[i].who] = "saving"
             /\ \A j \in 1..Len(chain) : chain[j].who = chain[i].who => j = i
        /\ chain[i].who = "run" =>
             /\ main = "first" /\ AllAreOut
             /\ chain[i].kind = "extract" /\ chain[i].ids = queue
             /\ \A j \in 1..Len(chain) : j > i => chain[j].kind = "suggest"

\* What is owed is waiting or in a hand, and in every save that is to come.
Owed ==
    books = "open" =>
        /\ main = "running" =>
             /\ owed \subseteq queue \cup Hands
             /\ ~cancelling /\ ~stopped /\ ~closed /\ AllAreOut => queue = {}
        /\ \A i \in 1..Len(chain) :
             chain[i].kind = "extract" /\ chain[i].who # "run" =>
                owed \subseteq chain[i].ids

IInv ==
    /\ TypeOK /\ Workers /\ SavesOK /\ Whose /\ Owed
    /\ OwedIsKept /\ OtherKept /\ InOnePlace

-----------------------------------------------------------------------------
(* The chain of saves.                                                     *)

\* The first save is done: the others move up.
LEMMA DropFirst ==
    ASSUME chain \in Seq(Saves), chain # <<>>
    PROVE  /\ Dropped(1) \in Seq(Saves) /\ Len(Dropped(1)) = Len(chain) - 1
           /\ \A j \in 1..Len(chain) - 1 : Dropped(1)[j] = chain[j + 1]
           /\ Len(chain) \in Nat /\ Len(chain) > 0
BY DEF Dropped

\* One more save.
LEMMA AppendSave ==
    ASSUME NEW c \in Seq(Saves), NEW s \in Saves
    PROVE  /\ Append(c, s) \in Seq(Saves) /\ Len(Append(c, s)) = Len(c) + 1
           /\ \A j \in 1..Len(c) : Append(c, s)[j] = c[j]
           /\ Append(c, s)[Len(c) + 1] = s /\ Len(c) \in Nat
OBVIOUS

\* Only the first save may run.
LEMMA FirstRuns ==
    ASSUME NEW i \in Runnable PROVE i = 1 /\ chain # <<>>
BY DEF Runnable

\* What a save is.
LEMMA SaveType ==
    ASSUME NEW who \in Worker \cup {"run", "end", "other"},
           NEW kind \in {"extract", "suggest"},
           NEW ids \in (SUBSET (Id \cup {NoId})) \cup OtherLists
    PROVE  /\ Save(who, kind, ids) \in Saves
           /\ Save(who, kind, ids).who = who /\ Save(who, kind, ids).ids = ids
           /\ Save(who, kind, ids).kind = kind
           /\ Save(who, kind, ids).now = NotLoaded
BY DEF Save, Saves, NotLoaded

\* What is saved when a run ends: a list of receipts.
LEMMA EndType ==
    ASSUME NEW rest \in SUBSET (Id \cup {NoId}), NEW c \in Seq(Saves),
           EndRun(rest, c)
    PROVE  \E s \in Saves :
             /\ chain' = Append(c, s) /\ s.who = "end" /\ s.kind = "extract"
             /\ s.now = NotLoaded /\ s.ids \in {rest, {}}
             /\ s.ids = IF EndsClosed \/ stopped THEN rest ELSE {}
             /\ main' = "idle" /\ cancelling' = FALSE
             /\ owed' = IF EndsCancelled THEN {} ELSE owed
<1> DEFINE ids == IF EndsClosed \/ stopped THEN rest ELSE {}
<1>1. ids \in (SUBSET (Id \cup {NoId})) \cup OtherLists OBVIOUS
<1> HIDE DEF ids
<1>2. /\ Save("end", "extract", ids) \in Saves
      /\ Save("end", "extract", ids).who = "end"
      /\ Save("end", "extract", ids).ids = ids
      /\ Save("end", "extract", ids).kind = "extract"
      /\ Save("end", "extract", ids).now = NotLoaded
  BY <1>1, SaveType
<1> QED BY <1>2 DEF EndRun, ids

-----------------------------------------------------------------------------
(* Type correctness.                                                       *)

\* What a worker's save keeps is of receipts.
LEMMA LeftType ==
    ASSUME TypeOK, NEW w \in Worker, NEW q \in SUBSET Id
    PROVE  Left(w, q) \in SUBSET (Id \cup {NoId})
BY DEF TypeOK, Left, LeftAfter

\* The four ends of a request have this in common.
LEMMA ProgressType ==
    ASSUME TypeOK, NEW w \in Worker, NEW q \in SUBSET Id, Progress(w, q)
    PROVE  /\ queue' \subseteq Id /\ hand' \in [Worker -> Id \cup {NoId}]
           /\ pc' \in [Worker -> {"out", "look", "asleep", "asking", "saving"}]
           /\ chain' \in Seq(Saves)
           /\ \E s \in Saves :
                /\ chain' = Append(chain, s) /\ s.who = w
                /\ s.kind = "extract" /\ s.ids = Left(w, q)
                /\ s.now = NotLoaded
<1>1. Left(w, q) \in SUBSET (Id \cup {NoId}) BY LeftType
<1>2. /\ Save(w, "extract", Left(w, q)) \in Saves
      /\ Save(w, "extract", Left(w, q)).who = w
      /\ Save(w, "extract", Left(w, q)).kind = "extract"
      /\ Save(w, "extract", Left(w, q)).ids = Left(w, q)
      /\ Save(w, "extract", Left(w, q)).now = NotLoaded
  BY <1>1, SaveType
<1>3. chain' = Append(chain, Save(w, "extract", Left(w, q)))
  BY DEF Progress
<1>4. chain' \in Seq(Saves) BY <1>2, <1>3 DEF TypeOK
<1> QED BY <1>2, <1>3, <1>4 DEF Progress, TypeOK

\* Every step keeps the types.
LEMMA TypeStep ==
    ASSUME QueueAssumption, TypeOK, SavesOK, [Next]_vars
    PROVE  TypeOK'
<1> USE QueueAssumption DEF flags, kept
<1>0. chain \in Seq(Saves) /\ queue \subseteq Id BY DEF TypeOK
<1>1. ASSUME NEW ids \in {Id \ read, disk.extract}, Start(ids) PROVE TypeOK'
  <2>1. ids \subseteq Id BY DEF TypeOK
  <2>2. Save("run", "extract", ids) \in Saves BY <2>1, SaveType
  <2>3. chain' \in Seq(Saves) BY <1>0, <1>1, <2>2 DEF Start
  <2>4. /\ pause' \in 0..MaxPause /\ retries' \in [Id -> 0..MaxRetries]
        /\ queue' \subseteq Id
    BY <1>1, <2>1 DEF Start
  <2>5. main' = "first" /\ cancelling' = FALSE /\ stopped' = FALSE
        /\ closed' = FALSE
    BY <1>1 DEF Start
  <2>6. UNCHANGED <<books, pc, hand, read, disk, owed, other>>
    BY <1>1 DEF Start
  <2> QED BY <2>3, <2>4, <2>5, <2>6 DEF TypeOK
<1>2. CASE Cancel BY <1>2 DEF Cancel, TypeOK
<1>3. CASE AllOut
  <2>1. EndRun(queue, chain) BY <1>3 DEF AllOut
  <2>2. queue \in SUBSET (Id \cup {NoId}) BY <1>0
  <2>3. PICK s \in Saves :
             /\ chain' = Append(chain, s) /\ main' = "idle"
             /\ cancelling' = FALSE
             /\ owed' = IF EndsCancelled THEN {} ELSE owed
    BY <1>0, <2>1, <2>2, EndType
  <2>4. chain' \in Seq(Saves) BY <1>0, <2>3
  <2>5. owed' \subseteq Id BY <2>3 DEF TypeOK
  <2>6. /\ pause' \in 0..MaxPause /\ retries' \in [Id -> 0..MaxRetries]
        /\ queue' \subseteq Id /\ closed' = FALSE
    BY <1>3 DEF AllOut
  <2>7. UNCHANGED <<books, stopped, pc, hand, read, disk, other>>
    BY <1>3 DEF AllOut
  <2> QED BY <2>3, <2>4, <2>5, <2>6, <2>7 DEF TypeOK
<1>4. ASSUME NEW w \in Worker, Step(w) PROVE TypeOK'
  <2>1. CASE Look(w)
    <3>1. /\ queue' \subseteq Id /\ hand' \in [Worker -> Id \cup {NoId}]
          /\ pc' \in [Worker -> {"out", "look", "asleep", "asking", "saving"}]
      BY <1>0, <2>1 DEF Look, Take, TypeOK
    <3>2. closed' \in BOOLEAN BY <2>1 DEF Look, TypeOK
    <3>3. UNCHANGED <<books, main, cancelling, stopped, pause, retries, read,
                      chain, disk, owed, other>>
      BY <2>1 DEF Look
    <3> QED BY <3>1, <3>2, <3>3 DEF TypeOK
  <2>2. CASE Wake(w) BY <1>0, <2>2 DEF Wake, Take, TypeOK
  <2>3. CASE Handled(w)
    <3>1. Progress(w, queue) /\ Shorter(pause) \in 0..MaxPause
      BY <2>3 DEF Handled, Shorter, TypeOK
    <3>2. /\ queue' \subseteq Id /\ hand' \in [Worker -> Id \cup {NoId}]
          /\ pc' \in [Worker -> {"out", "look", "asleep", "asking", "saving"}]
          /\ chain' \in Seq(Saves)
      BY <1>0, <3>1, ProgressType
    <3>3. read' \subseteq Id /\ owed' \subseteq Id
      BY <2>3 DEF Handled, TypeOK
    <3> QED BY <2>3, <3>1, <3>2, <3>3 DEF Handled, TypeOK
  <2>4. CASE Refused(w)
    <3>1. queue \cup {hand[w]} \subseteq Id BY <1>0, <2>4 DEF Refused
    <3>2. /\ queue' \subseteq Id /\ hand' \in [Worker -> Id \cup {NoId}]
          /\ pc' \in [Worker -> {"out", "look", "asleep", "asking", "saving"}]
          /\ chain' \in Seq(Saves)
      BY <2>4, <3>1, ProgressType DEF Refused
    <3> QED BY <2>4, <3>2 DEF Refused, TypeOK
  <2>5. CASE Limited(w)
    <3>1. queue \cup {hand[w]} \subseteq Id BY <1>0, <2>5 DEF Limited
    <3>2. Progress(w, queue \cup {hand[w]}) \/ Progress(w, queue)
      BY <2>5 DEF Limited
    <3>3. /\ queue' \subseteq Id /\ hand' \in [Worker -> Id \cup {NoId}]
          /\ pc' \in [Worker -> {"out", "look", "asleep", "asking", "saving"}]
          /\ chain' \in Seq(Saves)
      BY <1>0, <3>1, <3>2, ProgressType
    <3>4. retries' \in [Id -> 0..MaxRetries] /\ pause' \in 0..MaxPause
      BY <2>5 DEF Limited, Longer, TypeOK
    <3>5. owed' \subseteq Id BY <2>5 DEF Limited, TypeOK
    <3> QED BY <2>5, <3>3, <3>4, <3>5 DEF Limited, TypeOK
  <2>6. CASE Failed(w)
    <3>1. /\ queue' \subseteq Id /\ hand' \in [Worker -> Id \cup {NoId}]
          /\ pc' \in [Worker -> {"out", "look", "asleep", "asking", "saving"}]
          /\ chain' \in Seq(Saves)
      BY <1>0, <2>6, ProgressType DEF Failed
    <3> QED BY <2>6, <3>1 DEF Failed, TypeOK
  <2> QED BY <1>4, <2>1, <2>2, <2>3, <2>4, <2>5, <2>6 DEF Step
<1>5. ASSUME NEW i \in DOMAIN chain, SaveLoads(i) PROVE TypeOK'
  <2>1. chain[i] \in Saves BY <1>0
  <2>2. disk \in [extract : SUBSET (Id \cup {NoId}),
                  suggest : OtherLists \cup {{}, {NoId}}]
    BY DEF SavesOK
  <2>3. [chain[i] EXCEPT !.now = disk] \in Saves BY <2>1, <2>2 DEF Saves
  <2>4. chain' = [chain EXCEPT ![i] = [chain[i] EXCEPT !.now = disk]]
    BY <1>5 DEF SaveLoads
  <2>5. chain' \in Seq(Saves) BY <1>0, <2>3, <2>4
  <2> QED BY <1>5, <2>5 DEF SaveLoads, TypeOK
<1>6. ASSUME NEW i \in DOMAIN chain, SaveDone(i) PROVE TypeOK'
  <2>1. i = 1 /\ chain # <<>> BY <1>6, FirstRuns DEF SaveDone
  <2>2. chain[i] \in Saves /\ i \in 1..Len(chain) BY <1>0
  <2>3. chain' \in Seq(Saves) BY <1>0, <1>6, <2>1, DropFirst DEF SaveDone
  <2>4. chain[i].now = disk BY <1>6, <2>2 DEF SaveDone, SavesOK
  <2>5. disk'.extract \subseteq Id /\ disk'.suggest \in OtherLists \cup {{}}
    <3>1. disk \in [extract : SUBSET Id, suggest : OtherLists \cup {{}}]
      BY DEF SavesOK
    <3>2. CASE Same(i) BY <1>6, <3>1, <3>2 DEF SaveDone
    <3>3. CASE ~Same(i) /\ chain[i].kind = "extract"
      <4>1. disk' = [disk EXCEPT !["extract"] = chain[i].ids \ {NoId}]
        BY <1>6, <2>4, <3>3 DEF SaveDone
      <4>2. chain[i].ids \ {NoId} \subseteq Id BY <2>2, <3>3 DEF SavesOK
      <4> QED BY <3>1, <4>1, <4>2
    <3>4. CASE ~Same(i) /\ chain[i].kind = "suggest"
      <4>1. disk' = [disk EXCEPT !["suggest"] = chain[i].ids \ {NoId}]
        BY <1>6, <2>4, <3>4 DEF SaveDone
      <4>2. chain[i].ids \in OtherLists BY <2>2, <3>4 DEF SavesOK
      <4>3. chain[i].ids \ {NoId} = chain[i].ids BY <4>2
      <4> QED BY <3>1, <4>1, <4>2, <4>3
    <3>5. chain[i].kind \in {"extract", "suggest"} BY <2>2 DEF Saves
    <3> QED BY <3>2, <3>3, <3>4, <3>5
  <2>6. other' \in OtherLists \cup {{}}
    BY <1>6, <2>2 DEF SaveDone, SavesOK, TypeOK
  <2>7. /\ main' \in {"idle", "first", "running"} /\ owed' \subseteq Id
        /\ pc' \in [Worker -> {"out", "look", "asleep", "asking", "saving"}]
    BY <1>0, <1>6 DEF SaveDone, Resolve, TypeOK
  <2> QED BY <1>6, <2>3, <2>5, <2>6, <2>7 DEF SaveDone, TypeOK
<1>7. ASSUME NEW i \in DOMAIN chain, SaveFails(i) PROVE TypeOK'
  <2>1. i = 1 /\ chain # <<>> BY <1>7, FirstRuns DEF SaveFails
  <2>2. Dropped(i) \in Seq(Saves) BY <1>0, <2>1, DropFirst
  <2>3. queue \cup InFlight \in SUBSET (Id \cup {NoId})
    BY DEF TypeOK, InFlight
  <2>4. \/ EndRun(queue \cup InFlight, Dropped(i))
        \/ chain' = Dropped(i) /\ UNCHANGED <<main, cancelling, owed>>
    BY <1>7 DEF SaveFails
  <2>5. /\ chain' \in Seq(Saves) /\ owed' \subseteq Id
        /\ main' \in {"idle", "first", "running"} /\ cancelling' \in BOOLEAN
    <3>1. CASE EndRun(queue \cup InFlight, Dropped(i))
      <4>1. PICK s \in Saves :
                 /\ chain' = Append(Dropped(i), s) /\ main' = "idle"
                 /\ cancelling' = FALSE
                 /\ owed' = IF EndsCancelled THEN {} ELSE owed
        BY <2>2, <2>3, <3>1, EndType
      <4>2. chain' \in Seq(Saves) BY <2>2, <4>1
      <4>3. owed' \subseteq Id BY <4>1 DEF TypeOK
      <4> QED BY <4>1, <4>2, <4>3
    <3>2. CASE chain' = Dropped(i) /\ UNCHANGED <<main, cancelling, owed>>
      BY <2>2, <3>2 DEF TypeOK
    <3> QED BY <2>4, <3>1, <3>2
  <2>6. pc' \in [Worker -> {"out", "look", "asleep", "asking", "saving"}]
    BY <1>7 DEF SaveFails, TypeOK
  <2> QED BY <1>7, <2>5, <2>6 DEF SaveFails, TypeOK
<1>8. ASSUME NEW ids \in OtherLists, OtherSaves(ids) PROVE TypeOK'
  <2>1. Save("other", "suggest", ids) \in Saves
    <3>1. ids \in (SUBSET (Id \cup {NoId})) \cup OtherLists OBVIOUS
    <3> QED BY <3>1, SaveType
  <2>2. chain' \in Seq(Saves) BY <1>0, <1>8, <2>1 DEF OtherSaves
  <2> QED BY <1>8, <2>2 DEF OtherSaves, TypeOK
<1>9. CASE Discard
  <2>1. Save("other", "extract", {}) \in Saves BY SaveType
  <2>2. chain' \in Seq(Saves) BY <1>0, <1>9, <2>1 DEF Discard
  <2> QED BY <1>9, <2>2 DEF Discard, TypeOK
<1>10. CASE Lock BY <1>10 DEF Lock, TypeOK
<1>11. CASE Reload
  <2>1. /\ pause' \in 0..MaxPause /\ retries' \in [Id -> 0..MaxRetries]
        /\ queue' = {} /\ chain' \in Seq(Saves)
        /\ pc' \in [Worker -> {"out", "look", "asleep", "asking", "saving"}]
        /\ hand' \in [Worker -> Id \cup {NoId}]
    BY <1>11 DEF Reload
  <2>2. /\ books' = "open" /\ main' = "idle" /\ cancelling' = FALSE
        /\ stopped' = FALSE /\ closed' = FALSE
        /\ UNCHANGED <<read, disk, owed, other>>
    BY <1>11 DEF Reload
  <2> QED BY <2>1, <2>2 DEF TypeOK
<1>12. CASE UNCHANGED vars BY <1>12 DEF vars, TypeOK
<1> QED
  BY <1>1, <1>2, <1>3, <1>4, <1>5, <1>6, <1>7, <1>8, <1>9, <1>10, <1>11, <1>12
  DEF Next, SaveStep

-----------------------------------------------------------------------------
(* The steps, by what they do to the chain of saves.                       *)

\* The kinds a save may be of and whose it may be.
LEMMA EachSave ==
    ASSUME TypeOK, NEW i \in 1..Len(chain)
    PROVE  /\ chain[i] \in Saves /\ chain[i].kind \in {"extract", "suggest"}
           /\ chain[i].who \in Worker \cup {"run", "end", "other"}
<1>1. chain[i] \in Saves BY DEF TypeOK
<1> QED BY <1>1 DEF Saves

\* A save that is done has written its list, and no other.
LEMMA DiskAfter ==
    ASSUME QueueAssumption, TypeOK, SavesOK, SaveDone(1), chain # <<>>
    PROVE  /\ disk' \in [extract : SUBSET Id, suggest : OtherLists \cup {{}}]
           /\ chain[1].kind = "extract" =>
                 /\ disk'.extract = chain[1].ids \ {NoId}
                 /\ disk'.suggest = disk.suggest
           /\ chain[1].kind = "suggest" =>
                 /\ disk'.suggest = chain[1].ids
                 /\ disk'.extract = disk.extract
           /\ Same(1) => disk' = disk
<1>1. 1 \in 1..Len(chain) BY DropFirst DEF TypeOK
<1>2. /\ chain[1].now = disk /\ chain[1].kind \in {"extract", "suggest"}
      /\ disk \in [extract : SUBSET Id, suggest : OtherLists \cup {{}}]
  BY <1>1, EachSave DEF SaveDone, SavesOK
<1>3. CASE Same(1)
  <2>1. disk' = disk BY <1>3 DEF SaveDone
  <2>2. chain[1].kind = "extract" => disk.extract = chain[1].ids
    BY <1>2, <1>3 DEF Same
  <2>3. chain[1].kind = "suggest" => disk.suggest = chain[1].ids
    BY <1>2, <1>3 DEF Same
  <2>4. NoId \notin disk.extract BY <1>2 DEF QueueAssumption
  <2> QED BY <1>2, <2>1, <2>2, <2>3, <2>4
<1>4. CASE ~Same(1) /\ chain[1].kind = "extract"
  <2>1. disk' = [disk EXCEPT !["extract"] = chain[1].ids \ {NoId}]
    BY <1>2, <1>4 DEF SaveDone
  <2>2. chain[1].ids \ {NoId} \subseteq Id BY <1>1, <1>4 DEF SavesOK
  <2> QED BY <1>2, <1>4, <2>1, <2>2
<1>5. CASE ~Same(1) /\ chain[1].kind = "suggest"
  <2>1. disk' = [disk EXCEPT !["suggest"] = chain[1].ids \ {NoId}]
    BY <1>2, <1>5 DEF SaveDone
  <2>2. chain[1].ids \in OtherLists BY <1>1, <1>5 DEF SavesOK
  <2>3. chain[1].ids \ {NoId} = chain[1].ids BY <2>2 DEF QueueAssumption
  <2> QED BY <1>2, <1>5, <2>1, <2>2, <2>3
<1> QED BY <1>2, <1>3, <1>4, <1>5

\* A run that ends in a failed save, or a failed save that ends none: what it
\* leaves of the chain.
LEMMA FailsLeaves ==
    ASSUME QueueAssumption, TypeOK, SaveFails(1), chain # <<>>
    PROVE  \/ chain' = Dropped(1) /\ UNCHANGED <<main, owed>>
           \/ \E s \in Saves :
                /\ chain' = Append(Dropped(1), s) /\ s.who = "end"
                /\ s.kind = "extract" /\ s.now = NotLoaded
                /\ s.ids \subseteq Id \cup {NoId}
                /\ main' = "idle" /\ owed' \subseteq owed
<1>1. Dropped(1) \in Seq(Saves) BY DropFirst DEF TypeOK
<1>2. queue \cup InFlight \in SUBSET (Id \cup {NoId})
  BY DEF TypeOK, InFlight
<1>3. CASE EndRun(queue \cup InFlight, Dropped(1))
  <2>1. PICK s \in Saves :
             /\ chain' = Append(Dropped(1), s) /\ s.who = "end"
             /\ s.kind = "extract" /\ s.now = NotLoaded
             /\ s.ids \in {queue \cup InFlight, {}} /\ main' = "idle"
             /\ owed' = IF EndsCancelled THEN {} ELSE owed
    BY <1>1, <1>2, <1>3, EndType
  <2>2. s.ids \subseteq Id \cup {NoId} /\ owed' \subseteq owed BY <1>2, <2>1
  <2> QED BY <2>1, <2>2
<1> QED BY <1>3 DEF SaveFails

\* How a step changes the chain: not at all, one more save, the first loads
\* or is done, or all is gone with the page.
LEMMA ChainSteps ==
    ASSUME QueueAssumption, TypeOK, SavesOK, [Next]_vars
    PROVE  \/ chain' = chain /\ disk' = disk
           \/ /\ disk' = disk
              /\ \E s \in Saves :
                   /\ chain' = Append(chain, s) /\ s.now = NotLoaded
                   /\ s.kind = "extract" => s.ids \subseteq Id \cup {NoId}
                   /\ s.kind = "suggest" => s.ids \in OtherLists
           \/ SaveLoads(1) /\ chain # <<>>
           \/ SaveDone(1) /\ chain # <<>>
           \/ SaveFails(1) /\ chain # <<>>
           \/ chain' = <<>> /\ disk' = disk
<1> USE DEF flags, kept
<1>1. ASSUME NEW i \in DOMAIN chain,
             SaveLoads(i) \/ SaveDone(i) \/ SaveFails(i)
      PROVE  i = 1 /\ chain # <<>>
  BY <1>1, FirstRuns DEF SaveLoads, SaveDone, SaveFails
<1>2. ASSUME NEW ids \in {Id \ read, disk.extract}, Start(ids)
      PROVE  /\ disk' = disk
             /\ \E s \in Saves :
                  /\ chain' = Append(chain, s) /\ s.now = NotLoaded
                  /\ s.kind = "extract" /\ s.ids \subseteq Id \cup {NoId}
  <2>1. ids \in SUBSET (Id \cup {NoId}) BY DEF TypeOK
  <2>2. ids \in (SUBSET (Id \cup {NoId})) \cup OtherLists BY <2>1
  <2>3. /\ Save("run", "extract", ids) \in Saves
        /\ Save("run", "extract", ids).now = NotLoaded
        /\ Save("run", "extract", ids).kind = "extract"
        /\ Save("run", "extract", ids).ids = ids
    BY <2>2, SaveType
  <2> QED BY <1>2, <2>1, <2>3 DEF Start
<1>3. ASSUME AllOut
      PROVE  /\ disk' = disk
             /\ \E s \in Saves :
                  /\ chain' = Append(chain, s) /\ s.now = NotLoaded
                  /\ s.kind = "extract" /\ s.ids \subseteq Id \cup {NoId}
  <2>1. queue \in SUBSET (Id \cup {NoId}) /\ chain \in Seq(Saves)
    BY DEF TypeOK
  <2>2. PICK s \in Saves :
             /\ chain' = Append(chain, s) /\ s.now = NotLoaded
             /\ s.kind = "extract" /\ s.ids \in {queue, {}}
    BY <1>3, <2>1, EndType DEF AllOut
  <2>3. s.ids \subseteq Id \cup {NoId} BY <2>1, <2>2
  <2> QED BY <1>3, <2>2, <2>3 DEF AllOut
<1>4. ASSUME NEW w \in Worker, NEW q \in SUBSET Id, Progress(w, q)
      PROVE  \E s \in Saves :
                /\ chain' = Append(chain, s) /\ s.now = NotLoaded
                /\ s.kind = "extract" /\ s.ids \subseteq Id \cup {NoId}
  BY <1>4, ProgressType, LeftType
<1>5. ASSUME NEW w \in Worker, Step(w)
      PROVE  /\ disk' = disk
             /\ chain' = chain \/ \E q \in SUBSET Id : Progress(w, q)
  <2>1. queue \in SUBSET Id BY DEF TypeOK
  <2>2. CASE Look(w) \/ Wake(w) BY <2>2 DEF Look, Wake
  <2>3. CASE Handled(w) \/ Failed(w) BY <2>1, <2>3 DEF Handled, Failed
  <2>4. CASE Refused(w) \/ Limited(w)
    <3>1. queue \cup {hand[w]} \in SUBSET Id
      BY <2>1, <2>4 DEF Refused, Limited
    <3> QED BY <2>1, <2>4, <3>1 DEF Refused, Limited
  <2> QED BY <1>5, <2>2, <2>3, <2>4 DEF Step
<1>6. ASSUME NEW ids \in OtherLists, OtherSaves(ids)
      PROVE  /\ disk' = disk
             /\ \E s \in Saves :
                  /\ chain' = Append(chain, s) /\ s.now = NotLoaded
                  /\ s.kind = "suggest" /\ s.ids \in OtherLists
  <2>1. ids \in (SUBSET (Id \cup {NoId})) \cup OtherLists OBVIOUS
  <2>2. /\ Save("other", "suggest", ids) \in Saves
        /\ Save("other", "suggest", ids).now = NotLoaded
        /\ Save("other", "suggest", ids).kind = "suggest"
        /\ Save("other", "suggest", ids).ids = ids
    BY <2>1, SaveType
  <2> QED BY <1>6, <2>2 DEF OtherSaves
<1>7. ASSUME Discard
      PROVE  /\ disk' = disk
             /\ \E s \in Saves :
                  /\ chain' = Append(chain, s) /\ s.now = NotLoaded
                  /\ s.kind = "extract" /\ s.ids \subseteq Id \cup {NoId}
  <2>1. {} \in (SUBSET (Id \cup {NoId})) \cup OtherLists OBVIOUS
  <2>2. /\ Save("other", "extract", {}) \in Saves
        /\ Save("other", "extract", {}).now = NotLoaded
        /\ Save("other", "extract", {}).kind = "extract"
        /\ Save("other", "extract", {}).ids = {}
    BY <2>1, SaveType
  <2> QED BY <1>7, <2>2 DEF Discard
<1>8. CASE Cancel \/ Lock \/ UNCHANGED vars
  BY <1>8 DEF Cancel, Lock, vars
<1>9. CASE Reload BY <1>9 DEF Reload
<1>10. CASE SaveStep BY <1>1, <1>10 DEF SaveStep
<1> QED
  BY <1>2, <1>3, <1>4, <1>5, <1>6, <1>7, <1>8, <1>9, <1>10 DEF Next

\* What is written is what the save in front loaded, with its own list put in.
LEMMA SavesStep ==
    ASSUME QueueAssumption, TypeOK, SavesOK, [Next]_vars
    PROVE  SavesOK'
<1>0. chain \in Seq(Saves) /\ Len(chain) \in Nat BY DEF TypeOK
<1>1. CASE chain' = chain /\ disk' = disk BY <1>1 DEF SavesOK
<1>2. ASSUME NEW s \in Saves, disk' = disk, chain' = Append(chain, s),
             s.now = NotLoaded,
             s.kind = "extract" => s.ids \subseteq Id \cup {NoId},
             s.kind = "suggest" => s.ids \in OtherLists
      PROVE  SavesOK'
  <2>1. /\ Len(chain') = Len(chain) + 1
        /\ \A j \in 1..Len(chain) : chain'[j] = chain[j]
        /\ chain'[Len(chain) + 1] = s
    BY <1>0, <1>2
  <2>2. ASSUME NEW j \in 1..Len(chain')
        PROVE  \/ j \in 1..Len(chain) /\ chain'[j] = chain[j]
               \/ chain'[j] = s
    BY <1>0, <2>1
  <2> QED BY <1>2, <2>2 DEF SavesOK
<1>3. CASE SaveLoads(1) /\ chain # <<>>
  <2>1. chain' = [chain EXCEPT ![1] = [chain[1] EXCEPT !.now = disk]]
        /\ disk' = disk
    BY <1>3 DEF SaveLoads, kept
  <2>2. 1 \in 1..Len(chain) /\ chain[1] \in Saves
    BY <1>0, <1>3, DropFirst, EachSave
  <2>3. /\ Len(chain') = Len(chain)
        /\ \A j \in 1..Len(chain) : j # 1 => chain'[j] = chain[j]
        /\ chain'[1] = [chain[1] EXCEPT !.now = disk]
    BY <1>0, <2>1, <2>2
  <2>4. /\ chain'[1].kind = chain[1].kind /\ chain'[1].ids = chain[1].ids
        /\ chain'[1].now = disk
    BY <2>2, <2>3 DEF Saves
  <2> QED BY <2>1, <2>3, <2>4 DEF SavesOK
<1>4. ASSUME chain' = Dropped(1), chain # <<>>,
             disk' \in [extract : SUBSET Id, suggest : OtherLists \cup {{}}]
      PROVE  SavesOK'
  <2>1. /\ Len(chain') = Len(chain) - 1
        /\ \A j \in 1..Len(chain) - 1 : chain'[j] = chain[j + 1]
    BY <1>0, <1>4, DropFirst
  <2>2. ASSUME NEW j \in 1..Len(chain')
        PROVE  /\ j + 1 \in 1..Len(chain) /\ j + 1 # 1
               /\ chain'[j] = chain[j + 1]
    BY <1>0, <2>1
  <2> QED BY <1>4, <2>2 DEF SavesOK
<1>5. CASE SaveDone(1) /\ chain # <<>>
  BY <1>4, <1>5, DiskAfter DEF SaveDone
<1>6. CASE SaveFails(1) /\ chain # <<>>
  <2>1. disk' = disk BY <1>6 DEF SaveFails, kept
  <2>2. CASE chain' = Dropped(1) BY <1>4, <1>6, <2>1, <2>2 DEF SavesOK
  <2>3. ASSUME NEW s \in Saves, chain' = Append(Dropped(1), s),
               s.kind = "extract", s.now = NotLoaded,
               s.ids \subseteq Id \cup {NoId}
        PROVE  SavesOK'
    <3>1. /\ Dropped(1) \in Seq(Saves) /\ Len(Dropped(1)) = Len(chain) - 1
          /\ \A j \in 1..Len(chain) - 1 : Dropped(1)[j] = chain[j + 1]
      BY <1>0, <1>6, DropFirst
    <3>2. /\ Len(chain') = Len(chain)
          /\ \A j \in 1..Len(chain) - 1 : chain'[j] = chain[j + 1]
          /\ chain'[Len(chain)] = s
      BY <1>0, <2>3, <3>1
    <3>3. ASSUME NEW j \in 1..Len(chain')
          PROVE  \/ /\ j + 1 \in 1..Len(chain) /\ j + 1 # 1
                    /\ chain'[j] = chain[j + 1]
                 \/ chain'[j] = s
      BY <1>0, <3>2
    <3> QED BY <2>1, <2>3, <3>3 DEF SavesOK
  <2> QED BY <1>6, <2>2, <2>3, FailsLeaves
<1>7. CASE chain' = <<>> /\ disk' = disk BY <1>7 DEF SavesOK
<1> QED BY <1>1, <1>2, <1>3, <1>5, <1>6, <1>7, ChainSteps

-----------------------------------------------------------------------------
(* The workers, and whose saves there are.                                 *)

\* A worker keeps its id while it asks, and no longer.
LEMMA WorkersStep ==
    ASSUME QueueAssumption, TypeOK, SavesOK, Workers, Whose, [Next]_vars
    PROVE  Workers'
<1> USE QueueAssumption DEF flags, kept
<1>1. CASE UNCHANGED <<books, main, pc, hand>>
  BY <1>1 DEF Workers, AllAreOut
<1>2. ASSUME NEW ids \in {Id \ read, disk.extract}, Start(ids) PROVE Workers'
  BY <1>2 DEF Start, Workers, AllAreOut
<1>3. CASE AllOut BY <1>3 DEF AllOut, Workers, AllAreOut
<1>4. ASSUME NEW w \in Worker, Step(w) PROVE Workers'
  <2>1. books' = books /\ main' = main /\ pc[w] # "out"
    BY <1>4 DEF Step, Look, Wake, Handled, Refused, Limited, Failed
  <2>2. ~(books = "open" /\ main # "running")
    BY <2>1 DEF Workers, AllAreOut
  <2>3. CASE Look(w) \/ Wake(w)
    <3>1. pc[w] # "asking" BY <2>3 DEF Look, Wake
    <3>2. /\ \A v \in Worker \ {w} : pc'[v] = pc[v] /\ hand'[v] = hand[v]
          /\ pc'[w] # "asking" => hand'[w] = hand[w]
      BY <2>3 DEF Look, Wake, Take, TypeOK
    <3> QED BY <2>1, <2>2, <3>1, <3>2 DEF Workers, AllAreOut
  <2>4. CASE \E q : Progress(w, q)
    BY <2>1, <2>2, <2>4 DEF Progress, Workers, AllAreOut, TypeOK
  <2> QED
    BY <1>4, <2>3, <2>4 DEF Step, Handled, Refused, Limited, Failed
<1>5. ASSUME NEW i \in DOMAIN chain, SaveLoads(i) PROVE Workers'
  BY <1>1, <1>5 DEF SaveLoads
<1>6. ASSUME NEW i \in DOMAIN chain, SaveDone(i) PROVE Workers'
  <2>1. i \in 1..Len(chain) BY DEF TypeOK
  <2>2. Resolve(chain[i].who) /\ UNCHANGED <<books, hand>>
    BY <1>6 DEF SaveDone
  <2>3. CASE chain[i].who = "run"
    BY <2>1, <2>2, <2>3 DEF Resolve, Whose, Workers, AllAreOut
  <2>4. CASE chain[i].who \in Worker
    BY <2>1, <2>2, <2>4 DEF Resolve, Whose, Workers, AllAreOut, TypeOK
  <2>5. CASE chain[i].who \notin Worker \cup {"run"}
    BY <1>1, <2>2, <2>5 DEF Resolve
  <2> QED BY <2>3, <2>4, <2>5
<1>7. ASSUME NEW i \in DOMAIN chain, SaveFails(i) PROVE Workers'
  <2>1. i \in 1..Len(chain) BY DEF TypeOK
  <2>2. /\ books # "open" /\ UNCHANGED <<books, hand>>
        /\ pc' = IF chain[i].who \in Worker
                 THEN [pc EXCEPT ![chain[i].who] = "out"] ELSE pc
    BY <1>7 DEF SaveFails
  <2> QED BY <2>1, <2>2 DEF Whose, Workers, TypeOK
<1>8. CASE Lock BY <1>8 DEF Lock, Workers, AllAreOut
<1>9. CASE Reload BY <1>9 DEF Reload, Workers, AllAreOut
<1>10. ASSUME NEW ids \in OtherLists, OtherSaves(ids) PROVE Workers'
  BY <1>1, <1>10 DEF OtherSaves
<1>11. CASE Cancel \/ Discard \/ UNCHANGED vars
  BY <1>1, <1>11 DEF Cancel, Discard, vars
<1> QED
  BY <1>2, <1>3, <1>4, <1>5, <1>6, <1>7, <1>8, <1>9, <1>10, <1>11
  DEF Next, SaveStep

\* As long as the saves, their workers and the run are what they were.
LEMMA WhoseKept ==
    ASSUME Whose, UNCHANGED <<chain, main, queue>>,
           \A w \in Worker : pc[w] \in {"saving", "out"} => pc'[w] = pc[w]
    PROVE  Whose'
BY DEF Whose, AllAreOut

\* One more save, of someone who has none.
LEMMA WhoseAppend ==
    ASSUME QueueAssumption, TypeOK, Whose, NEW s \in Saves,
           chain' = Append(chain, s),
           \A i \in 1..Len(chain) : chain[i].who # "run",
           \A w \in Worker : pc[w] = "saving" => pc'[w] = "saving",
           s.who \in Worker => pc[s.who] # "saving" /\ pc'[s.who] = "saving",
           s.who = "run" =>
               /\ main' = "first" /\ AllAreOut' /\ s.kind = "extract"
               /\ s.ids = queue'
    PROVE  Whose'
<1>1. /\ Len(chain) \in Nat /\ Len(chain') = Len(chain) + 1
      /\ \A j \in 1..Len(chain) : chain'[j] = chain[j]
      /\ chain'[Len(chain) + 1] = s
  BY AppendSave DEF TypeOK
<1>2. ASSUME NEW j \in 1..Len(chain')
      PROVE  \/ j \in 1..Len(chain) /\ chain'[j] = chain[j]
             \/ j = Len(chain) + 1 /\ chain'[j] = s
  BY <1>1
<1>3. \A j \in 1..Len(chain') : j =< Len(chain) + 1 /\ j \in Nat BY <1>1
<1> QED BY <1>1, <1>2, <1>3 DEF Whose

\* The first save is done; if it was the run's, there is none of a worker.
LEMMA WhoseDrop ==
    ASSUME QueueAssumption, TypeOK, Whose, chain # <<>>
    PROVE  /\ chain[1].who = "run" =>
                \A i \in 2..Len(chain) :
                    chain[i].who \notin Worker \cup {"run"}
           /\ chain[1].who \in Worker =>
                \A i \in 2..Len(chain) :
                    chain[i].who # "run" /\ chain[i].who # chain[1].who
<1>1. 1 \in 1..Len(chain) /\ Len(chain) \in Nat BY DropFirst DEF TypeOK
<1>2. ASSUME NEW i \in 2..Len(chain), chain[1].who = "run"
      PROVE  chain[i].who \notin Worker \cup {"run"}
  <2>1. i \in 1..Len(chain) /\ i > 1 BY <1>1
  <2>2. AllAreOut /\ chain[i].kind = "suggest" BY <1>1, <1>2, <2>1 DEF Whose
  <2> QED BY <2>1, <2>2 DEF Whose, AllAreOut
<1>3. ASSUME NEW i \in 2..Len(chain), chain[1].who \in Worker
      PROVE  chain[i].who # "run" /\ chain[i].who # chain[1].who
  <2>1. i \in 1..Len(chain) /\ i # 1 BY <1>1
  <2>2. pc[chain[1].who] = "saving" BY <1>1, <1>3 DEF Whose
  <2> QED BY <1>1, <1>3, <2>1, <2>2 DEF Whose, AllAreOut
<1> QED BY <1>2, <1>3

\* The saves after the first: whose they are does not change when it is done,
\* nor when it fails and the run's last save is put behind them.
LEMMA WhoseUp ==
    ASSUME QueueAssumption, TypeOK, Whose, chain # <<>>, queue' = queue,
           \A w \in Worker : w # chain[1].who => pc'[w] = pc[w]
                                \/ chain[1].who = "run",
           chain[1].who \notin Worker \cup {"run"} => main' = main,
           \/ chain' = Dropped(1)
           \/ /\ chain[1].who \in Worker \cup {"run"}
              /\ \E s \in Saves :
                   chain' = Append(Dropped(1), s) /\ s.who = "end"
    PROVE  Whose'
<1>0. /\ Len(chain) \in Nat /\ Len(chain) > 0
      /\ Dropped(1) \in Seq(Saves) /\ Len(Dropped(1)) = Len(chain) - 1
      /\ \A j \in 1..Len(chain) - 1 : Dropped(1)[j] = chain[j + 1]
  BY DropFirst DEF TypeOK
<1>1. ASSUME NEW j \in 1..Len(chain')
      PROVE  \/ j + 1 \in 2..Len(chain) /\ chain'[j] = chain[j + 1]
             \/ /\ chain'[j].who = "end"
                /\ chain[1].who \in Worker \cup {"run"}
  <2>1. CASE chain' = Dropped(1) BY <1>0, <2>1
  <2>2. ASSUME NEW s \in Saves, chain' = Append(Dropped(1), s),
               s.who = "end", chain[1].who \in Worker \cup {"run"}
        PROVE  \/ j + 1 \in 2..Len(chain) /\ chain'[j] = chain[j + 1]
               \/ /\ chain'[j].who = "end"
                  /\ chain[1].who \in Worker \cup {"run"}
    <3>1. /\ Len(chain') = Len(chain)
          /\ \A k \in 1..Len(chain) - 1 : chain'[k] = chain[k + 1]
          /\ chain'[Len(chain)] = s
      BY <1>0, <2>2
    <3> QED BY <1>0, <2>2, <3>1
  <2> QED BY <2>1, <2>2
<1>2. ASSUME NEW j \in 1..Len(chain'), chain'[j].who \in Worker
      PROVE  /\ pc'[chain'[j].who] = "saving"
             /\ \A k \in 1..Len(chain') : chain'[k].who = chain'[j].who => k = j
  <2>1. j + 1 \in 2..Len(chain) /\ chain'[j] = chain[j + 1]
    BY <1>1, <1>2 DEF QueueAssumption
  <2>2. j + 1 \in 1..Len(chain) /\ 1 \in 1..Len(chain) /\ j + 1 # 1
        /\ j \in Nat
    BY <1>0, <2>1
  <2>3. chain[1].who # "run" /\ chain[1].who # chain[j + 1].who
    BY <1>2, <2>1, <2>2, WhoseDrop DEF Whose
  <2>4. pc[chain[j + 1].who] = "saving" BY <1>2, <2>1, <2>2 DEF Whose
  <2>5. ASSUME NEW k \in 1..Len(chain'), chain'[k].who = chain'[j].who
        PROVE  k = j
    <3>1. k + 1 \in 2..Len(chain) /\ chain'[k] = chain[k + 1]
      BY <1>1, <1>2, <2>5 DEF QueueAssumption
    <3>2. k + 1 \in 1..Len(chain) /\ k \in Nat BY <1>0, <3>1
    <3>3. k + 1 = j + 1 BY <1>2, <2>1, <2>2, <2>5, <3>1, <3>2 DEF Whose
    <3> QED BY <2>2, <3>2, <3>3
  <2> QED BY <1>2, <2>1, <2>3, <2>4, <2>5
<1>3. ASSUME NEW j \in 1..Len(chain'), chain'[j].who = "run"
      PROVE  /\ main' = "first" /\ AllAreOut'
             /\ chain'[j].kind = "extract" /\ chain'[j].ids = queue'
             /\ \A k \in 1..Len(chain') : k > j => chain'[k].kind = "suggest"
  <2>1. j + 1 \in 2..Len(chain) /\ chain'[j] = chain[j + 1] BY <1>1, <1>3
  <2>2. j + 1 \in 1..Len(chain) /\ 1 \in 1..Len(chain) /\ j \in Nat
    BY <1>0, <2>1
  <2>3. /\ main = "first" /\ AllAreOut
        /\ chain[j + 1].kind = "extract" /\ chain[j + 1].ids = queue
        /\ \A k \in 1..Len(chain) : k > j + 1 => chain[k].kind = "suggest"
    BY <1>3, <2>1, <2>2 DEF Whose
  <2>4. chain[1].who \notin Worker \cup {"run"}
    BY <1>3, <2>1, WhoseDrop
  <2>5. ASSUME NEW k \in 1..Len(chain'), k > j
        PROVE  chain'[k].kind = "suggest"
    <3>1. k + 1 \in 2..Len(chain) /\ chain'[k] = chain[k + 1]
      BY <1>1, <2>4
    <3>2. k + 1 \in 1..Len(chain) /\ k + 1 > j + 1 BY <1>0, <2>2, <2>5, <3>1
    <3> QED BY <2>3, <3>1, <3>2
  <2> QED BY <2>1, <2>3, <2>4, <2>5 DEF AllAreOut
<1> QED BY <1>2, <1>3 DEF Whose

\* A worker has no second save, and the run no worker while its first is there.
LEMMA WhoseStep ==
    ASSUME QueueAssumption, TypeOK, SavesOK, Workers, Whose, [Next]_vars
    PROVE  Whose'
<1> USE QueueAssumption DEF flags, kept
<1>0. chain \in Seq(Saves) /\ Len(chain) \in Nat BY DEF TypeOK
<1>1. ASSUME NEW ids \in {Id \ read, disk.extract}, Start(ids) PROVE Whose'
  <2>1. ids \in (SUBSET (Id \cup {NoId})) \cup OtherLists BY DEF TypeOK
  <2>2. /\ Save("run", "extract", ids) \in Saves
        /\ Save("run", "extract", ids).who = "run"
        /\ Save("run", "extract", ids).kind = "extract"
        /\ Save("run", "extract", ids).ids = ids
    <3>1. Save("run", "extract", ids) \in Saves BY <2>1, SaveType
    <3> QED BY <3>1 DEF Save
  <2>3. /\ chain' = Append(chain, Save("run", "extract", ids))
        /\ main' = "first" /\ queue' = ids
        /\ pc' = pc /\ books = "open" /\ main = "idle"
    BY <1>1 DEF Start
  <2>4. AllAreOut /\ AllAreOut' BY <2>3 DEF Workers, AllAreOut
  <2>5. \A i \in 1..Len(chain) : chain[i].who # "run" BY <2>3 DEF Whose
  <2> QED BY <2>2, <2>3, <2>4, <2>5, WhoseAppend
<1>2. CASE Cancel \/ Lock \/ UNCHANGED vars
  BY <1>2, WhoseKept DEF Cancel, Lock, vars
<1>3. CASE AllOut
  <2>1. queue \in SUBSET (Id \cup {NoId}) BY DEF TypeOK
  <2>2. PICK s \in Saves : chain' = Append(chain, s) /\ s.who = "end"
    BY <1>0, <1>3, <2>1, EndType DEF AllOut
  <2>3. /\ \A i \in 1..Len(chain) : chain[i].who # "run"
        /\ pc' = pc
    BY <1>3 DEF AllOut, Whose
  <2> QED BY <2>2, <2>3, WhoseAppend
<1>4. ASSUME NEW w \in Worker, Step(w) PROVE Whose'
  <2>1. pc[w] \in {"look", "asleep", "asking"}
    BY <1>4 DEF Step, Look, Wake, Handled, Refused, Limited, Failed
  <2>2. /\ \A i \in 1..Len(chain) : chain[i].who # w
        /\ \A i \in 1..Len(chain) : chain[i].who # "run"
    BY <2>1 DEF Whose, AllAreOut
  <2>3. CASE Look(w) \/ Wake(w)
    <3>1. /\ UNCHANGED <<chain, main>>
          /\ \A v \in Worker \ {w} : pc'[v] = pc[v]
      BY <2>3 DEF Look, Wake, Take, TypeOK
    <3> QED BY <2>1, <2>2, <3>1 DEF Whose
  <2>4. ASSUME NEW q \in SUBSET Id, Progress(w, q) PROVE Whose'
    <3>1. PICK s \in Saves : chain' = Append(chain, s) /\ s.who = w
      BY <2>4, ProgressType
    <3>2. pc' = [pc EXCEPT ![w] = "saving"] BY <2>4 DEF Progress
    <3>3. /\ pc'[w] = "saving"
          /\ \A v \in Worker : pc[v] = "saving" => pc'[v] = "saving"
      BY <3>2 DEF TypeOK
    <3> QED BY <2>1, <2>2, <3>1, <3>3, WhoseAppend
  <2>5. queue \in SUBSET Id BY DEF TypeOK
  <2>6. CASE Handled(w) \/ Failed(w)
    BY <2>4, <2>5, <2>6 DEF Handled, Failed
  <2>7. CASE Refused(w) \/ Limited(w)
    <3>1. queue \cup {hand[w]} \in SUBSET Id
      BY <2>5, <2>7 DEF Refused, Limited
    <3> QED BY <2>4, <2>5, <2>7, <3>1 DEF Refused, Limited
  <2> QED BY <1>4, <2>3, <2>6, <2>7 DEF Step
<1>5. ASSUME NEW i \in DOMAIN chain, SaveLoads(i) PROVE Whose'
  <2>1. /\ chain' = [chain EXCEPT ![i] = [chain[i] EXCEPT !.now = disk]]
        /\ i \in 1..Len(chain)
        /\ UNCHANGED <<main, queue, pc>>
    BY <1>0, <1>5 DEF SaveLoads
  <2>2. chain[i] \in Saves BY <2>1, EachSave
  <2>3. /\ Len(chain') = Len(chain)
        /\ \A j \in 1..Len(chain) :
             /\ chain'[j].who = chain[j].who /\ chain'[j].kind = chain[j].kind
             /\ chain'[j].ids = chain[j].ids
    BY <1>0, <2>1, <2>2 DEF Saves
  <2> QED BY <2>1, <2>3 DEF Whose, AllAreOut
<1>6. ASSUME NEW i \in DOMAIN chain, SaveDone(i) PROVE Whose'
  <2>1. i = 1 /\ chain # <<>> BY <1>6, FirstRuns DEF SaveDone
  <2>2. chain' = Dropped(1) /\ queue' = queue /\ Resolve(chain[1].who)
    BY <1>6, <2>1 DEF SaveDone
  <2>3. \A w \in Worker : w # chain[1].who => pc'[w] = pc[w]
                              \/ chain[1].who = "run"
    BY <2>2 DEF Resolve, TypeOK
  <2>4. chain[1].who \notin Worker \cup {"run"} => main' = main
    BY <2>2 DEF Resolve
  <2> QED BY <2>1, <2>2, <2>3, <2>4, WhoseUp
<1>7. ASSUME NEW i \in DOMAIN chain, SaveFails(i) PROVE Whose'
  <2>1. i = 1 /\ chain # <<>> BY <1>7, FirstRuns DEF SaveFails
  <2>2. queue' = queue /\ \A w \in Worker : w # chain[1].who => pc'[w] = pc[w]
    BY <1>7, <2>1 DEF SaveFails, TypeOK
  <2>3. chain[1].who \notin Worker \cup {"run"} =>
           main' = main /\ chain' = Dropped(1)
    BY <1>7, <2>1 DEF SaveFails
  <2>4. \/ chain' = Dropped(1)
        \/ \E s \in Saves : chain' = Append(Dropped(1), s) /\ s.who = "end"
    BY <1>7, <2>1, FailsLeaves
  <2> QED BY <2>1, <2>2, <2>3, <2>4, WhoseUp
<1>8. ASSUME NEW ids \in OtherLists, OtherSaves(ids) PROVE Whose'
  <2>1. ids \in (SUBSET (Id \cup {NoId})) \cup OtherLists OBVIOUS
  <2> DEFINE s == Save("other", "suggest", ids)
  <2>2. /\ s \in Saves /\ s.who = "other" /\ s.kind = "suggest"
    BY <2>1, SaveType
  <2> HIDE DEF s
  <2>3. chain' = Append(chain, s) /\ UNCHANGED <<main, queue, pc>>
    BY <1>8 DEF OtherSaves, s
  <2>4. /\ Len(chain') = Len(chain) + 1
        /\ \A j \in 1..Len(chain) : chain'[j] = chain[j]
        /\ chain'[Len(chain) + 1] = s
    BY <1>0, <2>2, <2>3
  <2>5. ASSUME NEW j \in 1..Len(chain')
        PROVE  \/ j \in 1..Len(chain) /\ chain'[j] = chain[j]
               \/ chain'[j] = s
    BY <1>0, <2>4
  <2> QED BY <2>2, <2>3, <2>5 DEF Whose, AllAreOut
<1>9. CASE Discard
  <2>1. {} \in (SUBSET (Id \cup {NoId})) \cup OtherLists OBVIOUS
  <2>2. /\ Save("other", "extract", {}) \in Saves
        /\ Save("other", "extract", {}).who = "other"
    <3>1. Save("other", "extract", {}) \in Saves BY <2>1, SaveType
    <3> QED BY <3>1 DEF Save
  <2>3. /\ chain' = Append(chain, Save("other", "extract", {}))
        /\ pc' = pc /\ main = "idle"
    BY <1>9 DEF Discard
  <2>4. \A i \in 1..Len(chain) : chain[i].who # "run" BY <2>3 DEF Whose
  <2> QED BY <2>2, <2>3, <2>4, WhoseAppend
<1>10. CASE Reload BY <1>10 DEF Reload, Whose
<1> QED
  BY <1>1, <1>2, <1>3, <1>4, <1>5, <1>6, <1>7, <1>8, <1>9, <1>10
  DEF Next, SaveStep

-----------------------------------------------------------------------------
(* An id is in one place.                                                  *)

\* A worker takes an id that is in the queue, and so in no hand.
LEMMA TakenIsNowhere ==
    ASSUME QueueAssumption, TypeOK, InOnePlace, NEW w \in Worker, Take(w),
           hand[w] = NoId
    PROVE  InOnePlace'
<1>1. PICK id \in (IF queue = {} THEN {NoId} ELSE queue) :
           queue' = queue \ {id} /\ hand' = [hand EXCEPT ![w] = id]
  BY DEF Take
<1>2. \A v \in Worker : hand'[v] = IF v = w THEN id ELSE hand[v]
  BY <1>1 DEF TypeOK
<1>3. \A v \in Worker : hand[v] # NoId => hand[v] # id
  BY <1>1 DEF InOnePlace
<1> QED BY <1>1, <1>2, <1>3 DEF InOnePlace

\* A worker gives its id back, or is done with it.
LEMMA GivenBack ==
    ASSUME QueueAssumption, TypeOK, InOnePlace, NEW w \in Worker,
           NEW q, q \in {queue, queue \cup {hand[w]}}, Progress(w, q)
    PROVE  InOnePlace'
<1>1. \A v \in Worker : hand'[v] = IF v = w THEN NoId ELSE hand[v]
  BY DEF Progress, TypeOK
<1> QED BY <1>1 DEF Progress, InOnePlace

\* No step puts an id into a second hand, or back while a hand has it.
LEMMA OnePlaceStep ==
    ASSUME QueueAssumption, TypeOK, Workers, InOnePlace, [Next]_vars
    PROVE  InOnePlace'
<1> USE DEF flags, kept
<1>1. CASE UNCHANGED <<queue, hand>> BY <1>1 DEF InOnePlace
<1>2. ASSUME NEW ids \in {Id \ read, disk.extract}, Start(ids)
      PROVE  InOnePlace'
  BY <1>2 DEF Start, Workers, AllAreOut, InOnePlace
<1>3. CASE AllOut
  BY <1>3 DEF AllOut, InOnePlace
<1>4. ASSUME NEW w \in Worker, Step(w) PROVE InOnePlace'
  <2>1. CASE Look(w) \/ Wake(w)
    <3>1. pc[w] # "asking" BY <2>1 DEF Look, Wake
    <3> QED BY <1>1, <2>1, <3>1, TakenIsNowhere DEF Look, Wake, Workers
  <2>2. CASE \E q \in {queue, queue \cup {hand[w]}} : Progress(w, q)
    BY <2>2, GivenBack
  <2> QED BY <1>4, <2>1, <2>2 DEF Step, Handled, Refused, Limited, Failed
<1>5. CASE Reload BY <1>5 DEF Reload, InOnePlace
<1>6. CASE SaveStep
  BY <1>1, <1>6 DEF SaveStep, SaveLoads, SaveDone, SaveFails
<1>7. CASE (\E ids \in OtherLists : OtherSaves(ids))
            \/ Discard \/ Lock \/ Cancel \/ UNCHANGED vars
  BY <1>1, <1>7 DEF OtherSaves, Discard, Lock, Cancel, vars
<1> QED BY <1>2, <1>3, <1>4, <1>5, <1>6, <1>7 DEF Next

-----------------------------------------------------------------------------
(* What is owed.                                                           *)

\* The saves to come hold what is owed, if the one that is added does and no
\* more is owed than before.
LEMMA OwedAppend ==
    ASSUME TypeOK, Owed, NEW s \in Saves, chain' = Append(chain, s),
           books' = books, owed' \subseteq owed,
           books = "open" /\ s.kind = "extract" /\ s.who # "run" =>
               owed' \subseteq s.ids
    PROVE  books' = "open" =>
             \A i \in 1..Len(chain') :
                chain'[i].kind = "extract" /\ chain'[i].who # "run" =>
                   owed' \subseteq chain'[i].ids
<1>1. /\ Len(chain) \in Nat /\ Len(chain') = Len(chain) + 1
      /\ \A j \in 1..Len(chain) : chain'[j] = chain[j]
      /\ chain'[Len(chain) + 1] = s
  BY AppendSave DEF TypeOK
<1>2. ASSUME NEW j \in 1..Len(chain')
      PROVE  \/ j \in 1..Len(chain) /\ chain'[j] = chain[j]
             \/ chain'[j] = s
  BY <1>1
<1> QED BY <1>2 DEF Owed

\* An id comes from the queue into a hand that was empty.
LEMMA OwedTake ==
    ASSUME QueueAssumption, TypeOK, Owed, NEW w \in Worker, Take(w),
           hand[w] = NoId, UNCHANGED <<books, main, chain, owed>>
    PROVE  Owed'
<1>1. PICK id \in (IF queue = {} THEN {NoId} ELSE queue) :
           queue' = queue \ {id} /\ hand' = [hand EXCEPT ![w] = id]
  BY DEF Take
<1>2. /\ \A v \in Worker : hand'[v] = IF v = w THEN id ELSE hand[v]
      /\ NoId \notin owed
  BY <1>1 DEF TypeOK, QueueAssumption
<1>3. owed \subseteq queue \cup Hands => owed \subseteq queue' \cup Hands'
  BY <1>1, <1>2 DEF Hands
<1>4. ~AllAreOut' BY DEF Take, TypeOK, AllAreOut
<1> QED BY <1>3, <1>4 DEF Owed

\* What a worker's save holds is all that is owed once its id is dealt with.
LEMMA OwedProgress ==
    ASSUME QueueAssumption, TypeOK, Workers, Owed, NEW w \in Worker,
           NEW q \in SUBSET Id, Progress(w, q), queue \subseteq q,
           pc[w] = "asking", UNCHANGED <<books, main>>,
           owed' \subseteq owed, hand[w] \in q \/ hand[w] \notin owed'
    PROVE  Owed'
<1>1. PICK s \in Saves :
           /\ chain' = Append(chain, s) /\ s.who = w
           /\ s.kind = "extract" /\ s.ids = Left(w, q)
  BY ProgressType
<1>2. ASSUME books = "open"
      PROVE  /\ main = "running" /\ owed' \subseteq Left(w, q)
             /\ owed' \subseteq queue' \cup Hands'
  <2>1. main = "running" BY <1>2 DEF Workers, AllAreOut
  <2>2. owed \subseteq queue \cup Hands /\ NoId \notin owed
    BY <1>2, <2>1 DEF Owed, TypeOK, QueueAssumption
  <2>3. ASSUME NEW id \in owed'
        PROVE  \/ id \in q
               \/ \E v \in Worker \ {w} : pc[v] = "asking" /\ id = hand[v]
    BY <2>2, <2>3 DEF Hands, Workers
  <2>4. /\ queue' = q
        /\ \A v \in Worker \ {w} : hand'[v] = hand[v]
    BY DEF Progress, TypeOK
  <2>5. owed' \subseteq Left(w, q) BY <2>3 DEF Left, LeftAfter
  <2>6. owed' \subseteq queue' \cup Hands' BY <2>3, <2>4 DEF Hands
  <2> QED BY <2>1, <2>5, <2>6
<1>3. ~AllAreOut' BY DEF Progress, TypeOK, AllAreOut
<1>4. books' = "open" =>
        \A i \in 1..Len(chain') :
           chain'[i].kind = "extract" /\ chain'[i].who # "run" =>
              owed' \subseteq chain'[i].ids
  BY <1>1, <1>2, OwedAppend
<1> QED BY <1>2, <1>3, <1>4 DEF Owed

\* A save is done: the ones behind it are what they were; if it was the run's
\* first, all that it kept is owed from now on.
LEMMA OwedDone ==
    ASSUME QueueAssumption, TypeOK, Whose, Owed, SaveDone(1), chain # <<>>
    PROVE  Owed'
<1>1. /\ Len(chain) \in Nat /\ 1 \in 1..Len(chain)
      /\ Len(chain') = Len(chain) - 1
      /\ \A j \in 1..Len(chain) - 1 : chain'[j] = chain[j + 1]
  BY DropFirst DEF TypeOK, SaveDone
<1>2. ASSUME NEW j \in 1..Len(chain')
      PROVE  j + 1 \in 1..Len(chain) /\ j + 1 > 1 /\ chain'[j] = chain[j + 1]
  BY <1>1
<1>3. Resolve(chain[1].who) /\ UNCHANGED <<books, queue, hand, cancelling,
                                           stopped, closed>>
  BY DEF SaveDone
<1>4. CASE chain[1].who = "run"
  <2>1. ~AllAreOut'
    BY <1>3, <1>4 DEF Resolve, AllAreOut, QueueAssumption
  <2>2. owed' = queue BY <1>3, <1>4 DEF Resolve
  <2>3. \A j \in 1..Len(chain') : chain'[j].kind = "suggest"
    BY <1>1, <1>2, <1>4 DEF Whose
  <2> QED BY <1>3, <2>1, <2>2, <2>3 DEF Owed
<1>5. CASE chain[1].who # "run"
  <2>1. main' = main /\ owed' = owed BY <1>3, <1>5 DEF Resolve
  <2>2. AllAreOut' => AllAreOut
    BY <1>3, <1>5 DEF Resolve, AllAreOut, TypeOK
  <2>3. Hands' = Hands BY <1>3 DEF Hands
  <2> QED BY <1>2, <1>3, <2>1, <2>2, <2>3 DEF Owed
<1> QED BY <1>4, <1>5

\* The run ends when every worker is out: what is left is saved or cancelled.
LEMMA OwedEnd ==
    ASSUME QueueAssumption, TypeOK, Workers, Owed, AllOut
    PROVE  Owed'
<1>1. queue \in SUBSET (Id \cup {NoId}) /\ chain \in Seq(Saves)
  BY DEF TypeOK
<1>2. PICK s \in Saves :
           /\ chain' = Append(chain, s) /\ main' = "idle"
           /\ s.ids = IF EndsClosed \/ stopped THEN queue ELSE {}
           /\ owed' = IF EndsCancelled THEN {} ELSE owed
  BY <1>1, EndType DEF AllOut
<1>3. books' = books /\ owed' \subseteq owed BY <1>2 DEF AllOut
<1>4. ASSUME books = "open" PROVE owed' \subseteq s.ids
  <2>1. main = "running" /\ AllAreOut BY DEF AllOut, AllAreOut
  <2>2. \A w \in Worker : hand[w] = NoId
    BY <2>1 DEF Workers, AllAreOut
  <2>3. owed \subseteq queue
    BY <1>4, <2>1, <2>2 DEF Owed, Hands, TypeOK, QueueAssumption
  <2>4. CASE EndsClosed \/ stopped BY <1>2, <1>3, <2>3, <2>4
  <2>5. CASE ~EndsClosed /\ ~stopped /\ cancelling
    BY <1>2, <2>5 DEF EndsCancelled
  <2>6. CASE ~EndsClosed /\ ~stopped /\ ~cancelling
    BY <1>3, <1>4, <2>1, <2>3, <2>6 DEF EndsClosed, Owed
  <2> QED BY <2>4, <2>5, <2>6
<1>5. books' = "open" =>
        \A i \in 1..Len(chain') :
           chain'[i].kind = "extract" /\ chain'[i].who # "run" =>
              owed' \subseteq chain'[i].ids
  BY <1>2, <1>3, <1>4, OwedAppend
<1> QED BY <1>2, <1>5 DEF Owed

\* In open books, what is owed stays in a hand, in the queue and in the saves.
LEMMA OwedStep ==
    ASSUME QueueAssumption, TypeOK, Workers, SavesOK, Whose, Owed, [Next]_vars
    PROVE  Owed'
<1> USE DEF flags, kept
<1>0. chain \in Seq(Saves) /\ queue \in SUBSET Id BY DEF TypeOK
<1>1. ASSUME NEW ids \in {Id \ read, disk.extract}, Start(ids) PROVE Owed'
  <2>1. ids \in (SUBSET (Id \cup {NoId})) \cup OtherLists BY DEF TypeOK
  <2>2. /\ Save("run", "extract", ids) \in Saves
        /\ Save("run", "extract", ids).who = "run"
    <3>1. Save("run", "extract", ids) \in Saves BY <2>1, SaveType
    <3> QED BY <3>1 DEF Save
  <2>3. /\ chain' = Append(chain, Save("run", "extract", ids))
        /\ main' = "first" /\ books' = books /\ owed' = owed
    BY <1>1 DEF Start
  <2>4. books' = "open" =>
          \A i \in 1..Len(chain') :
             chain'[i].kind = "extract" /\ chain'[i].who # "run" =>
                owed' \subseteq chain'[i].ids
    BY <2>2, <2>3, OwedAppend
  <2> QED BY <2>3, <2>4 DEF Owed
<1>2. CASE Cancel BY <1>2 DEF Cancel, Owed, Hands
<1>3. CASE AllOut BY <1>3, OwedEnd
<1>4. ASSUME NEW w \in Worker, Step(w) PROVE Owed'
  <2>1. ASSUME Look(w), ~Take(w) PROVE Owed'
    <3>1. /\ UNCHANGED <<books, main, queue, hand, chain, owed, cancelling,
                         stopped>>
          /\ \/ /\ queue = {} \/ cancelling \/ stopped \/ ~IsOpen
             \/ pc'[w] = "asleep"
      BY <2>1 DEF Look, TypeOK
    <3> QED BY <3>1 DEF Owed, Hands, AllAreOut, IsOpen
  <2>2. CASE (Look(w) \/ Wake(w)) /\ Take(w)
    <3>1. hand[w] = NoId BY <2>2 DEF Look, Wake, Workers
    <3> QED BY <2>2, <3>1, OwedTake DEF Look, Wake
  <2>3. CASE Handled(w)
    <3>1. CASE books = "open" BY <1>0, <2>3, <3>1, OwedProgress DEF Handled
    <3> QED BY <2>3, <3>1 DEF Handled, Owed
  <2>4. CASE Refused(w)
    <3>1. queue \cup {hand[w]} \in SUBSET Id BY <1>0, <2>4 DEF Refused
    <3> QED BY <2>4, <3>1, OwedProgress DEF Refused
  <2>5. CASE Limited(w)
    <3>1. queue \cup {hand[w]} \in SUBSET Id BY <1>0, <2>5 DEF Limited
    <3>2. CASE retries[hand[w]] < MaxRetries
      BY <2>5, <3>1, <3>2, OwedProgress DEF Limited
    <3>3. CASE ~(retries[hand[w]] < MaxRetries)
      BY <1>0, <2>5, <3>3, OwedProgress DEF Limited
    <3> QED BY <3>2, <3>3
  <2>6. CASE Failed(w) BY <1>0, <2>6, OwedProgress DEF Failed
  <2> QED
    BY <1>4, <2>1, <2>2, <2>3, <2>4, <2>5, <2>6 DEF Step, Wake
<1>5. CASE SaveLoads(1) /\ chain # <<>>
  <2>1. chain' = [chain EXCEPT ![1] = [chain[1] EXCEPT !.now = disk]]
    BY <1>5 DEF SaveLoads
  <2>2. 1 \in 1..Len(chain) /\ chain[1] \in Saves
    BY <1>0, <1>5, DropFirst, EachSave
  <2>3. /\ Len(chain') = Len(chain)
        /\ \A j \in 1..Len(chain) :
             /\ chain'[j].who = chain[j].who /\ chain'[j].kind = chain[j].kind
             /\ chain'[j].ids = chain[j].ids
    BY <1>0, <2>1, <2>2 DEF Saves
  <2> QED BY <1>5, <2>3 DEF SaveLoads, Owed, Hands, AllAreOut
<1>6. CASE SaveDone(1) /\ chain # <<>> BY <1>6, OwedDone
<1>7. CASE SaveFails(1) BY <1>7 DEF SaveFails, Owed
<1>8. CASE SaveStep
  <2>1. PICK i \in DOMAIN chain : SaveLoads(i) \/ SaveDone(i) \/ SaveFails(i)
    BY <1>8 DEF SaveStep
  <2>2. i = 1 /\ chain # <<>>
    BY <2>1, FirstRuns DEF SaveLoads, SaveDone, SaveFails
  <2> QED BY <1>5, <1>6, <1>7, <2>1, <2>2
<1>9. ASSUME NEW ids \in OtherLists, OtherSaves(ids) PROVE Owed'
  <2>1. ids \in (SUBSET (Id \cup {NoId})) \cup OtherLists OBVIOUS
  <2>2. /\ Save("other", "suggest", ids) \in Saves
        /\ Save("other", "suggest", ids).kind = "suggest"
    <3>1. Save("other", "suggest", ids) \in Saves BY <2>1, SaveType
    <3> QED BY <3>1 DEF Save
  <2>3. /\ chain' = Append(chain, Save("other", "suggest", ids))
        /\ UNCHANGED <<main, books, owed, queue, hand, cancelling, stopped,
                       closed, pc>>
    BY <1>9 DEF OtherSaves
  <2>4. books' = "open" =>
          \A i \in 1..Len(chain') :
             chain'[i].kind = "extract" /\ chain'[i].who # "run" =>
                owed' \subseteq chain'[i].ids
    BY <2>2, <2>3, OwedAppend
  <2> QED BY <2>3, <2>4 DEF Owed, Hands, AllAreOut
<1>10. CASE Discard BY <1>10 DEF Discard, Owed
<1>11. CASE Lock BY <1>11 DEF Lock, Owed
<1>12. CASE Reload BY <1>12 DEF Reload, Owed
<1>13. CASE UNCHANGED vars BY <1>13 DEF vars, Owed, Hands, AllAreOut
<1> QED
  BY <1>1, <1>2, <1>3, <1>4, <1>8, <1>9, <1>10, <1>11, <1>12, <1>13 DEF Next

\* Only a save that is done changes what is kept, and only then, when it was
\* the run's first, is more owed than before.
LEMMA OnlyDoneWrites ==
    ASSUME QueueAssumption, TypeOK, SavesOK, [Next]_vars
    PROVE  \/ UNCHANGED kept /\ owed' \subseteq owed
           \/ SaveDone(1) /\ chain # <<>>
<1> USE DEF flags, kept
<1>1. CASE \E ids \in {Id \ read, disk.extract} : Start(ids)
  BY <1>1 DEF Start
<1>2. CASE AllOut
  <2>1. queue \in SUBSET (Id \cup {NoId}) /\ chain \in Seq(Saves)
    BY DEF TypeOK
  <2>2. owed' \in {{}, owed} BY <1>2, <2>1 DEF AllOut, EndRun
  <2> QED BY <1>2, <2>2 DEF AllOut
<1>3. ASSUME NEW w \in Worker, Step(w)
      PROVE  UNCHANGED kept /\ owed' \subseteq owed
  BY <1>3 DEF Step, Look, Wake, Handled, Refused, Limited, Failed
<1>4. CASE SaveStep
  <2>1. PICK i \in DOMAIN chain : SaveLoads(i) \/ SaveDone(i) \/ SaveFails(i)
    BY <1>4 DEF SaveStep
  <2>2. i = 1 /\ chain # <<>>
    BY <2>1, FirstRuns DEF SaveLoads, SaveDone, SaveFails
  <2>3. CASE SaveLoads(1) BY <2>3 DEF SaveLoads
  <2>4. CASE SaveFails(1)
    <3>1. owed' \subseteq owed BY <2>2, <2>4, FailsLeaves
    <3> QED BY <2>4, <3>1 DEF SaveFails
  <2> QED BY <2>1, <2>2, <2>3, <2>4
<1>5. CASE (\E ids \in OtherLists : OtherSaves(ids))
            \/ Discard \/ Lock \/ Reload \/ Cancel \/ UNCHANGED vars
  BY <1>5 DEF OtherSaves, Discard, Lock, Reload, Cancel, vars
<1> QED BY <1>1, <1>2, <1>3, <1>4, <1>5 DEF Next

\* What is owed is in the books after every step.
LEMMA KeptStep ==
    ASSUME QueueAssumption, TypeOK, SavesOK, Whose, Owed, OwedIsKept,
           [Next]_vars
    PROVE  OwedIsKept'
<1>1. CASE UNCHANGED kept /\ owed' \subseteq owed
  BY <1>1 DEF kept, OwedIsKept
<1>2. CASE SaveDone(1) /\ chain # <<>>
  <2>1. 1 \in 1..Len(chain) BY <1>2, DropFirst DEF TypeOK
  <2>2. Resolve(chain[1].who) BY <1>2 DEF SaveDone
  <2>3. chain[1].kind \in {"extract", "suggest"} BY <2>1, EachSave
  <2>4. NoId \notin Id /\ owed \subseteq Id /\ queue \subseteq Id
    BY DEF TypeOK, QueueAssumption
  <2>5. CASE chain[1].who = "run"
    <3>1. chain[1].kind = "extract" /\ chain[1].ids = queue
      BY <2>1, <2>5 DEF Whose
    <3>2. disk'.extract = queue \ {NoId} BY <1>2, <3>1, DiskAfter
    <3> QED BY <2>2, <2>4, <2>5, <3>2 DEF Resolve, OwedIsKept
  <2>6. CASE chain[1].who # "run"
    <3>1. owed' = owed BY <2>2, <2>6 DEF Resolve
    <3>2. CASE Same(1) BY <1>2, <3>1, <3>2, DiskAfter DEF OwedIsKept
    <3>3. CASE chain[1].kind = "suggest"
      BY <1>2, <3>1, <3>3, DiskAfter DEF OwedIsKept
    <3>4. CASE chain[1].kind = "extract" /\ books = "open"
      <4>1. owed \subseteq chain[1].ids BY <2>1, <2>6, <3>4 DEF Owed
      <4>2. disk'.extract = chain[1].ids \ {NoId} BY <1>2, <3>4, DiskAfter
      <4> QED BY <2>4, <3>1, <4>1, <4>2 DEF OwedIsKept
    <3> QED BY <1>2, <2>3, <3>2, <3>3, <3>4 DEF SaveDone
  <2> QED BY <2>5, <2>6
<1> QED BY <1>1, <1>2, OnlyDoneWrites

\* The list of the other kind is what that kind saved last.
LEMMA OtherStep ==
    ASSUME QueueAssumption, TypeOK, SavesOK, OtherKept, [Next]_vars
    PROVE  OtherKept'
<1>1. CASE UNCHANGED kept BY <1>1 DEF kept, OtherKept
<1>2. CASE SaveDone(1) /\ chain # <<>>
  <2>1. 1 \in 1..Len(chain) BY <1>2, DropFirst DEF TypeOK
  <2>2. chain[1].kind \in {"extract", "suggest"} BY <2>1, EachSave
  <2>3. other' = IF chain[1].kind = "suggest" THEN chain[1].ids ELSE other
    BY <1>2 DEF SaveDone
  <2>4. CASE chain[1].kind = "suggest"
    BY <1>2, <2>3, <2>4, DiskAfter DEF OtherKept
  <2>5. CASE chain[1].kind = "extract"
    BY <1>2, <2>3, <2>5, DiskAfter DEF OtherKept
  <2> QED BY <2>2, <2>4, <2>5
<1> QED BY <1>1, <1>2, OnlyDoneWrites

-----------------------------------------------------------------------------
(* The theorems.                                                           *)

\* No run has been started: nothing is owed and nothing is kept.
LEMMA InvInit ==
    ASSUME QueueAssumption, Init PROVE IInv
<1>1. TypeOK
  <2>1. chain \in Seq(Saves) BY DEF Init
  <2>2. /\ retries \in [Id -> 0..MaxRetries] /\ pause \in 0..MaxPause
        /\ pc \in [Worker -> {"out", "look", "asleep", "asking", "saving"}]
        /\ hand \in [Worker -> Id \cup {NoId}]
    BY DEF Init, QueueAssumption
  <2> QED BY <2>1, <2>2 DEF Init, TypeOK
<1>2. Workers /\ InOnePlace
  BY DEF Init, Workers, AllAreOut, InOnePlace
<1>3. SavesOK /\ Whose /\ Owed BY DEF Init, SavesOK, Whose, Owed
<1>4. OwedIsKept /\ OtherKept BY DEF Init, OwedIsKept, OtherKept
<1> QED BY <1>1, <1>2, <1>3, <1>4 DEF IInv

\* Every step keeps the invariant.
LEMMA InvStep ==
    ASSUME QueueAssumption, IInv, [Next]_vars PROVE IInv'
BY TypeStep, WorkersStep, SavesStep, WhoseStep, OwedStep, KeptStep, OtherStep,
   OnePlaceStep
   DEF IInv

\* The invariant from which the others follow: who has an id, whose saves wait
\* and what each of them holds.
THEOREM Inductive == Spec => []IInv
<1>1. Init => IInv BY InvInit, QueueAssumption
<1>2. IInv /\ [Next]_vars => IInv' BY InvStep, QueueAssumption
<1> QED BY <1>1, <1>2, PTL DEF Spec

\* The queue and the kept lists hold receipts only, and a pause and the
\* retries keep to their bounds (jobs/queue.js).
THEOREM TypeCorrect == Spec => []TypeOK
<1>1. IInv => TypeOK BY DEF IInv
<1> QED BY <1>1, Inductive, PTL

\* What was asked for and neither done nor cancelled is in the books at every
\* moment, however the page is left (jobs/queue.js, jobs/pending.js).
THEOREM NoneForgotten == Spec => []OwedIsKept
<1>1. IInv => OwedIsKept BY DEF IInv
<1> QED BY <1>1, Inductive, PTL

\* The saves of the two kinds of run never undo each other, with any number
\* of them in the chain (jobs/pending.js).
THEOREM BothListsKept == Spec => []OtherKept
<1>1. IInv => OtherKept BY DEF IInv
<1> QED BY <1>1, Inductive, PTL

\* No receipt is with two workers, or with one and in the queue
\* (jobs/queue.js).
THEOREM NoneTwice == Spec => []InOnePlace
<1>1. IInv => InOnePlace BY DEF IInv
<1> QED BY <1>1, Inductive, PTL
=============================================================================
