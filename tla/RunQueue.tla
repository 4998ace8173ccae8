------------------------------ MODULE RunQueue ------------------------------
(***************************************************************************)
(* The queue of the AI runs (app/src/lib/jobs/queue.js) as "Alle neuen     *)
(* auslesen" uses it (app/src/lib/receipts/extract-queue.svelte.js), and   *)
(* what it keeps for "weitermachen" (app/src/lib/jobs/pending.js).         *)
(*                                                                         *)
(* A step is what JavaScript runs between two awaits.  A worker awaits the *)
(* pause, the request and the save of what is left; the saves of both      *)
(* kinds of run go through one chain of promises.  The run of the other    *)
(* kind ("suggest") appears by the saves it puts into that chain.          *)
(*                                                                         *)
(* The order of the ids is not kept: no property is about it, and a worker *)
(* takes any id of the queue.  The books close before the page reloads: in *)
(* between isOpen still holds, lists are read and every write fails.       *)
(***************************************************************************)
EXTENDS Naturals, Sequences, FiniteSets

CONSTANTS
    Id,          \* the receipts waiting to be read
    Worker,      \* the workers of a run
    OtherLists,  \* the lists the other kind of run may save
    MaxRetries,  \* how often a rate limit sends an id back
    MaxPause,    \* the longest pause, in steps of its doubling
    MaxRuns,     \* bound on the runs started
    MaxOthers,   \* bound on the saves of the other kind
    MaxReloads   \* bound on the page's reloads

NoId == "undefined"   \* what shift() gives of an empty array

ASSUME QueueAssumption ==
    /\ IsFiniteSet(Id) /\ NoId \notin Id
    /\ Worker # {} /\ {"run", "end", "other"} \cap Worker = {}
    /\ \A list \in OtherLists : NoId \notin list
    /\ MaxRetries \in Nat /\ MaxPause \in Nat \ {0}
    /\ MaxRuns \in Nat /\ MaxOthers \in Nat /\ MaxReloads \in Nat

VARIABLES
    books,       \* "open", "closing" (saves fail), "closed" (isOpen is false)
    main,        \* the run itself: "idle", "first" (first save), "running"
    cancelling,  \* state.cancelling
    stopped,     \* state.stopped is set
    closed,      \* a worker saw the books closed
    queue,       \* ids no worker has
    pause,       \* 0, or how often the workers' pause was doubled
    retries,     \* how often a rate limit sent an id back
    pc,          \* where each worker stands
    hand,        \* the id each worker has
    read,        \* receipts that are read, in the books
    chain,       \* saves not done: whose, of what kind, the ids, what it loaded
    disk,        \* the books' `pendingJobs`
    owed,        \* history: asked for and kept; not read, failed or cancelled
    other,       \* history: the list the other kind saved last
    runs, others, reloads

vars == <<books, main, cancelling, stopped, closed, queue, pause, retries, pc,
          hand, read, chain, disk, owed, other, runs, others, reloads>>

flags == <<books, main, cancelling, stopped, closed, runs, others, reloads>>
kept == <<disk, other>>

\* What was not loaded yet.
NotLoaded == [extract |-> {NoId}, suggest |-> {NoId}]
Saves == [who : Worker \cup {"run", "end", "other"},
          kind : {"extract", "suggest"},
          ids : (SUBSET (Id \cup {NoId})) \cup OtherLists,
          now : [extract : SUBSET (Id \cup {NoId}),
                 suggest : OtherLists \cup {{}, {NoId}}]]

\* The queue and the kept lists hold receipts only, never the undefined that
\* shift() gives of an empty queue (savePending filters it out); a pause and a
\* receipt's retries keep to their bounds.
TypeOK ==
    /\ books \in {"open", "closing", "closed"}
    /\ main \in {"idle", "first", "running"}
    /\ cancelling \in BOOLEAN /\ stopped \in BOOLEAN /\ closed \in BOOLEAN
    /\ queue \subseteq Id
    /\ pause \in 0..MaxPause
    /\ retries \in [Id -> 0..MaxRetries]
    /\ pc \in [Worker -> {"out", "look", "asleep", "asking", "saving"}]
    /\ hand \in [Worker -> Id \cup {NoId}]
    /\ read \subseteq Id
    /\ chain \in Seq(Saves)
    /\ disk.extract \subseteq Id /\ disk.suggest \in OtherLists \cup {{}}
    /\ owed \subseteq Id
    /\ other \in OtherLists \cup {{}}

-----------------------------------------------------------------------------

IsOpen == books # "closed"
InFlight == { hand[w] : w \in { v \in Worker : pc[v] = "asking" } }

\* savePending: one more save at the end of the chain.
Save(who, kind, ids) ==
    [who |-> who, kind |-> kind, ids |-> ids, now |-> NotLoaded]

\* The end of runQueue, in the order its `how` is decided.  onEnd keeps what a
\* closed or stopped run has left, and clears the list otherwise.
EndsClosed == closed \/ ~IsOpen
EndsCancelled == ~EndsClosed /\ ~stopped /\ cancelling

EndRun(rest, saves) ==
    /\ main' = "idle"
    /\ cancelling' = FALSE
    /\ chain' = Append(saves, Save("end", "extract",
                                   IF EndsClosed \/ stopped THEN rest ELSE {}))
    /\ owed' = IF EndsCancelled THEN {} ELSE owed

-----------------------------------------------------------------------------
(* The run.                                                                *)

\* runQueue up to its first await: all that waits is queued, and saved.
\* "Alle neuen auslesen" lists what is not read, "weitermachen" what was kept.
\* (Mutant: also while a run is going.)
StartBeside(ids) ==
    /\ books = "open" /\ runs < MaxRuns /\ ids # {}
    /\ main' = "first"
    /\ cancelling' = FALSE /\ stopped' = FALSE /\ closed' = FALSE
    /\ queue' = ids /\ pause' = 0 /\ retries' = [i \in Id |-> 0]
    /\ chain' = Append(chain, Save("run", "extract", ids))
    /\ runs' = runs + 1
    /\ UNCHANGED <<books, pc, hand, read, kept, owed, others, reloads>>
Start(ids) ==
    /\ main = "idle" /\ books = "open" /\ runs < MaxRuns /\ ids # {}
    /\ main' = "first"
    /\ cancelling' = FALSE /\ stopped' = FALSE /\ closed' = FALSE
    /\ queue' = ids /\ pause' = 0 /\ retries' = [i \in Id |-> 0]
    /\ chain' = Append(chain, Save("run", "extract", ids))
    /\ runs' = runs + 1
    /\ UNCHANGED <<books, pc, hand, read, kept, owed, others, reloads>>

\* "Abbrechen".
Cancel ==
    /\ main # "idle" /\ ~cancelling
    /\ cancelling' = TRUE
    /\ UNCHANGED <<books, main, stopped, closed, queue, pause, retries, pc,
                   hand, read, chain, kept, owed, runs, others, reloads>>

\* A worker takes the next id, if there is one.
Take(w) ==
    \E id \in IF queue = {} THEN {NoId} ELSE queue :
       /\ queue' = queue \ {id}
       /\ hand' = [hand EXCEPT ![w] = id]
       /\ pc' = [pc EXCEPT ![w] = "asking"]

\* The head of a worker's loop.
Look(w) ==
    /\ pc[w] = "look"
    /\ IF queue = {} \/ cancelling \/ stopped \/ ~IsOpen
         THEN /\ pc' = [pc EXCEPT ![w] = "out"]
              /\ closed' = (closed \/ (queue # {} /\ ~cancelling /\ ~stopped
                                         /\ ~IsOpen))
              /\ UNCHANGED <<queue, hand>>
         ELSE /\ UNCHANGED closed
              /\ IF pause # 0
                   THEN /\ pc' = [pc EXCEPT ![w] = "asleep"]
                        /\ UNCHANGED <<queue, hand>>
                   ELSE Take(w)
    /\ UNCHANGED <<books, main, cancelling, stopped, pause, retries, read,
                   chain, kept, owed, runs, others, reloads>>

\* The pause is over: the next id is taken, whatever happened meanwhile.
Wake(w) ==
    /\ pc[w] = "asleep"
    /\ Take(w)
    /\ UNCHANGED <<flags, pause, retries, read, chain, kept, owed>>

\* What is left once w's id is out of its hand.
LeftAfter(w, q) ==
    q \cup { hand[v] : v \in { u \in Worker \ {w} : pc[u] = "asking" } }

\* What onProgress is told.  (Mutant: only the queue, not what others have.)
LeftInQueue(w, q) == q
Left(w, q) == LeftAfter(w, q)

\* The worker's id is dealt with: onProgress saves what is left.
Progress(w, q) ==
    /\ queue' = q
    /\ hand' = [hand EXCEPT ![w] = NoId]
    /\ pc' = [pc EXCEPT ![w] = "saving"]
    /\ chain' = Append(chain, Save(w, "extract", Left(w, q)))

\* The pause halves and doubles.  (Mutant: without an upper bound.)
LongerUncapped(p) == p + 1
Shorter(p) == IF p = 0 THEN 0 ELSE p - 1
Longer(p) == IF p = MaxPause THEN p ELSE p + 1

\* handle resolves: the receipt was read, or there was nothing to do for it.
Handled(w) ==
    /\ pc[w] = "asking"
    /\ books # "closing" \/ hand[w] \in read \cup {NoId}
    /\ Progress(w, queue)
    /\ read' = IF books = "open" THEN read \cup ({hand[w]} \ {NoId}) ELSE read
    /\ owed' = IF books = "open" THEN owed \ {hand[w]} ELSE owed
    /\ pause' = Shorter(pause)
    /\ UNCHANGED <<flags, retries, kept>>

\* handle rejects with the provider's or the bridge's refusal.
Refused(w) ==
    /\ pc[w] = "asking" /\ hand[w] \in Id \ read
    /\ Progress(w, queue \cup {hand[w]})
    /\ stopped' = TRUE
    /\ UNCHANGED <<books, main, cancelling, closed, pause, retries, read, kept,
                   owed, runs, others, reloads>>

\* handle rejects with a rate limit: the id goes back, or has failed.
\* (Mutant: the id is put back without being counted.)
LimitedForever(w) ==
    /\ pc[w] = "asking" /\ hand[w] \in Id \ read
    /\ Progress(w, queue \cup {hand[w]})
    /\ pause' = Longer(pause)
    /\ UNCHANGED <<flags, retries, read, kept, owed>>
Limited(w) ==
    LET id == hand[w]
    IN  /\ pc[w] = "asking" /\ id \in Id \ read
        /\ IF retries[id] < MaxRetries
             THEN /\ retries' = [retries EXCEPT ![id] = @ + 1]
                  /\ pause' = Longer(pause)
                  /\ Progress(w, queue \cup {id})
                  /\ UNCHANGED owed
             ELSE /\ Progress(w, queue)
                  /\ owed' = owed \ {id}
                  /\ UNCHANGED <<retries, pause>>
        /\ UNCHANGED <<flags, read, kept>>

\* handle rejects with anything else: this id has failed.
Failed(w) ==
    /\ pc[w] = "asking" /\ hand[w] \in Id \ read
    /\ Progress(w, queue)
    /\ owed' = owed \ {hand[w]}
    /\ UNCHANGED <<flags, pause, retries, read, kept>>

\* Every worker has returned: Promise.all resolves, and runQueue's own variables
\* are gone with it.
AllOut ==
    /\ main = "running" /\ \A w \in Worker : pc[w] = "out"
    /\ EndRun(queue, chain)
    /\ queue' = {} /\ pause' = 0 /\ retries' = [i \in Id |-> 0]
    /\ closed' = FALSE
    /\ UNCHANGED <<books, stopped, pc, hand, read, kept, runs, others, reloads>>

-----------------------------------------------------------------------------
(* The saves.                                                              *)

\* The saves that may run: each waits for the one before it.  (Mutant: none
\* waits.)
NoChain == DOMAIN chain
Runnable == IF chain = <<>> THEN {} ELSE {1}

Dropped(i) ==
    [j \in 1..Len(chain) - 1 |-> IF j < i THEN chain[j] ELSE chain[j + 1]]

\* loadPending; the ids it keeps are the strings.
SaveLoads(i) ==
    /\ i \in Runnable /\ chain[i].now = NotLoaded
    /\ chain' = [chain EXCEPT ![i].now = disk]
    /\ UNCHANGED <<flags, queue, pause, retries, pc, hand, read, kept, owed>>

\* What the save's promise brings about when it resolves.
Resolve(who) ==
    /\ main' = IF who = "run" THEN "running" ELSE main
    /\ pc' = IF who = "run" THEN [w \in Worker |-> "look"]
             ELSE IF who \in Worker THEN [pc EXCEPT ![who] = "look"] ELSE pc
    /\ owed' = IF who = "run" THEN queue ELSE owed

\* The list is the one kept already: nothing is written.  (With more ids than
\* one it is the same list only if their order is.)
Same(i) == chain[i].now[chain[i].kind] = chain[i].ids

\* setSetting: the list it loaded with its own kind replaced.
SaveDone(i) ==
    /\ i \in Runnable /\ chain[i].now # NotLoaded
    /\ books = "open" \/ Same(i)
    /\ disk' =
          IF Same(i) THEN disk
          ELSE [chain[i].now EXCEPT ![chain[i].kind] = chain[i].ids \ {NoId}]
    /\ other' = IF chain[i].kind = "suggest" THEN chain[i].ids ELSE other
    /\ Resolve(chain[i].who)
    /\ chain' = Dropped(i)
    /\ UNCHANGED <<books, cancelling, stopped, closed, queue, pause, retries,
                   hand, read, runs, others, reloads>>

\* The books' databases are closed: the write rejects, and with a worker's save
\* or the first one the run ends, while the other workers go on.
SaveFails(i) ==
    LET who == chain[i].who
    IN  /\ i \in Runnable /\ chain[i].now # NotLoaded /\ books # "open"
        /\ Same(i) => Cardinality(chain[i].ids) > 1
        /\ pc' = IF who \in Worker THEN [pc EXCEPT ![who] = "out"] ELSE pc
        /\ IF who \in Worker \cup {"run"} /\ main # "idle"
             THEN EndRun(queue \cup InFlight, Dropped(i))
             ELSE chain' = Dropped(i) /\ UNCHANGED <<main, cancelling, owed>>
        /\ UNCHANGED <<books, stopped, closed, queue, pause, retries, hand,
                       read, kept, runs, others, reloads>>

\* The other kind's run keeps what it has left.
OtherSaves(ids) ==
    /\ books = "open" /\ others < MaxOthers
    /\ chain' = Append(chain, Save("other", "suggest", ids))
    /\ others' = others + 1
    /\ UNCHANGED <<books, main, cancelling, stopped, closed, queue, pause,
                   retries, pc, hand, read, kept, owed, runs, reloads>>

\* "Verwerfen": what a run left is forgotten.
Discard ==
    /\ main = "idle" /\ books = "open" /\ owed # {}
    /\ chain' = Append(chain, Save("other", "extract", {}))
    /\ owed' = {}
    /\ UNCHANGED <<flags, queue, pause, retries, pc, hand, read, kept>>

-----------------------------------------------------------------------------
(* The books.                                                              *)

\* session.stop: the databases are closed, then the session is gone.
Lock ==
    /\ books # "closed" /\ reloads < MaxReloads
    /\ books' = IF books = "open" THEN "closing" ELSE "closed"
    /\ UNCHANGED <<main, cancelling, stopped, closed, queue, pause, retries, pc,
                   hand, read, chain, kept, owed, runs, others, reloads>>

\* The page is reloaded, or crashes, and unlocked again.
Reload ==
    /\ reloads < MaxReloads
    /\ reloads' = reloads + 1
    /\ books' = "open" /\ main' = "idle"
    /\ cancelling' = FALSE /\ stopped' = FALSE /\ closed' = FALSE
    /\ queue' = {} /\ pause' = 0 /\ retries' = [i \in Id |-> 0]
    /\ pc' = [w \in Worker |-> "out"] /\ hand' = [w \in Worker |-> NoId]
    /\ chain' = <<>>
    /\ UNCHANGED <<read, kept, owed, runs, others>>

-----------------------------------------------------------------------------

Init ==
    /\ books = "open" /\ main = "idle"
    /\ cancelling = FALSE /\ stopped = FALSE /\ closed = FALSE
    /\ queue = {} /\ pause = 0 /\ retries = [i \in Id |-> 0]
    /\ pc = [w \in Worker |-> "out"] /\ hand = [w \in Worker |-> NoId]
    /\ read = {} /\ chain = <<>> /\ owed = {} /\ other = {}
    /\ disk = [extract |-> {}, suggest |-> {}]
    /\ runs = 0 /\ others = 0 /\ reloads = 0

Step(w) ==
    \/ Look(w) \/ Wake(w)
    \/ Handled(w) \/ Refused(w) \/ Limited(w) \/ Failed(w)

SaveStep == \E i \in DOMAIN chain : SaveLoads(i) \/ SaveDone(i) \/ SaveFails(i)

Next ==
    \/ \E ids \in {Id \ read, disk.extract} : Start(ids)
    \/ Cancel \/ AllOut
    \/ \E w \in Worker : Step(w)
    \/ SaveStep
    \/ \E ids \in OtherLists : OtherSaves(ids)
    \/ Discard \/ Lock \/ Reload

Spec == Init /\ [][Next]_vars

\* A pause, a request (it has a timeout) and a save end.
FairSpec ==
    /\ Spec
    /\ \A w \in Worker : WF_vars(Step(w))
    /\ WF_vars(SaveStep) /\ WF_vars(AllOut)

-----------------------------------------------------------------------------
(* Properties.                                                             *)

\* What was asked for and neither done nor cancelled is in the books, so that
\* "weitermachen" offers it after a crash at any moment: a reload in a request,
\* in a save, after a refusal or while the books close loses no id.
OwedIsKept == owed \subseteq disk.extract

\* The saves of the two kinds of run never undo each other.
OtherKept == disk.suggest = other

\* No receipt is sent twice at once: an id is in one hand, or in the queue.
InOnePlace ==
    \A w \in Worker : hand[w] # NoId =>
       /\ hand[w] \notin queue
       /\ \A v \in Worker \ {w} : hand[v] # hand[w]

\* A run comes to its end, whatever the provider answers.
RunEnds == main # "idle" ~> main = "idle"

\* "Abbrechen" and locking the books stop the workers after the id in hand
\* (jobs/queue.js): no worker takes another id after that.
StopsAfterTheIdInHand ==
    [][ \A w \in Worker : pc[w] # "asking" /\ pc'[w] = "asking" =>
           ~cancelling /\ IsOpen ]_vars
=============================================================================
