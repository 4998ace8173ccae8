------------------------------- MODULE Matching -------------------------------
(***************************************************************************)
(* Links between receipts and bookings on several own devices              *)
(* (app/src/lib/matching/): the automatic run of each device (engine.js),  *)
(* what a person decides meanwhile (actions.js), the field `receiptId` of  *)
(* a booking that follows the links (syncLinks), and replication.          *)
(*                                                                         *)
(* A run reads the books once and writes for a while; every awaited write  *)
(* is a step.  put merges what it is given over what is stored by then     *)
(* (repository.js).  Replication merges each collection record by record:  *)
(* the later clock wins, then the writer (external).                       *)
(*                                                                         *)
(* Scores are constants.  Questions, partners and events, the status of    *)
(* receipts (kept like `receiptId`), instalments and what else covers a    *)
(* booking are left out.  LinksInit, LinksNext and so on carry the name so *)
(* that a module can extend this one beside another.                       *)
(***************************************************************************)
EXTENDS Naturals, FiniteSets, SequencesExt

CONSTANTS
    Device, Receipt, Tx,   \* numbers: ids are ordered
    Score,      \* the score of a receipt with a booking (score.js)
    Sure, Lead, \* a pair is taken from here on, this far ahead of a rival
    Late,       \* bookings that only the first device has at the beginning
    Followed,   \* the bookings whose `receiptId` is modelled
    Person,     \* the devices that a person is at
    ConfirmsSure, \* whether a person confirms what a run links by itself
    MaxMatch,   \* bound on the links ever made
    MaxDecision, \* bound on a person's decisions
    MaxEarly    \* bound on how often bookings come before the links do

ASSUME MatchingAssumption ==
    /\ Device \subseteq Nat /\ Receipt \subseteq Nat /\ Tx \subseteq Nat
    /\ Late \subseteq Tx /\ Followed \subseteq Tx
    /\ Person \subseteq Device
    /\ ConfirmsSure \in BOOLEAN
    /\ Score \in [Receipt \X Tx -> Nat]
    /\ {Sure, Lead, MaxMatch, MaxDecision, MaxEarly} \subseteq Nat

Pair == Receipt \X Tx
MatchId == 1..MaxMatch    \* ULIDs: in the order in which they were made
None == 0
State == {"auto", "confirmed", "rejected"}
Thread == {"run", "person"}

VARIABLES
    matches,  \* per device, the collection `matches`
    txs,      \* per device, the collection `transactions`
    run,      \* per device, what the run that is going has left to write
    toWrite,  \* per device and thread, what its syncLinks has left to write
    due,      \* per device, whether a run is called for
    decision, \* per device, what a person's decision has left to write
    nextId, decisions, early, \* counted against their bounds
    linked,   \* every pair ever linked, and
    undone    \* every pair a person ever undid, for the properties

linksVars == <<matches, txs, run, toWrite, due, decision, nextId, decisions,
               early, linked, undone>>
books == <<matches, txs>>
history == <<nextId, decisions, early, linked, undone>>

NoRecord == [at |-> 0]
There(x) == x.at # 0

NoRun == [going |-> FALSE, extra |-> {}, pairs |-> {}]
Undecided == [going |-> FALSE, reject |-> {}, confirm |-> {}, look |-> {},
              put |-> {}]

Match(p, state) == [r |-> p[1], t |-> p[2], state |-> state,
                    deleted |-> FALSE, at |-> 1, by |-> 0]
Booking == [link |-> None, noReceipt |-> FALSE, deleted |-> FALSE,
            at |-> 1, by |-> 0]

LinksInit ==
    /\ matches = [d \in Device |-> [i \in MatchId |-> NoRecord]]
    /\ txs = [d \in Device |-> [t \in Tx |->
                IF t \in Late /\ \E e \in Device : e < d THEN NoRecord
                ELSE Booking]]
    /\ run = [d \in Device |-> NoRun]
    /\ toWrite = [d \in Device |-> [w \in Thread |-> {}]]
    /\ due = [d \in Device |-> TRUE]
    /\ decision = [d \in Device |-> Undecided]
    /\ nextId = 1 /\ decisions = 0 /\ early = 0
    /\ linked = {} /\ undone = {}

-----------------------------------------------------------------------------
(* Records: `put` stamps with a clock after all the device has seen of the  *)
(* record, and where two devices wrote, the later clock wins.  (The clock  *)
(* of the log also counts writes to other records; left out.)              *)

Wins(x, y) == x.at > y.at \/ (x.at = y.at /\ There(x) /\ x.by > y.by)
Merge(x, y) == IF Wins(x, y) THEN x ELSE y

PairOf(m) == <<m.r, m.t>>
Live(m) == There(m) /\ ~m.deleted
IsActive(m) == Live(m) /\ m.state # "rejected"
Active(coll) == { i \in MatchId : IsActive(coll[i]) }

One(i, record) == [j \in {i} |-> record]

\* The collection with the records in DOMAIN new put as given.
PutRecords(coll, d, new) ==
    [i \in DOMAIN coll |->
        IF i \in DOMAIN new
        THEN [new[i] EXCEPT !.at = coll[i].at + 1, !.by = d] ELSE coll[i]]

-----------------------------------------------------------------------------
(* syncLinks, at the end of a run and of a person's decision.              *)

ReceiptOf(coll, t) ==
    LET links == { i \in Active(coll) : coll[i].t = t }
    IN IF links = {} THEN None ELSE coll[Min(links)].r

\* (Mutant: a booking without a link keeps the receipt it names.)
LinksOnlySet(coll, bookings) ==
    LET Of(t) == ReceiptOf(coll, t)
    IN { [t |-> t, tx |-> [bookings[t] EXCEPT !.link = Of(t)]] :
           t \in { x \in Followed : /\ Live(bookings[x]) /\ Of(x) # None
                                    /\ bookings[x].link # Of(x) } }

\* It reads the links and the bookings once: the bookings to write, each as
\* it was read.
LinksOf(coll, bookings) ==
    LET Of(t) == ReceiptOf(coll, t)
    IN { [t |-> t, tx |-> [bookings[t] EXCEPT !.link = Of(t)]] :
           t \in { x \in Followed : /\ Live(bookings[x])
                                    /\ bookings[x].link # Of(x) } }

WriteLink(d, w) ==
    /\ \E write \in toWrite[d][w] :
        /\ txs' = [txs EXCEPT ![d] = PutRecords(@, d, One(write.t, write.tx))]
        /\ toWrite' = [toWrite EXCEPT ![d][w] = @ \ {write}]
    /\ UNCHANGED <<matches, run, due, decision, history>>

-----------------------------------------------------------------------------
(* A run (runMatching): what it reads and what it then means to write.     *)

\* A confirmed link before an automatic one, then the oldest id.
Before(coll, j, i) ==
    LET Rank(k) == IF coll[k].state = "confirmed" THEN 0 ELSE 1
    IN Rank(j) < Rank(i) \/ (Rank(j) = Rank(i) /\ j < i)

\* (Mutant: a booking that is not here counts as gone.)
NotHere(coll, bookings) ==
    { i \in Active(coll) : ~Live(bookings[coll[i].t]) }

\* Links of a booking that is known to be gone - not of one that is not here.
Gone(coll, bookings) ==
    { i \in Active(coll) : LET tx == bookings[coll[i].t]
                           IN There(tx) /\ tx.deleted }

Twice(coll, ids) ==
    { i \in ids : \E j \in ids : /\ PairOf(coll[j]) = PairOf(coll[i])
                                 /\ j # i /\ Before(coll, j, i) }

Open(coll, bookings, active) ==
    { p \in Pair :
        /\ Live(bookings[p[2]]) /\ ~bookings[p[2]].noReceipt
        /\ \A i \in active : coll[i].r # p[1] /\ coll[i].t # p[2]
        /\ \A i \in MatchId : Live(coll[i]) /\ coll[i].state = "rejected"
                              => PairOf(coll[i]) # p
        /\ Score[p] > 0 }

\* The best score of a pair that shares one side with p and is still open.
Touches(p, q) == p[1] = q[1] \/ p[2] = q[2]
Rival(p, open, taken) ==
    LET rivals == { q \in open : /\ (q[1] = p[1]) # (q[2] = p[2])
                                 /\ \A x \in taken : ~Touches(x, q) }
    IN IF rivals = {} THEN 0 ELSE Max({ Score[q] : q \in rivals })

\* `assign`: the sure pairs, best first, each taking its receipt and its
\* booking out of the running (there is one such set of pairs).
Better(p, q) == \/ Score[p] > Score[q]
                \/ Score[p] = Score[q] /\ p[1] < q[1]
                \/ Score[p] = Score[q] /\ p[1] = q[1] /\ p[2] < q[2]
Assigned(open) ==
    LET sure == { p \in open : Score[p] >= Sure }
    IN { taken \in SUBSET sure :
           \A p \in sure :
              LET before == { x \in taken : Better(x, p) }
              IN p \in taken <=> /\ \A x \in before : ~Touches(x, p)
                                /\ Score[p] >= Rival(p, open, before) + Lead }

\* A run begins, when entries came by sync or the books were unlocked; one
\* with nothing to write goes on to its syncLinks.
StartRun(d) ==
    /\ due[d] /\ run[d] = NoRun /\ toWrite[d]["run"] = {}
    /\ due' = [due EXCEPT ![d] = FALSE]
    /\ LET coll == matches[d]
           gone == Gone(coll, txs[d])
           twice == Twice(coll, Active(coll) \ gone)
           active == Active(coll) \ (gone \cup twice)
       IN \E pairs \in Assigned(Open(coll, txs[d], active)) :
             IF gone \cup twice \cup pairs = {}
             THEN /\ toWrite' = [toWrite EXCEPT ![d]["run"] =
                                    LinksOf(coll, txs[d])]
                  /\ UNCHANGED run
             ELSE /\ run' = [run EXCEPT ![d] =
                       [going |-> TRUE, extra |-> gone \cup twice,
                        pairs |-> pairs]]
                  /\ UNCHANGED toWrite
    /\ UNCHANGED <<books, decision, history>>

\* softDelete of one of them, as it is by now.
Clean(d) ==
    /\ \E i \in run[d].extra :
        /\ matches' = [matches EXCEPT ![d] =
              PutRecords(@, d, One(i, [@[i] EXCEPT !.deleted = TRUE]))]
        /\ run' = [run EXCEPT ![d].extra = @ \ {i}]
    /\ UNCHANGED <<txs, toWrite, due, decision, history>>

\* (Mutant: the next link made gets the same id.)
LinkSameId(d) ==
    /\ run[d].extra = {} /\ nextId <= MaxMatch
    /\ \E p \in run[d].pairs :
        /\ matches' = [matches EXCEPT ![d] =
              PutRecords(@, d, One(nextId, Match(p, "auto")))]
        /\ run' = [run EXCEPT ![d].pairs = @ \ {p}]
        /\ linked' = linked \cup {p}
    /\ UNCHANGED <<txs, toWrite, due, decision, nextId, decisions, early,
                   undone>>

Link(d) ==
    /\ run[d].extra = {} /\ nextId <= MaxMatch
    /\ \E p \in run[d].pairs :
        /\ matches' = [matches EXCEPT ![d] =
              PutRecords(@, d, One(nextId, Match(p, "auto")))]
        /\ run' = [run EXCEPT ![d].pairs = @ \ {p}]
        /\ linked' = linked \cup {p}
    /\ nextId' = nextId + 1
    /\ UNCHANGED <<txs, toWrite, due, decision, decisions, early, undone>>

EndRun(d) ==
    /\ run[d].going /\ run[d].extra = {} /\ run[d].pairs = {}
    /\ run' = [run EXCEPT ![d] = NoRun]
    /\ toWrite' = [toWrite EXCEPT ![d]["run"] = LinksOf(matches[d], txs[d])]
    /\ UNCHANGED <<books, due, decision, history>>

-----------------------------------------------------------------------------
(* A person's decisions (actions.js): each reads what it will change, puts  *)
(* one record after the other, each as it was read, and ends with its      *)
(* syncLinks.                                                              *)

Decide(d, writes) ==
    /\ d \in Person /\ ~decision[d].going /\ toWrite[d]["person"] = {}
    /\ decisions < MaxDecision /\ decisions' = decisions + 1
    /\ decision' = [decision EXCEPT ![d] = writes]
    /\ UNCHANGED <<books, run, toWrite, due, nextId, early, linked, undone>>

Rejecting(coll, ids) ==
    { [i |-> i, m |-> [coll[i] EXCEPT !.state = "rejected"]] : i \in ids }

\* confirmMatch: the receipt's other links are rejected, the newest record of
\* the pair confirmed, or a new one made, and the booking looked at.
Confirm(d, p) ==
    LET coll == matches[d]
        same == { i \in MatchId : Live(coll[i]) /\ PairOf(coll[i]) = p }
        others == { i \in Active(coll) : coll[i].r = p[1] /\ coll[i].t # p[2] }
        found == IF same = {} THEN [i |-> None, m |-> Match(p, "confirmed")]
                 ELSE [i |-> Max(same),
                       m |-> [coll[Max(same)] EXCEPT !.state = "confirmed"]]
    IN /\ Live(txs[d][p[2]])
       /\ ConfirmsSure \/ Score[p] < Sure
       /\ Decide(d, [going |-> TRUE, reject |-> Rejecting(coll, others),
                     confirm |-> {found}, look |-> {p[2]}, put |-> {}])

\* unlinkMatch: "Zuordnung lösen".
Unlink(d, i) ==
    /\ IsActive(matches[d][i])
    /\ Decide(d, [going |-> TRUE, reject |-> Rejecting(matches[d], {i}),
                  confirm |-> {}, look |-> {}, put |-> {}])

\* setNoReceipt: "Kein Beleg nötig".
NoReceipt(d, t) ==
    LET links == { i \in Active(matches[d]) : matches[d][i].t = t }
        tx == [txs[d][t] EXCEPT !.noReceipt = TRUE]
    IN /\ Live(txs[d][t]) /\ ~txs[d][t].noReceipt
       /\ Decide(d, [going |-> TRUE, reject |-> Rejecting(matches[d], links),
                     confirm |-> {}, look |-> {},
                     put |-> {[t |-> t, tx |-> tx]}])

Reject(d) ==
    /\ \E w \in decision[d].reject :
        /\ matches' = [matches EXCEPT ![d] = PutRecords(@, d, One(w.i, w.m))]
        /\ decision' = [decision EXCEPT ![d].reject = @ \ {w}]
        /\ undone' = undone \cup {PairOf(w.m)}
    /\ UNCHANGED <<txs, run, toWrite, due, nextId, decisions, early, linked>>

PutConfirmed(d) ==
    /\ decision[d].reject = {}
    /\ \E w \in decision[d].confirm :
        LET i == IF w.i = None THEN nextId ELSE w.i
        IN /\ i <= MaxMatch
           /\ matches' = [matches EXCEPT ![d] = PutRecords(@, d, One(i, w.m))]
           /\ nextId' = IF w.i = None THEN nextId + 1 ELSE nextId
           /\ linked' = linked \cup {PairOf(w.m)}
    /\ decision' = [decision EXCEPT ![d].confirm = {}]
    /\ UNCHANGED <<txs, run, toWrite, due, decisions, early, undone>>

\* The booking of a confirmed link needs a receipt again.
LookAtBooking(d) ==
    /\ decision[d].reject = {} /\ decision[d].confirm = {}
    /\ \E t \in decision[d].look :
        decision' = [decision EXCEPT ![d].look = {}, ![d].put =
           IF There(txs[d][t]) /\ txs[d][t].noReceipt
           THEN {[t |-> t, tx |-> [txs[d][t] EXCEPT !.noReceipt = FALSE]]}
           ELSE {}]
    /\ UNCHANGED <<books, run, toWrite, due, history>>

PutBooking(d) ==
    /\ decision[d].reject = {}
    /\ \E w \in decision[d].put :
        txs' = [txs EXCEPT ![d] = PutRecords(@, d, One(w.t, w.tx))]
    /\ decision' = [decision EXCEPT ![d].put = {}]
    /\ UNCHANGED <<matches, run, toWrite, due, history>>

EndDecision(d) ==
    /\ decision[d] = [Undecided EXCEPT !.going = TRUE]
    /\ decision' = [decision EXCEPT ![d] = Undecided]
    /\ toWrite' = [toWrite EXCEPT ![d]["person"] = LinksOf(matches[d], txs[d])]
    /\ UNCHANGED <<books, run, due, history>>

-----------------------------------------------------------------------------
(* Replication between own devices.  What comes calls for a run.           *)

MergeAll(mine, theirs) == [i \in DOMAIN mine |-> Merge(mine[i], theirs[i])]

SyncMatches(d, e) ==
    /\ d # e /\ MergeAll(matches[d], matches[e]) # matches[d]
    /\ matches' = [matches EXCEPT ![d] = MergeAll(@, matches[e])]
    /\ due' = [due EXCEPT ![d] = TRUE]
    /\ UNCHANGED <<txs, run, toWrite, decision, history>>

SyncTxs(d, e) ==
    /\ d # e /\ MergeAll(txs[d], txs[e]) # txs[d]
    /\ IF MergeAll(matches[d], matches[e]) = matches[d] THEN UNCHANGED early
       ELSE early < MaxEarly /\ early' = early + 1
    /\ txs' = [txs EXCEPT ![d] = MergeAll(@, txs[e])]
    /\ due' = [due EXCEPT ![d] = TRUE]
    /\ UNCHANGED <<matches, run, toWrite, decision, nextId, decisions, linked,
                   undone>>

RunStep(d) ==
    Clean(d) \/ Link(d) \/ EndRun(d)
LinksStep(d) == \E w \in Thread : WriteLink(d, w)
DecisionStep(d) ==
    \/ Reject(d) \/ PutConfirmed(d) \/ LookAtBooking(d) \/ PutBooking(d)
    \/ EndDecision(d)

Progress ==
    \/ \E d \in Device : \/ DecisionStep(d) \/ LinksStep(d) \/ RunStep(d)
                          \/ StartRun(d)
    \/ \E d, e \in Device : SyncMatches(d, e) \/ SyncTxs(d, e)

LinksNext ==
    \/ Progress
    \/ \E d \in Device, p \in Pair : Confirm(d, p)
    \/ \E d \in Device, i \in MatchId : Unlink(d, i)
    \/ \E d \in Device, t \in Tx : NoReceipt(d, t)

LinksSpec == LinksInit /\ [][LinksNext]_linksVars

\* A run goes on to its end and is started when it is called for (a timer), a
\* decision goes on to its end, and devices that are connected bring each
\* other everything.  That one of these goes on while any can is enough: each
\* comes to an end.
LinksFairness == WF_linksVars(Progress)

LinksFairSpec == LinksSpec /\ LinksFairness

-----------------------------------------------------------------------------
(* Properties.                                                             *)

MatchRecord == [r : Receipt, t : Tx, state : State, deleted : BOOLEAN,
                at : Nat, by : Nat]
TxRecord == [link : Receipt \cup {None}, noReceipt : BOOLEAN,
             deleted : BOOLEAN, at : Nat, by : Nat]

\* Records are complete; one record is of one pair on every device.
LinksTypeOK ==
    /\ \A d \in Device, i \in MatchId :
        /\ matches[d][i] = NoRecord \/ matches[d][i] \in MatchRecord
        /\ There(matches[d][i]) => i < nextId
    /\ \A d, e \in Device, i \in MatchId :
        There(matches[d][i]) /\ There(matches[e][i])
            => PairOf(matches[d][i]) = PairOf(matches[e][i])
    /\ \A d \in Device, t \in Tx :
        txs[d][t] = NoRecord \/ txs[d][t] \in TxRecord

\* The record all devices will come to have, if nothing more is written.
NewestRecord(i) == LET d == CHOOSE d \in Device :
                         \A e \in Device : ~Wins(matches[e][i], matches[d][i])
             IN matches[d][i]

\* A pair that was linked and that no person undid stays linked: where two
\* devices linked it, one of the links stays, whatever either deletes before
\* it sees what the other did; and a link whose booking is not here yet is
\* left alone (engine.js, runMatching).
LastLinkStays ==
    \A p \in linked \ undone :
        \E i \in MatchId :
            IsActive(NewestRecord(i)) /\ PairOf(NewestRecord(i)) = p

\* When people and runs come to rest, all devices have the same links and
\* bookings, every pair is linked once, and every booking names the receipt
\* of its oldest link.
Agreed ==
    \A d, e \in Device :
        /\ matches[d] = matches[e] /\ txs[d] = txs[e]
        /\ \A i, j \in Active(matches[d]) :
              PairOf(matches[d][i]) = PairOf(matches[d][j]) => i = j
        /\ \A t \in Followed : Live(txs[d][t])
              => txs[d][t].link = ReceiptOf(matches[d], t)

AgreeInTheEnd == <>[]Agreed
=============================================================================
