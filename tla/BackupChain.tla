----------------------------- MODULE BackupChain -----------------------------
(***************************************************************************)
(* The chain of backups: a full backup and the increments that go on from  *)
(* it (app/src/lib/backup/).  Own devices share the books and, in the      *)
(* sealed settings, where the chain stands (chain.js); each device packs   *)
(* what the chain has not got (archive.js), uploads it, has Aleph keep it  *)
(* (keeper.js) and moves the chain (run.svelte.js).  A device of           *)
(* Automatic also backs up by itself (auto.svelte.js).                     *)
(*                                                                         *)
(* The books are a set of entries; some name a receipt file.  The heads of *)
(* the logs stand for the entries they reach on the device that shipped    *)
(* them.  Aleph is external: what it was sent, and what it decided.        *)
(* The model begins after a first full backup of empty books.  Forgetting  *)
(* old chains, credits and the asking before a costly backup are left out. *)
(***************************************************************************)
EXTENDS Naturals, FiniteSets

CONSTANTS
    Device,       \* own devices, numbers: the last tie-breaker of the log
    Entry,        \* log entries of the books
    File,         \* the entries that name a receipt file
    Automatic,    \* devices with "Automatisch sichern"
    LateRefusals, \* whether Aleph may refuse after the device stopped asking
    MaxByHand,    \* bound on the backups made by hand
    MaxFailures,  \* bound on failed, lost, refused and crashed runs
    MaxTick       \* bound on the settings' clock between two saves

ASSUME BackupAssumption ==
    /\ Device \subseteq Nat /\ Automatic \subseteq Device
    /\ File \subseteq Entry /\ LateRefusals \in BOOLEAN
    /\ MaxByHand \in Nat /\ MaxFailures \in Nat /\ MaxTick \in Nat \ {0}

NoRef == 0   \* a STORE without `ref`, and no object: ids begin with 1

VARIABLES
    has,      \* the entries each device has
    blob,     \* the receipt files each device has
    chain,    \* the settings' record `backup/chain` on each device
    run,      \* the backup each device is making
    store,    \* what Aleph was sent: full backups and increments
    byHand, failures

vars == <<has, blob, chain, run, store, byHand, failures>>

Bases == { o.id : o \in { p \in store : p.kind = "full" } }

\* The chain of chain.js, with the clock of the settings' log and the writer.
Chain == [base : Nat, sequence : Nat, heads : SUBSET Entry,
          files : SUBSET File, at : Nat, by : Device]
Run == [phase : {"idle", "reading", "sent"}, full : BOOLEAN,
        continuing : Chain, had : SUBSET Entry, heads : SUBSET Entry,
        files : SUBSET File, held : SUBSET File, id : Nat]
Object == [id : Nat, kind : {"full", "increment"}, ref : Nat,
           sequence : Nat, entries : SUBSET Entry, files : SUBSET File,
           refused : BOOLEAN]

\* The chain goes on from a full backup Aleph was sent, never from an
\* increment; every upload has an id of its own.
TypeOK ==
    /\ has \in [Device -> SUBSET Entry]
    /\ blob \in [Device -> SUBSET File]
    /\ chain \in [Device -> Chain] /\ run \in [Device -> Run]
    /\ store \subseteq Object
    /\ \A d \in Device : chain[d].base \in Bases
    /\ \A o, p \in store : o.id = p.id => o = p

FirstChain == [base |-> 1, sequence |-> 0, heads |-> {}, files |-> {},
               at |-> 0, by |-> CHOOSE d \in Device : TRUE]

Idle == [phase |-> "idle", full |-> FALSE, continuing |-> FirstChain,
         had |-> {}, heads |-> {}, files |-> {}, held |-> {}, id |-> NoRef]

Init ==
    /\ has = [d \in Device |-> {}] /\ blob = [d \in Device |-> {}]
    /\ chain = [d \in Device |-> FirstChain]
    /\ run = [d \in Device |-> Idle]
    /\ store = {[id |-> 1, kind |-> "full", ref |-> NoRef, sequence |-> 0,
                 entries |-> {}, files |-> {}, refused |-> FALSE]}
    /\ byHand = 0 /\ failures = 0

-----------------------------------------------------------------------------
(* The books: writing, and what the devices bring each other.              *)

Write(d, x) ==
    /\ \A e \in Device : x \notin has[e]
    /\ has' = [has EXCEPT ![d] = @ \cup {x}]
    /\ blob' = [blob EXCEPT ![d] = @ \cup ({x} \cap File)]
    /\ UNCHANGED <<chain, run, store, byHand, failures>>

SyncEntry(d, e, x) ==
    /\ x \in has[e] \ has[d]
    /\ has' = [has EXCEPT ![d] = @ \cup {x}]
    /\ UNCHANGED <<blob, chain, run, store, byHand, failures>>

\* A receipt's file comes after the receipt.
SyncFile(d, e, f) ==
    /\ f \in (blob[e] \cap has[d]) \ blob[d]
    /\ blob' = [blob EXCEPT ![d] = @ \cup {f}]
    /\ UNCHANGED <<has, chain, run, store, byHand, failures>>

\* The later write wins: the greater clock, then the writer's identity.
Later(a, b) == a.at > b.at \/ (a.at = b.at /\ a.by > b.by)

SyncChain(d, e) ==
    /\ Later(chain[e], chain[d])
    /\ chain' = [chain EXCEPT ![d] = chain[e]]
    /\ UNCHANGED <<has, blob, run, store, byHand, failures>>

-----------------------------------------------------------------------------
(* Aleph.  It answers "pending" and decides later; until it refuses, a     *)
(* backup counts as kept, as in restore-flow.svelte.js.  The first full    *)
(* backup was taken for good before the model begins.                      *)

Kept(o) == ~o.refused

\* A run that still waits for Aleph's word on this object.
Awaited(o) == \E d \in Device : run[d].phase = "sent" /\ run[d].id = o.id

Refuse(o) ==
    /\ Kept(o) /\ o.id # 1 /\ failures < MaxFailures
    /\ LateRefusals \/ Awaited(o)
    /\ store' = (store \ {o}) \cup {[o EXCEPT !.refused = TRUE]}
    /\ failures' = failures + 1
    /\ UNCHANGED <<has, blob, chain, run, byHand>>

-----------------------------------------------------------------------------
(* A backup.                                                               *)

\* unsavedCollections: the heads are not the ones the chain last shipped.
\* (Mutant: saved once one of them was shipped.)
UnsavedAtAll(c, now) == now # {} /\ c.heads \cap now = {}
Unsaved(c, now) == c.heads # now

\* What is reachable from the chain's heads in this device's log: all of it,
\* or, when heads are missing here, what the ones it has lead to.
Reachable(c, now) ==
    IF c.heads \subseteq now THEN {c.heads} ELSE SUBSET (c.heads \cap now)

\* runBackup up to the first thing it reads: for an increment what the chain
\* shipped and the files it has not got; for a full backup the databases.
Begin(d, full, c) ==
    LET listed == (has[d] \cap File) \ c.files
        r == [Idle EXCEPT !.phase = "reading", !.full = full,
                          !.continuing = c] IN
    /\ run[d].phase = "idle"
    /\ IF full
       THEN run' = [run EXCEPT ![d] = [r EXCEPT !.heads = has[d]]]
       ELSE \E had \in Reachable(c, has[d]) :
              run' = [run EXCEPT ![d] =
                [r EXCEPT !.had = had, !.files = listed,
                          !.held = listed \cap blob[d]]]

\* "Jetzt sichern" and "Neues Vollbackup".
BackUp(d, full) ==
    /\ byHand < MaxByHand
    /\ Begin(d, full, chain[d])
    /\ byHand' = byHand + 1
    /\ UNCHANGED <<has, blob, chain, store, failures>>

\* backUpByItself: never a full backup, and only when something is not saved.
BackUpByItself(d) ==
    /\ d \in Automatic /\ Unsaved(chain[d], has[d])
    /\ Begin(d, FALSE, chain[d])
    /\ UNCHANGED <<has, blob, chain, store, byHand, failures>>

\* The rest of the packing: an increment's new entries are read after its
\* files, a full backup's files after its entries.  Nothing new: no backup.
NothingNew(r, now) == ~r.full /\ now \ r.had = {} /\ r.files = {}

NewEntries(r, now) == IF r.full THEN r.heads ELSE now \ r.had

\* The heads to move to.
HeadsAfter(r, now) ==
    IF r.full THEN r.heads
    ELSE IF now \ r.had = {} THEN r.continuing.heads ELSE now

\* The next number of the chain.
\* (Mutant: as many as Aleph was sent for this chain.)
NumberByCount(r) ==
    IF r.full THEN 0
    ELSE Cardinality({ o \in store : o.ref = r.continuing.base }) + 1
Number(r) == IF r.full THEN 0 ELSE r.continuing.sequence + 1

\* ... the upload, and the STORE sent for it, with the base as an increment's
\* `ref`; a bridge from before the increments leaves it out.
Send(d, ref) ==
    LET r == run[d]
        sent == [id |-> Cardinality(store) + 1,
                 kind |-> IF r.full THEN "full" ELSE "increment",
                 ref |-> ref, sequence |-> Number(r),
                 entries |-> NewEntries(r, has[d]),
                 files |-> IF r.full THEN has[d] \cap File \cap blob[d]
                           ELSE r.held,
                 refused |-> FALSE] IN
    /\ r.phase = "reading" /\ ~NothingNew(r, has[d])
    /\ ref = NoRef \/ (~r.full /\ ref = r.continuing.base)
    /\ ~r.full /\ ref = NoRef => failures < MaxFailures
    /\ run' = [run EXCEPT ![d].phase = "sent", ![d].id = sent.id,
                          ![d].had = {}, ![d].held = {},
                          ![d].heads = HeadsAfter(r, has[d]),
                          ![d].files = IF r.full THEN has[d] \cap File ELSE @]
    /\ store' = store \cup {sent}
    /\ failures' = failures + IF ~r.full /\ ref = NoRef THEN 1 ELSE 0
    /\ UNCHANGED <<has, blob, chain, byHand>>

\* makeIncrement gives null: the run ends.
EndEmpty(d) ==
    /\ run[d].phase = "reading" /\ NothingNew(run[d], has[d])
    /\ run' = [run EXCEPT ![d] = Idle]
    /\ UNCHANGED <<has, blob, chain, store, byHand, failures>>

\* The chain moves once Aleph has taken the backup, and found it by `ref`.
\* (Mutant: also when it refused.)
MovesOnRefusal(r, o) == r.full \/ o.ref = r.continuing.base
Moves(r, o) == Kept(o) /\ (r.full \/ o.ref = r.continuing.base)

\* chainFromBase and chainAfter, written over what the settings have now.
\* (Mutant: an increment is taken for the base of the next one.)
LastAsBase(r) == r.id
BaseAfter(r) == IF r.full THEN r.id ELSE r.continuing.base

NewChain(d, r, tick) ==
    [base |-> BaseAfter(r),
     sequence |-> Number(r),
     heads |-> r.heads,
     files |-> r.files \cup IF r.full THEN {} ELSE r.continuing.files,
     at |-> chain[d].at + tick, by |-> d]

\* settleKept gives Aleph's last word, or "pending" when it took too long;
\* the history's row is written, and the chain moves or does not.
Finish(d, o, tick) ==
    LET r == run[d] IN
    /\ r.phase = "sent" /\ o.id = r.id
    /\ IF Moves(r, o) THEN chain' = [chain EXCEPT ![d] = NewChain(d, r, tick)]
                      ELSE tick = 1 /\ UNCHANGED chain
    /\ run' = [run EXCEPT ![d] = Idle]
    /\ UNCHANGED <<has, blob, store, byHand, failures>>

\* The upload fails, the answer is lost, the tab is closed: the run ends
\* wherever it stands, and what reached Aleph stays there.
Fail(d) ==
    /\ run[d].phase # "idle" /\ failures < MaxFailures
    /\ run' = [run EXCEPT ![d] = Idle]
    /\ failures' = failures + 1
    /\ UNCHANGED <<has, blob, chain, store, byHand>>

-----------------------------------------------------------------------------

Books ==
    \/ \E d \in Device, x \in Entry : Write(d, x)
    \/ \E d, e \in Device :
         \/ \E x \in Entry : SyncEntry(d, e, x) \/ SyncFile(d, e, x)
         \/ SyncChain(d, e)

Backup(d) ==
    \/ BackUpByItself(d) \/ EndEmpty(d)
    \/ Send(d, IF run[d].full THEN NoRef ELSE run[d].continuing.base)
    \/ \E o \in store, tick \in 1..MaxTick : Finish(d, o, tick)

Next ==
    \/ Books
    \/ \E d \in Device : \/ Backup(d) \/ Fail(d) \/ Send(d, NoRef)
                         \/ \E full \in BOOLEAN : BackUp(d, full)
    \/ \E o \in store : Refuse(o)

Spec == Init /\ [][Next]_vars

\* A device that backs up by itself does each next step, as it is awaited.
FairSpec ==
    /\ Spec
    /\ \A d \in Automatic : WF_vars(Backup(d))

-----------------------------------------------------------------------------
(* What a restore of a full backup and its increments brings back.         *)

Increments(b) == { o \in store : o.ref = b /\ Kept(o) }
Parts(b) == { o \in store : o.id = b /\ Kept(o) } \cup Increments(b)
Restored(b) == UNION { o.entries : o \in Parts(b) }
RestoredFiles(b) == UNION { o.files : o \in Parts(b) }

\* What the chain says was shipped, a restore of it brings back: nothing the
\* chain counts as shipped was refused, lost or left out on the way, whichever
\* device shipped it and whichever write of the chain won.
ShippedIsKept ==
    \A d \in Device : chain[d].heads \subseteq Restored(chain[d].base)

\* The increments a restore finds by their `ref` have no hole: it would refuse
\* the whole chain (ChainGapError).
NoHole ==
    \A b \in Bases : LET numbers == { o.sequence : o \in Increments(b) } IN
        \A n \in numbers : \A m \in 1..n : m \in numbers

\* In the end, what a device that backs up by itself has, a restore of the
\* chain it goes on with brings back, and goes on doing so.
AllIsSaved ==
    <>[](\A d \in Automatic : has[d] \subseteq Restored(chain[d].base))

\* archive.js on `files`: "receipt files' root CIDs in the chain"; the next
\* increment brings "the receipt files the chain has not got yet".
FilesAreInTheChain ==
    \A d \in Device : chain[d].files \subseteq RestoredFiles(chain[d].base)
=============================================================================
