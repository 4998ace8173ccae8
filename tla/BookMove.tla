------------------------------ MODULE BookMove ------------------------------
(***************************************************************************)
(* Moving books: the books of one passkey, or of a former root, packed     *)
(* into a file and taken over into new, empty books (app/src/lib/move/).   *)
(* A person packs and picks files (MoveCard.svelte); new keys for the      *)
(* books keep their pack in the browser, and the new books take it over    *)
(* at the next unlock (session.svelte.js).  A take-over writes record by   *)
(* record; a closed page or a failed write cuts it short at any of them,   *)
(* and the mark it leaves in the settings lets it be carried on.           *)
(*                                                                         *)
(* Of the collections, four stand for all, in the order of COLLECTIONS.    *)
(* Sealing, the format and the checks of a file are left out (a file that  *)
(* fails one is never taken over), and so are the receipts' bytes, which   *)
(* are put again at every attempt.  packBooks lists one collection after   *)
(* the other; here a pack is of one moment.                                *)
(***************************************************************************)
EXTENDS Integers, Sequences, FiniteSets

CONSTANTS
    Books,       \* old books a file may come from
    Renewed,     \* those of them that get new keys
    MovedIn,     \* those of them that once took other books over
    Size,        \* records of a collection, settings of the books
    StaysBehind, \* settings of the old passkey or device
    Later,       \* collections in which old books may still get a record
    Meanwhile,   \* collections the new books' own session may write in
    MaxPacks, MaxCuts

Here == "here"   \* the origin of what the new books' session wrote itself
None == "none"

COLLECTIONS == <<"receipts", "settings", "matches", "events">>
MUST_BE_EMPTY == {"receipts", "matches"}
MOVE_IN_SETTING == 0   \* the key of the mark

Collections == {COLLECTIONS[i] : i \in DOMAIN COLLECTIONS}
Keys == 1..Size

ASSUME MoveAssumption ==
    /\ Renewed \subseteq Books /\ MovedIn \subseteq Books
    /\ Books \cap {Here, None} = {}
    /\ Size \in Nat \ {0} /\ StaysBehind \subseteq Keys
    /\ Later \subseteq Collections \ {"settings"}
    /\ Meanwhile \subseteq Collections
    /\ MaxPacks \in Nat /\ MaxCuts \in Nat

\* A record: whose it is, its collection, and its number there; of a
\* setting, the number is its key.
Record == [of : Books \cup {Here}, coll : Collections, n : 0..Size]
Rec(o, c, n) == [of |-> o, coll |-> c, n |-> n]

VARIABLES
    old,      \* the records of each old books
    packs,    \* the files packed so far: whose, and which records
    kept,     \* the pack in the browser's IndexedDB (an index, 0 for none)
    page,     \* the new books' page
    here,     \* the new books: every record written into them
    setting,  \* the new books: the records that are live, by key
    marker,   \* the file the live mark names, 0 without one
    job,      \* the file being taken over
    phase,    \* where the take-over is
    existing, \* the settings as the take-over read them
    rest,     \* the records it has not written yet
    told,     \* the files of the events 'books-moved'
    late,     \* keys the session first wrote after the take-over read them
    cuts      \* how often a take-over was cut short

oldVars == <<old, packs>>
jobVars == <<job, phase, existing, rest>>
bookVars == <<here, setting, marker, told>>
vars == <<oldVars, kept, page, bookVars, jobVars, late, cuts>>

Pack == [of : Books, records : SUBSET Record]

\* Nothing is being written unless the books are open, and the mark and the
\* pack in the browser are of a file that was packed.
TypeOK ==
    /\ old \in [Books -> SUBSET Record]
    /\ packs \in Seq(Pack)
    /\ {kept, marker, job} \subseteq 0..Len(packs)
    /\ told \subseteq 1..Len(packs)
    /\ page \in {"locked", "unlocking", "ready"}
    /\ here \subseteq Record
    /\ setting \in [Keys -> SUBSET (Books \cup {Here})]
    /\ phase \in {"idle", "mark", "read", "records", "event", "drop"}
    /\ existing \in [0..Size -> Books \cup {Here, None}]
    /\ rest \subseteq Record /\ late \subseteq Keys /\ cuts \in 0..MaxCuts
    /\ phase # "idle" => page # "locked"
    /\ phase = "idle" <=> job = 0

First(b) ==
    {Rec(b, c, 1) : c \in Collections \ {"settings"}}
        \cup {Rec(b, "settings", k) : k \in Keys}
        \cup (IF b \in MovedIn
              THEN {Rec(b, "settings", MOVE_IN_SETTING)} ELSE {})

NotRead == [k \in 0..Size |-> None]

Init ==
    /\ old = [b \in Books |-> First(b)]
    /\ packs = <<>> /\ kept = 0 /\ page = "locked"
    /\ here = {} /\ setting = [k \in Keys |-> {}] /\ marker = 0
    /\ job = 0 /\ phase = "idle" /\ existing = NotRead /\ rest = {}
    /\ told = {} /\ late = {} /\ cuts = 0

-----------------------------------------------------------------------------
(* The old books.                                                          *)

Grow(b) ==
    /\ \E c \in Later, n \in Keys :
         /\ Rec(b, c, n) \notin old[b]
         /\ old' = [old EXCEPT ![b] = @ \cup {Rec(b, c, n)}]
    /\ UNCHANGED <<packs, kept, page, bookVars, jobVars, late, cuts>>

\* A setting that belongs to the old passkey or to this device.
leftOut(r) == r.coll = "settings" /\ r.n \in StaysBehind

collect(b) == [of |-> b, records |-> {r \in old[b] : ~leftOut(r)}]

PackBooks(b) ==
    /\ Len(packs) < MaxPacks
    /\ packs' = Append(packs, collect(b))
    /\ UNCHANGED <<old, kept, page, bookVars, jobVars, late, cuts>>

\* New keys: the books packed for the new root and the pack kept.  The page
\* is reloaded; the books under the new root have nothing in them.
RenewBooksKeys(b) ==
    /\ kept = 0 /\ page = "locked" /\ here = {} /\ marker = 0
    /\ \A k \in Keys : setting[k] = {}
    /\ Len(packs) < MaxPacks
    /\ packs' = Append(packs, collect(b))
    /\ kept' = Len(packs')
    /\ UNCHANGED <<old, page, bookVars, jobVars, late, cuts>>

-----------------------------------------------------------------------------
(* Whether the new books take a file over.                                 *)

Filled == {r \in here : r.coll \in MUST_BE_EMPTY}

isEmptyBooks == Filled = {}
onlyFrom(i) == Filled \subseteq packs[i].records
\* (Mutant: whatever the half-filled books hold.)
AgainFromAny(i) == marker # 0 /\ i \in 1..Len(packs)
Again(i) == marker # 0 /\ onlyFrom(i)
\* (Mutant: a take-over cut short is not told from books in use.)
AcceptsEmpty(i) == i \in 1..Len(packs) /\ isEmptyBooks
Accepts(i) == Again(i) \/ isEmptyBooks

\* (Mutant: the mark is never written.)
TakeOverUnmarked(i) ==
    /\ phase = "idle" /\ Accepts(i)
    /\ job' = i /\ phase' = "read"
    /\ UNCHANGED <<oldVars, kept, page, bookVars, existing, rest, late, cuts>>
TakeOver(i) ==
    /\ phase = "idle" /\ Accepts(i)
    /\ job' = i
    /\ phase' = IF Again(i) /\ marker = i THEN "read" ELSE "mark"
    /\ UNCHANGED <<oldVars, kept, page, bookVars, existing, rest, late, cuts>>

\* At unlock, before anything else of the session: the kept pack.
TakeOverAfterNewKeys == page = "unlocking" /\ kept # 0 /\ TakeOver(kept)

\* A person picks a file.  The kept pack is nobody's to pick.
PickFile ==
    /\ page = "ready"
    /\ \E i \in 1..Len(packs) : i # kept /\ TakeOver(i)

-----------------------------------------------------------------------------
(* The steps of a take-over; every write is awaited.                       *)

Mark ==
    /\ phase = "mark"
    /\ marker' = job /\ phase' = "read"
    /\ UNCHANGED <<oldVars, kept, page, here, setting, told, job, existing,
                   rest, late, cuts>>

Origins(k) == IF k = MOVE_IN_SETTING
              THEN (IF marker # 0 THEN {Here} ELSE {})
              ELSE setting[k]

\* Of several live records of one key, a Map keeps the oldest.
ReadSettings ==
    /\ phase = "read"
    /\ existing' \in [0..Size -> Books \cup {Here, None}]
    /\ \A k \in 0..Size : IF Origins(k) = {} THEN existing'[k] = None
                                             ELSE existing'[k] \in Origins(k)
    /\ rest' = packs[job].records /\ phase' = "records"
    /\ UNCHANGED <<oldVars, kept, page, bookVars, job, late, cuts>>

Rank(c) == CHOOSE i \in DOMAIN COLLECTIONS : COLLECTIONS[i] = c

\* The records whose turn it is: one collection after the other.
Turn(r) ==
    /\ phase = "records" /\ r \in rest
    /\ \A s \in rest : Rank(r.coll) =< Rank(s.coll)

\* A setting the fresh session wrote gives way to the moved one.
\* (Mutant: restored beside it.)
NeverLocal(r) == r.coll = "settings" /\ r.n \notin 0..Size
Local(r) == /\ r.coll = "settings"
            /\ existing[r.n] \notin {None, r.of}

DropLocal(r) ==
    /\ Turn(r) /\ Local(r)
    /\ IF r.n = MOVE_IN_SETTING
       THEN marker' = 0 /\ UNCHANGED setting
       ELSE /\ setting' = [setting EXCEPT ![r.n] = @ \ {existing[r.n]}]
            /\ UNCHANGED marker
    /\ existing' = [existing EXCEPT ![r.n] = None]
    /\ UNCHANGED <<oldVars, kept, page, here, told, job, phase, rest, late,
                   cuts>>

Restore(r) ==
    /\ Turn(r) /\ ~Local(r)
    /\ here' = here \cup {r} /\ rest' = rest \ {r}
    /\ setting' = IF r.coll = "settings" /\ r.n \in Keys
                  THEN [setting EXCEPT ![r.n] = @ \cup {r.of}] ELSE setting
    /\ UNCHANGED <<oldVars, kept, page, marker, told, job, phase, existing,
                   late, cuts>>

\* (Mutant: done when the collections that must be empty are in.)
RemoveMarkEarly ==
    /\ phase = "records" /\ \A r \in rest : r.coll \notin MUST_BE_EMPTY
    /\ marker' = 0 /\ phase' = "event"
    /\ UNCHANGED <<oldVars, kept, page, here, setting, told, job, existing,
                   rest, late, cuts>>
RemoveMark ==
    /\ phase = "records" /\ rest = {}
    /\ marker' = 0 /\ phase' = "event"
    /\ UNCHANGED <<oldVars, kept, page, here, setting, told, job, existing,
                   rest, late, cuts>>

\* (Mutant: a take-over that ended still has its file.)
OverWithFile == UNCHANGED job /\ existing' = NotRead /\ rest' = {}
Over == /\ job' = 0 /\ existing' = NotRead /\ rest' = {}

\* recordEvent never throws: a failed write is only logged.
RecordEvent ==
    /\ phase = "event"
    /\ told' = told \cup {job}
    /\ IF page = "unlocking" THEN phase' = "drop" /\ UNCHANGED <<job, rest>>
                                  /\ UNCHANGED existing
                             ELSE phase' = "idle" /\ Over
    /\ UNCHANGED <<oldVars, kept, page, here, setting, marker, late, cuts>>

DropRekeyFile ==
    /\ phase = "drop"
    /\ kept' = 0 /\ page' = "ready" /\ phase' = "idle" /\ Over
    /\ UNCHANGED <<oldVars, bookVars, late, cuts>>

-----------------------------------------------------------------------------
(* Cut short; and the page.                                                *)

\* A write fails.  The take-over throws; after new keys the unlock goes on.
\* (Mutant: the kept pack goes however the take-over ends.)
FailDropping ==
    /\ phase \notin {"idle", "event"} /\ cuts < MaxCuts
    /\ phase' = "idle" /\ Over /\ page' = "ready" /\ cuts' = cuts + 1
    /\ kept' = IF page = "unlocking" THEN 0 ELSE kept
    /\ UNCHANGED <<oldVars, bookVars, late>>
Fail ==
    /\ phase \notin {"idle", "event"} /\ cuts < MaxCuts
    /\ phase' = "idle" /\ Over /\ page' = "ready" /\ cuts' = cuts + 1
    /\ UNCHANGED <<oldVars, kept, bookVars, late>>

\* The page is closed or reloaded in the middle of a take-over.
Crash ==
    /\ phase # "idle" /\ cuts < MaxCuts
    /\ phase' = "idle" /\ Over /\ page' = "locked" /\ cuts' = cuts + 1
    /\ UNCHANGED <<oldVars, kept, bookVars, late>>

\* ... or at any other time.
Leave ==
    /\ phase = "idle" /\ page = "ready"
    /\ page' = "locked"
    /\ UNCHANGED <<oldVars, kept, bookVars, jobVars, late, cuts>>

Unlock ==
    /\ page = "locked"
    /\ page' = "unlocking"
    /\ UNCHANGED <<oldVars, kept, bookVars, jobVars, late, cuts>>

\* No pack kept, or the new books refuse it: the unlock goes on.
Opened ==
    /\ page = "unlocking" /\ phase = "idle"
    /\ kept # 0 => ~Accepts(kept)
    /\ page' = "ready"
    /\ UNCHANGED <<oldVars, kept, bookVars, jobVars, late, cuts>>

-----------------------------------------------------------------------------
(* What the session itself writes, only after the unlock.                  *)

\* A bank import, a device that syncs; the automatic matching links the
\* receipts that are there.
WriteRecord(c) ==
    /\ page = "ready" /\ Rec(Here, c, 1) \notin here
    /\ c = "matches" => \E r \in here : r.coll = "receipts"
    /\ here' = here \cup {Rec(Here, c, 1)}
    /\ UNCHANGED <<oldVars, kept, page, setting, marker, told, jobVars, late,
                   cuts>>

\* setSetting: a new record only where no live one is.
WriteSetting(k) ==
    /\ page = "ready" /\ setting[k] = {}
    /\ setting' = [setting EXCEPT ![k] = {Here}]
    /\ late' = IF phase = "records" THEN late \cup {k} ELSE late
    /\ UNCHANGED <<oldVars, kept, page, here, marker, told, jobVars, cuts>>

-----------------------------------------------------------------------------
Next ==
    \/ \E b \in Books : Grow(b) \/ PackBooks(b)
    \/ \E b \in Renewed : RenewBooksKeys(b)
    \/ TakeOverAfterNewKeys \/ PickFile
    \/ Mark \/ ReadSettings \/ RemoveMark \/ RecordEvent \/ DropRekeyFile
    \/ \E r \in rest : DropLocal(r) \/ Restore(r)
    \/ Fail \/ Crash \/ Leave \/ Unlock \/ Opened
    \/ \E c \in Meanwhile \ {"settings"} : WriteRecord(c)
    \/ \E k \in Keys : "settings" \in Meanwhile /\ WriteSetting(k)

Spec == Init /\ [][Next]_vars

\* A take-over goes on until it is done or cut short; an unlock does what it
\* has to do, and the person leaves and unlocks the books time and again.
FairSpec ==
    /\ Spec
    /\ WF_vars(Mark \/ ReadSettings \/ RemoveMark \/ RecordEvent)
    /\ WF_vars(DropRekeyFile) /\ WF_vars(\E r \in rest : DropLocal(r))
    /\ WF_vars(\E r \in rest : Restore(r))
    /\ WF_vars(TakeOverAfterNewKeys)
    /\ WF_vars(Opened) /\ WF_vars(Leave) /\ WF_vars(Unlock)

-----------------------------------------------------------------------------
(* Properties.                                                             *)

\* As long as books are filled in part, the mark is there (book-move.js:
\* "writes first and removes last"): whatever was moved out of old books,
\* either one file of theirs is in with all its records, or the mark still
\* says that a take-over was cut short.  A first record before the mark, or
\* a mark gone before the last record, would leave books that are refused
\* as not empty and never filled.
MarkedWhileIncomplete ==
    \A b \in Books : (\E r \in here : r.of = b) =>
        \/ marker # 0
        \/ \E i \in 1..Len(packs) : /\ packs[i].of = b
                                    /\ packs[i].records \subseteq here

\* Books the history calls moved have every record of the file, and of its
\* settings the moved one is live, after any number of attempts with the
\* same or a newer file.
MovedIsThere ==
    \A i \in told :
        /\ packs[i].records \subseteq here
        /\ \A k \in Keys : Rec(packs[i].of, "settings", k) \in packs[i].records
                           => packs[i].of \in setting[k]

\* The pack of new keys goes only when the new books have all of it
\* (session.svelte.js): an attempt that throws keeps the only copy there is
\* under the new root.
PackOutlivesTakeOver ==
    [][kept # 0 /\ kept' # kept => packs[kept].records \subseteq here]_vars

\* "One record per setting: the moved one counts, the one this fresh session
\* wrote goes": two live records of a key only where the session first wrote
\* it after the take-over had read what there was.
NothingDoubles ==
    \A k \in Keys \ late : Cardinality(setting[k]) =< 1

\* The books a take-over filled, as TakeOver sees them: the records of the
\* collections that must be empty.
Moved == {r \in Filled : r.of # Here}
Matters == {r \in Record : r.coll \in MUST_BE_EMPTY /\ r.of # Here}
Promise == INSTANCE TakeOver WITH
    Record <- Matters,
    File <- UNION {SUBSET {r \in Matters : r.of = b} : b \in Books},
    state <- IF marker # 0 THEN "filling"
             ELSE IF Moved = {} THEN "empty" ELSE "full",
    file <- IF marker = 0 THEN {} ELSE packs[marker].records \cap Matters,
    moved <- Moved

\* Every step of a take-over is one of the promise's or changes nothing it
\* knows of: the books are filled from one old books' files only, until one
\* of them is in, and never again.
TakesOverOnce == Promise!Spec

\* The books packed for new keys come into the new ones, however often that
\* is cut short: unless the session wrote among them before the next try, or
\* a person had another file taken over.
PackComesIn ==
    kept # 0 ~> \/ kept = 0
                \/ packs[kept].records \subseteq here
                \/ ~onlyFrom(kept)
                \/ \E i \in 1..Len(packs) \ {kept} :
                      packs[i].records \subseteq here

\* What the card says of a take-over cut short (en.js: "Pick the same move
\* file again" and "it carries on"): the file the mark names is accepted.
CarriesOn == marker # 0 /\ phase = "idle" => Accepts(marker)
=============================================================================
