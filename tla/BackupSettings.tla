---------------------------- MODULE BackupSettings ----------------------------
(***************************************************************************)
(* The sealed settings as the backups use them: the key that signs for the *)
(* paying account (app/src/lib/backup/keeper.js), the history of backups   *)
(* (history.js), and which chain they go on with (chain.js), all kept by   *)
(* store/settings.js.  A setting is a record with a key of its own; two    *)
(* calls that find none make two records, on one device or on two.         *)
(*                                                                         *)
(* The callers of a device overlap: the card of the backups, what makes    *)
(* them (run.svelte.js, auto.svelte.js), the card of the credits, which    *)
(* are paid in for the key (credits/credits.js).  Each makes one call      *)
(* after the other, and each call is cut where it awaits the settings.     *)
(* OrbitDB's log is external: entries in the order of their clocks, whose  *)
(* ties an entry's hash decides, and devices that bring each other what    *)
(* they have.                                                              *)
(*                                                                         *)
(* Keys in the settings are well formed; what a chain holds, and whether   *)
(* Aleph takes a backup, is in BackupChain.                                *)
(***************************************************************************)
EXTENDS Naturals, FiniteSets, Sequences, SequencesExt

CONSTANTS
    Device,   \* own devices and members' devices
    Member,   \* members' devices: they are to make no key
    Caller,   \* who calls on a device: of "card", "run", "credits"
    Backup,   \* what may be backed up: [cid, base], a full one is its own base
    Verdict,  \* what Aleph may say of a backup: taken or not (BOOLEAN)
    KEEP,     \* rows the history keeps of other chains
    MaxId,    \* bound on the records of a setting
    MaxCalls  \* bound on the calls that write

ASSUME BackupSettingsAssumption ==
    /\ Caller \subseteq {"card", "run", "credits"}
    /\ Member \subseteq Device /\ Verdict \subseteq BOOLEAN
    /\ {KEEP, MaxId, MaxCalls} \subseteq Nat

User == Device \X Caller
NoKey == 0
NoRecord == 0
NoChain == "none"
NoChange == [kind |-> "none"]
Idle == [step |-> "idle"]

VARIABLES
    log,   \* per device, the entries of its settings
    using, \* the key each caller was told last
    job,   \* what each caller is doing
    begun, \* the backups begun
    calls  \* how many calls there were that write

vars == <<log, using, job, begun, calls>>

-----------------------------------------------------------------------------
(* store/settings.js over the log.                                         *)

Stamp(e) == <<e.at, e.tie>>
Later(e, f) == e.at > f.at \/ (e.at = f.at /\ e.tie > f.tie)
Everywhere == UNION { log[d] : d \in Device }

Of(entries, setting) == { e \in entries : e.setting = setting }
Ids(entries, setting) == { e.id : e \in Of(entries, setting) }

\* `list` has the newest record first, by its id.
Newest(entries, setting) ==
    CHOOSE i \in Ids(entries, setting) :
        \A j \in Ids(entries, setting) : j <= i

\* getSetting: the newest record as it was written last.
Get(entries, setting, default) ==
    IF Of(entries, setting) = {} THEN default
    ELSE LET versions == { e \in Of(entries, setting) :
                              e.id = Newest(entries, setting) }
         IN (CHOOSE e \in versions :
                \A f \in versions \ {e} : Later(e, f)).value

\* (Mutant: a new record every time.)
Anew(d, setting) == NoRecord

\* The record setSetting writes to.
Target(d, setting) ==
    IF Of(log[d], setting) = {} THEN NoRecord ELSE Newest(log[d], setting)

\* put: after all that this device has.  A new record has an id from the
\* device's clock, which may be ahead of the others' or behind them.
Put(d, record, setting, value, seen, change) ==
    \E i \in 1..MaxId, t \in 1..Cardinality(Device) :
        LET at == Max({ e.at : e \in log[d] } \cup {0}) + 1 IN
        /\ IF record = NoRecord THEN i \notin Ids(Everywhere, setting)
           ELSE i = record
        /\ \A e \in Everywhere : Stamp(e) # <<at, t>>
        /\ log' = [log EXCEPT ![d] = @ \cup
              {[id |-> i, setting |-> setting, value |-> value, at |-> at,
                tie |-> t, seen |-> seen, change |-> change]}]

Init ==
    /\ log = [d \in Device |-> {}]
    /\ using = [u \in User |-> NoKey]
    /\ job = [u \in User |-> Idle] /\ begun = {} /\ calls = 0

-----------------------------------------------------------------------------
(* ensureBackupKey.  A key is known by the id of its record.               *)

\* (Mutant: the newest record, as every other setting is read.)
NewestKey(d) == Newest(log[d], "key")

\* The first key made for these books wins.
KeyOf(d) == CHOOSE i \in Ids(log[d], "key") :
                \A j \in Ids(log[d], "key") : i <= j

FindKey(u) ==
    /\ job[u] = Idle /\ Of(log[u[1]], "key") # {}
    /\ using' = [using EXCEPT ![u] = KeyOf(u[1])]
    /\ UNCHANGED <<log, job, calls, begun>>

\* There is none: this device makes one.  A member's does not, but for the
\* card of the credits, which calls without `create`.
FindNone(u) ==
    /\ job[u] = Idle /\ Of(log[u[1]], "key") = {}
    /\ u[1] \notin Member \/ u[2] = "credits"
    /\ calls < MaxCalls /\ calls' = calls + 1
    /\ job' = [job EXCEPT ![u] = [step |-> "making"]]
    /\ UNCHANGED <<log, using, begun>>

\* (Mutant: told the caller before it was put.)
MakeKeyUnsaved(u) ==
    /\ job[u].step = "making"
    /\ \E i \in 1..MaxId : using' = [using EXCEPT ![u] = i]
    /\ job' = [job EXCEPT ![u] = Idle]
    /\ UNCHANGED <<log, calls, begun>>

MakeKey(u) ==
    /\ job[u].step = "making"
    /\ Put(u[1], NoRecord, "key", NoKey, {}, NoChange)
    /\ using' = [using EXCEPT ![u] =
          CHOOSE i \in 1..MaxId :
              \E e \in log'[u[1]] \ log[u[1]] : e.id = i]
    /\ job' = [job EXCEPT ![u] = Idle]
    /\ UNCHANGED <<calls, begun>>

-----------------------------------------------------------------------------
(* The history, newest first.                                              *)

\* withBackup: every row of the new row's chain, and KEEP of the others.
WithBackup(list, row) ==
    LET other(b) == b.base # row.base
        take(taken, b) ==
            IF other(b) /\ Len(SelectSeq(taken, other)) >= KEEP THEN taken
            ELSE Append(taken, b)
    IN FoldLeft(take, <<>>, <<row>> \o list)

\* What a call makes of the list it has loaded.
Changed(list, change) ==
    CASE change.kind = "remember" -> WithBackup(list, change.row)
      [] change.kind = "update" ->
            [i \in DOMAIN list |-> IF list[i].cid = change.cid
                                   THEN [list[i] EXCEPT !.kept = change.kept]
                                   ELSE list[i]]
      [] change.kind = "drop" ->
            SelectSeq(list, LAMBDA b : b.cid # change.cid)

History(entries) == Get(entries, "backups", <<>>)
Chain(d) == Get(log[d], "chain", NoChain)
Row(b, kept) == [cid |-> b.cid, base |-> b.base, kept |-> kept]

\* loadBackups; what is to be written is known then.
Load(u, change, chainAfter) ==
    job' = [job EXCEPT ![u] =
       [step |-> "writing", setting |-> "backups",
        value |-> Changed(History(log[u[1]]), change),
        seen |-> { Stamp(e) : e \in Of(log[u[1]], "backups") },
        change |-> change, next |-> chainAfter, record |-> NoRecord]]

\* runBackup packs and uploads: a full backup, or an increment of the chain.
StartBackup(u, b) ==
    /\ u[2] = "run" /\ job[u] = Idle /\ calls < MaxCalls
    /\ b.cid = b.base \/ b.base = Chain(u[1])
    /\ b \notin begun
    /\ job' = [job EXCEPT ![u] = [step |-> "uploading", backup |-> b]]
    /\ begun' = begun \cup {b}
    /\ calls' = calls + 1 /\ UNCHANGED <<log, using>>

\* rememberBackup, with Aleph's word on it; the chain of a backup that is not
\* refused is then the one to go on with.
Remember(u, kept) ==
    /\ job[u].step = "uploading"
    /\ LET b == job[u].backup
       IN Load(u, [kind |-> "remember", row |-> Row(b, kept)],
               IF kept THEN b.base ELSE NoChain)
    /\ UNCHANGED <<log, using, calls, begun>>

\* The card: Aleph says otherwise of a backup, or one that is gone is dropped.
Amend(u, change) ==
    /\ u[2] = "card" /\ job[u] = Idle /\ calls < MaxCalls
    /\ \E i \in DOMAIN History(log[u[1]]) :
          LET row == History(log[u[1]])[i] IN
          /\ row.cid = change.cid
          /\ change.kind = "update" => row.kept # change.kept
    /\ Load(u, change, NoChain)
    /\ calls' = calls + 1 /\ UNCHANGED <<log, using, begun>>

\* setSetting: lists the records of the setting, then puts.
Place(u) ==
    /\ job[u].step = "writing"
    /\ LET j == job[u]
       IN job' = [job EXCEPT ![u] =
             [step |-> "placed", setting |-> j.setting, value |-> j.value,
              seen |-> j.seen, change |-> j.change, next |-> j.next,
              record |-> Target(u[1], j.setting)]]
    /\ UNCHANGED <<log, using, calls, begun>>

Write(u) ==
    /\ job[u].step = "placed"
    /\ LET j == job[u] IN
       /\ Put(u[1], j.record, j.setting, j.value, j.seen, j.change)
       /\ job' = [job EXCEPT ![u] =
             IF j.next = NoChain THEN Idle
             ELSE [step |-> "writing", setting |-> "chain", value |-> j.next,
                   seen |-> {}, change |-> NoChange, next |-> NoChain,
                   record |-> NoRecord]]
    /\ UNCHANGED <<using, calls, begun>>

-----------------------------------------------------------------------------
\* A page is closed or reloaded: its calls are gone.
Reload(d) ==
    /\ \E c \in Caller : job[<<d, c>>] # Idle
    /\ job' = [u \in User |-> IF u[1] = d THEN Idle ELSE job[u]]
    /\ UNCHANGED <<log, using, calls, begun>>

Sync(d, e) ==
    /\ ~ log[e] \subseteq log[d]
    /\ log' = [log EXCEPT ![d] = @ \cup log[e]]
    /\ UNCHANGED <<using, job, calls, begun>>

Amendment == [kind : {"update"}, cid : { b.cid : b \in Backup },
              kept : BOOLEAN]
             \cup [kind : {"drop"}, cid : { b.cid : b \in Backup }]

KeyStep(u) == FindKey(u) \/ FindNone(u) \/ MakeKey(u)
Going(u) == (\E kept \in Verdict : Remember(u, kept)) \/ Place(u) \/ Write(u)

Next ==
    \/ \E u \in User :
          \/ KeyStep(u) \/ Going(u)
          \/ \E b \in Backup : StartBackup(u, b)
          \/ \E change \in Amendment : Amend(u, change)
    \/ \E d \in Device : Reload(d)
    \/ \E d, e \in Device : Sync(d, e)

Spec == Init /\ [][Next]_vars

\* Every await comes back, devices bring each other the settings, and backups
\* and the card go on asking for the key.
FairSpec ==
    /\ Spec
    /\ \A u \in User : WF_vars(KeyStep(u)) /\ WF_vars(Going(u))
    /\ \A d, e \in Device : WF_vars(Sync(d, e))

-----------------------------------------------------------------------------
(* Properties.                                                             *)

Written(d) == Of(log[d], "backups")

\* No two entries have one place in the order, a record is of one setting's
\* for good, and a key that a caller was told is in its device's settings:
\* what the account is asked to allow is never lost with the page.
TypeOK ==
    /\ \A e, f \in Everywhere : Stamp(e) = Stamp(f) => e = f
    /\ \A e \in Everywhere : /\ e.id \in 1..MaxId
                            /\ e.setting \in {"key", "backups", "chain"}
    /\ \A u \in User : using[u] \in {NoKey} \cup Ids(log[u[1]], "key")
    /\ \A u \in User : job[u].step \in
          {"idle", "making", "uploading", "writing", "placed"}
    /\ begun \subseteq Backup /\ calls <= MaxCalls

\* A caller gives its key up only for an older one of the same books, and in
\* the end all devices use one key: FirstKey, with the key records that any
\* device has as the keys made.
Promise == INSTANCE FirstKey WITH
    Key <- 1..MaxId, made <- Ids(Everywhere, "key"), using <- using
UsesFirstKey == Promise!Spec

\* A write of the history that was made with all the other writes in sight is
\* what is read, on every device that has them all, and it is the list those
\* others gave with its own change made: however many records overlapping
\* calls have left for the setting, and whichever device's clock was ahead.
InSightOfAll ==
    \A d \in Device : \A e \in Written(d) :
        LET others == Written(d) \ {e} IN
        (\A f \in others : Stamp(f) \in e.seen) =>
            History(log[d]) = Changed(History(others), e.change)

\* "A member's device makes none: the key is the books', and the owner's
\* device makes it; until it has come by sync, there is none here" (keeper.js):
\* what a member's device is told is a key that an owner's device has.  Does
\* not hold: the card of the credits makes one where there is none yet.
MembersMakeNone ==
    \A u \in User : u[1] \in Member /\ using[u] # NoKey =>
        \E d \in Device \ Member : using[u] \in Ids(log[d], "key")

\* The history has a row for every backup of the chain that backups go on
\* with, unless it was dropped ("The chain a record continues keeps every
\* row").  Does not hold: an update that has loaded the list before takes a
\* new row out again, and a full backup that Aleph refuses leaves its row in
\* the history, for which the chain's own rows beyond KEEP go.
ChainIsWhole ==
    \A d \in Device : \A e \in Written(d) :
        /\ e.change.kind = "remember" /\ e.change.row.base = Chain(d)
        /\ ~ \E f \in Written(d) : /\ f.change.kind = "drop"
                                  /\ f.change.cid = e.change.row.cid
        => \E i \in DOMAIN History(log[d]) :
              History(log[d])[i].cid = e.change.row.cid
=============================================================================
