------------------------------ MODULE DeviceSync ------------------------------
(***************************************************************************)
(* The device list of the books and the connections between own devices    *)
(* (app/src/lib/sync/device-sync.js).  Each device has a record in the     *)
(* replicated settings; a deleted one is a device that was removed.  Every *)
(* device reads its copy of the list in rounds, keeps who is known and who *)
(* is blocked, hangs up on the blocked and dials the known.                *)
(*                                                                         *)
(* Rounds start from a timer and from every change of the settings, do not *)
(* wait for each other, and are suspended while they hang up: `rounds`     *)
(* holds what the suspended ones of a device still have to do, with the    *)
(* list as they read it.                                                   *)
(*                                                                         *)
(* The devices are in the books from the beginning, each with one record.  *)
(*                                                                         *)
(* A connection stands for one on which both sides have proved themselves; *)
(* how they do is in DeviceGate.  Names, addresses, the relays, mute       *)
(* connections and the bridge's node are left out.                         *)
(***************************************************************************)
EXTENDS Naturals, FiniteSets, FiniteSetsExt

CONSTANTS
    Device,      \* numbers: where clocks are equal the larger one wins
    Person,      \* the devices on which a person adds and removes
    Removable,   \* the devices that are removed and added
    Restarting,  \* the devices whose app is closed and opened
    SlowDials,   \* who dials whom so that things happen meanwhile
    MaxRounds,   \* bound on the suspended rounds of a device
    MaxDecision, \* bound on what the person decides
    MaxOpen      \* bound on how often an app is closed, before the last of them

ASSUME DeviceSyncAssumption ==
    /\ Device \subseteq Nat
    /\ Person \cup Removable \cup Restarting \subseteq Device
    /\ SlowDials \subseteq Device \X Device
    /\ {MaxRounds, MaxDecision, MaxOpen} \subseteq Nat

VARIABLES
    recs,     \* per device, its copy of the device records
    clock,    \* the time of the last write
    mode,     \* per device: closed, on, or left (stopped: it was removed)
    since,    \* per device, when sync was switched on; 0: it is off
    selfWritten,
    known, blocked,
    rounds,   \* per device, the suspended rounds
    pending,  \* per device, what the person began: <<what is next, whom>>
    dialling, \* dials on their way: <<from, to>>
    conn,     \* connections: sets of two devices
    decisions, opened

vars == <<recs, clock, mode, since, selfWritten, known, blocked, rounds,
          pending, dialling, conn, decisions, opened>>
local == <<selfWritten, known, blocked, rounds, pending>>

Others(d) == Device \ {d}

-----------------------------------------------------------------------------
(* The list (deviceRecords) and its records.                               *)

RemovedIn(coll, d) == { p \in Others(d) : coll[p].removed }
RemovedHere(d) == recs[d][d].removed /\ recs[d][d].changed > since[d]

\* put: the record's log entry is newer than all this device has seen of it.
PutRecord(d, p, removed) ==
    /\ recs' = [recs EXCEPT ![d][p] =
          [removed |-> removed, changed |-> clock + 1, at |-> @.at + 1,
           by |-> d]]
    /\ clock' = clock + 1

\* writeDevice: the record is taken up again where it is deleted.
WriteDevice(d, p) ==
    IF recs[d][p].removed THEN PutRecord(d, p, FALSE)
    ELSE UNCHANGED <<recs, clock>>

Wins(r, s) == r.at > s.at \/ (r.at = s.at /\ r.by > s.by)
Merged(coll, other) ==
    [p \in Device |-> IF Wins(other[p], coll[p]) THEN other[p] ELSE coll[p]]

\* All devices are up and in the books.
Init ==
    /\ recs = [d \in Device |-> [p \in Device |->
                 [removed |-> FALSE, changed |-> 1, at |-> 1, by |-> p]]]
    /\ clock = 1
    /\ mode = [d \in Device |-> "on"] /\ since = [d \in Device |-> 1]
    /\ selfWritten = [d \in Device |-> TRUE]
    /\ known = [d \in Device |-> Others(d)]
    /\ blocked = [d \in Device |-> {}]
    /\ rounds = [d \in Device |-> {}]
    /\ pending = [d \in Device |-> {}]
    /\ dialling = {}
    /\ conn = { c \in SUBSET Device : Cardinality(c) = 2 }
    /\ decisions = 0 /\ opened = 0

-----------------------------------------------------------------------------
(* A round: this device written, the list read, the known and the blocked  *)
(* set, the known dialled.                                                 *)

\* (Mutant: who is back in the list stays blocked.)
HandleKeepsBlocked(d, round) ==
    LET fresh == { p \in round.left : p \in round.removed \ blocked[d] }
        next == IF fresh = {} THEN {} ELSE {Max(fresh)}
        part == { p \in round.left : \A q \in next : p >= q }
        live == part \ round.removed
        now == rounds[d] \ {round}
    IN /\ known' = [known EXCEPT ![d] = (IF round.first THEN {} ELSE @)
                                            \cup live]
       /\ blocked' = [blocked EXCEPT ![d] = @ \cup next]
       /\ rounds' = [rounds EXCEPT ![d] =
             IF next = {} THEN now
             ELSE now \cup {[round EXCEPT !.left = @ \ part, !.hangUp = next,
                                          !.first = FALSE]}]

\* What a round does to the records left on its list, newest (here: largest)
\* first, up to the first one it has to hang up on.
Handle(d, round) ==
    LET fresh == { p \in round.left : p \in round.removed \ blocked[d] }
        next == IF fresh = {} THEN {} ELSE {Max(fresh)}
        part == { p \in round.left : \A q \in next : p >= q }
        live == part \ round.removed
        now == rounds[d] \ {round}
    IN /\ known' = [known EXCEPT ![d] = (IF round.first THEN {} ELSE @)
                                            \cup live]
       /\ blocked' = [blocked EXCEPT ![d] = (@ \ live) \cup next]
       /\ rounds' = [rounds EXCEPT ![d] =
             IF next = {} THEN now
             ELSE now \cup {[round EXCEPT !.left = @ \ part, !.hangUp = next,
                                          !.first = FALSE]}]

\* Whether a connection opens: the gaters let the other in, and the gate of
\* the one that is dialled knows who dials.
LetsIn(e, d) == mode[e] # "closed" /\ d \notin blocked[e] /\ d \in known[e]

\* `open`: the connections as they are now.  The gater of this side is asked
\* when the dial begins.
Dial(d, peers, open) ==
    LET to == { p \in peers \ blocked'[d] :
                  mode[d] = "on" /\ {d, p} \notin open }
        slow == { p \in to : <<d, p>> \in SlowDials }
    IN /\ dialling' = dialling \cup ({d} \X slow)
       /\ conn' = open \cup
             { {d, p} : p \in { q \in to \ slow : LetsIn(q, d) } }

\* A round hangs up on whom it just blocked and goes on; at its end it dials
\* the known.
Continue(d, round) ==
    LET open == conn \ { {d, p} : p \in round.hangUp }
    IN /\ Handle(d, round)
       /\ IF rounds'[d] \subseteq rounds[d] THEN Dial(d, known'[d], open)
          ELSE conn' = open /\ UNCHANGED dialling

\* leave: another device removed this one.  It hangs up on the known, whom the
\* gate still lets in (`knownPeers` stays).
Leave(d) ==
    /\ conn' = conn \ { {d, p} : p \in known[d] }
    /\ mode' = [mode EXCEPT ![d] = "left"]
    /\ since' = [since EXCEPT ![d] = 0]
    /\ UNCHANGED <<recs, clock, selfWritten, known, blocked, rounds,
                   dialling>>

WriteSelf(d) ==
    /\ mode[d] = "on" /\ ~selfWritten[d]
    /\ WriteDevice(d, d)
    /\ selfWritten' = [selfWritten EXCEPT ![d] = TRUE]
    /\ UNCHANGED <<mode, since, known, blocked, rounds, pending, dialling, conn,
                   decisions, opened>>

\* (Mutant: a round does not leave this device out.)
RoundOverAll(d) ==
    /\ mode[d] = "on" /\ selfWritten[d]
    /\ Cardinality(rounds[d]) < MaxRounds
    /\ IF RemovedHere(d) THEN Leave(d)
       ELSE /\ Continue(d, [left |-> Device,
                            removed |-> RemovedIn(recs[d], d),
                            hangUp |-> {}, first |-> TRUE])
            /\ UNCHANGED <<recs, clock, mode, since, selfWritten>>
    /\ UNCHANGED <<pending, decisions, opened>>

Round(d) ==
    /\ mode[d] = "on" /\ selfWritten[d]
    /\ Cardinality(rounds[d]) < MaxRounds
    /\ IF RemovedHere(d) THEN Leave(d)
       ELSE /\ Continue(d, [left |-> Others(d),
                            removed |-> RemovedIn(recs[d], d),
                            hangUp |-> {}, first |-> TRUE])
            /\ UNCHANGED <<recs, clock, mode, since, selfWritten>>
    /\ UNCHANGED <<pending, decisions, opened>>

\* The connections are closed: the round goes on with the list it read.
GoOn(d) ==
    /\ \E round \in rounds[d] : Continue(d, round)
    /\ UNCHANGED <<recs, clock, mode, since, selfWritten, pending, decisions,
                   opened>>

\* A dial comes through.
Dialled(d, p) ==
    /\ <<d, p>> \in dialling /\ dialling' = dialling \ {<<d, p>>}
    /\ conn' = IF LetsIn(p, d) THEN conn \cup {{d, p}} ELSE conn
    /\ UNCHANGED <<recs, clock, mode, since, local, decisions, opened>>

-----------------------------------------------------------------------------
(* What the person does.                                                   *)

Decide(d, next) ==
    /\ d \in Person /\ mode[d] = "on" /\ next[2] # d
    /\ decisions < MaxDecision /\ decisions' = decisions + 1
    /\ pending' = [pending EXCEPT ![d] = @ \cup {next}]
    /\ UNCHANGED <<mode, since, selfWritten, known, blocked, rounds, dialling,
                   conn, opened>>

\* "Gerät hinzufügen" writes its record, then lets it in and dials it.  (Of a
\* device that is in already nothing is written.)
AddDevice(d, p) ==
    recs[d][p].removed /\ Decide(d, <<"let in", p>>) /\ WriteDevice(d, p)

\* "Entfernen" deletes its record, then blocks it, then hangs up.
RemoveDevice(d, p) ==
    /\ Decide(d, <<"block", p>>)
    /\ ~recs[d][p].removed /\ PutRecord(d, p, TRUE)

LetIn(d, p) ==
    /\ <<"let in", p>> \in pending[d]
    /\ pending' = [pending EXCEPT ![d] = @ \ {<<"let in", p>>}]
    /\ blocked' = [blocked EXCEPT ![d] = @ \ {p}]
    /\ known' = [known EXCEPT ![d] = @ \cup {p}]
    /\ Dial(d, {p}, conn)
    /\ UNCHANGED <<recs, clock, mode, since, selfWritten, rounds, decisions,
                   opened>>

\* (Mutant: who is removed is blocked, not hung up on.)
BlockOnly(d, p) ==
    /\ <<"block", p>> \in pending[d]
    /\ pending' = [pending EXCEPT ![d] = @ \ {<<"block", p>>}]
    /\ known' = [known EXCEPT ![d] = @ \ {p}]
    /\ blocked' = [blocked EXCEPT ![d] = @ \cup {p}]
    /\ UNCHANGED <<recs, clock, mode, since, selfWritten, rounds, dialling,
                   conn, decisions, opened>>

Block(d, p) ==
    /\ <<"block", p>> \in pending[d]
    /\ pending' = [pending EXCEPT ![d] = (@ \ {<<"block", p>>})
                                            \cup {<<"hang up", p>>}]
    /\ known' = [known EXCEPT ![d] = @ \ {p}]
    /\ blocked' = [blocked EXCEPT ![d] = @ \cup {p}]
    /\ UNCHANGED <<recs, clock, mode, since, selfWritten, rounds, dialling,
                   conn, decisions, opened>>

HangUp(d, p) ==
    /\ <<"hang up", p>> \in pending[d]
    /\ pending' = [pending EXCEPT ![d] = @ \ {<<"hang up", p>>}]
    /\ conn' = conn \ {{d, p}}
    /\ UNCHANGED <<recs, clock, mode, since, selfWritten, known, blocked,
                   rounds, dialling, decisions, opened>>

\* The page is closed, and opened again: what the module held is gone.
Close(d) ==
    /\ mode[d] # "closed" /\ decisions < MaxDecision
    /\ opened < MaxOpen /\ opened' = opened + 1
    /\ mode' = [mode EXCEPT ![d] = "closed"]
    /\ conn' = { c \in conn : d \notin c }
    /\ dialling' = { x \in dialling : x[1] # d }
    /\ known' = [known EXCEPT ![d] = {}]
    /\ blocked' = [blocked EXCEPT ![d] = {}]
    /\ rounds' = [rounds EXCEPT ![d] = {}]
    /\ pending' = [pending EXCEPT ![d] = {}]
    /\ selfWritten' = [selfWritten EXCEPT ![d] = FALSE]
    /\ UNCHANGED <<recs, clock, since, decisions>>

\* startDeviceSync; where sync was off, the switch is turned on first.
Open(d) ==
    LET on == IF since[d] = 0 THEN clock ELSE since[d]
        out == recs[d][d].removed /\ recs[d][d].changed > on
    IN /\ mode[d] = "closed"
       /\ mode' = [mode EXCEPT ![d] = IF out THEN "left" ELSE "on"]
       /\ since' = [since EXCEPT ![d] = IF out THEN 0 ELSE on]
       /\ selfWritten' = [selfWritten EXCEPT ![d] = ~recs[d][d].removed]
       /\ UNCHANGED <<recs, clock, known, blocked, rounds, pending, dialling,
                      conn, decisions, opened>>

\* Replication of the settings over a connection.
Sync(d, e) ==
    /\ {d, e} \in conn /\ d # e /\ Merged(recs[d], recs[e]) # recs[d]
    /\ recs' = [recs EXCEPT ![d] = Merged(@, recs[e])]
    /\ UNCHANGED <<clock, mode, since, local, dialling, conn, decisions,
                   opened>>

Decision(d, p) == AddDevice(d, p) \/ RemoveDevice(d, p)
PersonStep(d, p) == LetIn(d, p) \/ Block(d, p) \/ HangUp(d, p)
RoundStep(d) == WriteSelf(d) \/ Round(d) \/ GoOn(d)
SyncStep(d, e) == Sync(d, e) \/ Dialled(d, e)
Step == \E d \in Device : \/ \E p \in Device :
                                PersonStep(d, p) \/ SyncStep(d, p)
                          \/ RoundStep(d)

Next ==
    \/ Step
    \/ \E d \in Restarting : Close(d) \/ Open(d)
    \/ \E d \in Device, p \in Removable : Decision(d, p)

Spec == Init /\ [][Next]_vars

\* The timer starts rounds for ever, every await comes back, and connected
\* devices bring each other the settings.  What is fair to each of these is
\* fair to all together: as long as one of them can change more than the dials
\* under way, one of them does.
more == <<recs, clock, mode, local, conn>>
FairSpec == Spec /\ WF_more(Step)

-----------------------------------------------------------------------------
(* Properties.                                                             *)

DeviceRecord == [removed : BOOLEAN, changed : Nat, at : Nat, by : Device]
RoundRecord == [left : SUBSET Device, removed : SUBSET Device,
                hangUp : SUBSET Device, first : BOOLEAN]

\* State is well formed: nobody knows, blocks or dials itself, what is not
\* running holds no rounds, and no record is from later than now.
TypeOK ==
    /\ \A d, p \in Device :
        recs[d][p] \in DeviceRecord /\ recs[d][p].changed <= clock
    /\ mode \in [Device -> {"closed", "on", "left"}]
    /\ \A d \in Device :
        /\ since[d] <= clock
        /\ known[d] \cup blocked[d] \subseteq Others(d)
        /\ pending[d] \subseteq {"let in", "block", "hang up"} \X Others(d)
        /\ rounds[d] \subseteq RoundRecord
        /\ mode[d] = "closed" => rounds[d] = {} /\ known[d] = {}
    /\ dialling \subseteq Device \X Device
    /\ \A c \in conn : Cardinality(c) = 2 /\ \A d \in c : mode[d] # "closed"

HangsUpOn(d, p) ==
    \/ {<<"block", p>>, <<"hang up", p>>} \cap pending[d] # {}
    \/ \E round \in rounds[d] : p \in round.hangUp

\* A device that is blocked is not connected, but for the moment in which it
\* is being hung up on: however rounds, additions and removals overlap, nobody
\* who is blocked keeps a connection that no round will close (refreshKnown
\* hangs up only when it blocks, device-sync.js).
BlockedIsHungUp ==
    \A d \in Device : \A p \in blocked[d] :
        {d, p} \in conn => HangsUpOn(d, p)

\* In the end every device that syncs knows exactly the others that its list
\* has live and blocks exactly those it has removed, though overlapping rounds
\* and a person's steps may have set both from an older list; a device that has
\* learned that it was removed syncs no more; and devices that stay connected
\* have the same list.
ListIsFollowed ==
    /\ \A d \in Device : mode[d] = "on" =>
        /\ known[d] = Others(d) \ RemovedIn(recs[d], d)
        /\ blocked[d] = RemovedIn(recs[d], d)
        /\ ~RemovedHere(d)
    /\ \A c \in conn : \A d, e \in c : recs[d] = recs[e]
FollowsItsList == <>[]ListIsFollowed
=============================================================================
