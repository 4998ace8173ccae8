------------------------------ MODULE BridgeNode ------------------------------
(***************************************************************************)
(* Which devices the bridge's own node lets in (bridge/src/node.js,        *)
(* grants.js): the list its devices tell it, the grants it keeps per       *)
(* device, the two files it starts from again, and the devices of the      *)
(* books that tell it their list (app/src/lib/session.svelte.js).          *)
(*                                                                         *)
(* The device that paired the bridge, the holder, sets the list; any other *)
(* one may only take devices off it.  A handler is suspended at every      *)
(* awaited read and write, and handlers of several devices overlap.        *)
(*                                                                         *)
(* Devices are told without scopes, as the app tells them, so each holds   *)
(* all of them.  Pairing, unpairing, the gate and the limits on what costs *)
(* are left out.                                                           *)
(***************************************************************************)
EXTENDS Naturals, Sequences, FiniteSets, FiniteSetsExt

CONSTANTS
    Peer,       \* devices: numbers from 1, in the order of their ids
    Holder,     \* the one that paired the bridge
    Teller,     \* those that have the app open and tell their list
    Movable,    \* those that are removed from the books and added
    Caller,     \* those that call the bridge and are renewed
    IdleDays,   \* a grant that was not used for so long lapses
    MaxList,    \* bound on the versions of the books' device list
    MaxDay,     \* bound on time
    MaxCrash    \* bound on the restarts of the bridge

ASSUME BridgeNodeAssumption ==
    /\ Peer \subseteq Nat \ {0} /\ Holder \in Teller \ Movable
    /\ Teller \cup Movable \cup Caller \subseteq Peer
    /\ {IdleDays, MaxList, MaxDay, MaxCrash} \subseteq Nat

VARIABLES
    lists,    \* the versions of the books' device list
    has,      \* per teller, the version it has
    told,     \* per teller, the last list the bridge took from it
    call,     \* per teller, its call of `devices` at the node
    known, grants,
    queue,    \* the writes of the grants' file that are chained
    file,     \* device-grants.json
    json,     \* bridge.json, its list of devices
    config,   \* the list that is written to it next
    day, crashes,
    off       \* devices whose removal was answered, for the properties

vars == <<lists, has, told, call, known, grants, queue, file, json,
          config, day, crashes, off>>
books == <<lists, has>>
node == <<known, grants, queue, file, json, config>>

NoGrant == [granted |-> 0, used |-> 0]
Held(g) == g.granted # 0
Fresh == [granted |-> day, used |-> 0]
NoCall == [at |-> "none"]
Nobody == 0

Init ==
    /\ lists = << Peer \ Movable >> /\ has = [d \in Teller |-> 1]
    /\ told = [d \in Teller |-> {}]
    /\ call = [d \in Teller |-> NoCall]
    /\ known = lists[1] /\ json = lists[1] /\ config = lists[1]
    /\ grants = [p \in Peer |-> IF p \in lists[1]
                                THEN [granted |-> 1, used |-> 0] ELSE NoGrant]
    /\ queue = << >> /\ file = grants
    /\ day = 1 /\ crashes = 0 /\ off = {}

-----------------------------------------------------------------------------
(* The devices of the books.                                               *)

\* A device is added to the list or removed, where the latest one is known.
ChangeList(d, p) ==
    /\ has[d] = Len(lists) /\ Len(lists) < MaxList
    /\ LET list == lists[has[d]]
       IN lists' = Append(lists, IF p \in list THEN list \ {p}
                                 ELSE list \cup {p})
    /\ has' = [has EXCEPT ![d] = @ + 1]
    /\ UNCHANGED <<told, call, node, day, crashes, off>>

\* The next version of the list comes to another device.
Arrive(d) ==
    /\ has[d] < Len(lists) /\ has' = [has EXCEPT ![d] = @ + 1]
    /\ UNCHANGED <<lists, told, call, node, day, crashes, off>>

\* tellDevices, some time after any settings change: not the same list again.
Tell(d) ==
    /\ call[d] = NoCall /\ lists[has[d]] # told[d]
    /\ call' = [call EXCEPT ![d] =
                 [at |-> "asked", wanted |-> lists[has[d]],
                  next |-> {}, seen |-> {}, gone |-> {}]]
    /\ UNCHANGED <<books, told, node, day, crashes, off>>

-----------------------------------------------------------------------------
(* The node's list and grants.                                             *)

\* (Mutant: what is gone keeps its grant.)
GrantsKept(old, list) ==
    [p \in Peer |-> IF p \in list /\ ~Held(old[p]) THEN Fresh ELSE old[p]]

\* (Mutant: telling the list grants every device anew.)
GrantsAnew(old, list) ==
    [p \in Peer |-> IF p \in list THEN Fresh ELSE NoGrant]

\* set: a new device is granted now, one that is gone loses its grant, the
\* others keep their times.
GrantsOf(old, list) ==
    [p \in Peer |-> IF p \notin list THEN NoGrant
                    ELSE IF Held(old[p]) THEN old[p] ELSE Fresh]

\* (Mutant: a grant that is taken away is not saved.)
ChangedByNew(new) == \E p \in Peer : ~Held(grants[p]) /\ Held(new[p])

Changed(new) == new # grants

\* setDevices and set.  A handler that walks through the list begins anew.
\* Where nothing changed nothing is saved, and bridge.json is next.
SetList(d, list) ==
    LET new == GrantsOf(grants, list)
        save == Changed(new)
    IN /\ known' = list /\ grants' = new
       /\ queue' = IF save THEN Append(queue, [by |-> d, grants |-> new])
                   ELSE queue
       /\ config' = IF save THEN config ELSE list
       /\ call' = [e \in Teller |->
             IF e = d
             THEN [call[d] EXCEPT !.at = IF save THEN "saving" ELSE "config",
                                  !.gone = known \ list]
             ELSE IF call[e] = NoCall THEN NoCall
             ELSE [call[e] EXCEPT !.seen = {},
                      !.gone = IF d = Holder THEN @ \ list ELSE @]]
       /\ off' = IF d = Holder THEN off \ list ELSE off
       /\ UNCHANGED <<file, json>>

Reading(d) == call[d] # NoCall /\ call[d].at = "reading"

\* The call comes in: refused unless the device is on the list.
Refuse(d) ==
    /\ call[d] # NoCall /\ call[d].at = "asked" /\ d \notin known
    /\ call' = [call EXCEPT ![d] = NoCall]
    /\ UNCHANGED <<books, told, node, day, crashes, off>>

HolderSets ==
    /\ call[Holder] # NoCall /\ call[Holder].at = "asked" /\ Holder \in known
    /\ SetList(Holder, call[Holder].wanted)
    /\ UNCHANGED <<books, told, day, crashes>>

OtherReads(d) ==
    /\ d # Holder /\ d \in known
    /\ call[d] # NoCall /\ call[d].at = "asked"
    /\ call' = [call EXCEPT ![d].at = "reading"]
    /\ UNCHANGED <<books, told, node, day, crashes, off>>

\* (Mutant: any device's list is taken as it is.)
OtherSets(d) ==
    /\ Reading(d) /\ SetList(d, call[d].wanted)
    /\ UNCHANGED <<books, told, day, crashes>>

\* Another device's list: of the known ones those that it has, and the holder.
\* The walk through `known` is suspended at each one that it has not.
OtherWalks(d) ==
    LET c == call[d]
        left == known \ c.seen
        unwanted == left \ c.wanted
        part == IF unwanted = {} THEN left
                ELSE { p \in left : p <= Min(unwanted) }
        next == c.next \cup (part \cap (c.wanted \cup {Holder}))
    IN /\ Reading(d)
       /\ IF unwanted = {} THEN SetList(d, next)
          ELSE /\ call' = [call EXCEPT ![d].next = next,
                                       ![d].seen = @ \cup part]
               /\ UNCHANGED <<node, off>>
       /\ UNCHANGED <<books, told, day, crashes>>

\* The chained writes of the grants; then onDevices, with who is known by now.
Saved ==
    /\ queue # << >> /\ queue' = Tail(queue)
    /\ file' = Head(queue).grants
    /\ LET d == Head(queue).by
       IN IF d = Nobody THEN UNCHANGED <<call, config>>
          ELSE /\ call' = [call EXCEPT ![d].at = "config"]
               /\ config' = known
    /\ UNCHANGED <<books, told, known, grants, json, day, crashes, off>>

\* bridge.json is written and the device gets its answer.
Answer(d) ==
    /\ call[d] # NoCall /\ call[d].at = "config"
    /\ json' = config
    /\ call' = [call EXCEPT ![d] = NoCall]
    /\ told' = [told EXCEPT ![d] = call[d].wanted]
    /\ off' = off \cup call[d].gone
    /\ UNCHANGED <<books, known, grants, queue, file, config, day, crashes>>

-----------------------------------------------------------------------------
(* Calls, time, and a restart.                                             *)

Lapsed(p) ==
    /\ p # Holder /\ Held(grants[p])
    /\ Max({grants[p].granted, grants[p].used}) + IdleDays < day

Change(p, g) ==
    /\ grants' = [grants EXCEPT ![p] = g]
    /\ queue' = Append(queue, [by |-> Nobody, grants |-> grants'])
    /\ UNCHANGED <<books, told, call, known, file, json, config, day,
                   crashes, off>>

\* authorize: the use is written now and then, and nobody waits for it.
Use(p) ==
    /\ p \in known /\ Held(grants[p]) /\ ~Lapsed(p) /\ grants[p].used < day
    /\ Change(p, [grants[p] EXCEPT !.used = day])

Renew(p) ==
    /\ {Holder, p} \subseteq known /\ Held(grants[p]) /\ grants[p].granted < day
    /\ Change(p, [grants[p] EXCEPT !.granted = day])

\* A write and a call take less than a day.
NextDay ==
    /\ day < MaxDay /\ day' = day + 1
    /\ queue = << >> /\ \A d \in Teller : call[d] = NoCall
    /\ UNCHANGED <<books, told, call, node, crashes, off>>

\* The bridge stops and starts: what was under way is gone, the list is the one
\* of bridge.json, and adopt brings the grants into line with it and saves them
\* before anyone is let in.
Restart ==
    /\ crashes < MaxCrash /\ crashes' = crashes + 1
    /\ known' = json /\ config' = json
    /\ grants' = GrantsOf(file, json) /\ file' = grants' /\ queue' = << >>
    /\ call' = [d \in Teller |-> NoCall]
    /\ UNCHANGED <<books, told, json, day, off>>

Handler(d) == Refuse(d) \/ OtherReads(d) \/ OtherWalks(d) \/ Answer(d)

Next ==
    \/ HolderSets \/ Saved
    \/ \E d \in Teller : Handler(d)
    \/ \E d \in Teller : Arrive(d) \/ Tell(d)
    \/ \E d \in Teller, p \in Movable : ChangeList(d, p)
    \/ \E p \in Caller : Use(p) \/ Renew(p)
    \/ NextDay \/ Restart

Spec == Init /\ [][Next]_vars

\* Handlers go on, the timer to tell runs out, and the lists arrive.
FairSpec ==
    /\ Spec /\ WF_vars(HolderSets) /\ WF_vars(Saved)
    /\ \A d \in Teller :
        WF_vars(Handler(d)) /\ WF_vars(Tell(d)) /\ WF_vars(Arrive(d))

-----------------------------------------------------------------------------
(* Properties.                                                             *)

Grant == [granted : Nat, used : Nat]
Call == [at : {"asked", "reading", "saving", "config"}, wanted : SUBSET Peer,
         next : SUBSET Peer, seen : SUBSET Peer, gone : SUBSET Peer]

\* State is well formed, and a grant is there exactly for who is known.
TypeOK ==
    /\ \A d \in Teller : /\ has[d] \in 1..Len(lists)
                         /\ call[d] = NoCall \/ call[d] \in Call
    /\ \A p \in Peer : /\ {grants[p], file[p]} \subseteq Grant
                       /\ Held(grants[p]) <=> p \in known
    /\ json \cup config \cup off \subseteq Peer

\* A removal that the bridge answered holds, across overlapping calls and
\* restarts, until the holder lists the device again: the list is in
\* bridge.json before the answer, and no handler sets an older list.  (Where
\* several devices are moved a walk can: grants_overlap.cfg.)
RemovalHolds == off \cap known = {}

\* When nothing is under way, what a restart would read is what the node has.
SettledFiles ==
    queue = << >> /\ (\A d \in Teller : call[d] = NoCall)
        => file = grants /\ json = known

\* "Telling the list again renews nothing": who has lapsed and stays on the
\* list is let in again only when the holder renews it, not by another call
\* and not by a restart.
OnlyRenewed ==
    [][\A p \in Peer :
        Lapsed(p) /\ p \in known' /\ ~Lapsed(p)' => Renew(p)]_vars

\* "The device that paired the bridge keeps the list current": in the end the
\* bridge knows the devices that the books list.
KeptCurrent == <>[](known = lists[Len(lists)])
=============================================================================
