--------------------------- MODULE BridgeNode_proofs ---------------------------
(***************************************************************************)
(* Proofs about BridgeNode for every set of devices and any number of      *)
(* lists, days and restarts.  That a removal holds is proved where one     *)
(* device is moved; grants_overlap.cfg shows what two do.                  *)
(***************************************************************************)
EXTENDS BridgeNode, SequenceTheorems, TLAPS

Grants == [Peer -> Grant]
Queued == [by : Teller \cup {Nobody}, grants : Grants]

Typed ==
    /\ lists \in Seq(SUBSET Peer) /\ has \in [Teller -> Nat]
    /\ \A d \in Teller : has[d] \in 1..Len(lists)
    /\ call \in [Teller -> {NoCall} \cup Call]
    /\ known \subseteq Peer /\ json \subseteq Peer /\ config \subseteq Peer
    /\ off \subseteq Peer
    /\ grants \in Grants /\ file \in Grants /\ queue \in Seq(Queued)
    /\ \A p \in Peer : Held(grants[p]) <=> p \in known
    /\ day \in Nat \ {0}

\* The last write that is chained is of the grants as they are; the list that
\* is written next is the one that is known unless a handler saves, and is
\* written unless a handler writes it.
Writes ==
    /\ queue = << >> => file = grants
    /\ queue # << >> => queue[Len(queue)].grants = grants
    /\ known = config \/ \E d \in Teller : call[d].at = "saving"
    /\ config = json \/ \E d \in Teller : call[d].at = "config"
    /\ \A i \in 1..Len(queue) : queue[i].by # Nobody =>
          /\ call[queue[i].by].at = "saving"
          /\ \A j \in 1..Len(queue) : queue[j].by = queue[i].by => j = i

\* A grant that has lapsed has not changed since the last day: all writes
\* that are chained have it, and the file.
LapsedIsWritten ==
    \A p \in Peer : Lapsed(p) =>
        /\ file[p] = grants[p]
        /\ \A i \in 1..Len(queue) : queue[i].grants[p] = grants[p]

IInv == Typed /\ Writes /\ LapsedIsWritten

-----------------------------------------------------------------------------
(* The parts of a step.                                                    *)

\* What a list leaves of the grants: one for each device on it.
LEMMA GrantsOfType ==
    ASSUME NEW old \in Grants, NEW list \in SUBSET Peer, day \in Nat \ {0}
    PROVE  /\ GrantsOf(old, list) \in Grants
           /\ \A p \in Peer : /\ Held(GrantsOf(old, list)[p]) <=> p \in list
                              /\ p \in list /\ Held(old[p])
                                    => GrantsOf(old, list)[p] = old[p]
<1>1. Fresh \in Grant /\ NoGrant \in Grant /\ Held(Fresh) /\ ~Held(NoGrant)
  BY DEF Fresh, NoGrant, Grant, Held
<1>2. \A p \in Peer : old[p] \in Grant BY DEF Grants
<1>3. \A p \in Peer : GrantsOf(old, list)[p]
                        = IF p \notin list THEN NoGrant
                          ELSE IF Held(old[p]) THEN old[p] ELSE Fresh
  BY DEF GrantsOf
<1>4. GrantsOf(old, list) \in Grants
  BY <1>1, <1>2 DEF GrantsOf, Grants
<1> QED BY <1>1, <1>3, <1>4

\* A call with fields set anew is a call with these fields.
LEMMA CallWith ==
    ASSUME NEW c \in Call
    PROVE  /\ \A a \in {"asked", "reading", "saving", "config"} :
                /\ [c EXCEPT !.at = a] \in Call /\ [c EXCEPT !.at = a].at = a
                /\ \A g \in SUBSET Peer :
                     /\ [c EXCEPT !.at = a, !.gone = g] \in Call
                     /\ [c EXCEPT !.at = a, !.gone = g].at = a
           /\ \A g \in SUBSET Peer :
                /\ [c EXCEPT !.seen = {}, !.gone = g] \in Call
                /\ [c EXCEPT !.seen = {}, !.gone = g].at = c.at
           /\ \A n, s \in SUBSET Peer :
                /\ [c EXCEPT !.next = n, !.seen = s] \in Call
                /\ [c EXCEPT !.next = n, !.seen = s].at = c.at
BY DEF Call

\* The calls and the queue after SetList.
LEMMA SetListDoes ==
    ASSUME BridgeNodeAssumption, Typed, NEW d \in Teller, call[d] # NoCall,
           NEW list \in SUBSET Peer, SetList(d, list)
    PROVE  /\ known' = list /\ grants' = GrantsOf(grants, list)
           /\ UNCHANGED <<file, json>>
           /\ call' \in [Teller -> {NoCall} \cup Call]
           /\ call'[d] \in Call
           /\ \A e \in Teller \ {d} : call'[e].at = call[e].at
           /\ off' \subseteq off
           /\ \/ /\ grants' # grants /\ config' = config
                 /\ queue' = Append(queue, [by |-> d, grants |-> grants'])
                 /\ call'[d].at = "saving"
              \/ /\ grants' = grants /\ queue' = queue /\ config' = list
                 /\ call'[d].at = "config"
<1> DEFINE new == GrantsOf(grants, list)
           save == Changed(new)
<1>1. /\ known' = list /\ grants' = new
      /\ queue' = IF save THEN Append(queue, [by |-> d, grants |-> new])
                  ELSE queue
      /\ config' = IF save THEN config ELSE list
      /\ off' = IF d = Holder THEN off \ list ELSE off
      /\ UNCHANGED <<file, json>>
  BY DEF SetList
<1>2. call' = [e \in Teller |->
             IF e = d
             THEN [call[d] EXCEPT !.at = IF save THEN "saving" ELSE "config",
                                  !.gone = known \ list]
             ELSE IF call[e] = NoCall THEN NoCall
             ELSE [call[e] EXCEPT !.seen = {},
                      !.gone = IF d = Holder THEN @ \ list ELSE @]]
  BY DEF SetList
<1>3. call[d] \in Call /\ \A e \in Teller : call[e] \in {NoCall} \cup Call
  BY DEF Typed
<1>4. /\ call'[d] = [call[d] EXCEPT !.at = IF save THEN "saving"
                                           ELSE "config",
                                    !.gone = known \ list]
  BY <1>2
<1>5. call'[d] \in Call /\ call'[d].at = IF save THEN "saving" ELSE "config"
  <2> DEFINE a == IF save THEN "saving" ELSE "config"
  <2>1. a \in {"asked", "reading", "saving", "config"} OBVIOUS
  <2>2. known \ list \in SUBSET Peer BY DEF Typed
  <2>3. PICK c \in Call : c = call[d] BY <1>3
  <2>4. call'[d] = [c EXCEPT !.at = a, !.gone = known \ list]
    BY <1>4, <2>3
  <2> HIDE DEF a, save
  <2>5. call'[d] \in Call /\ call'[d].at = a
    BY <2>1, <2>2, <2>4 DEF Call
  <2> QED BY <2>5 DEF a
<1>6. ASSUME NEW e \in Teller \ {d}
      PROVE  call'[e] \in {NoCall} \cup Call /\ call'[e].at = call[e].at
  <2>1. CASE call[e] = NoCall BY <1>2, <2>1
  <2>2. CASE call[e] # NoCall
    <3>1. call'[e] = [call[e] EXCEPT !.seen = {},
                        !.gone = IF d = Holder THEN @ \ list ELSE @]
      BY <1>2, <2>2
    <3>2. call[e] \in Call BY <1>3, <2>2
    <3> QED BY <3>1, <3>2 DEF Call
  <2> QED BY <2>1, <2>2
<1>7. call' \in [Teller -> {NoCall} \cup Call]
  <2>1. \A e \in Teller : call'[e] \in {NoCall} \cup Call
    BY <1>5, <1>6
  <2>2. call' = [e \in Teller |-> call'[e]] BY <1>2
  <2> QED BY <2>1, <2>2
<1>8. save <=> grants' # grants BY <1>1 DEF Changed
<1> HIDE DEF new, save
<1> QED BY <1>1, <1>5, <1>6, <1>7, <1>8 DEF new

\* What the walk of a device that is not the holder sets is on the list.
LEMMA WalkDoes ==
    ASSUME BridgeNodeAssumption, Typed, NEW d \in Teller, OtherWalks(d)
    PROVE  /\ call[d] # NoCall /\ call[d] \in Call /\ call[d].at = "reading"
           /\ \/ \E list \in SUBSET Peer : SetList(d, list)
              \/ \E next, seen \in SUBSET Peer :
                   /\ call' = [call EXCEPT ![d].next = next, ![d].seen = seen]
                   /\ UNCHANGED <<node, off>>
           /\ UNCHANGED <<books, told, day, crashes>>
<1> DEFINE c == call[d]
           left == known \ c.seen
           unwanted == left \ c.wanted
           part == IF unwanted = {} THEN left
                   ELSE { p \in left : p <= Min(unwanted) }
           next == c.next \cup (part \cap (c.wanted \cup {Holder}))
<1>1. Reading(d) /\ UNCHANGED <<books, told, day, crashes>>
  BY DEF OtherWalks
<1>2. c \in Call /\ c # NoCall /\ c.at = "reading"
  BY <1>1 DEF Reading, Typed
<1>3. c.next \subseteq Peer /\ c.seen \subseteq Peer BY <1>2 DEF Call
<1>4. part \subseteq left /\ left \subseteq Peer BY DEF Typed
<1>5. next \in SUBSET Peer /\ c.seen \cup part \in SUBSET Peer
  BY <1>3, <1>4
<1>6. IF unwanted = {} THEN SetList(d, next)
      ELSE /\ call' = [call EXCEPT ![d].next = next,
                                   ![d].seen = c.seen \cup part]
           /\ UNCHANGED <<node, off>>
  BY DEF OtherWalks
<1> HIDE DEF c, left, unwanted, part, next
<1>7. CASE unwanted = {} BY <1>1, <1>2, <1>5, <1>6, <1>7 DEF c
<1>8. CASE unwanted # {} BY <1>1, <1>2, <1>5, <1>6, <1>8 DEF c
<1> QED BY <1>7, <1>8

-----------------------------------------------------------------------------
(* The invariant.                                                          *)

\* Every variable is of its type, and a grant is there for who is known.
LEMMA TypedStep ==
    ASSUME BridgeNodeAssumption, Typed, Writes, [Next]_vars PROVE Typed'
<1> USE DEF Typed
<1>1. CASE UNCHANGED vars BY <1>1 DEF vars, Held
<1>2. ASSUME NEW d \in Teller, call[d] # NoCall,
             NEW list \in SUBSET Peer, SetList(d, list),
             UNCHANGED <<books, told, day, crashes>>
      PROVE  Typed'
  <2>1. /\ GrantsOf(grants, list) \in Grants
        /\ \A p \in Peer : Held(GrantsOf(grants, list)[p]) <=> p \in list
    BY GrantsOfType
  <2>2. /\ known' = list /\ grants' = GrantsOf(grants, list)
        /\ UNCHANGED <<file, json>>
        /\ call' \in [Teller -> {NoCall} \cup Call] /\ off' \subseteq off
        /\ \/ /\ config' = config
              /\ queue' = Append(queue, [by |-> d, grants |-> grants'])
           \/ queue' = queue /\ config' = list
    BY <1>2, SetListDoes
  <2>3. [by |-> d, grants |-> grants'] \in Queued BY <2>1, <2>2 DEF Queued
  <2> DEFINE q == [by |-> d, grants |-> grants']
  <2>4. queue' \in Seq(Queued)
    <3>1. queue' = Append(queue, q) \/ queue' = queue
      BY <2>2, Zenon
    <3>2. q \in Queued BY <2>3
    <3> HIDE DEF q
    <3>3. \A x \in Queued : Append(queue, x) \in Seq(Queued) OBVIOUS
    <3> QED BY <3>1, <3>2, <3>3
  <2>5. \A p \in Peer : Held(grants'[p]) <=> p \in known' BY <2>1, <2>2
  <2> QED BY <1>2, <2>1, <2>2, <2>4, <2>5 DEF books, Held
<1>3. CASE HolderSets
  <2>1. /\ Holder \in Teller /\ call[Holder] # NoCall
        /\ call[Holder].wanted \in SUBSET Peer
        /\ SetList(Holder, call[Holder].wanted)
        /\ UNCHANGED <<books, told, day, crashes>>
    BY <1>3 DEF HolderSets, BridgeNodeAssumption, Call
  <2> QED BY <1>2, <2>1
<1>4. CASE Saved
  <2>1. /\ queue # << >> /\ Head(queue) \in Queued
        /\ Tail(queue) \in Seq(Queued)
    BY <1>4 DEF Saved
  <2>2. /\ queue' = Tail(queue) /\ file' = Head(queue).grants
        /\ UNCHANGED <<books, told, known, grants, json, day, crashes, off>>
        /\ \/ UNCHANGED <<call, config>>
           \/ /\ Head(queue).by # Nobody /\ config' = known
              /\ call' = [call EXCEPT ![Head(queue).by].at = "config"]
    BY <1>4 DEF Saved
  <2>3. file' \in Grants /\ Head(queue).by \in Teller \cup {Nobody}
    BY <2>1, <2>2 DEF Queued
  <2>4. config' \subseteq Peer BY <2>2
  <2>5. call' \in [Teller -> {NoCall} \cup Call]
    <3>1. CASE UNCHANGED call BY <3>1
    <3>2. CASE /\ Head(queue).by # Nobody
               /\ call' = [call EXCEPT ![Head(queue).by].at = "config"]
      <4> DEFINE d == Head(queue).by
      <4>1. d \in Teller BY <2>3, <3>2
      <4>2. [call[d] EXCEPT !.at = "config"] \in {NoCall} \cup Call
        <5>1. 1 \in 1..Len(queue) /\ Head(queue) = queue[1] BY <2>1
        <5>2. call[d].at = "saving" BY <3>2, <5>1 DEF Writes
        <5>3. call[d] \in Call BY <4>1, <5>2 DEF NoCall
        <5> QED BY <5>3, CallWith
      <4> QED BY <3>2, <4>1, <4>2
    <3> QED BY <2>2, <3>1, <3>2
  <2> QED BY <2>1, <2>2, <2>3, <2>4, <2>5 DEF books, Held
<1>5. ASSUME NEW d \in Teller, Handler(d) PROVE Typed'
  <2>1. CASE Refuse(d)
    <3>1. call' \in [Teller -> {NoCall} \cup Call] BY <2>1 DEF Refuse
    <3> QED BY <2>1, <3>1 DEF Refuse, books, node, Held
  <2>2. CASE OtherReads(d)
    <3>1. call[d] \in Call BY <2>2 DEF OtherReads
    <3>2. [call[d] EXCEPT !.at = "reading"] \in Call BY <3>1, CallWith
    <3>3. call' \in [Teller -> {NoCall} \cup Call]
      BY <2>2, <3>2 DEF OtherReads
    <3> QED BY <2>2, <3>3 DEF OtherReads, books, node, Held
  <2>3. CASE OtherWalks(d)
    <3>1. call[d] # NoCall /\ UNCHANGED <<books, told, day, crashes>>
      BY <2>3, WalkDoes
    <3>2. ASSUME NEW list \in SUBSET Peer, SetList(d, list) PROVE Typed'
      BY <1>2, <3>1, <3>2
    <3>3. ASSUME NEW next \in SUBSET Peer, NEW seen \in SUBSET Peer,
                 call' = [call EXCEPT ![d].next = next, ![d].seen = seen],
                 UNCHANGED <<node, off>>
          PROVE  Typed'
      <4>1. call[d] \in Call BY <3>1
      <4>2. [call[d] EXCEPT !.next = next, !.seen = seen] \in Call
        BY <4>1, CallWith
      <4>3. call' = [call EXCEPT ![d] =
                       [call[d] EXCEPT !.next = next, !.seen = seen]]
        BY <3>3
      <4>4. call' \in [Teller -> {NoCall} \cup Call] BY <4>2, <4>3
      <4> QED BY <3>1, <3>3, <4>4 DEF books, node, Held
    <3> QED BY <2>3, <3>2, <3>3, WalkDoes
  <2>4. CASE Answer(d)
    <3>1. call[d] \in Call BY <2>4 DEF Answer
    <3>2. call[d].gone \subseteq Peer BY <3>1 DEF Call
    <3>3. call' \in [Teller -> {NoCall} \cup Call] BY <2>4 DEF Answer
    <3> QED BY <2>4, <3>2, <3>3 DEF Answer, books, Held
  <2> QED BY <1>5, <2>1, <2>2, <2>3, <2>4 DEF Handler
<1>6. ASSUME NEW d \in Teller, Arrive(d) PROVE Typed'
  <2>1. has' \in [Teller -> Nat] /\ \A e \in Teller : has'[e] \in 1..Len(lists)
    BY <1>6 DEF Arrive
  <2> QED BY <1>6, <2>1 DEF Arrive, node, Held
<1>7. ASSUME NEW d \in Teller, Tell(d) PROVE Typed'
  <2>1. lists[has[d]] \in SUBSET Peer OBVIOUS
  <2>2. [at |-> "asked", wanted |-> lists[has[d]], next |-> {}, seen |-> {},
         gone |-> {}] \in Call
    BY <2>1 DEF Call
  <2>3. call' \in [Teller -> {NoCall} \cup Call] BY <1>7, <2>2 DEF Tell
  <2> QED BY <1>7, <2>3 DEF Tell, books, node, Held
<1>8. ASSUME NEW d \in Teller, NEW p \in Movable, ChangeList(d, p)
      PROVE  Typed'
  <2> DEFINE list == lists[has[d]]
             next == IF p \in list THEN list \ {p} ELSE list \cup {p}
  <2>1. p \in Peer BY DEF BridgeNodeAssumption
  <2>2. next \in SUBSET Peer BY <2>1
  <2>3. lists' = Append(lists, next) /\ has' = [has EXCEPT ![d] = @ + 1]
    BY <1>8 DEF ChangeList
  <2> HIDE DEF next
  <2>4. lists' \in Seq(SUBSET Peer) /\ Len(lists') = Len(lists) + 1
    BY <2>2, <2>3
  <2>5. has' \in [Teller -> Nat] /\ \A e \in Teller : has'[e] \in 1..Len(lists')
    BY <2>3, <2>4
  <2> QED BY <1>8, <2>4, <2>5 DEF ChangeList, node, Held
<1>9. ASSUME NEW p \in Caller, Use(p) \/ Renew(p) PROVE Typed'
  <2>1. PICK g \in Grant : Change(p, g) /\ Held(g) /\ Held(grants[p])
    <3>1. p \in Peer /\ grants[p] \in Grant
      BY DEF BridgeNodeAssumption, Grants
    <3>2. CASE Use(p)
      <4>1. [grants[p] EXCEPT !.used = day] \in Grant
        BY <3>1 DEF Grant
      <4>2. Held([grants[p] EXCEPT !.used = day])
        BY <3>1, <3>2 DEF Use, Held, Grant
      <4> QED BY <3>2, <4>1, <4>2 DEF Use
    <3>3. CASE Renew(p)
      <4>1. [grants[p] EXCEPT !.granted = day] \in Grant
        BY <3>1 DEF Grant
      <4>2. Held([grants[p] EXCEPT !.granted = day])
        BY <3>1 DEF Held, Grant
      <4> QED BY <3>3, <4>1, <4>2 DEF Renew
    <3> QED BY <1>9, <3>2, <3>3
  <2>2. /\ grants' = [grants EXCEPT ![p] = g]
        /\ queue' = Append(queue, [by |-> Nobody, grants |-> grants'])
        /\ UNCHANGED <<books, told, call, known, file, json, config, day,
                       crashes, off>>
    BY <2>1 DEF Change
  <2>3. grants' \in Grants BY <2>2 DEF Grants
  <2>4. [by |-> Nobody, grants |-> grants'] \in Queued BY <2>3 DEF Queued
  <2>5. queue' \in Seq(Queued) BY <2>2, <2>4
  <2>6. \A q \in Peer : Held(grants'[q]) <=> q \in known'
    BY <2>1, <2>2 DEF Grants, Held
  <2> QED BY <2>2, <2>3, <2>5, <2>6 DEF books, Held
<1>10. CASE NextDay
  <2>1. day' \in Nat \ {0} BY <1>10 DEF NextDay
  <2> QED BY <1>10, <2>1 DEF NextDay, books, node, Held
<1>11. CASE Restart
  <2>1. /\ GrantsOf(file, json) \in Grants
        /\ \A p \in Peer : Held(GrantsOf(file, json)[p]) <=> p \in json
    BY GrantsOfType
  <2>2. /\ known' = json /\ config' = json /\ grants' = GrantsOf(file, json)
        /\ file' = grants' /\ queue' = << >>
        /\ call' = [d \in Teller |-> NoCall]
        /\ UNCHANGED <<books, told, json, day, off>>
    BY <1>11 DEF Restart
  <2>3. \A p \in Peer : Held(grants'[p]) <=> p \in known' BY <2>1, <2>2
  <2>4. queue' \in Seq(Queued) /\ call' \in [Teller -> {NoCall} \cup Call]
    BY <2>2
  <2> QED BY <2>1, <2>2, <2>3, <2>4 DEF books, Held
<1> QED
  BY <1>1, <1>3, <1>4, <1>5, <1>6, <1>7, <1>8, <1>9, <1>10, <1>11 DEF Next

\* A step that sets no list, writes nothing and renews nobody.
Early == {"none", "asked", "reading"}
CallsOnly ==
    /\ UNCHANGED <<node, day>>
    /\ \A e \in Teller : \/ call'[e].at = call[e].at
                         \/ call[e].at \in Early /\ call'[e].at \in Early
Sets(d, list) ==
    /\ call[d] # NoCall /\ call[d].at \in Early
    /\ SetList(d, list)
    /\ UNCHANGED <<books, told, day, crashes>>

\* The kinds of steps, as far as grants and files go.
LEMMA Steps ==
    ASSUME BridgeNodeAssumption, Typed, [Next]_vars
    PROVE  \/ CallsOnly
           \/ \E d \in Teller, list \in SUBSET Peer : Sets(d, list)
           \/ Saved
           \/ \E d \in Teller : Answer(d)
           \/ \E p \in Peer : Use(p) \/ Renew(p)
           \/ NextDay \/ Restart
<1> USE DEF Typed
<1>1. CASE UNCHANGED vars BY <1>1 DEF vars, node, CallsOnly
<1>2. CASE HolderSets
  <2>1. /\ Holder \in Teller /\ call[Holder] # NoCall
        /\ call[Holder].wanted \in SUBSET Peer
    BY <1>2 DEF HolderSets, BridgeNodeAssumption, Call
  <2>2. Sets(Holder, call[Holder].wanted)
    BY <1>2, <2>1 DEF HolderSets, Sets, Early
  <2> QED BY <2>1, <2>2
<1>3. ASSUME NEW d \in Teller, Refuse(d) \/ OtherReads(d) \/ Tell(d)
      PROVE  CallsOnly
  <2>1. UNCHANGED <<node, day>> BY <1>3 DEF Refuse, OtherReads, Tell
  <2>2. \A e \in Teller \ {d} : call'[e] = call[e]
    BY <1>3 DEF Refuse, OtherReads, Tell
  <2>3. call[d].at \in Early
    BY <1>3 DEF Refuse, OtherReads, Tell, Early, NoCall
  <2>4. call'[d].at \in Early
    <3>1. CASE Refuse(d) BY <3>1 DEF Refuse, Early, NoCall
    <3>2. CASE Tell(d) BY <3>2 DEF Tell, Early
    <3>3. CASE OtherReads(d)
      <4>1. call[d] \in Call BY <3>3 DEF OtherReads
      <4>2. [call[d] EXCEPT !.at = "reading"].at = "reading"
        BY <4>1, CallWith
      <4> QED BY <3>3, <4>2 DEF OtherReads, Early
    <3> QED BY <1>3, <3>1, <3>2, <3>3
  <2> QED BY <2>1, <2>2, <2>3, <2>4 DEF CallsOnly
<1>4. ASSUME NEW d \in Teller, OtherWalks(d)
      PROVE  CallsOnly \/ \E list \in SUBSET Peer : Sets(d, list)
  <2>1. /\ call[d] # NoCall /\ call[d] \in Call /\ call[d].at = "reading"
        /\ UNCHANGED <<books, told, day, crashes>>
    BY <1>4, WalkDoes
  <2>2. ASSUME NEW list \in SUBSET Peer, SetList(d, list)
        PROVE  Sets(d, list)
    BY <2>1, <2>2 DEF Sets, Early
  <2>3. ASSUME NEW next \in SUBSET Peer, NEW seen \in SUBSET Peer,
               call' = [call EXCEPT ![d].next = next, ![d].seen = seen],
               UNCHANGED <<node, off>>
        PROVE  CallsOnly
    <3>1. call' = [call EXCEPT ![d] =
                     [call[d] EXCEPT !.next = next, !.seen = seen]]
      BY <2>3
    <3>2. [call[d] EXCEPT !.next = next, !.seen = seen].at = call[d].at
      <4>1. PICK c \in Call : c = call[d] BY <2>1
      <4>2. [c EXCEPT !.next = next, !.seen = seen].at = c.at
        BY <4>1 DEF Call
      <4> QED BY <4>1, <4>2
    <3>3. call'[d].at = call[d].at BY <3>1, <3>2
    <3>4. \A e \in Teller \ {d} : call'[e] = call[e] BY <3>1
    <3> QED BY <2>1, <2>3, <3>3, <3>4 DEF CallsOnly
  <2> QED BY <1>4, <2>2, <2>3, WalkDoes
<1>5. ASSUME NEW d \in Teller, Arrive(d) PROVE CallsOnly
  BY <1>5 DEF Arrive, CallsOnly
<1>6. ASSUME NEW d \in Teller, NEW p \in Movable, ChangeList(d, p)
      PROVE  CallsOnly
  BY <1>6 DEF ChangeList, CallsOnly
<1>7. Caller \subseteq Peer BY DEF BridgeNodeAssumption
<1> QED
  BY <1>1, <1>2, <1>3, <1>4, <1>5, <1>6, <1>7 DEF Next, Handler

\* The files follow the list and the grants.
LEMMA WritesStep ==
    ASSUME BridgeNodeAssumption, Typed, Writes, [Next]_vars PROVE Writes'
<1> USE DEF Typed
<1>0. /\ Nobody \notin Teller
      /\ \A i \in 1..Len(queue) : queue[i].by \in Teller \cup {Nobody}
  <2>1. \A i \in 1..Len(queue) : queue[i] \in Queued OBVIOUS
  <2> QED BY <2>1 DEF BridgeNodeAssumption, Nobody, Queued
<1>1. CASE CallsOnly
  <2>1. /\ UNCHANGED node
        /\ \A e \in Teller : call[e].at \in {"saving", "config"} =>
              call'[e].at = call[e].at
    BY <1>1 DEF CallsOnly, Early
  <2>2. /\ known' = config' \/ \E d \in Teller : call'[d].at = "saving"
        /\ config' = json' \/ \E d \in Teller : call'[d].at = "config"
    BY <2>1 DEF Writes, node
  <2>3. \A i \in 1..Len(queue) : queue[i].by # Nobody =>
          call'[queue[i].by].at = "saving"
    BY <1>0, <2>1 DEF Writes
  <2> QED BY <2>1, <2>2, <2>3 DEF Writes, node
<1>2. ASSUME NEW d \in Teller, NEW list \in SUBSET Peer, Sets(d, list)
      PROVE  Writes'
  <2>1. call[d] # NoCall /\ SetList(d, list) /\ call[d].at # "saving"
    BY <1>2 DEF Sets, Early
  <2>2. /\ known' = list /\ UNCHANGED <<file, json>>
        /\ \A e \in Teller \ {d} : call'[e].at = call[e].at
        /\ \/ /\ config' = config
              /\ queue' = Append(queue, [by |-> d, grants |-> grants'])
              /\ call'[d].at = "saving"
           \/ /\ grants' = grants /\ queue' = queue /\ config' = list
              /\ call'[d].at = "config"
    BY <2>1, SetListDoes
  <2>3. \A i \in 1..Len(queue) : queue[i].by # d
    BY <2>1 DEF Writes, Queued, BridgeNodeAssumption, Nobody
  <2>4. CASE /\ config' = config /\ call'[d].at = "saving"
             /\ queue' = Append(queue, [by |-> d, grants |-> grants'])
    <3> DEFINE q == [by |-> d, grants |-> grants']
    <3>1. q.by = d /\ q.grants = grants' OBVIOUS
    <3> HIDE DEF q
    <3>2. queue' = Append(queue, q) BY <2>4 DEF q
    <3>3. /\ Len(queue') = Len(queue) + 1 /\ queue'[Len(queue')] = q
          /\ \A i \in 1..Len(queue) : queue'[i] = queue[i]
          /\ queue' # << >>
      BY <3>2
    <3>4. \A i \in 1..Len(queue') : i = Len(queue') \/ i \in 1..Len(queue)
      BY <3>3
    <3>5. \A i \in 1..Len(queue') : queue'[i].by # Nobody =>
             /\ call'[queue'[i].by].at = "saving"
             /\ \A j \in 1..Len(queue') : queue'[j].by = queue'[i].by => j = i
      <4> SUFFICES ASSUME NEW i \in 1..Len(queue'), queue'[i].by # Nobody
                   PROVE  /\ call'[queue'[i].by].at = "saving"
                          /\ \A j \in 1..Len(queue') :
                               queue'[j].by = queue'[i].by => j = i
        OBVIOUS
      <4>1. CASE i = Len(queue')
        BY <2>3, <2>4, <3>1, <3>3, <3>4, <4>1
      <4>2. CASE i \in 1..Len(queue)
        <5>1. queue[i].by \in Teller \ {d}
          BY <1>0, <2>3, <3>3, <4>2
        <5>2. call'[queue[i].by].at = "saving"
          BY <2>2, <3>3, <4>2, <5>1 DEF Writes
        <5>3. \A j \in 1..Len(queue) : queue[j].by = queue[i].by => j = i
          BY <3>3, <4>2 DEF Writes
        <5> QED BY <3>1, <3>3, <3>4, <4>2, <5>1, <5>2, <5>3
      <4> QED BY <3>4, <4>1, <4>2
    <3>6. config' = json' \/ \E e \in Teller : call'[e].at = "config"
      BY <2>1, <2>2, <2>4, <1>2 DEF Writes, Sets, Early
    <3> QED BY <2>4, <3>1, <3>3, <3>5, <3>6 DEF Writes
  <2>5. CASE /\ grants' = grants /\ queue' = queue /\ config' = list
             /\ call'[d].at = "config"
    <3>1. \A i \in 1..Len(queue) : queue[i].by # Nobody =>
            call'[queue[i].by].at = "saving"
      BY <1>0, <2>2, <2>3 DEF Writes
    <3> QED BY <2>2, <2>5, <3>1 DEF Writes
  <2> QED BY <2>2, <2>4, <2>5
<1>3. CASE Saved
  <2>1. /\ queue # << >> /\ queue' = Tail(queue)
        /\ file' = Head(queue).grants
        /\ UNCHANGED <<known, grants, json>>
    BY <1>3 DEF Saved
  <2>2. /\ Len(queue') = Len(queue) - 1 /\ Head(queue) = queue[1]
        /\ \A i \in 1..Len(queue') : queue'[i] = queue[i + 1]
        /\ queue' = << >> <=> Len(queue) = 1
        /\ Len(queue) \in Nat \ {0}
    <3>1. Len(queue) \in Nat \ {0} BY <2>1
    <3>2. /\ Len(Tail(queue)) = Len(queue) - 1 /\ Head(queue) = queue[1]
          /\ \A i \in 1..Len(queue) - 1 : Tail(queue)[i] = queue[i + 1]
      BY <2>1, <3>1
    <3>3. Tail(queue) \in Seq(Queued) BY <2>1
    <3>4. Tail(queue) = << >> <=> Len(Tail(queue)) = 0
      BY <3>3, EmptySeq
    <3> QED BY <2>1, <3>1, <3>2, <3>4
  <2>3. queue' = << >> => file' = grants' BY <2>1, <2>2 DEF Writes
  <2>4. queue' # << >> => queue'[Len(queue')].grants = grants'
    BY <2>1, <2>2 DEF Writes
  <2>5. \A i \in 1..Len(queue') : queue'[i].by # Nobody =>
          /\ call[queue'[i].by].at = "saving"
          /\ queue'[i].by # Head(queue).by
          /\ queue'[i].by \in Teller
          /\ \A j \in 1..Len(queue') : queue'[j].by = queue'[i].by => j = i
    <3> SUFFICES ASSUME NEW i \in 1..Len(queue'), queue'[i].by # Nobody
                 PROVE  /\ call[queue'[i].by].at = "saving"
                        /\ queue'[i].by # Head(queue).by
                        /\ queue'[i].by \in Teller
                        /\ \A j \in 1..Len(queue') :
                             queue'[j].by = queue'[i].by => j = i
      OBVIOUS
    <3>1. /\ i + 1 \in 1..Len(queue) /\ 1 \in 1..Len(queue) /\ i + 1 # 1
          /\ queue'[i] = queue[i + 1]
          /\ \A j \in 1..Len(queue') : j + 1 \in 1..Len(queue)
      BY <2>2
    <3>2. /\ call[queue[i + 1].by].at = "saving"
          /\ \A j \in 1..Len(queue) : queue[j].by = queue[i + 1].by
                                        => j = i + 1
      BY <3>1 DEF Writes
    <3>3. queue[i + 1].by \in Teller BY <1>0, <2>2, <3>1
    <3>4. \A j \in 1..Len(queue') : queue'[j].by = queue'[i].by => j = i
      <4> SUFFICES ASSUME NEW j \in 1..Len(queue'),
                          queue'[j].by = queue'[i].by
                   PROVE  j = i
        OBVIOUS
      <4>1. j + 1 = i + 1 BY <2>2, <3>1, <3>2
      <4> QED BY <4>1
    <3> QED BY <2>2, <3>1, <3>2, <3>3, <3>4
  <2>6. CASE Head(queue).by = Nobody
    <3>1. UNCHANGED <<call, config>> BY <1>3, <2>6 DEF Saved
    <3> QED BY <2>1, <2>3, <2>4, <2>5, <3>1 DEF Writes
  <2>7. CASE Head(queue).by # Nobody
    <3> DEFINE d == Head(queue).by
    <3>1. d \in Teller BY <1>0, <2>2, <2>7
    <3>2. /\ config' = known
          /\ call' = [call EXCEPT ![d].at = "config"]
      BY <1>3, <2>7 DEF Saved
    <3>3. call[d] \in Call
      <4>1. call[d].at = "saving" BY <2>2, <2>7 DEF Writes
      <4> QED BY <3>1, <4>1 DEF NoCall
    <3>4. [call[d] EXCEPT !.at = "config"].at = "config" BY <3>3, CallWith
    <3>5. /\ call'[d].at = "config"
          /\ \A e \in Teller \ {d} : call'[e] = call[e]
      BY <3>1, <3>2, <3>4
    <3> QED BY <2>1, <2>3, <2>4, <2>5, <3>1, <3>2, <3>5 DEF Writes
  <2> QED BY <2>6, <2>7
<1>4. ASSUME NEW d \in Teller, Answer(d) PROVE Writes'
  <2>1. /\ call[d].at = "config" /\ json' = config
        /\ UNCHANGED <<known, grants, queue, file, config>>
        /\ \A e \in Teller \ {d} : call'[e] = call[e]
    BY <1>4 DEF Answer
  <2>2. \A i \in 1..Len(queue) : queue[i].by # Nobody =>
          call'[queue[i].by].at = "saving"
    BY <1>0, <2>1 DEF Writes
  <2>3. known = config \/ \E e \in Teller : call'[e].at = "saving"
    BY <2>1 DEF Writes
  <2> QED BY <2>1, <2>2, <2>3 DEF Writes
<1>5. ASSUME NEW p \in Peer, Use(p) \/ Renew(p) PROVE Writes'
  <2>1. /\ queue' = Append(queue, [by |-> Nobody, grants |-> grants'])
        /\ UNCHANGED <<call, known, file, json, config>>
    BY <1>5 DEF Use, Renew, Change
  <2> DEFINE q == [by |-> Nobody, grants |-> grants']
  <2>2. q.by = Nobody /\ q.grants = grants' OBVIOUS
  <2>3. queue' = Append(queue, q) BY <2>1
  <2> HIDE DEF q
  <2>4. /\ Len(queue') = Len(queue) + 1 /\ queue'[Len(queue')] = q
        /\ \A i \in 1..Len(queue) : queue'[i] = queue[i]
        /\ queue' # << >>
    BY <2>3
  <2>5. \A i \in 1..Len(queue') : i = Len(queue') \/ i \in 1..Len(queue)
    BY <2>4
  <2>6. \A i \in 1..Len(queue') : queue'[i].by # Nobody =>
           /\ call[queue'[i].by].at = "saving"
           /\ \A j \in 1..Len(queue') : queue'[j].by = queue'[i].by => j = i
    BY <2>2, <2>4, <2>5 DEF Writes
  <2> QED BY <2>1, <2>2, <2>4, <2>6 DEF Writes
<1>6. CASE NextDay
  BY <1>6 DEF NextDay, node, Writes
<1>7. CASE Restart BY <1>7 DEF Restart, Writes
<1> QED BY <1>1, <1>2, <1>3, <1>4, <1>5, <1>6, <1>7, Steps

\* The later of two days.
LEMMA MaxOfTwo ==
    ASSUME NEW a \in Nat, NEW b \in Nat
    PROVE  Max({a, b}) \in Nat /\ Max({a, b}) >= a /\ Max({a, b}) >= b
<1>1. \E x \in {a, b} : \A y \in {a, b} : x >= y OBVIOUS
<1>2. Max({a, b}) \in {a, b} /\ \A y \in {a, b} : Max({a, b}) >= y
  BY <1>1 DEF Max
<1> QED BY <1>2

\* In one step: who had lapsed keeps the grant, loses it or is renewed, and
\* who lapses had the grant before.
LEMMA GrantSteps ==
    ASSUME BridgeNodeAssumption, Typed, Typed', LapsedIsWritten, [Next]_vars
    PROVE  /\ day' \in Nat /\ day' >= day
           /\ \A p \in Peer :
                /\ Lapsed(p) /\ p \in known' =>
                     grants'[p] = grants[p] \/ Renew(p)
                /\ Lapsed(p)' =>
                     grants'[p] = grants[p] \/ Restart
<1>day. day \in Nat BY DEF Typed
<1>grant. \A p \in Peer : grants'[p] \in Grant BY DEF Typed, Grants
<1>0. ASSUME NEW p \in Peer, Lapsed(p)' PROVE Held(grants'[p])
  BY <1>0 DEF Lapsed
<1>1. CASE CallsOnly BY <1>day, <1>1 DEF CallsOnly, node
<1>2. ASSUME NEW d \in Teller, NEW list \in SUBSET Peer, Sets(d, list)
      PROVE  /\ day' = day /\ known' = list
             /\ \A p \in list : Held(grants[p]) => grants'[p] = grants[p]
             /\ \A p \in Peer : \/ grants'[p] = grants[p]
                                \/ ~Held(grants'[p])
                                \/ grants'[p].granted = day
  <2>1. day' = day /\ known' = list /\ grants' = GrantsOf(grants, list)
    BY <1>2, SetListDoes DEF Sets
  <2>2. \A p \in Peer : grants'[p] = IF p \notin list THEN NoGrant
                          ELSE IF Held(grants[p]) THEN grants[p] ELSE Fresh
    BY <2>1 DEF GrantsOf
  <2>3. ~Held(NoGrant) /\ Fresh.granted = day BY DEF NoGrant, Held, Fresh
  <2> QED BY <2>1, <2>2, <2>3
<1>3. ASSUME NEW d \in Teller, NEW list \in SUBSET Peer, Sets(d, list)
      PROVE  /\ day' \in Nat /\ day' >= day
             /\ \A p \in Peer :
                  /\ Lapsed(p) /\ p \in known' => grants'[p] = grants[p]
                  /\ Lapsed(p)' => grants'[p] = grants[p]
  <2>2. ASSUME NEW p \in Peer, Lapsed(p)' PROVE grants'[p].granted # day
    <3> SUFFICES ASSUME grants'[p].granted = day PROVE FALSE OBVIOUS
    <3>1. grants'[p] \in Grant BY <1>grant
    <3>2. grants'[p].granted \in Nat /\ grants'[p].used \in Nat
      BY <3>1 DEF Grant
    <3>3. Max({grants'[p].granted, grants'[p].used}) \in Nat
          /\ Max({grants'[p].granted, grants'[p].used}) >= day
      BY <3>2, MaxOfTwo
    <3>4. day' = day BY <1>2, <1>3
    <3> QED BY <1>day, <2>2, <3>3, <3>4 DEF Lapsed, BridgeNodeAssumption
  <2>3. /\ day' = day /\ known' = list
        /\ \A p \in list : Held(grants[p]) => grants'[p] = grants[p]
        /\ \A p \in Peer : \/ grants'[p] = grants[p]
                           \/ ~Held(grants'[p])
                           \/ grants'[p].granted = day
    BY <1>2, <1>3
  <2>4. ASSUME NEW p \in Peer, Lapsed(p), p \in known'
        PROVE  grants'[p] = grants[p]
    <3>1. Held(grants[p]) BY <2>4 DEF Lapsed
    <3> QED BY <2>3, <2>4, <3>1
  <2>5. ASSUME NEW p \in Peer, Lapsed(p)' PROVE grants'[p] = grants[p]
    <3>1. Held(grants'[p]) BY <1>0, <2>5
    <3>2. grants'[p].granted # day BY <2>2, <2>5
    <3> QED BY <2>3, <3>1, <3>2
  <2>6. day' \in Nat /\ day' >= day BY <1>day, <2>3
  <2> QED BY <2>4, <2>5, <2>6
<1>4. CASE Saved BY <1>day, <1>4 DEF Saved
<1>5. ASSUME NEW d \in Teller, Answer(d)
      PROVE  day' = day /\ grants' = grants
  BY <1>5 DEF Answer
<1>6. ASSUME NEW q \in Peer, Use(q) \/ Renew(q)
      PROVE  /\ day' = day
             /\ \A p \in Peer : p # q => grants'[p] = grants[p]
             /\ Lapsed(q) => Renew(q)
             /\ ~Lapsed(q)'
  <2>1. PICK g \in Grant : Change(q, g) /\ (g.granted = day \/ g.used = day)
    <3>1. grants[q] \in Grant /\ day \in Nat BY <1>day DEF Typed, Grants
    <3>2. /\ [grants[q] EXCEPT !.used = day] \in Grant
          /\ [grants[q] EXCEPT !.used = day].used = day
          /\ [grants[q] EXCEPT !.granted = day] \in Grant
          /\ [grants[q] EXCEPT !.granted = day].granted = day
      BY <3>1 DEF Grant
    <3> QED BY <1>6, <3>2 DEF Use, Renew
  <2>2. day' = day /\ grants' = [grants EXCEPT ![q] = g]
    BY <2>1 DEF Change
  <2>3. grants'[q] = g /\ \A p \in Peer : p # q => grants'[p] = grants[p]
    BY <2>2 DEF Typed, Grants
  <2>4. g.granted \in Nat /\ g.used \in Nat BY DEF Grant
  <2>5. Max({g.granted, g.used}) \in Nat /\ Max({g.granted, g.used}) >= day
    BY <2>1, <2>4, MaxOfTwo
  <2>6. ~Lapsed(q)'
    BY <1>day, <2>2, <2>3, <2>5 DEF Lapsed, BridgeNodeAssumption
  <2> QED BY <1>6, <2>2, <2>3, <2>6 DEF Use
<1>7. CASE NextDay
  <2>1. day' = day + 1 /\ grants' = grants BY <1>7 DEF NextDay, node
  <2> QED BY <1>day, <2>1
<1>8. CASE Restart
  <2>1. /\ known' = json /\ grants' = GrantsOf(file, json)
        /\ file' = grants' /\ day' = day
    BY <1>8 DEF Restart
  <2>2. ASSUME NEW p \in Peer, Lapsed(p), p \in known'
        PROVE  grants'[p] = grants[p]
    <3>1. file[p] = grants[p] /\ Held(file[p])
      BY <2>2 DEF LapsedIsWritten, Lapsed
    <3>2. p \in json BY <2>1, <2>2
    <3> QED BY <2>1, <3>1, <3>2 DEF GrantsOf
  <2> QED BY <1>day, <1>8, <2>1, <2>2
<1> QED BY <1>day, <1>1, <1>3, <1>4, <1>5, <1>6, <1>7, <1>8, Steps

\* A grant that has lapsed stays written: what lapses is a day old.
LEMMA LapsedStep ==
    ASSUME BridgeNodeAssumption, Typed, Typed', Writes, LapsedIsWritten,
           [Next]_vars
    PROVE  LapsedIsWritten'
<1> SUFFICES ASSUME NEW p \in Peer, Lapsed(p)'
             PROVE  /\ file'[p] = grants'[p]
                    /\ \A i \in 1..Len(queue') :
                         queue'[i].grants[p] = grants'[p]
  BY DEF LapsedIsWritten
<1>1. CASE Restart BY <1>1 DEF Restart
<1> SUFFICES ASSUME ~Restart
             PROVE  /\ file'[p] = grants'[p]
                    /\ \A i \in 1..Len(queue') :
                         queue'[i].grants[p] = grants'[p]
  BY <1>1
<1>same. grants'[p] = grants[p] BY GrantSteps
<1>2. ASSUME grants'[p] = grants[p], day' = day
      PROVE  /\ file[p] = grants[p]
             /\ \A i \in 1..Len(queue) : queue[i].grants[p] = grants[p]
  <2>1. Lapsed(p) BY <1>2 DEF Lapsed
  <2> QED BY <2>1 DEF LapsedIsWritten
<1>3. ASSUME file' = file, grants'[p] = grants[p], day' = day,
             queue' = queue \/ \E q : /\ queue' = Append(queue, q)
                                      /\ q.grants = grants'
      PROVE  /\ file'[p] = grants'[p]
             /\ \A i \in 1..Len(queue') : queue'[i].grants[p] = grants'[p]
  <2>1. CASE queue' = queue BY <1>2, <1>3, <2>1
  <2>2. ASSUME NEW q, queue' = Append(queue, q), q.grants = grants'
        PROVE  \A i \in 1..Len(queue') : queue'[i].grants[p] = grants'[p]
    <3>1. queue \in Seq(Queued) BY DEF Typed
    <3>2. /\ Len(queue') = Len(queue) + 1 /\ queue'[Len(queue')] = q
          /\ \A i \in 1..Len(queue) : queue'[i] = queue[i]
      BY <2>2, <3>1
    <3> QED BY <1>2, <1>3, <2>2, <3>1, <3>2
  <2> QED BY <1>2, <1>3, <2>1, <2>2
<1>4. CASE CallsOnly
  <2>1. file' = file /\ grants' = grants /\ day' = day /\ queue' = queue
    BY <1>4 DEF CallsOnly, node
  <2> QED BY <1>3, <2>1
<1>5. ASSUME NEW d \in Teller, NEW list \in SUBSET Peer, Sets(d, list)
      PROVE  /\ file'[p] = grants'[p]
             /\ \A i \in 1..Len(queue') : queue'[i].grants[p] = grants'[p]
  <2>1. /\ file' = file /\ day' = day
        /\ \/ grants' # grants
              /\ queue' = Append(queue, [by |-> d, grants |-> grants'])
           \/ grants' = grants /\ queue' = queue
    BY <1>5, SetListDoes DEF Sets
  <2>3. [by |-> d, grants |-> grants'].grants = grants' OBVIOUS
  <2> QED BY <1>3, <1>same, <2>1, <2>3
<1>6. CASE Saved
  <2>1. /\ queue # << >> /\ queue' = Tail(queue) /\ grants' = grants
        /\ file' = Head(queue).grants /\ day' = day /\ queue \in Seq(Queued)
    BY <1>6 DEF Saved, Typed
  <2>2. /\ Len(queue') = Len(queue) - 1 /\ Head(queue) = queue[1]
        /\ \A i \in 1..Len(queue') : queue'[i] = queue[i + 1]
        /\ Len(queue) \in Nat \ {0}
    BY <2>1
  <2>3. /\ 1 \in 1..Len(queue)
        /\ \A i \in 1..Len(queue') : i + 1 \in 1..Len(queue)
    BY <2>2
  <2> QED BY <1>2, <2>1, <2>2, <2>3
<1>7. ASSUME NEW d \in Teller, Answer(d)
      PROVE  /\ file'[p] = grants'[p]
             /\ \A i \in 1..Len(queue') : queue'[i].grants[p] = grants'[p]
  <2>1. file' = file /\ grants' = grants /\ day' = day /\ queue' = queue
    BY <1>7 DEF Answer
  <2> QED BY <1>3, <2>1
<1>8. ASSUME NEW q \in Peer, Use(q) \/ Renew(q)
      PROVE  /\ file'[p] = grants'[p]
             /\ \A i \in 1..Len(queue') : queue'[i].grants[p] = grants'[p]
  <2>1. /\ file' = file /\ day' = day
        /\ queue' = Append(queue, [by |-> Nobody, grants |-> grants'])
    BY <1>8 DEF Use, Renew, Change
  <2>3. [by |-> Nobody, grants |-> grants'].grants = grants' OBVIOUS
  <2> QED BY <1>3, <1>same, <2>1, <2>3
<1>9. CASE NextDay
  <2>1. queue = << >> /\ queue' = queue /\ file' = file /\ grants' = grants
    BY <1>9 DEF NextDay, node
  <2> QED BY <2>1 DEF Writes
<1> QED BY <1>4, <1>5, <1>6, <1>7, <1>8, <1>9, Steps

-----------------------------------------------------------------------------
(* The theorems.                                                           *)

\* At the beginning the bridge has the list and the grants of its files.
LEMMA NodeInit == ASSUME BridgeNodeAssumption PROVE Init => IInv
<1> SUFFICES ASSUME Init PROVE IInv OBVIOUS
<1>1. Peer \ Movable \in SUBSET Peer OBVIOUS
<1>2. /\ lists = << Peer \ Movable >> /\ has = [d \in Teller |-> 1]
      /\ call = [d \in Teller |-> NoCall]
      /\ known = Peer \ Movable /\ json = known /\ config = known
      /\ grants = [p \in Peer |-> IF p \in known
                                  THEN [granted |-> 1, used |-> 0]
                                  ELSE NoGrant]
      /\ queue = << >> /\ file = grants /\ day = 1 /\ off = {}
  BY DEF Init
<1>3. lists \in Seq(SUBSET Peer) /\ Len(lists) = 1 BY <1>1, <1>2
<1>4. grants \in Grants /\ \A p \in Peer : Held(grants[p]) <=> p \in known
  BY <1>2 DEF Grants, Grant, NoGrant, Held
<1>5. queue \in Seq(Queued) BY <1>2
<1>6. Typed BY <1>2, <1>3, <1>4, <1>5 DEF Typed
<1>7. Writes /\ LapsedIsWritten BY <1>2 DEF Writes, LapsedIsWritten
<1> QED BY <1>6, <1>7 DEF IInv

\* The invariant from which the types, the files and the grants follow.
THEOREM Inductive == ASSUME BridgeNodeAssumption PROVE Spec => []IInv
<1>1. IInv /\ [Next]_vars => IInv'
  BY TypedStep, WritesStep, LapsedStep DEF IInv
<1> QED BY <1>1, NodeInit, PTL DEF Spec

\* State is well formed, and a grant is there exactly for who is known,
\* whatever handlers, writes and restarts interleave.
THEOREM TypeCorrect == ASSUME BridgeNodeAssumption PROVE Spec => []TypeOK
<1>1. ASSUME IInv PROVE TypeOK
  <2> USE <1>1 DEF IInv, Typed
  <2>1. \A d \in Teller : call[d] = NoCall \/ call[d] \in Call OBVIOUS
  <2>2. \A p \in Peer : {grants[p], file[p]} \subseteq Grant BY DEF Grants
  <2> QED BY <2>1, <2>2 DEF TypeOK
<1> QED BY <1>1, Inductive, PTL

\* When nothing is under way, a restart reads the list and the grants that
\* the node has, however many handlers wrote them in whatever order.
THEOREM FilesSettle == ASSUME BridgeNodeAssumption PROVE Spec => []SettledFiles
<1>1. ASSUME IInv PROVE SettledFiles
  <2> SUFFICES ASSUME queue = << >>, \A d \in Teller : call[d] = NoCall
               PROVE  file = grants /\ json = known
    BY DEF SettledFiles
  <2>1. \A d \in Teller : call[d].at = "none" BY DEF NoCall
  <2> QED BY <1>1, <2>1 DEF IInv, Writes
<1> QED BY <1>1, Inductive, PTL

\* Who has lapsed and stays on the list is let in again only by Renew.
THEOREM RenewedByHolder ==
    ASSUME BridgeNodeAssumption PROVE Spec => OnlyRenewed
<1>1. ASSUME IInv, IInv', [Next]_vars
      PROVE  [\A p \in Peer :
                Lapsed(p) /\ p \in known' /\ ~Lapsed(p)' => Renew(p)]_vars
  <2> SUFFICES ASSUME NEW p \in Peer, Lapsed(p), p \in known', ~Lapsed(p)',
                      ~Renew(p)
               PROVE  FALSE
    OBVIOUS
  <2>1. grants'[p] = grants[p] /\ day' \in Nat /\ day' >= day
    BY <1>1, GrantSteps DEF IInv
  <2>2. grants[p] \in Grant /\ day \in Nat
    BY <1>1 DEF IInv, Typed, Grants
  <2>3. grants[p].granted \in Nat /\ grants[p].used \in Nat
    BY <2>2 DEF Grant
  <2>4. Max({grants[p].granted, grants[p].used}) \in Nat
    BY <2>3, MaxOfTwo
  <2> QED BY <2>1, <2>2, <2>4 DEF Lapsed, BridgeNodeAssumption
<1> QED BY <1>1, Inductive, PTL DEF Spec, OnlyRenewed

-----------------------------------------------------------------------------
(* A removal holds, where one device is moved.                             *)

Steady == Peer \ Movable

\* The list a handler is about to set has every device that is not moved, and
\* what it takes off is not known, nor on the list that is written next.
CallHolds(c, on, next) ==
    /\ Steady \subseteq c.wanted /\ c.next \subseteq Steady
    /\ c.seen \cap Steady \subseteq c.next
    /\ c.gone \cap on = {}
    /\ c.at = "config" => c.gone \cap next = {}

\* Nobody whose removal was answered is on a list that the bridge could start
\* from or go on with, and no device but the moved one is off any list.
Holds ==
    /\ \A i \in 1..Len(lists) : Steady \subseteq lists[i]
    /\ Steady \subseteq known \cap json \cap config
    /\ off \cap (known \cup json \cup config) = {}
    /\ \A d \in Teller : call[d] # NoCall => CallHolds(call[d], known, config)

\* Setting a list leaves Holds: another device than the holder only takes off.
LEMMA SetListHolds ==
    ASSUME BridgeNodeAssumption, Typed, Holds, NEW d \in Teller,
           call[d] # NoCall, NEW list \in SUBSET Peer, SetList(d, list),
           Steady \subseteq list, d # Holder => list \subseteq known
    PROVE  /\ Steady \subseteq known' \cap json' \cap config'
           /\ off' \cap (known' \cup json' \cup config') = {}
           /\ \A e \in Teller : call'[e] # NoCall =>
                 CallHolds(call'[e], known', config')
<1> DEFINE save == Changed(GrantsOf(grants, list))
<1>1. /\ known' = list /\ json' = json
      /\ config' = IF save THEN config ELSE list
      /\ off' = IF d = Holder THEN off \ list ELSE off
  BY DEF SetList
<1>2. call' = [e \in Teller |->
             IF e = d
             THEN [call[d] EXCEPT !.at = IF save THEN "saving" ELSE "config",
                                  !.gone = known \ list]
             ELSE IF call[e] = NoCall THEN NoCall
             ELSE [call[e] EXCEPT !.seen = {},
                      !.gone = IF d = Holder THEN @ \ list ELSE @]]
  BY DEF SetList
<1> HIDE DEF save
<1>3. off' \cap list = {} /\ off' \subseteq off BY <1>1 DEF Holds
<1>4. Steady \subseteq known' \cap json' \cap config' BY <1>1 DEF Holds
<1>5. off' \cap (known' \cup json' \cup config') = {}
  BY <1>1, <1>3 DEF Holds
<1>6. CallHolds(call'[d], known', config')
  <2>1. PICK c \in Call : c = call[d] BY DEF Typed
  <2>2. CallHolds(c, known, config) BY <2>1 DEF Holds
  <2> DEFINE a == IF save THEN "saving" ELSE "config"
             n == call'[d]
  <2>3. n = [c EXCEPT !.at = a, !.gone = known \ list] BY <1>2, <2>1
  <2>4. a = "config" => ~save OBVIOUS
  <2> HIDE DEF a
  <2>5. /\ n.wanted = c.wanted /\ n.next = c.next /\ n.seen = c.seen
        /\ n.gone = known \ list /\ n.at = a
    BY <2>3 DEF Call
  <2> HIDE DEF n
  <2>6. CallHolds(n, known', config')
    BY <1>1, <2>2, <2>4, <2>5 DEF CallHolds
  <2> QED BY <2>6 DEF n
<1>7. ASSUME NEW e \in Teller \ {d}, call'[e] # NoCall
      PROVE  CallHolds(call'[e], known', config')
  <2>1. call[e] # NoCall BY <1>2, <1>7
  <2>2. PICK c \in Call : c = call[e] BY <2>1 DEF Typed
  <2>3. CallHolds(c, known, config) BY <2>1, <2>2 DEF Holds
  <2> DEFINE n == call'[e]
             g == IF d = Holder THEN c.gone \ list ELSE c.gone
  <2>4. n = [c EXCEPT !.seen = {}, !.gone = g] BY <1>2, <2>1, <2>2
  <2>5. g \cap list = {} /\ g \subseteq c.gone
    BY <2>3 DEF CallHolds
  <2> HIDE DEF g
  <2>6. /\ n.wanted = c.wanted /\ n.next = c.next /\ n.seen = {}
        /\ n.gone = g /\ n.at = c.at
    BY <2>4 DEF Call
  <2> HIDE DEF n
  <2>7. CallHolds(n, known', config')
    BY <1>1, <2>3, <2>5, <2>6 DEF CallHolds
  <2> QED BY <2>7 DEF n
<1> QED BY <1>4, <1>5, <1>6, <1>7

\* The walk of a device: it is suspended only at the one that is moved, so
\* what it has taken over meanwhile is steady.
LEMMA WalkHolds ==
    ASSUME BridgeNodeAssumption, Typed, Holds, NEW d \in Teller,
           OtherWalks(d), d # Holder, \A p, q \in Movable : p = q
    PROVE  /\ Steady \subseteq known' \cap json' \cap config'
           /\ off' \cap (known' \cup json' \cup config') = {}
           /\ \A e \in Teller : call'[e] # NoCall =>
                 CallHolds(call'[e], known', config')
<1> DEFINE left == known \ call[d].seen
           unwanted == left \ call[d].wanted
           part == IF unwanted = {} THEN left
                   ELSE { p \in left : p <= Min(unwanted) }
           next == call[d].next \cup (part \cap (call[d].wanted \cup {Holder}))
<1>1. /\ call[d] # NoCall
      /\ IF unwanted = {} THEN SetList(d, next)
         ELSE /\ call' = [call EXCEPT ![d].next = next,
                                      ![d].seen = @ \cup part]
              /\ UNCHANGED <<node, off>>
  BY DEF OtherWalks, Reading
<1>2. CallHolds(call[d], known, config) /\ Steady \subseteq known
  BY <1>1 DEF Holds
<1>3. part \subseteq left OBVIOUS
<1>4. unwanted = {} => part = left OBVIOUS
<1>5. Holder \in Steady BY DEF BridgeNodeAssumption, Steady
<1> HIDE DEF part
<1>6. CASE unwanted = {}
  <2>1. Steady \subseteq next /\ next \subseteq known
    BY <1>2, <1>3, <1>4, <1>5, <1>6 DEF CallHolds
  <2>2. next \in SUBSET Peer BY <2>1 DEF Typed
  <2> HIDE DEF next, unwanted
  <2> QED BY <1>1, <1>6, <2>1, <2>2, SetListHolds
<1>7. CASE unwanted # {}
  <2>1. next \subseteq Steady
    <3>1. PICK q : q \in unwanted BY <1>7
    <3>2. q \in Peer /\ q \notin Steady
      BY <1>2, <3>1 DEF CallHolds, Typed
    <3>3. \A p \in Peer \ Steady : p = q BY <3>2 DEF Steady
    <3>4. part \subseteq Peer /\ q \notin call[d].wanted
      BY <1>3, <3>1 DEF Typed
    <3>5. part \cap call[d].wanted \subseteq Steady BY <3>3, <3>4
    <3> QED BY <1>2, <1>5, <3>5 DEF CallHolds
  <2>2. (call[d].seen \cup part) \cap Steady \subseteq next
    BY <1>2 DEF CallHolds
  <2> DEFINE seen == call[d].seen \cup part
             n == call'[d]
  <2>3. PICK c \in Call : c = call[d] BY <1>1 DEF Typed
  <2>4. /\ n = [c EXCEPT !.next = next, !.seen = seen]
        /\ \A e \in Teller \ {d} : call'[e] = call[e]
        /\ UNCHANGED <<known, json, config, off>>
    <3>1. call' = [call EXCEPT ![d] =
                     [c EXCEPT !.next = next, !.seen = seen]]
      BY <1>1, <1>7, <2>3
    <3>2. call \in [Teller -> {NoCall} \cup Call] BY DEF Typed
    <3> QED BY <1>1, <1>7, <3>1, <3>2 DEF node
  <2> HIDE DEF next, unwanted, left
  <2>5. /\ n.wanted = c.wanted /\ n.next = next /\ n.seen = seen
        /\ n.gone = c.gone /\ n.at = c.at
    BY <2>3, <2>4 DEF Call
  <2> HIDE DEF n
  <2>6. CallHolds(n, known, config)
    BY <1>2, <2>1, <2>2, <2>3, <2>5 DEF CallHolds
  <2> QED BY <2>4, <2>6 DEF Holds, n
<1> QED BY <1>6, <1>7

\* The holder's call never walks: its list is set in the step that takes it.
LEMMA HolderStep ==
    ASSUME BridgeNodeAssumption, Typed, call[Holder].at # "reading",
           [Next]_vars
    PROVE  call'[Holder].at # "reading"
<1>0. Holder \in Teller /\ NoCall.at = "none"
  BY DEF BridgeNodeAssumption, NoCall
<1>1. ASSUME NEW d \in Teller, NEW list \in SUBSET Peer, call[d] # NoCall,
             SetList(d, list)
      PROVE  call'[Holder].at # "reading"
  <2>1. /\ \A e \in Teller \ {d} : call'[e].at = call[e].at
        /\ call'[d].at \in {"saving", "config"}
    BY <1>1, SetListDoes
  <2> QED BY <1>0, <2>1
<1>2. CASE HolderSets
  <2>1. /\ call[Holder] # NoCall /\ call[Holder].wanted \in SUBSET Peer
        /\ SetList(Holder, call[Holder].wanted)
    BY <1>0, <1>2 DEF HolderSets, Typed, Call
  <2> QED BY <1>0, <1>1, <2>1
<1>3. CASE Saved
  <2>1. \/ UNCHANGED call
        \/ call' = [call EXCEPT ![Head(queue).by].at = "config"]
    BY <1>3 DEF Saved
  <2>2. PICK c \in Call \cup {NoCall} : c = call[Holder]
    BY <1>0 DEF Typed
  <2>3. /\ call'[Holder] = c \/ call'[Holder] = [c EXCEPT !.at = "config"]
    BY <1>0, <2>1, <2>2 DEF Typed
  <2>4. [c EXCEPT !.at = "config"].at = "config"
    BY <2>2 DEF Call, NoCall
  <2> QED BY <2>2, <2>3, <2>4
<1>4. ASSUME NEW d \in Teller, OtherWalks(d)
      PROVE  call'[Holder].at # "reading"
  <2>1. /\ call[d] # NoCall /\ call[d] \in Call /\ d # Holder
        /\ \/ \E list \in SUBSET Peer : SetList(d, list)
           \/ \E next, seen \in SUBSET Peer :
                call' = [call EXCEPT ![d].next = next, ![d].seen = seen]
    BY <1>4, WalkDoes
  <2> QED BY <1>0, <1>1, <2>1 DEF Typed
<1>5. ASSUME NEW d \in Teller,
             Refuse(d) \/ OtherReads(d) \/ Answer(d) \/ Tell(d)
      PROVE  call'[Holder].at # "reading"
  <2>1. CASE OtherReads(d)
    BY <1>0, <2>1 DEF OtherReads, Typed
  <2>2. CASE Tell(d) BY <1>0, <2>2 DEF Tell, Typed
  <2>3. CASE Refuse(d) \/ Answer(d)
    BY <1>0, <2>3 DEF Refuse, Answer, Typed
  <2> QED BY <1>5, <2>1, <2>2, <2>3
<1>6. CASE Restart BY <1>0, <1>6 DEF Restart
<1>7. CASE UNCHANGED call BY <1>7
<1> QED
  BY <1>2, <1>3, <1>4, <1>5, <1>6, <1>7
  DEF Next, Handler, vars, Arrive, ChangeList, Use, Renew, Change, NextDay

LEMMA HoldsStep ==
    ASSUME BridgeNodeAssumption, Typed, Writes, Holds,
           call[Holder].at # "reading", [Next]_vars,
           \A p, q \in Movable : p = q
    PROVE  Holds'
<1>1. CASE UNCHANGED vars BY <1>1 DEF vars, Holds, CallHolds
<1>2. CASE HolderSets
  <2>1. Holder \in Teller /\ call[Holder] # NoCall BY <1>2
    DEF HolderSets, BridgeNodeAssumption
  <2>2. call[Holder].wanted \in SUBSET Peer BY <2>1 DEF Typed, Call
  <2>3. Steady \subseteq call[Holder].wanted
    BY <2>1 DEF Holds, CallHolds
  <2>4. SetList(Holder, call[Holder].wanted) /\ lists' = lists
    BY <1>2 DEF HolderSets, books
  <2> QED BY <2>1, <2>2, <2>3, <2>4, SetListHolds DEF Holds
<1>3. CASE Saved
  <2>1. UNCHANGED <<lists, known, json, off>> BY <1>3 DEF Saved, books
  <2>2. CASE UNCHANGED <<call, config>> BY <2>1, <2>2 DEF Holds, CallHolds
  <2>3. ASSUME NEW d \in Teller \cup {Nobody}, d # Nobody, config' = known,
               call' = [call EXCEPT ![d].at = "config"],
               call[d].at = "saving"
        PROVE  Holds'
    <3>1. ASSUME NEW e \in Teller, call'[e] # NoCall
          PROVE  CallHolds(call'[e], known, known)
      <4>1. CASE call[e] = NoCall
        <5>1. e = d BY <2>3, <3>1, <4>1 DEF Typed
        <5> QED BY <2>3, <4>1, <5>1 DEF NoCall
      <4>2. CASE call[e] # NoCall
        <5>1. PICK c \in Call : c = call[e] BY <4>2 DEF Typed
        <5>2. CallHolds(c, known, config) BY <4>2, <5>1 DEF Holds
        <5> DEFINE n == call'[e]
        <5>3. n = c \/ n = [c EXCEPT !.at = "config"]
          BY <2>3, <5>1 DEF Typed
        <5> HIDE DEF n
        <5>4. /\ n.wanted = c.wanted /\ n.next = c.next /\ n.seen = c.seen
              /\ n.gone = c.gone
          BY <5>3 DEF Call
        <5>5. CallHolds(n, known, known) BY <5>2, <5>4 DEF CallHolds
        <5> QED BY <5>5 DEF n
      <4> QED BY <4>1, <4>2
    <3> QED BY <2>1, <2>3, <3>1 DEF Holds
  <2>4. /\ Head(queue) \in Queued
        /\ Head(queue).by # Nobody => call[Head(queue).by].at = "saving"
    <3>1. Head(queue) = queue[1] /\ 1 \in 1..Len(queue)
      BY <1>3 DEF Saved, Typed
    <3> QED BY <3>1 DEF Typed, Writes
  <2>5. Head(queue).by \in Teller \cup {Nobody} BY <2>4 DEF Queued
  <2>6. \/ UNCHANGED <<call, config>>
        \/ /\ Head(queue).by # Nobody /\ config' = known
           /\ call' = [call EXCEPT ![Head(queue).by].at = "config"]
    BY <1>3 DEF Saved
  <2> QED BY <2>2, <2>3, <2>4, <2>5, <2>6
<1>4. ASSUME NEW d \in Teller, Refuse(d) PROVE Holds'
  <2>1. /\ UNCHANGED <<lists, known, json, config, off>>
        /\ \A e \in Teller : call'[e] = call[e] \/ call'[e] = NoCall
    BY <1>4 DEF Refuse, books, node, Typed
  <2> QED BY <2>1 DEF Holds
<1>5. ASSUME NEW d \in Teller, OtherReads(d) PROVE Holds'
  <2>1. /\ UNCHANGED <<lists, known, json, config, off>>
        /\ \A e \in Teller \ {d} : call'[e] = call[e]
        /\ call'[d] = [call[d] EXCEPT !.at = "reading"]
        /\ call[d] # NoCall
    BY <1>5 DEF OtherReads, books, node, Typed
  <2>2. PICK c \in Call : c = call[d] BY <2>1 DEF Typed
  <2> DEFINE n == call'[d]
  <2>3. n = [c EXCEPT !.at = "reading"] BY <2>1, <2>2
  <2> HIDE DEF n
  <2>4. /\ n.wanted = c.wanted /\ n.next = c.next /\ n.seen = c.seen
        /\ n.gone = c.gone /\ n.at = "reading"
    BY <2>3 DEF Call
  <2>5. CallHolds(n, known, config)
    BY <2>1, <2>2, <2>4 DEF Holds, CallHolds
  <2> QED BY <2>1, <2>5 DEF Holds, n
<1>6. ASSUME NEW d \in Teller, OtherWalks(d) PROVE Holds'
  <2>1. lists' = lists BY <1>6 DEF OtherWalks, books
  <2>2. d # Holder BY <1>6 DEF OtherWalks, Reading
  <2> QED BY <1>6, <2>1, <2>2, WalkHolds DEF Holds
<1>7. ASSUME NEW d \in Teller, Answer(d) PROVE Holds'
  <2>1. /\ call[d] # NoCall /\ call[d].at = "config"
        /\ json' = config /\ off' = off \cup call[d].gone
        /\ UNCHANGED <<lists, known, config>>
        /\ \A e \in Teller : call'[e] = call[e] \/ call'[e] = NoCall
    BY <1>7 DEF Answer, books, Typed
  <2>2. CallHolds(call[d], known, config) BY <2>1 DEF Holds
  <2>3. /\ call[d].gone \cap known = {} /\ call[d].gone \cap config = {}
    BY <2>1, <2>2 DEF CallHolds
  <2>4. off' \cap (known' \cup json' \cup config') = {}
    BY <2>1, <2>3 DEF Holds
  <2> QED BY <2>1, <2>4 DEF Holds
<1>8. ASSUME NEW d \in Teller, Arrive(d) PROVE Holds'
  BY <1>8 DEF Arrive, node, Holds, CallHolds
<1>9. ASSUME NEW d \in Teller, Tell(d) PROVE Holds'
  <2> DEFINE n == call'[d]
  <2>1. /\ UNCHANGED <<lists, known, json, config, off>>
        /\ \A e \in Teller \ {d} : call'[e] = call[e]
        /\ n = [at |-> "asked", wanted |-> lists[has[d]], next |-> {},
                seen |-> {}, gone |-> {}]
    BY <1>9 DEF Tell, books, node, Typed
  <2> HIDE DEF n
  <2>2. Steady \subseteq lists[has[d]] BY DEF Holds, Typed
  <2>3. CallHolds(n, known, config) BY <2>1, <2>2 DEF CallHolds
  <2> QED BY <2>1, <2>3 DEF Holds, n
<1>10. ASSUME NEW d \in Teller, NEW p \in Movable, ChangeList(d, p)
       PROVE  Holds'
  <2> DEFINE list == lists[has[d]]
             next == IF p \in list THEN list \ {p} ELSE list \cup {p}
  <2>1. /\ UNCHANGED <<call, known, json, config, off>>
        /\ lists' = Append(lists, next)
    BY <1>10 DEF ChangeList, node
  <2>2. Steady \subseteq next BY DEF Holds, Typed, Steady
  <2> HIDE DEF next
  <2>3. lists \in Seq(SUBSET Peer) BY DEF Typed
  <2>4. \A i \in 1..Len(lists') : Steady \subseteq lists'[i]
    <3>1. /\ Len(lists') = Len(lists) + 1 /\ lists'[Len(lists')] = next
          /\ \A i \in 1..Len(lists) : lists'[i] = lists[i]
      BY <2>1, <2>3
    <3> QED BY <2>2, <2>3, <3>1 DEF Holds
  <2> QED BY <2>1, <2>4 DEF Holds, CallHolds
<1>11. ASSUME NEW p \in Caller, Use(p) \/ Renew(p) PROVE Holds'
  BY <1>11 DEF Use, Renew, Change, books, Holds, CallHolds
<1>12. CASE NextDay BY <1>12 DEF NextDay, books, node, Holds, CallHolds
<1>13. CASE Restart
  <2>1. /\ UNCHANGED <<lists, json, off>> /\ known' = json /\ config' = json
        /\ \A d \in Teller : call'[d] = NoCall
    BY <1>13 DEF Restart, books
  <2> QED BY <2>1 DEF Holds
<1> QED
  BY <1>1, <1>2, <1>3, <1>4, <1>5, <1>6, <1>7, <1>8, <1>9, <1>10, <1>11,
     <1>12, <1>13
  DEF Next, Handler

\* A removal that the bridge answered holds, across overlapping calls and
\* restarts, until the holder lists the device again, if one device is moved.
THEOREM RemovalStays ==
    ASSUME BridgeNodeAssumption, \A p, q \in Movable : p = q
    PROVE  Spec => []RemovalHolds
<1>1. Init => Holds /\ call[Holder].at # "reading"
  <2> SUFFICES ASSUME Init PROVE Holds /\ call[Holder].at # "reading" OBVIOUS
  <2>1. /\ lists = << Steady >> /\ known = Steady /\ json = Steady
        /\ config = Steady /\ off = {} /\ call = [d \in Teller |-> NoCall]
    BY DEF Init, Steady
  <2>2. Holder \in Teller BY DEF BridgeNodeAssumption
  <2> QED BY <2>1, <2>2 DEF Holds, NoCall
<1>2. IInv /\ Holds /\ call[Holder].at # "reading" /\ [Next]_vars
        => Holds' /\ (call[Holder].at # "reading")'
  BY HoldsStep, HolderStep DEF IInv
<1>3. Holds => RemovalHolds BY DEF Holds, RemovalHolds
<1> QED BY <1>1, <1>2, <1>3, Inductive, PTL DEF Spec
=============================================================================
