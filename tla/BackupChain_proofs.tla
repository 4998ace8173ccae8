-------------------------- MODULE BackupChain_proofs --------------------------
(***************************************************************************)
(* Proofs about BackupChain for every set of devices and entries and any   *)
(* number of backups and failures.  That a restore brings back what the    *)
(* chain shipped is proved where Aleph refuses a backup only while a       *)
(* device waits for its word (LateRefusals = FALSE); backup_refused.cfg    *)
(* shows what a later refusal does.                                        *)
(***************************************************************************)
EXTENDS BackupChain, FiniteSetTheorems, TLAPS

\* What Aleph has taken for good: no run waits for its word on it.
Settled == { o \in store : Kept(o) /\ ~Awaited(o) }

\* A chain that stands on a full backup of B, on parts of it in S, and on
\* increments in S from the first to the last it counts.
Sound(c, B, S) ==
    /\ c.base \in B
    /\ \A x \in c.heads :
           \E o \in S : (o.id = c.base \/ o.ref = c.base) /\ x \in o.entries
    /\ \A m \in 1..c.sequence :
           \E o \in S : o.ref = c.base /\ o.sequence = m

\* What a run was sent for, against the chain it goes on from.
Ships(r, o) ==
    IF r.full THEN o.kind = "full" /\ r.heads \subseteq o.entries
    ELSE /\ r.heads \subseteq o.entries \cup r.continuing.heads
         /\ o.sequence = r.continuing.sequence + 1

\* The first full backup is there, ids are given one after the other, and two
\* runs never wait for one backup.
Ids ==
    /\ 1 \in Bases
    /\ IsFiniteSet(store)
    /\ \A o \in store : o.id \in 1..Cardinality(store)
    /\ \A d, e \in Device :
           run[d].phase = "sent" /\ run[e].phase = "sent"
              /\ run[d].id = run[e].id => d = e

\* So is every chain, and what a run goes on from.
ChainsAreSound ==
    \A d \in Device : /\ Sound(chain[d], Bases, Settled)
                      /\ Sound(run[d].continuing, Bases, Settled)

\* A run has read no more than its chain shipped, and was sent for a backup
\* with everything it moves the chain to.
RunsAreSound ==
    \A d \in Device :
        /\ run[d].phase = "reading" =>
               run[d].had \subseteq run[d].continuing.heads
        /\ run[d].phase = "sent" =>
               \E o \in store : o.id = run[d].id /\ Ships(run[d], o)

\* An increment was sent after the ones before it had settled.
InOrder ==
    \A o \in store : o.ref # NoRef =>
        \A m \in 1..o.sequence - 1 :
            \E p \in Settled : p.ref = o.ref /\ p.sequence = m

IInv == TypeOK /\ Ids /\ ChainsAreSound /\ RunsAreSound /\ InOrder

-----------------------------------------------------------------------------
(* Type correctness, which rests on some of the rest: the chain moves to   *)
(* the base its run went on from, or to the full backup it made.           *)

\* More bases and more settled parts leave a chain sound.
LEMMA SoundGrows ==
    ASSUME NEW c, NEW B, NEW C, NEW S, NEW T, B \subseteq C, S \subseteq T,
           Sound(c, B, S)
    PROVE  Sound(c, C, T)
BY DEF Sound

\* Idle runs go on from the first chain, which has nothing.
LEMMA IdleType ==
    ASSUME BackupAssumption, NEW d \in Device
    PROVE  /\ FirstChain \in Chain /\ Idle \in Run
           /\ FirstChain.base = 1 /\ FirstChain.heads = {}
           /\ FirstChain.sequence = 0
           /\ Idle.phase = "idle" /\ Idle.continuing = FirstChain
<1>1. (CHOOSE e \in Device : TRUE) \in Device OBVIOUS
<1>2. FirstChain \in Chain BY <1>1 DEF FirstChain, Chain
<1> QED BY <1>2 DEF FirstChain, Idle, Run, NoRef

\* What a run ships, and the chain it moves to, are well typed.
LEMMA RunType ==
    ASSUME BackupAssumption, TypeOK, NEW d \in Device
    PROVE  /\ NewEntries(run[d], has[d]) \subseteq Entry
           /\ HeadsAfter(run[d], has[d]) \subseteq Entry
           /\ Number(run[d]) \in Nat
           /\ \A tick \in 1..MaxTick : NewChain(d, run[d], tick) \in Chain
<1>1. run[d] \in Run /\ chain[d] \in Chain /\ has[d] \subseteq Entry
  BY DEF TypeOK
<1>2. Number(run[d]) \in Nat BY <1>1 DEF Run, Chain, Number
<1>3. BaseAfter(run[d]) \in Nat BY <1>1 DEF Run, Chain, BaseAfter
<1> QED
  BY <1>1, <1>2, <1>3
  DEF Run, Chain, NewEntries, HeadsAfter, NewChain, BackupAssumption

\* The run that begins: what it goes on from, and what it read of it.
LEMMA BeginType ==
    ASSUME BackupAssumption, TypeOK, NEW d \in Device, NEW full \in BOOLEAN,
           Begin(d, full, chain[d])
    PROVE  \E r \in Run :
               /\ run' = [run EXCEPT ![d] = r] /\ run[d].phase = "idle"
               /\ r.phase = "reading" /\ r.continuing = chain[d]
               /\ r.had \subseteq chain[d].heads
<1>1. /\ Idle \in Run /\ chain[d] \in Chain /\ has[d] \subseteq Entry
      /\ blob[d] \subseteq File /\ run[d].phase = "idle"
  BY IdleType DEF TypeOK, Begin
<1> DEFINE listed == (has[d] \cap File) \ chain[d].files
           q == [Idle EXCEPT !.phase = "reading", !.full = full,
                             !.continuing = chain[d]]
<1>2. CASE full
  <2>1. run' = [run EXCEPT ![d] = [q EXCEPT !.heads = has[d]]]
    BY <1>2 DEF Begin
  <2>2. q \in Run BY <1>1 DEF Run
  <2>3. q.phase = "reading" /\ q.continuing = chain[d] /\ q.had = {}
    BY DEF Idle
  <2> HIDE DEF q
  <2>4. [q EXCEPT !.heads = has[d]] \in Run BY <1>1, <2>2 DEF Run
  <2>5. /\ [q EXCEPT !.heads = has[d]].phase = "reading"
        /\ [q EXCEPT !.heads = has[d]].continuing = chain[d]
        /\ [q EXCEPT !.heads = has[d]].had = {}
    BY <2>2, <2>3 DEF Run
  <2> QED BY <1>1, <2>1, <2>4, <2>5
<1>3. CASE ~full
  <2>1. PICK had \in Reachable(chain[d], has[d]) :
          run' = [run EXCEPT ![d] = [q EXCEPT !.had = had, !.files = listed,
                                              !.held = listed \cap blob[d]]]
    BY <1>3 DEF Begin
  <2>2. had \subseteq chain[d].heads BY DEF Reachable
  <2>3. chain[d].heads \subseteq Entry BY <1>1 DEF Chain
  <2>4. q \in Run BY <1>1 DEF Run
  <2>5. q.phase = "reading" /\ q.continuing = chain[d] BY DEF Idle
  <2> HIDE DEF q
  <2> DEFINE r == [q EXCEPT !.had = had, !.files = listed,
                            !.held = listed \cap blob[d]]
  <2>6. r \in Run BY <1>1, <2>2, <2>3, <2>4 DEF Run
  <2>7. r.phase = "reading" /\ r.continuing = chain[d] /\ r.had = had
    BY <2>4, <2>5 DEF Run
  <2> HIDE DEF r
  <2> QED BY <1>1, <2>1, <2>2, <2>6, <2>7 DEF r
<1> QED BY <1>2, <1>3

\* What a step may do to the runs and to what Aleph has: begin or end a run
\* without a word to Aleph, send what a run packed, or refuse something.
LEMMA StepKinds ==
    ASSUME BackupAssumption, TypeOK, [Next]_vars
    PROVE  \/ UNCHANGED <<run, store, chain>>
           \/ UNCHANGED <<run, store>>
              /\ \E d, e \in Device : chain' = [chain EXCEPT ![d] = chain[e]]
           \/ UNCHANGED <<store, chain>>
              /\ \E d \in Device, full \in BOOLEAN : Begin(d, full, chain[d])
           \/ UNCHANGED <<store, chain>>
              /\ \E d \in Device : run' = [run EXCEPT ![d] = Idle]
           \/ \E d \in Device, o \in store, t \in 1..MaxTick : Finish(d, o, t)
           \/ \E d \in Device, ref \in Nat : Send(d, ref)
           \/ \E o \in store : Refuse(o)
<1>1. ASSUME NEW d \in Device, Send(d, NoRef) PROVE \E n \in Nat : Send(d, n)
  BY <1>1 DEF NoRef
<1>2. ASSUME NEW d \in Device,
             Send(d, IF run[d].full THEN NoRef ELSE run[d].continuing.base)
      PROVE  \E n \in Nat : Send(d, n)
  <2>1. run[d].continuing.base \in Nat BY DEF TypeOK, Run, Chain
  <2> QED BY <1>2, <2>1 DEF NoRef
<1> QED
  BY <1>1, <1>2
  DEF Next, vars, Books, Backup, Write, SyncEntry, SyncFile, SyncChain,
      BackUp, BackUpByItself, EndEmpty, Fail

\* What was settled stays, and so do the full backups.
LEMMA SettledStays ==
    ASSUME BackupAssumption, LateRefusals = FALSE, TypeOK, Ids, [Next]_vars
    PROVE  Bases \subseteq Bases' /\ Settled \subseteq Settled'
<1>1. CASE UNCHANGED <<run, store>>
  BY <1>1 DEF Bases, Settled, Awaited
<1>2. ASSUME NEW d \in Device, NEW r, r.phase # "sent",
             run' = [run EXCEPT ![d] = r], store' = store
      PROVE  Bases \subseteq Bases' /\ Settled \subseteq Settled'
  BY <1>2 DEF Bases, Settled, Awaited, TypeOK
<1>3. ASSUME NEW d \in Device, NEW full \in BOOLEAN, store' = store,
             Begin(d, full, chain[d])
      PROVE  Bases \subseteq Bases' /\ Settled \subseteq Settled'
  BY <1>2, <1>3, BeginType
<1>4. ASSUME NEW d \in Device, store' = store,
             run' = [run EXCEPT ![d] = Idle]
      PROVE  Bases \subseteq Bases' /\ Settled \subseteq Settled'
  BY <1>2, <1>4, IdleType
<1>5. ASSUME NEW d \in Device, NEW ref \in Nat, Send(d, ref)
      PROVE  Bases \subseteq Bases' /\ Settled \subseteq Settled'
  <2>1. store \subseteq store' BY <1>5 DEF Send
  <2>2. /\ run'[d].id = Cardinality(store) + 1
        /\ \A e \in Device \ {d} : run'[e] = run[e]
    BY <1>5 DEF Send, TypeOK, Run
  <2>3. \A o \in store : o.id # run'[d].id
    BY <2>2, FS_CardinalityType DEF Ids
  <2>4. \A o \in store : Awaited(o)' => Awaited(o)
    BY <2>2, <2>3 DEF Awaited
  <2> QED BY <2>1, <2>4 DEF Bases, Settled, Kept
<1>6. ASSUME NEW o \in store, Refuse(o)
      PROVE  Bases \subseteq Bases' /\ Settled \subseteq Settled'
  <2> DEFINE q == [o EXCEPT !.refused = TRUE]
  <2>1. o \in Object BY DEF TypeOK
  <2>2. q.id = o.id /\ q.kind = o.kind BY <2>1 DEF Object
  <2>3. store' = (store \ {o}) \cup {q} /\ run' = run /\ Awaited(o)
    BY <1>6 DEF Refuse
  <2> HIDE DEF q
  <2>4. Bases \subseteq Bases' BY <2>2, <2>3 DEF Bases
  <2>5. ASSUME NEW p \in Settled PROVE p \in Settled'
    BY <2>3, <2>5 DEF Settled, Awaited, Kept
  <2> QED BY <2>4, <2>5
<1> QED BY <1>1, <1>2, <1>3, <1>4, <1>5, <1>6, StepKinds, IdleType DEF Finish

\* What is sent, and the run that waits for Aleph's word on it.
LEMMA SendType ==
    ASSUME BackupAssumption, TypeOK, Ids, NEW d \in Device, NEW ref \in Nat,
           Send(d, ref)
    PROVE  \E s \in Object, r \in Run :
             /\ store' = store \cup {s} /\ run' = [run EXCEPT ![d] = r]
             /\ UNCHANGED chain /\ run[d].phase = "reading"
             /\ s.id = Cardinality(store) + 1 /\ s.ref = ref
             /\ s.kind = IF run[d].full THEN "full" ELSE "increment"
             /\ s.sequence = Number(run[d])
             /\ s.entries = NewEntries(run[d], has[d])
             /\ r.phase = "sent" /\ r.id = s.id /\ r.full = run[d].full
             /\ r.continuing = run[d].continuing
             /\ r.heads = HeadsAfter(run[d], has[d])
<1> DEFINE s == [id |-> Cardinality(store) + 1,
                 kind |-> IF run[d].full THEN "full" ELSE "increment",
                 ref |-> ref, sequence |-> Number(run[d]),
                 entries |-> NewEntries(run[d], has[d]),
                 files |-> IF run[d].full THEN has[d] \cap File \cap blob[d]
                           ELSE run[d].held,
                 refused |-> FALSE]
           r == run'[d]
<1>1. /\ run[d] \in Run /\ has[d] \subseteq Entry /\ blob[d] \subseteq File
      /\ Cardinality(store) \in Nat
  BY FS_CardinalityType DEF TypeOK, Ids
<1>2. store' = store \cup {s} /\ UNCHANGED chain /\ run[d].phase = "reading"
  BY DEF Send
<1>3. s \in Object BY <1>1, RunType DEF Object, Run
<1>4. run' = [run EXCEPT ![d] =
                [run[d] EXCEPT
                   !.phase = "sent", !.id = Cardinality(store) + 1,
                   !.had = {}, !.held = {},
                   !.heads = HeadsAfter(run[d], has[d]),
                   !.files = IF run[d].full THEN has[d] \cap File ELSE @]]
  BY DEF Send, TypeOK
<1>5. /\ r = [run[d] EXCEPT
                !.phase = "sent", !.id = Cardinality(store) + 1,
                !.had = {}, !.held = {},
                !.heads = HeadsAfter(run[d], has[d]),
                !.files = IF run[d].full THEN has[d] \cap File ELSE @]
      /\ run' = [run EXCEPT ![d] = r]
  BY <1>4 DEF TypeOK
<1>6. /\ r \in Run /\ r.phase = "sent" /\ r.id = Cardinality(store) + 1
      /\ r.full = run[d].full /\ r.continuing = run[d].continuing
      /\ r.heads = HeadsAfter(run[d], has[d])
  <2> DEFINE H == HeadsAfter(run[d], has[d])
             F == IF run[d].full THEN has[d] \cap File ELSE run[d].files
             n == Cardinality(store) + 1
  <2>1. H \in SUBSET Entry /\ F \in SUBSET File /\ n \in Nat
    <3>1. H \in SUBSET Entry BY RunType
    <3>2. F \in SUBSET File BY <1>1 DEF Run
    <3>3. n \in Nat BY <1>1
    <3> QED BY <3>1, <3>2, <3>3
  <2>2. r = [run[d] EXCEPT !.phase = "sent", !.id = n, !.had = {},
                           !.held = {}, !.heads = H, !.files = F]
    BY <1>5
  <2> HIDE DEF r, s, H, F, n
  <2>3. /\ r \in Run /\ r.phase = "sent" /\ r.id = n /\ r.heads = H
        /\ r.full = run[d].full /\ r.continuing = run[d].continuing
    BY <1>1, <2>1, <2>2 DEF Run
  <2> QED BY <2>3 DEF H, n
<1>7. /\ s.id = Cardinality(store) + 1 /\ s.ref = ref
      /\ s.kind = IF run[d].full THEN "full" ELSE "increment"
      /\ s.sequence = Number(run[d])
      /\ s.entries = NewEntries(run[d], has[d])
  OBVIOUS
<1> HIDE DEF s, r
<1> QED BY <1>2, <1>3, <1>5, <1>6, <1>7

\* What is sent ships what its run moves the chain to, in its order.
LEMMA SendShips ==
    ASSUME BackupAssumption, TypeOK, RunsAreSound, ChainsAreSound,
           NEW d \in Device, NEW ref \in Nat, Send(d, ref),
           NEW s \in Object, NEW r \in Run,
           s.ref = ref, s.sequence = Number(run[d]),
           s.kind = IF run[d].full THEN "full" ELSE "increment",
           s.entries = NewEntries(run[d], has[d]), r.full = run[d].full,
           r.continuing = run[d].continuing,
           r.heads = HeadsAfter(run[d], has[d])
    PROVE  /\ Ships(r, s)
           /\ s.ref # NoRef => \A m \in 1..s.sequence - 1 :
                  \E p \in Settled : p.ref = s.ref /\ p.sequence = m
<1>1. run[d] \in Run /\ run[d].continuing \in Chain
  BY DEF TypeOK, Run
<1>2. CASE run[d].full
  <2>1. Ships(r, s) BY <1>2 DEF Ships, HeadsAfter, NewEntries
  <2>2. s.ref = NoRef BY <1>2 DEF Send
  <2> QED BY <2>1, <2>2
<1>3. CASE ~run[d].full
  <2>1. run[d].had \subseteq run[d].continuing.heads
    BY DEF Send, RunsAreSound
  <2>2. s.sequence = run[d].continuing.sequence + 1
    BY <1>3 DEF Number
  <2>3. Ships(r, s)
    BY <1>3, <2>1, <2>2 DEF Ships, HeadsAfter, NewEntries
  <2>4. s.ref \in {NoRef, run[d].continuing.base} BY DEF Send
  <2>5. s.sequence - 1 = run[d].continuing.sequence
    BY <1>1, <2>2 DEF Chain
  <2>6. Sound(run[d].continuing, Bases, Settled) BY DEF ChainsAreSound
  <2> QED BY <2>3, <2>4, <2>5, <2>6 DEF Sound
<1> QED BY <1>2, <1>3

-----------------------------------------------------------------------------
(* The steps.                                                              *)

\* The books' entries and files keep their types.
LEMMA BooksType ==
    ASSUME BackupAssumption, TypeOK, [Next]_vars
    PROVE  /\ has' \in [Device -> SUBSET Entry]
           /\ blob' \in [Device -> SUBSET File]
<1>1. has \in [Device -> SUBSET Entry] /\ blob \in [Device -> SUBSET File]
  BY DEF TypeOK
<1>2. ASSUME NEW d \in Device, NEW x \in Entry, Write(d, x)
      PROVE  /\ has' \in [Device -> SUBSET Entry]
             /\ blob' \in [Device -> SUBSET File]
  BY <1>1, <1>2 DEF Write
<1>3. ASSUME NEW d \in Device, NEW e \in Device, NEW x \in Entry,
             SyncEntry(d, e, x) \/ SyncFile(d, e, x)
      PROVE  /\ has' \in [Device -> SUBSET Entry]
             /\ blob' \in [Device -> SUBSET File]
  BY <1>1, <1>3 DEF SyncEntry, SyncFile
<1>4. CASE UNCHANGED <<has, blob>> BY <1>1, <1>4
<1>5. CASE Books BY <1>2, <1>3, <1>4, <1>5 DEF Books, SyncChain
<1>6. ASSUME NEW d \in Device, Backup(d) PROVE UNCHANGED <<has, blob>>
  BY <1>6 DEF Backup, BackUpByItself, EndEmpty, Send, Finish
<1>7. ASSUME NEW d \in Device, NEW full \in BOOLEAN,
             Fail(d) \/ Send(d, NoRef) \/ BackUp(d, full)
      PROVE  UNCHANGED <<has, blob>>
  BY <1>7 DEF Fail, Send, BackUp
<1>8. ASSUME NEW o \in store, Refuse(o) PROVE UNCHANGED <<has, blob>>
  BY <1>8 DEF Refuse
<1> QED BY <1>4, <1>5, <1>6, <1>7, <1>8 DEF Next, vars

\* A chain or a run that changes without a word from or to Aleph.
LEMMA QuietStep ==
    ASSUME BackupAssumption, LateRefusals = FALSE, IInv, [Next]_vars,
           store' = store,
           chain' \in [Device -> Chain], run' \in [Device -> Run],
           \A d \in Device : chain'[d].base \in Bases,
           \A d \in Device : Sound(chain'[d], Bases, Settled'),
           \A d \in Device :
               \/ run'[d] = run[d]
               \/ /\ run'[d].phase # "sent"
                  /\ run'[d].phase = "reading" =>
                         run'[d].had \subseteq run'[d].continuing.heads
                  /\ Sound(run'[d].continuing, Bases, Settled')
    PROVE  IInv'
<1>1. Bases' = Bases BY DEF Bases
<1>2. Settled \subseteq Settled' BY SettledStays DEF IInv
<1>3. TypeOK' BY <1>1, BooksType DEF IInv, TypeOK
<1>4. Ids' BY <1>1 DEF IInv, Ids
<1>5. RunsAreSound' BY DEF IInv, RunsAreSound
<1>6. InOrder' BY <1>2 DEF IInv, InOrder
<1>7. ChainsAreSound'
  <2>1. \A d \in Device : Sound(run[d].continuing, Bases, Settled')
    BY <1>2, SoundGrows DEF IInv, ChainsAreSound
  <2> QED BY <1>1, <2>1 DEF ChainsAreSound
<1> QED BY <1>3, <1>4, <1>5, <1>6, <1>7 DEF IInv

\* The chain Finish moves to stands on what Aleph took.
LEMMA MovedIsSound ==
    ASSUME BackupAssumption, LateRefusals = FALSE, IInv, [Next]_vars,
           NEW d \in Device, NEW o \in store, NEW t \in 1..MaxTick,
           Finish(d, o, t), Moves(run[d], o)
    PROVE  Sound(NewChain(d, run[d], t), Bases, Settled')
<1> DEFINE r == run[d]
           c == NewChain(d, r, t)
<1> SUFFICES Sound(c, Bases, Settled') OBVIOUS
<1>1. /\ r.phase = "sent" /\ o.id = r.id /\ store' = store
      /\ run' = [run EXCEPT ![d] = Idle] /\ Kept(o)
  BY DEF Finish, Moves
<1>2. Ships(r, o) BY <1>1 DEF IInv, RunsAreSound, TypeOK
<1>3. o \in Settled'
  <2>1. run'[d].phase = "idle" BY <1>1, IdleType DEF IInv, TypeOK
  <2>2. ASSUME NEW e \in Device, run'[e].phase = "sent", run'[e].id = o.id
        PROVE  FALSE
    <3>1. e # d BY <2>1, <2>2
    <3>2. run[e].phase = "sent" /\ run[e].id = r.id
      BY <1>1, <2>2, <3>1 DEF IInv, TypeOK
    <3> QED BY <1>1, <3>1, <3>2 DEF IInv, Ids
  <2> QED BY <1>1, <2>2 DEF Settled, Awaited
<1>4. Settled \subseteq Settled' BY SettledStays DEF IInv
<1>5. Sound(r.continuing, Bases, Settled')
  BY <1>4, SoundGrows DEF IInv, ChainsAreSound
<1>6. /\ c.base = BaseAfter(r) /\ c.heads = r.heads
      /\ c.sequence = Number(r)
  BY DEF NewChain
<1>7. CASE r.full
  <2>1. /\ c.base = r.id /\ c.sequence = 0
        /\ o.kind = "full" /\ c.heads \subseteq o.entries
    BY <1>2, <1>6, <1>7 DEF BaseAfter, Number, Ships
  <2>2. r.id \in Bases BY <1>1, <2>1 DEF Bases
  <2> HIDE DEF c, r
  <2> QED BY <1>1, <1>3, <2>1, <2>2 DEF Sound
<1>8. CASE ~r.full
  <2>1. /\ c.base = r.continuing.base /\ o.ref = c.base
        /\ c.sequence = r.continuing.sequence + 1
        /\ o.sequence = c.sequence
        /\ c.heads \subseteq o.entries \cup r.continuing.heads
    BY <1>2, <1>6, <1>8 DEF BaseAfter, Number, Ships, Moves
  <2>2. r.continuing.sequence \in Nat BY DEF IInv, TypeOK, Run, Chain
  <2> HIDE DEF c, r
  <2>3. ASSUME NEW m \in 1..c.sequence
        PROVE  \E p \in Settled' : p.ref = c.base /\ p.sequence = m
    <3>1. CASE m = c.sequence BY <1>3, <2>1, <3>1
    <3>2. CASE m # c.sequence
      <4>1. m \in 1..r.continuing.sequence BY <2>1, <2>2, <3>2
      <4> QED BY <1>5, <2>1, <4>1 DEF Sound
    <3> QED BY <3>1, <3>2
  <2> QED BY <1>3, <1>5, <2>1, <2>3 DEF Sound
<1> QED BY <1>7, <1>8

\* Sending keeps the invariant.
LEMMA SendStep ==
    ASSUME BackupAssumption, LateRefusals = FALSE, IInv, [Next]_vars,
           NEW d \in Device, NEW ref \in Nat, Send(d, ref)
    PROVE  IInv'
<1>1. PICK s \in Object, r \in Run :
             /\ store' = store \cup {s} /\ run' = [run EXCEPT ![d] = r]
             /\ UNCHANGED chain /\ run[d].phase = "reading"
             /\ s.id = Cardinality(store) + 1 /\ s.ref = ref
             /\ s.kind = IF run[d].full THEN "full" ELSE "increment"
             /\ s.sequence = Number(run[d])
             /\ s.entries = NewEntries(run[d], has[d])
             /\ r.phase = "sent" /\ r.id = s.id /\ r.full = run[d].full
             /\ r.continuing = run[d].continuing
             /\ r.heads = HeadsAfter(run[d], has[d])
  BY SendType DEF IInv
<1>2. /\ Ships(r, s)
      /\ s.ref # NoRef => \A m \in 1..s.sequence - 1 :
             \E p \in Settled : p.ref = s.ref /\ p.sequence = m
  BY <1>1, SendShips DEF IInv
<1>3. Bases \subseteq Bases' /\ Settled \subseteq Settled'
  BY SettledStays DEF IInv
<1>4. /\ run' \in [Device -> Run] /\ run'[d] = r
      /\ \A e \in Device \ {d} : run'[e] = run[e]
  BY <1>1 DEF IInv, TypeOK
<1>5. Cardinality(store) \in Nat /\ IsFiniteSet(store)
      /\ \A o \in store : o.id \in 1..Cardinality(store)
  BY FS_CardinalityType DEF IInv, Ids
<1>6. s \notin store BY <1>1, <1>5
<1>7. IsFiniteSet(store') /\ Cardinality(store') = Cardinality(store) + 1
  BY <1>1, <1>5, <1>6, FS_AddElement
<1>8. TypeOK'
  <2>1. \A o, p \in store' : o.id = p.id => o = p
    BY <1>1, <1>5 DEF IInv, TypeOK
  <2>2. \A e \in Device : chain'[e].base \in Bases'
    BY <1>1, <1>3 DEF IInv, TypeOK
  <2>3. store' \subseteq Object BY <1>1 DEF IInv, TypeOK
  <2> QED BY <1>1, <1>4, <2>1, <2>2, <2>3, BooksType DEF IInv, TypeOK
<1>9. Ids'
  <2>1. \A o \in store' : o.id \in 1..Cardinality(store')
    BY <1>1, <1>5, <1>7
  <2>2. ASSUME NEW e \in Device, e # d, run[e].phase = "sent"
        PROVE  run[e].id # r.id
    <3>1. PICK o \in store : o.id = run[e].id
      BY <2>2 DEF IInv, RunsAreSound
    <3> QED BY <1>1, <1>5, <3>1
  <2>3. \A e, f \in Device :
           run'[e].phase = "sent" /\ run'[f].phase = "sent"
              /\ run'[e].id = run'[f].id => e = f
    BY <1>4, <2>2 DEF IInv, Ids
  <2>4. 1 \in Bases' BY <1>3 DEF IInv, Ids
  <2> QED BY <1>7, <2>1, <2>3, <2>4 DEF Ids
<1>10. ChainsAreSound'
  <2>1. ASSUME NEW e \in Device
        PROVE  /\ Sound(chain[e], Bases', Settled')
               /\ Sound(run[e].continuing, Bases', Settled')
    BY <1>3, SoundGrows DEF IInv, ChainsAreSound
  <2> QED BY <1>1, <1>4, <2>1 DEF ChainsAreSound
<1>11. RunsAreSound'
  <2>1. s \in store' /\ store \subseteq store' BY <1>1
  <2> QED BY <1>1, <1>2, <1>4, <2>1 DEF IInv, RunsAreSound
<1>12. InOrder' BY <1>1, <1>2, <1>3 DEF IInv, InOrder
<1> QED BY <1>8, <1>9, <1>10, <1>11, <1>12 DEF IInv

\* Aleph's refusal of a backup a run waits for keeps it.
LEMMA RefuseStep ==
    ASSUME BackupAssumption, LateRefusals = FALSE, IInv, [Next]_vars,
           NEW o \in store, Refuse(o)
    PROVE  IInv'
<1> DEFINE q == [o EXCEPT !.refused = TRUE]
<1>1. o \in Object BY DEF IInv, TypeOK
<1>2. /\ q \in Object /\ q.id = o.id /\ q.kind = o.kind /\ q.ref = o.ref
      /\ q.sequence = o.sequence /\ q.entries = o.entries
  BY <1>1 DEF Object
<1>3. store' = (store \ {o}) \cup {q} /\ UNCHANGED <<run, chain>>
  BY DEF Refuse
<1> HIDE DEF q
<1>4. Bases \subseteq Bases' /\ Settled \subseteq Settled'
  BY SettledStays DEF IInv
<1>5. IsFiniteSet(store) /\ Cardinality(store) \in Nat
  BY FS_CardinalityType DEF IInv, Ids
<1>6. IsFiniteSet(store') /\ Cardinality(store') = Cardinality(store)
  <2>1. /\ IsFiniteSet(store \ {o})
        /\ Cardinality(store \ {o}) = Cardinality(store) - 1
    BY <1>5, FS_RemoveElement
  <2>2. q \notin store \ {o} BY <1>2 DEF IInv, TypeOK
  <2> DEFINE rest == store \ {o}
  <2>3. IsFiniteSet(rest) /\ Cardinality(rest) = Cardinality(store) - 1
    BY <2>1
  <2> HIDE DEF rest
  <2>4. /\ IsFiniteSet(rest \cup {q})
        /\ q \notin rest => Cardinality(rest \cup {q}) = Cardinality(rest) + 1
    BY <2>3, FS_AddElement
  <2>5. store' = rest \cup {q} BY <1>3 DEF rest
  <2>6. q \notin rest BY <2>2 DEF rest
  <2> QED BY <1>5, <2>3, <2>4, <2>5, <2>6
<1>7. TypeOK'
  <2>1. \A p, u \in store' : p.id = u.id => p = u
    BY <1>2, <1>3 DEF IInv, TypeOK
  <2>2. \A e \in Device : chain'[e].base \in Bases'
    BY <1>3, <1>4 DEF IInv, TypeOK
  <2>3. store' \subseteq Object BY <1>2, <1>3 DEF IInv, TypeOK
  <2> QED BY <1>3, <2>1, <2>2, <2>3, BooksType DEF IInv, TypeOK
<1>8. Ids' BY <1>2, <1>3, <1>4, <1>6 DEF IInv, Ids
<1>9. ChainsAreSound'
  <2>1. ASSUME NEW e \in Device
        PROVE  /\ Sound(chain[e], Bases', Settled')
               /\ Sound(run[e].continuing, Bases', Settled')
    BY <1>4, SoundGrows DEF IInv, ChainsAreSound
  <2> QED BY <1>3, <2>1 DEF ChainsAreSound
<1>10. RunsAreSound'
  <2>1. ASSUME NEW e \in Device, run[e].phase = "sent"
        PROVE  \E p \in store' : p.id = run[e].id /\ Ships(run[e], p)
    <3>1. PICK p \in store : p.id = run[e].id /\ Ships(run[e], p)
      BY <2>1 DEF IInv, RunsAreSound
    <3>2. CASE p = o BY <1>2, <1>3, <3>1, <3>2 DEF Ships
    <3>3. CASE p # o BY <1>3, <3>1, <3>3
    <3> QED BY <3>2, <3>3
  <2> QED BY <1>3, <2>1 DEF IInv, RunsAreSound
<1>11. InOrder' BY <1>2, <1>3, <1>4 DEF IInv, InOrder
<1> QED BY <1>7, <1>8, <1>9, <1>10, <1>11 DEF IInv

\* Every step of the browsers, the page and the provider keeps the invariant.
LEMMA InvStep ==
    ASSUME BackupAssumption, LateRefusals = FALSE, IInv, [Next]_vars
    PROVE  IInv'
<1>1. Settled \subseteq Settled' BY SettledStays DEF IInv
<1>2. \A d \in Device : /\ Sound(chain[d], Bases, Settled')
                         /\ Sound(run[d].continuing, Bases, Settled')
                         /\ chain[d].base \in Bases
  BY <1>1, SoundGrows DEF IInv, TypeOK, ChainsAreSound
<1>3. ASSUME NEW d \in Device
      PROVE  /\ Idle \in Run /\ Idle.phase = "idle"
             /\ Sound(Idle.continuing, Bases, Settled')
  <2>1. /\ Idle \in Run /\ Idle.phase = "idle"
        /\ Idle.continuing = FirstChain /\ FirstChain.base = 1
        /\ FirstChain.heads = {} /\ FirstChain.sequence = 0
    BY IdleType
  <2>2. 1 \in Bases BY DEF IInv, Ids
  <2> QED BY <2>1, <2>2 DEF Sound
<1>4. chain \in [Device -> Chain] /\ run \in [Device -> Run]
  BY DEF IInv, TypeOK
<1>5. CASE UNCHANGED <<run, store, chain>> BY <1>2, <1>4, <1>5, QuietStep
<1>6. ASSUME NEW d \in Device, NEW e \in Device, UNCHANGED <<run, store>>,
             chain' = [chain EXCEPT ![d] = chain[e]]
      PROVE  IInv'
  BY <1>2, <1>4, <1>6, QuietStep
<1>7. ASSUME NEW d \in Device, NEW full \in BOOLEAN,
             UNCHANGED <<store, chain>>, Begin(d, full, chain[d])
      PROVE  IInv'
  <2>1. PICK r \in Run :
               /\ run' = [run EXCEPT ![d] = r] /\ run[d].phase = "idle"
               /\ r.phase = "reading" /\ r.continuing = chain[d]
               /\ r.had \subseteq chain[d].heads
    BY <1>7, BeginType DEF IInv
  <2>2. run'[d] = r /\ \A e \in Device \ {d} : run'[e] = run[e]
    BY <1>4, <2>1
  <2>3. run' \in [Device -> Run] BY <1>4, <2>1
  <2> QED BY <1>2, <1>4, <1>7, <2>1, <2>2, <2>3, QuietStep
<1>8. ASSUME NEW d \in Device, UNCHANGED <<store, chain>>,
             run' = [run EXCEPT ![d] = Idle]
      PROVE  IInv'
  <2>1. run'[d] = Idle /\ \A e \in Device \ {d} : run'[e] = run[e]
    BY <1>4, <1>8
  <2>2. run' \in [Device -> Run] BY <1>3, <1>4, <1>8
  <2> QED BY <1>2, <1>3, <1>4, <1>8, <2>1, <2>2, QuietStep
<1>9. ASSUME NEW d \in Device, NEW o \in store, NEW t \in 1..MaxTick,
             Finish(d, o, t)
      PROVE  IInv'
  <2>1. store' = store /\ run' = [run EXCEPT ![d] = Idle]
    BY <1>9 DEF Finish
  <2>2. run'[d] = Idle /\ \A e \in Device \ {d} : run'[e] = run[e]
    BY <1>4, <2>1
  <2>3. run' \in [Device -> Run] BY <1>3, <1>4, <2>1
  <2>4. CASE ~Moves(run[d], o)
    <3>1. chain' = chain BY <1>9, <2>4 DEF Finish
    <3> QED BY <1>8, <2>1, <3>1
  <2>5. CASE Moves(run[d], o)
    <3> DEFINE c == NewChain(d, run[d], t)
    <3>1. chain' = [chain EXCEPT ![d] = c] BY <1>9, <2>5 DEF Finish
    <3>2. Sound(c, Bases, Settled') BY <1>9, <2>5, MovedIsSound
    <3>3. c \in Chain BY RunType DEF IInv
    <3> HIDE DEF c
    <3>4. c.base \in Bases BY <3>2 DEF Sound
    <3>5. chain' \in [Device -> Chain] BY <1>4, <3>1, <3>3
    <3>6. \A e \in Device : /\ Sound(chain'[e], Bases, Settled')
                             /\ chain'[e].base \in Bases
      BY <1>2, <1>4, <3>1, <3>2, <3>4
    <3> QED BY <1>3, <2>1, <2>2, <2>3, <3>5, <3>6, QuietStep
  <2> QED BY <2>4, <2>5
<1>10. ASSUME NEW d \in Device, NEW ref \in Nat, Send(d, ref) PROVE IInv'
  BY <1>10, SendStep
<1>11. ASSUME NEW o \in store, Refuse(o) PROVE IInv' BY <1>11, RefuseStep
<1> QED
  BY <1>5, <1>6, <1>7, <1>8, <1>9, <1>10, <1>11, StepKinds DEF IInv

-----------------------------------------------------------------------------
(* The theorems.                                                           *)

\* The first full backup is made, and nothing came after it.
LEMMA InvInit == ASSUME BackupAssumption, Device # {}, Init PROVE IInv
<1> DEFINE s == [id |-> 1, kind |-> "full", ref |-> NoRef, sequence |-> 0,
                 entries |-> {}, files |-> {}, refused |-> FALSE]
<1>1. /\ store = {s} /\ \A d \in Device : chain[d] = FirstChain
      /\ \A d \in Device : run[d] = Idle
  BY DEF Init
<1>2. s \in Object /\ s.id = 1 /\ s.kind = "full" /\ s.ref = NoRef
  BY DEF Object, NoRef
<1> HIDE DEF s
<1>3. PICK d \in Device : TRUE BY DEF Init
<1>4. /\ FirstChain \in Chain /\ Idle \in Run
      /\ FirstChain.base = 1 /\ FirstChain.heads = {}
      /\ FirstChain.sequence = 0
      /\ Idle.phase = "idle" /\ Idle.continuing = FirstChain
  BY <1>3, IdleType
<1>5. 1 \in Bases BY <1>1, <1>2 DEF Bases
<1>6. IsFiniteSet(store) /\ Cardinality(store) = 1
  BY <1>1, FS_Singleton
<1>7. TypeOK
  <2>1. /\ chain \in [Device -> Chain] /\ run \in [Device -> Run]
        /\ has \in [Device -> SUBSET Entry]
        /\ blob \in [Device -> SUBSET File]
    BY <1>4 DEF Init
  <2>2. store \subseteq Object /\ \A o, p \in store : o.id = p.id => o = p
    BY <1>1, <1>2
  <2> QED BY <1>1, <1>4, <1>5, <2>1, <2>2 DEF TypeOK
<1>8. Ids BY <1>1, <1>2, <1>4, <1>5, <1>6 DEF Ids
<1>9. ChainsAreSound
  <2>1. Sound(FirstChain, Bases, Settled) BY <1>4, <1>5 DEF Sound
  <2> QED BY <1>1, <1>4, <2>1 DEF ChainsAreSound
<1>10. RunsAreSound BY <1>1, <1>4 DEF RunsAreSound
<1>11. InOrder BY <1>1, <1>2 DEF InOrder
<1> QED BY <1>7, <1>8, <1>9, <1>10, <1>11 DEF IInv

\* The invariant is inductive where Aleph's answer comes while it is awaited.
THEOREM Inductive ==
    ASSUME BackupAssumption, Device # {}, LateRefusals = FALSE
    PROVE  Spec => []IInv
BY InvInit, InvStep, PTL DEF Spec

\* Types: the chain goes on from a full backup Aleph was sent, on every
\* device and after any write of the setting, and every upload has its own id.
THEOREM TypeCorrect ==
    ASSUME BackupAssumption, Device # {}, LateRefusals = FALSE
    PROVE  Spec => []TypeOK
<1>1. IInv => TypeOK BY DEF IInv
<1> QED BY <1>1, Inductive, PTL

\* A restore of the chain brings back all it says was shipped.
THEOREM Shipped ==
    ASSUME BackupAssumption, Device # {}, LateRefusals = FALSE
    PROVE  Spec => []ShippedIsKept
<1>1. ASSUME IInv PROVE ShippedIsKept
  <2> SUFFICES ASSUME NEW d \in Device, NEW x \in chain[d].heads
               PROVE  x \in Restored(chain[d].base)
    BY DEF ShippedIsKept
  <2>1. PICK o \in Settled :
          (o.id = chain[d].base \/ o.ref = chain[d].base) /\ x \in o.entries
    BY <1>1 DEF IInv, ChainsAreSound, Sound
  <2>2. o \in Parts(chain[d].base)
    BY <2>1 DEF Settled, Parts, Increments
  <2> QED BY <2>1, <2>2 DEF Restored
<1> QED BY <1>1, Inductive, PTL

\* The increments of a base are numbered without a hole.
THEOREM Gapless ==
    ASSUME BackupAssumption, Device # {}, LateRefusals = FALSE
    PROVE  Spec => []NoHole
<1>1. ASSUME IInv PROVE NoHole
  <2> SUFFICES ASSUME NEW b \in Bases, NEW o \in Increments(b),
                      NEW m \in 1..o.sequence
               PROVE  \E p \in Increments(b) : p.sequence = m
    BY DEF NoHole
  <2>1. o \in store /\ o.ref = b /\ o.sequence \in Nat
    BY <1>1 DEF Increments, IInv, TypeOK, Object
  <2>2. b # NoRef
    <3>1. PICK u \in store : u.id = b BY DEF Bases
    <3> QED BY <1>1, <3>1 DEF IInv, Ids, NoRef
  <2>3. CASE m = o.sequence BY <2>3
  <2>4. CASE m # o.sequence
    <3>1. m \in 1..o.sequence - 1 BY <2>1, <2>4
    <3>2. PICK p \in Settled : p.ref = b /\ p.sequence = m
      BY <1>1, <2>1, <2>2, <3>1 DEF IInv, InOrder
    <3> QED BY <3>2 DEF Settled, Increments
  <2> QED BY <2>3, <2>4
<1> QED BY <1>1, Inductive, PTL
=============================================================================
