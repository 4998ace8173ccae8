------------------------ MODULE BackupSettings_proofs ------------------------
(***************************************************************************)
(* Proofs about BackupSettings for any devices, members, callers and       *)
(* backups, any word of Aleph on them, and any number of calls: however    *)
(* the calls of all devices overlap, a write of the history that saw all   *)
(* others is what is read, and the keys that callers use keep what         *)
(* FirstKey says of each step.                                             *)
(***************************************************************************)
EXTENDS BackupSettings, WellFoundedInduction, TLAPS

Stamps(entries) == { Stamp(e) : e \in entries }

\* Entries are dated, and no date is beyond all bounds.
Dated ==
    /\ log = [d \in Device |-> log[d]]
    /\ \A e \in Everywhere : e.at \in Nat
    /\ \E n \in Nat : \A e \in Everywhere : e.at <= n

\* A call that has loaded, and what it holds.
Holds(j) ==
    j = [step |-> j.step, setting |-> j.setting, value |-> j.value,
         seen |-> j.seen, change |-> j.change, next |-> j.next,
         record |-> j.record]
Loaded(j) == j.step \in {"writing", "placed"}

\* What a caller that was told this key may be doing.
MayDo(key, j) ==
    /\ j.step \in {"idle", "making", "uploading", "writing", "placed"}
    /\ Loaded(j) => Holds(j) /\ j.setting \in {"backups", "chain"}
    /\ j.step = "making" => key = NoKey

Jobs ==
    /\ using = [u \in User |-> using[u]] /\ job = [u \in User |-> job[u]]
    /\ calls \in Nat
    /\ \A u \in User : MayDo(using[u], job[u])

\* A device that has a write of the history has all that it was made with.
Closed ==
    \A d \in Device : \A e \in Written(d) : e.seen \subseteq Stamps(Written(d))

\* What is to be written to the history is what the list of the entries in
\* sight becomes; as long as these are all there are, it is to go into the
\* record that is read.
Sound(written, j) ==
    /\ j.seen \subseteq Stamps(written)
    /\ j.value = Changed(History({ e \in written : Stamp(e) \in j.seen }),
                         j.change)
    /\ j.step = "placed" /\ written # {}
       /\ (\A e \in written : Stamp(e) \in j.seen)
          => j.record = Newest(written, "backups")
Calls ==
    \A u \in User : Loaded(job[u]) /\ job[u].setting = "backups"
                       => Sound(Written(u[1]), job[u])

Typed == TypeOK /\ Dated /\ Jobs
IInv == Typed /\ Closed /\ Calls /\ InSightOfAll

-----------------------------------------------------------------------------
(* Least and greatest numbers.                                             *)

\* Every set of naturals that has an element has a least one.
LEMMA LeastNat ==
    ASSUME NEW T \in SUBSET Nat, T # {}
    PROVE  \E x \in T : \A y \in T : x <= y
<1>1. PICK x \in T : \A y \in T : ~ (<<y, x>> \in OpToRel(<, Nat))
  BY NatLessThanWellFounded, WFMin, Zenon
<1>2. \A y \in T : ~(y < x)
  <2> TAKE y \in T
  <2>1. <<y, x>> \notin OpToRel(<, Nat) BY <1>1
  <2> QED BY <2>1, Zenon DEF OpToRel
<1> QED BY <1>2

\* Every set of naturals up to n that has an element has a greatest one.
LEMMA GreatestNat ==
    ASSUME NEW n \in Nat, NEW T \in SUBSET (0..n), T # {}
    PROVE  \E x \in T : \A y \in T : y <= x
<1> DEFINE U == { n - y : y \in T }
<1>1. U \in SUBSET Nat /\ U # {}
  <2>1. PICK y \in T : TRUE OBVIOUS
  <2>2. n - y \in U BY <2>1
  <2>3. \A z \in T : n - z \in Nat OBVIOUS
  <2>4. U \subseteq Nat BY <2>3
  <2> QED BY <2>2, <2>4
<1> HIDE DEF U
<1>2. PICK u \in U : \A v \in U : u <= v BY <1>1, LeastNat
<1>3. PICK x \in T : u = n - x BY <1>2 DEF U
<1>4. \A y \in T : n - y \in U BY DEF U
<1>5. \A y \in T : n - x <= n - y BY <1>2, <1>3, <1>4
<1> QED BY <1>5

-----------------------------------------------------------------------------
(* What is read.                                                           *)

\* The newest record of a setting is one of its records.
LEMMA NewestIsIn ==
    ASSUME NEW S, NEW setting, Of(S, setting) # {},
           \A e \in S : e.id \in 1..MaxId
    PROVE  /\ Newest(S, setting) \in Ids(S, setting)
           /\ \A i \in Ids(S, setting) : i <= Newest(S, setting)
<1>1. Ids(S, setting) # {} BY DEF Ids
<1>2. Ids(S, setting) \in SUBSET (0..MaxId) BY DEF Ids, Of
<1>3. MaxId \in Nat BY BackupSettingsAssumption DEF BackupSettingsAssumption
<1>4. \E x \in Ids(S, setting) : \A y \in Ids(S, setting) : y <= x
  BY <1>1, <1>2, <1>3, GreatestNat
<1> QED BY <1>4 DEF Newest

\* The history reads its own entries only.
LEMMA HistoryOfSame ==
    ASSUME NEW S, NEW T, Of(S, "backups") = Of(T, "backups")
    PROVE  History(S) = History(T)
<1> DEFINE Id(V) == CHOOSE i \in { e.id : e \in V } :
                       \A j \in { e.id : e \in V } : j <= i
           Versions(V) == { e \in V : e.id = Id(V) }
           Read(V) == IF V = {} THEN <<>>
                      ELSE (CHOOSE e \in Versions(V) :
                              \A f \in Versions(V) \ {e} : Later(e, f)).value
<1>1. History(S) = Read(Of(S, "backups")) BY DEF History, Get, Newest, Ids
<1>2. History(T) = Read(Of(T, "backups")) BY DEF History, Get, Newest, Ids
<1> HIDE DEF Read
<1> QED BY <1>1, <1>2

\* What is written into the newest record, after all else, is what is read.
LEMMA LastIsRead ==
    ASSUME NEW V, NEW e,
           \A f \in V \cup {e} : /\ f.setting = "backups"
                                 /\ f.id \in 1..MaxId /\ f.at \in Nat,
           \A f \in V : f.at < e.at,
           V # {} => e.id = Newest(V, "backups")
    PROVE  History(V \cup {e}) = e.value
<1> DEFINE W == V \cup {e}
           Versions == { f \in W : f.id = Newest(W, "backups") }
<1>1. Of(W, "backups") = W /\ Of(V, "backups") = V BY DEF Of
<1>2. Newest(W, "backups") = e.id
  <2>1. CASE V = {}
    <3>1. Ids(W, "backups") = {e.id} BY <1>1, <2>1 DEF Ids
    <3>2. Newest(W, "backups") \in Ids(W, "backups")
      BY <1>1, NewestIsIn
    <3> QED BY <3>1, <3>2
  <2>2. CASE V # {}
    <3>1. e.id \in Ids(V, "backups") BY <1>1, <2>2, NewestIsIn
    <3>2. Ids(W, "backups") = Ids(V, "backups") BY <1>1, <3>1 DEF Ids
    <3> QED BY <2>2, <3>2 DEF Newest
  <2> QED BY <2>1, <2>2
<1>3. e \in Versions BY <1>2
<1>4. \A f \in Versions \ {e} : Later(e, f) /\ ~Later(f, e)
  BY DEF Later
<1>5. e = CHOOSE g \in Versions : \A f \in Versions \ {g} : Later(g, f)
  <2> DEFINE IsLast(g) == \A f \in Versions \ {g} : Later(g, f)
  <2>1. IsLast(e) BY <1>4
  <2>2. \A g \in Versions : IsLast(g) => g = e BY <1>3, <1>4
  <2> QED BY <1>3, <2>1, <2>2
<1>6. History(W) = (CHOOSE g \in Versions :
                       \A f \in Versions \ {g} : Later(g, f)).value
  BY <1>1 DEF History, Get
<1> QED BY <1>5, <1>6

-----------------------------------------------------------------------------
(* What a step does to the logs.                                           *)

\* The device's log gets an entry of its own after all that it has.
Adds(d, x) ==
    /\ log' = [log EXCEPT ![d] = @ \cup {x}]
    /\ x.id \in 1..MaxId /\ x.at \in Nat
    /\ \A e \in log[d] : e.at < x.at
    /\ \A e \in Everywhere : Stamp(e) # Stamp(x)

\* The device has what another one has.
Gets(d, e) == log' = [log EXCEPT ![d] = @ \cup log[e]]

\* What any device has.
LEMMA AnywhereIsEverywhere ==
    \A e : e \in Everywhere <=> \E d \in Device : e \in log[d]
  BY DEF Everywhere

\* put writes one entry, into the record it is given.
LEMMA PutDoes ==
    ASSUME Dated, NEW d \in Device, NEW record, NEW setting, NEW value,
           NEW seen, NEW change, Put(d, record, setting, value, seen, change)
    PROVE  \E x : /\ Adds(d, x)
                  /\ x.setting = setting /\ x.value = value
                  /\ x.seen = seen /\ x.change = change
                  /\ IF record = NoRecord
                     THEN x.id \notin Ids(Everywhere, setting)
                     ELSE x.id = record
<1> DEFINE T == { e.at : e \in log[d] } \cup {0}
           at == Max(T) + 1
<1>1. PICK i \in 1..MaxId, t \in 1..Cardinality(Device) :
        /\ IF record = NoRecord THEN i \notin Ids(Everywhere, setting)
           ELSE i = record
        /\ \A e \in Everywhere : Stamp(e) # <<at, t>>
        /\ log' = [log EXCEPT ![d] = @ \cup
              {[id |-> i, setting |-> setting, value |-> value, at |-> at,
                tie |-> t, seen |-> seen, change |-> change]}]
  BY DEF Put
<1>2. Max(T) \in Nat /\ \A e \in log[d] : e.at <= Max(T)
  <2>1. PICK n \in Nat : \A e \in Everywhere : e.at <= n BY DEF Dated
  <2>2. \A e \in log[d] : e.at \in Nat /\ e.at <= n
    BY <2>1, AnywhereIsEverywhere DEF Dated
  <2>3. T \in SUBSET (0..n) /\ T # {} BY <2>2
  <2> HIDE DEF T
  <2>4. PICK x \in T : \A y \in T : y <= x BY <2>3, GreatestNat
  <2>5. \A y \in T : x >= y BY <2>3, <2>4
  <2>6. Max(T) \in T /\ \A y \in T : Max(T) >= y BY <2>4, <2>5 DEF Max
  <2>7. \A e \in log[d] : e.at \in T BY DEF T
  <2>8. Max(T) \in 0..n BY <2>3, <2>6
  <2>9. \A e \in log[d] : Max(T) >= e.at BY <2>6, <2>7
  <2> HIDE DEF at
  <2> QED BY <2>2, <2>8, <2>9
<1> HIDE DEF T
<1> DEFINE x == [id |-> i, setting |-> setting, value |-> value, at |-> at,
                 tie |-> t, seen |-> seen, change |-> change]
<1>3. at \in Nat /\ \A e \in log[d] : e.at < at
  <2>1. \A e \in log[d] : e.at \in Nat
    BY AnywhereIsEverywhere DEF Dated
  <2> QED BY <1>2, <2>1
<1>4. Stamp(x) = <<at, t>> BY DEF Stamp
<1>5. /\ x.setting = setting /\ x.value = value /\ x.seen = seen
      /\ x.change = change /\ x.id = i /\ x.at = at
  OBVIOUS
<1>6. Adds(d, x) BY <1>1, <1>3, <1>4, <1>5 DEF Adds
<1> QED BY <1>1, <1>5, <1>6

\* Where an entry is added, it is the only one that is new.
LEMMA AddsDoes ==
    ASSUME Dated, NEW d \in Device, NEW x, Adds(d, x)
    PROVE  /\ \A c \in Device : log'[c] = IF c = d THEN log[c] \cup {x}
                                          ELSE log[c]
           /\ Everywhere' = Everywhere \cup {x}
<1>1. \A c \in Device : log'[c] = IF c = d THEN log[c] \cup {x} ELSE log[c]
  BY DEF Adds, Dated
<1> QED BY <1>1 DEF Everywhere

\* Where entries are brought, none is new.
LEMMA GetsDoes ==
    ASSUME Dated, NEW d \in Device, NEW e \in Device, Gets(d, e)
    PROVE  /\ \A c \in Device : log'[c] = IF c = d THEN log[c] \cup log[e]
                                          ELSE log[c]
           /\ Everywhere' = Everywhere
<1>1. \A c \in Device : log'[c] = IF c = d THEN log[c] \cup log[e] ELSE log[c]
  BY DEF Gets, Dated
<1> QED BY <1>1 DEF Everywhere

\* A step adds a key, writes what a call has placed, brings one device what
\* another one has, or leaves the logs alone.
Makes(u) ==
    /\ job[u].step = "making" /\ MakeKey(u)
    /\ \E x : Adds(u[1], x) /\ x.setting = "key"
              /\ x.id \notin Ids(Everywhere, "key")
Writes(u) ==
    /\ job[u].step = "placed" /\ Write(u)
    /\ \E x : /\ Adds(u[1], x)
              /\ x.setting = job[u].setting /\ x.value = job[u].value
              /\ x.seen = job[u].seen /\ x.change = job[u].change
              /\ job[u].record # NoRecord => x.id = job[u].record

\* All that can happen to the entries of the devices.
LEMMA LogStep ==
    ASSUME Dated, [Next]_vars
    PROVE  \/ \E u \in User : Makes(u)
           \/ \E u \in User : Writes(u)
           \/ \E d, e \in Device : /\ Gets(d, e)
                                   /\ UNCHANGED <<using, job, calls, begun>>
           \/ UNCHANGED log
<1>1. ASSUME NEW u \in User, MakeKey(u) PROVE Makes(u)
  <2>1. u[1] \in Device BY DEF User
  <2>2. Put(u[1], NoRecord, "key", NoKey, {}, NoChange) BY <1>1 DEF MakeKey
  <2>3. \E x : Adds(u[1], x) /\ x.setting = "key"
               /\ x.id \notin Ids(Everywhere, "key")
    BY <2>1, <2>2, PutDoes
  <2> QED BY <1>1, <2>3 DEF Makes, MakeKey
<1>2. ASSUME NEW u \in User, Write(u) PROVE Writes(u)
  <2>1. u[1] \in Device BY DEF User
  <2> DEFINE j == job[u]
  <2>2. Put(u[1], j.record, j.setting, j.value, j.seen, j.change)
    BY <1>2 DEF Write
  <2> HIDE DEF j
  <2>4. \E x : /\ Adds(u[1], x)
               /\ x.setting = j.setting /\ x.value = j.value
               /\ x.seen = j.seen /\ x.change = j.change
               /\ IF j.record = NoRecord
                  THEN x.id \notin Ids(Everywhere, j.setting)
                  ELSE x.id = j.record
    BY <2>1, <2>2, PutDoes
  <2>3. \E x : /\ Adds(u[1], x)
               /\ x.setting = job[u].setting /\ x.value = job[u].value
               /\ x.seen = job[u].seen /\ x.change = job[u].change
               /\ job[u].record # NoRecord => x.id = job[u].record
    BY <2>4 DEF j
  <2> QED BY <1>2, <2>3 DEF Writes, Write
<1>3. ASSUME NEW d \in Device, NEW e \in Device, Sync(d, e)
      PROVE  Gets(d, e) /\ UNCHANGED <<using, job, calls, begun>>
  BY <1>3 DEF Sync, Gets
<1>4. ASSUME NEW u \in User, FindKey(u) \/ FindNone(u) \/ Place(u)
      PROVE  UNCHANGED log
  BY <1>4 DEF FindKey, FindNone, Place
<1>5. ASSUME NEW u \in User, NEW kept \in Verdict, Remember(u, kept)
      PROVE  UNCHANGED log
  BY <1>5 DEF Remember
<1>6. ASSUME NEW u \in User, NEW b \in Backup, StartBackup(u, b)
      PROVE  UNCHANGED log
  BY <1>6 DEF StartBackup
<1>7. ASSUME NEW u \in User, NEW change \in Amendment, Amend(u, change)
      PROVE  UNCHANGED log
  BY <1>7 DEF Amend
<1>8. ASSUME NEW d \in Device, Reload(d) PROVE UNCHANGED log
  BY <1>8 DEF Reload
<1>9. UNCHANGED vars => UNCHANGED log BY DEF vars
<1> QED BY <1>1, <1>2, <1>3, <1>4, <1>5, <1>6, <1>7, <1>8, <1>9
        DEF Next, KeyStep, Going

-----------------------------------------------------------------------------
(* Types.                                                                  *)

\* No step takes an entry away.
LEMMA LogGrows ==
    ASSUME Dated, [Next]_vars
    PROVE  /\ \A d \in Device : log[d] \subseteq log'[d]
           /\ Everywhere \subseteq Everywhere'
<1>1. ASSUME NEW u \in User, NEW x, Adds(u[1], x)
      PROVE  \A d \in Device : log[d] \subseteq log'[d]
  BY <1>1, AddsDoes DEF User
<1>2. ASSUME NEW d \in Device, NEW e \in Device, Gets(d, e)
      PROVE  \A c \in Device : log[c] \subseteq log'[c]
  BY <1>2, GetsDoes
<1>3. UNCHANGED log => \A d \in Device : log[d] \subseteq log'[d] OBVIOUS
<1>4. \A d \in Device : log[d] \subseteq log'[d]
  BY <1>1, <1>2, <1>3, LogStep DEF Makes, Writes
<1> QED BY <1>4 DEF Everywhere

\* Entries keep to their places and dates.
Entries ==
    /\ \A e, f \in Everywhere : Stamp(e) = Stamp(f) => e = f
    /\ \A e \in Everywhere : /\ e.id \in 1..MaxId
                            /\ e.setting \in {"key", "backups", "chain"}

\* Entries stay well-formed and dated.
LEMMA EntriesStep ==
    ASSUME Entries, Dated, Jobs, [Next]_vars
    PROVE  Entries' /\ Dated'
<1>1. ASSUME NEW d \in Device, NEW x, Adds(d, x),
             x.setting \in {"key", "backups", "chain"}
      PROVE  Entries' /\ Dated'
  <2>1. Everywhere' = Everywhere \cup {x} BY <1>1, AddsDoes
  <2>2. /\ x.id \in 1..MaxId /\ x.at \in Nat
        /\ \A e \in Everywhere : Stamp(e) # Stamp(x)
    BY <1>1 DEF Adds
  <2>3. Entries' BY <2>1, <2>2, <1>1 DEF Entries
  <2>4. log' = [c \in Device |-> log'[c]] BY <1>1 DEF Adds, Dated
  <2>5. \A e \in Everywhere' : e.at \in Nat BY <2>1, <2>2 DEF Dated
  <2>6. \E n \in Nat : \A e \in Everywhere' : e.at <= n
    <3>1. PICK n \in Nat : \A e \in Everywhere : e.at <= n BY DEF Dated
    <3>2. \A e \in Everywhere : e.at \in Nat BY DEF Dated
    <3>3. n + x.at \in Nat /\ \A e \in Everywhere' : e.at <= n + x.at
      BY <2>1, <2>2, <3>1, <3>2
    <3> QED BY <3>3
  <2> QED BY <2>3, <2>4, <2>5, <2>6 DEF Dated
<1>2. ASSUME NEW d \in Device, NEW e \in Device, Gets(d, e)
      PROVE  Entries' /\ Dated'
  <2>1. Everywhere' = Everywhere BY <1>2, GetsDoes
  <2>2. log' = [c \in Device |-> log'[c]] BY <1>2 DEF Gets, Dated
  <2> QED BY <2>1, <2>2 DEF Entries, Dated
<1>3. ASSUME UNCHANGED log PROVE Entries' /\ Dated'
  <2>1. Everywhere' = Everywhere BY <1>3 DEF Everywhere
  <2> QED BY <2>1, <1>3 DEF Entries, Dated
<1>4. ASSUME NEW u \in User, Makes(u) PROVE Entries' /\ Dated'
  <2>1. u[1] \in Device BY DEF User
  <2> QED BY <1>1, <1>4, <2>1 DEF Makes
<1>5. ASSUME NEW u \in User, Writes(u) PROVE Entries' /\ Dated'
  <2>1. u[1] \in Device BY DEF User
  <2>2. job[u].setting \in {"backups", "chain"}
    BY <1>5 DEF Writes, Jobs, MayDo, Loaded
  <2> QED BY <1>1, <1>5, <2>1, <2>2 DEF Writes
<1> QED BY <1>2, <1>3, <1>4, <1>5, LogStep

\* A record of these fields has these fields.
LEMMA HoldsAny ==
    ASSUME NEW step, NEW setting, NEW value, NEW seen, NEW change, NEW next,
           NEW record
    PROVE  Holds([step |-> step, setting |-> setting, value |-> value,
                  seen |-> seen, change |-> change, next |-> next,
                  record |-> record])
  BY DEF Holds

\* A call that has loaded the history.
LEMMA LoadDoes ==
    ASSUME Jobs, NEW u \in User, NEW change, NEW next, Load(u, change, next)
    PROVE  \E j : /\ job' = [job EXCEPT ![u] = j] /\ Holds(j)
                  /\ j.step = "writing" /\ j.setting = "backups"
                  /\ j.value = Changed(History(log[u[1]]), change)
                  /\ j.seen = Stamps(Written(u[1])) /\ j.change = change
<1> DEFINE j == [step |-> "writing", setting |-> "backups",
                 value |-> Changed(History(log[u[1]]), change),
                 seen |-> { Stamp(e) : e \in Of(log[u[1]], "backups") },
                 change |-> change, next |-> next, record |-> NoRecord]
<1>1. job' = [job EXCEPT ![u] = j] BY DEF Load
<1>2. Holds(j) BY HoldsAny, Zenon
<1>3. j.seen = Stamps(Written(u[1])) BY DEF Stamps, Written
<1>4. /\ j.step = "writing" /\ j.setting = "backups" /\ j.change = change
      /\ j.value = Changed(History(log[u[1]]), change)
  OBVIOUS
<1> HIDE DEF j
<1> QED BY <1>1, <1>2, <1>3, <1>4

\* A call that has found the record to write to.
LEMMA PlaceDoes ==
    ASSUME NEW u \in User, Place(u)
    PROVE  \E j : /\ job' = [job EXCEPT ![u] = j] /\ Holds(j)
                  /\ j.step = "placed" /\ j.setting = job[u].setting
                  /\ j.value = job[u].value /\ j.seen = job[u].seen
                  /\ j.change = job[u].change
                  /\ j.record = Target(u[1], j.setting)
<1> DEFINE t == Target(u[1], job[u].setting)
           j == [step |-> "placed", setting |-> job[u].setting,
                 value |-> job[u].value, seen |-> job[u].seen,
                 change |-> job[u].change, next |-> job[u].next, record |-> t]
<1>1. job' = [job EXCEPT ![u] = j] BY DEF Place
<1> HIDE DEF t
<1>2. Holds(j) BY HoldsAny, Zenon
<1>3. /\ j.step = "placed" /\ j.setting = job[u].setting
      /\ j.value = job[u].value /\ j.seen = job[u].seen
      /\ j.change = job[u].change /\ j.record = t
  OBVIOUS
<1> HIDE DEF j
<1> QED BY <1>1, <1>2, <1>3 DEF t

\* A call that goes on to something it may do.
LEMMA JobsSet ==
    ASSUME Jobs, UNCHANGED using, calls' \in Nat,
           NEW u \in User, NEW j, MayDo(using[u], j),
           job' = [job EXCEPT ![u] = j]
    PROVE  Jobs'
<1>1. \A v \in User : job'[v] = IF v = u THEN j ELSE job[v] BY DEF Jobs
<1>2. job' = [v \in User |-> job'[v]] BY DEF Jobs
<1>3. \A v \in User : MayDo(using[v], job'[v]) BY <1>1 DEF Jobs
<1> QED BY <1>2, <1>3 DEF Jobs

\* Every step keeps the calls what they may be; what callers were told stays,
\* but where a caller is told a key.
LEMMA JobsStep ==
    ASSUME TypeOK, Dated, Jobs, [Next]_vars
    PROVE  Jobs'
<1> USE DEF Loaded
<1>1. ASSUME NEW u \in User, FindKey(u) PROVE Jobs'
  <2>1. /\ job[u].step = "idle" /\ job' = job /\ calls' = calls
        /\ using' = [using EXCEPT ![u] = KeyOf(u[1])]
    BY <1>1 DEF FindKey, Idle
  <2>2. \A v \in User : v # u => using'[v] = using[v] BY <2>1 DEF Jobs
  <2>3. using' = [v \in User |-> using'[v]] BY <2>1 DEF Jobs
  <2>4. \A v \in User : MayDo(using'[v], job'[v])
    BY <2>1, <2>2 DEF Jobs, MayDo
  <2> QED BY <2>1, <2>3, <2>4 DEF Jobs
<1>2. ASSUME NEW u \in User, FindNone(u) PROVE Jobs'
  <2>1. using[u] = NoKey
    <3>1. u[1] \in Device BY DEF User
    <3>2. Ids(log[u[1]], "key") = {} BY <1>2 DEF FindNone, Ids
    <3> QED BY <3>2 DEF TypeOK
  <2> DEFINE j == [step |-> "making"]
  <2>2. MayDo(using[u], j) BY <2>1 DEF MayDo
  <2>3. job' = [job EXCEPT ![u] = j] /\ calls' = calls + 1 /\ using' = using
    BY <1>2 DEF FindNone
  <2>4. calls' \in Nat BY <2>3 DEF Jobs
  <2> HIDE DEF j
  <2> QED BY <2>2, <2>3, <2>4, JobsSet
<1>3. ASSUME NEW u \in User, MakeKey(u) PROVE Jobs'
  <2>1. \E k : using' = [using EXCEPT ![u] = k] BY <1>3 DEF MakeKey
  <2>2. job' = [job EXCEPT ![u] = Idle] /\ calls' = calls
    BY <1>3 DEF MakeKey
  <2>3. /\ using' = [v \in User |-> using'[v]]
        /\ job' = [v \in User |-> job'[v]]
    BY <2>1, <2>2 DEF Jobs
  <2>4. \A v \in User : v # u => using'[v] = using[v] /\ job'[v] = job[v]
    BY <2>1, <2>2 DEF Jobs
  <2>5. job'[u].step = "idle" BY <2>2 DEF Jobs, Idle
  <2>6. \A v \in User : MayDo(using'[v], job'[v])
    BY <2>4, <2>5 DEF Jobs, MayDo
  <2> QED BY <2>2, <2>3, <2>6 DEF Jobs
<1>4. ASSUME NEW u \in User, NEW change, NEW next, Load(u, change, next),
             UNCHANGED using, calls' \in Nat
      PROVE  Jobs'
  <2>1. PICK j : /\ job' = [job EXCEPT ![u] = j] /\ Holds(j)
                 /\ j.step = "writing" /\ j.setting = "backups"
    BY <1>4, LoadDoes
  <2>2. MayDo(using[u], j) BY <2>1 DEF MayDo
  <2> QED BY <1>4, <2>1, <2>2, JobsSet
<1>5. ASSUME NEW u \in User, NEW kept \in Verdict, Remember(u, kept)
      PROVE  Jobs'
  <2>1. \E change, next : Load(u, change, next) BY <1>5 DEF Remember
  <2>2. UNCHANGED using /\ calls' \in Nat BY <1>5 DEF Remember, Jobs
  <2> QED BY <1>4, <2>1, <2>2
<1>6. ASSUME NEW u \in User, NEW change \in Amendment, Amend(u, change)
      PROVE  Jobs'
  <2>1. Load(u, change, NoChain) BY <1>6 DEF Amend
  <2>2. UNCHANGED using /\ calls' \in Nat BY <1>6 DEF Amend, Jobs
  <2> QED BY <1>4, <2>1, <2>2
<1>7. ASSUME NEW u \in User, NEW b \in Backup, StartBackup(u, b)
      PROVE  Jobs'
  <2> DEFINE j == [step |-> "uploading", backup |-> b]
  <2>1. MayDo(using[u], j) BY DEF MayDo
  <2>2. job' = [job EXCEPT ![u] = j] BY <1>7 DEF StartBackup
  <2>3. UNCHANGED using /\ calls' \in Nat BY <1>7 DEF StartBackup, Jobs
  <2> HIDE DEF j
  <2> QED BY <2>1, <2>2, <2>3, JobsSet
<1>8. ASSUME NEW u \in User, Place(u) PROVE Jobs'
  <2>1. PICK j : /\ job' = [job EXCEPT ![u] = j] /\ Holds(j)
                 /\ j.step = "placed" /\ j.setting = job[u].setting
    BY <1>8, PlaceDoes
  <2>2. job[u].setting \in {"backups", "chain"}
    BY <1>8 DEF Place, Jobs, MayDo
  <2>3. MayDo(using[u], j) BY <2>1, <2>2 DEF MayDo
  <2>4. UNCHANGED <<using, calls>> BY <1>8 DEF Place
  <2> QED BY <2>1, <2>3, <2>4, JobsSet DEF Jobs
<1>9. ASSUME NEW u \in User, Write(u) PROVE Jobs'
  <2> DEFINE c == [step |-> "writing", setting |-> "chain",
                   value |-> job[u].next, seen |-> {}, change |-> NoChange,
                   next |-> NoChain, record |-> NoRecord]
             j == IF job[u].next = NoChain THEN Idle ELSE c
  <2>1. MayDo(using[u], Idle) BY DEF MayDo, Idle
  <2>2. MayDo(using[u], c) BY DEF MayDo, Holds
  <2>3. job' = [job EXCEPT ![u] = j] /\ UNCHANGED <<using, calls>>
    BY <1>9 DEF Write
  <2> HIDE DEF c
  <2>4. MayDo(using[u], j) BY <2>1, <2>2
  <2> HIDE DEF j
  <2> QED BY <2>3, <2>4, JobsSet DEF Jobs
<1>10. ASSUME NEW d \in Device, Reload(d) PROVE Jobs'
  <2>1. /\ job' = [u \in User |-> IF u[1] = d THEN Idle ELSE job[u]]
        /\ UNCHANGED <<using, calls>>
    BY <1>10 DEF Reload
  <2>2. \A u \in User : MayDo(using[u], Idle) BY DEF MayDo, Idle
  <2>3. \A u \in User : MayDo(using[u], job'[u]) BY <2>1, <2>2 DEF Jobs
  <2> QED BY <2>1, <2>3 DEF Jobs
<1>11. ASSUME NEW d \in Device, NEW e \in Device, Sync(d, e) PROVE Jobs'
  BY <1>11 DEF Sync, Jobs
<1>12. CASE UNCHANGED vars BY <1>12 DEF vars, Jobs
<1> QED BY <1>1, <1>2, <1>3, <1>5, <1>6, <1>7, <1>8, <1>9, <1>10, <1>11,
           <1>12 DEF Next, KeyStep, Going

-----------------------------------------------------------------------------
(* The keys that callers are told.                                         *)

\* The first key of a device is one that it has, and the least of them.
LEMMA FirstIsLeast ==
    ASSUME Entries, NEW d \in Device, Of(log[d], "key") # {}
    PROVE  /\ KeyOf(d) \in Ids(log[d], "key")
           /\ \A i \in Ids(log[d], "key") : KeyOf(d) <= i
<1>1. Ids(log[d], "key") # {} BY DEF Ids
<1>2. \A e \in log[d] : e.id \in 1..MaxId
  BY AnywhereIsEverywhere DEF Entries
<1>3. Ids(log[d], "key") \in SUBSET Nat BY <1>2 DEF Ids, Of
<1>4. \E x \in Ids(log[d], "key") : \A y \in Ids(log[d], "key") : x <= y
  BY <1>1, <1>3, LeastNat
<1> QED BY <1>4 DEF KeyOf

\* A caller is told the key that was made for it, and that one is new.
Told(u) ==
    /\ job[u].step = "making" /\ job' = [job EXCEPT ![u] = Idle]
    /\ \E x : /\ Adds(u[1], x) /\ x.setting = "key"
              /\ x.id \notin Ids(Everywhere, "key")
              /\ using' = [using EXCEPT ![u] = x.id]

\* A caller for whom a key is made is told it.
LEMMA MakesTells ==
    ASSUME Dated, NEW u \in User, Makes(u)
    PROVE  Told(u)
<1>1. u[1] \in Device BY DEF User
<1>2. PICK x : /\ Adds(u[1], x) /\ x.setting = "key"
               /\ x.id \notin Ids(Everywhere, "key")
  BY DEF Makes
<1>3. log'[u[1]] = log[u[1]] \cup {x} BY <1>1, <1>2, AddsDoes
<1>4. x \notin log[u[1]] BY <1>1, <1>2, AnywhereIsEverywhere DEF Adds
<1>5. log'[u[1]] \ log[u[1]] = {x} BY <1>3, <1>4
<1> DEFINE i == CHOOSE n \in 1..MaxId :
                   \E e \in log'[u[1]] \ log[u[1]] : e.id = n
<1>6. i = x.id
  <2>1. x.id \in 1..MaxId BY <1>2 DEF Adds
  <2>2. \A n \in 1..MaxId :
          (\E e \in log'[u[1]] \ log[u[1]] : e.id = n) <=> n = x.id
    BY <1>5
  <2> QED BY <2>1, <2>2
<1>7. using' = [using EXCEPT ![u] = i] BY DEF Makes, MakeKey
<1> HIDE DEF i
<1>8. job' = [job EXCEPT ![u] = Idle] BY DEF Makes, MakeKey
<1>9. using' = [using EXCEPT ![u] = x.id] BY <1>6, <1>7
<1>10. job[u].step = "making" BY DEF Makes
<1> QED BY <1>2, <1>8, <1>9, <1>10 DEF Told

\* A step tells one caller a key that it finds or that it makes, or none.
LEMMA UsingStep ==
    ASSUME Dated, [Next]_vars
    PROVE  \/ \E u \in User : FindKey(u)
           \/ \E u \in User : Told(u)
           \/ UNCHANGED using
<1>1. ASSUME NEW u \in User, MakeKey(u) PROVE Told(u)
  <2>1. u[1] \in Device BY DEF User
  <2>2. Put(u[1], NoRecord, "key", NoKey, {}, NoChange) BY <1>1 DEF MakeKey
  <2>3. Makes(u) BY <1>1, <2>1, <2>2, PutDoes DEF Makes, MakeKey
  <2> QED BY <2>3, MakesTells
<1>2. ASSUME NEW u \in User, FindNone(u) \/ Place(u) \/ Write(u)
      PROVE  UNCHANGED using
  BY <1>2 DEF FindNone, Place, Write
<1>3. ASSUME NEW u \in User, NEW kept \in Verdict, Remember(u, kept)
      PROVE  UNCHANGED using
  BY <1>3 DEF Remember
<1>4. ASSUME NEW u \in User, NEW b \in Backup, StartBackup(u, b)
      PROVE  UNCHANGED using
  BY <1>4 DEF StartBackup
<1>5. ASSUME NEW u \in User, NEW change \in Amendment, Amend(u, change)
      PROVE  UNCHANGED using
  BY <1>5 DEF Amend
<1>6. ASSUME NEW d \in Device, Reload(d) PROVE UNCHANGED using
  BY <1>6 DEF Reload
<1>7. ASSUME NEW d \in Device, NEW e \in Device, Sync(d, e)
      PROVE  UNCHANGED using
  BY <1>7 DEF Sync
<1>8. UNCHANGED vars => UNCHANGED using BY DEF vars
<1> QED BY <1>1, <1>2, <1>3, <1>4, <1>5, <1>6, <1>7, <1>8
        DEF Next, KeyStep, Going

\* What a caller was told stays in its device's settings.
LEMMA KeysStay ==
    ASSUME TypeOK, Dated, Jobs, Entries, [Next]_vars
    PROVE  \A u \in User : using'[u] \in {NoKey} \cup Ids(log'[u[1]], "key")
<1>1. ASSUME NEW u \in User, using'[u] = using[u]
      PROVE  using'[u] \in {NoKey} \cup Ids(log'[u[1]], "key")
  <2>1. u[1] \in Device BY DEF User
  <2>2. log[u[1]] \subseteq log'[u[1]] BY <2>1, LogGrows
  <2>3. Ids(log[u[1]], "key") \subseteq Ids(log'[u[1]], "key")
    BY <2>2 DEF Ids, Of
  <2> QED BY <1>1, <2>3 DEF TypeOK
<1>2. ASSUME NEW v \in User, FindKey(v)
      PROVE  \A u \in User : \/ using'[u] = using[u]
                             \/ using'[u] \in Ids(log'[u[1]], "key")
  <2>1. v[1] \in Device BY DEF User
  <2>2. KeyOf(v[1]) \in Ids(log[v[1]], "key")
    BY <1>2, <2>1, FirstIsLeast DEF FindKey
  <2>3. log' = log /\ using' = [using EXCEPT ![v] = KeyOf(v[1])]
    BY <1>2 DEF FindKey
  <2>4. \A u \in User : using'[u] = IF u = v THEN KeyOf(v[1]) ELSE using[u]
    BY <2>3 DEF Jobs
  <2> QED BY <2>2, <2>3, <2>4
<1>3. ASSUME NEW v \in User, Told(v)
      PROVE  \A u \in User : \/ using'[u] = using[u]
                             \/ using'[u] \in Ids(log'[u[1]], "key")
  <2>1. v[1] \in Device BY DEF User
  <2>2. PICK x : /\ Adds(v[1], x) /\ x.setting = "key"
                 /\ using' = [using EXCEPT ![v] = x.id]
    BY <1>3 DEF Told
  <2>3. x \in log'[v[1]]
    <3>1. log'[v[1]] = log[v[1]] \cup {x} BY <2>1, <2>2, AddsDoes
    <3> QED BY <3>1
  <2>4. x.id \in Ids(log'[v[1]], "key") BY <2>2, <2>3 DEF Ids, Of
  <2>5. \A u \in User : using'[u] = IF u = v THEN x.id ELSE using[u]
    BY <2>2 DEF Jobs
  <2> QED BY <2>4, <2>5
<1> QED BY <1>1, <1>2, <1>3, UsingStep

\* Every step keeps the types.
LEMMA TypedStep ==
    ASSUME Typed, [Next]_vars
    PROVE  Typed'
<1>1. Entries BY DEF Typed, TypeOK, Entries
<1>2. Jobs' /\ Dated' /\ Entries' BY <1>1, JobsStep, EntriesStep DEF Typed
<1>3. \A u \in User : using'[u] \in {NoKey} \cup Ids(log'[u[1]], "key")
  BY <1>1, KeysStay DEF Typed
<1> DEFINE Bounded == begun' \subseteq Backup /\ calls' <= MaxCalls
<1>4. Bounded
  <2>1. MaxCalls \in Nat BY BackupSettingsAssumption
                          DEF BackupSettingsAssumption
  <2>2. begun \subseteq Backup /\ calls <= MaxCalls /\ calls \in Nat
    BY DEF Typed, TypeOK, Jobs
  <2>3. CASE UNCHANGED <<begun, calls>> BY <2>2, <2>3
  <2>4. ASSUME NEW u \in User, FindNone(u) PROVE Bounded
    BY <2>1, <2>2, <2>4 DEF FindNone
  <2>5. ASSUME NEW u \in User, NEW b \in Backup, StartBackup(u, b)
        PROVE  Bounded
    BY <2>1, <2>2, <2>5 DEF StartBackup
  <2>6. ASSUME NEW u \in User, NEW change \in Amendment, Amend(u, change)
        PROVE  Bounded
    BY <2>1, <2>2, <2>6 DEF Amend
  <2>7. ASSUME NEW u \in User,
               FindKey(u) \/ MakeKey(u) \/ Place(u) \/ Write(u)
        PROVE  UNCHANGED <<begun, calls>>
    BY <2>7 DEF FindKey, MakeKey, Place, Write
  <2>8. ASSUME NEW u \in User, NEW kept \in Verdict, Remember(u, kept)
        PROVE  UNCHANGED <<begun, calls>>
    BY <2>8 DEF Remember
  <2>9. ASSUME NEW d \in Device, Reload(d) PROVE UNCHANGED <<begun, calls>>
    BY <2>9 DEF Reload
  <2>10. ASSUME NEW d \in Device, NEW e \in Device, Sync(d, e)
         PROVE  UNCHANGED <<begun, calls>>
    BY <2>10 DEF Sync
  <2>11. UNCHANGED vars => UNCHANGED <<begun, calls>> BY DEF vars
  <2> QED BY <2>3, <2>4, <2>5, <2>6, <2>7, <2>8, <2>9, <2>10, <2>11
          DEF Next, KeyStep, Going
<1>5. \A u \in User : job'[u].step \in
         {"idle", "making", "uploading", "writing", "placed"}
  BY <1>2 DEF Jobs, MayDo
<1>6. TypeOK' BY <1>2, <1>3, <1>4, <1>5 DEF Entries, TypeOK
<1> QED BY <1>2, <1>6 DEF Typed

-----------------------------------------------------------------------------
(* The history.                                                            *)

\* No two entries have one place.
Apart(entries) == \A e, f \in entries : Stamp(e) = Stamp(f) => e = f

\* A call's list stays what it is when others' entries come.
LEMMA SoundStays ==
    ASSUME NEW V, Apart(V), NEW W \in SUBSET V, NEW j, Sound(W, j)
    PROVE  Sound(V, j)
<1>1. \A e \in V : Stamp(e) \in j.seen => e \in W
  BY DEF Sound, Stamps, Apart
<1>2. { e \in V : Stamp(e) \in j.seen } = { e \in W : Stamp(e) \in j.seen }
  BY <1>1
<1>3. (\A e \in V : Stamp(e) \in j.seen) => V = W BY <1>1
<1>4. Stamps(W) \subseteq Stamps(V) BY DEF Stamps
<1> QED BY <1>2, <1>3, <1>4 DEF Sound

\* A write with all the others in sight is what is read.
InSight(V) ==
    \A e \in V : (\A f \in V \ {e} : Stamp(f) \in e.seen)
                   => History(V) = Changed(History(V \ {e}), e.change)

\* InSightOfAll speaks of the entries of the history alone.
LEMMA SightOfWritten ==
    InSightOfAll <=> \A d \in Device : InSight(Written(d))
<1>1. ASSUME NEW d \in Device PROVE History(log[d]) = History(Written(d))
  <2>1. Of(Written(d), "backups") = Of(log[d], "backups") BY DEF Written, Of
  <2> QED BY <2>1, HistoryOfSame
<1> QED BY <1>1 DEF InSightOfAll, InSight

\* Others' entries do not change what one write saw.
LEMMA SightStays ==
    ASSUME NEW V, Apart(V), NEW W \in SUBSET V, InSight(W), NEW e \in W,
           e.seen \subseteq Stamps(W), \A f \in V \ {e} : Stamp(f) \in e.seen
    PROVE  History(V) = Changed(History(V \ {e}), e.change)
<1>1. \A f \in V \ {e} : f \in W BY DEF Stamps, Apart
<1>2. V = W BY <1>1
<1> QED BY <1>2 DEF InSight

\* A write that is put where its call has placed it.
LEMMA SightOfNew ==
    ASSUME NEW V, NEW x, NEW j, Sound(V, j), j.step = "placed",
           \A f \in V \cup {x} : /\ f.setting = "backups"
                                 /\ f.id \in 1..MaxId /\ f.at \in Nat,
           \A f \in V : f.at < x.at,
           x.value = j.value, x.seen = j.seen, x.change = j.change,
           j.record # NoRecord => x.id = j.record,
           \A f \in V : Stamp(f) \in x.seen
    PROVE  History(V \cup {x}) = Changed(History(V), x.change)
<1>1. V = { f \in V : Stamp(f) \in j.seen } OBVIOUS
<1>2. x.value = Changed(History(V), x.change) BY <1>1 DEF Sound
<1>3. V # {} => x.id = Newest(V, "backups")
  <2> SUFFICES ASSUME V # {} PROVE x.id = Newest(V, "backups") OBVIOUS
  <2>1. j.record = Newest(V, "backups") BY DEF Sound
  <2>2. Of(V, "backups") = V BY DEF Of
  <2>3. Newest(V, "backups") \in Ids(V, "backups") BY <2>2, NewestIsIn
  <2>4. Newest(V, "backups") \in 1..MaxId BY <2>2, <2>3 DEF Ids
  <2>5. j.record # NoRecord BY <2>1, <2>4 DEF NoRecord
  <2> QED BY <2>1, <2>5
<1>4. History(V \cup {x}) = x.value BY <1>3, LastIsRead
<1> QED BY <1>2, <1>4

\* What the devices have of the history after a step.
After(d) == Of(log'[d], "backups")

\* A call's entry comes to what its device has.
Puts(u, x) ==
    /\ job[u].step = "placed" /\ job[u].setting = "backups"
    /\ Adds(u[1], x) /\ x.setting = "backups"
    /\ x.value = job[u].value /\ x.seen = job[u].seen
    /\ x.change = job[u].change
    /\ job[u].record # NoRecord => x.id = job[u].record
    /\ \A c \in Device : After(c) = IF c = u[1] THEN Written(c) \cup {x}
                                    ELSE Written(c)

\* These change by a write, by replication, or not at all.
LEMMA WrittenStep ==
    ASSUME Typed, [Next]_vars
    PROVE  \/ \A c \in Device : After(c) = Written(c)
           \/ \E u \in User : \E x : Puts(u, x)
           \/ \E d, e \in Device : \A c \in Device :
                 After(c) = IF c = d THEN Written(c) \cup Written(e)
                            ELSE Written(c)
<1> USE DEF After, Written
<1>1. ASSUME NEW d \in Device, NEW x, Adds(d, x)
      PROVE  \A c \in Device :
                After(c) = IF c = d /\ x.setting = "backups"
                           THEN Written(c) \cup {x} ELSE Written(c)
  <2>1. \A c \in Device : log'[c] = IF c = d THEN log[c] \cup {x} ELSE log[c]
    BY <1>1, AddsDoes DEF Typed
  <2> QED BY <2>1 DEF Of
<1>2. ASSUME NEW u \in User, Makes(u)
      PROVE  \A c \in Device : After(c) = Written(c)
  <2>1. u[1] \in Device BY DEF User
  <2>2. PICK x : Adds(u[1], x) /\ x.setting = "key" BY <1>2 DEF Makes
  <2>3. x.setting # "backups" BY <2>2
  <2> QED BY <1>1, <2>1, <2>2, <2>3
<1>3. ASSUME NEW u \in User, Writes(u)
      PROVE  \/ \A c \in Device : After(c) = Written(c)
             \/ \E x : Puts(u, x)
  <2>1. u[1] \in Device BY DEF User
  <2>2. PICK x : /\ Adds(u[1], x)
                 /\ x.setting = job[u].setting /\ x.value = job[u].value
                 /\ x.seen = job[u].seen /\ x.change = job[u].change
                 /\ job[u].record # NoRecord => x.id = job[u].record
    BY <1>3 DEF Writes
  <2>3. CASE x.setting = "backups"
    <3>1. \A c \in Device : After(c) = IF c = u[1] THEN Written(c) \cup {x}
                                       ELSE Written(c)
      BY <1>1, <2>1, <2>2, <2>3
    <3>2. job[u].step = "placed" BY <1>3 DEF Writes
    <3> HIDE DEF After, Written
    <3> QED BY <2>2, <2>3, <3>1, <3>2 DEF Puts
  <2>4. CASE x.setting # "backups" BY <1>1, <2>1, <2>2, <2>4
  <2> QED BY <2>3, <2>4
<1>4. ASSUME NEW d \in Device, NEW e \in Device, Gets(d, e)
      PROVE  \A c \in Device :
                After(c) = IF c = d THEN Written(c) \cup Written(e)
                           ELSE Written(c)
  <2>1. \A c \in Device : log'[c] = IF c = d THEN log[c] \cup log[e]
                                    ELSE log[c]
    BY <1>4, GetsDoes DEF Typed
  <2> QED BY <2>1 DEF Of
<1>5. UNCHANGED log => \A c \in Device : After(c) = Written(c) OBVIOUS
<1> QED BY <1>2, <1>3, <1>4, <1>5, LogStep DEF Typed

\* What a call is doing after a step, when that is to write the history.
LEMMA CallStep ==
    ASSUME Jobs, [Next]_vars, NEW v \in User,
           Loaded(job'[v]), job'[v].setting = "backups"
    PROVE  \/ job'[v] = job[v]
           \/ /\ UNCHANGED log /\ job'[v].step = "writing"
              /\ job'[v].seen = Stamps(Written(v[1]))
              /\ job'[v].value = Changed(History(log[v[1]]), job'[v].change)
           \/ /\ UNCHANGED log /\ Loaded(job[v])
              /\ job[v].setting = "backups" /\ job'[v].value = job[v].value
              /\ job'[v].seen = job[v].seen /\ job'[v].change = job[v].change
              /\ job'[v].record = Target(v[1], "backups")
<1> DEFINE Fresh == /\ UNCHANGED log /\ job'[v].step = "writing"
                    /\ job'[v].seen = Stamps(Written(v[1]))
                    /\ job'[v].value =
                          Changed(History(log[v[1]]), job'[v].change)
           Placed == /\ UNCHANGED log /\ Loaded(job[v])
                     /\ job[v].setting = "backups"
                     /\ job'[v].value = job[v].value
                     /\ job'[v].seen = job[v].seen
                     /\ job'[v].change = job[v].change
                     /\ job'[v].record = Target(v[1], "backups")
<1>1. ASSUME NEW u \in User, NEW j, job' = [job EXCEPT ![u] = j],
             ~Loaded(j) \/ j.setting = "chain"
      PROVE  job'[v] = job[v]
  BY <1>1 DEF Jobs
<1>2. ASSUME NEW u \in User, NEW change, NEW next, Load(u, change, next),
             UNCHANGED log
      PROVE  job'[v] = job[v] \/ Fresh
  <2>1. PICK j : /\ job' = [job EXCEPT ![u] = j] /\ j.step = "writing"
                 /\ j.value = Changed(History(log[u[1]]), change)
                 /\ j.seen = Stamps(Written(u[1])) /\ j.change = change
    BY <1>2, LoadDoes
  <2>2. job'[v] = IF v = u THEN j ELSE job[v] BY <2>1 DEF Jobs
  <2> QED BY <1>2, <2>1, <2>2
<1>3. ASSUME NEW u \in User, Place(u) PROVE job'[v] = job[v] \/ Placed
  <2>1. PICK j : /\ job' = [job EXCEPT ![u] = j]
                 /\ j.step = "placed" /\ j.setting = job[u].setting
                 /\ j.value = job[u].value /\ j.seen = job[u].seen
                 /\ j.change = job[u].change
                 /\ j.record = Target(u[1], j.setting)
    BY <1>3, PlaceDoes
  <2>2. job'[v] = IF v = u THEN j ELSE job[v] BY <2>1 DEF Jobs
  <2>3. UNCHANGED log /\ Loaded(job[u]) BY <1>3 DEF Place, Loaded
  <2> QED BY <2>1, <2>2, <2>3
<1>4. ASSUME NEW u \in User, NEW kept \in Verdict, Remember(u, kept)
      PROVE  job'[v] = job[v] \/ Fresh
  <2>1. (\E change, next : Load(u, change, next)) /\ UNCHANGED log
    BY <1>4 DEF Remember
  <2> QED BY <1>2, <2>1
<1>5. ASSUME NEW u \in User, NEW change \in Amendment, Amend(u, change)
      PROVE  job'[v] = job[v] \/ Fresh
  <2>1. Load(u, change, NoChain) /\ UNCHANGED log BY <1>5 DEF Amend
  <2> QED BY <1>2, <2>1
<1> HIDE DEF Fresh, Placed
<1>6. ASSUME NEW u \in User, FindNone(u) \/ MakeKey(u)
      PROVE  job'[v] = job[v]
  <2>1. PICK j \in {Idle, [step |-> "making"]} : job' = [job EXCEPT ![u] = j]
    BY <1>6 DEF FindNone, MakeKey
  <2>2. ~Loaded(j) BY <2>1 DEF Loaded, Idle
  <2> QED BY <1>1, <2>1, <2>2
<1>7. ASSUME NEW u \in User, NEW b \in Backup, StartBackup(u, b)
      PROVE  job'[v] = job[v]
  <2> DEFINE j == [step |-> "uploading", backup |-> b]
  <2>1. job' = [job EXCEPT ![u] = j] BY <1>7 DEF StartBackup
  <2>2. ~Loaded(j) BY DEF Loaded
  <2> HIDE DEF j
  <2> QED BY <1>1, <2>1, <2>2
<1>8. ASSUME NEW u \in User, Write(u) PROVE job'[v] = job[v]
  <2> DEFINE c == [step |-> "writing", setting |-> "chain",
                   value |-> job[u].next, seen |-> {}, change |-> NoChange,
                   next |-> NoChain, record |-> NoRecord]
             j == IF job[u].next = NoChain THEN Idle ELSE c
  <2>1. job' = [job EXCEPT ![u] = j] BY <1>8 DEF Write
  <2>2. ~Loaded(Idle) /\ c.setting = "chain" BY DEF Loaded, Idle
  <2> HIDE DEF c
  <2>3. ~Loaded(j) \/ j.setting = "chain" BY <2>2
  <2> HIDE DEF j
  <2> QED BY <1>1, <2>1, <2>3
<1>9. ASSUME NEW d \in Device, Reload(d) PROVE job'[v] = job[v]
  <2>1. job'[v] = IF v[1] = d THEN Idle ELSE job[v] BY <1>9 DEF Reload
  <2>2. ~Loaded(Idle) BY DEF Loaded, Idle
  <2> QED BY <2>1, <2>2
<1>10. ASSUME NEW u \in User, FindKey(u) PROVE job'[v] = job[v]
  BY <1>10 DEF FindKey
<1>11. ASSUME NEW d \in Device, NEW e \in Device, Sync(d, e)
       PROVE  job'[v] = job[v]
  BY <1>11 DEF Sync
<1>12. UNCHANGED vars => job'[v] = job[v] BY DEF vars
<1>13. job'[v] = job[v] \/ Fresh \/ Placed
  BY <1>3, <1>4, <1>5, <1>6, <1>7, <1>8, <1>9, <1>10, <1>11, <1>12
     DEF Next, KeyStep, Going
<1> QED BY <1>13 DEF Fresh, Placed

\* Entries of a device keep their places apart, before a step and after.
LEMMA WrittenApart ==
    ASSUME Entries, NEW d \in Device
    PROVE  /\ Apart(Written(d))
           /\ \A f \in Written(d) : f.setting = "backups" /\ f.id \in 1..MaxId
  BY AnywhereIsEverywhere DEF Apart, Entries, Written, Of

\* No step takes a write of the history away, and none makes two that are of
\* one place.
LEMMA AfterStep ==
    ASSUME Typed, [Next]_vars, NEW d \in Device
    PROVE  Written(d) \subseteq After(d) /\ Apart(After(d))
<1>1. Entries' BY EntriesStep DEF Typed, TypeOK, Entries
<1>2. \A e \in log'[d] : e \in Everywhere' BY DEF Everywhere
<1>3. Apart(After(d)) BY <1>1, <1>2 DEF Apart, After, Of, Entries
<1>4. log[d] \subseteq log'[d] BY LogGrows DEF Typed
<1> QED BY <1>3, <1>4 DEF Written, After, Of

\* What an entry saw is where the entry is.
LEMMA ClosedStep ==
    ASSUME Typed, Closed, Calls, [Next]_vars
    PROVE  Closed'
<1> DEFINE Whole(V) == \A e \in V : e.seen \subseteq Stamps(V)
<1>1. \A d \in Device : Whole(Written(d)) BY DEF Closed
<1>2. ASSUME NEW V, NEW W, Whole(V), Whole(W) PROVE Whole(V \cup W)
  BY <1>2 DEF Stamps
<1>3. ASSUME NEW u \in User, NEW x, Puts(u, x)
      PROVE  Whole(Written(u[1]) \cup {x})
  <2>1. u[1] \in Device BY DEF User
  <2>2. Sound(Written(u[1]), job[u]) BY <1>3 DEF Calls, Puts, Loaded
  <2>3. x.seen \subseteq Stamps(Written(u[1])) BY <1>3, <2>2 DEF Sound, Puts
  <2> QED BY <1>1, <2>1, <2>3 DEF Stamps
<1> HIDE DEF Whole
<1>4. ASSUME NEW u \in User, NEW x, Puts(u, x)
      PROVE  \A c \in Device : Whole(After(c))
  <2>1. \A c \in Device : After(c) = IF c = u[1] THEN Written(c) \cup {x}
                                     ELSE Written(c)
    BY <1>4 DEF Puts
  <2> QED BY <1>1, <1>3, <1>4, <2>1
<1>5. \A c \in Device : Whole(After(c)) BY <1>1, <1>2, <1>4, WrittenStep
<1>6. \A c \in Device : \A e \in After(c) : e.seen \subseteq Stamps(After(c))
  BY <1>5 DEF Whole
<1> QED BY <1>6 DEF Closed, After, Written

\* What a call has loaded is the history of what it saw.
LEMMA CallsStep ==
    ASSUME Typed, Calls, [Next]_vars
    PROVE  Calls'
<1>1. ASSUME NEW v \in User, Loaded(job'[v]), job'[v].setting = "backups"
      PROVE  Sound(After(v[1]), job'[v])
  <2> DEFINE W == Written(v[1])
  <2>1. v[1] \in Device BY DEF User
  <2>2. W \subseteq After(v[1]) /\ Apart(After(v[1])) BY <2>1, AfterStep
  <2>3. Sound(W, job'[v]) => Sound(After(v[1]), job'[v])
    BY <2>2, SoundStays
  <2>4. CASE job'[v] = job[v]
    <3>1. Sound(W, job'[v]) BY <1>1, <2>4 DEF Calls
    <3> QED BY <2>3, <3>1
  <2>5. CASE /\ job'[v].step = "writing" /\ job'[v].seen = Stamps(W)
             /\ job'[v].value = Changed(History(log[v[1]]), job'[v].change)
    <3>1. Of(W, "backups") = Of(log[v[1]], "backups") BY DEF Written, Of
    <3>2. History(log[v[1]]) = History(W) BY <3>1, HistoryOfSame
    <3>3. { e \in W : Stamp(e) \in Stamps(W) } = W BY DEF Stamps
    <3> HIDE DEF W
    <3>4. Sound(W, job'[v]) BY <2>5, <3>2, <3>3 DEF Sound
    <3> QED BY <2>3, <3>4
  <2>6. CASE /\ Loaded(job[v]) /\ job[v].setting = "backups"
             /\ job'[v].value = job[v].value /\ job'[v].seen = job[v].seen
             /\ job'[v].change = job[v].change
             /\ job'[v].record = Target(v[1], "backups")
    <3>1. Sound(W, job[v]) BY <2>6 DEF Calls
    <3>2. W # {} => job'[v].record = Newest(W, "backups")
      <4>1. Of(W, "backups") = W BY DEF Written, Of
      <4>2. Newest(W, "backups") = Newest(log[v[1]], "backups")
        BY <4>1 DEF Newest, Ids, Written
      <4> QED BY <2>6, <4>2 DEF Target, Written
    <3> HIDE DEF W
    <3>3. Sound(W, job'[v]) BY <2>6, <3>1, <3>2 DEF Sound
    <3> QED BY <2>3, <3>3
  <2>7. Jobs BY DEF Typed
  <2> HIDE DEF W
  <2> QED BY <1>1, <2>4, <2>5, <2>6, <2>7, CallStep DEF W
<1>2. \A v \in User : Loaded(job'[v]) /\ job'[v].setting = "backups"
                        => Sound(After(v[1]), job'[v])
  BY <1>1
<1> QED BY <1>2 DEF Calls, After, Written, Loaded

\* So the newest entry that saw all others says what is read.
LEMMA SightStep ==
    ASSUME Typed, Closed, Calls, InSightOfAll, [Next]_vars
    PROVE  InSightOfAll'
<1>1. \A d \in Device : InSight(Written(d)) BY SightOfWritten
<1>2. ASSUME NEW d \in Device, NEW c \in Device, NEW e \in Written(c),
             Written(c) \subseteq After(d),
             \A f \in After(d) \ {e} : Stamp(f) \in e.seen
      PROVE  History(After(d)) = Changed(History(After(d) \ {e}), e.change)
  <2>1. Apart(After(d)) BY AfterStep
  <2>2. e.seen \subseteq Stamps(Written(c)) BY DEF Closed
  <2>3. InSight(Written(c)) BY <1>1
  <2> QED BY <1>2, <2>1, <2>2, <2>3, SightStays
<1>3. ASSUME NEW u \in User, NEW x, Puts(u, x),
             \A f \in After(u[1]) \ {x} : Stamp(f) \in x.seen
      PROVE  History(After(u[1])) =
                Changed(History(After(u[1]) \ {x}), x.change)
  <2> DEFINE V == Written(u[1])
  <2>1. u[1] \in Device BY DEF User
  <2>2. After(u[1]) = V \cup {x} BY <1>3, <2>1 DEF Puts
  <2>3. /\ x.id \in 1..MaxId /\ x.at \in Nat /\ x.setting = "backups"
        /\ \A f \in log[u[1]] : f.at < x.at
        /\ \A f \in Everywhere : Stamp(f) # Stamp(x)
    BY <1>3 DEF Puts, Adds
  <2>4. \A f \in V : f \in log[u[1]] /\ f \in Everywhere
    BY <2>1, AnywhereIsEverywhere DEF Written, Of
  <2>5. x \notin V BY <2>3, <2>4
  <2>6. \A f \in V : f.setting = "backups" /\ f.id \in 1..MaxId
    BY <2>1, WrittenApart DEF Typed, TypeOK, Entries
  <2>7. \A f \in V : f.at \in Nat /\ f.at < x.at
    BY <2>3, <2>4 DEF Typed, Dated
  <2>8. Sound(V, job[u]) BY <1>3 DEF Calls, Puts, Loaded
  <2>9. After(u[1]) \ {x} = V BY <2>2, <2>5
  <2>10. \A f \in V : Stamp(f) \in x.seen BY <1>3, <2>9
  <2> HIDE DEF V
  <2>11. \A f \in V \cup {x} : /\ f.setting = "backups"
                               /\ f.id \in 1..MaxId /\ f.at \in Nat
    BY <2>3, <2>6, <2>7
  <2>12. /\ job[u].step = "placed" /\ x.value = job[u].value
         /\ x.seen = job[u].seen /\ x.change = job[u].change
         /\ job[u].record # NoRecord => x.id = job[u].record
    BY <1>3 DEF Puts
  <2>13. \A f \in V : f.at < x.at BY <2>7
  <2>14. History(V \cup {x}) = Changed(History(V), x.change)
    BY <2>8, <2>10, <2>11, <2>12, <2>13, SightOfNew
  <2> QED BY <2>2, <2>9, <2>14
<1>4. ASSUME NEW d \in Device, NEW e \in After(d),
             \A f \in After(d) \ {e} : Stamp(f) \in e.seen
      PROVE  \/ \E c \in Device : e \in Written(c)
                                /\ Written(c) \subseteq After(d)
             \/ \E u \in User : Puts(u, e) /\ u[1] = d
  <2> DEFINE Had == \E c \in Device : e \in Written(c)
                                     /\ Written(c) \subseteq After(d)
             New == \E u \in User : Puts(u, e) /\ u[1] = d
  <2>1. CASE \A c \in Device : After(c) = Written(c) BY <1>4, <2>1
  <2>2. ASSUME NEW u \in User, NEW x, Puts(u, x) PROVE Had \/ New
    BY <1>4, <2>2 DEF Puts
  <2>3. ASSUME NEW c \in Device, NEW b \in Device,
               \A a \in Device :
                  After(a) = IF a = c THEN Written(a) \cup Written(b)
                             ELSE Written(a)
        PROVE  Had \/ New
    BY <1>4, <2>3
  <2> QED BY <2>1, <2>2, <2>3, WrittenStep
<1>5. \A d \in Device : InSight(After(d))
  <2> SUFFICES ASSUME NEW d \in Device, NEW e \in After(d),
                      \A f \in After(d) \ {e} : Stamp(f) \in e.seen
               PROVE  History(After(d)) =
                         Changed(History(After(d) \ {e}), e.change)
    BY DEF InSight
  <2> QED BY <1>2, <1>3, <1>4
<1>6. \A d \in Device : History(log'[d]) = History(After(d))
  <2> TAKE d \in Device
  <2>1. Of(After(d), "backups") = Of(log'[d], "backups") BY DEF After, Of
  <2> QED BY <2>1, HistoryOfSame
<1>7. \A d \in Device : \A e \in After(d) :
         LET others == After(d) \ {e} IN
         (\A f \in others : Stamp(f) \in e.seen) =>
             History(log'[d]) = Changed(History(others), e.change)
  BY <1>5, <1>6 DEF InSight
<1> QED BY <1>7 DEF InSightOfAll, After, Written

-----------------------------------------------------------------------------
(* What always holds.                                                      *)

\* The invariant holds at the beginning,
LEMMA InitIInv == Init => IInv
<1> SUFFICES ASSUME Init PROVE IInv OBVIOUS
<1>1. \A d \in Device : log[d] = {} BY DEF Init
<1>2. Everywhere = {} BY <1>1 DEF Everywhere
<1>3. \A d \in Device : Written(d) = {} BY <1>1 DEF Written, Of
<1>4. \A u \in User : using[u] = NoKey /\ job[u].step = "idle"
  BY DEF Init, Idle
<1>5. MaxCalls \in Nat BY BackupSettingsAssumption DEF BackupSettingsAssumption
<1>6. TypeOK BY <1>2, <1>4, <1>5 DEF TypeOK, Init
<1>7. Dated BY <1>2 DEF Dated, Init
<1>8. Jobs BY <1>4 DEF Jobs, MayDo, Loaded, Init
<1>9. Closed /\ InSightOfAll BY <1>3 DEF Closed, InSightOfAll
<1>10. Calls BY <1>4 DEF Calls, Loaded
<1> QED BY <1>6, <1>7, <1>8, <1>9, <1>10 DEF IInv, Typed

\* every step keeps it,
LEMMA IInvStep == IInv /\ [Next]_vars => IInv'
<1> SUFFICES ASSUME IInv, [Next]_vars PROVE IInv' OBVIOUS
<1>1. Typed /\ Closed /\ Calls /\ InSightOfAll BY DEF IInv
<1>2. Typed' BY <1>1, TypedStep
<1>3. Closed' /\ Calls' BY <1>1, ClosedStep, CallsStep
<1>4. InSightOfAll' BY <1>1, SightStep
<1> QED BY <1>2, <1>3, <1>4 DEF IInv

\* and so it always holds.
THEOREM Invariance == Spec => []IInv
  BY InitIInv, IInvStep, PTL DEF Spec

\* No two entries of the settings are of one place in their order, and what a
\* caller was told is a key that its device has in its settings.
THEOREM TypeCorrect == Spec => []TypeOK
<1>1. IInv => TypeOK BY DEF IInv, Typed
<1> QED BY <1>1, Invariance, PTL

\* A write of the history that was made with all the other writes in sight is
\* what is read wherever they have all come, however the calls and the records
\* of the devices overlap (setSetting and getSetting of store/settings.js).
THEOREM ReadsTheLast == Spec => []InSightOfAll
<1>1. IInv => InSightOfAll BY DEF IInv
<1> QED BY <1>1, Invariance, PTL

-----------------------------------------------------------------------------
(* The keys.                                                               *)

\* Nothing but the making of a key adds one.
LEMMA KeysStep ==
    ASSUME Typed, [Next]_vars
    PROVE  \/ \E u \in User : Told(u)
           \/ /\ Ids(Everywhere', "key") = Ids(Everywhere, "key")
              /\ \A e \in Everywhere' : e.setting = "key" => e \in Everywhere
              /\ UNCHANGED using \/ \E u \in User : FindKey(u)
<1>1. ASSUME NEW u \in User, Makes(u) PROVE Told(u)
  BY <1>1, MakesTells DEF Typed
<1>2. ASSUME NEW S, S = Everywhere',
             \A e : e.setting = "key" => (e \in S <=> e \in Everywhere)
      PROVE  /\ Ids(Everywhere', "key") = Ids(Everywhere, "key")
             /\ \A e \in Everywhere' : e.setting = "key" => e \in Everywhere
  <2>1. Of(S, "key") = Of(Everywhere, "key") BY <1>2 DEF Of
  <2> QED BY <1>2, <2>1 DEF Ids
<1>3. ASSUME NEW u \in User, Writes(u)
      PROVE  \A e : e.setting = "key"
                      => (e \in Everywhere' <=> e \in Everywhere)
  <2>1. u[1] \in Device BY DEF User
  <2>2. job[u].setting \in {"backups", "chain"}
    BY <1>3 DEF Writes, Typed, Jobs, MayDo, Loaded
  <2>3. PICK x : Adds(u[1], x) /\ x.setting = job[u].setting
    BY <1>3 DEF Writes
  <2>4. Everywhere' = Everywhere \cup {x} BY <2>1, <2>3, AddsDoes DEF Typed
  <2>5. x.setting # "key" BY <2>2, <2>3
  <2> QED BY <2>4, <2>5
<1>4. ASSUME NEW d \in Device, NEW e \in Device, Gets(d, e)
      PROVE  Everywhere' = Everywhere
  BY <1>4, GetsDoes DEF Typed
<1>5. UNCHANGED log => Everywhere' = Everywhere BY DEF Everywhere
<1>6. \/ \E u \in User : Told(u)
      \/ \A e : e.setting = "key" => (e \in Everywhere' <=> e \in Everywhere)
  BY <1>1, <1>3, <1>4, <1>5, LogStep DEF Typed
<1>7. \/ \E u \in User : Told(u)
      \/ UNCHANGED using \/ \E u \in User : FindKey(u)
  BY UsingStep DEF Typed
<1> QED BY <1>2, <1>6, <1>7

\* Every step is one of FirstKey, or leaves its variables alone.
LEMMA PromiseStep ==
    ASSUME IInv, [Next]_vars
    PROVE  [Promise!Next]_<<Ids(Everywhere, "key"), using>>
<1> DEFINE Made == Ids(Everywhere, "key")
<1>1. Typed /\ TypeOK /\ Jobs /\ Dated /\ Entries
  BY DEF IInv, Typed, TypeOK, Entries
<1>2. ASSUME NEW u \in User, Told(u) PROVE Promise!Make(u)
  <2>1. u[1] \in Device BY DEF User
  <2>2. PICK x : /\ Adds(u[1], x) /\ x.setting = "key"
                 /\ x.id \notin Made
                 /\ using' = [using EXCEPT ![u] = x.id]
    BY <1>2 DEF Told
  <2>3. using[u] = NoKey BY <1>1, <1>2 DEF Told, Jobs, MayDo
  <2>4. x.id \in 1..MaxId BY <2>2 DEF Adds
  <2>5. Ids(Everywhere', "key") = Made \cup {x.id}
    <3>1. Everywhere' = Everywhere \cup {x} BY <1>1, <2>1, <2>2, AddsDoes
    <3> QED BY <2>2, <3>1 DEF Ids, Of
  <2> QED BY <2>2, <2>3, <2>4, <2>5 DEF Promise!Make, Promise!NoKey, NoKey
<1>3. ASSUME NEW u \in User, FindKey(u), Ids(Everywhere', "key") = Made
      PROVE  Promise!Follow(u) \/ UNCHANGED <<Made, using>>
  <2>1. u[1] \in Device BY DEF User
  <2> DEFINE k == KeyOf(u[1])
             Here == Ids(log[u[1]], "key")
  <2>2. k \in Here /\ \A i \in Here : k <= i
    BY <1>1, <1>3, <2>1, FirstIsLeast DEF FindKey
  <2>3. using' = [using EXCEPT ![u] = k] BY <1>3 DEF FindKey
  <2>4. \A e \in log[u[1]] : e \in Everywhere /\ e.id \in 1..MaxId
    BY <1>1, <2>1, AnywhereIsEverywhere DEF Entries
  <2>5. Here \subseteq Made /\ Here \subseteq Nat
    BY <2>4 DEF Ids, Of
  <2>6. using[u] = NoKey \/ using[u] \in Here BY <1>1 DEF TypeOK
  <2>7. UNCHANGED Made BY <1>3
  <2> HIDE DEF k, Here, Made
  <2>8. CASE using[u] = k
    <3>1. \A v \in User : using'[v] = using[v] BY <1>1, <2>3, <2>8 DEF Jobs
    <3>2. using' = [v \in User |-> using'[v]] BY <1>1, <2>3 DEF Jobs
    <3>3. using' = using BY <1>1, <3>1, <3>2 DEF Jobs
    <3> QED BY <2>7, <3>3
  <2>9. CASE using[u] # k
    <3>1. using[u] = NoKey \/ k < using[u]
      <4>1. SUFFICES ASSUME using[u] \in Here PROVE k < using[u] BY <2>6
      <4>2. k <= using[u] BY <2>2, <4>1
      <4>3. k \in Nat /\ using[u] \in Nat BY <2>2, <2>5, <4>1
      <4> QED BY <2>9, <4>2, <4>3
    <3>2. k \in Made BY <2>2, <2>5
    <3> QED BY <2>3, <2>7, <3>1, <3>2
            DEF Promise!Follow, Promise!NoKey, NoKey, Made
  <2> QED BY <2>8, <2>9
<1>4. \/ \E u \in User : Promise!Make(u) \/ Promise!Follow(u)
      \/ UNCHANGED <<Made, using>>
  BY <1>1, <1>2, <1>3, KeysStep
<1> QED BY <1>4 DEF Promise!Next

\* A caller makes a key only while it has none, and gives its key up only for
\* an older one that was made for the same books, wherever the keys come from
\* (ensureBackupKey of backup/keeper.js): all that FirstKey says of a step.
THEOREM KeepsToTheFirstKey == Spec => Promise!Safe
<1>1. Init => Promise!Init
  <2> SUFFICES ASSUME Init PROVE Promise!Init OBVIOUS
  <2>1. Everywhere = {} BY DEF Init, Everywhere
  <2>2. Ids(Everywhere, "key") = {} BY <2>1 DEF Ids, Of
  <2> QED BY <2>2 DEF Init, Promise!Init, Promise!NoKey, NoKey
<1>2. IInv /\ [Next]_vars
        => [Promise!Next]_<<Ids(Everywhere, "key"), using>>
  BY PromiseStep
<1> QED BY <1>1, <1>2, Invariance, PTL DEF Spec, Promise!Safe
=============================================================================
