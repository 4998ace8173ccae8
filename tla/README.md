# Belege in TLA+

Belege keeps receipts, payments and their matches in sealed, append-only
databases (OrbitDB over libp2p) in the browser. Own devices replicate the books
among themselves; a small Node process, the bridge, talks to banks, mail,
language models and Aleph for them; backups of the books go to Aleph as sealed
files. There is no server that orders anything, so what makes the program work
is in the order of callbacks, awaits, messages and reloads. These modules model
that part, TLC checks small instances of them, and TLAPS proves some of what
was checked for every instance.

    tlasany DeviceGate.tla                          # parse
    tlc -workers 2 -config queue.cfg MCRunQueue.tla # one run
    tlapm DeviceGate_proofs.tla                     # the proofs

`PROJECT.json` lists components, runs, mutations, hazards, findings, theorems
and, for every definition that models code, the lines it models. Paths below
are relative to `src/`; `lib/` is `app/src/lib/`.

## 1. The system

| Component | State it keeps | Operations | Hard behaviour | Modelled in |
|---|---|---|---|---|
| Device gate (`packages/device-gate`, `lib/sync/first-contact.js`) | `proved`, `proving`, `waiting`, `held`; none of it outlives the process | prove on connection, answer, hold and make topology calls, hold and serve streams, forget | proof exchange of five awaits against closes, lost streams, timeouts, removals and restarts on either side | `DeviceGate` |
| Quiet identify (`packages/device-gate/src/quiet-identify.js`) | none | filters a message | none | no |
| Own-device sync (`lib/sync/`) | device records in the settings; `knownPeers`, `blocked` in memory | rounds, dial, add, remove, hang up, leave, place at a relay | concurrent rounds, in-memory list rebuilt during awaits, a dial that outlives a removal | `DeviceSync`; what it does to the gate in `DeviceGate` |
| Bridge node (`bridge/src/node.js`, `grants.js`, `pairing.js`) and its client (`lib/sync/remote-bridge.js`) | devices and grants in two files, counters in memory | set devices, authorize, renew, spend | overlapping handlers of several devices, restart between the two files, expiry, limits | `BridgeNode`; its gate in `DeviceGate` |
| Sealed store (`lib/store/`) | one log per collection, an index in memory | put, list, restore, settings as read-then-put | a walk over the log against own writes and sync; last write wins between devices | `SealedDocuments` (the index), `BackupSettings` (settings); records and their merge in `Matching`, `DeviceSync` |
| Backup chain (`lib/backup/`) | chain and history in the settings; objects on Aleph | full backup, increment, automatic increment, restore, forget | two devices on one chain, late or lost answers, partial content; overlapping calls of one setting | `BackupChain`; its key and history in `BackupSettings`, `FirstKey` |
| AI job queue (`lib/jobs/`, `lib/receipts/extract-queue.svelte.js`) | queue and workers in memory, `pendingJobs` in the settings | run, cancel, resume, discard | workers interleave at every await; reload in the middle | `RunQueue` |
| AI suggestions (`lib/matching/ai-suggest.svelte.js`) | as the job queue | as the job queue | shares `pendingJobs` | `RunQueue`, by its saves |
| Book move and new keys (`lib/move/`, `lib/session.svelte.js`) | a mark in the settings, a pack in IndexedDB | pack, take over, renew keys | cut short at any record, taken up again after the session wrote in between | `BookMove`, `TakeOver` |
| Keys, vault, members (`lib/books-vault.js`, `lib/members/`, `lib/session.svelte.js`) | keys; access list | derive, seal, join, remove a member | a member taken out writes on | no; pure derivations, access by OrbitDB |
| Matching (`lib/matching/`) | matches, and fields of bookings and receipts that follow them | automatic run, confirm, unlink, no receipt needed, catch up | runs on several devices that have not met; several records per action | `Matching` |
| Imports (`lib/bank`, `lib/receipts`, `lib/wallets`, `lib/exchanges`, `lib/paperless`) | records by fingerprint | parse, de-duplicate, write | the same import on two devices | no; conversions, and one write |
| Booking, export, VAT, year, outlays, travel, statistics, assets | none beyond records | compute | none concurrent | no; sequential arithmetic |
| UCEP invoicing (`lib/ucep/`) | pairing | request and response | timeouts | no |
| Bridge server and commands (`bridge/src/server.js`, `commands.js`) | configuration files | one request each | none across requests | no |
| Portals (`bridge/src/portals/`) | a browser per run | record, replay | one run at a time, sessions that expire | no; next in the plan |
| Enable Banking links (`bridge/src/enablebanking-links.js`) | links by state | start, return, expire | return after expiry | no; next in the plan |
| LLM, rates, chains, ledger, hosting, user interface, end-to-end tests | - | - | - | no; external calls, conversions, presentation |

How they interact. Device sync writes the list of devices into the settings,
dials from it and tells the gate whom to admit and whom to forget. The gate
decides whether a connection carries replication (gossipsub, Bitswap and the
heads exchange are gated protocols or topologies). Replication merges the logs,
the settings among them, by last write wins. The job queue and the backup chain
keep where they stand in the settings, so both meet other devices' writes and
their own earlier life after a reload. The bridge runs the same gate with a list
that the devices tell it.

What makes each correct. Gate: only holders of the key are served; own devices
do find each other; a removed one is cut off; nothing that waits for a proof is
forgotten. Device sync: in the end every device knows and blocks whom its list
says, and nobody who is blocked keeps a connection. Bridge node: a removal that
was answered holds, a lapsed grant comes back only when the holder renews it,
the two files say the same once they are written. Sealed store: an index that is
used as it is is the newest of the log, and what a reader is told does not go
back, but for what the code lets go.
Matching: no link is lost that nobody undid, and devices agree in the end. Book
move: empty books are filled from one file as a whole, however often that is cut
short. Queue: nothing asked for is lost, nothing is sent twice at once, it ends,
and stops when told. Backup: what is recorded as saved can be restored, and in
the end all is saved; the books come to use one key, and a write of the history
that saw all others is what is read.

## 2. The modules

### DeviceGate

One instance of the gate per node, and the connections between nodes.

* `proved` is the set of the same name in `device-gate.js`; `ex[p, n]` is
  `proving` at the prover, together with how far its `exchange` has come;
  `ans[p, n]` is how far the answerer's `answer` has come; `pipe[p, n]` is the
  stream between the two and what lies in it. Each await is the border of a
  step: `StartExchange`, `ReadProof`, `Accept` or `Refuse`, `WriteBack`,
  `ReadBack`, `Finish` or `Fail`.
* An answerer that has read a proof goes on when the stream is lost (`"late"`):
  only its next write fails. That is in the code, and it is why one side can be
  proved without the other.
* `held`, `ident` and `told` are the calls of `gatedTopology`; `stream` is one
  stream of a gated protocol per pair (`waitProved`, `gatedHandler`).
* A proof is an HMAC over both ids under the shared key: what it tells the
  checker is that both have the same key, `SameKey`. `Keyings` has the pairs
  that do and pairs that do not.
* `Dial`, `ProveAgain`, `LetIn`, `Remove` and `HangUpStep` are what device sync
  and the bridge's `setDevices` do. `Remove` hangs up in steps, one connection
  per await.
* `Restart` empties a gate and takes its connections. A page forgets its list
  too, until device sync has read it again; the bridge keeps its list.
* `Server` nodes are bridges: they dial nobody, and devices give them nothing
  (`limited`).

Left out: the admission of the very first device (`!state.ever`; the model
starts with a list, and a reload keeps `ever` in the books), the list of devices
that ask to be let in, `offer` (no proof to a relay), listeners for the display,
the contents of streams.

### RunQueue

One page of one device: `runQueue` as "Alle neuen auslesen" uses it.

* `queue`, `retries`, `pause`, `cancelling`, `stopped`, `closed` are its
  variables; `pc` and `hand` say where each worker is and which id it has.
  `shift()` of an empty array is `NoId`.
* The pause is counted in doublings, `MaxPause` of them (`MAX_PAUSE_MS`).
* The saves of `pending.js` are the sequence `chain`: each loads the record,
  then writes it back with its own kind replaced, or finds its list unchanged
  and writes nothing; the next one waits for it.
* A reload is possible at any moment. Books close in two steps: first the
  databases (writes fail, reads go on from the index in memory), then the
  session (`isOpen` is false).
* `owed` and `other` are history variables, for the properties only.

Named assumption: a write fails only once the books close. If one failed with
the books open, the run would end as "done" and clear what it had kept
(`queue.js:119-132`); whether that can happen is up to the browser's storage.
Left out: the order of ids, and what is read from a receipt.

### BackupChain

Own devices, the settings' record of the chain as each device has it, and Aleph.

* The books are a set of entries. A device's log heads stand for the entries
  they reach, which is what `reachable` computes from them; heads the device has
  not got reach some subset of what it has.
* Some entries name a receipt file, which arrives after its entry (`blob`).
* `Begin`, `Send`, `Finish` are the three stretches of `runBackup` between which
  the books go on: what was read first (an increment's files, a full backup's
  entries), what is read last and uploaded, and Aleph's last word.
* The chain record is merged between devices by the log's clock and then its
  writer (`Later`). A device that saves may be behind: `MaxTick` lets clocks
  differ.
* `Send(d, NoRef)` is a bridge from before the increments. `Fail` is a failed
  upload, a lost answer or a closed tab at any of these points.
* `store` is what Aleph was sent. `Refuse` is its decision; `LateRefusals` says
  whether it may come after the device stopped asking (a minute).

Left out: forgetting old chains, the history's rows, credits and the questions
before a costly backup, the rule that settings alone are no reason for an
increment (entries here are not settings). The model begins after a first full
backup of empty books that Aleph has taken.

### BookMove and TakeOver

One new set of books, the old ones whose files may come into it, and the page.

* `here` is every record written into the new books; `setting` the live records
  of each key, which is what `setSetting` and the take-over read; `marker` the
  live mark `move-in` and the file it names. `packs` are all files packed;
  `kept` is the one in IndexedDB after `renewBooksKeys`.
* `takeOverBooks` is cut at its awaited writes: `TakeOver` (what it checks),
  `Mark`, `ReadSettings` (the Map `existing`), then per record `DropLocal` and
  `Restore` in the order of `COLLECTIONS`, `RemoveMark`, `RecordEvent`, and
  `DropRekeyFile` in the caller. `Fail` is a write that throws, `Crash` a page
  that goes away; both lose `existing` and what is left to write.
* The unlock takes the kept pack over before anything else of the session writes
  (`TakeOverAfterNewKeys`); a person picks files once the page is ready
  (`PickFile`). Then the session writes too: `WriteRecord` (an import, the
  automatic matching), `WriteSetting`.
* Four collections stand for nine: one that must be empty before the settings
  and one after, the settings, and one after them that need not be empty.
  Settings have a key; key 0 is the mark's. `MovedIn` are old books that hold
  the deleted record of a mark of their own.
* `TakeOver` is the promise: books are empty, being filled from a file, or full.
  Under the mapping in `BookMove` (`Promise`), a mark means filling and what it
  names is the file; records in books without a mark mean full. `Mark`,
  `Restore` and `RemoveMark` are its steps, everything else changes nothing it
  knows of.

Left out: sealing, the format, the checks of a file and the receipts' bytes
(a file that fails a check writes nothing); the old books between packing and
reload, and how they name their successor to other devices; the contents of a
record, so that an edit between two attempts cannot be seen to be lost.

### SealedDocuments

The index of one collection (`sealed-documents.js`): a Map of each key's newest
version, made by one walk over the log.

* `index`, `unclaimed`, `building` are the variables of the same name. A walk
  that is going (`building`) has the reads that wait for it and what the log and
  the access list were when it began; `writing` are the own writes that are in
  the log and announced and have not returned.
* Several reads go on at once, as a page's do (`session.svelte.js:608-610`).
  `ReadIndex` and `ReadByWalk` are the two ways of `current`; the second begins
  a walk or joins the one that is going.
* A walk ends in two steps, as the promise does: `WalkEnds` is the `finally`,
  after which the next read begins another one, and `Told` is where those who
  wait go on and set the index; between the two the walk is in `ended`.
  `WalkFails` is an entry that cannot be read.
* `WalkEnds` may have seen any of what came after it began, and asks the access
  list entry by entry. It may come before or after the return of any own write.
* `Put` and `PutReturns` are the two halves of `put`; `Arrive` is an entry by
  sync; `TakeOut` the `update` of the access list, which drops the index. One
  fact of OrbitDB is taken from its code: own writes return in the order in
  which they were appended, once the database's queue is idle.
* `answer`, `returned`, `floor` are what readers were told and what had returned
  when their read began.
* `dropped` is for the properties: the entries that the code lets go of. There
  are three ways: a read claims what was announced and joins a walk that may
  have missed it; an own write that returns is put over a newer version of its
  key in the Map, or is claimed between a walk's two ends; the access list
  changes while a walk is on its way. A walk that saw an entry since makes good
  for it, and takes it out again. The properties say that there is no fourth
  way.

Left out: decoding and migrations, `del` (no caller), the blocks themselves.

### Matching

Several devices, each with its copy of the collections `matches` and
`transactions`.

* `StartRun` is what `runMatching` reads and decides at once; `Clean`, `Link`,
  `EndRun` are its awaited writes. `run` holds what is left to write, `toWrite`
  what a `syncLinks` has left: it has read both collections once and puts whole
  records, each as it was read.
* `Confirm`, `Unlink`, `NoReceipt` are where a decision of `actions.js` has read
  what it will write; `decision` is what it has left. It goes on with one put
  per step (`Reject`, `PutConfirmed`, `PutBooking`), each record as it was read
  before, looks at the booking after the links (`LookAtBooking`), and ends with
  its `syncLinks`. A device makes one decision at a time; `NoReceipt` reads the
  booking and the links in one step.
* `Assigned` is the set of pairs that the greedy assignment (best first, `Lead`
  ahead of a rival) takes, over given scores.
* `SyncMatches`, `SyncTxs` merge record by record; what arrives makes a run due.

Left out: how a score comes about, questions, partners and events, the status of
receipts (kept the way `receiptId` is), instalments, what else covers a booking.
`LinksInit`, `LinksNext`, `LinksSpec`, `linksVars` and `LinksTypeOK` carry the
name so that one proof module can extend this one beside `SealedDocuments`.

### DeviceSync

Own devices, each with its copy of the device records, and the connections
between them.

* `known` and `blocked` are `knownPeers` and `blocked`. A round (`Round`) reads
  the list, then goes through it (`Handle`) up to the first device it has to
  hang up on, which is an await; `rounds` holds what suspended rounds still have
  to do, with the list as they read it. Timer and settings both start rounds.
* `AddDevice`, `LetIn` and `RemoveDevice`, `Block`, `HangUp` are the awaited
  parts of `addDevice` and `removeDevice`; `WriteSelf`, `Leave`, `Close`, `Open`
  a device's own record, being removed elsewhere, and the page. `Leave` drops
  the connections and the round's own list; `knownPeers` stays as it was.
* A dial asks the gaters of both sides (`LetsIn`). One in `SlowDials` takes a
  step of its own to come through (`Dialled`).
* A connection stands for one on which both have proved themselves; how they do
  is `DeviceGate`, whose `LetIn` and `Remove` are the calls made here.

Left out: names and addresses, relays, a gossipsub that went mute, the QR link,
the bridge's node, several records of one device.

### BridgeNode

The node of the bridge and the devices of the books that tell it their list.

* `known` and `grants` are in memory, `file` is `device-grants.json`, `json` the
  list in `bridge.json`, `config` the value about to be written there; `queue`
  is the chain of writes in `grants.js`.
* A call of `devices` is `call[d]`: asked, reading (the walk of a device that is
  not the holder, suspended at each device it has not got), saving, config.
  `SetList` is `setDevices` with `grants.set`; `Saved` the end of a chained
  write and `onDevices`; `Answer` what the device is told.
* `Use` and `Renew` are `authorize` and `renew`; `Restart` a new process, with
  `adopt`. `lists`, `has`, `told` are the versions of the books' list, which of
  them a device has, and its `toldDevices`.

Left out: pairing and unpairing, scopes (the app tells none), the limits on what
costs, the LAN relay; a reload of a page, which forgets `toldDevices` and so
only tells more often.

### BackupSettings and FirstKey

The sealed settings under calls that overlap, as the backups use them: the key
that signs for the paying account, the history of backups, the chain.

* `log[d]` is what a device has of the settings' log: entries with the id of
  their record, the place that OrbitDB gives them (`at`, `tie`: clock, then
  hash) and the value. `Get` reads as `getSetting` does: the newest id, and of
  that record what was written last. The order of ids is not that of the
  entries: an id is the time of a device's clock, which may be ahead or behind,
  so `Put` takes any free one.
* `setSetting` is cut at its await: `Place` has found the record to write to (or
  none), `Write` puts. What is written was made from a list read before that
  (`Load`), so that two calls, on one device or two, may leave two records, or
  overwrite what the other has put.
* A device's callers are the card of the backups, what makes them, and the card
  of the credits; each makes one call after the other (`job`). `FindKey`,
  `FindNone`, `MakeKey` are the ways of `ensureBackupKey`; `using` is the key a
  caller was told. `StartBackup`, `Remember`, `Amend` are the writers of the
  history: a backup, its row and then the chain, and the card's updates and
  drops.
* `Reload` loses the calls of a page; `Sync` brings one device what another has.
* `seen` and `change` in an entry, `begun` and `calls` are for the properties
  and the bounds.
* `FirstKey` is what `ensureBackupKey` promises: keys made by whoever has none,
  given up for older ones only, and one for all in the end. `Promise` maps the
  key records that any device has to the keys made.

Left out: keys that are no keys (`keeper.js:130-132` skips them), the credits
paid in, the grant and the paying account, what the packing of a backup reads,
and what stops one before its upload. An amendment is of a row the device's
history has.

## 3. The runs

| Run | What it asks | Size | Result |
|---|---|---|---|
| `gate_paths` | who is proved, served, told, with two connections at once, a path over the own network and a fault anywhere | 244 k states, 20 s | passes |
| `gate_devices` | two devices that both dial; reloads, removals, lost streams: mutual in the end, a removed one is cut off | 2 min | passes |
| `queue` | nothing owed lost, other kind kept, no id twice, every run ends | 650 k states, 1.5 min | passes |
| `backup` | recorded is restorable, no hole, all saved in the end | 524 k states, 1 min | passes |
| `move` | filled from one file as a whole, marked until then, the kept pack comes in; refines `TakeOver` | 263 k states, 1 min | passes |
| `index` | with two reads at once, but for what was let go: an index used as it is is the newest, a reader sees its own writes and never goes back | 2.65 M states, 2 min | passes |
| `links` | no link lost that nobody undid, devices agree in the end | 660 k states, 2 min | passes |
| `sync` | nobody blocked keeps a connection; the list is followed in the end | 426 k states, 2 min | passes |
| `grants` | a removal holds, files agree, only the holder renews | 670 k states, 30 s | passes |
| `settings` | one key for all in the end, given up for older ones only (refines `FirstKey`); a write that saw all others is what is read | 680 k states, 2.5 min | passes |
| `move_carry_on` | the file of a take-over cut short is accepted again | | `CarriesOn` violated |
| `index_joined` | a read that begins after an own write has returned is told it | | `OwnWritesAreRead` violated |

Each of the following configurations asks a question of its own and is kept to
be run by hand, as `tlc -workers 2 -config gate_bridge.cfg MCDeviceGate.tla`:

| Configuration | Module | What it asks | Result |
|---|---|---|---|
| `gate_bridge` | `MCDeviceGate` | a device and a bridge: mutual in the end, and no call waits for ever (`NoStreamWaitsForever`) | passes |
| `gate_bridge_restart` | `MCDeviceGate` | the same when the bridge restarts | `EventuallyMutual` violated |
| `queue_cancel` | `MCRunQueue` | no id is taken after a cancellation or a lock | `StopsAfterTheIdInHand` violated |
| `backup_files` | `MCBackupChain` | files recorded are in the backups | `FilesAreInTheChain` violated |
| `backup_refused` | `MCBackupChain` | recorded is restorable when Aleph refuses late | `ShippedIsKept` violated |
| `move_again` | `MCBookMove` | marked until the last record, for books once taken over themselves | `MarkedWhileIncomplete` violated |
| `index_list` | `MCSealedDocuments` | what a member wrote after being taken out is in no index used as it is | `TakenOutIsGone` violated |
| `links_confirmed` | `MCMatching` | no link is lost that a person confirmed on both devices | `LastLinkStays` violated |
| `sync_dialled` | `MCDeviceSync` | nobody blocked keeps a connection, slow dials in all directions | `BlockedIsHungUp` violated |
| `grants_overlap` | `MCBridgeNode` | a removal holds, with two devices that are moved | `RemovalHolds` violated |
| `grants_kept` | `MCBridgeNode` | in the end the bridge knows whom the books list | `KeptCurrent` violated |
| `settings_member` | `MCBackupSettings` | a member's device makes no key | `MembersMakeNone` violated |
| `settings_chain` | `MCBackupSettings` | the history has every row of the chain that backups go on with | `ChainIsWhole` violated |

The bounds, and why they are enough.

* Gate: two nodes. The gate keeps everything per peer and no step relates two
  peers, so a third node adds products of what two already do; the proofs hold
  for any number. `MaxConns = 2` has one connection each way, which is where
  `held` and `told` can go wrong; the liveness run has one. One or two faults:
  each of the known ways to diverge needs one, and recovery from it is the
  liveness property. `EventuallyMutual` bounds faults, so "in the end" means
  once faults stop.
* Queue: two workers, two receipts, one retry per receipt, two runs, one reload,
  one save of the other kind. Two workers are what interleaves; with two
  receipts the queue runs empty while a worker sleeps; the second run is
  "weitermachen" after the reload.
* Backup: two devices, a payment and a receipt with a file, one backup by hand
  beside the automatic ones, one failure of any kind. With two ticks of the
  clock instead of one the run still passes (1.5 M states).
* Move: two old books, one of which gets new keys; two packs, so that there are
  an older and a newer file of the same books and a file of others; two cuts, so
  that a second attempt is cut short too. Two settings, of which one stays
  behind. `Meanwhile` has links and settings: what an own payment or receipt
  does to the check, an own link does too.
* Index: two keys, three entries, two own writes on their way, two reads at
  once: a walk can miss one entry and see the next one, of the same key or of
  the other one, a read can join a walk that missed what it asks for, and a
  second walk begin before the first is told. Keys and reads are symmetric.
* Links: two devices, one receipt, two bookings of which one is only on one
  device at first; the sure pair is found by both. `MaxMatch = 3` is a link from
  each device and one of a person. `ConfirmsSure = FALSE` keeps a person from
  confirming what the runs link (`links_confirmed`), `MaxEarly = 0` bookings
  from coming before the links that name them.
* Sync: three devices, so that one can learn of the removal of another from a
  third; two suspended rounds of one device; two decisions (remove, and add or
  remove again); one page closed. `SlowIn` has slow dials into the device that
  removes (`sync_dialled` has the others).
* Grants: three devices that all tell, of which one is moved off the list and on
  it again (`MaxList = 3`); a day passes, with `IdleDays = 0` long enough for a
  grant to lapse; one restart anywhere. A day passes only when nothing is under
  way: a write and a call take less. With two devices that are moved a walk can
  bring one back (`grants_overlap`).
* Settings: two devices with two callers each, so that calls overlap on one
  device and on two. Two full backups and one row kept of other chains: a third
  row would go the way of the second. Three ids are enough for a newest, an
  oldest and one between them; three calls that write let one overlap with two
  others. No backup is taken by Aleph in this run (`Verdict`), which keeps the
  chain where it is: nothing it asks reads the chain. `settings_chain` has one
  device, both words of Aleph, and an increment.

Deadlock is not checked: a person may close everything, and the bounded models
come to rest.

Fairness, and what in the code justifies it.

* Gate: `Dial` and `ProveAgain` by device sync's timer, a round every
  `REDIAL_MS` (`device-sync.js:729`); the exchange's steps, `hangUp` and the
  end of a wait, because they are awaited calls and timers. Nothing is assumed
  of `LetIn`, `OpenStream`, `Identify`, nor of faults.
* Queue: a worker's steps, because the pause is a timer and a request ends (it
  has a timeout or fails); the saves; the end of the run. Not of `Start`,
  `Cancel`, the books.
* Move: each awaited step of a take-over, and of an unlock. `Leave` and `Unlock`
  are the person who comes back; `PackComesIn` says what that leads to. Nothing
  is assumed of `PickFile`.
* Backup: each next step of a device in `Automatic`, because they are awaited
  and the timer is planned again after every write and every run. Not of devices
  without it, nor of replication.
* Links: one condition over everything that goes on by itself
  (`WF_linksVars(Progress)`): a run that is due starts (a timer); runs,
  decisions and `syncLinks` are awaited; connected devices replicate. Each of
  these comes to an end, so that one of them goes on while any can is enough.
  Nothing is assumed of what a person begins.
* Sync: one condition over everything that is a timer, an await or replication
  (`WF_more(Step)`): as long as one of these can change more than the dials
  under way, one does. Rounds start for ever, so a round that changes nothing
  does not count. Not of decisions, nor of pages that close and open.
* Grants: a handler's steps, the chained write, the timer that tells, the
  arrival of a newer list. Not of `Renew`, `Use`, changes and restarts.
* Settings: a caller's next step, because it is awaited; `KeyStep`, because
  backups and cards ask for the key whenever they are about to use it
  (`auto.svelte.js:150`, `BackupCard.svelte:447`); replication. Not of backups,
  of what a person does at the card, nor of reloads.
* The index has no liveness: a read is told as soon as its walk ends.

## 4. What the violated runs show

Of the runs:

1. `move_carry_on`: a page closed in the middle of a move is opened again, the
   catch-up run of the matching links the receipts that are in, and from then on
   `onlyFrom` (`book-move.js:504`) refuses the file that should finish the move,
   against `i18n/en.js:1132` and 1146. The books stay half filled.
2. `index_joined`: a read that begins after an own write has returned may join
   a walk that began before it (`building ??= build()`,
   `sealed-documents.js:99`) and is told the older version, against the comment
   on `put`: "left unclaimed, the next read builds it again"
   (`sealed-documents.js:115-116`). That read has claimed the entry by then, so
   every later read is told the same, until the next entry comes. The page reads
   three lists at once (`session.svelte.js:608-610`).

Of the configurations kept beside them:

3. `gate_bridge_restart`: `proved` is not cleared when a connection closes
   (`device-gate.js:274`). After the bridge's process restarts, an open page
   believes it is still proved, skips every exchange, and the bridge, which
   never dials, does not learn of it. `docs/device-proof.md:32` has failed
   exchanges tried again each round. Two devices that both dial recover from the
   other side.
4. `queue_cancel`: a worker that slept takes one more id without asking whether
   the run was cancelled or the books locked (`queue.js:87-88`), against
   `queue.js:6-7` and `extract-queue.svelte.js:125`.
5. `backup_files`: an increment lists receipt files this device does not have
   (`archive.js:311`); the chain counts them as shipped, and no increment after
   it brings them. A new full backup does, on a device that has them.
6. `backup_refused`: the chain moves on "pending" (`run.svelte.js:315`), against
   `chain.js:6-7`. The entries of an increment refused afterwards are in no
   backup until the next full one.
7. `move_again`: a pack carries the deleted mark of an earlier move along
   (`LEFT_OUT_SETTINGS` does not name it), and restoring the settings removes
   the live mark before links, questions, events and trips are in
   (`book-move.js:575`). Cut short after that, the books are refused for ever.
8. `index_list`: a change of the access list drops the index
   (`sealed-documents.js:66`), and a walk that is going sets it again, with
   entries of the member taken out that it saw before; against
   `sealed-documents.js:65-66` and 76-77.
9. `links_confirmed`: two devices link a pair, a person confirms each link on
   its device; the confirmed link counts before the automatic one, so each
   device deletes the other one before they meet (`matching/engine.js:205-224`),
   and the pair is linked no more, against lines 201-204.
10. `sync_dialled`: a dial that is on its way when its device is removed comes
    through afterwards. `refreshKnown` hangs up only on whom it newly blocks
    (`device-sync.js:495-499`), so the connection stays; lines 21-26 say it is
    cut.
11. `grants_overlap`: a device's handler is suspended in its walk through
    `known` (`node.js:386-394`, at `await pairedBy`), the holder takes off a
    device that the walk has passed, and the end of the walk sets it again. It
    stays until the list is told again.
12. `settings_member`: `loadCredits` asks for the key without `create`
    (`credits/credits.js:193`), on a member's device too: where the books' key
    has not come yet, switching the credits on makes one, against
    `keeper.js:119-121`. Credits paid in meanwhile are for a key that nobody
    uses once the owner's older one comes.
13. `grants_kept`: a device that has not got the newest list yet tells the
    bridge its own, which takes the new device off (`node.js:386-394`); the
    holder has told its list and does not tell it again
    (`session.svelte.js:1071`), against `node.js:371-374`.
14. `settings_chain`: a full backup that Aleph refuses leaves its row all the
    same (`run.svelte.js:287-300`), and `withBackup` then counts the rows of the
    chain that backups still go on with among the others, of which KEEP stay; or
    an update that had loaded the list before a backup's row was put takes it
    out again (`history.js:66`, `history.js:105`). Against `history.js:15-18`:
    "The chain a record continues keeps every row".

## 5. What is proved

TLC checks small instances. The following holds for every value of the constants
that meets the named hypotheses; sets need not be finite unless said.

`DeviceGate_proofs`, from `GateAssumption` alone (the constants are what their
comments say):

* `TypeCorrect`: `Spec => []TypeOK`.
* `OwnDevicesOnly`: `Spec => []OnlyOwnDevices`. Inductive beside the types: the
  only steps that add to `proved` are `Accept` and `Finish`, which have checked
  the proof (`MarkProvedOwn`); those that add to `stream` or `told` have asked
  `proved` in the same step; all others only take away (`LessOwn`).
* `RemovedStaysOut`: `LocalPaths = {}` implies `Spec => []RemovedIsNotProved`.
  Needs `known \cap blocked = {}` beside it (`RemovedInv`): an exchange that
  ends asks `admit` in the step in which it marks. The hypothesis is needed: on
  the own network `admit` does not ask the list, and a removal during the check
  of a proof is undone in the gate (the device stays blocked and cut off).
* `NoWakeUpLost`: `Spec => []NoSleepingStream`.
* `NoNotificationLost`: `Spec => []NoTellLost`, by the inductive invariant
  `Notified`. `NoTellLost` is not inductive: it says nothing of a notification
  whose peer is unproved. `Notified` says where each notification is: held,
  told, for a limited peer, or of a connection that is being hung up; and that a
  notification belongs to an open connection, so that `Drop` takes back exactly
  what it must.

`RunQueue_proofs`, from `QueueAssumption` alone: `TypeCorrect`, `NoneForgotten`
(`OwedIsKept`), `BothListsKept` (`OtherKept`), `NoneTwice` (`InOnePlace`). They
are one induction (`Inductive`), because each needs the others:

* `Workers`: a worker has an id in hand only while it asks, and no worker is
  left when no run is going, so that a new run shares no id with an old one.
* `SavesOK`: of the chained saves at most the first has loaded, and what it
  loaded is what is on disk. Without it `OtherKept` is not inductive: a save
  could write back an old list of the other kind.
* `Whose`: a worker waits for its own save, and for one only; the run's first
  save is the last of its kind as long as it is there.
* `Owed`: what is owed is in the queue or in a hand, and in every save that is
  to come. `OwedIsKept` speaks of the disk, which a later save replaces.

`BackupChain_proofs`, from `BackupAssumption`, `Device # {}` and `LateRefusals =
FALSE`: `TypeCorrect`, `Shipped` (`ShippedIsKept`) and `Gapless` (`NoHole`), by
one induction. Its centre is `ChainsAreSound`: every chain, and every chain a
run goes on from, stands on backups that Aleph has kept and that no run waits
for any more (`Settled`), which nothing can refuse afterwards. `RunsAreSound`
says what a run moves its chain to was in what it sent; `InOrder`, that an
increment was sent after the ones before it had settled; `Ids`, that no two runs
wait for one backup. `backup_refused` shows that the hypothesis is needed.

`BookMove_proofs`: `TypeCorrect` from `MoveAssumption`, and when also `MovedIn =
{}`: `PartlyFilledIsMarked` (`MarkedWhileIncomplete`), `ToldOfIsThere`
(`MovedIsThere`), `OneRecordPerSetting` (`NothingDoubles`), `PackOutlives`
(`PackOutlivesTakeOver`), and `Refines`: every behaviour is one of `TakeOver`,
under the mapping of section 2. In the invariant, `Progress` says that while a
take-over writes, the mark names its file and what it has left to write is what
is missing; `ReceiptsFirst`, that no moved record is in without a receipt, which
is what lets the check of a second attempt see whose books these are;
`OneOrigin`, that what is in is all of one file; `MovedIsLive` and `OneLive` are
about settings. `move_again` shows that the hypothesis is needed.

`Documents_proofs` on `SealedDocuments`, from `IndexAssumption` alone, for any
keys, readers and bounds: `TypeCorrect`, `NeverStale` (`NothingStale`),
`SeesOwnWrites` (`ReadsOwnWrites`) and `NeverBack` (`ReadsGoForward`), by one
induction (`Inductive`). None of the three is inductive: each speaks of a moment
at which nothing is announced, or of a reader who is told, and what is told then
was decided while a walk was on its way. `Going` says of the walk that is going
that what it may miss is announced or was let go, and that it sees what those
who wait for it were told and are owed; `Over` says the same of a walk that has
ended, and that its Map has the newest of what it saw; `Right`, of the index.
`Sources` says that what was returned or told is in the log, `Forms` what walks
and indexes look like. `WalkSees` is the heart: whatever came, and however often
the access list was asked before and after it changed, the Map has of all that
the walk saw, for each key, a version at least as new as any that counts.

`BridgeNode_proofs`, from `BridgeNodeAssumption` alone: `TypeCorrect`,
`FilesSettle` (`SettledFiles`) and `RenewedByHolder` (`OnlyRenewed`), for any
number of devices, lists, days and restarts. `Writes` says where the newest
state is while files are behind it: the last chained write is of the grants as
they are, the list that is written next is the known one unless a handler still
saves, and the file has it unless a handler still writes; a handler waits for
one write. `LapsedIsWritten`: a grant that has lapsed has not changed since the
last day, so the file and all chained writes have it. Without it a restart could
bring back an older grant, and `OnlyRenewed` is not inductive. `GrantSteps` is
what one step can do to a grant. With at most one device in `Movable`,
`RemovalStays` (`RemovalHolds`): by `Holds`, the walk of another device's call
is suspended only at the device that is moved, so what it carries over the wait
is steady, and what a call took off is on no list that is known or will be
written. With two such devices a walk can carry the one over the removal of the
other (`grants_overlap`).

`DeviceSync_proofs`, from `DeviceSyncAssumption` and finitely many devices
(`Finitely`, which the largest of a set needs): `TypeCorrect`, and, where dials
that take long go to devices that are never removed (`QuickDials`),
`BlockedIsCutOff` (`BlockedIsHungUp`). In the invariant, `Records` says that
only who may be removed has a deleted record on any device, and `Held` carries
that on to the list each suspended round has read, to whom a device blocks and
to what a person began; `Connected`, that dials and connections are of two
devices that are up. `ContinueDoes` is the heart: a round hangs up on whom it
has blocked in the step in which it gives up its place in `rounds`, and connects
nobody who is blocked on either side. `sync_dialled` shows that the hypothesis
is needed.

`Documents_proofs` on `Matching`, for any devices, receipts, bookings, scores and
bounds: `LinksTypeCorrect` (`LinksTypeOK`) from `MatchingAssumption` alone, and
`LinkedStays` (`LastLinkStays`) where no person confirms a pair that runs link
by themselves (`~ConfirmsSure`). `LastLinkStays` is not inductive: it speaks of
the record that all devices will have in the end, and nothing in it keeps a run
from deleting that one next. `LinksInv` says it of every copy: by `Kept`, no
record of a pair that nobody undid is rejected, it is confirmed only where the
pair is not sure, and it is deleted only where the same device has an older one
of the pair, so the oldest record of a pair is deleted nowhere. `Plans` says
that of what suspended runs still mean to delete and link, and that no booking
is deleted, nor put as deleted by a decision (which is why a link is never taken
for one whose booking is gone); `Decided`, that what a decision has left to
write is of the pairs that its device has under these ids by now, and confirms
what a person may confirm; `Recorded`, that each linked pair has a
record somewhere. The writes of runs and persons are one form (`Writes`), and
which of them keep `Kept` is said once (`Allowed`), so that each step is shown
to be one of these (`CleanWrites`, `LinkWrites`, `RejectWrites`,
`PutConfirmedWrites`); replication only ever takes a record from one of two
sides (`SyncKeeps`). That the greedy
assignment takes only sure pairs is all that is needed of it. `links_confirmed`
shows that the hypothesis is needed: a confirmed link is put before an older
automatic one.

`BackupSettings_proofs`, from `BackupSettingsAssumption` alone: `TypeCorrect`,
`ReadsTheLast` (`InSightOfAll`), and `KeepsToTheFirstKey`: every behaviour is one
of the safety half of `FirstKey`, the other half of `UsesFirstKey` being
liveness. `InSightOfAll` is about a moment at which one write has seen all
others; the invariant beside it says how such a moment comes about: `Dated`,
that entries are dated below some bound, so that a new one is later than all its
device has; `Jobs`, what a call that was told a key may be doing; `Closed`, that
a device with a write of the history has all that it was made with; `Calls`,
that what a call is about to write is what the history it saw becomes, and that
it goes into the record that is read as long as nothing else came (`Sound`).

`Documents_proofs`, `BackupSettings_proofs` and `DeviceSync_proofs` each begin
with what they need of least and greatest numbers, which follows from
well-founded induction.

Every invariant and every action property that a passing run checks is stated by
a theorem. Only model-checked is liveness: `EventuallyMutual`, `RemovedIsCutOff`,
`RunEnds`, `AllIsSaved`, `PackComesIn`, `AgreeInTheEnd`, `FollowsItsList`,
`NoStreamWaitsForever` (in `gate_bridge`) and the liveness half of
`UsesFirstKey`. Liveness under fairness and ENABLED are out of this prover's
reach.

## 6. Not modelled, and what comes next

Of the components above:

* Forgetting old chains (`keeper.js:485`, `BackupCard.svelte:285`).
* The limits on model calls (`grants.js:332`): calls at once all pass a limit
  that the first one uses up.
* Portals and Enable Banking links: machines of their own that touch none of the
  modelled parts.
* `pendingJobs` shared between devices (`pending.js:36`), and the clocks of
  device records (`device-sync.js:321`), which the model takes to agree.
* `saveConfig` of the bridge writes one temporary path (`config.js:388`): two
  saves that overlap are one file in the model, which is what the rename leaves
  when both succeed.
* A page's reload forgets `toldDevices`; the tie of equal clocks is broken by a
  hash in OrbitDB and by the device here, but in `BackupSettings`; a stale full
  record that `syncLinks` puts (`engine.js:108-147`) can also undo "Kein Beleg
  nötig", which `Matching` has as a behaviour and no property forbids.
* Pure conversions, parsing, arithmetic over the books, presentation:
  sequential, and well reached by unit tests. They are most of the source's
  lines.
