----------------------------- MODULE DeviceGate -----------------------------
(***************************************************************************)
(* The device gate: packages/device-gate/src/device-gate.js, as the app    *)
(* (app/src/lib/node.js) and the bridge's node (bridge/src/node.js) use    *)
(* it.  Every node runs one gate.  A node gives its gated protocols and    *)
(* its topologies (gossipsub, Bitswap) only to a peer that has proved that *)
(* it holds the key the two share.                                         *)
(*                                                                         *)
(* One exchange runs between a prover p and an answerer n, over a stream   *)
(* that p opens: p's proof, n's check, n's proof back, p's check.  Each    *)
(* await of the code is a step here, so that a reload, a removal, a        *)
(* timeout or a lost stream may come between any two of them.              *)
(*                                                                         *)
(* An HMAC under the shared key is modelled by what it tells the checker:  *)
(* that the other side holds the same key for this pair (SameKey).         *)
(***************************************************************************)
EXTENDS Naturals, FiniteSets

CONSTANTS
    Node,        \* the peers: devices of the books, the bridge's node, others
    Server,      \* the bridge's nodes: they dial nobody and hold no books
    Key,         \* the keys a gate may run on
    Keyings,     \* the assignments of keys a run may start with
    Dials,       \* <<n, p>>: n's device sync dials p while n's books know p
    LocalPaths,  \* <<n, p>>: n sees p over the own network (QR, the LAN relay)
    Restarts,    \* the nodes whose page is reloaded or whose process restarts
    Removes,     \* the nodes that take a peer off their list
    Streams,     \* <<n, p>>: p calls a gated protocol of n
    MaxConns,    \* bound on the connections between two peers at once
    MaxFaults    \* bound on lost streams, timeouts, closes, restarts, removals

ASSUME GateAssumption ==
    /\ Server \subseteq Node
    /\ Keyings \subseteq [Node \X Node -> Key]
    /\ Dials \subseteq { d \in Node \X Node : d[1] # d[2] }
    /\ LocalPaths \subseteq Node \X Node
    /\ Restarts \subseteq Node
    /\ Removes \subseteq Node
    /\ Streams \subseteq Node \X Node
    /\ MaxConns \in Nat
    /\ MaxFaults \in Nat

VARIABLES
    keyFor,   \* keyFor[n, p]: the key n proves and checks with towards p
    conn,     \* open connections, <<dialer, answerer>>
    known,    \* <<n, p>>: n's books (or the bridge's list) name p
    blocked,  \* <<n, p>>: n neither dials p nor lets it in
    closing,  \* <<n, c>>: n is hanging up connection c
    proved,   \* <<n, p>>: n's gate has p in `proved`
    ex,       \* ex[p, n]: where p's exchange with n stands at p
    pipe,     \* pipe[p, n]: p's proof stream to n and what lies unread in it
    ans,      \* ans[p, n]: where n's answer handler for p stands
    stream,   \* stream[n, p]: a stream p opened to a gated protocol of n
    ident,    \* <<n, c>>: n's topologies were notified of connection c
    held,     \* <<n, c>>: that notification waits for the peer's proof
    told,     \* <<n, p>>: n's topologies know p
    faults    \* how many faults have happened

vars == <<keyFor, conn, known, blocked, closing, proved, ex, pipe, ans, stream,
          ident, held, told, faults>>

net == <<keyFor, conn, known, blocked, closing>>
exchange == <<ex, pipe, ans>>
topology == <<ident, held, told>>

Pair == Node \X Node
Conn == { c \in Pair : c[1] # c[2] }

\* Every variable keeps to its values: a gate holds peers, a hang-up is noted
\* with the node that hangs up, a notification with the node that was notified.
TypeOK ==
    /\ keyFor \in Keyings
    /\ conn \subseteq Conn
    /\ known \subseteq Pair
    /\ blocked \subseteq Pair
    /\ closing \subseteq Node \X Conn
    /\ proved \subseteq Pair
    /\ ex \in [Pair -> {"idle", "open", "read"}]
    /\ pipe \in [Pair -> {"none", "proof", "empty", "back"}]
    /\ ans \in [Pair -> {"idle", "check", "late", "reply"}]
    /\ stream \in [Pair -> {"none", "waiting", "served"}]
    /\ ident \subseteq Node \X Conn
    /\ held \subseteq Node \X Conn
    /\ told \subseteq Pair
    /\ faults \in 0..MaxFaults

-----------------------------------------------------------------------------

\* The other end of connection c, seen from n.
Other(n, c) == IF c[1] = n THEN c[2] ELSE c[1]
Between(n, p) == conn \cap {<<n, p>>, <<p, n>>}

SameKey(n, p) == keyFor[<<n, p>>] = keyFor[<<p, n>>]

\* The peers a gate lets prove but reach nothing here: the bridge's node.
Limited(n, p) == p \in Server

\* `admit`: a device the books know, or one that comes over the own network.
\* (Mutant: the key is enough.)
AdmitAny(n, p) == TRUE
Admit(n, p) == <<n, p>> \in known \cup LocalPaths

Fault == faults < MaxFaults /\ faults' = faults + 1

\* checkDeviceProof, as either side does it.  (Mutant: its answer unused.)
ProofUnchecked(n, p) == TRUE
ProofRight(n, p) == SameKey(n, p)

\* A gated handler that goes on: it serves the stream, or aborts it for a
\* limited peer.  (Mutant: any proved peer is served.)
ServedToAll(n, p) == "served"
Served(n, p) == IF Limited(n, p) THEN "none" ELSE "served"

\* markProved wakes the streams that wait.  (Mutant: their timers must.)
NotWoken(n, p) == stream
Woken(n, p) ==
    [stream EXCEPT ![<<n, p>>] = IF @ = "waiting" THEN Served(n, p) ELSE @]

\* The calls held back for p.  (Mutant: those of p's own dials are forgotten.)
HeldForDialled(n, p) == { h \in held : h[1] = n /\ h[2] = <<n, p>> }
HeldFor(n, p) == { h \in held : h[1] = n /\ Other(n, h[2]) = p }

\* markProved: note the peer, wake the streams that wait, make the held calls;
\* a held call tells its topology only if its connection is still open.
MarkProved(n, p) ==
    IF <<n, p>> \in proved
      THEN UNCHANGED <<proved, stream, held, told>>
      ELSE /\ proved' = proved \cup {<<n, p>>}
           /\ stream' = Woken(n, p)
           /\ held' = { h \in held : ~(h[1] = n /\ Other(n, h[2]) = p) }
           /\ told' =
                 IF Limited(n, p) \/ ~\E h \in HeldFor(n, p) : h[2] \in conn
                   THEN told
                   ELSE told \cup {<<n, p>>}

\* The stream of p's exchange with n is gone: n's handler learns of it only
\* where it reads or writes, not while it checks a proof it has read.
Orphaned(a) == IF a = "check" THEN "late" ELSE IF a = "reply" THEN "idle" ELSE a

\* prove and exchange up to the first read: the proof is on its way.
StartExchange(p, n) ==
    IF <<p, n>> \in proved \/ ex[<<p, n>>] # "idle"
      THEN UNCHANGED <<ex, pipe, ans>>
      ELSE /\ ex' = [ex EXCEPT ![<<p, n>>] = "open"]
           /\ pipe' = [pipe EXCEPT ![<<p, n>>] = "proof"]
           /\ ans' = [ans EXCEPT ![<<p, n>>] = Orphaned(@)]

-----------------------------------------------------------------------------
(* Connections, as device sync and libp2p make them.                       *)

\* dial, and connection:open at the dialer: the one that dialled proves first.
Dial(n, p) ==
    /\ <<n, p>> \in Dials \cap known
    /\ <<n, p>> \notin conn \cup blocked
    /\ <<p, n>> \notin blocked
    /\ Cardinality(Between(n, p)) < MaxConns
    /\ conn' = conn \cup {<<n, p>>}
    /\ StartExchange(n, p)
    /\ UNCHANGED <<keyFor, known, blocked, closing, proved, stream, topology,
                   faults>>

\* A round of device sync finds the connection open: proveTo.
ProveAgain(n, p) ==
    /\ <<n, p>> \in (Dials \cap known) \ proved
    /\ Between(n, p) # {}
    /\ ex[<<n, p>>] = "idle"
    /\ StartExchange(n, p)
    /\ UNCHANGED <<net, proved, stream, topology, faults>>

\* identify is done on c: the registrar calls the topologies' onConnect.
Identify(n, c) ==
    LET p == Other(n, c)
    IN  /\ c \in conn /\ n \in {c[1], c[2]} \ Server
        /\ <<n, c>> \notin ident
        /\ ident' = ident \cup {<<n, c>>}
        /\ IF <<n, p>> \notin proved \/ Limited(n, p)
             THEN held' = held \cup {<<n, c>>} /\ UNCHANGED told
             ELSE told' = told \cup {<<n, p>>} /\ UNCHANGED held
        /\ UNCHANGED <<net, proved, exchange, stream, faults>>

\* What a closed connection takes with it.  The topologies' onDisconnect comes
\* with the last connection of the peer; a stream may have run over another.
Drop(C) ==
    LET lost == { d \in Pair : <<d[1], d[2]>> \in C \/ <<d[2], d[1]>> \in C }
        gone == { d \in lost : Between(d[1], d[2]) \subseteq C }
    IN  /\ conn' = conn \ C
        /\ ident' = { i \in ident : i[2] \notin C }
        /\ closing' = { i \in closing : i[2] \notin C }
        /\ told' = told \ gone
        /\ \E cut \in SUBSET lost :
              /\ gone \subseteq cut
              /\ pipe' = [d \in Pair |-> IF d \in cut THEN "none" ELSE pipe[d]]
              /\ ans' = [d \in Pair |->
                            IF d \in cut THEN Orphaned(ans[d]) ELSE ans[d]]
              /\ stream' = [d \in Pair |->
                            IF d \in cut THEN "none" ELSE stream[d]]

\* A relay hangs up, a laptop falls asleep.
Close(c) ==
    /\ Fault
    /\ c \in conn
    /\ Drop({c})
    /\ held' = { h \in held : h[2] # c }
    /\ UNCHANGED <<keyFor, known, blocked, proved, ex>>

\* One step of hangUp: `await c.close()` for one of the peer's connections.
HangUpStep(n, c) ==
    /\ <<n, c>> \in closing
    /\ Drop({c})
    /\ held' = { h \in held : h[2] # c }
    /\ UNCHANGED <<keyFor, known, blocked, proved, ex, faults>>

-----------------------------------------------------------------------------
(* The exchange.                                                           *)

\* answer: the proof is read; checkDeviceProof is awaited.
ReadProof(p, n) ==
    /\ pipe[<<p, n>>] = "proof" /\ ans[<<p, n>>] = "idle"
    /\ pipe' = [pipe EXCEPT ![<<p, n>>] = "empty"]
    /\ ans' = [ans EXCEPT ![<<p, n>>] = "check"]
    /\ UNCHANGED <<net, proved, ex, stream, topology, faults>>

\* answer: a right proof of an admitted peer, also when the stream is gone.
Accept(p, n) ==
    /\ ans[<<p, n>>] \in {"check", "late"}
    /\ ProofRight(n, p) /\ Admit(n, p)
    /\ MarkProved(n, p)
    /\ ans' = [ans EXCEPT ![<<p, n>>] = IF @ = "check" THEN "reply" ELSE "idle"]
    /\ UNCHANGED <<net, ex, pipe, ident, faults>>

\* answer: a wrong proof, or a peer that is not admitted; the stream aborted.
Refuse(p, n) ==
    /\ ans[<<p, n>>] \in {"check", "late"}
    /\ ~(ProofRight(n, p) /\ Admit(n, p))
    /\ ans' = [ans EXCEPT ![<<p, n>>] = "idle"]
    /\ pipe' = IF ans[<<p, n>>] = "check"
                  THEN [pipe EXCEPT ![<<p, n>>] = "none"]
                  ELSE pipe
    /\ UNCHANGED <<net, proved, ex, stream, topology, faults>>

\* answer: the own proof written back.
WriteBack(p, n) ==
    /\ ans[<<p, n>>] = "reply"
    /\ ans' = [ans EXCEPT ![<<p, n>>] = "idle"]
    /\ pipe' = [pipe EXCEPT ![<<p, n>>] = "back"]
    /\ UNCHANGED <<net, proved, ex, stream, topology, faults>>

\* exchange: the answer is read; checkDeviceProof is awaited.
ReadBack(p, n) ==
    /\ ex[<<p, n>>] = "open" /\ pipe[<<p, n>>] = "back"
    /\ ex' = [ex EXCEPT ![<<p, n>>] = "read"]
    /\ pipe' = [pipe EXCEPT ![<<p, n>>] = "none"]
    /\ UNCHANGED <<net, proved, ans, stream, topology, faults>>

\* exchange: the answer is right and its sender admitted, or nothing happens.
Finish(p, n) ==
    /\ ex[<<p, n>>] = "read"
    /\ IF ProofRight(p, n) /\ Admit(p, n)
         THEN MarkProved(p, n)
         ELSE UNCHANGED <<proved, stream, held, told>>
    /\ ex' = [ex EXCEPT ![<<p, n>>] = "idle"]
    /\ UNCHANGED <<net, pipe, ans, ident, faults>>

\* exchange: the stream was aborted or went with its connection; `proving` is
\* left in any case.  (Mutant: only an exchange that ends well leaves it.)
FailKeepsProving(p, n) ==
    /\ ex[<<p, n>>] = "open" /\ pipe[<<p, n>>] = "none"
    /\ UNCHANGED vars
Fail(p, n) ==
    /\ ex[<<p, n>>] = "open" /\ pipe[<<p, n>>] = "none"
    /\ ex' = [ex EXCEPT ![<<p, n>>] = "idle"]
    /\ UNCHANGED <<net, proved, pipe, ans, stream, topology, faults>>

\* exchange: PROOF_WAIT_MS are over at the prover; its stream stays as it is.
TimeOut(p, n) ==
    /\ Fault
    /\ ex[<<p, n>>] = "open"
    /\ ex' = [ex EXCEPT ![<<p, n>>] = "idle"]
    /\ UNCHANGED <<net, proved, pipe, ans, stream, topology>>

\* The stream is lost, or the answerer's PROOF_WAIT_MS are over.
Reset(p, n) ==
    /\ Fault
    /\ pipe[<<p, n>>] # "none"
    /\ pipe' = [pipe EXCEPT ![<<p, n>>] = "none"]
    /\ ans' = [ans EXCEPT ![<<p, n>>] = Orphaned(@)]
    /\ UNCHANGED <<net, proved, ex, stream, topology>>

-----------------------------------------------------------------------------
(* Gated protocols.                                                        *)

\* p opens a stream to a gated protocol of n: served, aborted, or it waits.
OpenStream(n, p) ==
    /\ <<n, p>> \in Streams
    /\ Between(n, p) # {} /\ stream[<<n, p>>] = "none"
    /\ stream' = [stream EXCEPT ![<<n, p>>] =
                     IF <<n, p>> \in proved THEN Served(n, p) ELSE "waiting"]
    /\ UNCHANGED <<net, proved, exchange, topology, faults>>

\* waitProved's timer.  (Mutant: it lets a proved peer through, nothing else.)
WaitOverIfProved(n, p) ==
    /\ stream[<<n, p>>] = "waiting" /\ <<n, p>> \in proved
    /\ stream' = [stream EXCEPT ![<<n, p>>] = Served(n, p)]
    /\ UNCHANGED <<net, proved, exchange, topology, faults>>
WaitOver(n, p) ==
    /\ stream[<<n, p>>] = "waiting"
    /\ stream' = [stream EXCEPT ![<<n, p>>] =
                     IF <<n, p>> \in proved THEN Served(n, p) ELSE "none"]
    /\ UNCHANGED <<net, proved, exchange, topology, faults>>

\* The handler is done and closes the stream.
StreamDone(n, p) ==
    /\ stream[<<n, p>>] = "served"
    /\ stream' = [stream EXCEPT ![<<n, p>>] = "none"]
    /\ UNCHANGED <<net, proved, exchange, topology, faults>>

-----------------------------------------------------------------------------
(* The list of devices, and restarts.                                      *)

\* addDevice, a record that came with the books, the bridge's setDevices.
LetIn(n, p) ==
    /\ n # p /\ <<n, p>> \notin known
    /\ known' = known \cup {<<n, p>>}
    /\ blocked' = blocked \ {<<n, p>>}
    /\ UNCHANGED <<keyFor, conn, closing, proved, exchange, stream, topology,
                   faults>>

\* The connections hangUp closes.  (Mutants: only those n dialled; without
\* whose they are.)
HangUpDialled(n, p) == {n} \X (conn \cap {<<n, p>>})
HangUpUnowned(n, p) == Between(n, p)
HangUpSet(n, p) == {n} \X Between(n, p)

\* removeDevice and a removal that came with the books: off the list, blocked,
\* gate.forget, then hangUp over the connections there are.  The bridge's
\* setDevices only takes the peer off its list and forgets it.
Remove(n, p) ==
    /\ Fault
    /\ n \in Removes /\ n # p
    /\ IF n \in Server THEN <<n, p>> \in known ELSE <<n, p>> \notin blocked
    /\ known' = known \ {<<n, p>>}
    /\ proved' = proved \ {<<n, p>>}
    /\ held' = { h \in held : ~(h[1] = n /\ Other(n, h[2]) = p) }
    /\ IF n \in Server
         THEN UNCHANGED <<blocked, closing>>
         ELSE /\ blocked' = blocked \cup {<<n, p>>}
              /\ closing' = closing \cup HangUpSet(n, p)
    /\ UNCHANGED <<keyFor, conn, exchange, stream, ident, told>>

\* A page is reloaded, the bridge's process starts anew: its gate is empty and
\* its connections are gone.  A page knows and blocks nobody until its device
\* sync has read the books again (LetIn, Remove); the bridge keeps its list.
Restart(n) ==
    LET mine == { d \in Pair : n \in {d[1], d[2]} }
        Kept(S) == { x \in S : x[1] # n /\ n \notin {x[2][1], x[2][2]} }
    IN  /\ Fault
        /\ n \in Restarts
        /\ conn' = conn \ mine
        /\ proved' = { d \in proved : d[1] # n }
        /\ ex' = [d \in Pair |-> IF d[1] = n THEN "idle" ELSE ex[d]]
        /\ pipe' = [d \in Pair |-> IF d \in mine THEN "none" ELSE pipe[d]]
        /\ ans' = [d \in Pair |-> IF d[2] = n THEN "idle"
                                   ELSE IF d[1] = n THEN Orphaned(ans[d])
                                   ELSE ans[d]]
        /\ stream' = [d \in Pair |-> IF d \in mine THEN "none" ELSE stream[d]]
        /\ told' = told \ mine
        /\ closing' = Kept(closing)
        /\ ident' = Kept(ident)
        /\ held' = Kept(held)
        /\ known' = IF n \in Server THEN known ELSE { d \in known : d[1] # n }
        /\ blocked' = { d \in blocked : d[1] # n }
        /\ UNCHANGED keyFor

-----------------------------------------------------------------------------

Init ==
    /\ keyFor \in Keyings
    /\ conn = {} /\ closing = {} /\ proved = {} /\ blocked = {}
    /\ known \in SUBSET Dials
    /\ ex = [d \in Pair |-> "idle"]
    /\ pipe = [d \in Pair |-> "none"]
    /\ ans = [d \in Pair |-> "idle"]
    /\ stream = [d \in Pair |-> "none"]
    /\ ident = {} /\ held = {} /\ told = {}
    /\ faults = 0

\* What runs without anything going wrong.
Exchange(p, n) ==
    \/ ReadProof(p, n) \/ Accept(p, n) \/ Refuse(p, n) \/ WriteBack(p, n)
    \/ ReadBack(p, n) \/ Finish(p, n) \/ Fail(p, n)

Next ==
    \/ \E n, p \in Node :
          \/ Dial(n, p) \/ ProveAgain(n, p)
          \/ Exchange(n, p) \/ TimeOut(n, p) \/ Reset(n, p)
          \/ OpenStream(n, p) \/ WaitOver(n, p) \/ StreamDone(n, p)
          \/ LetIn(n, p) \/ Remove(n, p)
    \/ \E c \in Conn :
          \/ Close(c)
          \/ \E n \in Node : Identify(n, c) \/ HangUpStep(n, c)
    \/ \E n \in Node : Restart(n)

Spec == Init /\ [][Next]_vars

\* Device sync's timer runs a round every REDIAL_MS; the exchange, hangUp
\* and the wait's timer are awaited calls and timers that come back.
Fairness ==
    \A c \in Conn :
       LET n == c[1]
           p == c[2]
       IN  /\ WF_vars(Dial(n, p)) /\ WF_vars(ProveAgain(n, p))
           /\ WF_vars(Exchange(n, p))
           /\ WF_vars(WaitOver(n, p))
           /\ WF_vars(HangUpStep(n, c) \/ HangUpStep(p, c))

FairSpec == Spec /\ Fairness

-----------------------------------------------------------------------------
(* Safety.                                                                 *)

\* Only a peer that holds the key is counted as proved, is served by a gated
\* protocol or is named to gossipsub and Bitswap, whatever was lost, repeated
\* or restarted in between; and the bridge is never served nor named.
OnlyOwnDevices ==
    \A n, p \in Node :
       /\ <<n, p>> \in proved => SameKey(n, p)
       /\ stream[<<n, p>>] = "served" \/ <<n, p>> \in told
             => SameKey(n, p) /\ ~Limited(n, p)

\* No call is lost between onConnect and markProved: once a peer is proved,
\* the topologies know it, unless its connection is being hung up.
NoTellLost ==
    \A i \in ident \ closing :
       LET n == i[1]
           p == Other(n, i[2])
       IN  <<n, p>> \in proved /\ ~Limited(n, p) => <<n, p>> \in told

\* Why it holds, as an inductive invariant: a notification is of an open
\* connection; it is held only while its peer is unproved; and one that is
\* neither held nor told has been taken back by a removal that hangs up.
Notified ==
    /\ held \subseteq ident
    /\ \A i \in ident :
          /\ i[2] \in conn
          /\ i[1] \in {i[2][1], i[2][2]} \ Server
    /\ \A i \in held :
          \/ <<i[1], Other(i[1], i[2])>> \notin proved
          \/ Limited(i[1], Other(i[1], i[2]))
    /\ \A i \in ident \ (closing \cup held) :
          \/ <<i[1], Other(i[1], i[2])>> \in told
          \/ Limited(i[1], Other(i[1], i[2]))

\* No wake-up is lost: a stream never waits for a proof that has come.
NoSleepingStream ==
    \A n, p \in Node : stream[<<n, p>>] = "waiting" => <<n, p>> \notin proved

\* A removed device is refused "from now on" (device-gate.js, forget): also by
\* an exchange that was running when it was removed.  Not so where a path over
\* the own network admits it whether or not the books list it.
RemovedIsNotProved == proved \cap blocked = {}

-----------------------------------------------------------------------------
(* Liveness.                                                               *)

Mutual(n, p) == {<<n, p>>, <<p, n>>} \subseteq proved

\* Two devices of one key that name each other come to prove each other, and
\* stay so: failed exchanges are repeated, from whichever side dials.
EventuallyMutual ==
    \A d \in Dials :
       SameKey(d[1], d[2]) /\ <>[]({d, <<d[2], d[1]>>} \subseteq known)
          => <>[]Mutual(d[1], d[2])

\* A device that was removed loses its connections and its streams.
RemovedIsCutOff ==
    \A n \in Node \ Server, p \in Node :
       <<n, p>> \in blocked
          ~> \/ <<n, p>> \notin blocked
             \/ Between(n, p) = {} /\ stream[<<n, p>>] # "served"

\* No gated stream waits forever.
NoStreamWaitsForever ==
    \A d \in Pair : stream[d] = "waiting" ~> stream[d] # "waiting"
=============================================================================
