-------------------------------- MODULE LiveHub --------------------------------
(***************************************************************************)
(* The worker's status server for ONE profile (internal/live/hub.go and     *)
(* server.go, cli/livereader.go) and the clients that wait on it (live/      *)
(* client.go, cli/wait.go).                                                *)
(*                                                                         *)
(* The worker and the goroutines that handle invalidate messages refresh a *)
(* cache of the durable state and publish frames built from it.  Each       *)
(* subscription has a goroutine of its own, which registers, reads the      *)
(* state, writes a first frame, is handed what was published meanwhile and  *)
(* then forwards the newest frame to its socket.  A waiter reads frames     *)
(* until one is final; without a server it polls the database.             *)
(***************************************************************************)
EXTENDS Integers, Sequences, FiniteSets

CONSTANTS
  Clients,        \* clients, each of which connects and subscribes once
  Invalidators,   \* connections that send one invalidate message
  Worker,         \* the worker's own goroutine
  Capacity,       \* frames the kernel buffers for a client that does not read
  MaxWork,        \* bound on the worker's refreshes and publications
  MaxVersion,     \* bound on changes of the durable state
  Finals,         \* the versions of it whose status is ready or terminal
  Failing         \* those whose database reads may fail

ASSUME ProcessAssumption ==
  /\ Worker \notin Clients \cup Invalidators
  /\ Clients \cap Invalidators = {}
ASSUME BoundsAssumption ==
  /\ Capacity \in Nat \ {0}
  /\ MaxWork \in Nat /\ MaxVersion \in Nat \ {0}
  /\ Finals \subseteq 1..MaxVersion

VARIABLES
  version,        \* of the durable state
  cache,          \* the version in the reader's cache
  has,            \* the version a goroutine has loaded, or built a frame from
  pc,             \* where the worker and the invalidators are
  publishMu,      \* who holds the lock of the publications
  seq, published, \* the last number given to a frame, and publications so far
  conn,           \* a client's connection
  hpc,            \* where its subscription's goroutine is
  ready,          \* whether its subscriber is in the hub, and ready
  pending, slot,  \* what the subscriber holds
  held, buffer, got,  \* the frame being written, those in the socket, the last read
  wait, outcome,  \* where a waiter is, and what it has reported
  serving,        \* the server's life
  seen,           \* what there was when a subscriber registered (history)
  work

readerVars == <<cache, has>>
frameVars  == <<pending, slot, held>>
clientVars == <<buffer, got, wait, outcome>>
seqVars    == <<publishMu, seq, published>>

vars == <<version, readerVars, pc, seqVars, conn, hpc, ready, frameVars,
          clientVars, serving, seen, work>>

Publishers == {Worker} \cup Invalidators
Procs      == Publishers \cup Clients
None       == 0
NoFrame    == [seq |-> 0, n |-> 0, ver |-> None]
Unseen     == [n |-> 0, ver |-> None, race |-> FALSE]

Init ==
  /\ version = 1
  /\ cache = None /\ has = [p \in Procs |-> None]
  /\ pc = [p \in Publishers |-> "idle"]
  /\ publishMu = "free" /\ seq = 0 /\ published = 0
  /\ conn = [c \in Clients |-> "none"]
  /\ hpc = [c \in Clients |-> "none"] /\ ready = [c \in Clients |-> "out"]
  /\ pending = [c \in Clients |-> NoFrame] /\ slot = [c \in Clients |-> NoFrame]
  /\ held = [c \in Clients |-> NoFrame] /\ buffer = [c \in Clients |-> <<>>]
  /\ got = [c \in Clients |-> NoFrame]
  /\ wait = [c \in Clients |-> "start"] /\ outcome = [c \in Clients |-> "none"]
  /\ serving = "up"
  /\ seen = [c \in Clients |-> Unseen]
  /\ work = 0

\* Commands and the worker commit to the database.
Change ==
  /\ version < MaxVersion /\ version' = version + 1
  /\ UNCHANGED <<readerVars, pc, seqVars, conn, hpc, ready, frameVars, clientVars,
                 serving, seen, work>>

-----------------------------------------------------------------------------
(* liveDurableReader, called by process p.                                 *)

\* LoadDurableSnapshot, whose error Refresh's callers ignore.
Load(p) ==
  \/ has' = [has EXCEPT ![p] = version] /\ UNCHANGED cache
  \/ /\ p \in Failing /\ has' = [has EXCEPT ![p] = None] /\ UNCHANGED cache

\* The loaded state replaces whatever is in the cache.
Store(p) ==
  /\ cache' = IF has[p] = None THEN cache ELSE has[p]
  /\ has' = [has EXCEPT ![p] = None]

\* BuildSnapshot takes the cached state.  Without one it calls Refresh, once.
Build(p) == cache # None /\ has' = [has EXCEPT ![p] = cache] /\ UNCHANGED cache
Misses   == cache = None /\ UNCHANGED readerVars

-----------------------------------------------------------------------------
(* The publishers: the worker's passes and the handlers of invalidations.  *)

unchangedByReads ==
  UNCHANGED <<version, seqVars, conn, hpc, ready, frameVars, clientVars, serving,
              seen>>

Goto(p, here, there) == pc[p] = here /\ pc' = [pc EXCEPT ![p] = there]

\* A pass starts with a refresh, and refreshes and publishes as it goes.
WorkerBegins ==
  /\ serving = "up" /\ work < MaxWork /\ work' = work + 1
  /\ \/ Goto(Worker, "idle", "load")
     \/ \E next \in {"load", "build"} : Goto(Worker, "pass", next)
  /\ UNCHANGED readerVars /\ unchangedByReads

PassEnds == Goto(Worker, "pass", "idle") /\ UNCHANGED <<readerVars, work>> /\ unchangedByReads

\* handleInvalidate: PublishDurableRefresh.
InvalidateBegins(p) ==
  /\ p \in Invalidators /\ serving = "up" /\ Goto(p, "idle", "load")
  /\ UNCHANGED <<readerVars, work>> /\ unchangedByReads

Rest(p) == IF p = Worker THEN "pass" ELSE "over"

\* The refresh of PublishDurableRefresh or of a pass, or the one after a miss, which
\* leaves nothing to publish when it fails.
PublisherLoads(p) ==
  /\ Load(p)
  /\ \/ Goto(p, "load", "store")
     \/ Goto(p, "miss", IF has'[p] = None THEN Rest(p) ELSE "keep")
  /\ UNCHANGED work /\ unchangedByReads

PublisherStores(p) ==
  /\ Store(p)
  /\ \/ \E next \in (IF p = Worker THEN {"pass", "build"} ELSE {"build"}) :
           Goto(p, "store", next)
     \/ Goto(p, "keep", "build")
  /\ UNCHANGED work /\ unchangedByReads

PublisherBuilds(p) ==
  /\ \/ Build(p) /\ Goto(p, "build", "publish")
     \/ Misses /\ Goto(p, "build", "miss")
  /\ UNCHANGED work /\ unchangedByReads

\* Mutation: a full slot keeps its stale frame.
FanIntoEmpty(f) ==
  /\ pending' = [c \in Clients |-> IF ready[c] = "waiting" THEN f ELSE pending[c]]
  /\ slot' = [c \in Clients |-> IF ready[c] = "ready" /\ slot[c] = NoFrame
                                THEN f ELSE slot[c]]

\* Mutation: a subscriber that is not ready yet is passed over.
FanToReady(f) ==
  pending' = pending /\ slot' = [c \in Clients |-> IF ready[c] = "ready" THEN f ELSE slot[c]]

\* Hub.Publish: a subscriber that is not ready keeps the newest frame aside, the
\* capacity-1 slot of a ready one loses its stale frame to the newest.
Fan(f) ==
  /\ pending' = [c \in Clients |-> IF ready[c] = "waiting" THEN f ELSE pending[c]]
  /\ slot' = [c \in Clients |-> IF ready[c] = "ready" THEN f ELSE slot[c]]

\* publish, under publishMu.
Publish(p) ==
  /\ publishMu = "free" /\ Goto(p, "publish", Rest(p))
  /\ seq' = seq + 1 /\ published' = published + 1
  /\ Fan([seq |-> seq + 1, n |-> published + 1, ver |-> has[p]])
  /\ has' = [has EXCEPT ![p] = None]
  /\ UNCHANGED <<version, cache, publishMu, conn, hpc, ready, held,
                 clientVars, serving, seen, work>>

-----------------------------------------------------------------------------
(* handleSubscribe, the goroutine of client c's subscription.              *)

HGoto(c, here, there) == hpc[c] = here /\ hpc' = [hpc EXCEPT ![c] = there]

unchangedInHandler ==
  UNCHANGED <<version, pc, conn, got, wait, outcome, serving, work>>

\* Some goroutine holds a state it has not stored, which may be an old one.
Racing ==
  \E p \in Procs :
     has[p] # None /\ (IF p \in Clients THEN hpc[p] ELSE pc[p]) \in {"store", "keep"}

\* Mutation: the cache is taken as it is found.
RegisterUnread(c) ==
  /\ hpc' = [hpc EXCEPT ![c] = "build"]
  /\ ready' = [ready EXCEPT ![c] = "waiting"]
  /\ seen' = [seen EXCEPT ![c] = [n |-> published, ver |-> version, race |-> Racing]]

\* beginSubscribe, before the durable read.
Register(c) ==
  /\ hpc' = [hpc EXCEPT ![c] = "load"]
  /\ ready' = [ready EXCEPT ![c] = "waiting"]
  /\ seen' = [seen EXCEPT ![c] = [n |-> published, ver |-> version, race |-> Racing]]

\* Without a state, after a miss, the client is told so and the goroutine ends.
SubscriberLoads(c) ==
  /\ Load(c)
  /\ \/ HGoto(c, "load", "store")
     \/ HGoto(c, "miss", IF has'[c] = None THEN "leave" ELSE "store")
  /\ seen' = [seen EXCEPT ![c].race = @ \/ has'[c] = None]
  /\ UNCHANGED <<seqVars, ready, frameVars, buffer>> /\ unchangedInHandler

SubscriberStores(c) ==
  /\ HGoto(c, "store", "build") /\ Store(c)
  /\ UNCHANGED <<seqVars, ready, frameVars, buffer, seen>> /\ unchangedInHandler

SubscriberBuilds(c) ==
  /\ \/ Build(c) /\ HGoto(c, "build", "stamp")
     \/ Misses /\ HGoto(c, "build", "miss")
  /\ UNCHANGED <<seqVars, ready, frameVars, buffer, seen>> /\ unchangedInHandler

\* Mutation: the lock is held until the frame is written.
StampHolding(c) ==
  /\ HGoto(c, "stamp", "initial") /\ publishMu = "free" /\ publishMu' = c
  /\ seq' = seq + 1
  /\ held' = [held EXCEPT ![c] = [seq |-> seq + 1, n |-> seen[c].n, ver |-> has[c]]]
  /\ has' = [has EXCEPT ![c] = None]
  /\ UNCHANGED <<published, cache, ready, pending, slot, buffer, seen>>
  /\ unchangedInHandler

\* The first frame is numbered under publishMu, and written without it.
Stamp(c) ==
  /\ HGoto(c, "stamp", "initial") /\ publishMu = "free"
  /\ seq' = seq + 1
  /\ held' = [held EXCEPT ![c] = [seq |-> seq + 1, n |-> seen[c].n, ver |-> has[c]]]
  /\ has' = [has EXCEPT ![c] = None]
  /\ UNCHANGED <<publishMu, published, cache, ready, pending, slot, buffer,
                 seen>>
  /\ unchangedInHandler

\* A write waits for room in the socket and fails when the connection is closed.
Write(c) ==
  /\ hpc[c] \in {"initial", "write"}
  /\ \/ /\ conn[c] = "open" /\ Len(buffer[c]) < Capacity
        /\ buffer' = [buffer EXCEPT ![c] = Append(@, held[c])]
        /\ hpc' = [hpc EXCEPT ![c] = IF @ = "initial" THEN "lock" ELSE "loop"]
     \/ /\ conn[c] = "closed" /\ buffer' = buffer
        /\ hpc' = [hpc EXCEPT ![c] = "leave"]
  /\ held' = [held EXCEPT ![c] = NoFrame] /\ seen' = [seen EXCEPT ![c] = Unseen]
  /\ UNCHANGED <<readerVars, seqVars, ready, pending, slot>> /\ unchangedInHandler

LockHandOff(c) ==
  /\ HGoto(c, "lock", "handoff") /\ publishMu = "free"
  /\ publishMu' = c
  /\ UNCHANGED <<readerVars, seq, published, ready, frameVars, buffer, seen>>
  /\ unchangedInHandler

\* Mutation: the frame kept aside is sent under its own number.
HandOffAsIs(c) ==
  /\ HGoto(c, "handoff", "loop") /\ publishMu = c /\ publishMu' = "free"
  /\ IF pending[c] = NoFrame THEN slot' = slot
     ELSE slot[c] = NoFrame /\ slot' = [slot EXCEPT ![c] = pending[c]]
  /\ pending' = [pending EXCEPT ![c] = NoFrame]
  /\ ready' = [ready EXCEPT ![c] = "ready"]
  /\ UNCHANGED <<readerVars, seq, published, held, buffer, seen>> /\ unchangedInHandler

\* finishSubscribe, under both locks: the send waits for an empty slot.
HandOff(c) ==
  /\ HGoto(c, "handoff", "loop") /\ publishMu = c /\ publishMu' = "free"
  /\ IF pending[c] = NoFrame THEN seq' = seq /\ slot' = slot
     ELSE /\ slot[c] = NoFrame /\ seq' = seq + 1
          /\ slot' = [slot EXCEPT ![c] = [pending[c] EXCEPT !.seq = seq + 1]]
  /\ pending' = [pending EXCEPT ![c] = NoFrame]
  /\ ready' = [ready EXCEPT ![c] = "ready"]
  /\ UNCHANGED <<readerVars, published, held, buffer, seen>> /\ unchangedInHandler

Take(c) ==
  /\ HGoto(c, "loop", "write") /\ slot[c] # NoFrame
  /\ held' = [held EXCEPT ![c] = slot[c]] /\ slot' = [slot EXCEPT ![c] = NoFrame]
  /\ UNCHANGED <<readerVars, seqVars, ready, pending, buffer, seen>> /\ unchangedInHandler

\* handleConn's scanner has seen the end of the connection and closed connDone.
Done(c) ==
  /\ HGoto(c, "loop", "leave") /\ conn[c] = "closed"
  /\ UNCHANGED <<readerVars, seqVars, ready, frameVars, buffer, seen>>
  /\ unchangedInHandler

\* The deferred Unsubscribe or cancelSubscribe.
Leave(c) ==
  /\ HGoto(c, "leave", "over")
  /\ ready' = [ready EXCEPT ![c] = "out"]
  /\ pending' = [pending EXCEPT ![c] = NoFrame] /\ slot' = [slot EXCEPT ![c] = NoFrame]
  /\ UNCHANGED <<readerVars, seqVars, held, buffer, seen>> /\ unchangedInHandler

-----------------------------------------------------------------------------
(* Connections and the server's end.                                       *)

unchangedByConnections ==
  UNCHANGED <<version, readerVars, pc, seqVars, ready, frameVars, seen, work>>

\* Connect and its subscribe message, for which handleConn starts a goroutine.  A
\* second connection is another member of Clients.
Connect(c) ==
  /\ wait[c] = "start" /\ serving = "up" /\ hpc[c] = "none"
  /\ conn' = [conn EXCEPT ![c] = "open"] /\ wait' = [wait EXCEPT ![c] = "reading"]
  /\ Register(c)
  /\ UNCHANGED <<version, readerVars, pc, seqVars, frameVars, buffer, got, outcome,
                 serving, work>>

\* A stream that is closed, or found closed, is dropped with what is in it.
EndsStream(c) ==
  /\ conn' = [conn EXCEPT ![c] = IF @ = "open" THEN "closed" ELSE @]
  /\ buffer' = [buffer EXCEPT ![c] = <<>>] /\ got' = [got EXCEPT ![c] = NoFrame]

\* A client stops reading, for good perhaps...
Stall(c) ==
  /\ wait[c] = "reading" /\ wait' = [wait EXCEPT ![c] = "stalled"]
  /\ UNCHANGED <<conn, hpc, buffer, got, outcome, serving>>
  /\ unchangedByConnections

\* ...or goes away.
Close(c) ==
  /\ wait[c] = "stalled" /\ EndsStream(c)
  /\ wait' = [wait EXCEPT ![c] = "end"]
  /\ UNCHANGED <<hpc, outcome, serving>> /\ unchangedByConnections

\* Stop, which the worker calls between its passes, closes the listener...
Stop ==
  /\ serving = "up" /\ pc[Worker] = "idle" /\ serving' = "closing"
  /\ UNCHANGED <<conn, hpc, clientVars>> /\ unchangedByConnections

\* Mutation: the listener alone is closed.
CloseNothing ==
  /\ serving = "closing" /\ serving' = "waiting"
  /\ UNCHANGED <<conn, hpc, clientVars>> /\ unchangedByConnections

\* ...then every connection...
CloseConns ==
  /\ serving = "closing" /\ serving' = "waiting"
  /\ conn' = [c \in Clients |-> IF conn[c] = "open" THEN "closed" ELSE conn[c]]
  /\ UNCHANGED <<hpc, clientVars>> /\ unchangedByConnections

\* ...and waits for every goroutine.
Stopped ==
  /\ serving = "waiting" /\ serving' = "down"
  /\ \A c \in Clients : hpc[c] \in {"none", "over"}
  /\ \A p \in Invalidators : pc[p] \in {"idle", "over"}
  /\ UNCHANGED <<conn, hpc, clientVars>> /\ unchangedByConnections

-----------------------------------------------------------------------------
(* waitForReady.                                                           *)

unchangedByWaiter ==
  UNCHANGED <<version, readerVars, pc, seqVars, hpc, ready, frameVars, serving,
              seen, work>>

\* terminalFromSnapshot
Final(f) == f.ver \in Finals

\* waitStreamReady: a final frame is the answer, and the stream is closed.
Read(c) ==
  /\ wait[c] = "reading" /\ buffer[c] # <<>>
  /\ LET f == Head(buffer[c])
     IN  IF Final(f)
         THEN /\ outcome' = [outcome EXCEPT ![c] = "final"] /\ EndsStream(c)
              /\ wait' = [wait EXCEPT ![c] = "end"]
         ELSE /\ got' = [got EXCEPT ![c] = f] /\ buffer' = [buffer EXCEPT ![c] = Tail(@)]
              /\ UNCHANGED <<conn, wait, outcome>>
  /\ unchangedByWaiter

\* The stream has ended, or ends with an error message: the waiter, after a pause,
\* connects again.
StreamEnds(c) ==
  /\ wait[c] = "reading" /\ buffer[c] = <<>> /\ (conn[c] = "closed" \/ hpc[c] = "over")
  /\ wait' = [wait EXCEPT ![c] = "start"]
  /\ EndsStream(c) /\ UNCHANGED outcome /\ unchangedByWaiter

\* Mutation: only a waiter that has never had a stream polls.
RefusedAtFirst(c) ==
  /\ wait[c] = "start" /\ serving # "up" /\ conn[c] = "none"
  /\ wait' = [wait EXCEPT ![c] = "poll"]
  /\ UNCHANGED <<conn, buffer, got, outcome>> /\ unchangedByWaiter

\* No server answers.
Refused(c) ==
  /\ wait[c] = "start" /\ serving # "up"
  /\ wait' = [wait EXCEPT ![c] = "poll"]
  /\ UNCHANGED <<conn, buffer, got, outcome>> /\ unchangedByWaiter

\* waitDurableReady looks at the database, and at the socket never again.
Poll(c) ==
  /\ wait[c] = "poll" /\ version \in Finals
  /\ outcome' = [outcome EXCEPT ![c] = "final"] /\ wait' = [wait EXCEPT ![c] = "end"]
  /\ UNCHANGED <<conn, buffer, got>> /\ unchangedByWaiter

-----------------------------------------------------------------------------

PublisherStep(p) ==
  PublisherLoads(p) \/ PublisherStores(p) \/ PublisherBuilds(p) \/ Publish(p)

Handler(c) ==
  \/ SubscriberLoads(c) \/ SubscriberStores(c) \/ SubscriberBuilds(c)
  \/ Stamp(c) \/ Write(c) \/ LockHandOff(c) \/ HandOff(c) \/ Take(c) \/ Done(c)
  \/ Leave(c)

Waiter(c) == Read(c) \/ StreamEnds(c) \/ Refused(c) \/ Poll(c)
Serve     == CloseConns \/ Stopped

Next ==
  \/ Change \/ WorkerBegins \/ PassEnds \/ Stop \/ Serve
  \/ \E p \in Invalidators : InvalidateBegins(p)
  \/ \E p \in Publishers : PublisherStep(p)
  \/ \E c \in Clients : Handler(c) \/ Connect(c) \/ Stall(c) \/ Close(c) \/ Waiter(c)

\* Goroutines are scheduled, and a client reads until it stalls.
Fairness ==
  /\ \A p \in Publishers : WF_vars(PublisherStep(p))
  /\ \A c \in Clients : WF_vars(Handler(c)) /\ WF_vars(Waiter(c))
  /\ WF_vars(Serve)

Spec == Init /\ [][Next]_vars /\ Fairness

-----------------------------------------------------------------------------

Frames == [seq : Nat, n : Nat, ver : Nat]

TypeOK ==
  /\ version \in 1..MaxVersion /\ cache \in 0..version
  /\ has \in [Procs -> 0..version]
  /\ pc \in [Publishers -> {"idle", "load", "store", "build", "miss", "keep",
                        "publish", "pass", "over"}]
  /\ publishMu \in Clients \cup {"free"} /\ seq \in Nat /\ published \in Nat
  /\ conn \in [Clients -> {"none", "open", "closed"}]
  /\ hpc \in [Clients -> {"none", "load", "store", "build", "miss", "stamp",
                          "initial", "lock", "handoff", "loop", "write", "leave", "over"}]
  /\ ready \in [Clients -> {"out", "waiting", "ready"}]
  /\ \A c \in Clients : (ready[c] = "out") = (hpc[c] \in {"none", "over"})
  /\ \A c \in Clients : {pending[c], slot[c], held[c], got[c]} \subseteq Frames
  /\ \A c \in Clients : Len(buffer[c]) <= Capacity
  /\ wait \in [Clients -> {"start", "reading", "stalled", "poll", "end"}]
  /\ outcome \in [Clients -> {"none", "final"}]
  /\ serving \in {"up", "closing", "waiting", "down"}
  /\ work \in 0..MaxWork

\* The frames on their way to client c, the first to be read first.
OnTheWay(c) ==
  LET Kept(f) == IF f = NoFrame THEN <<>> ELSE <<f>>
  IN  buffer[c] \o Kept(held[c]) \o Kept(slot[c])

\* "the client observes monotonic sequence numbers": the numbers of the frames a
\* client has read and will read increase, the hand-over of the first included.
SeqIncreases ==
  \A c \in Clients :
     LET frames == <<got[c]>> \o OnTheWay(c)
     IN  /\ \A i \in 1..(Len(frames) - 1) : frames[i].seq < frames[i + 1].seq
         /\ \A i \in 1..Len(frames) : frames[i].seq <= seq

\* The newest publication that client c has, is sent, or will be handed.
Newest(c) ==
  LET frames == OnTheWay(c)
  IN  IF pending[c] # NoFrame THEN pending[c].n
      ELSE IF frames # <<>> THEN frames[Len(frames)].n
      ELSE IF got[c] # NoFrame THEN got[c].n ELSE seen[c].n

\* "retain the newest": whatever is dropped, the last publication since a client
\* registered is on its way to it or there, through the hand-over too.
LatestHeld ==
  \A c \in Clients :
     ready[c] # "out" /\ conn[c] = "open" => Newest(c) = published

\* "one fresh durable read": a first frame is not older than its subscription, unless
\* that read failed or another goroutine had loaded and not yet stored a state.
InitialFresh ==
  \A c \in Clients :
     hpc[c] = "initial" => held[c].ver >= seen[c].ver \/ seen[c].race

\* "Slow subscribers must never block": whoever publishes comes to an end, although a
\* client that never reads leaves its goroutine in the middle of a write.
PublishEnds ==
  (\E p \in Publishers : pc[p] = "publish") ~> (\A p \in Publishers : pc[p] # "publish")

\* A waiter on a stream that stays gets the last publication, or had its answer.
Delivered ==
  \A c \in Clients :
     (ready[c] = "ready")
       ~> (wait[c] # "reading" \/ (buffer[c] = <<>> /\ got[c].n = published))

\* Stop ends, whoever is in the middle of what: no goroutine outlives its connection.
StopEnds == (serving = "closing") ~> (serving = "down")

\* Without a server a waiter still has its answer from the database.
WaitEnds ==
  \A c \in Clients :
     (serving = "down" /\ version \in Finals)
       ~> (outcome[c] = "final" \/ wait[c] \in {"stalled", "end"} \/ version \notin Finals)
================================================================================
