------------------------------ MODULE LiveHubProofs ------------------------------
(***************************************************************************)
(* Proofs about LiveHub, for any number of clients, of connections that    *)
(* send invalidations, of frames and of versions.                          *)
(***************************************************************************)
EXTENDS LiveHub, SequenceTheorems, TLAPS

Before == {"load", "store", "build", "miss", "stamp"}

\* The types, one group of variables at a time.
ReaderTypes ==
  /\ version \in 1..MaxVersion /\ cache \in 0..version
  /\ has \in [Procs -> 0..version]

StageTypes ==
  /\ pc \in [Publishers -> {"idle", "load", "store", "build", "miss", "keep",
                        "publish", "pass", "over"}]
  /\ publishMu \in Clients \cup {"free"} /\ seq \in Nat /\ published \in Nat
  /\ conn \in [Clients -> {"none", "open", "closed"}]
  /\ wait \in [Clients -> {"start", "reading", "stalled", "poll", "end"}]
  /\ outcome \in [Clients -> {"none", "final"}]
  /\ serving \in {"up", "closing", "waiting", "down"}
  /\ work \in 0..MaxWork

PlaceTypes ==
  /\ hpc \in [Clients -> {"none", "load", "store", "build", "miss", "stamp",
                          "initial", "lock", "handoff", "loop", "write", "leave", "over"}]
  /\ ready \in [Clients -> {"out", "waiting", "ready"}]
  /\ \A c \in Clients : (ready[c] = "out") = (hpc[c] \in {"none", "over"})

FrameTypes ==
  /\ pending \in [Clients -> Frames] /\ slot \in [Clients -> Frames]
  /\ held \in [Clients -> Frames] /\ got \in [Clients -> Frames]
  /\ buffer \in [Clients -> Seq(Frames)]
  /\ \A c \in Clients : Len(buffer[c]) <= Capacity
  /\ seen \in [Clients -> [n : Nat, ver : Nat, race : BOOLEAN]]

Types == ReaderTypes /\ StageTypes /\ PlaceTypes /\ FrameTypes

\* What a subscription holds where its goroutine is.
Place(c) ==
  /\ hpc[c] \in Before \cup {"none"} => buffer[c] = <<>> /\ got[c] = NoFrame
  /\ (held[c] # NoFrame) <=> (hpc[c] \in {"initial", "write"})
  /\ hpc[c] \in Before \cup {"initial", "lock", "handoff"} => ready[c] = "waiting"
  /\ hpc[c] \in {"loop", "write"} => ready[c] = "ready"
  /\ ready[c] # "ready" => slot[c] = NoFrame
  /\ ready[c] # "waiting" => pending[c] = NoFrame

\* The numbers in a sequence of frames rise, above one number and below another.
Rising(s)   == \A i, j \in 1..Len(s) : i < j => s[i].seq < s[j].seq
Above(s, m) == \A i \in 1..Len(s) : m < s[i].seq
Below(s, n) == \A i \in 1..Len(s) : s[i].seq < n

\* The numbers of the frames that client c has and will read.
Numbered(c) ==
  /\ got[c].seq <= seq
  /\ pending[c] # NoFrame => pending[c].seq > 0
  /\ Rising(buffer[c]) /\ Above(buffer[c], got[c].seq) /\ Below(buffer[c], seq + 1)
  /\ held[c] # NoFrame =>
       /\ held[c].seq <= seq /\ got[c].seq < held[c].seq
       /\ Below(buffer[c], held[c].seq)
  /\ slot[c] # NoFrame =>
       /\ slot[c].seq <= seq /\ got[c].seq < slot[c].seq
       /\ held[c].seq < slot[c].seq /\ Below(buffer[c], slot[c].seq)

\* Newest, place by place.
Last(c) ==
  IF pending[c] # NoFrame THEN pending[c].n
  ELSE IF slot[c] # NoFrame THEN slot[c].n
  ELSE IF held[c] # NoFrame THEN held[c].n
  ELSE IF buffer[c] # <<>> THEN buffer[c][Len(buffer[c])].n
  ELSE IF got[c] # NoFrame THEN got[c].n ELSE seen[c].n

HasLast(c) == ready[c] # "out" /\ conn[c] = "open" => Last(c) = published

\* Where the first frame of client c comes from.
Storing(p) == (IF p \in Clients THEN hpc[p] ELSE pc[p]) \in {"store", "keep"}

\* No state older than client c's subscription is on its way into the cache.
Fresh(c) ==
  /\ seen[c].ver <= version
  /\ \A p \in Procs : Storing(p) /\ has[p] # None => seen[c].ver <= has[p]

Source(c) ==
  hpc[c] \in Before \cup {"initial"} /\ ~seen[c].race =>
    /\ Fresh(c) /\ seen[c].ver > 0 /\ hpc[c] # "miss"
    /\ hpc[c] = "store" => has[c] # None
    /\ hpc[c] = "build" => seen[c].ver <= cache
    /\ hpc[c] = "stamp" => seen[c].ver <= has[c]
    /\ hpc[c] = "initial" => seen[c].ver <= held[c].ver

HubInv == Types /\ \A c \in Clients : Place(c) /\ Numbered(c)

\* What a subscription consists of.
streamVars == <<seqVars, conn, hpc, ready, frameVars, buffer, got, seen>>

-----------------------------------------------------------------------------

USE DEF None, NoFrame, Unseen, Frames

\* Everything holds before the first step.
LEMMA Started == Init => HubInv /\ \A c \in Clients : HasLast(c) /\ Source(c)
<1> SUFFICES ASSUME Init PROVE HubInv /\ \A c \in Clients : HasLast(c) /\ Source(c)
  OBVIOUS
<1>1. ReaderTypes /\ StageTypes
  BY BoundsAssumption DEF Init, ReaderTypes, StageTypes
<1>2. PlaceTypes
  BY DEF Init, PlaceTypes
<1>3. FrameTypes
  BY BoundsAssumption DEF Init, FrameTypes
<1>4. ASSUME NEW c \in Clients
      PROVE  Place(c) /\ Numbered(c) /\ HasLast(c) /\ Source(c)
  BY <1>4 DEF Init, Place, Numbered, Rising, Above, Below, HasLast, Source, Fresh, Before
<1> QED
  BY <1>1, <1>2, <1>3, <1>4 DEF HubInv, Types

-----------------------------------------------------------------------------
(* The types.                                                              *)

\* The types of a stream that ends.
LEMMA EmptyBuffer ==
  ASSUME FrameTypes, NEW c \in Clients, EndsStream(c)
  PROVE  /\ got' \in [Clients -> Frames] /\ buffer' \in [Clients -> Seq(Frames)]
         /\ \A d \in Clients : Len(buffer'[d]) <= Capacity
<1>1. <<>> \in Seq(Frames) /\ Len(<<>>) <= Capacity
  BY BoundsAssumption
<1> QED
  BY <1>1 DEF FrameTypes, EndsStream

-----------------------------------------------------------------------------
(* A step of one client's leaves the others' subscriptions alone.          *)

Still(d) ==
  /\ hpc'[d] = hpc[d] /\ ready'[d] = ready[d] /\ conn'[d] = conn[d]
  /\ pending'[d] = pending[d] /\ slot'[d] = slot[d] /\ held'[d] = held[d]
  /\ buffer'[d] = buffer[d] /\ got'[d] = got[d] /\ seen'[d] = seen[d]
  /\ has'[d] = has[d]

ClientStep(c) == Handler(c) \/ Connect(c) \/ Stall(c) \/ Close(c) \/ Waiter(c)

\* The types of one subscription.
LEMMA ClientFacts ==
  ASSUME Types, NEW d \in Clients
  PROVE  /\ seq \in Nat /\ published \in Nat
         /\ pending[d].seq \in Nat /\ slot[d].seq \in Nat /\ held[d].seq \in Nat
         /\ got[d].seq \in Nat /\ held[d] \in Frames /\ slot[d] \in Frames
         /\ buffer[d] \in Seq(Frames)
<1>1. seq \in Nat /\ published \in Nat
  BY DEF Types, StageTypes
<1>2. /\ pending[d] \in Frames /\ slot[d] \in Frames /\ held[d] \in Frames
      /\ got[d] \in Frames /\ buffer[d] \in Seq(Frames)
  BY DEF Types, FrameTypes
<1> QED
  BY <1>1, <1>2

-----------------------------------------------------------------------------
(* Sequences of frames.                                                    *)

\* No frame, no number.
LEMMA SeqOfEmpty ==
  ASSUME NEW m
  PROVE  Rising(<<>>) /\ Above(<<>>, m) /\ Below(<<>>, m)
BY DEF Rising, Above, Below

\* The elements of a sequence of frames.
LEMMA Elements ==
  ASSUME NEW s \in Seq(Frames)
  PROVE  Len(s) \in Nat /\ \A i \in 1..Len(s) : s[i] \in Frames /\ s[i].seq \in Nat
<1>1. ASSUME NEW i \in 1..Len(s) PROVE s[i] \in Frames
  BY <1>1, ElementOfSeq
<1> QED
  BY <1>1

\* A greater bound bounds too...
LEMMA BelowMore ==
  ASSUME NEW s \in Seq(Frames), NEW m \in Nat, NEW n \in Nat, m <= n, Below(s, m)
  PROVE  Below(s, n)
BY Elements DEF Below

\* ...and so does a smaller one from below.
LEMMA AboveLess ==
  ASSUME NEW s \in Seq(Frames), NEW m \in Nat, NEW n \in Nat, m <= n, Above(s, n)
  PROVE  Above(s, m)
BY Elements DEF Above

\* What holds of a sequence and of one more frame holds of both.
LEMMA OneMore ==
  ASSUME NEW s \in Seq(Frames), NEW f \in Frames
  PROVE  /\ Append(s, f) \in Seq(Frames) /\ Append(s, f) # <<>>
         /\ Append(s, f)[Len(Append(s, f))] = f
         /\ Rising(s) /\ Below(s, f.seq) => Rising(Append(s, f))
         /\ \A m \in Nat : Above(s, m) /\ m < f.seq => Above(Append(s, f), m)
         /\ \A n \in Nat : Below(s, n) /\ f.seq < n => Below(Append(s, f), n)
<1> DEFINE t == Append(s, f)
<1>1. /\ t \in Seq(Frames) /\ Len(t) = Len(s) + 1 /\ Len(s) \in Nat
      /\ \A i \in 1..Len(s) : t[i] = s[i]
      /\ t[Len(s) + 1] = f
  BY AppendProperties
<1> HIDE DEF t
<1>2. t # <<>>
  <2>1. Len(t) # 0
    BY <1>1
  <2> QED
    BY <2>1
<1>3. \A i \in 1..Len(t) : i \in 1..Len(s) \/ i = Len(s) + 1
  BY <1>1
<1>4. ASSUME Rising(s), Below(s, f.seq), NEW i \in 1..Len(t), NEW j \in 1..Len(t), i < j
      PROVE  t[i].seq < t[j].seq
  <2>1. i \in 1..Len(s)
    BY <1>1, <1>4
  <2>2. CASE j \in 1..Len(s)
    BY <1>1, <1>4, <2>1, <2>2 DEF Rising
  <2>3. CASE j = Len(s) + 1
    BY <1>1, <1>4, <2>1, <2>3 DEF Below
  <2> QED
    BY <1>3, <2>2, <2>3
<1>5. ASSUME NEW m \in Nat, Above(s, m), m < f.seq PROVE Above(t, m)
  BY <1>1, <1>3, <1>5 DEF Above
<1>6. ASSUME NEW n \in Nat, Below(s, n), f.seq < n PROVE Below(t, n)
  BY <1>1, <1>3, <1>6 DEF Below
<1>7. Rising(s) /\ Below(s, f.seq) => Rising(t)
  BY <1>4 DEF Rising
<1>8. t[Len(t)] = f
  BY <1>1
<1> QED
  BY <1>1, <1>2, <1>5, <1>6, <1>7, <1>8 DEF t

\* What holds of a sequence holds without its head, after which the rest comes.
LEMMA OneLess ==
  ASSUME NEW s \in Seq(Frames), s # <<>>
  PROVE  /\ Head(s) \in Frames /\ Tail(s) \in Seq(Frames)
         /\ Rising(s) => Rising(Tail(s)) /\ Above(Tail(s), Head(s).seq)
         /\ \A m : Above(s, m) => m < Head(s).seq
         /\ \A n : Below(s, n) => Below(Tail(s), n) /\ Head(s).seq < n
         /\ Tail(s) = <<>> => Head(s) = s[Len(s)]
         /\ Tail(s) # <<>> => Tail(s)[Len(Tail(s))] = s[Len(s)]
<1> DEFINE t == Tail(s)
<1>a. ASSUME NEW S, NEW u \in Seq(S), u # <<>>
      PROVE  /\ Head(u) = u[1] /\ Head(u) \in S /\ Tail(u) \in Seq(S)
             /\ Len(u) \in Nat /\ Len(Tail(u)) = Len(u) - 1
             /\ \A i \in 1..Len(Tail(u)) : Tail(u)[i] = u[i + 1]
  BY <1>a, HeadTailProperties, SMT
<1>1. /\ Head(s) = s[1] /\ Head(s) \in Frames /\ t \in Seq(Frames)
      /\ Len(s) \in Nat /\ Len(t) = Len(s) - 1
      /\ \A i \in 1..Len(t) : t[i] = s[i + 1]
  BY <1>a, Zenon
<1>2. Len(s) \in Nat
  BY <1>1
<1>3. Len(s) # 0
  BY EmptySeq, Zenon
<1>5. t # <<>> => Len(t) # 0
  BY <1>1, EmptySeq, Zenon
<1> HIDE DEF t
<1>4. t = <<>> => Len(t) = 0
  OBVIOUS
<1>6. 1 \in 1..Len(s) /\ \A i \in 1..Len(t) : i + 1 \in 1..Len(s) /\ i + 1 > 1
  BY <1>1, <1>3
<1>7. Rising(s) => Rising(t) /\ Above(t, Head(s).seq)
  <2>1. ASSUME Rising(s), NEW i \in 1..Len(t), NEW j \in 1..Len(t), i < j
        PROVE  t[i].seq < t[j].seq
    <3>1. i + 1 \in 1..Len(s) /\ j + 1 \in 1..Len(s) /\ i + 1 < j + 1
      BY <1>6, <2>1
    <3>2. s[i + 1].seq < s[j + 1].seq
      BY <2>1, <3>1 DEF Rising
    <3> QED
      BY <1>1, <3>2
  <2>2. ASSUME Rising(s), NEW i \in 1..Len(t) PROVE Head(s).seq < t[i].seq
    BY <1>1, <1>6, <2>2 DEF Rising
  <2> QED
    BY <2>1, <2>2 DEF Rising, Above
<1>8. ASSUME NEW m, Above(s, m) PROVE m < Head(s).seq
  BY <1>1, <1>6, <1>8 DEF Above
<1>9. ASSUME NEW n, Below(s, n) PROVE Below(t, n) /\ Head(s).seq < n
  BY <1>1, <1>6, <1>9 DEF Below
<1>10. t = <<>> => Head(s) = s[Len(s)]
  <2>1. t = <<>> => Len(s) = 1
    BY <1>1, <1>4
  <2> QED
    BY <1>1, <2>1
<1>11. ASSUME t # <<>> PROVE t[Len(t)] = s[Len(s)]
  <2>1. Len(t) \in 1..Len(t) /\ Len(t) + 1 = Len(s)
    <3>1. Len(t) # 0
      BY <1>5, <1>11
    <3> QED
      BY <1>1, <1>3, <3>1
  <2> QED
    BY <1>1, <2>1
<1> QED
  BY <1>1, <1>7, <1>8, <1>9, <1>10, <1>11 DEF t

\* Every step keeps the types of the reader's state.
LEMMA ReaderStep ==
  ASSUME Types, Next
  PROVE  ReaderTypes'
<1> USE BoundsAssumption, ProcessAssumption DEF ReaderTypes, Types,
    readerVars, frameVars, clientVars, seqVars, Publishers, Procs
<1>1. CASE Change
  BY <1>1 DEF Change
<1>2. CASE WorkerBegins
  BY <1>2 DEF WorkerBegins, Goto, unchangedByReads
<1>3. CASE PassEnds
  BY <1>3 DEF PassEnds, Goto, unchangedByReads
<1>4. CASE Stop
  BY <1>4 DEF Stop, unchangedByConnections
<1>5. CASE CloseConns
  BY <1>5 DEF CloseConns, unchangedByConnections
<1>6. CASE Stopped
  BY <1>6 DEF Stopped, unchangedByConnections
<1>7. ASSUME NEW p \in Publishers, InvalidateBegins(p) PROVE ReaderTypes'
  BY <1>7 DEF InvalidateBegins, Goto, unchangedByReads
<1>8. ASSUME NEW p \in Publishers, PublisherLoads(p) PROVE ReaderTypes'
  BY <1>8 DEF PublisherLoads, Load, Goto, Rest, unchangedByReads
<1>9. ASSUME NEW p \in Publishers, PublisherStores(p) PROVE ReaderTypes'
  BY <1>9 DEF PublisherStores, Store, Goto, unchangedByReads
<1>10. ASSUME NEW p \in Publishers, PublisherBuilds(p) PROVE ReaderTypes'
  BY <1>10 DEF PublisherBuilds, Build, Misses, readerVars, Goto, Rest, unchangedByReads
<1>11. ASSUME NEW p \in Publishers, Publish(p) PROVE ReaderTypes'
  BY <1>11 DEF Publish, Goto, Rest, Fan
<1>12. ASSUME NEW c \in Clients, SubscriberLoads(c) PROVE ReaderTypes'
  BY <1>12 DEF SubscriberLoads, HGoto, Load, unchangedInHandler
<1>13. ASSUME NEW c \in Clients, SubscriberStores(c) PROVE ReaderTypes'
  BY <1>13 DEF SubscriberStores, HGoto, Store, unchangedInHandler
<1>14. ASSUME NEW c \in Clients, SubscriberBuilds(c) PROVE ReaderTypes'
  BY <1>14 DEF SubscriberBuilds, HGoto, Build, Misses, readerVars, unchangedInHandler
<1>15. ASSUME NEW c \in Clients, Stamp(c) PROVE ReaderTypes'
  BY <1>15 DEF Stamp, HGoto, unchangedInHandler
<1>16. ASSUME NEW c \in Clients, Write(c) PROVE ReaderTypes'
  BY <1>16 DEF Write, unchangedInHandler
<1>17. ASSUME NEW c \in Clients, LockHandOff(c) PROVE ReaderTypes'
  BY <1>17 DEF LockHandOff, HGoto, unchangedInHandler
<1>18. ASSUME NEW c \in Clients, HandOff(c) PROVE ReaderTypes'
  BY <1>18 DEF HandOff, HGoto, unchangedInHandler
<1>19. ASSUME NEW c \in Clients, Take(c) PROVE ReaderTypes'
  BY <1>19 DEF Take, HGoto, unchangedInHandler
<1>20. ASSUME NEW c \in Clients, Done(c) PROVE ReaderTypes'
  BY <1>20 DEF Done, HGoto, unchangedInHandler
<1>21. ASSUME NEW c \in Clients, Leave(c) PROVE ReaderTypes'
  BY <1>21 DEF Leave, HGoto, unchangedInHandler
<1>22. ASSUME NEW c \in Clients, Connect(c) PROVE ReaderTypes'
  BY <1>22 DEF Connect, Register, Racing
<1>23. ASSUME NEW c \in Clients, Stall(c) PROVE ReaderTypes'
  BY <1>23 DEF Stall, unchangedByConnections
<1>24. ASSUME NEW c \in Clients, Close(c) PROVE ReaderTypes'
  BY <1>24 DEF Close, EndsStream, unchangedByConnections
<1>25. ASSUME NEW c \in Clients, Read(c) PROVE ReaderTypes'
  BY <1>25 DEF Read, EndsStream, Final, unchangedByWaiter
<1>26. ASSUME NEW c \in Clients, StreamEnds(c) PROVE ReaderTypes'
  BY <1>26 DEF StreamEnds, EndsStream, unchangedByWaiter
<1>27. ASSUME NEW c \in Clients, Refused(c) PROVE ReaderTypes'
  BY <1>27 DEF Refused, unchangedByWaiter
<1>28. ASSUME NEW c \in Clients, Poll(c) PROVE ReaderTypes'
  BY <1>28 DEF Poll, unchangedByWaiter
<1> QED
  BY <1>1, <1>2, <1>3, <1>4, <1>5, <1>6, <1>7, <1>8, <1>9, <1>10, <1>11, <1>12, <1>13,
     <1>14, <1>15, <1>16, <1>17, <1>18, <1>19, <1>20, <1>21, <1>22, <1>23, <1>24, <1>25,
     <1>26, <1>27, <1>28
  DEF Next, PublisherStep, Handler, Waiter, Serve

\* Every step keeps the types of where everybody is.
LEMMA StageStep ==
  ASSUME Types, Next
  PROVE  StageTypes'
<1> USE BoundsAssumption, ProcessAssumption DEF StageTypes, Types,
    readerVars, frameVars, clientVars, seqVars, Publishers, Procs
<1>1. CASE Change
  BY <1>1 DEF Change
<1>2. CASE WorkerBegins
  BY <1>2 DEF WorkerBegins, Goto, unchangedByReads
<1>3. CASE PassEnds
  BY <1>3 DEF PassEnds, Goto, unchangedByReads
<1>4. CASE Stop
  BY <1>4 DEF Stop, unchangedByConnections
<1>5. CASE CloseConns
  BY <1>5 DEF CloseConns, unchangedByConnections
<1>6. CASE Stopped
  BY <1>6 DEF Stopped, unchangedByConnections
<1>7. ASSUME NEW p \in Publishers, InvalidateBegins(p) PROVE StageTypes'
  BY <1>7 DEF InvalidateBegins, Goto, unchangedByReads
<1>8. ASSUME NEW p \in Publishers, PublisherLoads(p) PROVE StageTypes'
  BY <1>8 DEF PublisherLoads, Load, Goto, Rest, unchangedByReads
<1>9. ASSUME NEW p \in Publishers, PublisherStores(p) PROVE StageTypes'
  BY <1>9 DEF PublisherStores, Store, Goto, unchangedByReads
<1>10. ASSUME NEW p \in Publishers, PublisherBuilds(p) PROVE StageTypes'
  BY <1>10 DEF PublisherBuilds, Build, Misses, Goto, Rest, unchangedByReads
<1>11. ASSUME NEW p \in Publishers, Publish(p) PROVE StageTypes'
  BY <1>11 DEF Publish, Goto, Rest, Fan
<1>12. ASSUME NEW c \in Clients, SubscriberLoads(c) PROVE StageTypes'
  BY <1>12 DEF SubscriberLoads, HGoto, Load, unchangedInHandler
<1>13. ASSUME NEW c \in Clients, SubscriberStores(c) PROVE StageTypes'
  BY <1>13 DEF SubscriberStores, HGoto, Store, unchangedInHandler
<1>14. ASSUME NEW c \in Clients, SubscriberBuilds(c) PROVE StageTypes'
  BY <1>14 DEF SubscriberBuilds, HGoto, Build, Misses, readerVars, unchangedInHandler
<1>15. ASSUME NEW c \in Clients, Stamp(c) PROVE StageTypes'
  BY <1>15 DEF Stamp, HGoto, unchangedInHandler
<1>16. ASSUME NEW c \in Clients, Write(c) PROVE StageTypes'
  BY <1>16 DEF Write, unchangedInHandler
<1>17. ASSUME NEW c \in Clients, LockHandOff(c) PROVE StageTypes'
  BY <1>17 DEF LockHandOff, HGoto, unchangedInHandler
<1>18. ASSUME NEW c \in Clients, HandOff(c) PROVE StageTypes'
  BY <1>18 DEF HandOff, HGoto, unchangedInHandler
<1>19. ASSUME NEW c \in Clients, Take(c) PROVE StageTypes'
  BY <1>19 DEF Take, HGoto, unchangedInHandler
<1>20. ASSUME NEW c \in Clients, Done(c) PROVE StageTypes'
  BY <1>20 DEF Done, HGoto, unchangedInHandler
<1>21. ASSUME NEW c \in Clients, Leave(c) PROVE StageTypes'
  BY <1>21 DEF Leave, HGoto, unchangedInHandler
<1>22. ASSUME NEW c \in Clients, Connect(c) PROVE StageTypes'
  BY <1>22 DEF Connect, Register, Racing
<1>23. ASSUME NEW c \in Clients, Stall(c) PROVE StageTypes'
  BY <1>23 DEF Stall, unchangedByConnections
<1>24. ASSUME NEW c \in Clients, Close(c) PROVE StageTypes'
  BY <1>24 DEF Close, EndsStream, unchangedByConnections
<1>25. ASSUME NEW c \in Clients, Read(c) PROVE StageTypes'
  BY <1>25 DEF Read, EndsStream, Final, unchangedByWaiter
<1>26. ASSUME NEW c \in Clients, StreamEnds(c) PROVE StageTypes'
  BY <1>26 DEF StreamEnds, EndsStream, unchangedByWaiter
<1>27. ASSUME NEW c \in Clients, Refused(c) PROVE StageTypes'
  BY <1>27 DEF Refused, unchangedByWaiter
<1>28. ASSUME NEW c \in Clients, Poll(c) PROVE StageTypes'
  BY <1>28 DEF Poll, unchangedByWaiter
<1> QED
  BY <1>1, <1>2, <1>3, <1>4, <1>5, <1>6, <1>7, <1>8, <1>9, <1>10, <1>11, <1>12, <1>13,
     <1>14, <1>15, <1>16, <1>17, <1>18, <1>19, <1>20, <1>21, <1>22, <1>23, <1>24, <1>25,
     <1>26, <1>27, <1>28
  DEF Next, PublisherStep, Handler, Waiter, Serve

\* Every step keeps a subscription and its place in the hub together.
LEMMA PlaceTypeStep ==
  ASSUME Types, Next
  PROVE  PlaceTypes'
<1> USE BoundsAssumption, ProcessAssumption DEF PlaceTypes, Types,
    readerVars, frameVars, clientVars, seqVars, Publishers, Procs
<1>1. CASE Change
  BY <1>1 DEF Change
<1>2. CASE WorkerBegins
  BY <1>2 DEF WorkerBegins, Goto, unchangedByReads
<1>3. CASE PassEnds
  BY <1>3 DEF PassEnds, Goto, unchangedByReads
<1>4. CASE Stop
  BY <1>4 DEF Stop, unchangedByConnections
<1>5. CASE CloseConns
  BY <1>5 DEF CloseConns, unchangedByConnections
<1>6. CASE Stopped
  BY <1>6 DEF Stopped, unchangedByConnections
<1>7. ASSUME NEW p \in Publishers, InvalidateBegins(p) PROVE PlaceTypes'
  BY <1>7 DEF InvalidateBegins, Goto, unchangedByReads
<1>8. ASSUME NEW p \in Publishers, PublisherLoads(p) PROVE PlaceTypes'
  BY <1>8 DEF PublisherLoads, Load, Goto, Rest, unchangedByReads
<1>9. ASSUME NEW p \in Publishers, PublisherStores(p) PROVE PlaceTypes'
  BY <1>9 DEF PublisherStores, Store, Goto, unchangedByReads
<1>10. ASSUME NEW p \in Publishers, PublisherBuilds(p) PROVE PlaceTypes'
  BY <1>10 DEF PublisherBuilds, Build, Misses, readerVars, Goto, Rest, unchangedByReads
<1>11. ASSUME NEW p \in Publishers, Publish(p) PROVE PlaceTypes'
  BY <1>11 DEF Publish, Goto, Rest, Fan
<1>12. ASSUME NEW c \in Clients, SubscriberLoads(c) PROVE PlaceTypes'
  BY <1>12 DEF SubscriberLoads, HGoto, Load, unchangedInHandler
<1>13. ASSUME NEW c \in Clients, SubscriberStores(c) PROVE PlaceTypes'
  BY <1>13 DEF SubscriberStores, HGoto, Store, unchangedInHandler
<1>14. ASSUME NEW c \in Clients, SubscriberBuilds(c) PROVE PlaceTypes'
  BY <1>14 DEF SubscriberBuilds, HGoto, Build, Misses, readerVars, unchangedInHandler
<1>15. ASSUME NEW c \in Clients, Stamp(c) PROVE PlaceTypes'
  BY <1>15 DEF Stamp, HGoto, unchangedInHandler
<1>16. ASSUME NEW c \in Clients, Write(c) PROVE PlaceTypes'
  BY <1>16 DEF Write, unchangedInHandler
<1>17. ASSUME NEW c \in Clients, LockHandOff(c) PROVE PlaceTypes'
  BY <1>17 DEF LockHandOff, HGoto, unchangedInHandler
<1>18. ASSUME NEW c \in Clients, HandOff(c) PROVE PlaceTypes'
  BY <1>18 DEF HandOff, HGoto, unchangedInHandler
<1>19. ASSUME NEW c \in Clients, Take(c) PROVE PlaceTypes'
  BY <1>19 DEF Take, HGoto, unchangedInHandler
<1>20. ASSUME NEW c \in Clients, Done(c) PROVE PlaceTypes'
  BY <1>20 DEF Done, HGoto, unchangedInHandler
<1>21. ASSUME NEW c \in Clients, Leave(c) PROVE PlaceTypes'
  BY <1>21 DEF Leave, HGoto, unchangedInHandler
<1>22. ASSUME NEW c \in Clients, Connect(c) PROVE PlaceTypes'
  BY <1>22 DEF Connect, Register, Racing
<1>23. ASSUME NEW c \in Clients, Stall(c) PROVE PlaceTypes'
  BY <1>23 DEF Stall, unchangedByConnections
<1>24. ASSUME NEW c \in Clients, Close(c) PROVE PlaceTypes'
  BY <1>24 DEF Close, EndsStream, unchangedByConnections
<1>25. ASSUME NEW c \in Clients, Read(c) PROVE PlaceTypes'
  BY <1>25 DEF Read, EndsStream, Final, unchangedByWaiter
<1>26. ASSUME NEW c \in Clients, StreamEnds(c) PROVE PlaceTypes'
  BY <1>26 DEF StreamEnds, EndsStream, unchangedByWaiter
<1>27. ASSUME NEW c \in Clients, Refused(c) PROVE PlaceTypes'
  BY <1>27 DEF Refused, unchangedByWaiter
<1>28. ASSUME NEW c \in Clients, Poll(c) PROVE PlaceTypes'
  BY <1>28 DEF Poll, unchangedByWaiter
<1> QED
  BY <1>1, <1>2, <1>3, <1>4, <1>5, <1>6, <1>7, <1>8, <1>9, <1>10, <1>11, <1>12, <1>13,
     <1>14, <1>15, <1>16, <1>17, <1>18, <1>19, <1>20, <1>21, <1>22, <1>23, <1>24, <1>25,
     <1>26, <1>27, <1>28
  DEF Next, PublisherStep, Handler, Waiter, Serve

\* Every step keeps the types of what a subscriber holds.
LEMMA FrameStep ==
  ASSUME Types, Next
  PROVE  FrameTypes'
<1> USE BoundsAssumption, ProcessAssumption DEF FrameTypes, Types,
    readerVars, frameVars, clientVars, seqVars, Publishers, Procs
<1>1. CASE Change
  BY <1>1 DEF Change
<1>2. CASE WorkerBegins
  BY <1>2 DEF WorkerBegins, Goto, unchangedByReads
<1>3. CASE PassEnds
  BY <1>3 DEF PassEnds, Goto, unchangedByReads
<1>4. CASE Stop
  BY <1>4 DEF Stop, unchangedByConnections
<1>5. CASE CloseConns
  BY <1>5 DEF CloseConns, unchangedByConnections
<1>6. CASE Stopped
  BY <1>6 DEF Stopped, unchangedByConnections
<1>7. ASSUME NEW p \in Publishers, InvalidateBegins(p) PROVE FrameTypes'
  BY <1>7 DEF InvalidateBegins, Goto, unchangedByReads
<1>8. ASSUME NEW p \in Publishers, PublisherLoads(p) PROVE FrameTypes'
  BY <1>8 DEF PublisherLoads, Load, Goto, Rest, unchangedByReads
<1>9. ASSUME NEW p \in Publishers, PublisherStores(p) PROVE FrameTypes'
  BY <1>9 DEF PublisherStores, Store, Goto, unchangedByReads
<1>10. ASSUME NEW p \in Publishers, PublisherBuilds(p) PROVE FrameTypes'
  BY <1>10 DEF PublisherBuilds, Build, Misses, readerVars, Goto, Rest, unchangedByReads
<1>11. ASSUME NEW p \in Publishers, Publish(p) PROVE FrameTypes'
  <2> DEFINE f == [seq |-> seq + 1, n |-> published + 1, ver |-> has[p]]
  <2>1. f \in Frames
    <3>1. seq + 1 \in Nat /\ published + 1 \in Nat
      BY DEF StageTypes
    <3>2. has[p] \in Nat
      BY DEF ReaderTypes
    <3> QED
      BY <3>1, <3>2
  <2>2. Fan(f) /\ UNCHANGED <<held, buffer, got, seen>>
    BY <1>11 DEF Publish
  <2> HIDE DEF f
  <2>3. pending' \in [Clients -> Frames] /\ slot' \in [Clients -> Frames]
    BY <2>1, <2>2 DEF Fan
  <2> QED
    BY <2>2, <2>3
<1>12. ASSUME NEW c \in Clients, SubscriberLoads(c) PROVE FrameTypes'
  <2>1. UNCHANGED <<pending, slot, held, buffer, got>>
    BY <1>12 DEF SubscriberLoads, unchangedInHandler
  <2>2. seen' \in [Clients -> [n : Nat, ver : Nat, race : BOOLEAN]]
    BY <1>12 DEF SubscriberLoads
  <2> QED
    BY <2>1, <2>2
<1>13. ASSUME NEW c \in Clients, SubscriberStores(c) PROVE FrameTypes'
  BY <1>13 DEF SubscriberStores, HGoto, Store, unchangedInHandler
<1>14. ASSUME NEW c \in Clients, SubscriberBuilds(c) PROVE FrameTypes'
  BY <1>14 DEF SubscriberBuilds, HGoto, Build, Misses, readerVars, unchangedInHandler
<1>15. ASSUME NEW c \in Clients, Stamp(c) PROVE FrameTypes'
  <2>1. [seq |-> seq + 1, n |-> seen[c].n, ver |-> has[c]] \in Frames
    BY DEF ReaderTypes, StageTypes
  <2> QED
    BY <1>15, <2>1 DEF Stamp, unchangedInHandler
<1>16. ASSUME NEW c \in Clients, Write(c) PROVE FrameTypes'
  <2>1. /\ held' \in [Clients -> Frames]
        /\ seen' \in [Clients -> [n : Nat, ver : Nat, race : BOOLEAN]]
    BY <1>16 DEF Write
  <2>2. buffer' \in [Clients -> Seq(Frames)] /\ \A d \in Clients : Len(buffer'[d]) <= Capacity
    <3>1. CASE buffer' = buffer
      BY <3>1
    <3>2. CASE Len(buffer[c]) < Capacity /\ buffer' = [buffer EXCEPT ![c] = Append(@, held[c])]
      <4>1. Append(buffer[c], held[c]) \in Seq(Frames)
            /\ Len(Append(buffer[c], held[c])) <= Capacity
        BY <3>2
      <4> QED
        BY <3>2, <4>1
    <3> QED
      BY <1>16, <3>1, <3>2 DEF Write
  <2> QED
    BY <1>16, <2>1, <2>2 DEF Write, unchangedInHandler
<1>17. ASSUME NEW c \in Clients, LockHandOff(c) PROVE FrameTypes'
  BY <1>17 DEF LockHandOff, HGoto, unchangedInHandler
<1>18. ASSUME NEW c \in Clients, HandOff(c) PROVE FrameTypes'
  <2>1. pending[c] \in Frames /\ seq + 1 \in Nat
    BY DEF StageTypes
  <2>2. [pending[c] EXCEPT !.seq = seq + 1] \in Frames
    BY <2>1
  <2>3. slot' \in [Clients -> Frames]
    BY <1>18, <2>2 DEF HandOff
  <2>4. pending' \in [Clients -> Frames]
    BY <1>18 DEF HandOff
  <2> QED
    BY <1>18, <2>3, <2>4 DEF HandOff, unchangedInHandler
<1>19. ASSUME NEW c \in Clients, Take(c) PROVE FrameTypes'
  BY <1>19 DEF Take, HGoto, unchangedInHandler
<1>20. ASSUME NEW c \in Clients, Done(c) PROVE FrameTypes'
  BY <1>20 DEF Done, HGoto, unchangedInHandler
<1>21. ASSUME NEW c \in Clients, Leave(c) PROVE FrameTypes'
  BY <1>21 DEF Leave, HGoto, unchangedInHandler
<1>22. ASSUME NEW c \in Clients, Connect(c) PROVE FrameTypes'
  <2>1. Racing \in BOOLEAN
    BY Zenon DEF Racing
  <2>2. [n |-> published, ver |-> version, race |-> Racing]
          \in [n : Nat, ver : Nat, race : BOOLEAN]
    BY <2>1 DEF StageTypes, ReaderTypes
  <2> QED
    BY <1>22, <2>2 DEF Connect, Register
<1>23. ASSUME NEW c \in Clients, Stall(c) PROVE FrameTypes'
  BY <1>23 DEF Stall, unchangedByConnections
<1>24. ASSUME NEW c \in Clients, Close(c) PROVE FrameTypes'
  BY <1>24, EmptyBuffer DEF Close, unchangedByConnections
<1>25. ASSUME NEW c \in Clients, Read(c) PROVE FrameTypes'
  <2>1. CASE EndsStream(c)
    BY <1>25, <2>1, EmptyBuffer DEF Read, unchangedByWaiter
  <2>2. CASE /\ got' = [got EXCEPT ![c] = Head(buffer[c])]
             /\ buffer' = [buffer EXCEPT ![c] = Tail(@)]
    <3>1. buffer[c] \in Seq(Frames) /\ buffer[c] # <<>>
      BY <1>25 DEF Read
    <3>2. Head(buffer[c]) \in Frames /\ Tail(buffer[c]) \in Seq(Frames)
      BY <3>1, HeadTailProperties
    <3>3. Len(Tail(buffer[c])) <= Capacity
      <4>1. Len(Tail(buffer[c])) = Len(buffer[c]) - 1 /\ Len(buffer[c]) \in Nat
        BY <3>1
      <4>2. Len(buffer[c]) <= Capacity
        OBVIOUS
      <4> QED
        BY <4>1, <4>2, BoundsAssumption
    <3> QED
      BY <1>25, <2>2, <3>2, <3>3 DEF Read, unchangedByWaiter
  <2> QED
    BY <1>25, <2>1, <2>2 DEF Read
<1>26. ASSUME NEW c \in Clients, StreamEnds(c) PROVE FrameTypes'
  BY <1>26, EmptyBuffer DEF StreamEnds, unchangedByWaiter
<1>27. ASSUME NEW c \in Clients, Refused(c) PROVE FrameTypes'
  BY <1>27 DEF Refused, unchangedByWaiter
<1>28. ASSUME NEW c \in Clients, Poll(c) PROVE FrameTypes'
  BY <1>28 DEF Poll, unchangedByWaiter
<1> QED
  BY <1>1, <1>2, <1>3, <1>4, <1>5, <1>6, <1>7, <1>8, <1>9, <1>10, <1>11, <1>12, <1>13,
     <1>14, <1>15, <1>16, <1>17, <1>18, <1>19, <1>20, <1>21, <1>22, <1>23, <1>24, <1>25,
     <1>26, <1>27, <1>28
  DEF Next, PublisherStep, Handler, Waiter, Serve

\* A step of another client moves nothing of this one's.
LEMMA ElsewhereStill ==
  ASSUME Types, NEW c \in Clients, NEW d \in Clients, c # d, ClientStep(c)
  PROVE  Still(d) /\ published' = published /\ seq' >= seq
<1> USE DEF Types, ReaderTypes, StageTypes, PlaceTypes, FrameTypes, Still,
    readerVars, frameVars, clientVars, seqVars, Procs
<1>1. CASE SubscriberLoads(c)
  <2>1. has'[d] = has[d]
    BY <1>1 DEF SubscriberLoads, Load
  <2>2. hpc'[d] = hpc[d] /\ seen'[d] = seen[d]
    BY <1>1 DEF SubscriberLoads, HGoto
  <2> QED
    BY <1>1, <2>1, <2>2 DEF SubscriberLoads, unchangedInHandler
<1>2. CASE SubscriberStores(c)
  BY <1>2 DEF SubscriberStores, HGoto, Store, unchangedInHandler
<1>3. CASE SubscriberBuilds(c)
  <2>1. has'[d] = has[d]
    BY <1>3 DEF SubscriberBuilds, Build, Misses, readerVars
  <2>2. hpc'[d] = hpc[d]
    BY <1>3 DEF SubscriberBuilds, HGoto
  <2> QED
    BY <1>3, <2>1, <2>2 DEF SubscriberBuilds, unchangedInHandler
<1>4. CASE Stamp(c)
  BY <1>4 DEF Stamp, HGoto, unchangedInHandler
<1>5. CASE Write(c)
  <2>1. buffer'[d] = buffer[d] /\ hpc'[d] = hpc[d]
    <3>1. CASE buffer' = buffer /\ hpc' = [hpc EXCEPT ![c] = "leave"]
      BY <3>1
    <3>2. CASE /\ buffer' = [buffer EXCEPT ![c] = Append(@, held[c])]
               /\ hpc' = [hpc EXCEPT ![c] = IF @ = "initial" THEN "lock" ELSE "loop"]
      BY <3>2
    <3> QED
      BY <1>5, <3>1, <3>2 DEF Write
  <2>2. held'[d] = held[d] /\ seen'[d] = seen[d]
    BY <1>5 DEF Write
  <2> QED
    BY <1>5, <2>1, <2>2 DEF Write, unchangedInHandler
<1>6. CASE LockHandOff(c)
  BY <1>6 DEF LockHandOff, HGoto, unchangedInHandler
<1>7. CASE HandOff(c)
  <2>1. CASE pending[c] = NoFrame
    BY <1>7, <2>1 DEF HandOff, HGoto, unchangedInHandler
  <2>2. CASE pending[c] # NoFrame
    <3>1. seq' = seq + 1 /\ slot' = [slot EXCEPT ![c] = [pending[c] EXCEPT !.seq = seq + 1]]
      BY <1>7, <2>2 DEF HandOff
    <3>2. slot'[d] = slot[d]
      BY <3>1
    <3> QED
      BY <1>7, <3>1, <3>2 DEF HandOff, HGoto, unchangedInHandler
  <2> QED
    BY <2>1, <2>2
<1>8. CASE Take(c)
  BY <1>8 DEF Take, HGoto, unchangedInHandler
<1>9. CASE Done(c)
  BY <1>9 DEF Done, HGoto, unchangedInHandler
<1>10. CASE Leave(c)
  BY <1>10 DEF Leave, HGoto, unchangedInHandler
<1>11. CASE Connect(c)
  BY <1>11 DEF Connect, Register
<1>12. CASE Stall(c)
  BY <1>12 DEF Stall, unchangedByConnections
<1>13. CASE Close(c)
  BY <1>13 DEF Close, EndsStream, unchangedByConnections
<1>14. CASE Read(c)
  <2>1. CASE EndsStream(c)
    BY <1>14, <2>1 DEF Read, EndsStream, unchangedByWaiter
  <2>2. CASE /\ got' = [got EXCEPT ![c] = Head(buffer[c])]
             /\ buffer' = [buffer EXCEPT ![c] = Tail(@)] /\ UNCHANGED conn
    BY <1>14, <2>2 DEF Read, unchangedByWaiter
  <2> QED
    BY <1>14, <2>1, <2>2 DEF Read
<1>15. CASE StreamEnds(c)
  BY <1>15 DEF StreamEnds, EndsStream, unchangedByWaiter
<1>16. CASE Refused(c)
  BY <1>16 DEF Refused, unchangedByWaiter
<1>17. CASE Poll(c)
  BY <1>17 DEF Poll, unchangedByWaiter
<1> QED
  BY <1>1, <1>2, <1>3, <1>4, <1>5, <1>6, <1>7, <1>8, <1>9, <1>10, <1>11, <1>12, <1>13,
     <1>14, <1>15, <1>16, <1>17 DEF ClientStep, Handler, Waiter

\* Every step keeps what is known of a subscription's place.
LEMMA PlaceStep ==
  ASSUME Types, Next, NEW d \in Clients, Place(d)
  PROVE  Place(d)'
<1> USE BoundsAssumption, ProcessAssumption DEF Types, PlaceTypes, FrameTypes, Place, Before,
    readerVars, frameVars, clientVars, seqVars, Publishers, Procs
<1>1. ASSUME NEW c \in Clients, c # d, ClientStep(c) PROVE Place(d)'
  <2>1. Still(d)
    BY <1>1, ElsewhereStill
  <2> QED
    BY <2>1 DEF Still
<1>2. CASE Change
  BY <1>2 DEF Change
<1>3. CASE WorkerBegins
  BY <1>3 DEF WorkerBegins, Goto, unchangedByReads
<1>4. CASE PassEnds
  BY <1>4 DEF PassEnds, Goto, unchangedByReads
<1>5. CASE Stop
  BY <1>5 DEF Stop, unchangedByConnections
<1>6. CASE CloseConns
  BY <1>6 DEF CloseConns, unchangedByConnections
<1>7. CASE Stopped
  BY <1>7 DEF Stopped, unchangedByConnections
<1>8. ASSUME NEW p \in Publishers, InvalidateBegins(p) PROVE Place(d)'
  BY <1>8 DEF InvalidateBegins, Goto, unchangedByReads
<1>9. ASSUME NEW p \in Publishers, PublisherLoads(p) PROVE Place(d)'
  BY <1>9 DEF PublisherLoads, Load, Goto, Rest, unchangedByReads
<1>10. ASSUME NEW p \in Publishers, PublisherStores(p) PROVE Place(d)'
  BY <1>10 DEF PublisherStores, Store, Goto, unchangedByReads
<1>11. ASSUME NEW p \in Publishers, PublisherBuilds(p) PROVE Place(d)'
  BY <1>11 DEF PublisherBuilds, Build, Misses, readerVars, Goto, Rest, unchangedByReads
<1>12. ASSUME NEW p \in Publishers, Publish(p) PROVE Place(d)'
  BY <1>12 DEF Publish, Goto, Rest, Fan
<1>13. CASE SubscriberLoads(d)
  BY <1>13 DEF SubscriberLoads, HGoto, Load, unchangedInHandler
<1>14. CASE SubscriberStores(d)
  BY <1>14 DEF SubscriberStores, HGoto, Store, unchangedInHandler
<1>15. CASE SubscriberBuilds(d)
  BY <1>15 DEF SubscriberBuilds, HGoto, Build, Misses, readerVars, unchangedInHandler
<1>16. CASE Stamp(d)
  BY <1>16 DEF Stamp, HGoto, unchangedInHandler, StageTypes
<1>17. CASE Write(d)
  BY <1>17 DEF Write, unchangedInHandler
<1>18. CASE LockHandOff(d)
  BY <1>18 DEF LockHandOff, HGoto, unchangedInHandler
<1>19. CASE HandOff(d)
  BY <1>19 DEF HandOff, HGoto, unchangedInHandler
<1>20. CASE Take(d)
  BY <1>20 DEF Take, HGoto, unchangedInHandler
<1>21. CASE Done(d)
  BY <1>21 DEF Done, HGoto, unchangedInHandler
<1>22. CASE Leave(d)
  BY <1>22 DEF Leave, HGoto, unchangedInHandler
<1>23. CASE Connect(d)
  BY <1>23 DEF Connect, Register, Racing
<1>24. CASE Stall(d)
  BY <1>24 DEF Stall, unchangedByConnections
<1>25. CASE Close(d)
  BY <1>25 DEF Close, EndsStream, unchangedByConnections
<1>26. CASE Read(d)
  BY <1>26 DEF Read, EndsStream, Final, unchangedByWaiter
<1>27. CASE StreamEnds(d)
  BY <1>27 DEF StreamEnds, EndsStream, unchangedByWaiter
<1>28. CASE Refused(d)
  BY <1>28 DEF Refused, unchangedByWaiter
<1>29. CASE Poll(d)
  BY <1>29 DEF Poll, unchangedByWaiter
<1>30. CASE ClientStep(d)
  BY <1>30, <1>1, <1>2, <1>3, <1>4, <1>5, <1>6, <1>7, <1>8, <1>9, <1>10, <1>11, <1>12,
     <1>13, <1>14, <1>15, <1>16, <1>17, <1>18, <1>19, <1>20, <1>21, <1>22, <1>23, <1>24,
     <1>25, <1>26, <1>27, <1>28, <1>29
  DEF ClientStep, Handler, Waiter
<1> QED
  BY <1>1, <1>2, <1>3, <1>4, <1>5, <1>6, <1>7, <1>8, <1>9, <1>10, <1>11, <1>12, <1>13,
     <1>14, <1>15, <1>16, <1>17, <1>18, <1>19, <1>20, <1>21, <1>22, <1>23, <1>24, <1>25,
     <1>26, <1>27, <1>28, <1>29, <1>30
  DEF Next, PublisherStep, ClientStep, Serve

\* Every step keeps the order of the numbers.
LEMMA NumberStep ==
  ASSUME Types, Next, NEW d \in Clients, Place(d), Numbered(d)
  PROVE  Numbered(d)'
<1> USE BoundsAssumption, ProcessAssumption DEF Place, Numbered, Before,
    readerVars, frameVars, clientVars, seqVars, Publishers, Procs
<1>a. /\ seq \in Nat /\ published \in Nat
      /\ pending[d].seq \in Nat /\ slot[d].seq \in Nat /\ held[d].seq \in Nat
      /\ got[d].seq \in Nat /\ held[d] \in Frames /\ slot[d] \in Frames
      /\ buffer[d] \in Seq(Frames)
  BY ClientFacts
<1>b. /\ seq + 1 \in Nat /\ seq + 1 <= seq + 1 + 1
      /\ \A n \in Nat : n <= seq + 1 /\ Below(buffer[d], n) => Below(buffer[d], seq + 1)
      /\ Below(buffer[d], seq + 1 + 1)
  BY <1>a, BelowMore
<1>1. ASSUME NEW c \in Clients, c # d, ClientStep(c) PROVE Numbered(d)'
  <2>1. Still(d) /\ seq' >= seq /\ seq' \in Nat
    BY <1>1, ElsewhereStill, StageStep DEF StageTypes
  <2>a. seq + 1 \in Nat /\ seq' + 1 \in Nat /\ seq + 1 <= seq' + 1
    <3>1. \A m, n \in Nat : n >= m => m + 1 \in Nat /\ n + 1 \in Nat /\ m + 1 <= n + 1
      OBVIOUS
    <3>2. seq \in Nat
      BY <1>a
    <3> QED
      BY <2>1, <3>1, <3>2, Zenon
  <2>2. Below(buffer[d], seq' + 1)
    BY <2>a, <1>a, BelowMore
  <2>3. got'[d].seq <= seq'
    BY <2>1, <1>a DEF Still
  <2>4. held'[d] # NoFrame => held'[d].seq <= seq'
    BY <2>1, <1>a DEF Still
  <2>5. slot'[d] # NoFrame => slot'[d].seq <= seq'
    BY <2>1, <1>a DEF Still
  <2> QED
    BY <2>1, <2>2, <2>3, <2>4, <2>5, Zenon DEF Still
<1>2. CASE Change
  BY <1>2 DEF Change
<1>3. CASE WorkerBegins
  BY <1>3 DEF WorkerBegins, Goto, unchangedByReads
<1>4. CASE PassEnds
  BY <1>4 DEF PassEnds, Goto, unchangedByReads
<1>5. CASE Stop
  BY <1>5 DEF Stop, unchangedByConnections
<1>6. CASE CloseConns
  BY <1>6 DEF CloseConns, unchangedByConnections
<1>7. CASE Stopped
  BY <1>7 DEF Stopped, unchangedByConnections
<1>8. ASSUME NEW p \in Publishers, InvalidateBegins(p) PROVE Numbered(d)'
  BY <1>8 DEF InvalidateBegins, Goto, unchangedByReads
<1>9. ASSUME NEW p \in Publishers, PublisherLoads(p) PROVE Numbered(d)'
  BY <1>9 DEF PublisherLoads, Load, Goto, Rest, unchangedByReads
<1>10. ASSUME NEW p \in Publishers, PublisherStores(p) PROVE Numbered(d)'
  BY <1>10 DEF PublisherStores, Store, Goto, unchangedByReads
<1>11. ASSUME NEW p \in Publishers, PublisherBuilds(p) PROVE Numbered(d)'
  BY <1>11 DEF PublisherBuilds, Build, Misses, readerVars, Goto, Rest, unchangedByReads
<1>12. ASSUME NEW p \in Publishers, Publish(p) PROVE Numbered(d)'
  <2>1. /\ got'[d] = got[d] /\ buffer'[d] = buffer[d] /\ held'[d] = held[d]
        /\ seq' = seq + 1
    BY <1>12 DEF Publish
  <2>2. slot'[d] = slot[d] \/ slot'[d].seq = seq + 1
    BY <1>12 DEF Publish, Fan
  <2>3. pending'[d] = pending[d] \/ pending'[d].seq = seq + 1
    BY <1>12 DEF Publish, Fan
  <2>4. pending'[d] # NoFrame => pending'[d].seq > 0
    BY <2>3, <1>a
  <2>5. CASE slot'[d] = slot[d]
    <3> HIDE DEF Place, Before
    <3>1. got'[d].seq <= seq' /\ Below(buffer'[d], seq' + 1)
      BY <2>1, <1>a, <1>b
    <3>2. held'[d] # NoFrame =>
            /\ held'[d].seq <= seq' /\ got'[d].seq < held'[d].seq
            /\ Below(buffer'[d], held'[d].seq)
      BY <2>1, <1>a
    <3>3. slot'[d] # NoFrame =>
            /\ slot'[d].seq <= seq' /\ got'[d].seq < slot'[d].seq
            /\ held'[d].seq < slot'[d].seq /\ Below(buffer'[d], slot'[d].seq)
      BY <2>1, <2>5, <1>a
    <3> QED
      BY <2>1, <2>4, <3>1, <3>2, <3>3
  <2>6. CASE slot'[d].seq = seq + 1
    <3>1. got'[d].seq < slot'[d].seq /\ held'[d].seq < slot'[d].seq
      BY <2>1, <2>6, <1>a
    <3> QED
      BY <2>1, <2>4, <2>6, <3>1, <1>a, <1>b
  <2> QED
    BY <2>2, <2>5, <2>6
<1>13. CASE SubscriberLoads(d)
  BY <1>13 DEF SubscriberLoads, HGoto, Load, unchangedInHandler
<1>14. CASE SubscriberStores(d)
  BY <1>14 DEF SubscriberStores, HGoto, Store, unchangedInHandler
<1>15. CASE SubscriberBuilds(d)
  BY <1>15 DEF SubscriberBuilds, HGoto, Build, Misses, readerVars, unchangedInHandler
<1>16. CASE Stamp(d)
  <2>1. /\ got'[d] = NoFrame /\ buffer'[d] = <<>> /\ slot'[d] = NoFrame
        /\ pending'[d] = pending[d] /\ seq' = seq + 1
    BY <1>16 DEF Stamp, HGoto, unchangedInHandler
  <2>2. held'[d].seq = seq + 1
    BY <1>16 DEF Stamp, Types, FrameTypes
  <2> QED
    BY <2>1, <2>2, <1>a, SeqOfEmpty
<1>17. CASE Write(d)
  <2>1. /\ got'[d] = got[d] /\ slot'[d] = slot[d] /\ pending'[d] = pending[d] /\ seq' = seq
        /\ held'[d] = NoFrame /\ held[d] # NoFrame
    BY <1>17 DEF Write, unchangedInHandler, Types, FrameTypes
  <2>2. CASE buffer'[d] = buffer[d]
    BY <2>1, <2>2, <1>a
  <2>3. CASE buffer'[d] = Append(buffer[d], held[d])
    <3>1. Rising(buffer'[d]) /\ Above(buffer'[d], got[d].seq)
      BY <2>1, <2>3, <1>a, OneMore
    <3>2. Below(buffer'[d], seq + 1)
      BY <2>1, <2>3, <1>a, <1>b, OneMore
    <3>3. slot[d] # NoFrame => Below(buffer'[d], slot[d].seq)
      BY <2>1, <2>3, <1>a, OneMore
    <3>4. slot[d] # NoFrame => held'[d].seq < slot[d].seq
      BY <2>1, <1>a
    <3> QED
      BY <2>1, <3>1, <3>2, <3>3, <3>4, <1>a
  <2> QED
    BY <1>17, <2>2, <2>3 DEF Write, Types, FrameTypes
<1>18. CASE LockHandOff(d)
  BY <1>18 DEF LockHandOff, HGoto, unchangedInHandler
<1>19. CASE HandOff(d)
  <2>1. /\ got'[d] = got[d] /\ buffer'[d] = buffer[d] /\ held'[d] = NoFrame
        /\ held[d] = NoFrame /\ slot[d] = NoFrame /\ pending'[d] = NoFrame
    BY <1>19 DEF HandOff, HGoto, unchangedInHandler, Types, FrameTypes
  <2>2. CASE pending[d] = NoFrame
    BY <1>19, <2>1, <2>2, <1>a DEF HandOff
  <2>3. CASE pending[d] # NoFrame
    <3>1. seq' = seq + 1 /\ slot'[d].seq = seq + 1
      BY <1>19, <2>3, <1>a DEF HandOff, Types, FrameTypes
    <3>2. got[d].seq < seq + 1 /\ 0 < seq + 1
      BY <1>a
    <3> QED
      BY <2>1, <3>1, <3>2, <1>a, <1>b
  <2> QED
    BY <2>2, <2>3
<1>20. CASE Take(d)
  <2>1. /\ got'[d] = got[d] /\ buffer'[d] = buffer[d] /\ held'[d] = slot[d]
        /\ slot'[d] = NoFrame /\ pending'[d] = pending[d] /\ seq' = seq
    BY <1>20 DEF Take, HGoto, unchangedInHandler, Types, FrameTypes
  <2> QED
    BY <2>1, <1>a
<1>21. CASE Done(d)
  BY <1>21 DEF Done, HGoto, unchangedInHandler
<1>22. CASE Leave(d)
  BY <1>22 DEF Leave, HGoto, unchangedInHandler
<1>23. CASE Connect(d)
  BY <1>23 DEF Connect, Register, Racing
<1>24. CASE Stall(d)
  BY <1>24 DEF Stall, unchangedByConnections
<1>25. CASE Close(d)
  <2>1. /\ buffer'[d] = <<>> /\ got'[d] = NoFrame /\ conn'[d] # "open"
        /\ pending'[d] = pending[d] /\ slot'[d] = slot[d] /\ held'[d] = held[d] /\ seq' = seq
    BY <1>25 DEF Close, Types, StageTypes, FrameTypes, EndsStream, unchangedByConnections
  <2>2. Rising(buffer'[d]) /\ \A m : Above(buffer'[d], m) /\ Below(buffer'[d], m)
    BY <2>1, SeqOfEmpty, Zenon
  <2>3. got'[d].seq = 0 /\ got'[d].seq <= seq'
    BY <2>1, <1>a
  <2>4. held'[d] # NoFrame => held'[d].seq <= seq' /\ got'[d].seq < held'[d].seq
    BY <2>1, <2>3, <1>a
  <2>5. slot'[d] # NoFrame =>
          slot'[d].seq <= seq' /\ got'[d].seq < slot'[d].seq /\ held'[d].seq < slot'[d].seq
    BY <2>1, <2>3, <1>a
  <2> QED
    BY <2>1, <2>2, <2>3, <2>4, <2>5, Zenon
<1>26. CASE Read(d)
  <2>1. CASE EndsStream(d)
    <3>1. /\ buffer'[d] = <<>> /\ got'[d] = NoFrame /\ conn'[d] # "open"
          /\ pending'[d] = pending[d] /\ slot'[d] = slot[d] /\ held'[d] = held[d] /\ seq' = seq
      BY <1>26, <2>1 DEF Read, Types, StageTypes, FrameTypes, EndsStream, unchangedByWaiter
    <3>2. Rising(buffer'[d]) /\ \A m : Above(buffer'[d], m) /\ Below(buffer'[d], m)
      BY <3>1, SeqOfEmpty, Zenon
    <3>3. got'[d].seq = 0 /\ got'[d].seq <= seq'
      BY <3>1, <1>a
    <3>4. held'[d] # NoFrame => held'[d].seq <= seq' /\ got'[d].seq < held'[d].seq
      BY <3>1, <3>3, <1>a
    <3>5. slot'[d] # NoFrame =>
            slot'[d].seq <= seq' /\ got'[d].seq < slot'[d].seq /\ held'[d].seq < slot'[d].seq
      BY <3>1, <3>3, <1>a
    <3> QED
      BY <3>1, <3>2, <3>3, <3>4, <3>5, Zenon
  <2>2. CASE /\ got' = [got EXCEPT ![d] = Head(buffer[d])]
             /\ buffer' = [buffer EXCEPT ![d] = Tail(@)]
    <3>1. /\ got'[d] = Head(buffer[d]) /\ buffer'[d] = Tail(buffer[d]) /\ buffer[d] # <<>>
          /\ slot'[d] = slot[d] /\ held'[d] = held[d] /\ pending'[d] = pending[d] /\ seq' = seq
      BY <1>26, <2>2 DEF Read, unchangedByWaiter, Types, FrameTypes
    <3>2. /\ Rising(buffer'[d]) /\ Above(buffer'[d], got'[d].seq)
          /\ \A n : Below(buffer[d], n) => Below(buffer'[d], n) /\ got'[d].seq < n
      BY <3>1, <1>a, OneLess
    <3>3. got'[d].seq <= seq
      <4>1. got'[d].seq < seq + 1 /\ got'[d].seq \in Nat
        BY <3>1, <3>2, <1>a, OneLess
      <4> QED
        BY <4>1, <1>a
    <3> QED
      BY <3>1, <3>2, <3>3, <1>a
  <2> QED
    BY <1>26, <2>1, <2>2 DEF Read
<1>27. CASE StreamEnds(d)
  <2>1. /\ buffer'[d] = <<>> /\ got'[d] = NoFrame /\ conn'[d] # "open"
        /\ pending'[d] = pending[d] /\ slot'[d] = slot[d] /\ held'[d] = held[d] /\ seq' = seq
    BY <1>27 DEF StreamEnds, Types, StageTypes, FrameTypes, EndsStream, unchangedByWaiter
  <2>2. Rising(buffer'[d]) /\ \A m : Above(buffer'[d], m) /\ Below(buffer'[d], m)
    BY <2>1, SeqOfEmpty, Zenon
  <2>3. got'[d].seq = 0 /\ got'[d].seq <= seq'
    BY <2>1, <1>a
  <2>4. held'[d] # NoFrame => held'[d].seq <= seq' /\ got'[d].seq < held'[d].seq
    BY <2>1, <2>3, <1>a
  <2>5. slot'[d] # NoFrame =>
          slot'[d].seq <= seq' /\ got'[d].seq < slot'[d].seq /\ held'[d].seq < slot'[d].seq
    BY <2>1, <2>3, <1>a
  <2> QED
    BY <2>1, <2>2, <2>3, <2>4, <2>5, Zenon
<1>28. CASE Refused(d)
  BY <1>28 DEF Refused, unchangedByWaiter
<1>29. CASE Poll(d)
  BY <1>29 DEF Poll, unchangedByWaiter
<1>30. CASE ClientStep(d)
  BY <1>30, <1>1, <1>2, <1>3, <1>4, <1>5, <1>6, <1>7, <1>8, <1>9, <1>10, <1>11, <1>12,
     <1>13, <1>14, <1>15, <1>16, <1>17, <1>18, <1>19, <1>20, <1>21, <1>22, <1>23, <1>24,
     <1>25, <1>26, <1>27, <1>28, <1>29
  DEF ClientStep, Handler, Waiter
<1> QED
  BY <1>1, <1>2, <1>3, <1>4, <1>5, <1>6, <1>7, <1>8, <1>9, <1>10, <1>11, <1>12, <1>13,
     <1>14, <1>15, <1>16, <1>17, <1>18, <1>19, <1>20, <1>21, <1>22, <1>23, <1>24, <1>25,
     <1>26, <1>27, <1>28, <1>29, <1>30
  DEF Next, PublisherStep, ClientStep, Serve

\* Every step keeps the last publication on its way.
LEMMA LastStep ==
  ASSUME Types, Next, NEW d \in Clients, Place(d), Numbered(d), HasLast(d)
  PROVE  HasLast(d)'
<1> USE BoundsAssumption, ProcessAssumption DEF Place, HasLast, Last, Before,
    readerVars, frameVars, clientVars, seqVars, Publishers, Procs
<1>a. /\ seq \in Nat /\ published \in Nat
      /\ pending[d].seq \in Nat /\ slot[d].seq \in Nat /\ held[d].seq \in Nat
      /\ got[d].seq \in Nat /\ held[d] \in Frames /\ slot[d] \in Frames
      /\ buffer[d] \in Seq(Frames)
  BY ClientFacts
<1>1. ASSUME NEW c \in Clients, c # d, ClientStep(c) PROVE HasLast(d)'
  <2>1. Still(d) /\ published' = published
    BY <1>1, ElsewhereStill
  <2> QED
    BY <2>1 DEF Still
<1>2. CASE Change
  BY <1>2 DEF Change
<1>3. CASE WorkerBegins
  BY <1>3 DEF WorkerBegins, Goto, unchangedByReads
<1>4. CASE PassEnds
  BY <1>4 DEF PassEnds, Goto, unchangedByReads
<1>5. CASE Stop
  BY <1>5 DEF Stop, unchangedByConnections
<1>6. CASE CloseConns
  BY <1>6 DEF CloseConns, unchangedByConnections
<1>7. CASE Stopped
  BY <1>7 DEF Stopped, unchangedByConnections
<1>8. ASSUME NEW p \in Publishers, InvalidateBegins(p) PROVE HasLast(d)'
  BY <1>8 DEF InvalidateBegins, Goto, unchangedByReads
<1>9. ASSUME NEW p \in Publishers, PublisherLoads(p) PROVE HasLast(d)'
  BY <1>9 DEF PublisherLoads, Load, Goto, Rest, unchangedByReads
<1>10. ASSUME NEW p \in Publishers, PublisherStores(p) PROVE HasLast(d)'
  BY <1>10 DEF PublisherStores, Store, Goto, unchangedByReads
<1>11. ASSUME NEW p \in Publishers, PublisherBuilds(p) PROVE HasLast(d)'
  BY <1>11 DEF PublisherBuilds, Build, Misses, readerVars, Goto, Rest, unchangedByReads
<1>12. ASSUME NEW p \in Publishers, Publish(p) PROVE HasLast(d)'
  <2>1. CASE ready[d] = "waiting"
    <3>1. pending'[d].seq = seq + 1 /\ pending'[d].n = published'
      BY <1>12, <2>1 DEF Publish, Fan
    <3> QED
      BY <3>1, <1>a
  <2>2. CASE ready[d] = "ready"
    <3>1. /\ pending'[d] = NoFrame /\ slot'[d].seq = seq + 1 /\ slot'[d].n = published'
      BY <1>12, <2>2 DEF Publish, Fan
    <3> QED
      BY <3>1, <1>a
  <2>3. ready'[d] = ready[d]
    BY <1>12 DEF Publish
  <2> QED
    BY <2>1, <2>2, <2>3 DEF Types, PlaceTypes
<1>13. CASE SubscriberLoads(d)
  BY <1>13 DEF SubscriberLoads, HGoto, Load, unchangedInHandler
<1>14. CASE SubscriberStores(d)
  BY <1>14 DEF SubscriberStores, HGoto, Store, unchangedInHandler
<1>15. CASE SubscriberBuilds(d)
  BY <1>15 DEF SubscriberBuilds, HGoto, Build, Misses, readerVars, unchangedInHandler
<1>16. CASE Stamp(d)
  BY <1>16 DEF Stamp, HGoto, unchangedInHandler
<1>17. CASE Write(d)
  <2>1. /\ got'[d] = got[d] /\ slot'[d] = slot[d] /\ pending'[d] = pending[d]
        /\ ready'[d] = ready[d] /\ conn'[d] = conn[d] /\ published' = published
        /\ held'[d] = NoFrame /\ held[d] # NoFrame
    BY <1>17 DEF Write, unchangedInHandler, Types, FrameTypes
  <2>2. CASE conn[d] = "closed"
    BY <2>1, <2>2
  <2>3. CASE buffer'[d] = Append(buffer[d], held[d])
    <3>1. buffer'[d] # <<>> /\ buffer'[d][Len(buffer'[d])] = held[d]
      <4>1. buffer[d] \in Seq(Frames) /\ held[d] \in Frames
        BY <1>a
      <4>2. /\ Append(buffer[d], held[d]) # <<>>
            /\ Append(buffer[d], held[d])[Len(Append(buffer[d], held[d]))] = held[d]
        <5> HIDE DEF Frames, NoFrame, Place, Numbered, Last, HasLast
        <5> QED
          BY <4>1, OneMore, Zenon
      <4> QED
        BY <2>3, <4>2, Zenon
    <3>2. Last(d) = IF pending[d] # NoFrame THEN pending[d].n
                    ELSE IF slot[d] # NoFrame THEN slot[d].n ELSE held[d].n
      BY <2>1, Zenon
    <3>3. Last(d)' = IF pending[d] # NoFrame THEN pending[d].n
                     ELSE IF slot[d] # NoFrame THEN slot[d].n ELSE held[d].n
      <4>1. CASE pending[d] # NoFrame
        BY <2>1, <4>1, Zenon
      <4>2. CASE pending[d] = NoFrame /\ slot[d] # NoFrame
        BY <2>1, <4>2, Zenon
      <4>3. CASE pending[d] = NoFrame /\ slot[d] = NoFrame
        BY <2>1, <3>1, <4>3, Zenon
      <4> QED
        BY <4>1, <4>2, <4>3, Zenon
    <3>4. Last(d)' = Last(d)
      BY <3>2, <3>3, Zenon
    <3> HIDE DEF Last, Place
    <3> QED
      BY <2>1, <3>4
  <2> QED
    BY <1>17, <2>2, <2>3 DEF Write, Types, FrameTypes
<1>18. CASE LockHandOff(d)
  BY <1>18 DEF LockHandOff, HGoto, unchangedInHandler
<1>19. CASE HandOff(d)
  <2>1. /\ got'[d] = got[d] /\ buffer'[d] = buffer[d] /\ held'[d] = held[d]
        /\ seen'[d] = seen[d] /\ slot[d] = NoFrame /\ pending'[d] = NoFrame
        /\ ready[d] # "out" /\ conn'[d] = conn[d] /\ published' = published
    BY <1>19 DEF HandOff, HGoto, unchangedInHandler, Types, FrameTypes
  <2>2. CASE pending[d] = NoFrame
    <3>1. slot'[d] = NoFrame
      BY <1>19, <2>1, <2>2 DEF HandOff
    <3> QED
      BY <2>1, <2>2, <3>1
  <2>3. CASE pending[d] # NoFrame
    <3>1. /\ pending[d] \in Frames
          /\ slot'[d] = [pending[d] EXCEPT !.seq = seq + 1]
      BY <1>19, <2>3 DEF HandOff, Types, FrameTypes
    <3>2. slot'[d].seq = seq + 1 /\ slot'[d].n = pending[d].n
      BY <3>1
    <3>3. slot'[d] # NoFrame
      BY <3>2, <1>a
    <3> QED
      BY <2>1, <2>3, <3>2, <3>3
  <2> QED
    BY <2>2, <2>3
<1>20. CASE Take(d)
  <2>1. /\ got'[d] = got[d] /\ buffer'[d] = buffer[d] /\ held'[d] = slot[d]
        /\ slot'[d] = NoFrame /\ pending'[d] = pending[d] /\ slot[d] # NoFrame
        /\ ready'[d] = ready[d] /\ conn'[d] = conn[d] /\ published' = published
        /\ pending[d] = NoFrame
    BY <1>20 DEF Take, HGoto, unchangedInHandler, Types, FrameTypes
  <2> QED
    BY <2>1, <1>a
<1>21. CASE Done(d)
  BY <1>21 DEF Done, HGoto, unchangedInHandler
<1>22. CASE Leave(d)
  BY <1>22 DEF Leave, Types, PlaceTypes
<1>23. CASE Connect(d)
  <2>1. /\ pending'[d] = NoFrame /\ slot'[d] = NoFrame /\ held'[d] = NoFrame
        /\ buffer'[d] = <<>> /\ got'[d] = NoFrame /\ published' = published
    BY <1>23 DEF Connect, Types, PlaceTypes
  <2>2. seen'[d].n = published
    BY <1>23 DEF Connect, Register, Types, FrameTypes
  <2> QED
    BY <2>1, <2>2
<1>24. CASE Stall(d)
  BY <1>24 DEF Stall, unchangedByConnections
<1>25. CASE Close(d)
  <2>1. /\ buffer'[d] = <<>> /\ got'[d] = NoFrame /\ conn'[d] # "open"
        /\ pending'[d] = pending[d] /\ slot'[d] = slot[d] /\ held'[d] = held[d] /\ seq' = seq
    BY <1>25 DEF Close, Types, StageTypes, FrameTypes, EndsStream, unchangedByConnections
  <2> QED
    BY <2>1
<1>26. CASE Read(d)
  <2>1. CASE EndsStream(d)
    <3>1. /\ buffer'[d] = <<>> /\ got'[d] = NoFrame /\ conn'[d] # "open"
          /\ pending'[d] = pending[d] /\ slot'[d] = slot[d] /\ held'[d] = held[d] /\ seq' = seq
      BY <1>26, <2>1 DEF Read, Types, StageTypes, FrameTypes, EndsStream, unchangedByWaiter
    <3> QED
      BY <3>1
  <2>2. CASE /\ got' = [got EXCEPT ![d] = Head(buffer[d])]
             /\ buffer' = [buffer EXCEPT ![d] = Tail(@)] /\ UNCHANGED conn
    <3>1. /\ got'[d] = Head(buffer[d]) /\ buffer'[d] = Tail(buffer[d]) /\ buffer[d] # <<>>
          /\ slot'[d] = slot[d] /\ held'[d] = held[d] /\ pending'[d] = pending[d]
          /\ ready'[d] = ready[d] /\ conn'[d] = conn[d] /\ published' = published
      BY <1>26, <2>2 DEF Read, unchangedByWaiter, Types, FrameTypes
    <3>2. /\ buffer'[d] = <<>> => got'[d] = buffer[d][Len(buffer[d])]
          /\ buffer'[d] # <<>> => buffer'[d][Len(buffer'[d])] = buffer[d][Len(buffer[d])]
          /\ got'[d] # NoFrame
      <4>1. got[d].seq < got'[d].seq /\ got'[d] \in Frames
        BY <3>1, <1>a, OneLess DEF Numbered
      <4>2. got'[d] # NoFrame
        BY <4>1, <1>a
      <4> QED
        BY <3>1, <4>2, <1>a, OneLess
    <3> QED
      BY <3>1, <3>2
  <2> QED
    BY <1>26, <2>1, <2>2 DEF Read
<1>27. CASE StreamEnds(d)
  <2>1. /\ buffer'[d] = <<>> /\ got'[d] = NoFrame /\ conn'[d] # "open"
        /\ pending'[d] = pending[d] /\ slot'[d] = slot[d] /\ held'[d] = held[d] /\ seq' = seq
    BY <1>27 DEF StreamEnds, Types, StageTypes, FrameTypes, EndsStream, unchangedByWaiter
  <2> QED
    BY <2>1
<1>28. CASE Refused(d)
  BY <1>28 DEF Refused, unchangedByWaiter
<1>29. CASE Poll(d)
  BY <1>29 DEF Poll, unchangedByWaiter
<1>30. CASE ClientStep(d)
  BY <1>30, <1>1, <1>2, <1>3, <1>4, <1>5, <1>6, <1>7, <1>8, <1>9, <1>10, <1>11, <1>12,
     <1>13, <1>14, <1>15, <1>16, <1>17, <1>18, <1>19, <1>20, <1>21, <1>22, <1>23, <1>24,
     <1>25, <1>26, <1>27, <1>28, <1>29
  DEF ClientStep, Handler, Waiter
<1> QED
  BY <1>1, <1>2, <1>3, <1>4, <1>5, <1>6, <1>7, <1>8, <1>9, <1>10, <1>11, <1>12, <1>13,
     <1>14, <1>15, <1>16, <1>17, <1>18, <1>19, <1>20, <1>21, <1>22, <1>23, <1>24, <1>25,
     <1>26, <1>27, <1>28, <1>29, <1>30
  DEF Next, PublisherStep, ClientStep, Serve

\* What a step does to the states that are read and stored.
Moves ==
  /\ version <= version'
  /\ \A p \in Procs : Storing(p)' /\ has'[p] # None =>
        has'[p] = version \/ (Storing(p) /\ has'[p] = has[p])
  /\ \/ cache' = cache \/ cache' = version
     \/ \E p \in Procs : Storing(p) /\ has[p] # None /\ cache' = has[p]

\* What any step does to them.
LEMMA EveryMove ==
  ASSUME Types, Next
  PROVE  Moves
<1> USE BoundsAssumption, ProcessAssumption
    DEF Types, ReaderTypes, StageTypes, PlaceTypes, Moves, Storing,
    readerVars, frameVars, clientVars, seqVars, Publishers, Procs
<1>1. CASE Change
  BY <1>1 DEF Change
<1>2. CASE WorkerBegins
  BY <1>2 DEF WorkerBegins, Goto, unchangedByReads
<1>3. CASE PassEnds
  BY <1>3 DEF PassEnds, Goto, unchangedByReads
<1>4. CASE Stop
  BY <1>4 DEF Stop, unchangedByConnections
<1>5. CASE CloseConns
  BY <1>5 DEF CloseConns, unchangedByConnections
<1>6. CASE Stopped
  BY <1>6 DEF Stopped, unchangedByConnections
<1>7. ASSUME NEW p \in Publishers, InvalidateBegins(p) PROVE Moves
  BY <1>7 DEF InvalidateBegins, Goto, unchangedByReads
<1>8. ASSUME NEW p \in Publishers, PublisherLoads(p) PROVE Moves
  BY <1>8 DEF PublisherLoads, Load, Goto, Rest, unchangedByReads
<1>9. ASSUME NEW p \in Publishers, PublisherStores(p) PROVE Moves
  BY <1>9 DEF PublisherStores, Store, Goto, unchangedByReads
<1>10. ASSUME NEW p \in Publishers, PublisherBuilds(p) PROVE Moves
  BY <1>10 DEF PublisherBuilds, Build, Misses, readerVars, Goto, Rest, unchangedByReads
<1>11. ASSUME NEW p \in Publishers, Publish(p) PROVE Moves
  BY <1>11 DEF Publish, Goto, Rest, Fan
<1>12. ASSUME NEW c \in Clients, SubscriberLoads(c) PROVE Moves
  BY <1>12 DEF SubscriberLoads, HGoto, Load, unchangedInHandler
<1>13. ASSUME NEW c \in Clients, SubscriberStores(c) PROVE Moves
  BY <1>13 DEF SubscriberStores, HGoto, Store, unchangedInHandler
<1>14. ASSUME NEW c \in Clients, SubscriberBuilds(c) PROVE Moves
  BY <1>14 DEF SubscriberBuilds, HGoto, Build, Misses, readerVars, unchangedInHandler
<1>15. ASSUME NEW c \in Clients, Stamp(c) PROVE Moves
  BY <1>15 DEF Stamp, HGoto, unchangedInHandler
<1>16. ASSUME NEW c \in Clients, Write(c) PROVE Moves
  BY <1>16 DEF Write, unchangedInHandler
<1>17. ASSUME NEW c \in Clients, LockHandOff(c) PROVE Moves
  BY <1>17 DEF LockHandOff, HGoto, unchangedInHandler
<1>18. ASSUME NEW c \in Clients, HandOff(c) PROVE Moves
  BY <1>18 DEF HandOff, HGoto, unchangedInHandler
<1>19. ASSUME NEW c \in Clients, Take(c) PROVE Moves
  BY <1>19 DEF Take, HGoto, unchangedInHandler
<1>20. ASSUME NEW c \in Clients, Done(c) PROVE Moves
  BY <1>20 DEF Done, HGoto, unchangedInHandler
<1>21. ASSUME NEW c \in Clients, Leave(c) PROVE Moves
  BY <1>21 DEF Leave, HGoto, unchangedInHandler
<1>22. ASSUME NEW c \in Clients, Connect(c) PROVE Moves
  BY <1>22 DEF Connect, Register, Racing
<1>23. ASSUME NEW c \in Clients, Stall(c) PROVE Moves
  BY <1>23 DEF Stall, unchangedByConnections
<1>24. ASSUME NEW c \in Clients, Close(c) PROVE Moves
  BY <1>24 DEF Close, EndsStream, unchangedByConnections
<1>25. ASSUME NEW c \in Clients, Read(c) PROVE Moves
  BY <1>25 DEF Read, EndsStream, Final, unchangedByWaiter
<1>26. ASSUME NEW c \in Clients, StreamEnds(c) PROVE Moves
  BY <1>26 DEF StreamEnds, EndsStream, unchangedByWaiter
<1>27. ASSUME NEW c \in Clients, Refused(c) PROVE Moves
  BY <1>27 DEF Refused, unchangedByWaiter
<1>28. ASSUME NEW c \in Clients, Poll(c) PROVE Moves
  BY <1>28 DEF Poll, unchangedByWaiter
<1> QED
  BY <1>1, <1>2, <1>3, <1>4, <1>5, <1>6, <1>7, <1>8, <1>9, <1>10, <1>11, <1>12, <1>13,
     <1>14, <1>15, <1>16, <1>17, <1>18, <1>19, <1>20, <1>21, <1>22, <1>23, <1>24, <1>25,
     <1>26, <1>27, <1>28
  DEF Next, PublisherStep, Handler, Waiter, Serve

\* Once nothing older is on its way, the cache gets no older.
LEMMA FreshStep ==
  ASSUME Types, ReaderTypes', Moves, NEW d \in Clients, Fresh(d),
         seen'[d].ver = seen[d].ver
  PROVE  Fresh(d)' /\ (seen[d].ver <= cache => seen[d].ver <= cache')
<1>1. seen[d].ver \in Nat /\ version \in Nat /\ version' \in Nat
  <2>1. seen[d].ver \in Nat
    BY DEF Types, FrameTypes
  <2>2. version \in Nat /\ version' \in Nat
    BY BoundsAssumption DEF Types, ReaderTypes
  <2> QED
    BY <2>1, <2>2
<1>2. seen'[d].ver <= version'
  BY <1>1 DEF Moves, Fresh
<1>3. ASSUME NEW p \in Procs, Storing(p)', has'[p] # None
      PROVE  seen'[d].ver <= has'[p]
  BY <1>1, <1>3 DEF Moves, Fresh
<1>4. seen[d].ver <= cache => seen[d].ver <= cache'
  BY <1>1 DEF Moves, Fresh
<1> QED
  BY <1>2, <1>3, <1>4 DEF Fresh

\* Every step keeps a subscription's state from getting older.
LEMMA SourceStep ==
  ASSUME Types, Next, NEW d \in Clients, Source(d)
  PROVE  Source(d)'
<1> USE BoundsAssumption, ProcessAssumption
    DEF readerVars, frameVars, clientVars, seqVars, Publishers, Procs
<1>a. Moves /\ ReaderTypes'
  BY EveryMove, ReaderStep
<1>b. ASSUME Fresh(d), seen'[d].ver = seen[d].ver
      PROVE  Fresh(d)' /\ (seen[d].ver <= cache => seen[d].ver <= cache')
  BY <1>a, <1>b, FreshStep
<1>c. ASSUME hpc'[d] = hpc[d], seen'[d] = seen[d], has'[d] = has[d], held'[d] = held[d]
      PROVE  Source(d)'
  BY <1>b, <1>c DEF Source
<1>1. ASSUME NEW c \in Clients, c # d, ClientStep(c) PROVE Source(d)'
  <2>1. Still(d)
    BY <1>1, ElsewhereStill
  <2> QED
    BY <2>1, <1>c DEF Still
<1>2. CASE Change
  <2>1. hpc'[d] = hpc[d] /\ seen'[d] = seen[d] /\ has'[d] = has[d] /\ held'[d] = held[d]
    BY <1>2 DEF Change, Types, ReaderTypes, StageTypes, PlaceTypes, FrameTypes
  <2> QED
    BY <2>1, <1>c
<1>3. CASE WorkerBegins
  <2>1. hpc'[d] = hpc[d] /\ seen'[d] = seen[d] /\ has'[d] = has[d] /\ held'[d] = held[d]
    BY <1>3 DEF WorkerBegins, Goto, unchangedByReads, Types, ReaderTypes, StageTypes,
     PlaceTypes, FrameTypes
  <2> QED
    BY <2>1, <1>c
<1>4. CASE PassEnds
  <2>1. hpc'[d] = hpc[d] /\ seen'[d] = seen[d] /\ has'[d] = has[d] /\ held'[d] = held[d]
    BY <1>4 DEF PassEnds, Goto, unchangedByReads, Types, ReaderTypes, StageTypes,
     PlaceTypes, FrameTypes
  <2> QED
    BY <2>1, <1>c
<1>5. CASE Stop
  <2>1. hpc'[d] = hpc[d] /\ seen'[d] = seen[d] /\ has'[d] = has[d] /\ held'[d] = held[d]
    BY <1>5 DEF Stop, unchangedByConnections, Types, ReaderTypes, StageTypes, PlaceTypes,
     FrameTypes
  <2> QED
    BY <2>1, <1>c
<1>6. CASE CloseConns
  <2>1. hpc'[d] = hpc[d] /\ seen'[d] = seen[d] /\ has'[d] = has[d] /\ held'[d] = held[d]
    BY <1>6 DEF CloseConns, unchangedByConnections, Types, ReaderTypes, StageTypes,
     PlaceTypes, FrameTypes
  <2> QED
    BY <2>1, <1>c
<1>7. CASE Stopped
  <2>1. hpc'[d] = hpc[d] /\ seen'[d] = seen[d] /\ has'[d] = has[d] /\ held'[d] = held[d]
    BY <1>7 DEF Stopped, unchangedByConnections, Types, ReaderTypes, StageTypes,
     PlaceTypes, FrameTypes
  <2> QED
    BY <2>1, <1>c
<1>8. ASSUME NEW p \in Publishers, InvalidateBegins(p) PROVE Source(d)'
  <2>1. hpc'[d] = hpc[d] /\ seen'[d] = seen[d] /\ has'[d] = has[d] /\ held'[d] = held[d]
    BY <1>8 DEF InvalidateBegins, Goto, unchangedByReads, Types, ReaderTypes, StageTypes,
     PlaceTypes, FrameTypes
  <2> QED
    BY <2>1, <1>c
<1>9. ASSUME NEW p \in Publishers, PublisherLoads(p) PROVE Source(d)'
  <2>1. hpc' = hpc /\ seen' = seen /\ held' = held
    BY <1>9 DEF PublisherLoads, unchangedByReads
  <2>2. has'[d] = has[d]
    <3>1. p # d /\ p \in Procs /\ d \in Procs /\ has \in [Procs -> 0..version]
      BY DEF Types, ReaderTypes
    <3>2. has' = has \/ \E v : has' = [has EXCEPT ![p] = v]
      BY <1>9, Zenon DEF PublisherLoads, Load
    <3> QED
      BY <3>1, <3>2
  <2> QED
    BY <2>1, <2>2, <1>c
<1>10. ASSUME NEW p \in Publishers, PublisherStores(p) PROVE Source(d)'
  <2>1. hpc' = hpc /\ seen' = seen /\ held' = held
    BY <1>10 DEF PublisherStores, unchangedByReads
  <2>2. has'[d] = has[d]
    <3>1. p # d /\ p \in Procs /\ d \in Procs /\ has \in [Procs -> 0..version]
      BY DEF Types, ReaderTypes
    <3>2. has' = has \/ \E v : has' = [has EXCEPT ![p] = v]
      BY <1>10, Zenon DEF PublisherStores, Store
    <3> QED
      BY <3>1, <3>2
  <2> QED
    BY <2>1, <2>2, <1>c
<1>11. ASSUME NEW p \in Publishers, PublisherBuilds(p) PROVE Source(d)'
  <2>1. hpc' = hpc /\ seen' = seen /\ held' = held
    BY <1>11 DEF PublisherBuilds, unchangedByReads
  <2>2. has'[d] = has[d]
    <3>1. p # d /\ p \in Procs /\ d \in Procs /\ has \in [Procs -> 0..version]
      BY DEF Types, ReaderTypes
    <3>2. has' = has \/ \E v : has' = [has EXCEPT ![p] = v]
      BY <1>11, Zenon DEF PublisherBuilds, Build, Misses, readerVars
    <3> QED
      BY <3>1, <3>2
  <2> QED
    BY <2>1, <2>2, <1>c
<1>12. ASSUME NEW p \in Publishers, Publish(p) PROVE Source(d)'
  <2>1. hpc' = hpc /\ seen' = seen /\ held' = held
    BY <1>12 DEF Publish
  <2>2. has'[d] = has[d]
    <3>1. p # d /\ p \in Procs /\ d \in Procs /\ has \in [Procs -> 0..version]
      BY DEF Types, ReaderTypes
    <3>2. has' = has \/ \E v : has' = [has EXCEPT ![p] = v]
      BY <1>12, Zenon DEF Publish
    <3> QED
      BY <3>1, <3>2
  <2> QED
    BY <2>1, <2>2, <1>c
<1>13. CASE SubscriberLoads(d)
  <2>1. /\ \/ hpc'[d] = "store" /\ hpc[d] = "load"
           \/ hpc[d] = "miss"
        /\ seen' = [seen EXCEPT ![d].race = @ \/ has'[d] = None]
    BY <1>13 DEF SubscriberLoads, HGoto, PlaceTypes, Types
  <2>2. seen'[d].ver = seen[d].ver /\ seen'[d].race = (seen[d].race \/ has'[d] = None)
    BY <2>1 DEF FrameTypes, Types
  <2>3. CASE hpc[d] = "miss"
    BY <2>2, <2>3 DEF Source, Before
  <2>4. CASE hpc'[d] = "store" /\ hpc[d] = "load"
    BY <2>2, <2>4, <1>b DEF Source, Before
  <2> QED
    BY <2>1, <2>3, <2>4
<1>14. CASE SubscriberStores(d)
  <2>1. /\ hpc'[d] = "build" /\ hpc[d] = "store" /\ seen'[d] = seen[d]
        /\ has[d] # None => cache' = has[d]
    BY <1>14 DEF SubscriberStores, Store, HGoto, Types, PlaceTypes
  <2>2. d \in Procs /\ Storing(d)
    BY <2>1 DEF Storing
  <2> QED
    BY <2>1, <2>2, <1>b DEF Source, Before, Fresh
<1>15. CASE SubscriberBuilds(d)
  <2>1. /\ hpc[d] = "build" /\ seen'[d] = seen[d]
        /\ \/ hpc'[d] = "stamp" /\ has'[d] = cache
           \/ hpc'[d] = "miss" /\ cache = 0
    BY <1>15 DEF SubscriberBuilds, Build, Misses, readerVars, HGoto, Types, PlaceTypes,
                 ReaderTypes
  <2>2. Source(d) /\ ~seen[d].race => hpc'[d] # "miss"
    <3>1. seen[d].ver \in Nat /\ cache \in Nat
      BY DEF Types, ReaderTypes, FrameTypes
    <3>2. Source(d) /\ ~seen[d].race => seen[d].ver > 0 /\ seen[d].ver <= cache
      BY <2>1 DEF Source, Before
    <3>3. Source(d) /\ ~seen[d].race => cache # 0
      BY <3>1, <3>2
    <3> QED
      BY <2>1, <3>3, "stamp" # "miss"
  <2> QED
    BY <2>1, <2>2, <1>b DEF Source, Before, Fresh
<1>16. CASE Stamp(d)
  <2>1. /\ hpc'[d] = "initial" /\ hpc[d] = "stamp" /\ seen'[d] = seen[d]
        /\ held'[d].ver = has[d]
    BY <1>16 DEF Stamp, HGoto, Types, PlaceTypes, FrameTypes
  <2> QED
    BY <2>1, <1>b DEF Source, Before
<1>17. CASE Write(d)
  <2>1. hpc'[d] \notin Before \cup {"initial"}
    <3>1. hpc'[d] \in {"lock", "loop", "leave"}
      BY <1>17 DEF Write, Types, PlaceTypes
    <3> QED
      BY <3>1 DEF Before
  <2> QED
    BY <2>1 DEF Source
<1>18. CASE LockHandOff(d)
  <2>1. hpc'[d] \notin Before \cup {"initial"}
    BY <1>18 DEF LockHandOff, HGoto, Before, Types, ReaderTypes, StageTypes, PlaceTypes,
     FrameTypes
  <2> QED
    BY <2>1 DEF Source
<1>19. CASE HandOff(d)
  <2>1. hpc'[d] \notin Before \cup {"initial"}
    BY <1>19 DEF HandOff, HGoto, Before, Types, ReaderTypes, StageTypes, PlaceTypes, FrameTypes
  <2> QED
    BY <2>1 DEF Source
<1>20. CASE Take(d)
  <2>1. hpc'[d] \notin Before \cup {"initial"}
    BY <1>20 DEF Take, HGoto, Before, Types, ReaderTypes, StageTypes, PlaceTypes, FrameTypes
  <2> QED
    BY <2>1 DEF Source
<1>21. CASE Done(d)
  <2>1. hpc'[d] \notin Before \cup {"initial"}
    BY <1>21 DEF Done, HGoto, Before, Types, ReaderTypes, StageTypes, PlaceTypes, FrameTypes
  <2> QED
    BY <2>1 DEF Source
<1>22. CASE Leave(d)
  <2>1. hpc'[d] \notin Before \cup {"initial"}
    BY <1>22 DEF Leave, HGoto, Before, Types, ReaderTypes, StageTypes, PlaceTypes, FrameTypes
  <2> QED
    BY <2>1 DEF Source
<1>23. CASE Connect(d)
  <2>1. /\ hpc'[d] = "load" /\ seen'[d].ver = version /\ version' = version /\ has' = has
        /\ seen'[d].race = Racing
    BY <1>23 DEF Connect, Register, Types, PlaceTypes, FrameTypes
  <2>2. ASSUME ~seen'[d].race PROVE Fresh(d)'
    <3>1. ASSUME NEW p \in Procs, Storing(p)', has'[p] # None PROVE FALSE
      <4>1. Storing(p)
        BY <1>23, <2>1, <3>1 DEF Storing, Connect, Register, Types, PlaceTypes
      <4>2. Racing
        BY <2>1, <3>1, <4>1 DEF Racing, Storing
      <4> QED
        BY <2>1, <2>2, <4>2
    <3>2. seen'[d].ver <= version'
      BY <2>1, BoundsAssumption DEF Types, ReaderTypes
    <3> QED
      BY <3>1, <3>2 DEF Fresh
  <2>3. seen'[d].ver > 0
    BY <2>1, BoundsAssumption DEF Types, ReaderTypes
  <2> QED
    BY <2>1, <2>2, <2>3 DEF Source
<1>24. CASE Stall(d)
  <2>1. hpc'[d] = hpc[d] /\ seen'[d] = seen[d] /\ has'[d] = has[d] /\ held'[d] = held[d]
    BY <1>24 DEF Stall, unchangedByConnections, Types, ReaderTypes, StageTypes,
     PlaceTypes, FrameTypes
  <2> QED
    BY <2>1, <1>c
<1>25. CASE Close(d)
  <2>1. hpc'[d] = hpc[d] /\ seen'[d] = seen[d] /\ has'[d] = has[d] /\ held'[d] = held[d]
    BY <1>25 DEF Close, EndsStream, unchangedByConnections, Types, ReaderTypes,
     StageTypes, PlaceTypes, FrameTypes
  <2> QED
    BY <2>1, <1>c
<1>26. CASE Read(d)
  <2>1. hpc'[d] = hpc[d] /\ seen'[d] = seen[d] /\ has'[d] = has[d] /\ held'[d] = held[d]
    BY <1>26 DEF Read, EndsStream, Final, unchangedByWaiter, Types, ReaderTypes,
     StageTypes, PlaceTypes, FrameTypes
  <2> QED
    BY <2>1, <1>c
<1>27. CASE StreamEnds(d)
  <2>1. hpc'[d] = hpc[d] /\ seen'[d] = seen[d] /\ has'[d] = has[d] /\ held'[d] = held[d]
    BY <1>27 DEF StreamEnds, EndsStream, unchangedByWaiter, Types, ReaderTypes,
     StageTypes, PlaceTypes, FrameTypes
  <2> QED
    BY <2>1, <1>c
<1>28. CASE Refused(d)
  <2>1. hpc'[d] = hpc[d] /\ seen'[d] = seen[d] /\ has'[d] = has[d] /\ held'[d] = held[d]
    BY <1>28 DEF Refused, unchangedByWaiter, Types, ReaderTypes, StageTypes, PlaceTypes,
     FrameTypes
  <2> QED
    BY <2>1, <1>c
<1>29. CASE Poll(d)
  <2>1. hpc'[d] = hpc[d] /\ seen'[d] = seen[d] /\ has'[d] = has[d] /\ held'[d] = held[d]
    BY <1>29 DEF Poll, unchangedByWaiter, Types, ReaderTypes, StageTypes, PlaceTypes, FrameTypes
  <2> QED
    BY <2>1, <1>c
<1>30. CASE ClientStep(d)
  BY <1>30, <1>1, <1>2, <1>3, <1>4, <1>5, <1>6, <1>7, <1>8, <1>9, <1>10, <1>11, <1>12,
     <1>13, <1>14, <1>15, <1>16, <1>17, <1>18, <1>19, <1>20, <1>21, <1>22, <1>23, <1>24,
     <1>25, <1>26, <1>27, <1>28, <1>29
  DEF ClientStep, Handler, Waiter
<1> QED
  BY <1>1, <1>2, <1>3, <1>4, <1>5, <1>6, <1>7, <1>8, <1>9, <1>10, <1>11, <1>12, <1>13,
     <1>14, <1>15, <1>16, <1>17, <1>18, <1>19, <1>20, <1>21, <1>22, <1>23, <1>24, <1>25,
     <1>26, <1>27, <1>28, <1>29, <1>30
  DEF Next, PublisherStep, ClientStep, Serve

-----------------------------------------------------------------------------
(* What the properties say, from the places.                               *)

\* OnTheWay adds a frame where there is one.
LEMMA AndAFrame ==
  ASSUME NEW s \in Seq(Frames), NEW f \in Frames
  PROVE  s \o (IF f = NoFrame THEN <<>> ELSE <<f>>) = IF f = NoFrame THEN s ELSE Append(s, f)
<1>1. CASE f = NoFrame
  <2>1. s \o <<>> = s
    BY ConcatEmptySeq, Zenon
  <2> QED
    BY <1>1, <2>1, Zenon
<1>2. CASE f # NoFrame
  <2>1. Append(s, f) = s \o <<f>>
    BY AppendIsConcat, Zenon
  <2> QED
    BY <1>2, <2>1, Zenon
<1> QED
  BY <1>1, <1>2

\* The frames on their way: their numbers rise, and the last is the one Last names.
LEMMA Way ==
  ASSUME Types, NEW c \in Clients, Numbered(c)
  PROVE  /\ OnTheWay(c) \in Seq(Frames)
         /\ Rising(OnTheWay(c)) /\ Above(OnTheWay(c), got[c].seq)
         /\ Below(OnTheWay(c), seq + 1)
         /\ pending[c] = NoFrame =>
              Last(c) = IF OnTheWay(c) # <<>> THEN OnTheWay(c)[Len(OnTheWay(c))].n
                        ELSE IF got[c] # NoFrame THEN got[c].n ELSE seen[c].n
<1> DEFINE s == IF held[c] = NoFrame THEN buffer[c] ELSE Append(buffer[c], held[c])
           t == IF slot[c] = NoFrame THEN s ELSE Append(s, slot[c])
<1>1. /\ seq \in Nat /\ seq + 1 \in Nat /\ got[c].seq \in Nat
      /\ held[c] \in Frames /\ slot[c] \in Frames
      /\ held[c].seq \in Nat /\ slot[c].seq \in Nat /\ buffer[c] \in Seq(Frames)
  BY ClientFacts
<1>2. s \in Seq(Frames)
  BY <1>1, OneMore
<1>3. OnTheWay(c) = t
  <2>1. OnTheWay(c) = (buffer[c] \o (IF held[c] = NoFrame THEN <<>> ELSE <<held[c]>>))
                         \o (IF slot[c] = NoFrame THEN <<>> ELSE <<slot[c]>>)
    BY Zenon DEF OnTheWay
  <2>2. buffer[c] \o (IF held[c] = NoFrame THEN <<>> ELSE <<held[c]>>) = s
    BY <1>1, AndAFrame, Zenon
  <2>3. s \o (IF slot[c] = NoFrame THEN <<>> ELSE <<slot[c]>>) = t
    <3> HIDE DEF s
    <3> QED
      BY <1>1, <1>2, AndAFrame, Zenon
  <2> QED
    BY <2>1, <2>2, <2>3, Zenon
<1>4. /\ Rising(s) /\ Above(s, got[c].seq) /\ Below(s, seq + 1)
      /\ slot[c] # NoFrame => Below(s, slot[c].seq)
  <2>1. CASE held[c] = NoFrame
    BY <2>1 DEF Numbered
  <2>2. CASE held[c] # NoFrame
    <3>1. held[c].seq < seq + 1
      BY <1>1, <2>2 DEF Numbered
    <3> QED
      BY <1>1, <2>2, <3>1, OneMore DEF Numbered
  <2> QED
    BY <2>1, <2>2
<1>5. s # <<>> => s[Len(s)] = IF held[c] = NoFrame THEN buffer[c][Len(buffer[c])] ELSE held[c]
  BY <1>1, OneMore
<1>6. s = <<>> <=> held[c] = NoFrame /\ buffer[c] = <<>>
  BY <1>1, OneMore
<1> HIDE DEF s
<1>7. t \in Seq(Frames) /\ Rising(t) /\ Above(t, got[c].seq) /\ Below(t, seq + 1)
  <2>1. CASE slot[c] = NoFrame
    BY <1>2, <1>4, <2>1
  <2>2. CASE slot[c] # NoFrame
    <3>1. slot[c].seq < seq + 1 /\ got[c].seq < slot[c].seq
      BY <1>1, <2>2 DEF Numbered
    <3> QED
      BY <1>1, <1>2, <1>4, <2>2, <3>1, OneMore
  <2> QED
    BY <2>1, <2>2
<1>8. ASSUME pending[c] = NoFrame
      PROVE  Last(c) = IF t # <<>> THEN t[Len(t)].n
                       ELSE IF got[c] # NoFrame THEN got[c].n ELSE seen[c].n
  <2>1. CASE slot[c] = NoFrame
    BY <1>5, <1>6, <1>8, <2>1 DEF Last
  <2>2. CASE slot[c] # NoFrame
    <3>1. t # <<>> /\ t[Len(t)] = slot[c]
      BY <1>1, <1>2, <2>2, OneMore
    <3> QED
      BY <1>8, <2>2, <3>1 DEF Last
  <2> QED
    BY <2>1, <2>2
<1> HIDE DEF t
<1> QED
  BY <1>3, <1>7, <1>8

\* The property's newest publication is the proof's.
LEMMA NewestIsLast ==
  ASSUME Types, NEW c \in Clients, Numbered(c)
  PROVE  Newest(c) = Last(c)
<1>1. CASE pending[c] # NoFrame
  BY <1>1 DEF Newest, Last
<1>2. CASE pending[c] = NoFrame
  BY <1>2, Way, Zenon DEF Newest
<1> QED
  BY <1>1, <1>2

\* The property, from Numbered.
LEMMA NumbersRise ==
  ASSUME HubInv
  PROVE  SeqIncreases
<1> SUFFICES ASSUME NEW c \in Clients
             PROVE  LET frames == <<got[c]>> \o OnTheWay(c)
                    IN  /\ \A i \in 1..(Len(frames) - 1) : frames[i].seq < frames[i + 1].seq
                        /\ \A i \in 1..Len(frames) : frames[i].seq <= seq
  BY DEF SeqIncreases
<1> DEFINE s == OnTheWay(c)
           frames == <<got[c]>> \o s
<1>1. Types /\ Numbered(c)
  BY DEF HubInv
<1>2. /\ seq \in Nat /\ got[c].seq \in Nat /\ got[c].seq <= seq
  BY <1>1, ClientFacts DEF Numbered
<1>3. /\ s \in Seq(Frames) /\ Rising(s) /\ Above(s, got[c].seq) /\ Below(s, seq + 1)
  BY <1>1, Way
<1>4. <<got[c]>> \in Seq(Frames) /\ Len(<<got[c]>>) = 1 /\ <<got[c]>>[1] = got[c]
  BY <1>1 DEF Types, FrameTypes
<1> HIDE DEF s
<1>5. /\ Len(s) \in Nat /\ Len(frames) = 1 + Len(s)
      /\ \A i \in 1..(1 + Len(s)) : frames[i] = IF i <= 1 THEN got[c] ELSE s[i - 1]
  BY <1>3, <1>4, ConcatProperties
<1> HIDE DEF frames
<1>6. /\ frames[1] = got[c]
      /\ \A i \in 1..Len(s) : frames[i + 1] = s[i] /\ s[i].seq \in Nat
  BY <1>3, <1>5, Elements
<1>7. ASSUME NEW i \in 1..(Len(frames) - 1) PROVE frames[i].seq < frames[i + 1].seq
  <2>1. CASE i = 1
    BY <1>3, <1>5, <1>6, <2>1 DEF Above
  <2>2. CASE i # 1
    <3>1. i - 1 \in 1..Len(s) /\ i \in 1..Len(s) /\ i - 1 < i /\ i - 1 + 1 = i
      BY <1>5, <2>2
    <3>2. s[i - 1].seq < s[i].seq
      BY <1>3, <3>1 DEF Rising
    <3>3. frames[i] = s[i - 1] /\ frames[i + 1] = s[i]
      BY <1>6, <3>1
    <3> QED
      BY <3>2, <3>3
  <2> QED
    BY <2>1, <2>2
<1>8. ASSUME NEW i \in 1..Len(frames) PROVE frames[i].seq <= seq
  <2>1. CASE i = 1
    BY <1>2, <1>6, <2>1
  <2>2. CASE i # 1
    <3>1. i - 1 \in 1..Len(s) /\ frames[i] = s[i - 1]
      BY <1>5, <2>2
    <3>2. s[i - 1].seq < seq + 1 /\ s[i - 1].seq \in Nat
      BY <1>3, <1>6, <3>1 DEF Below
    <3>3. \A m, n \in Nat : m < n + 1 => m <= n
      OBVIOUS
    <3> QED
      BY <1>2, <3>1, <3>2, <3>3, Zenon
  <2> QED
    BY <2>1, <2>2
<1> QED
  BY <1>7, <1>8 DEF frames, s

-----------------------------------------------------------------------------

\* The invariant is inductive.
LEMMA HubStep ==
  ASSUME HubInv, [Next]_vars
  PROVE  HubInv'
<1>1. CASE Next
  <2>1. Types'
    BY <1>1, ReaderStep, StageStep, PlaceTypeStep, FrameStep DEF HubInv, Types
  <2>2. ASSUME NEW c \in Clients PROVE Place(c)' /\ Numbered(c)'
    BY <1>1, PlaceStep, NumberStep DEF HubInv
  <2> QED
    BY <2>1, <2>2 DEF HubInv
<1>2. CASE UNCHANGED vars
  <2>1. Types'
    BY <1>2 DEF vars, HubInv, Types, ReaderTypes, StageTypes, PlaceTypes, FrameTypes,
       readerVars, frameVars, clientVars, seqVars
  <2>2. ASSUME NEW c \in Clients PROVE Place(c)' /\ Numbered(c)'
    BY <1>2, <2>2, Zenon DEF vars, HubInv, Place, Numbered, frameVars, clientVars, seqVars
  <2> QED
    BY <2>1, <2>2 DEF HubInv
<1> QED
  BY <1>1, <1>2

\* What the hub's subscriptions look like at every moment: where each is, what it
\* holds there, and in which order the numbers are.
THEOREM HubInvariant == Spec => []HubInv
<1>1. Init => HubInv
  BY Started
<1> QED
  BY <1>1, HubStep, PTL DEF Spec

\* Every variable of the hub keeps its type, a subscriber is in the hub exactly while
\* its goroutine lives, and no socket holds more than it can.
THEOREM HubTyped == Spec => []TypeOK
<1>1. HubInv => TypeOK
  <2> SUFFICES ASSUME HubInv PROVE TypeOK
    OBVIOUS
  <2>1. ReaderTypes /\ StageTypes /\ PlaceTypes /\ FrameTypes
    BY DEF HubInv, Types
  <2>2. \A c \in Clients : {pending[c], slot[c], held[c], got[c]} \subseteq Frames
    BY <2>1 DEF FrameTypes
  <2> QED
    BY <2>1, <2>2 DEF TypeOK, ReaderTypes, StageTypes, PlaceTypes, FrameTypes
<1> QED
  BY <1>1, HubInvariant, PTL

\* publish and handleSubscribe: whatever number of publishers and subscribers there
\* is, every client reads frames whose numbers increase.
THEOREM NumbersIncrease == Spec => []SeqIncreases
BY NumbersRise, HubInvariant, PTL

\* Hub.Publish, finishSubscribe and the forwarding goroutine: for any number of each,
\* the last publication since a client registered is kept aside, in its slot, being
\* written, in its socket or read.
THEOREM NewestKept == Spec => []LatestHeld
<1> DEFINE Inv == HubInv /\ \A c \in Clients : HasLast(c)
<1>1. Init => Inv
  BY Started
<1>2. Inv /\ [Next]_vars => Inv'
  <2> SUFFICES ASSUME Inv, [Next]_vars PROVE Inv'
    OBVIOUS
  <2>1. CASE Next
    <3>1. ASSUME NEW c \in Clients PROVE HasLast(c)'
      BY <2>1, LastStep DEF HubInv
    <3> QED
      BY <3>1, HubStep
  <2>2. CASE UNCHANGED vars
    <3>1. ASSUME NEW c \in Clients PROVE HasLast(c)'
      BY <2>2 DEF HasLast, Last, vars, frameVars, clientVars, seqVars
    <3> QED
      BY <3>1, HubStep
  <2> QED
    BY <2>1, <2>2
<1>3. Inv => LatestHeld
  BY NewestIsLast DEF HubInv, HasLast, LatestHeld
<1> QED
  BY <1>1, <1>2, <1>3, PTL DEF Spec

\* handleSubscribe registers before it reads: a first frame is not older than the
\* subscription, unless the read failed or another goroutine held an unstored state.
THEOREM FirstFrameFresh == Spec => []InitialFresh
<1> DEFINE Inv == HubInv /\ \A c \in Clients : Source(c)
<1>1. Init => Inv
  BY Started
<1>2. Inv /\ [Next]_vars => Inv'
  <2> SUFFICES ASSUME Inv, [Next]_vars PROVE Inv'
    OBVIOUS
  <2>1. CASE Next
    <3>1. ASSUME NEW c \in Clients PROVE Source(c)'
      BY <2>1, SourceStep DEF HubInv
    <3> QED
      BY <3>1, HubStep
  <2>2. CASE UNCHANGED vars
    <3>1. ASSUME NEW c \in Clients PROVE Source(c)'
      BY <2>2 DEF Source, Fresh, Storing, vars, readerVars, frameVars, clientVars, seqVars
    <3> QED
      BY <3>1, HubStep
  <2> QED
    BY <2>1, <2>2
<1>3. Inv => InitialFresh
  <2> SUFFICES ASSUME HubInv, NEW c \in Clients, Source(c), hpc[c] = "initial", ~seen[c].race
               PROVE  held[c].ver >= seen[c].ver
    BY DEF InitialFresh
  <2>1. held[c].ver \in Nat /\ seen[c].ver \in Nat
    BY DEF HubInv, Types, FrameTypes
  <2> QED
    BY <2>1 DEF Source
<1> QED
  BY <1>1, <1>2, <1>3, PTL DEF Spec

=============================================================================
