----------------------------- MODULE PingsProofs -----------------------------
(***************************************************************************)
(* Proofs about Pings, for any set of clients and any bounds.              *)
(*                                                                         *)
(* The two lists that must agree, the main loop's timeouts and the         *)
(* ping_cb_id of the clients, are the same list: there is a timeout for    *)
(* every client that is pinged and there are no others.  That is stronger  *)
(* than what TimeoutsMatch says of the timeouts whose callback runs, and   *)
(* the only form of it that every step preserves.                          *)
(***************************************************************************)
EXTENDS Pings, FiniteSetTheorems, TLAPS

Events == [type : {"Reply", "Unmap", "Destroy", "NetClose"},
           client : Clients, by : {"app", "reparent", "pager"}]

Sources == [id : Ids, client : Clients]

HangCalls == [client : Clients, source : Sources]

ClientRecords == [listed : BOOLEAN, refs : Nat, pingId : Ids \cup {0}, skips : Nat]

TypeOK ==
  /\ app \in [Clients -> {"up", "hung", "killed", "gone"}]
  /\ inbox \in [Clients -> Seq({"delete", "ping"})]
  /\ queue \in Seq(Events)
  /\ client \in [Clients -> ClientRecords]
  /\ sources \subseteq Sources
  /\ frames \in Seq(HangCalls)

\* The calls of client_hang that are about a client.
CallsOn(c) == {i \in DOMAIN frames : frames[i].client = c}

\* A client is held by the window manager's list and by each of those calls.
RefsCounted ==
  \A c \in Clients :
    client[c].refs = (IF client[c].listed THEN 1 ELSE 0) + Cardinality(CallsOn(c))

\* The timeouts are those of the pinged clients.
SourcesArePings ==
  /\ \A s \in sources : Pinged(s.client) /\ client[s.client].pingId = s.id
  /\ \A c \in Clients : Pinged(c) => Source(client[c].pingId, c) \in sources

\* A freed client is not pinged.
PingedAreHeld == \A c \in Clients : Pinged(c) => client[c].refs > 0

\* One id, one client, also for the timeouts that were removed while their
\* callback runs; each callback runs once.
IdsApart ==
  /\ \A c, d \in Clients : Pinged(c) /\ client[c].pingId = client[d].pingId => c = d
  /\ \A i \in DOMAIN frames, c \in Clients :
       frames[i].source.id = client[c].pingId => frames[i].client = c
  /\ \A i, j \in DOMAIN frames : frames[i].source.id = frames[j].source.id => i = j

FramesOK ==
  /\ Len(frames) <= MaxFrames
  /\ \A i \in DOMAIN frames : frames[i].source.client = frames[i].client

\* A window is destroyed when its application is gone; only then can its
\* client be unmanaged and still be pinged, while client_hang holds it.
GoneBeforeDestroy ==
  /\ \A i \in DOMAIN queue : queue[i].type = "Destroy" => app[queue[i].client] = "gone"
  /\ \A c \in Clients : Pinged(c) /\ ~client[c].listed => app[c] = "gone"

Books ==
  RefsCounted /\ SourcesArePings /\ PingedAreHeld /\ IdsApart /\ FramesOK

IInv == TypeOK /\ Books /\ GoneBeforeDestroy /\ OnlySilentArePinged

-----------------------------------------------------------------------------
(* The queue of events *)

(* Events added at the end leave the others where they are.                *)
LEMMA QueueGrows ==
  ASSUME queue \in Seq(Events), NEW t \in Seq(Events), queue' = queue \o t
  PROVE  /\ queue' \in Seq(Events)
         /\ \A c \in Clients : Replies(c) # {} => Replies(c)' # {}
         /\ \A i \in DOMAIN queue' :
              \/ i \in DOMAIN queue /\ queue'[i] = queue[i]
              \/ \E j \in DOMAIN t : queue'[i] = t[j]
<1>1. queue' \in Seq(Events) /\ DOMAIN queue' = 1..(Len(queue) + Len(t))
  OBVIOUS
<1>2. \A i \in DOMAIN queue : i \in DOMAIN queue' /\ queue'[i] = queue[i]
  BY <1>1
<1>3. \A i \in DOMAIN queue' : i \notin DOMAIN queue =>
         i - Len(queue) \in DOMAIN t /\ queue'[i] = t[i - Len(queue)]
  BY <1>1
<1>4. ASSUME NEW c \in Clients, Replies(c) # {} PROVE Replies(c)' # {}
  <2>1. PICK i \in Replies(c) : TRUE
    BY <1>4
  <2>2. i \in Replies(c)'
    BY <1>2, <2>1 DEF Replies
  <2> QED BY <2>2
<1> QED BY <1>1, <1>2, <1>3, <1>4

LEMMA QueueGrowsByOne ==
  ASSUME queue \in Seq(Events), NEW e \in Events, queue' = Append(queue, e)
  PROVE  /\ queue' \in Seq(Events)
         /\ \A c \in Clients : Replies(c) # {} => Replies(c)' # {}
         /\ \A i \in DOMAIN queue' :
              
                \/ i \in DOMAIN queue /\ queue'[i] = queue[i]
                \/ queue'[i] = e
         /\ e.type \in {"Reply", "Unmap", "Destroy"} => Replies(e.client)' # {}
<1>1. queue' = queue \o <<e>> /\ <<e>> \in Seq(Events)
  OBVIOUS
<1>2. DOMAIN <<e>> = {1} /\ <<e>>[1] = e
  OBVIOUS
<1>3. Len(queue) + 1 \in DOMAIN queue' /\ queue'[Len(queue) + 1] = e
  OBVIOUS
<1>4. e.type \in {"Reply", "Unmap", "Destroy"} =>
         Len(queue) + 1 \in Replies(e.client)'
  BY <1>3 DEF Replies
<1> QED BY <1>1, <1>2, <1>4, QueueGrows

(* Taking the first event loses no other.                                  *)
LEMMA QueueShrinks ==
  ASSUME queue \in Seq(Events), queue # << >>, queue' = Tail(queue)
  PROVE  /\ queue' \in Seq(Events)
         /\ Head(queue) \in Events
         /\ 1 \in DOMAIN queue /\ Head(queue) = queue[1]
         /\ \A i \in DOMAIN queue' : i + 1 \in DOMAIN queue /\ queue'[i] = queue[i + 1]
         /\ \A c \in Clients :
              \/ Head(queue).client = c /\ Head(queue).type \in {"Reply", "Unmap", "Destroy"}
              \/ Replies(c) # {} => Replies(c)' # {}
<1>1. /\ queue' \in Seq(Events) /\ Len(queue') = Len(queue) - 1
      /\ Head(queue) \in Events /\ Head(queue) = queue[1] /\ 1 \in DOMAIN queue
  OBVIOUS
<1>2. \A i \in DOMAIN queue' : i + 1 \in DOMAIN queue /\ queue'[i] = queue[i + 1]
  BY <1>1
<1>3. \A i \in DOMAIN queue : i # 1 => i - 1 \in DOMAIN queue' /\ queue'[i - 1] = queue[i]
  BY <1>1
<1>4. ASSUME NEW c \in Clients, NEW i \in Replies(c),
             Head(queue).client # c \/ Head(queue).type \notin {"Reply", "Unmap", "Destroy"}
      PROVE  Replies(c)' # {}
  <2>1. i # 1
    BY <1>1, <1>4 DEF Replies
  <2>2. i - 1 \in Replies(c)'
    BY <1>3, <2>1 DEF Replies
  <2> QED BY <2>2
<1> QED BY <1>1, <1>2, <1>4

(* The events of a broken connection.                                      *)
LEMMA ClosingEvents ==
  ASSUME NEW c \in Clients
  PROVE  /\ Closing(c) \in Seq(Events)
         /\ \A j \in DOMAIN Closing(c) : Closing(c)[j] \in Events /\ Closing(c)[j].client = c
BY DEF Closing, Event, Events

-----------------------------------------------------------------------------
(* Ids *)

(* A function takes no more values than it has arguments.                  *)
LEMMA ImageIsNoLarger ==
  ASSUME NEW S, IsFiniteSet(S), NEW T, NEW f \in [S -> T]
  PROVE  /\ IsFiniteSet({f[x] : x \in S})
         /\ Cardinality({f[x] : x \in S}) <= Cardinality(S)
<1> DEFINE Image == {f[x] : x \in S}
<1>1. f \in Surjection(S, Image)
  BY DEF Surjection
<1> HIDE DEF Image
<1>2. IsFiniteSet(Image) /\ Cardinality(Image) <= Cardinality(S)
  BY <1>1, FS_Surjection
<1> QED BY <1>2 DEF Image

LEMMA IntervalSize ==
  ASSUME NEW n \in Nat
  PROVE  IsFiniteSet(1..n) /\ Cardinality(1..n) = n
<1>1. 1 \in Int /\ n \in Int
  OBVIOUS
<1>2. IsFiniteSet(1..n) /\ Cardinality(1..n) = IF 1 > n THEN 0 ELSE n - 1 + 1
  BY <1>1, FS_Interval, Zenon
<1> QED BY <1>2

(* There is an id for every client and every call of client_hang, so one is
   left for a client that is not pinged.                                   *)
LEMMA FreshIdIsFree ==
  ASSUME TypeOK, Books, NEW c \in Clients, ~Pinged(c)
  PROVE  FreshId \in Ids /\ FreshId \notin IdsInUse
<1> DEFINE f == [d \in Clients \ {c} |-> client[d].pingId]
           g == [i \in 1..Len(frames) |-> frames[i].source.id]
           Pings == {f[d] : d \in Clients \ {c}}
           Calls == {g[i] : i \in 1..Len(frames)}
           n == Cardinality(Clients)
<1>1. IsFiniteSet(Clients) /\ n \in Nat /\ MaxFrames \in Nat /\ Len(frames) \in Nat
  BY PingsAssumption, FS_CardinalityType DEF TypeOK
<1>2. IsFiniteSet(Clients \ {c}) /\ Cardinality(Clients \ {c}) = n - 1
  BY <1>1, FS_RemoveElement
<1>3. f \in [Clients \ {c} -> Ids \cup {0}] /\ g \in [1..Len(frames) -> Ids]
  <2>1. \A i \in 1..Len(frames) : frames[i] \in HangCalls
    BY DEF TypeOK
  <2>2. \A i \in 1..Len(frames) : frames[i].source.id \in Ids
    BY <2>1 DEF Sources, HangCalls
  <2> QED BY <2>2 DEF TypeOK, ClientRecords
<1>4. IdsInUse \subseteq Pings \cup Calls \cup {0}
  <2>1. \A s \in sources : s.client \in Clients \ {c} /\ s.id = f[s.client]
    BY DEF TypeOK, Books, SourcesArePings, Sources
  <2>2. \A s \in Firing : \E i \in 1..Len(frames) : s.id = g[i]
    <3>1. DOMAIN frames = 1..Len(frames)
      BY DEF TypeOK
    <3> QED BY <3>1 DEF Firing
  <2>3. \A d \in Clients : 
           IF d = c THEN client[d].pingId = 0
           ELSE d \in Clients \ {c} /\ client[d].pingId = f[d]
    BY DEF Pinged
  <2> SUFFICES ASSUME NEW id \in IdsInUse PROVE id \in Pings \cup Calls \cup {0}
    BY DEF IdsInUse
  <2> HIDE DEF f, g
  <2>4. CASE \E s \in sources \cup Firing : id = s.id
    BY <2>1, <2>2, <2>4
  <2>5. CASE \E d \in Clients : id = client[d].pingId
    BY <2>3, <2>5
  <2> QED BY <2>4, <2>5 DEF IdsInUse
<1> HIDE DEF f, g
<1>5. IsFiniteSet(Pings) /\ Cardinality(Pings) <= n - 1
  <2>1. IsFiniteSet(Pings) /\ Cardinality(Pings) <= Cardinality(Clients \ {c})
    <3>1. f \in [Clients \ {c} -> Ids \cup {0}] /\ IsFiniteSet(Clients \ {c})
      BY <1>2, <1>3
    <3> QED BY <3>1, ImageIsNoLarger
  <2> HIDE DEF Pings
  <2> QED BY <1>2, <2>1
<1>6. IsFiniteSet(Calls) /\ Cardinality(Calls) <= MaxFrames
  <2>1. IsFiniteSet(1..Len(frames)) /\ Cardinality(1..Len(frames)) = Len(frames)
    BY <1>1, IntervalSize
  <2>2. Len(frames) <= MaxFrames
    BY DEF Books, FramesOK
  <2>3. IsFiniteSet(Calls) /\ Cardinality(Calls) <= Cardinality(1..Len(frames))
    BY <1>3, <2>1, ImageIsNoLarger, ZenonT(60)
  <2>4. Cardinality(Calls) \in Nat
    BY <2>3, FS_CardinalityType
  <2> HIDE DEF Calls
  <2> QED BY <1>1, <2>1, <2>2, <2>3, <2>4
<1> HIDE DEF Pings, Calls
<1>7. IsFiniteSet(Pings \cup Calls) /\ Cardinality(Pings \cup Calls) <= n - 1 + MaxFrames
  <2>1. /\ Cardinality(Pings) \in Nat /\ Cardinality(Calls) \in Nat
        /\ IsFiniteSet(Pings \cap Calls)
    BY <1>5, <1>6, FS_CardinalityType, FS_Intersection
  <2>2. Cardinality(Pings \cap Calls) \in Nat
    BY <2>1, FS_CardinalityType
  <2>3. /\ IsFiniteSet(Pings \cup Calls)
        /\ Cardinality(Pings \cup Calls) =
             Cardinality(Pings) + Cardinality(Calls) - Cardinality(Pings \cap Calls)
    BY <1>5, <1>6, FS_Union
  <2> QED BY <1>1, <1>5, <1>6, <2>1, <2>2, <2>3
<1>8. IsFiniteSet(Ids) /\ Cardinality(Ids) = n + MaxFrames
  <2>1. n + MaxFrames \in Nat
    BY <1>1
  <2> QED BY <2>1, IntervalSize DEF Ids
<1>9. ~(Ids \subseteq Pings \cup Calls)
  <2> SUFFICES ASSUME Ids \subseteq Pings \cup Calls PROVE FALSE
    OBVIOUS
  <2>1. Cardinality(Ids) <= Cardinality(Pings \cup Calls) /\ Cardinality(Pings \cup Calls) \in Nat
    BY <1>7, FS_Subset, FS_CardinalityType
  <2> QED BY <1>1, <1>7, <1>8, <2>1
<1>10. 0 \notin Ids
  BY DEF Ids
<1>11. \E id \in Ids : id \notin IdsInUse
  BY <1>4, <1>9, <1>10
<1> QED BY <1>11 DEF FreshId

-----------------------------------------------------------------------------
(* Calls of client_hang *)

LEMMA CallsOnIsFinite ==
  ASSUME TypeOK, NEW c \in Clients
  PROVE  /\ IsFiniteSet(CallsOn(c)) /\ Cardinality(CallsOn(c)) \in Nat
         /\ \A i \in CallsOn(c) : Cardinality(CallsOn(c)) > 0
<1>1. DOMAIN frames = 1..Len(frames) /\ Len(frames) \in Nat
  BY DEF TypeOK
<1>2. IsFiniteSet(DOMAIN frames)
  BY <1>1, IntervalSize
<1>3. CallsOn(c) \subseteq DOMAIN frames
  BY DEF CallsOn
<1>4. IsFiniteSet(CallsOn(c)) /\ Cardinality(CallsOn(c)) \in Nat
  BY <1>2, <1>3, FS_Subset, FS_CardinalityType
<1>5. Cardinality(CallsOn(c)) = 0 => CallsOn(c) = {}
  BY <1>4, FS_EmptySet
<1> QED BY <1>4, <1>5

(* A call is counted for its client and for no other.                      *)
LEMMA CallAdded ==
  ASSUME TypeOK, NEW f \in HangCalls, frames' = Append(frames, f)
  PROVE  /\ frames' \in Seq(HangCalls) /\ Len(frames') = Len(frames) + 1
         /\ \A i \in DOMAIN frames : i \in DOMAIN frames' /\ frames'[i] = frames[i]
         /\ \A i \in DOMAIN frames' : i \notin DOMAIN frames => i = Len(frames) + 1 /\ frames'[i] = f
         /\ \A d \in Clients :
              Cardinality(CallsOn(d))' = Cardinality(CallsOn(d)) + (IF d = f.client THEN 1 ELSE 0)
<1>1. /\ frames \in Seq(HangCalls) /\ Len(frames) \in Nat /\ DOMAIN frames = 1..Len(frames)
      /\ frames' \in Seq(HangCalls) /\ Len(frames') = Len(frames) + 1
      /\ DOMAIN frames' = 1..(Len(frames) + 1)
      /\ frames'[Len(frames) + 1] = f
      /\ \A i \in 1..Len(frames) : frames'[i] = frames[i]
  BY DEF TypeOK
<1>2. \A d \in Clients : d # f.client => CallsOn(d)' = CallsOn(d)
  BY <1>1 DEF CallsOn
<1>3. CallsOn(f.client)' = CallsOn(f.client) \cup {Len(frames) + 1}
  BY <1>1 DEF CallsOn
<1>4. Len(frames) + 1 \notin CallsOn(f.client)
  BY <1>1 DEF CallsOn
<1>5. f.client \in Clients
  BY DEF HangCalls
<1>6. Cardinality(CallsOn(f.client))' = Cardinality(CallsOn(f.client)) + 1
  <2>1. IsFiniteSet(CallsOn(f.client))
    BY <1>5, CallsOnIsFinite
  <2> QED BY <1>3, <1>4, <2>1, FS_AddElement
<1>7. \A d \in Clients : Cardinality(CallsOn(d)) \in Nat
  BY CallsOnIsFinite
<1> QED BY <1>1, <1>2, <1>6, <1>7

LEMMA CallReturned ==
  ASSUME TypeOK, frames # << >>, frames' = Front(frames)
  PROVE  /\ frames' \in Seq(HangCalls) /\ Len(frames') = Len(frames) - 1
         /\ Len(frames) \in DOMAIN frames /\ Last(frames) = frames[Len(frames)]
         /\ Last(frames) \in HangCalls
         /\ \A i \in DOMAIN frames' :
              i \in DOMAIN frames /\ i # Len(frames) /\ frames'[i] = frames[i]
         /\ \A i \in DOMAIN frames : i = Len(frames) \/ i \in DOMAIN frames'
         /\ \A d \in Clients :
              Cardinality(CallsOn(d))' =
                Cardinality(CallsOn(d)) - (IF d = Last(frames).client THEN 1 ELSE 0)
<1> DEFINE n == Len(frames)
<1>1. frames \in [1..n -> HangCalls] /\ n \in Nat \ {0} /\ frames \in Seq(HangCalls)
  BY DEF TypeOK
<1>2. frames' = SubSeq(frames, 1, n - 1)
  BY DEF Front
<1>3. 1 <= n - 1 + 1 /\ n - 1 <= n
  BY <1>1
<1>4. /\ frames' \in Seq(HangCalls) /\ Len(frames') = n - 1
      /\ \A i \in 1..(n - 1) : frames'[i] = frames[i]
  BY <1>1, <1>2, <1>3
<1>5. DOMAIN frames = 1..n /\ DOMAIN frames' = 1..(n - 1) /\ Last(frames) = frames[n]
  BY <1>1, <1>4 DEF Last
<1> HIDE DEF n
<1>6. frames[n] \in HangCalls
  BY <1>1
<1>7. PICK c \in Clients : c = Last(frames).client
  BY <1>5, <1>6 DEF HangCalls
<1>8. \A d \in Clients : d # c => CallsOn(d)' = CallsOn(d)
  BY <1>1, <1>4, <1>5, <1>7 DEF CallsOn
<1>9. CallsOn(c)' = CallsOn(c) \ {n} /\ n \in CallsOn(c)
  BY <1>1, <1>4, <1>5, <1>7 DEF CallsOn
<1>10. Cardinality(CallsOn(c))' = Cardinality(CallsOn(c)) - 1
  <2>1. IsFiniteSet(CallsOn(c))
    BY CallsOnIsFinite
  <2>2. Cardinality(CallsOn(c) \ {n}) = Cardinality(CallsOn(c)) - 1
    BY <1>9, <2>1, FS_RemoveElement
  <2> QED BY <1>9, <2>2
<1>11. \A d \in Clients : Cardinality(CallsOn(d)) \in Nat
  BY CallsOnIsFinite
<1> QED BY <1>1, <1>4, <1>5, <1>6, <1>7, <1>8, <1>10, <1>11 DEF n

-----------------------------------------------------------------------------
(* Steps *)

CallsKept ==
  /\ frames' \in Seq(HangCalls) /\ Len(frames') <= MaxFrames
  /\ \A i \in DOMAIN frames' : i \in DOMAIN frames /\ frames'[i] = frames[i]

(* A client that changes keeps its ping and its timeout, or loses both; and
   it is still counted right.                                              *)
LEMMA ClientSettles ==
  ASSUME TypeOK, Books, NEW c \in Clients, NEW k \in ClientRecords,
         client' = [client EXCEPT ![c] = k],
         \/ k.pingId = client[c].pingId /\ sources' = sources
         \/ k.pingId = 0 /\ sources' = Without(client[c].pingId),
         k.pingId # 0 => k.refs > 0,
         k.refs = (IF k.listed THEN 1 ELSE 0) + Cardinality(CallsOn(c))',
         \A d \in Clients \ {c} : Cardinality(CallsOn(d))' = Cardinality(CallsOn(d)),
         CallsKept
  PROVE  /\ client' \in [Clients -> ClientRecords] /\ sources' \subseteq Sources
         /\ Books'
<1>1. /\ client' \in [Clients -> ClientRecords]
      /\ client'[c] = k /\ \A d \in Clients \ {c} : client'[d] = client[d]
  BY DEF TypeOK
<1>2. sources' \subseteq sources /\ sources' \subseteq Sources
  BY DEF TypeOK, Without
<1>3. RefsCounted'
  BY <1>1 DEF Books, RefsCounted
<1>4. SourcesArePings'
  <2>1. ASSUME NEW s \in sources' PROVE Pinged(s.client)' /\ client'[s.client].pingId = s.id
    <3>1. s \in sources /\ s.client \in Clients /\ Pinged(s.client) /\ client[s.client].pingId = s.id
      BY <1>2, <2>1 DEF Books, SourcesArePings, TypeOK, Sources
    <3>2. CASE s.client = c
      BY <1>1, <2>1, <3>1, <3>2 DEF Without, Pinged
    <3>3. CASE s.client # c
      BY <1>1, <3>1, <3>3 DEF Pinged
    <3> QED BY <3>2, <3>3
  <2>2. ASSUME NEW d \in Clients, Pinged(d)' PROVE Source(client'[d].pingId, d) \in sources'
    <3>1. client'[d].pingId = client[d].pingId /\ Pinged(d)
      BY <1>1, <2>2 DEF Pinged
    <3>2. Source(client[d].pingId, d) \in sources
      BY <3>1 DEF Books, SourcesArePings
    <3>3. CASE d = c
      BY <1>1, <2>2, <3>1, <3>2, <3>3 DEF Pinged
    <3>4. CASE d # c
      <4>1. client[d].pingId # client[c].pingId
        BY <3>1, <3>4 DEF Books, IdsApart
      <4> QED BY <3>1, <3>2, <4>1 DEF Without, Source
    <3> QED BY <3>3, <3>4
  <2> QED BY <2>1, <2>2 DEF SourcesArePings
<1>5. PingedAreHeld'
  BY <1>1 DEF Books, PingedAreHeld, Pinged
<1>6. \A i \in DOMAIN frames : frames[i].source.id # 0
  <2>1. \A i \in DOMAIN frames : frames[i] \in HangCalls
    BY DEF TypeOK
  <2> QED BY <2>1 DEF HangCalls, Sources, Ids
<1>7. IdsApart'
  <2>1. ASSUME NEW d \in Clients, NEW e \in Clients, Pinged(d)', client'[d].pingId = client'[e].pingId
        PROVE  d = e
    BY <1>1, <2>1 DEF Books, IdsApart, Pinged
  <2>2. ASSUME NEW i \in DOMAIN frames', NEW d \in Clients, frames'[i].source.id = client'[d].pingId
        PROVE  frames'[i].client = d
    <3>1. i \in DOMAIN frames /\ frames'[i] = frames[i]
      BY DEF CallsKept
    <3> QED BY <1>1, <1>6, <2>2, <3>1 DEF Books, IdsApart
  <2>3. \A i, j \in DOMAIN frames' : frames'[i].source.id = frames'[j].source.id => i = j
    BY DEF Books, IdsApart, CallsKept
  <2> QED BY <2>1, <2>2, <2>3 DEF IdsApart
<1>8. FramesOK'
  BY DEF Books, FramesOK, CallsKept
<1> QED BY <1>1, <1>2, <1>3, <1>4, <1>5, <1>7, <1>8 DEF Books

LEMMA CallsUnchanged ==
  ASSUME TypeOK, Books, UNCHANGED frames
  PROVE  /\ CallsKept
         /\ \A d \in Clients : Cardinality(CallsOn(d))' = Cardinality(CallsOn(d))
<1>1. CallsKept
  BY DEF CallsKept, TypeOK, Books, FramesOK
<1>2. \A d \in Clients : CallsOn(d)' = CallsOn(d)
  BY DEF CallsOn
<1> QED BY <1>1, <1>2

(* Nothing that is gone comes back, and a killed application does not run. *)
NothingRevived ==
  \A d \in Clients : /\ app[d] = "gone" => app'[d] = "gone"
                     /\ app'[d] \in {"up", "hung"} => app[d] \in {"up", "hung"}

DestroyedAreGone ==
  \A i \in DOMAIN queue' :
    \/ \E j \in DOMAIN queue : queue'[i] = queue[j]
    \/ queue'[i].type # "Destroy"
    \/ app'[queue'[i].client] = "gone"

HasAnswer(d) == Contains(inbox[d], "ping") \/ Replies(d) # {}

(* What a step must do for a client that is pinged after it.               *)
StillWatched(d) ==
  \/ ~Pinged(d)'
  \/ client'[d].listed /\ HasAnswer(d)'
  \/ /\ client'[d].pingId = client[d].pingId
     /\ client'[d].listed \/ ~client[d].listed \/ app'[d] = "gone"
     /\ \/ app'[d] \notin {"up", "hung"}
        \/ /\ Source(client[d].pingId, d) \in Firing => Source(client[d].pingId, d) \in Firing'
           /\ HasAnswer(d) => HasAnswer(d)'

LEMMA PromisesKept ==
  ASSUME IInv, TypeOK', NothingRevived, DestroyedAreGone, \A d \in Clients : StillWatched(d)
  PROVE  GoneBeforeDestroy' /\ OnlySilentArePinged'
<1>1. \A i \in DOMAIN queue' : queue'[i].type = "Destroy" => app'[queue'[i].client] = "gone"
  <2>1. \A j \in DOMAIN queue : queue[j] \in Events
    BY DEF IInv, TypeOK
  <2>2. \A j \in DOMAIN queue :
          queue[j].type = "Destroy" => app'[queue[j].client] = "gone"
    BY <2>1 DEF IInv, GoneBeforeDestroy, NothingRevived, Events
  <2> QED BY <2>2 DEF DestroyedAreGone
<1>2. ASSUME NEW d \in Clients, Pinged(d)', ~client'[d].listed PROVE app'[d] = "gone"
  BY <1>2 DEF StillWatched, IInv, GoneBeforeDestroy, NothingRevived, Pinged
<1>3. ASSUME NEW d \in Clients, Pinged(d)', app'[d] \in {"up", "hung"},
             Source(client'[d].pingId, d) \notin Firing'
      PROVE  HasAnswer(d)'
  <2>1. app[d] \in {"up", "hung"}
    BY <1>3 DEF NothingRevived
  <2>2. CASE client'[d].listed /\ HasAnswer(d)'
    BY <2>2
  <2>3. CASE /\ client'[d].pingId = client[d].pingId
             /\ Source(client[d].pingId, d) \in Firing => Source(client[d].pingId, d) \in Firing'
             /\ HasAnswer(d) => HasAnswer(d)'
    <3>1. Pinged(d) /\ Source(client[d].pingId, d) \notin Firing
      BY <1>3, <2>3 DEF Pinged
    <3>2. HasAnswer(d)
      BY <2>1, <3>1 DEF IInv, OnlySilentArePinged, HasAnswer
    <3> QED BY <2>3, <3>2
  <2> QED BY <1>3, <2>2, <2>3 DEF StillWatched
<1> QED BY <1>1, <1>2, <1>3 DEF GoneBeforeDestroy, OnlySilentArePinged, HasAnswer

-----------------------------------------------------------------------------
(* The inductive invariant *)

LEMMA InitIInv == Init => IInv
<1> SUFFICES ASSUME Init PROVE IInv
  OBVIOUS
<1>1. TypeOK
  BY DEF Init, TypeOK, NewClient, ClientRecords
<1>2. \A c \in Clients : CallsOn(c) = {}
  BY DEF Init, CallsOn
<1>3. RefsCounted
  <2>1. \A c \in Clients : Cardinality(CallsOn(c)) = 0
    BY <1>2, FS_EmptySet
  <2> QED BY <2>1 DEF Init, RefsCounted, NewClient
<1>4. SourcesArePings /\ PingedAreHeld /\ IdsApart
  BY DEF Init, SourcesArePings, PingedAreHeld, IdsApart, NewClient, Pinged
<1>5. FramesOK
  BY PingsAssumption DEF Init, FramesOK
<1>6. GoneBeforeDestroy /\ OnlySilentArePinged
  BY DEF Init, GoneBeforeDestroy, OnlySilentArePinged, NewClient, Pinged
<1> QED BY <1>1, <1>3, <1>4, <1>5, <1>6 DEF IInv, Books

(* The lists stay as they are while the clients and calls do.              *)
LEMMA BooksUntouched ==
  ASSUME Books, UNCHANGED <<client, sources, frames>>
  PROVE  Books'
BY DEF Books, RefsCounted, CallsOn, SourcesArePings, PingedAreHeld, IdsApart, FramesOK, Pinged

\* The connection of c breaks, when the other events are q.
Breaks(c, q) == app' = [app EXCEPT ![c] = "gone"] /\ queue' = q \o Closing(c)

(* A connection that breaks adds the end of its window to the queue.       *)
LEMMA ConnectionBreaks ==
  ASSUME TypeOK, NEW c \in Clients, NEW q \in Seq(Events), Breaks(c, q)
  PROVE  /\ app' \in [Clients -> {"up", "hung", "killed", "gone"}]
         /\ queue' \in Seq(Events)
         /\ app'[c] = "gone" /\ NothingRevived
         /\ \A i \in DOMAIN q : i \in DOMAIN queue' /\ queue'[i] = q[i]
         /\ \A i \in DOMAIN queue' :
              (i \in DOMAIN q /\ queue'[i] = q[i]) \/ app'[queue'[i].client] = "gone"
<1> DEFINE t == Closing(c)
<1>1. t \in Seq(Events) /\ \A j \in DOMAIN t : t[j].client = c
  BY ClosingEvents
<1> HIDE DEF t
<1>2. queue' = q \o t
  BY DEF t, Breaks
<1>3. /\ queue' \in Seq(Events) /\ DOMAIN queue' = 1..(Len(q) + Len(t))
      /\ \A i \in DOMAIN q : i \in DOMAIN queue' /\ queue'[i] = q[i]
  BY <1>1, <1>2
<1>4. \A i \in DOMAIN queue' : i \notin DOMAIN q =>
         i - Len(q) \in DOMAIN t /\ queue'[i] = t[i - Len(q)]
  BY <1>1, <1>2, <1>3
<1>5. app' \in [Clients -> {"up", "hung", "killed", "gone"}] /\ app'[c] = "gone"
      /\ \A d \in Clients \ {c} : app'[d] = app[d]
  BY DEF TypeOK, Breaks
<1>6. \A i \in DOMAIN queue' :
        (i \in DOMAIN q /\ queue'[i] = q[i]) \/ app'[queue'[i].client] = "gone"
  BY <1>1, <1>3, <1>4, <1>5
<1> QED BY <1>3, <1>5, <1>6 DEF NothingRevived

(* Shutting down a client ends its application, at once or soon.           *)
LEMMA ShutdownEnds ==
  ASSUME TypeOK, NEW c \in Clients, Shutdown(c)
  PROVE  /\ app' \in [Clients -> {"up", "hung", "killed", "gone"}]
         /\ queue' \in Seq(Events)
         /\ NothingRevived /\ DestroyedAreGone
         /\ \A d \in Clients : Replies(d) # {} => Replies(d)' # {}
<1>1. app \in [Clients -> {"up", "hung", "killed", "gone"}] /\ queue \in Seq(Events)
  BY DEF TypeOK
<1>2. CASE UNCHANGED <<app, queue>>
  BY <1>1, <1>2 DEF NothingRevived, DestroyedAreGone, Replies
<1>3. CASE app' = [app EXCEPT ![c] = "gone"] /\ queue' = queue \o Closing(c)
  <2>1. Breaks(c, queue)
    BY <1>3 DEF Breaks
  <2>2. /\ app' \in [Clients -> {"up", "hung", "killed", "gone"}]
        /\ queue' \in Seq(Events) /\ NothingRevived
        /\ \A i \in DOMAIN queue : i \in DOMAIN queue' /\ queue'[i] = queue[i]
        /\ \A i \in DOMAIN queue' :
             (i \in DOMAIN queue /\ queue'[i] = queue[i]) \/ app'[queue'[i].client] = "gone"
    BY <1>1, <2>1, ConnectionBreaks
  <2> QED BY <2>2 DEF DestroyedAreGone, Replies
<1>4. CASE app[c] # "gone" /\ app' = [app EXCEPT ![c] = "killed"] /\ UNCHANGED queue
  BY <1>1, <1>4 DEF NothingRevived, DestroyedAreGone, Replies
<1> QED BY <1>2, <1>3, <1>4 DEF Shutdown

LEMMA CloseKeepsIInv ==
  ASSUME IInv, NEW c \in Clients, Close(c)
  PROVE  IInv'
<1>1. TypeOK /\ Books /\ client[c].listed
  BY DEF IInv, Close
<1>2. CASE c \notin Deleting
  <2>1. Shutdown(c) /\ UNCHANGED <<client, sources, inbox, frames>>
    BY <1>2 DEF Close
  <2>2. TypeOK'
    BY <1>1, <2>1, ShutdownEnds DEF TypeOK
  <2>3. \A d \in Clients : StillWatched(d)
    BY <1>1, <2>1, ShutdownEnds DEF StillWatched, HasAnswer, Firing
  <2> QED BY <1>1, <2>1, <2>2, <2>3, ShutdownEnds, BooksUntouched, PromisesKept DEF IInv
<1>3. CASE c \in Deleting /\ Pinged(c)
  <2>1. /\ inbox' = [inbox EXCEPT ![c] = Append(@, "delete")]
        /\ UNCHANGED <<app, queue, client, sources, frames>>
    BY <1>3 DEF Close, PingStart
  <2>2. TypeOK'
    BY <1>1, <2>1 DEF TypeOK
  <2>3. \A d \in Clients : Contains(inbox[d], "ping") => Contains(inbox'[d], "ping")
    <3>1. inbox \in [Clients -> Seq({"delete", "ping"})]
      BY <1>1 DEF TypeOK
    <3>2. inbox'[c] = Append(inbox[c], "delete") /\ \A d \in Clients \ {c} : inbox'[d] = inbox[d]
      BY <2>1, <3>1
    <3>3. Contains(inbox[c], "ping") => Contains(inbox'[c], "ping")
      BY <3>1, <3>2 DEF Contains
    <3> QED BY <3>2, <3>3
  <2>4. \A d \in Clients : StillWatched(d)
    BY <2>1, <2>3 DEF StillWatched, HasAnswer, Firing, Replies
  <2>5. NothingRevived /\ DestroyedAreGone
    BY <2>1 DEF NothingRevived, DestroyedAreGone
  <2> QED BY <1>1, <2>1, <2>2, <2>4, <2>5, BooksUntouched, PromisesKept DEF IInv
<1>4. CASE c \in Deleting /\ ~Pinged(c)
  <2>1. /\ client' = [client EXCEPT ![c].pingId = FreshId]
        /\ sources' = sources \cup {Source(FreshId, c)}
        /\ inbox' = [inbox EXCEPT ![c] = @ \o <<"delete", "ping">>]
        /\ UNCHANGED <<app, queue, frames>>
    BY <1>4 DEF Close, PingStart
  <2>2. PICK id \in Ids : id = FreshId /\ id \notin IdsInUse
    BY <1>1, <1>4, FreshIdIsFree
  <2> DEFINE k == [client[c] EXCEPT !.pingId = id]
  <2>3. /\ k \in ClientRecords /\ k.pingId = id /\ k.refs = client[c].refs
        /\ k.listed = client[c].listed
        /\ client' \in [Clients -> ClientRecords]
        /\ client'[c] = k /\ \A d \in Clients \ {c} : client'[d] = client[d]
    BY <1>1, <2>1, <2>2 DEF TypeOK, ClientRecords
  <2> HIDE DEF k
  <2>4. Source(id, c) \in Sources /\ Source(id, c).client = c /\ Source(id, c).id = id /\ id # 0
    BY DEF Source, Sources, Ids
  <2>5. inbox' \in [Clients -> Seq({"delete", "ping"})] /\ Contains(inbox'[c], "ping")
        /\ \A d \in Clients \ {c} : inbox'[d] = inbox[d]
    <3>1. inbox \in [Clients -> Seq({"delete", "ping"})]
      BY <1>1 DEF TypeOK
    <3>2. /\ inbox'[c] = inbox[c] \o <<"delete", "ping">>
          /\ \A d \in Clients \ {c} : inbox'[d] = inbox[d]
      BY <2>1, <3>1
    <3>3. inbox[c] \in Seq({"delete", "ping"}) /\ <<"delete", "ping">> \in Seq({"delete", "ping"})
      BY <3>1
    <3>4. inbox'[c] \in Seq({"delete", "ping"}) /\ Len(inbox'[c]) = Len(inbox[c]) + 2
          /\ inbox'[c][Len(inbox[c]) + 2] = "ping"
      BY <3>2, <3>3
    <3>5. Len(inbox[c]) + 2 \in 1..Len(inbox'[c])
      BY <3>3, <3>4
    <3>6. Contains(inbox'[c], "ping")
      BY <3>4, <3>5 DEF Contains
    <3>7. inbox' \in [Clients -> Seq({"delete", "ping"})]
      BY <2>1, <3>1, <3>2, <3>4
    <3> QED BY <3>2, <3>6, <3>7
  <2>6. TypeOK'
    BY <1>1, <2>1, <2>2, <2>3, <2>4, <2>5 DEF TypeOK
  <2>7. Books'
    <3>1. \A d \in Clients : CallsOn(d)' = CallsOn(d)
      BY <2>1 DEF CallsOn
    <3>2. RefsCounted'
      BY <1>1, <2>3, <3>1 DEF Books, RefsCounted
    <3>3. SourcesArePings'
      <4>1. \A s \in sources : s.client \in Clients \ {c}
        BY <1>1, <1>4 DEF Books, SourcesArePings, TypeOK, Sources
      <4> QED BY <1>1, <2>1, <2>2, <2>3, <2>4, <4>1 DEF Books, SourcesArePings, Pinged
    <3>4. client[c].refs > 0
      BY <1>1, CallsOnIsFinite DEF Books, RefsCounted
    <3>5. PingedAreHeld'
      BY <1>1, <2>3, <3>4 DEF Books, PingedAreHeld, Pinged
    <3>6. /\ \A d \in Clients : client[d].pingId # id
          /\ \A i \in DOMAIN frames : frames[i].source.id # id
      BY <2>2 DEF IdsInUse, Firing
    <3>7. IdsApart'
      <4>1. \A d, e \in Clients : Pinged(d)' /\ client'[d].pingId = client'[e].pingId => d = e
        BY <1>1, <2>3, <3>6 DEF Books, IdsApart, Pinged
      <4>2. \A i \in DOMAIN frames', d \in Clients :
              frames'[i].source.id = client'[d].pingId => frames'[i].client = d
        BY <1>1, <2>1, <2>3, <3>6 DEF Books, IdsApart
      <4> QED BY <1>1, <2>1, <4>1, <4>2 DEF Books, IdsApart
    <3>8. FramesOK'
      BY <1>1, <2>1 DEF Books, FramesOK
    <3> QED BY <3>2, <3>3, <3>5, <3>7, <3>8 DEF Books
  <2>8. \A d \in Clients : StillWatched(d)
    <3>1. StillWatched(c)
      BY <1>1, <2>3, <2>5 DEF StillWatched, HasAnswer
    <3>2. ASSUME NEW d \in Clients \ {c} PROVE StillWatched(d)
      BY <2>1, <2>3, <2>5 DEF StillWatched, HasAnswer, Firing, Replies
    <3> QED BY <3>1, <3>2
  <2>9. NothingRevived /\ DestroyedAreGone
    BY <2>1 DEF NothingRevived, DestroyedAreGone
  <2> QED BY <2>6, <2>7, <2>8, <2>9, PromisesKept DEF IInv
<1> QED BY <1>2, <1>3, <1>4

(* One more event that is not a Destroy, and no client changed.            *)
LEMMA EventAddedKeepsPromises ==
  ASSUME IInv, TypeOK', NEW e \in Events, e.type # "Destroy", queue' = Append(queue, e),
         UNCHANGED <<app, frames>>,
         \A d \in Clients : /\ client'[d].pingId = client[d].pingId
                            /\ client'[d].listed = client[d].listed
                            /\ \/ Contains(inbox[d], "ping") => Contains(inbox'[d], "ping")
                               \/ e.type = "Reply" /\ e.client = d
  PROVE  GoneBeforeDestroy' /\ OnlySilentArePinged'
<1>1. queue \in Seq(Events)
  BY DEF IInv, TypeOK
<1>2. /\ \A c \in Clients : Replies(c) # {} => Replies(c)' # {}
      /\ \A i \in DOMAIN queue' : 
                \/ i \in DOMAIN queue /\ queue'[i] = queue[i]
                \/ queue'[i] = e
      /\ e.type \in {"Reply", "Unmap", "Destroy"} => Replies(e.client)' # {}
  BY <1>1, QueueGrowsByOne
<1>3. \A d \in Clients : StillWatched(d)
  BY <1>2 DEF StillWatched, HasAnswer, Firing
<1>4. NothingRevived /\ DestroyedAreGone
  BY <1>2 DEF NothingRevived, DestroyedAreGone
<1> QED BY <1>3, <1>4, PromisesKept

LEMMA ReparentKeepsIInv ==
  ASSUME IInv, NEW c \in Clients, Reparent(c)
  PROVE  IInv'
<1> DEFINE e == Event("Unmap", c, "reparent")
           k == [client[c] EXCEPT !.skips = @ + 1]
<1>1. /\ TypeOK /\ Books /\ queue' = Append(queue, e)
      /\ client' = [client EXCEPT ![c] = k]
      /\ UNCHANGED <<app, inbox, sources, frames>>
  BY DEF IInv, Reparent
<1>2. e \in Events /\ e.type = "Unmap"
  BY DEF Event, Events
<1>3. /\ k \in ClientRecords /\ k.pingId = client[c].pingId /\ k.refs = client[c].refs
      /\ k.listed = client[c].listed
  <2>1. client[c] \in ClientRecords
    BY <1>1 DEF TypeOK
  <2> QED BY <2>1 DEF ClientRecords
<1> HIDE DEF e, k
<1>4. client' \in [Clients -> ClientRecords] /\ Books'
  <2>1. k.pingId # 0 => k.refs > 0
    BY <1>1, <1>3 DEF Books, PingedAreHeld, Pinged
  <2>2. /\ CallsKept
        /\ \A d \in Clients : Cardinality(CallsOn(d))' = Cardinality(CallsOn(d))
    BY <1>1, CallsUnchanged
  <2>3. k.refs = (IF k.listed THEN 1 ELSE 0) + Cardinality(CallsOn(c))'
    BY <1>1, <1>3, <2>2 DEF Books, RefsCounted
  <2> QED BY <1>1, <1>3, <2>1, <2>2, <2>3, ClientSettles
<1>5. TypeOK'
  BY <1>1, <1>2, <1>4, QueueGrowsByOne DEF TypeOK
<1>6. \A d \in Clients : client'[d].pingId = client[d].pingId /\ client'[d].listed = client[d].listed
  BY <1>1, <1>3 DEF TypeOK
<1> QED BY <1>1, <1>2, <1>4, <1>5, <1>6, EventAddedKeepsPromises DEF IInv

LEMMA AskToShutKeepsIInv ==
  ASSUME IInv, NEW c \in Clients, AskToShut(c)
  PROVE  IInv'
<1> DEFINE e == Event("NetClose", c, "pager")
<1>1. /\ TypeOK /\ Books /\ queue' = Append(queue, e)
      /\ UNCHANGED <<app, inbox, client, sources, frames>>
  BY DEF IInv, AskToShut
<1>2. e \in Events /\ e.type = "NetClose"
  BY DEF Event, Events
<1> HIDE DEF e
<1>3. TypeOK'
  BY <1>1, <1>2, QueueGrowsByOne DEF TypeOK
<1> QED BY <1>1, <1>2, <1>3, EventAddedKeepsPromises, BooksUntouched DEF IInv

LEMMA ReadKeepsIInv ==
  ASSUME IInv, NEW c \in Clients, Read(c)
  PROVE  IInv'
<1>1. /\ TypeOK /\ Books /\ inbox' = [inbox EXCEPT ![c] = Tail(@)] /\ inbox[c] # << >>
      /\ app[c] = "up"
      /\ UNCHANGED <<client, sources, frames>>
  BY DEF IInv, Read
<1>2. /\ inbox' \in [Clients -> Seq({"delete", "ping"})]
      /\ \A d \in Clients \ {c} : inbox'[d] = inbox[d]
      /\ Message(c) = "ping" \/ (Contains(inbox[c], "ping") => Contains(inbox'[c], "ping"))
  <2>1. inbox[c] \in Seq({"delete", "ping"}) /\ inbox'[c] = Tail(inbox[c])
    BY <1>1 DEF TypeOK
  <2>2. /\ Tail(inbox[c]) \in Seq({"delete", "ping"}) /\ Head(inbox[c]) = inbox[c][1]
        /\ Len(Tail(inbox[c])) = Len(inbox[c]) - 1 /\ Len(inbox[c]) \in Nat \ {0}
        /\ \A i \in 1..(Len(inbox[c]) - 1) : Tail(inbox[c])[i] = inbox[c][i + 1]
    BY <1>1, <2>1
  <2>3. ASSUME NEW i \in 1..Len(inbox[c]), inbox[c][i] = "ping", inbox[c][1] # "ping"
        PROVE  \E j \in 1..Len(inbox'[c]) : inbox'[c][j] = "ping"
    <3>1. i - 1 \in 1..Len(inbox'[c]) /\ inbox'[c][i - 1] = "ping"
      BY <2>1, <2>2, <2>3
    <3> QED BY <3>1
  <2>4. inbox' \in [Clients -> Seq({"delete", "ping"})] /\ \A d \in Clients \ {c} : inbox'[d] = inbox[d]
    BY <1>1, <2>1, <2>2 DEF TypeOK
  <2> QED BY <2>2, <2>3, <2>4 DEF Message, Contains
<1>3. CASE Message(c) = "ping"
  <2> DEFINE e == Event("Reply", c, "app")
  <2>1. e \in Events /\ e.type = "Reply" /\ e.client = c
    BY DEF Event, Events
  <2>2. queue' = Append(queue, e)
    BY <1>3 DEF Read
  <2>3. UNCHANGED app
    <3>1. Len(queue \o Closing(c)) # Len(Append(queue, e))
      BY <1>1 DEF TypeOK, Closing
    <3> QED BY <2>2, <3>1 DEF Read
  <2> HIDE DEF e
  <2>4. TypeOK'
    BY <1>1, <1>2, <2>1, <2>2, <2>3, QueueGrowsByOne DEF TypeOK
  <2> QED BY <1>1, <1>2, <2>1, <2>2, <2>3, <2>4, EventAddedKeepsPromises, BooksUntouched DEF IInv
<1>4. CASE Message(c) # "ping" /\ queue' = queue \o Closing(c)
  <2>1. Breaks(c, queue) /\ queue \in Seq(Events)
    BY <1>1, <1>4 DEF Read, Breaks, TypeOK
  <2>2. /\ app' \in [Clients -> {"up", "hung", "killed", "gone"}]
        /\ queue' \in Seq(Events) /\ NothingRevived
        /\ \A i \in DOMAIN queue : i \in DOMAIN queue' /\ queue'[i] = queue[i]
        /\ \A i \in DOMAIN queue' :
             (i \in DOMAIN queue /\ queue'[i] = queue[i]) \/ app'[queue'[i].client] = "gone"
    BY <1>1, <1>4, <2>1, ConnectionBreaks
  <2>3. TypeOK'
    BY <1>1, <1>2, <2>2 DEF TypeOK
  <2>4. \A d \in Clients : Replies(d) # {} => Replies(d)' # {}
    BY <2>2 DEF Replies
  <2>5. \A d \in Clients : StillWatched(d)
    BY <1>1, <1>2, <1>4, <2>4 DEF StillWatched, HasAnswer, Firing
  <2>6. DestroyedAreGone
    BY <2>2 DEF DestroyedAreGone
  <2> QED BY <1>1, <2>2, <2>3, <2>5, <2>6, BooksUntouched, PromisesKept DEF IInv
<1>5. CASE Message(c) # "ping" /\ queue' # queue \o Closing(c)
  <2>1. UNCHANGED app
    BY <1>5 DEF Read
  <2>2. CASE UNCHANGED queue
    <3>1. TypeOK'
      BY <1>1, <1>2, <2>1, <2>2 DEF TypeOK
    <3>2. \A d \in Clients : StillWatched(d)
      BY <1>1, <1>2, <1>5, <2>2 DEF StillWatched, HasAnswer, Firing, Replies
    <3>3. NothingRevived /\ DestroyedAreGone
      BY <2>1, <2>2 DEF NothingRevived, DestroyedAreGone
    <3> QED BY <1>1, <3>1, <3>2, <3>3, BooksUntouched, PromisesKept DEF IInv
  <2>3. CASE queue' = Append(queue, Event("Unmap", c, "app"))
    <3> DEFINE e == Event("Unmap", c, "app")
    <3>1. e \in Events /\ e.type = "Unmap" /\ queue' = Append(queue, e)
      BY <2>3 DEF Event, Events
    <3> HIDE DEF e
    <3>2. TypeOK'
      BY <1>1, <1>2, <2>1, <3>1, QueueGrowsByOne DEF TypeOK
    <3> QED BY <1>1, <1>2, <1>5, <2>1, <3>1, <3>2, EventAddedKeepsPromises, BooksUntouched DEF IInv
  <2> QED BY <1>5, <2>2, <2>3 DEF Read
<1> QED BY <1>3, <1>4, <1>5

LEMMA HangOrRecoverKeepsIInv ==
  ASSUME IInv, NEW c \in Clients, Hang(c) \/ Recover(c)
  PROVE  IInv'
<1>1. TypeOK /\ Books /\ UNCHANGED <<inbox, queue, client, sources, frames>>
  BY DEF IInv, Hang, Recover
<1>2. TypeOK' /\ NothingRevived
  BY <1>1 DEF TypeOK, Hang, Recover, NothingRevived
<1>3. DestroyedAreGone
  BY <1>1 DEF DestroyedAreGone
<1>4. \A d \in Clients : StillWatched(d)
  BY <1>1 DEF StillWatched, HasAnswer, Firing, Replies
<1> QED BY <1>1, <1>2, <1>3, <1>4, BooksUntouched, PromisesKept DEF IInv

LEMMA DisconnectKeepsIInv ==
  ASSUME IInv, NEW c \in Clients, Disconnect(c)
  PROVE  IInv'
<1>1. /\ TypeOK /\ Books /\ queue \in Seq(Events)
      /\ app' = [app EXCEPT ![c] = "gone"] /\ Breaks(c, queue)
      /\ inbox' = [inbox EXCEPT ![c] = << >>]
      /\ UNCHANGED <<client, sources, frames>>
  BY DEF IInv, Disconnect, Breaks, TypeOK
<1>2. /\ app' \in [Clients -> {"up", "hung", "killed", "gone"}]
      /\ queue' \in Seq(Events) /\ NothingRevived
      /\ \A i \in DOMAIN queue : i \in DOMAIN queue' /\ queue'[i] = queue[i]
      /\ \A i \in DOMAIN queue' :
           (i \in DOMAIN queue /\ queue'[i] = queue[i]) \/ app'[queue'[i].client] = "gone"
  BY <1>1, ConnectionBreaks
<1>3. TypeOK'
  BY <1>1, <1>2 DEF TypeOK
<1>4. \A d \in Clients : Replies(d) # {} => Replies(d)' # {}
  BY <1>2 DEF Replies
<1>5. app'[c] = "gone" /\ \A d \in Clients \ {c} : inbox'[d] = inbox[d]
  BY <1>1 DEF TypeOK
<1>6. \A d \in Clients : StillWatched(d)
  BY <1>1, <1>2, <1>4, <1>5 DEF StillWatched, HasAnswer, Firing
<1>7. DestroyedAreGone
  BY <1>2 DEF DestroyedAreGone
<1>8. Books'
  BY <1>1, BooksUntouched
<1> QED BY <1>2, <1>3, <1>6, <1>7, <1>8, PromisesKept DEF IInv

(* Handling an event is taking it: its client must not be pinged after it,
   or be gone.                                                             *)
LEMMA EventTakenKeepsPromises ==
  ASSUME IInv, TypeOK', queue # << >>, queue' = Tail(queue), UNCHANGED <<app, inbox, frames>>,
         NEW c \in Clients, c = Head(queue).client,
         \A d \in Clients \ {c} : client'[d] = client[d],
         ~Pinged(c)' \/ (app[c] = "gone" /\ client'[c].pingId = client[c].pingId)
  PROVE  GoneBeforeDestroy' /\ OnlySilentArePinged'
<1>1. queue \in Seq(Events)
  BY DEF IInv, TypeOK
<1>2. /\ \A i \in DOMAIN queue' : i + 1 \in DOMAIN queue /\ queue'[i] = queue[i + 1]
      /\ \A d \in Clients \ {c} : Replies(d) # {} => Replies(d)' # {}
  BY <1>1, QueueShrinks
<1>3. NothingRevived /\ DestroyedAreGone
  BY <1>2 DEF NothingRevived, DestroyedAreGone
<1>4. StillWatched(c)
  BY DEF StillWatched
<1>5. \A d \in Clients \ {c} : StillWatched(d)
  BY <1>2 DEF StillWatched, HasAnswer, Firing
<1> QED BY <1>3, <1>4, <1>5, PromisesKept

(* Dropping the list's reference: k is the client without it.              *)
LEMMA UnrefSettles ==
  ASSUME TypeOK, Books, NEW c \in Clients, client[c].listed, UNCHANGED frames,
         NEW k \in ClientRecords, ~k.listed, k.refs = client[c].refs,
         k.pingId \in {0, client[c].pingId},
         Unref(c, k)
  PROVE  /\ client' \in [Clients -> ClientRecords] /\ sources' \subseteq Sources
         /\ Books'
         /\ \A d \in Clients \ {c} : client'[d] = client[d]
         /\ client'[c].pingId \in {0, k.pingId}
<1>1. client[c] \in ClientRecords /\ client \in [Clients -> ClientRecords]
  BY DEF TypeOK
<1>2. /\ CallsKept
      /\ \A d \in Clients : Cardinality(CallsOn(d))' = Cardinality(CallsOn(d))
  BY CallsUnchanged
<1>3. client[c].refs = 1 + Cardinality(CallsOn(c)) /\ Cardinality(CallsOn(c)) \in Nat
  BY CallsOnIsFinite DEF Books, RefsCounted
<1>4. CASE k.refs > 1
  <2> DEFINE h == [k EXCEPT !.refs = @ - 1]
  <2>1. /\ h \in ClientRecords /\ h.refs = k.refs - 1 /\ h.pingId = k.pingId /\ ~h.listed
    BY <1>3, <1>4 DEF ClientRecords
  <2>2. /\ client' = [client EXCEPT ![c] = h]
        /\ sources' = IF k.pingId = client[c].pingId THEN sources ELSE Without(client[c].pingId)
    BY <1>4 DEF Unref
  <2> HIDE DEF h
  <2>3. h.refs = (IF h.listed THEN 1 ELSE 0) + Cardinality(CallsOn(c))'
    BY <1>2, <1>3, <2>1
  <2>4. h.pingId # 0 => h.refs > 0
    BY <1>3, <1>4, <2>1
  <2>5. /\ client' \in [Clients -> ClientRecords] /\ sources' \subseteq Sources /\ Books'
    BY <1>2, <2>1, <2>2, <2>3, <2>4, ClientSettles
  <2> QED BY <1>1, <2>1, <2>2, <2>5
<1>5. CASE ~(k.refs > 1)
  <2> DEFINE h == [k EXCEPT !.refs = 0, !.pingId = 0]
  <2>1. /\ h \in ClientRecords /\ h.refs = 0 /\ h.pingId = 0 /\ ~h.listed
    BY DEF ClientRecords
  <2>2. client' = [client EXCEPT ![c] = h] /\ sources' = Without(client[c].pingId)
    BY <1>5 DEF Unref
  <2> HIDE DEF h
  <2>3. h.refs = (IF h.listed THEN 1 ELSE 0) + Cardinality(CallsOn(c))'
    BY <1>2, <1>3, <1>5, <2>1
  <2>4. /\ client' \in [Clients -> ClientRecords] /\ sources' \subseteq Sources /\ Books'
    BY <1>2, <2>1, <2>2, <2>3, ClientSettles
  <2> QED BY <1>1, <2>1, <2>2, <2>4
<1> QED BY <1>4, <1>5

(* A client that loses its ping, and keeps its references.                 *)
LEMMA PingEnds ==
  ASSUME TypeOK, Books, NEW c \in Clients, UNCHANGED frames,
         NEW k \in ClientRecords, k.listed = client[c].listed, k.refs = client[c].refs,
         k.pingId = 0, client' = [client EXCEPT ![c] = k], sources' = Without(client[c].pingId)
  PROVE  /\ client' \in [Clients -> ClientRecords] /\ sources' \subseteq Sources
         /\ Books'
         /\ \A d \in Clients \ {c} : client'[d] = client[d]
         /\ ~Pinged(c)'
<1>1. client \in [Clients -> ClientRecords]
  BY DEF TypeOK
<1>2. /\ CallsKept
      /\ \A d \in Clients : Cardinality(CallsOn(d))' = Cardinality(CallsOn(d))
  BY CallsUnchanged
<1>3. k.refs = (IF k.listed THEN 1 ELSE 0) + Cardinality(CallsOn(c))'
  BY <1>2 DEF Books, RefsCounted
<1> QED BY <1>1, <1>2, <1>3, ClientSettles DEF Pinged

LEMMA HandleReplyKeepsIInv ==
  ASSUME IInv, HandleReply
  PROVE  IInv'
<1>1. /\ TypeOK /\ Books /\ queue \in Seq(Events) /\ queue # << >> /\ queue' = Tail(queue)
      /\ UNCHANGED <<app, inbox, frames>>
  BY DEF IInv, HandleReply, Receive, Done, TypeOK
<1>2. queue' \in Seq(Events) /\ Head(queue) \in Events
  BY <1>1, QueueShrinks
<1>3. PICK c \in Clients : c = Head(queue).client
  BY <1>2 DEF Events
<1>4. CASE client[c].listed
  <2> DEFINE k == [client[c] EXCEPT !.pingId = 0]
  <2>1. client[c] \in ClientRecords
    BY <1>1 DEF TypeOK
  <2>2. k \in ClientRecords /\ k.listed = client[c].listed /\ k.refs = client[c].refs /\ k.pingId = 0
    BY <2>1 DEF ClientRecords
  <2>3. client' = [client EXCEPT ![c] = k] /\ sources' = Without(client[c].pingId)
    BY <1>3, <1>4 DEF HandleReply, PingStop
  <2> HIDE DEF k
  <2>4. /\ client' \in [Clients -> ClientRecords] /\ sources' \subseteq Sources /\ Books'
        /\ \A d \in Clients \ {c} : client'[d] = client[d]
        /\ ~Pinged(c)'
    BY <1>1, <2>2, <2>3, PingEnds
  <2>5. TypeOK'
    BY <1>1, <1>2, <2>4 DEF TypeOK
  <2>6. ~Pinged(c)' \/ (app[c] = "gone" /\ client'[c].pingId = client[c].pingId)
    BY <2>4
  <2>7. queue # << >> /\ queue' = Tail(queue) /\ UNCHANGED <<app, inbox, frames>>
    BY <1>1
  <2>8. \A d \in Clients \ {c} : client'[d] = client[d]
    BY <2>4
  <2>9. GoneBeforeDestroy' /\ OnlySilentArePinged'
    BY <1>3, <2>5, <2>6, <2>7, <2>8, EventTakenKeepsPromises, Zenon
  <2> QED BY <2>4, <2>5, <2>9 DEF IInv
<1>5. CASE ~client[c].listed
  <2>1. UNCHANGED <<client, sources>>
    BY <1>3, <1>5 DEF HandleReply
  <2>2. TypeOK'
    BY <1>1, <1>2, <2>1 DEF TypeOK
  <2>3. ~Pinged(c)' \/ (app[c] = "gone" /\ client'[c].pingId = client[c].pingId)
    BY <1>5, <2>1 DEF IInv, GoneBeforeDestroy, Pinged
  <2> QED BY <1>1, <1>3, <2>1, <2>2, <2>3, EventTakenKeepsPromises, BooksUntouched DEF IInv
<1> QED BY <1>4, <1>5

LEMMA HandleUnmapKeepsIInv ==
  ASSUME IInv, HandleUnmap
  PROVE  IInv'
<1>1. /\ TypeOK /\ Books /\ queue \in Seq(Events) /\ queue # << >> /\ queue' = Tail(queue)
      /\ UNCHANGED <<app, inbox, frames>>
  BY DEF IInv, HandleUnmap, Receive, Done, TypeOK
<1>2. queue' \in Seq(Events) /\ Head(queue) \in Events
  BY <1>1, QueueShrinks
<1>3. PICK c \in Clients : c = Head(queue).client
  BY <1>2 DEF Events
<1> DEFINE k == [client[c] EXCEPT !.pingId = 0]
<1>4. /\ client[c] \in ClientRecords /\ k \in ClientRecords
      /\ k.listed = client[c].listed /\ k.refs = client[c].refs /\ k.pingId = 0
      /\ k.skips = client[c].skips
  <2>1. client[c] \in ClientRecords
    BY <1>1 DEF TypeOK
  <2> QED BY <2>1 DEF ClientRecords
<1>5. ~client[c].listed => UNCHANGED <<client, sources>>
  BY <1>3 DEF HandleUnmap
<1>6. client[c].listed /\ k.skips > 0 =>
        /\ client' = [client EXCEPT ![c] = [k EXCEPT !.skips = @ - 1]]
        /\ sources' = Without(client[c].pingId)
  BY <1>3 DEF HandleUnmap
<1>7. client[c].listed /\ ~(k.skips > 0) => Unref(c, [k EXCEPT !.listed = FALSE])
  BY <1>3 DEF HandleUnmap
<1> HIDE DEF k
<1>8. CASE ~client[c].listed
  <2>1. TypeOK'
    BY <1>1, <1>2, <1>5, <1>8 DEF TypeOK
  <2>2. ~Pinged(c)' \/ (app[c] = "gone" /\ client'[c].pingId = client[c].pingId)
    BY <1>5, <1>8 DEF IInv, GoneBeforeDestroy, Pinged
  <2> QED BY <1>1, <1>3, <1>5, <1>8, <2>1, <2>2, EventTakenKeepsPromises, BooksUntouched DEF IInv
<1>9. CASE client[c].listed
  <2>1. /\ client' \in [Clients -> ClientRecords] /\ sources' \subseteq Sources /\ Books'
        /\ \A d \in Clients \ {c} : client'[d] = client[d]
        /\ ~Pinged(c)'
    <3>1. CASE k.skips > 0
      <4> DEFINE h == [k EXCEPT !.skips = @ - 1]
      <4>1. /\ h \in ClientRecords /\ h.listed = client[c].listed
            /\ h.refs = client[c].refs /\ h.pingId = 0
        BY <1>4, <3>1 DEF ClientRecords
      <4>2. client' = [client EXCEPT ![c] = h] /\ sources' = Without(client[c].pingId)
        BY <1>6, <1>9, <3>1
      <4> HIDE DEF h
      <4> QED BY <1>1, <4>1, <4>2, PingEnds
    <3>2. CASE ~(k.skips > 0)
      <4> DEFINE h == [k EXCEPT !.listed = FALSE]
      <4>1. /\ h \in ClientRecords /\ ~h.listed
            /\ h.refs = client[c].refs /\ h.pingId = 0
        BY <1>4 DEF ClientRecords
      <4>2. Unref(c, h)
        BY <1>7, <1>9, <3>2
      <4> HIDE DEF h
      <4>3. /\ client' \in [Clients -> ClientRecords] /\ sources' \subseteq Sources
            /\ Books'
            /\ \A d \in Clients \ {c} : client'[d] = client[d]
            /\ client'[c].pingId \in {0, h.pingId}
        BY <1>1, <1>9, <4>1, <4>2, UnrefSettles
      <4> QED BY <4>1, <4>3 DEF Pinged
    <3> QED BY <3>1, <3>2
  <2>2. TypeOK'
    BY <1>1, <1>2, <2>1 DEF TypeOK
  <2>3. GoneBeforeDestroy' /\ OnlySilentArePinged'
    BY <1>1, <1>3, <2>1, <2>2, EventTakenKeepsPromises
  <2> QED BY <2>1, <2>2, <2>3 DEF IInv
<1> QED BY <1>8, <1>9

LEMMA HandleDestroyKeepsIInv ==
  ASSUME IInv, HandleDestroy
  PROVE  IInv'
<1>1. /\ TypeOK /\ Books /\ queue \in Seq(Events) /\ queue # << >> /\ queue' = Tail(queue)
      /\ UNCHANGED <<app, inbox, frames>>
  BY DEF IInv, HandleDestroy, Receive, Done, TypeOK
<1>2. /\ queue' \in Seq(Events) /\ Head(queue) \in Events
      /\ 1 \in DOMAIN queue /\ Head(queue) = queue[1]
  BY <1>1, QueueShrinks
<1>3. PICK c \in Clients : c = Head(queue).client
  BY <1>2 DEF Events
<1>4. app[c] = "gone"
  BY <1>2, <1>3 DEF HandleDestroy, Receive, IInv, GoneBeforeDestroy
<1>5. CASE ~client[c].listed
  <2>1. UNCHANGED <<client, sources>>
    BY <1>3, <1>5 DEF HandleDestroy
  <2>2. TypeOK'
    BY <1>1, <1>2, <2>1 DEF TypeOK
  <2>3. ~Pinged(c)' \/ (app[c] = "gone" /\ client'[c].pingId = client[c].pingId)
    BY <1>4, <2>1
  <2> QED BY <1>1, <1>3, <2>1, <2>2, <2>3, EventTakenKeepsPromises, BooksUntouched DEF IInv
<1>6. CASE client[c].listed
  <2> DEFINE h == [client[c] EXCEPT !.listed = FALSE]
  <2>1. client[c] \in ClientRecords
    BY <1>1 DEF TypeOK
  <2>2. /\ h \in ClientRecords /\ ~h.listed
        /\ h.refs = client[c].refs /\ h.pingId = client[c].pingId
    BY <2>1 DEF ClientRecords
  <2>3. Unref(c, h)
    BY <1>3, <1>6 DEF HandleDestroy
  <2> HIDE DEF h
  <2>4. /\ client' \in [Clients -> ClientRecords] /\ sources' \subseteq Sources
        /\ Books'
        /\ \A d \in Clients \ {c} : client'[d] = client[d]
        /\ client'[c].pingId \in {0, h.pingId}
    BY <1>1, <1>6, <2>2, <2>3, UnrefSettles
  <2>5. TypeOK'
    BY <1>1, <1>2, <2>4 DEF TypeOK
  <2>6. ~Pinged(c)' \/ (app[c] = "gone" /\ client'[c].pingId = client[c].pingId)
    BY <1>4, <2>2, <2>4 DEF Pinged
  <2>7. GoneBeforeDestroy' /\ OnlySilentArePinged'
    BY <1>1, <1>3, <2>4, <2>5, <2>6, EventTakenKeepsPromises
  <2> QED BY <2>4, <2>5, <2>7 DEF IInv
<1> QED BY <1>5, <1>6

LEMMA HandleNetCloseKeepsIInv ==
  ASSUME IInv, HandleNetClose
  PROVE  IInv'
<1>1. /\ TypeOK /\ Books /\ queue \in Seq(Events) /\ queue # << >> /\ Head(queue).type = "NetClose"
      /\ app \in [Clients -> {"up", "hung", "killed", "gone"}]
      /\ UNCHANGED <<inbox, client, sources, frames>>
  BY DEF IInv, HandleNetClose, Receive, TypeOK
<1>2. /\ Head(queue) \in Events /\ Head(queue) = queue[1] /\ Tail(queue) \in Seq(Events)
      /\ \A i \in DOMAIN Tail(queue) : i + 1 \in DOMAIN queue /\ Tail(queue)[i] = queue[i + 1]
      /\ \A i \in DOMAIN queue : i # 1 =>
           i - 1 \in DOMAIN Tail(queue) /\ Tail(queue)[i - 1] = queue[i]
  BY <1>1
<1>3. PICK c \in Clients : c = Head(queue).client
  BY <1>2 DEF Events
<1>4. CASE app' = [app EXCEPT ![c] = "gone"] /\ app[c] # "gone"
  <2>1. app'[c] = "gone"
    BY <1>1, <1>4
  <2>2. Breaks(c, Tail(queue))
    BY <1>3, <1>4, <2>1 DEF HandleNetClose, Breaks
  <2>3. /\ app' \in [Clients -> {"up", "hung", "killed", "gone"}]
        /\ queue' \in Seq(Events) /\ NothingRevived
        /\ \A i \in DOMAIN Tail(queue) : i \in DOMAIN queue' /\ queue'[i] = Tail(queue)[i]
        /\ \A i \in DOMAIN queue' :
             \/ i \in DOMAIN Tail(queue) /\ queue'[i] = Tail(queue)[i]
             \/ app'[queue'[i].client] = "gone"
    BY <1>1, <1>2, <2>2, ConnectionBreaks
  <2>4. TypeOK'
    BY <1>1, <2>3 DEF TypeOK
  <2>5. \A d \in Clients : Replies(d) # {} => Replies(d)' # {}
    <3>1. ASSUME NEW d \in Clients, NEW i \in Replies(d) PROVE i - 1 \in Replies(d)'
      BY <1>1, <1>2, <2>3, <3>1 DEF Replies
    <3> QED BY <3>1
  <2>6. DestroyedAreGone
    BY <1>2, <2>3 DEF DestroyedAreGone
  <2>7. \A d \in Clients : StillWatched(d)
    BY <1>1, <2>5 DEF StillWatched, HasAnswer, Firing
  <2>8. Books'
    BY <1>1, BooksUntouched
  <2> QED BY <2>3, <2>4, <2>6, <2>7, <2>8, PromisesKept DEF IInv
<1>5. CASE app' = app \/ (app' = [app EXCEPT ![c] = "killed"] /\ app[c] # "gone")
  <2>1. app'[c] = "gone" => app[c] = "gone"
    BY <1>1, <1>5
  <2>2. queue' = Tail(queue)
    BY <1>3, <2>1 DEF HandleNetClose
  <2>3. TypeOK'
    BY <1>1, <1>2, <1>5, <2>2 DEF TypeOK
  <2>4. \A d \in Clients : Replies(d) # {} => Replies(d)' # {}
    <3>1. ASSUME NEW d \in Clients, NEW i \in Replies(d) PROVE i - 1 \in Replies(d)'
      BY <1>1, <1>2, <2>2, <3>1 DEF Replies
    <3> QED BY <3>1
  <2>5. NothingRevived /\ DestroyedAreGone
    BY <1>1, <1>2, <1>5, <2>2 DEF NothingRevived, DestroyedAreGone
  <2>6. \A d \in Clients : StillWatched(d)
    BY <1>1, <2>4 DEF StillWatched, HasAnswer, Firing
  <2>7. Books'
    BY <1>1, BooksUntouched
  <2> QED BY <2>3, <2>5, <2>6, <2>7, PromisesKept DEF IInv
<1> QED BY <1>3, <1>4, <1>5 DEF HandleNetClose

LEMMA FireKeepsIInv ==
  ASSUME IInv, NEW c \in Clients, Fire(c)
  PROVE  IInv'
<1>1. PICK s \in sources \ Firing :
        /\ s.client = c
        /\ frames' = Append(frames, [client |-> c, source |-> s])
  BY DEF Fire
<1> DEFINE f == [client |-> c, source |-> s]
           k == [client[c] EXCEPT !.refs = @ + 1]
<1>2. /\ TypeOK /\ Books /\ Len(frames) < MaxFrames
      /\ client' = [client EXCEPT ![c] = k]
      /\ UNCHANGED <<app, inbox, queue, sources>>
  BY DEF IInv, Fire
<1>3. s \in Sources /\ Pinged(c) /\ client[c].pingId = s.id
  BY <1>1, <1>2 DEF TypeOK, Books, SourcesArePings
<1>4. f \in HangCalls /\ f.client = c /\ f.source = s
  BY <1>3 DEF HangCalls
<1>5. client[c] \in ClientRecords /\ client \in [Clients -> ClientRecords]
  BY <1>2 DEF TypeOK
<1>6. /\ k \in ClientRecords /\ k.refs = client[c].refs + 1 /\ k.pingId = client[c].pingId
      /\ k.listed = client[c].listed
  BY <1>5 DEF ClientRecords
<1>7. frames' = Append(frames, f)
  BY <1>1
<1> HIDE DEF f, k
<1>8. /\ client' \in [Clients -> ClientRecords] /\ client'[c] = k
      /\ \A d \in Clients \ {c} : client'[d] = client[d]
  BY <1>2, <1>5, <1>6
<1>9. /\ frames' \in Seq(HangCalls) /\ Len(frames') = Len(frames) + 1
      /\ \A i \in DOMAIN frames : i \in DOMAIN frames' /\ frames'[i] = frames[i]
      /\ \A i \in DOMAIN frames' : i \notin DOMAIN frames => i = Len(frames) + 1 /\ frames'[i] = f
      /\ \A d \in Clients :
           Cardinality(CallsOn(d))' = Cardinality(CallsOn(d)) + (IF d = f.client THEN 1 ELSE 0)
  BY <1>2, <1>4, <1>7, CallAdded
<1>10. TypeOK'
  BY <1>2, <1>8, <1>9 DEF TypeOK
<1>11. \A d \in Clients : client'[d].pingId = client[d].pingId /\ client'[d].listed = client[d].listed
  BY <1>6, <1>8
<1>12. Books'
  <2>1. RefsCounted'
    <3>1. \A d \in Clients : Cardinality(CallsOn(d)) \in Nat
      BY <1>2, CallsOnIsFinite
    <3> QED BY <1>2, <1>4, <1>6, <1>8, <1>9, <3>1 DEF Books, RefsCounted
  <2>2. SourcesArePings' /\ PingedAreHeld'
    <3>1. \A t \in sources : t.client \in Clients
      BY <1>2 DEF TypeOK, Sources
    <3>2. SourcesArePings'
      BY <1>2, <1>11, <3>1 DEF Books, SourcesArePings, Pinged
    <3>3. k.refs > 0
      BY <1>5, <1>6 DEF ClientRecords
    <3>4. PingedAreHeld'
      BY <1>2, <1>8, <1>11, <3>3 DEF Books, PingedAreHeld, Pinged
    <3> QED BY <3>2, <3>4
  <2>3. \A i \in DOMAIN frames : frames[i].source.id # s.id
    <3> SUFFICES ASSUME NEW i \in DOMAIN frames, frames[i].source.id = s.id PROVE FALSE
      OBVIOUS
    <3>1. frames[i].client = c /\ frames[i].source.client = c
      BY <1>2, <1>3 DEF Books, IdsApart, FramesOK
    <3>2. frames[i].source \in Sources
      <4>1. frames[i] \in HangCalls
        BY <1>2 DEF TypeOK
      <4> QED BY <4>1 DEF HangCalls
    <3>3. frames[i].source = s
      BY <1>1, <1>3, <3>1, <3>2 DEF Sources
    <3> QED BY <1>1, <3>3 DEF Firing
  <2>4. IdsApart'
    <3>1. \A d, e \in Clients : Pinged(d)' /\ client'[d].pingId = client'[e].pingId => d = e
      BY <1>2, <1>11 DEF Books, IdsApart, Pinged
    <3>2. ASSUME NEW i \in DOMAIN frames', NEW d \in Clients, frames'[i].source.id = client'[d].pingId
          PROVE  frames'[i].client = d
      <4>1. CASE i \in DOMAIN frames
        BY <1>2, <1>9, <1>11, <3>2, <4>1 DEF Books, IdsApart
      <4>2. CASE i \notin DOMAIN frames
        BY <1>2, <1>3, <1>4, <1>9, <1>11, <3>2, <4>2 DEF Books, IdsApart
      <4> QED BY <4>1, <4>2
    <3>3. \A i, j \in DOMAIN frames' : frames'[i].source.id = frames'[j].source.id => i = j
      BY <1>2, <1>4, <1>9, <2>3 DEF Books, IdsApart
    <3> QED BY <3>1, <3>2, <3>3 DEF IdsApart
  <2>5. FramesOK'
    <3>1. Len(frames') <= MaxFrames
      BY <1>2, <1>9, PingsAssumption DEF TypeOK
    <3> QED BY <1>1, <1>2, <1>4, <1>9, <3>1 DEF Books, FramesOK
  <2> QED BY <2>1, <2>2, <2>4, <2>5 DEF Books
<1>13. Firing \subseteq Firing'
  BY <1>9 DEF Firing
<1>14. GoneBeforeDestroy' /\ OnlySilentArePinged'
  BY <1>2, <1>11, <1>13
     DEF IInv, GoneBeforeDestroy, OnlySilentArePinged, Pinged, Replies
<1> QED BY <1>10, <1>12, <1>14 DEF IInv

LEMMA HangHandledKeepsIInv ==
  ASSUME IInv, NEW handled \in BOOLEAN, HangHandled(handled)
  PROVE  IInv'
<1>1. /\ TypeOK /\ Books /\ frames # << >> /\ frames' = Front(frames) /\ UNCHANGED inbox
  BY DEF IInv, HangHandled
<1>2. /\ frames' \in Seq(HangCalls) /\ Len(frames') = Len(frames) - 1
      /\ Len(frames) \in DOMAIN frames /\ Last(frames) = frames[Len(frames)]
      /\ Last(frames) \in HangCalls
      /\ \A i \in DOMAIN frames' :
           i \in DOMAIN frames /\ i # Len(frames) /\ frames'[i] = frames[i]
      /\ \A i \in DOMAIN frames : i = Len(frames) \/ i \in DOMAIN frames'
      /\ \A d \in Clients :
           Cardinality(CallsOn(d))' =
             Cardinality(CallsOn(d)) - (IF d = Last(frames).client THEN 1 ELSE 0)
  BY <1>1, CallReturned
<1>3. PICK c \in Clients : c = Last(frames).client
  BY <1>2 DEF HangCalls
<1>4. client[c] \in ClientRecords /\ client \in [Clients -> ClientRecords]
  BY <1>1 DEF TypeOK
<1>5. \A d \in Clients : Cardinality(CallsOn(d)) \in Nat
  BY <1>1, CallsOnIsFinite
<1>6. Cardinality(CallsOn(c)) > 0
  <2>1. Len(frames) \in CallsOn(c)
    BY <1>2, <1>3 DEF CallsOn
  <2> QED BY <1>1, <2>1, CallsOnIsFinite
<1> DEFINE k == [client[c] EXCEPT !.pingId = 0, !.refs = @ - 1]
<1>7. /\ k \in ClientRecords /\ k.refs = client[c].refs - 1 /\ k.pingId = 0
      /\ k.listed = client[c].listed
  <2>1. client[c].refs \in Nat \ {0}
    BY <1>1, <1>4, <1>5, <1>6 DEF ClientRecords, Books, RefsCounted
  <2>2. client[c].refs - 1 \in Nat
    BY <2>1
  <2>3. Ids \cup {0} \subseteq Nat /\ 0 \in Ids \cup {0}
    BY DEF Ids
  <2> HIDE DEF k
  <2>4. k = [client[c] EXCEPT !.pingId = 0, !.refs = @ - 1]
    BY DEF k
  <2> QED BY <1>4, <2>2, <2>3, <2>4 DEF ClientRecords
<1>8. client' = [client EXCEPT ![c] = k]
  <2>1. [[client[c] EXCEPT !.pingId = 0] EXCEPT !.refs = @ - 1] = k
    BY <1>4 DEF ClientRecords
  <2> QED BY <1>3, <2>1 DEF HangHandled
<1> HIDE DEF k
<1>9. \A d \in Clients \ {c} : client'[d] = client[d]
  BY <1>4, <1>8
<1>10. client'[c] = k
  BY <1>4, <1>8
<1>11. sources' = Without(client[c].pingId)
  <2>1. sources' = Without(client[c].pingId) \ {Last(frames).source}
    BY <1>3 DEF HangHandled
  <2>2. Last(frames).source \in sources => Last(frames).source.id = client[c].pingId
    BY <1>1, <1>2, <1>3 DEF Books, SourcesArePings, FramesOK
  <2>3. Last(frames).source \notin Without(client[c].pingId)
    BY <2>2 DEF Without
  <2> QED BY <2>1, <2>3
<1>12. /\ client' \in [Clients -> ClientRecords] /\ sources' \subseteq Sources
       /\ Books'
  <2>1. CallsKept
    <3>1. Len(frames) \in Nat /\ Len(frames) <= MaxFrames
      BY <1>1 DEF TypeOK, Books, FramesOK
    <3>2. Len(frames') <= MaxFrames
      BY <1>2, <3>1, PingsAssumption
    <3> QED BY <1>2, <3>2 DEF CallsKept
  <2>2. k.refs = (IF k.listed THEN 1 ELSE 0) + Cardinality(CallsOn(c))'
    <3>1. client[c].refs = (IF client[c].listed THEN 1 ELSE 0) + Cardinality(CallsOn(c))
      BY <1>1 DEF Books, RefsCounted
    <3>2. Cardinality(CallsOn(c))' = Cardinality(CallsOn(c)) - 1
      BY <1>2, <1>3
    <3> QED BY <1>5, <1>7, <3>1, <3>2
  <2>3. \A d \in Clients \ {c} : Cardinality(CallsOn(d))' = Cardinality(CallsOn(d))
    BY <1>2, <1>3, <1>5
  <2> QED BY <1>1, <1>7, <1>8, <1>11, <2>1, <2>2, <2>3, ClientSettles
<1>13. /\ app' \in [Clients -> {"up", "hung", "killed", "gone"}]
       /\ queue' \in Seq(Events)
       /\ NothingRevived /\ DestroyedAreGone
       /\ \A d \in Clients : Replies(d) # {} => Replies(d)' # {}
  <2>1. CASE Shutdown(c)
    BY <1>1, <2>1, ShutdownEnds
  <2>2. CASE UNCHANGED <<app, queue>>
    BY <1>1, <2>2 DEF TypeOK, NothingRevived, DestroyedAreGone, Replies
  <2> QED BY <1>3, <2>1, <2>2 DEF HangHandled
<1>14. TypeOK'
  BY <1>1, <1>2, <1>12, <1>13 DEF TypeOK
<1>15. \A d \in Clients : StillWatched(d)
  <2>1. StillWatched(c)
    BY <1>7, <1>10 DEF StillWatched, Pinged
  <2>2. ASSUME NEW d \in Clients \ {c}, Source(client[d].pingId, d) \in Firing
        PROVE  Source(client[d].pingId, d) \in Firing'
    <3>1. PICK i \in DOMAIN frames : frames[i].source = Source(client[d].pingId, d)
      BY <2>2 DEF Firing
    <3>2. frames[i].client = d
      BY <1>1, <3>1 DEF Books, FramesOK, Source
    <3>3. i # Len(frames)
      BY <1>2, <1>3, <3>2
    <3>4. i \in DOMAIN frames' /\ frames'[i] = frames[i]
      BY <1>2, <3>3
    <3> QED BY <3>1, <3>4 DEF Firing
  <2>3. ASSUME NEW d \in Clients \ {c} PROVE StillWatched(d)
    BY <1>1, <1>9, <1>13, <2>2 DEF StillWatched, HasAnswer
  <2> QED BY <2>1, <2>3
<1> QED BY <1>12, <1>13, <1>14, <1>15, PromisesKept DEF IInv

LEMMA NextKeepsIInv == IInv /\ [Next]_vars => IInv'
<1> SUFFICES ASSUME IInv, [Next]_vars PROVE IInv'
  OBVIOUS
<1>1. ASSUME NEW c \in Clients,
             \/ Close(c) \/ Reparent(c) \/ AskToShut(c)
             \/ Read(c) \/ Hang(c) \/ Recover(c) \/ Disconnect(c)
             \/ Fire(c)
      PROVE  IInv'
  BY <1>1, CloseKeepsIInv, ReparentKeepsIInv, AskToShutKeepsIInv, ReadKeepsIInv,
     HangOrRecoverKeepsIInv, DisconnectKeepsIInv, FireKeepsIInv
<1>2. ASSUME NEW depth \in 1..MaxFrames, Return(depth) PROVE IInv'
  BY <1>2, HangHandledKeepsIInv DEF Return
<1>3. CASE Handle
  BY <1>3, HandleReplyKeepsIInv, HandleUnmapKeepsIInv, HandleDestroyKeepsIInv,
     HandleNetCloseKeepsIInv DEF Handle
<1>4. CASE UNCHANGED vars
  <2>1. UNCHANGED <<app, inbox, queue, client, sources, frames>>
    BY <1>4 DEF vars
  <2>2. TypeOK'
    BY <2>1 DEF IInv, TypeOK
  <2>3. Books'
    BY <2>1, BooksUntouched DEF IInv
  <2>4. GoneBeforeDestroy' /\ OnlySilentArePinged'
    BY <2>1 DEF IInv, GoneBeforeDestroy, OnlySilentArePinged, Pinged, Firing, Replies
  <2> QED BY <2>2, <2>3, <2>4 DEF IInv
<1> QED BY <1>1, <1>2, <1>3, <1>4 DEF Next

LEMMA Inductive == Spec => []IInv
BY InitIInv, NextKeepsIInv, PTL DEF Spec

-----------------------------------------------------------------------------
(* Theorems *)

(* The variables keep their types, and every message, event, timeout and
   call of client_hang is about a client there is.                         *)
THEOREM TypesHold == Spec => []TypeOK
BY Inductive, PTL DEF IInv

(* No timeout can fire for a freed client, none is lost track of, and no
   client waits for one that is gone, however often client_hang is called
   from within itself and whatever the handlers do meanwhile.              *)
THEOREM TimeoutsAlwaysMatch == Spec => []TimeoutsMatch
<1>1. IInv => TimeoutsMatch
  <2> SUFFICES ASSUME IInv PROVE TimeoutsMatch
    OBVIOUS
  <2>1. \A s \in sources : s.client \in Clients
    BY DEF IInv, TypeOK, Sources
  <2>2. ASSUME NEW i \in DOMAIN frames PROVE client[frames[i].client].refs > 0
    <3>0. frames[i] \in HangCalls
      BY DEF IInv, TypeOK
    <3>1. PICK c \in Clients : c = frames[i].client
      BY <3>0 DEF HangCalls
    <3>2. i \in CallsOn(c)
      BY <3>1 DEF CallsOn
    <3>3. Cardinality(CallsOn(c)) \in Nat /\ Cardinality(CallsOn(c)) > 0
      BY <3>2, CallsOnIsFinite DEF IInv
    <3> QED BY <3>1, <3>3 DEF IInv, Books, RefsCounted
  <2> QED BY <2>1, <2>2 DEF IInv, Books, SourcesArePings, PingedAreHeld, TimeoutsMatch
<1> QED BY <1>1, Inductive, PTL

(* An application that has answered its ping is not taken for hung: its
   client is watched only while the ping or the answer is on its way, or
   client_hang has the client already.                                     *)
THEOREM AnsweredAreNotHung == Spec => []OnlySilentArePinged
BY Inductive, PTL DEF IInv

=============================================================================
