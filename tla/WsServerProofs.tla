--------------------------- MODULE WsServerProofs ---------------------------
(***************************************************************************)
(* Invariants of WsServer for any connections, ring capacity, table size,  *)
(* number of broadcasts, and any choice of failing mallocs: the rings, the *)
(* types, the session table and the two wake-up protocols.                 *)
(*                                                                         *)
(* TypeInv strengthens TypeOK: a frame taken from a ring is a frame only   *)
(* because RingsOK says where the occupied slots are, and the ring is that *)
(* of a viewer only because BusyViewer says who is being served.           *)
(***************************************************************************)
EXTENDS WsServer, FiniteSetTheorems, TLAPS

----------------------------------------------------------------------------
(* The rings: each operation keeps RingOK, and does what its name says *)

\* What is assumed of a ring before an operation.
GoodRing(r) == r \in RingType /\ RingOK(r)

\* Reduction modulo Capacity of what is below twice Capacity.
LEMMA OnceAround ==
    ASSUME NEW a \in 0..2*Capacity-1
    PROVE  /\ a % Capacity = IF a < Capacity THEN a ELSE a - Capacity
           /\ a % Capacity \in Slots
<1>1. Capacity \in Nat \ {0}
  BY WsAssumption
<1>2. CASE a < Capacity
  <2>1. a % Capacity = a
    BY <1>1, <1>2
  <2> QED BY <1>1, <1>2, <2>1 DEF Slots
<1>3. CASE a >= Capacity
  <2>1. a % Capacity = a - Capacity
    BY <1>1, <1>3
  <2> QED BY <1>1, <1>3, <2>1 DEF Slots
<1> QED BY <1>1, <1>2, <1>3

\* The slot k places after a slot, without the modulo.
LEMMA AtValue ==
    ASSUME NEW r, r.tail \in Slots, NEW k \in 0..Capacity
    PROVE  /\ At(r, k) = IF r.tail + k < Capacity THEN r.tail + k
                                                  ELSE r.tail + k - Capacity
           /\ At(r, k) \in Slots
<1>1. PICK a \in 0..2*Capacity-1 : a = r.tail + k
  BY WsAssumption DEF Slots
<1>2. At(r, k) = a % Capacity
  BY <1>1 DEF At
<1>3. /\ At(r, k) = IF a < Capacity THEN a ELSE a - Capacity
      /\ At(r, k) \in Slots
  BY <1>2, OnceAround
<1>4. r.tail \in Int /\ Capacity \in Int
  BY WsAssumption DEF Slots
<1> QED BY <1>1, <1>3, <1>4

\* Moving one slot on wraps to 0.
LEMMA NextSlot ==
    ASSUME NEW i \in Slots
    PROVE  /\ (i + 1) % Capacity = IF i + 1 = Capacity THEN 0 ELSE i + 1
           /\ (i + 1) % Capacity \in Slots
<1>1. \A a \in 0..Capacity-1 : a % Capacity = a
  BY WsAssumption
<1>2. \A a \in Capacity..2*Capacity-1 : a % Capacity = a - Capacity
  BY WsAssumption
<1> QED BY <1>1, <1>2, WsAssumption DEF Slots

\* Slots fewer than Capacity places from the tail are distinct, and are all.
LEMMA AtDistinct ==
    ASSUME NEW r, r.tail \in Slots,
           NEW j \in 0..Capacity-1, NEW k \in 0..Capacity-1, At(r, j) = At(r, k)
    PROVE  j = k
BY AtValue, WsAssumption DEF Slots

LEMMA AtCovers ==
    ASSUME NEW r, r.tail \in Slots, NEW i \in Slots
    PROVE  \E k \in 0..Capacity-1 : i = At(r, k)
<1>1. CASE i >= r.tail
  <2>1. i - r.tail \in 0..Capacity-1
    BY <1>1, WsAssumption DEF Slots
  <2>2. i = At(r, i - r.tail)
    BY <2>1, AtValue, WsAssumption DEF Slots
  <2> QED BY <2>1, <2>2
<1>2. CASE i < r.tail
  <2>1. i - r.tail + Capacity \in 0..Capacity-1
    BY <1>2, WsAssumption DEF Slots
  <2>2. i = At(r, i - r.tail + Capacity)
    BY <1>2, <2>1, AtValue, WsAssumption DEF Slots
  <2> QED BY <2>1, <2>2
<1> QED BY <1>1, <1>2 DEF Slots

----------------------------------------------------------------------------
\* A connection starts with a good, empty ring.
LEMMA EmptyRingGood == GoodRing(EmptyRing) /\ EmptyRing.count = 0
<1>1. EmptyRing \in RingType /\ EmptyRing.count = 0
  BY WsAssumption DEF EmptyRing, RingType, Slots
<1>2. EmptyRing.tail \in Slots /\ 0 \in 0..Capacity
  BY WsAssumption DEF EmptyRing, Slots
<1>3. EmptyRing.head = At(EmptyRing, EmptyRing.count)
  BY <1>1, <1>2, AtValue, WsAssumption DEF EmptyRing
<1>4. ASSUME NEW k \in 0..Capacity-1
      PROVE  EmptyRing.slot[At(EmptyRing, k)] # NoFrame <=> k < EmptyRing.count
  <2>1. At(EmptyRing, k) \in Slots
    BY <1>2, AtValue, WsAssumption
  <2> QED BY <1>1, <2>1 DEF EmptyRing
<1> QED BY <1>1, <1>3, <1>4 DEF GoodRing, RingOK

\* The oldest frame of a ring that holds any is a frame.
LEMMA OldestIsFrame ==
    ASSUME NEW r, GoodRing(r), r.count > 0
    PROVE  r.slot[r.tail] \in Frames
<1>1. r.tail \in Slots /\ r.count \in 0..Capacity /\ 0 \in 0..Capacity-1
  BY WsAssumption DEF GoodRing, RingType
<1>2. At(r, 0) = r.tail
  BY <1>1, AtValue, WsAssumption DEF Slots
<1>3. r.slot[r.tail] # NoFrame
  BY <1>1, <1>2 DEF GoodRing, RingOK
<1> QED BY <1>1, <1>3 DEF GoodRing, RingType

\* Popping a ring that holds frames leaves a good ring.
LEMMA PopGood ==
    ASSUME NEW r, GoodRing(r), r.count > 0
    PROVE  GoodRing(Pop(r)) /\ Pop(r).count = r.count - 1
<1> DEFINE p == Pop(r)
<1>1. /\ r \in RingType /\ r.tail \in Slots /\ r.head \in Slots
      /\ r.count \in 1..Capacity /\ r.dropped \in Nat
      /\ r.slot \in [Slots -> Frames \cup {NoFrame}]
      /\ 1 \in 0..Capacity /\ Capacity \in Nat \ {0}
  BY WsAssumption DEF GoodRing, RingType
<1>2. At(r, 1) \in Slots /\ At(r, 1) = IF r.tail + 1 < Capacity THEN r.tail + 1 ELSE 0
  <2>1. At(r, 1) \in Slots /\ At(r, 1) = IF r.tail + 1 < Capacity
                                         THEN r.tail + 1 ELSE r.tail + 1 - Capacity
    BY <1>1, AtValue
  <2>2. r.tail \in 0..Capacity-1
    BY <1>1 DEF Slots
  <2> QED BY <1>1, <2>1, <2>2
<1>3. /\ p.slot = [r.slot EXCEPT ![r.tail] = NoFrame]
      /\ p.tail = At(r, 1) /\ p.head = r.head
      /\ p.count = r.count - 1 /\ p.dropped = r.dropped
      /\ p \in RingType
  <2>1. r.count - 1 \in 0..Capacity
    BY <1>1
  <2>2. [r.slot EXCEPT ![r.tail] = NoFrame] \in [Slots -> Frames \cup {NoFrame}]
    BY <1>1
  <2>3. /\ p.slot = [r.slot EXCEPT ![r.tail] = NoFrame]
        /\ p.tail = At(r, 1) /\ p.head = r.head
        /\ p.count = r.count - 1 /\ p.dropped = r.dropped
    BY <1>1 DEF Pop, RingType
  <2>4. p \in RingType
    BY <1>1, <1>2, <2>1, <2>2 DEF Pop, RingType
  <2> QED BY <2>3, <2>4
<1> HIDE DEF p
<1>4. ASSUME NEW k \in 0..Capacity-1
      PROVE  At(p, k) = IF k = Capacity - 1 THEN r.tail ELSE At(r, k + 1)
  <2>1. k \in 0..Capacity /\ k + 1 \in 0..Capacity
    BY <1>1
  <2>2. At(p, k) = IF p.tail + k < Capacity THEN p.tail + k
                                            ELSE p.tail + k - Capacity
    BY <1>2, <1>3, <2>1, AtValue
  <2>3. At(r, k + 1) = IF r.tail + (k + 1) < Capacity THEN r.tail + (k + 1)
                                              ELSE r.tail + (k + 1) - Capacity
    BY <1>1, <2>1, AtValue
  <2>4. r.tail \in 0..Capacity-1
    BY <1>1 DEF Slots
  <2> QED BY <1>1, <1>2, <1>3, <2>2, <2>3, <2>4
<1>5. p.head = At(p, p.count)
  <2>1. p.count \in 0..Capacity-1
    BY <1>1, <1>3
  <2>2. r.head = At(r, r.count)
    BY DEF GoodRing, RingOK
  <2>3. CASE r.count < Capacity
    BY <1>1, <1>3, <1>4, <2>1, <2>2, <2>3
  <2>4. CASE r.count = Capacity
    <3>1. At(r, Capacity) = r.tail
      BY <1>1, AtValue DEF Slots
    <3>2. p.count = Capacity - 1 /\ Capacity - 1 \in 0..Capacity-1
      BY <1>1, <1>3, <2>4
    <3>3. At(p, Capacity - 1) = r.tail
      BY <1>4, <3>2
    <3> QED BY <1>3, <2>2, <2>4, <3>1, <3>2, <3>3
  <2> QED BY <1>1, <2>3, <2>4
<1>6. ASSUME NEW k \in 0..Capacity-1
      PROVE  p.slot[At(p, k)] # NoFrame <=> k < p.count
  <2>1. CASE k = Capacity - 1
    BY <1>1, <1>3, <1>4, <2>1
  <2>2. CASE k # Capacity - 1
    <3>1. k + 1 \in 0..Capacity-1 /\ 0 \in 0..Capacity-1
      BY <1>1, <2>2
    <3>2. At(r, 0) = r.tail
      <4>1. r.tail \in 0..Capacity-1 /\ 0 \in 0..Capacity
        BY <1>1, <3>1 DEF Slots
      <4>2. r.tail \in Slots
        BY <1>1
      <4>3. At(r, 0) = IF r.tail + 0 < Capacity THEN r.tail + 0
                                               ELSE r.tail + 0 - Capacity
        BY <4>1, <4>2, AtValue
      <4>4. At(r, 0) = r.tail + 0
        BY <1>1, <4>1, <4>3
      <4> QED BY <4>1, <4>4
    <3>3. At(r, k + 1) # r.tail /\ At(r, k + 1) \in Slots
      BY <1>1, <3>1, <3>2, AtDistinct, AtValue
    <3>4. r.slot[At(r, k + 1)] # NoFrame <=> k + 1 < r.count
      BY <3>1 DEF GoodRing, RingOK
    <3> QED BY <1>1, <1>3, <1>4, <2>2, <3>3, <3>4
  <2> QED BY <2>1, <2>2
<1> QED BY <1>3, <1>5, <1>6 DEF GoodRing, RingOK, p

\* Storing a frame in a ring with room leaves a good ring.
LEMMA StoreGood ==
    ASSUME NEW r, GoodRing(r), r.count < Capacity, NEW n \in Frames
    PROVE  GoodRing(Store(r, n)) /\ Store(r, n).count = r.count + 1
<1> DEFINE s == Store(r, n)
<1>1. /\ r \in RingType /\ r.tail \in Slots /\ r.head \in Slots
      /\ r.count \in 0..Capacity-1 /\ r.dropped \in Nat
      /\ r.slot \in [Slots -> Frames \cup {NoFrame}]
      /\ Capacity \in Nat \ {0}
  BY WsAssumption DEF GoodRing, RingType
<1>2. (r.head + 1) % Capacity \in Slots
  BY <1>1, NextSlot
<1>3. /\ s.slot = [r.slot EXCEPT ![r.head] = n]
      /\ s.head = (r.head + 1) % Capacity /\ s.tail = r.tail
      /\ s.count = r.count + 1 /\ s.dropped = r.dropped
      /\ s \in RingType
  <2>1. r.count + 1 \in 0..Capacity
    BY <1>1
  <2>2. [r.slot EXCEPT ![r.head] = n] \in [Slots -> Frames \cup {NoFrame}]
    BY <1>1
  <2>3. /\ s.slot = [r.slot EXCEPT ![r.head] = n]
        /\ s.head = (r.head + 1) % Capacity /\ s.tail = r.tail
        /\ s.count = r.count + 1 /\ s.dropped = r.dropped
    BY <1>1 DEF Store, RingType
  <2>4. s \in RingType
    BY <1>1, <1>2, <2>1, <2>2 DEF Store, RingType
  <2> QED BY <2>3, <2>4
<1> HIDE DEF s
<1>4. \A k \in 0..Capacity : At(s, k) = At(r, k)
  BY <1>3 DEF At
<1>5. r.head = At(r, r.count)
  BY DEF GoodRing, RingOK
<1>6. s.head = At(s, s.count)
  <2>1. r.count \in 0..Capacity /\ r.count + 1 \in 0..Capacity
    BY <1>1
  <2>2. At(r, r.count + 1) = IF r.tail + r.count + 1 < Capacity
                             THEN r.tail + r.count + 1
                             ELSE r.tail + r.count + 1 - Capacity
    <3>1. At(r, r.count + 1) = IF r.tail + (r.count + 1) < Capacity
                               THEN r.tail + (r.count + 1)
                               ELSE r.tail + (r.count + 1) - Capacity
      BY <1>1, <2>1, AtValue
    <3>2. r.tail \in 0..Capacity-1
      BY <1>1 DEF Slots
    <3> QED BY <1>1, <3>1, <3>2
  <2>3. r.head = IF r.tail + r.count < Capacity THEN r.tail + r.count
                                                ELSE r.tail + r.count - Capacity
    BY <1>1, <1>5, <2>1, AtValue
  <2>4. s.head = IF r.head + 1 = Capacity THEN 0 ELSE r.head + 1
    BY <1>1, <1>3, NextSlot
  <2>5. s.head = At(r, r.count + 1)
    <3>1. /\ r.tail \in 0..Capacity-1 /\ r.count \in 0..Capacity-1
          /\ Capacity \in Nat \ {0}
      BY <1>1 DEF Slots
    <3>2. CASE r.tail + r.count + 1 < Capacity
      BY <2>2, <2>3, <2>4, <3>1, <3>2
    <3>3. CASE r.tail + r.count + 1 = Capacity
      BY <2>2, <2>3, <2>4, <3>1, <3>3
    <3>4. CASE r.tail + r.count + 1 > Capacity
      BY <2>2, <2>3, <2>4, <3>1, <3>4
    <3> QED BY <3>1, <3>2, <3>3, <3>4
  <2> QED BY <1>3, <1>4, <2>1, <2>5
<1>7. ASSUME NEW k \in 0..Capacity-1
      PROVE  s.slot[At(s, k)] # NoFrame <=> k < s.count
  <2>1. At(r, k) \in Slots /\ At(s, k) = At(r, k)
    BY <1>1, <1>4, AtValue
  <2>2. CASE k = r.count
    BY <1>1, <1>3, <1>5, <2>1, <2>2 DEF Frames, NoFrame
  <2>3. CASE k # r.count
    <3>1. At(r, k) # r.head
      BY <1>1, <1>5, <2>3, AtDistinct
    <3>2. r.slot[At(r, k)] # NoFrame <=> k < r.count
      BY DEF GoodRing, RingOK
    <3> QED BY <1>1, <1>3, <2>1, <2>3, <3>1, <3>2
  <2> QED BY <2>2, <2>3
<1> QED BY <1>3, <1>6, <1>7 DEF GoodRing, RingOK, s

\* Pushing keeps a ring good, full or not, whether or not malloc fails.
LEMMA RingPushGood ==
    ASSUME NEW r, GoodRing(r), NEW n \in Frames, NEW fails
    PROVE  GoodRing(RingPush(r, n, fails))
<1> DEFINE d == DropOldest(r)
<1>1. GoodRing(d) /\ d.count < Capacity
  <2>1. CASE r.count = Capacity
    <3> DEFINE p == Pop(r)
    <3>1. GoodRing(p) /\ p.count = Capacity - 1
      BY <2>1, PopGood, WsAssumption
    <3>2. d = [p EXCEPT !.dropped = p.dropped + 1]
      BY <2>1 DEF DropOldest
    <3> HIDE DEF p, d
    <3>3. /\ d \in RingType
          /\ d.slot = p.slot /\ d.head = p.head /\ d.tail = p.tail /\ d.count = p.count
      BY <3>1, <3>2 DEF GoodRing, RingType
    <3>4. \A k : At(d, k) = At(p, k)
      BY <3>3 DEF At
    <3> QED BY <3>1, <3>3, <3>4, WsAssumption DEF GoodRing, RingOK
  <2>2. CASE r.count # Capacity
    BY <2>2, WsAssumption DEF DropOldest, GoodRing, RingType
  <2> QED BY <2>1, <2>2
<1> HIDE DEF d
<1>2. GoodRing(Store(d, n))
  BY <1>1, StoreGood
<1> QED BY <1>1, <1>2 DEF RingPush, d

\* Draining leaves a good, empty ring: no slot keeps a frame.
LEMMA DrainedGood ==
    ASSUME NEW r, GoodRing(r)
    PROVE  GoodRing(Drained(r)) /\ Drained(r).count = 0
<1> DEFINE d == Drained(r)
<1>1. /\ r \in RingType /\ r.tail \in Slots /\ r.head \in Slots
      /\ r.count \in 0..Capacity /\ r.dropped \in Nat
      /\ r.slot \in [Slots -> Frames \cup {NoFrame}]
      /\ Capacity \in Nat \ {0}
  BY WsAssumption DEF GoodRing, RingType
<1>2. At(r, r.count) \in Slots /\ r.head = At(r, r.count)
  BY <1>1, AtValue DEF GoodRing, RingOK
<1>3. ASSUME NEW i \in Slots
      PROVE  (IF \E k \in 0..r.count-1 : i = At(r, k)
              THEN NoFrame ELSE r.slot[i]) = NoFrame
  <2>1. PICK k \in 0..Capacity-1 : i = At(r, k)
    BY <1>1, AtCovers
  <2>2. r.slot[At(r, k)] # NoFrame <=> k < r.count
    BY DEF GoodRing, RingOK
  <2> QED BY <1>1, <2>1, <2>2
<1>4. /\ d.slot = [i \in Slots |-> NoFrame]
      /\ d.head = r.head /\ d.tail = At(r, r.count) /\ d.count = 0
      /\ d \in RingType
  <2> DEFINE f == [i \in Slots |-> IF \E k \in 0..r.count-1 : i = At(r, k)
                                   THEN NoFrame ELSE r.slot[i]]
  <2>1. f = [i \in Slots |-> NoFrame]
    BY <1>3
  <2>2. /\ d.slot = f
        /\ d.head = r.head /\ d.tail = At(r, r.count) /\ d.count = 0
        /\ d.dropped = r.dropped
    BY <1>1 DEF Drained, RingType
  <2>3. f \in [Slots -> Frames \cup {NoFrame}]
    BY <2>1
  <2>4. 0 \in 0..Capacity
    BY <1>1
  <2>5. d = [r EXCEPT !.slot = f, !.tail = At(r, r.count), !.count = 0]
    BY <1>1 DEF Drained, RingType
  <2> HIDE DEF f, d
  <2>6. d \in RingType
    BY <1>1, <1>2, <2>3, <2>4, <2>5 DEF RingType
  <2> QED BY <2>1, <2>2, <2>6
<1> HIDE DEF d
<1>5. d.head = At(d, d.count)
  BY <1>1, <1>2, <1>4, AtValue DEF Slots
<1>6. ASSUME NEW k \in 0..Capacity-1
      PROVE  d.slot[At(d, k)] # NoFrame <=> k < d.count
  BY <1>1, <1>2, <1>4, AtValue
<1> QED BY <1>4, <1>5, <1>6 DEF GoodRing, RingOK, d

----------------------------------------------------------------------------
(* The invariant *)

\* The service thread works on behalf of a viewer.
BusyViewer == svc \in {"writeable", "write", "close"} => cur.v \in Viewers

\* The table holds at most MaxViewers open connections, each once.
TableOK ==
    /\ Len(sessions) <= MaxViewers
    /\ \A i, j \in 1..Len(sessions) : sessions[i] = sessions[j] => i = j
    /\ Registered \subseteq Open

TypeInv == TypeOK /\ RingsOK /\ BusyViewer /\ TableOK

LEMMA TypeInvRing ==
    ASSUME TypeInv, NEW v \in Viewers
    PROVE  GoodRing(ring[v])
BY DEF TypeInv, TypeOK, RingsOK, GoodRing

\* Changing the rings to good ones keeps the ring part of the invariant.
LEMMA GoodRingsKeep ==
    ASSUME ring' \in [Viewers -> RingType], \A v \in Viewers : GoodRing(ring'[v])
    PROVE  RingsOK'
BY DEF RingsOK, GoodRing

----------------------------------------------------------------------------
\* Registered names viewers only.
LEMMA RegisteredViewers == TypeOK => Registered \subseteq Viewers
BY DEF TypeOK, Registered

\* session_add appends a viewer that is not in the table, or ignores it.
LEMMA SessionAddFacts ==
    ASSUME sessions \in Seq(Viewers), Len(sessions) <= MaxViewers,
           \A i, j \in 1..Len(sessions) : sessions[i] = sessions[j] => i = j,
           NEW v \in Viewers, v \notin Registered, SessionAdd(v)
    PROVE  /\ sessions' \in Seq(Viewers)
           /\ Len(sessions') <= MaxViewers
           /\ \A i, j \in 1..Len(sessions') : sessions'[i] = sessions'[j] => i = j
           /\ Registered' \subseteq Registered \cup {v}
<1>1. Len(sessions) \in Nat /\ \A i \in 1..Len(sessions) : sessions[i] # v
  BY DEF Registered
<1>2. CASE Len(sessions) >= MaxViewers
  <2>1. sessions' = sessions
    BY <1>2 DEF SessionAdd
  <2> QED BY <2>1 DEF Registered
<1>3. CASE ~(Len(sessions) >= MaxViewers)
  <2> DEFINE s == sessions'
  <2>1. sessions' = Append(sessions, v)
    BY <1>3 DEF SessionAdd
  <2>2. /\ s \in Seq(Viewers) /\ Len(s) = Len(sessions) + 1
        /\ \A i \in 1..Len(s) : s[i] = IF i <= Len(sessions) THEN sessions[i] ELSE v
    BY <2>1
  <2> HIDE DEF s
  <2>3. \A i \in 1..Len(s) : i \in 1..Len(sessions) \/ i = Len(sessions) + 1
    BY <1>1, <2>2
  <2>4. \A i, j \in 1..Len(s) : s[i] = s[j] => i = j
    BY <1>1, <2>2, <2>3
  <2>5. Len(s) <= MaxViewers
    BY <1>1, <1>3, <2>2, WsAssumption
  <2>6. \A i \in 1..Len(s) : s[i] \in Registered \cup {v}
    BY <1>1, <2>2, <2>3 DEF Registered
  <2>7. Registered' \subseteq Registered \cup {v}
    BY <2>6 DEF Registered, s
  <2> QED BY <2>2, <2>4, <2>5, <2>7 DEF s
<1> QED BY <1>2, <1>3

\* Overwriting entry i by the last one and shortening the table removes
\* entry i and nothing else.
LEMMA SwapRemove ==
    ASSUME NEW s \in Seq(Viewers), NEW i \in 1..Len(s),
           \A j, k \in 1..Len(s) : s[j] = s[k] => j = k
    PROVE  LET n == Len(s)
               t == SubSeq([s EXCEPT ![i] = s[n]], 1, n - 1)
           IN  /\ t \in Seq(Viewers)
               /\ Len(t) = n - 1
               /\ \A j, k \in 1..Len(t) : t[j] = t[k] => j = k
               /\ {t[j] : j \in 1..Len(t)} = {s[j] : j \in 1..n} \ {s[i]}
<1> DEFINE n == Len(s)
           e == [s EXCEPT ![i] = s[n]]
           t == SubSeq(e, 1, n - 1)
<1>1. n \in Nat \ {0} /\ n \in 1..n /\ n - 1 \in 0..n
  OBVIOUS
<1>2. e \in Seq(Viewers) /\ Len(e) = n
      /\ \A j \in 1..n : e[j] = IF j = i THEN s[n] ELSE s[j]
  BY <1>1
<1> HIDE DEF e
<1>3. /\ t \in Seq(Viewers) /\ Len(t) = n - 1
      /\ \A j \in 1..n-1 : t[j] = e[j]
  BY <1>1, <1>2
<1> HIDE DEF t
<1>4. \A j \in 1..Len(t) : j \in 1..n-1 /\ j \in 1..n /\ j # n
                           /\ t[j] = IF j = i THEN s[n] ELSE s[j]
  BY <1>1, <1>2, <1>3
<1>5. \A j, k \in 1..Len(t) : t[j] = t[k] => j = k
  BY <1>1, <1>4
<1>6. \A j \in 1..Len(t) : t[j] \in {s[k] : k \in 1..n} \ {s[i]}
  BY <1>1, <1>4
<1>7. ASSUME NEW k \in 1..n, s[k] # s[i]
      PROVE  \E j \in 1..Len(t) : t[j] = s[k]
  <2>1. CASE k = n
    <3>1. i \in 1..Len(t)
      BY <1>1, <1>3, <1>7, <2>1
    <3> QED BY <1>4, <2>1, <3>1
  <2>2. CASE k # n
    <3>1. k \in 1..Len(t)
      BY <1>1, <1>3, <2>2
    <3> QED BY <1>4, <1>7, <3>1
  <2> QED BY <2>1, <2>2
<1>8. {t[j] : j \in 1..Len(t)} = {s[j] : j \in 1..n} \ {s[i]}
  BY <1>6, <1>7
<1> QED BY <1>3, <1>5, <1>8 DEF t, e

\* session_remove takes the viewer, and only it, out of the table, and drains
\* its ring; a viewer that is not there changes nothing.
LEMMA SessionRemoveFacts ==
    ASSUME TypeInv, NEW v \in Viewers, SessionRemove(v)
    PROVE  /\ sessions' \in Seq(Viewers)
           /\ Len(sessions') <= MaxViewers
           /\ \A i, j \in 1..Len(sessions') : sessions'[i] = sessions'[j] => i = j
           /\ Registered' = Registered \ {v}
           /\ Len(sessions') = IF v \in Registered THEN Len(sessions) - 1
                                                   ELSE Len(sessions)
           /\ ring' = IF v \in Registered THEN [ring EXCEPT ![v] = Drained(ring[v])]
                                          ELSE ring
           /\ heap' = IF v \in Registered
                      THEN [heap EXCEPT ![v] = heap[v] \ Held(ring[v])] ELSE heap
<1>1. /\ sessions \in Seq(Viewers)
      /\ Len(sessions) <= MaxViewers
      /\ \A i, j \in 1..Len(sessions) : sessions[i] = sessions[j] => i = j
  BY DEF TypeInv, TypeOK, TableOK
<1>2. CASE v \notin Registered
  <2>1. sessions' = sessions /\ ring' = ring /\ heap' = heap
    BY <1>2 DEF SessionRemove
  <2> QED BY <1>1, <1>2, <2>1 DEF Registered
<1>3. CASE v \in Registered
  <2> DEFINE n == Len(sessions)
             First(i) == sessions[i] = v /\ \A j \in 1..i-1 : sessions[j] # v
             i == CHOOSE i \in 1..n : First(i)
             t == SubSeq([sessions EXCEPT ![i] = sessions[n]], 1, n - 1)
  <2>1. /\ sessions' = t
        /\ ring' = [ring EXCEPT ![v] = Drained(ring[v])]
        /\ heap' = [heap EXCEPT ![v] = heap[v] \ Held(ring[v])]
    BY <1>3 DEF SessionRemove
  <2>2. i \in 1..n /\ sessions[i] = v
    <3>1. PICK k \in 1..n : sessions[k] = v
      BY <1>3 DEF Registered
    <3>2. \A j \in 1..k-1 : j \in 1..n /\ j # k
      BY <1>1
    <3>3. First(k)
      BY <1>1, <3>1, <3>2
    <3>4. \E k0 \in 1..n : First(k0)
      BY <3>3
    <3> HIDE DEF First
    <3>5. i \in 1..n /\ First(i)
      BY <3>4
    <3> QED BY <3>5 DEF First
  <2> HIDE DEF i
  <2>3. /\ t \in Seq(Viewers)
        /\ Len(t) = n - 1
        /\ \A j, k \in 1..Len(t) : t[j] = t[k] => j = k
        /\ {t[j] : j \in 1..Len(t)} = {sessions[j] : j \in 1..n} \ {v}
    BY <1>1, <2>2, SwapRemove
  <2>4. n \in Nat
    BY <1>1
  <2> HIDE DEF t
  <2>5. Registered' = Registered \ {v}
    BY <2>1, <2>3 DEF Registered
  <2>6. Len(sessions') <= MaxViewers
    BY <1>1, <2>1, <2>3, <2>4, WsAssumption
  <2> QED BY <1>3, <2>1, <2>3, <2>5, <2>6
<1> QED BY <1>2, <1>3

\* A record of what is served, with a viewer and nothing taken yet.
LEMMA ServedFacts ==
    ASSUME NEW v \in Viewers \cup {NoViewer}
    PROVE  [Idle EXCEPT !.v = v] \in ServedType /\ [Idle EXCEPT !.v = v].v = v
           /\ Idle \in ServedType
BY DEF Idle, ServedType

----------------------------------------------------------------------------
(* The type invariant *)

LEMMA TypeInvInit == Init => TypeInv
<1> SUFFICES ASSUME Init PROVE TypeInv
  OBVIOUS
<1>1. GoodRing(EmptyRing)
  BY EmptyRingGood
<1>2. ring \in [Viewers -> RingType] /\ RingsOK
  BY <1>1 DEF Init, RingsOK, GoodRing
<1>3. cur \in ServedType
  BY ServedFacts DEF Init
<1>4. heap \in [Viewers -> SUBSET Frames] /\ taken \in [Viewers -> Seq(Frames)]
  BY DEF Init
<1>5. /\ published \in 0..MaxFrames /\ since \in [Viewers -> 0..MaxFrames]
      /\ sessions \in Seq(Viewers) /\ Len(sessions) = 0
  BY WsAssumption DEF Init
<1>6. TypeOK
  BY <1>2, <1>3, <1>4, <1>5 DEF Init, TypeOK
<1>7. TableOK
  BY <1>5, WsAssumption DEF TableOK, Registered
<1> QED BY <1>2, <1>6, <1>7 DEF Init, TypeInv, BusyViewer

\* The rings and the table stay as they are.
LEMMA SameRings == RingsOK /\ ring' = ring => RingsOK'
BY DEF RingsOK

LEMMA SameTable == TableOK /\ sessions' = sessions /\ conn' = conn => TableOK'
BY DEF TableOK, Registered, Open

\* A broadcast pushes onto the rings of the registered viewers.
LEMMA TypeInvBroadcast ==
    ASSUME TypeInv, NEW fails \in SUBSET (Registered \cap Oom), Broadcast(fails)
    PROVE  TypeInv'
<1> DEFINE n == published + 1
<1>1. n \in Frames /\ n \in 0..MaxFrames
  BY WsAssumption DEF Broadcast, TypeInv, TypeOK, Frames
<1>2. ASSUME NEW v \in Viewers
      PROVE  GoodRing(ring[v]) /\ GoodRing(RingPush(ring[v], n, v \in fails))
  <2>1. GoodRing(ring[v])
    BY TypeInvRing
  <2> HIDE DEF n
  <2> QED BY <1>1, <2>1, RingPushGood
<1>3. ring' = [v \in Viewers |-> IF v \in Registered
                                 THEN RingPush(ring[v], n, v \in fails)
                                 ELSE ring[v]]
  BY DEF Broadcast
<1>4. ring' \in [Viewers -> RingType] /\ \A v \in Viewers : GoodRing(ring'[v])
  BY <1>2, <1>3 DEF GoodRing
<1>5. heap' \in [Viewers -> SUBSET Frames]
  BY <1>1 DEF Broadcast, TypeInv, TypeOK
<1>6. want' \in SUBSET Viewers
  BY RegisteredViewers DEF Broadcast, TypeInv, TypeOK
<1>7. TypeOK'
  BY <1>1, <1>4, <1>5, <1>6 DEF Broadcast, TypeInv, TypeOK
<1>8. RingsOK'
  BY <1>4, GoodRingsKeep
<1>9. TableOK'
  BY SameTable DEF Broadcast, TypeInv
<1> QED BY <1>7, <1>8, <1>9 DEF TypeInv, BusyViewer, Broadcast

\* Established empties one ring and may add a session.
LEMMA TypeInvEstablished ==
    ASSUME TypeInv, NEW v \in Viewers, Established(v)
    PROVE  TypeInv'
<1>1. ring' \in [Viewers -> RingType] /\ \A w \in Viewers : GoodRing(ring'[w])
  BY TypeInvRing, EmptyRingGood DEF Established, TypeInv, TypeOK, GoodRing
<1>2. v \notin Registered
  BY DEF Established, TypeInv, TableOK, Open
<1>3. /\ sessions' \in Seq(Viewers)
      /\ Len(sessions') <= MaxViewers
      /\ \A i, j \in 1..Len(sessions') : sessions'[i] = sessions'[j] => i = j
      /\ Registered' \subseteq Registered \cup {v}
  BY <1>2, SessionAddFacts DEF Established, TypeInv, TypeOK, TableOK
<1>4. TypeOK'
  BY <1>1, <1>3 DEF Established, TypeInv, TypeOK, lwsVars
<1>5. RingsOK'
  BY <1>1, GoodRingsKeep
<1>6. Open' = Open \cup {v}
  BY DEF Open, Established, TypeInv, TypeOK
<1>7. TableOK'
  BY <1>3, <1>6 DEF TableOK, TypeInv
<1> QED BY <1>4, <1>5, <1>7 DEF TypeInv, BusyViewer, Established

\* A close changes all but svc and cur within their types.
LEMMA TypeInvClosed ==
    ASSUME TypeInv, NEW v \in Viewers, Closed(v),
           \/ svc' = svc /\ cur' = cur
           \/ svc' = "serve" /\ cur' = Idle
    PROVE  TypeInv'
<1>1. /\ sessions' \in Seq(Viewers)
      /\ Len(sessions') <= MaxViewers
      /\ \A i, j \in 1..Len(sessions') : sessions'[i] = sessions'[j] => i = j
      /\ Registered' = Registered \ {v}
      /\ ring' = IF v \in Registered THEN [ring EXCEPT ![v] = Drained(ring[v])]
                                     ELSE ring
      /\ heap' = IF v \in Registered
                 THEN [heap EXCEPT ![v] = heap[v] \ Held(ring[v])] ELSE heap
  BY SessionRemoveFacts DEF Closed
<1>2. GoodRing(Drained(ring[v]))
  BY TypeInvRing, DrainedGood
<1>3. ring' \in [Viewers -> RingType] /\ \A w \in Viewers : GoodRing(ring'[w])
  BY <1>1, <1>2, TypeInvRing DEF TypeInv, TypeOK, GoodRing
<1>4. heap' \in [Viewers -> SUBSET Frames]
  BY <1>1 DEF TypeInv, TypeOK
<1>5. viewer_count' \in Nat
  BY DEF Closed, TypeInv, TypeOK
<1>6. /\ conn' = [conn EXCEPT ![v] = "closed"]
      /\ conn' \in [Viewers -> {"none", "open", "closed"}]
      /\ want' \in SUBSET Viewers /\ polled' \in SUBSET Viewers
  BY DEF Closed, TypeInv, TypeOK
<1>7. /\ svc' \in {"off", "loop", "poll", "serve", "writeable", "write", "close",
                   "exited"}
      /\ cur' \in ServedType
  BY ServedFacts DEF TypeInv, TypeOK
<1>8. TypeOK'
  BY <1>1, <1>3, <1>4, <1>5, <1>6, <1>7 DEF Closed, TypeInv, TypeOK
<1>9. RingsOK'
  BY <1>3, GoodRingsKeep
<1>10. TableOK'
  BY <1>1, <1>6 DEF TableOK, TypeInv, TypeOK, Open
<1> QED BY <1>8, <1>9, <1>10 DEF TypeInv, BusyViewer

\* Taking a frame pops the ring of the viewer that is served.
LEMMA TypeInvTakeOldest ==
    ASSUME TypeInv, TakeOldest
    PROVE  TypeInv'
<1>1. cur.v \in Viewers /\ GoodRing(ring[cur.v]) /\ ring[cur.v].count > 0
  BY TypeInvRing DEF TakeOldest, TypeInv, TypeOK, BusyViewer, RingType
<1>2. /\ GoodRing(Pop(ring[cur.v]))
      /\ ring[cur.v].slot[ring[cur.v].tail] \in Frames
  BY <1>1, PopGood, OldestIsFrame
<1>3. ring' \in [Viewers -> RingType] /\ \A w \in Viewers : GoodRing(ring'[w])
  BY <1>1, <1>2, TypeInvRing DEF TakeOldest, TypeInv, TypeOK, GoodRing
<1>4. taken' \in [Viewers -> Seq(Frames)]
  BY <1>1, <1>2 DEF TakeOldest, TypeInv, TypeOK
<1>5. /\ cur'.v = cur.v /\ svc' = "write"
      /\ cur' \in ServedType
  BY <1>1, <1>2 DEF TakeOldest, ServedType
<1>6. TypeOK'
  BY <1>3, <1>4, <1>5 DEF TakeOldest, TypeInv, TypeOK, lwsVars
<1>7. RingsOK'
  BY <1>3, GoodRingsKeep
<1>8. TableOK'
  BY SameTable DEF TakeOldest, TypeInv
<1> QED BY <1>1, <1>5, <1>6, <1>7, <1>8 DEF TypeInv, BusyViewer

LEMMA TypeInvMain ==
    ASSUME TypeInv, MainNext
    PROVE  TypeInv'
<1>1. CASE Start
  BY <1>1, SameRings, SameTable DEF Start, TypeInv, TypeOK,
             BusyViewer, lwsVars, ghostVars
<1>2. CASE StartFails
  BY <1>2, SameRings, SameTable DEF StartFails, TypeInv, TypeOK,
             BusyViewer, lwsVars, ghostVars
<1>3. CASE BroadcastNoSessions
  BY <1>3, SameRings, SameTable, WsAssumption DEF BroadcastNoSessions, TypeInv, TypeOK,
             BusyViewer, lwsVars, ghostVars
<1>4. ASSUME NEW fails \in SUBSET (Registered \cap Oom), Broadcast(fails)
      PROVE  TypeInv'
  BY <1>4, TypeInvBroadcast
<1>5. CASE CancelService
  BY <1>5, SameRings, SameTable DEF CancelService, TypeInv, TypeOK,
             BusyViewer, lwsVars, ghostVars
<1>6. CASE StopRunning
  BY <1>6, SameRings, SameTable DEF StopRunning, TypeInv, TypeOK,
             BusyViewer, lwsVars, ghostVars
<1>7. CASE StopCancel
  BY <1>7, SameRings, SameTable DEF StopCancel, TypeInv, TypeOK,
             BusyViewer, lwsVars, ghostVars
<1>8. CASE StopJoin
  BY <1>8, SameRings, SameTable DEF StopJoin, TypeInv, TypeOK,
             BusyViewer, lwsVars, ghostVars
<1>9. CASE StopDone
  <2>1. /\ sessions' = <<>> /\ sessions' \in Seq(Viewers)
        /\ Len(sessions') = 0
    BY <1>9 DEF StopDone
  <2>2. TableOK'
    BY <2>1, WsAssumption DEF TableOK, Registered
  <2> QED BY <1>9, <2>1, <2>2, SameRings DEF StopDone, TypeInv, TypeOK,
             BusyViewer, lwsVars, ghostVars
<1>10. ASSUME NEW v \in Viewers, DestroyCloses(v)
       PROVE  TypeInv'
  <2>1. Closed(v) /\ svc' = svc /\ cur' = cur
    BY <1>10 DEF DestroyCloses
  <2> QED BY <1>10, <2>1, TypeInvClosed
<1> QED BY <1>1, <1>2, <1>3, <1>4, <1>5, <1>6, <1>7, <1>8, <1>9, <1>10, MainNext DEF MainNext

LEMMA TypeInvSvc ==
    ASSUME TypeInv, SvcNext
    PROVE  TypeInv'
<1>1. CASE EnterService
  BY <1>1, SameRings, SameTable DEF EnterService, TypeInv, TypeOK, BusyViewer, lwsVars, ghostVars
<1>2. CASE ThreadExit
  BY <1>2, SameRings, SameTable DEF ThreadExit, TypeInv, TypeOK, BusyViewer, lwsVars, ghostVars
<1>3. CASE PollReturns
  BY <1>3, SameRings, SameTable DEF PollReturns, TypeInv, TypeOK, BusyViewer, lwsVars, ghostVars
<1>4. CASE DrainPipe
  BY <1>4, SameRings, SameTable DEF DrainPipe, TypeInv, TypeOK, BusyViewer, lwsVars, ghostVars
<1>5. CASE ServiceReturns
  BY <1>5, SameRings, SameTable DEF ServiceReturns, TypeInv, TypeOK, BusyViewer, lwsVars, ghostVars
<1>6. ASSUME NEW v \in Viewers, Established(v)
      PROVE  TypeInv'
  BY <1>6, TypeInvEstablished
<1>7. ASSUME NEW v \in Viewers, PeerClosed(v)
      PROVE  TypeInv'
  <2>1. Closed(v) /\ svc' = svc /\ cur' = cur
    BY <1>7 DEF PeerClosed
  <2> QED BY <1>7, <2>1, TypeInvClosed
<1>8. ASSUME NEW v \in Viewers, Writable(v)
      PROVE  TypeInv'
  <2>1. cur' \in ServedType /\ cur'.v = v
    BY <1>8, ServedFacts DEF Writable
  <2> QED BY <1>8, <2>1, SameRings, SameTable DEF Writable, TypeInv, TypeOK, BusyViewer, ghostVars
<1>9. CASE NothingToWrite
  BY <1>9, ServedFacts, SameRings, SameTable DEF NothingToWrite, TypeInv, TypeOK, BusyViewer, lwsVars, ghostVars
<1>10. CASE TakeOldest
  BY <1>10, TypeInvTakeOldest
<1>11. CASE WriteDone
  <2>1. cur.v \in Viewers
    BY <1>11 DEF WriteDone, TypeInv, BusyViewer
  <2> QED BY <1>11, <2>1, ServedFacts, SameRings, SameTable DEF WriteDone, TypeInv, TypeOK, BusyViewer
<1>12. CASE WriteShort
  <2>1. cur.v \in Viewers
    BY <1>12 DEF WriteShort, TypeInv, BusyViewer
  <2>2. cur' \in ServedType /\ cur'.v = cur.v
    BY <1>12, <2>1, ServedFacts DEF WriteShort
  <2> QED BY <1>12, <2>1, <2>2, SameRings, SameTable DEF WriteShort, TypeInv, TypeOK, BusyViewer, lwsVars
<1>13. CASE CloseAfterShort
  BY <1>13, TypeInvClosed DEF CloseAfterShort, TypeInv, BusyViewer
<1> QED BY SvcNext, <1>1, <1>2, <1>3, <1>4, <1>5, <1>6, <1>7, <1>8, <1>9, <1>10,
           <1>11, <1>12, <1>13 DEF SvcNext

LEMMA TypeInvHolds == Spec => []TypeInv
<1>1. TypeInv /\ [Next]_vars => TypeInv'
  <2> SUFFICES ASSUME TypeInv, [Next]_vars PROVE TypeInv'
    OBVIOUS
  <2>1. CASE MainNext
    BY <2>1, TypeInvMain
  <2>2. CASE SvcNext
    BY <2>2, TypeInvSvc
  <2>3. CASE UNCHANGED vars
    BY <2>3, SameRings, SameTable DEF vars, lwsVars, ghostVars, TypeInv, TypeOK, BusyViewer
  <2> QED BY <2>1, <2>2, <2>3 DEF Next, Terminated
<1> QED BY TypeInvInit, <1>1, PTL DEF Spec

\* Every variable keeps its type: in particular every frame popped for a viewer
\* is a frame, never a NULL slot.
THEOREM WsTypeOK == Spec => []TypeOK
<1>1. TypeInv => TypeOK
  BY DEF TypeInv
<1> QED BY <1>1, TypeInvHolds, PTL

\* The slots that hold data are the count slots from the tail on, in every ring,
\* whatever pushes, drops, failed mallocs, pops and closes came before.
THEOREM WsRingsOK == Spec => []RingsOK
<1>1. TypeInv => RingsOK
  BY DEF TypeInv
<1> QED BY <1>1, TypeInvHolds, PTL

----------------------------------------------------------------------------
(* poll() never sleeps through a request or a stop *)

LEMMA MissedWakeInit == Init => NoMissedWake
BY DEF Init, NoMissedWake

\* The main thread's own steps: each that changes want or running leaves the
\* wake-up to its next step, which delivers it.
LEMMA MissedWakeMain == NoMissedWake /\ MainNext => NoMissedWake'
<1> SUFFICES ASSUME NoMissedWake, MainNext PROVE NoMissedWake'
  OBVIOUS
<1>1. CASE Start \/ StartFails
  BY <1>1 DEF Start, StartFails, NoMissedWake, lwsVars
<1>2. CASE BroadcastNoSessions
  BY <1>2 DEF BroadcastNoSessions, NoMissedWake, lwsVars
<1>3. ASSUME NEW fails, Broadcast(fails)
      PROVE  NoMissedWake'
  BY <1>3 DEF Broadcast, NoMissedWake
<1>4. CASE CancelService \/ StopCancel
  BY <1>4 DEF CancelService, StopCancel, NoMissedWake
<1>5. CASE StopRunning
  BY <1>5 DEF StopRunning, NoMissedWake, lwsVars
<1>6. CASE StopJoin \/ StopDone
  BY <1>6 DEF StopJoin, StopDone, NoMissedWake, lwsVars
<1>7. ASSUME NEW v \in Viewers, DestroyCloses(v)
      PROVE  NoMissedWake'
  BY <1>7 DEF DestroyCloses, Closed, NoMissedWake
<1> QED BY <1>1, <1>2, <1>3, <1>4, <1>5, <1>6, <1>7 DEF MainNext

\* The service thread enters poll() with all that is wanted, and only while
\* running; it empties the pipe only outside poll().
LEMMA MissedWakeSvc == NoMissedWake /\ SvcNext => NoMissedWake'
<1> SUFFICES ASSUME NoMissedWake, SvcNext PROVE NoMissedWake'
  OBVIOUS
<1>1. CASE EnterService
  BY <1>1 DEF EnterService, NoMissedWake
<1>2. svc' # "poll" \/ EnterService
  BY DEF SvcNext, EnterService, ThreadExit, PollReturns, DrainPipe, ServiceReturns,
         Established, PeerClosed, Writable, NothingToWrite, TakeOldest, WriteDone,
         WriteShort, CloseAfterShort
<1> QED BY <1>1, <1>2 DEF NoMissedWake

\* No request made and no stop begun while the service thread sleeps in poll()
\* is ever left without a wake-up.
THEOREM WsNoMissedWake == Spec => []NoMissedWake
<1>1. NoMissedWake /\ [Next]_vars => NoMissedWake'
  <2>1. NoMissedWake /\ UNCHANGED vars => NoMissedWake'
    BY DEF NoMissedWake, vars, lwsVars
  <2> QED BY <2>1, MissedWakeMain, MissedWakeSvc DEF Next, Terminated
<1> QED BY MissedWakeInit, <1>1, PTL DEF Spec

----------------------------------------------------------------------------
(* The context outlives the service thread *)

DestroyAlone == main \in {"destroy", "stopped"} => svc = "exited"

\* The service thread has no step once it has exited, and main waits for that.
LEMMA DestroyAloneHolds == Spec => []DestroyAlone
<1>1. Init => DestroyAlone
  BY DEF Init, DestroyAlone
<1>2. DestroyAlone /\ MainNext => DestroyAlone'
  BY DEF DestroyAlone, MainNext, Start, StartFails, BroadcastNoSessions, Broadcast,
         CancelService, StopRunning, StopCancel, StopJoin, StopDone, DestroyCloses
<1>3. DestroyAlone /\ SvcNext => DestroyAlone'
  BY DEF DestroyAlone, SvcNext, EnterService, ThreadExit, PollReturns, DrainPipe,
         ServiceReturns, Established, PeerClosed, Closed, Writable, NothingToWrite,
         TakeOldest, WriteDone, WriteShort, CloseAfterShort
<1>4. DestroyAlone /\ UNCHANGED vars => DestroyAlone'
  BY DEF DestroyAlone, vars
<1> QED BY <1>1, <1>2, <1>3, <1>4, PTL DEF Spec, Next, Terminated

----------------------------------------------------------------------------
(* The session table *)

\* viewer_count counts the open connections.
CountOK == IsFiniteSet(Open) /\ viewer_count = Cardinality(Open)

LEMMA CountInit == Init => CountOK
<1> SUFFICES ASSUME Init PROVE CountOK
  OBVIOUS
<1>1. Open = {}
  BY DEF Init, Open
<1> QED BY <1>1, FS_EmptySet DEF Init, CountOK

LEMMA CountEstablished ==
    ASSUME TypeInv, CountOK, NEW v \in Viewers, Established(v)
    PROVE  CountOK'
<1>1. Open' = Open \cup {v} /\ v \notin Open
  BY DEF Established, Open, TypeInv, TypeOK
<1>2. viewer_count' = viewer_count + 1
  BY DEF Established
<1> QED BY <1>1, <1>2, FS_AddElement DEF CountOK

LEMMA CountClosed ==
    ASSUME TypeInv, CountOK, NEW v \in Viewers, Closed(v)
    PROVE  CountOK'
<1>1. Open' = Open \ {v} /\ v \in Open
  BY DEF Closed, Open, TypeInv, TypeOK
<1>2. /\ IsFiniteSet(Open \ {v})
      /\ Cardinality(Open \ {v}) = Cardinality(Open) - 1
      /\ Cardinality(Open \ {v}) \in Nat /\ Cardinality(Open) \in Nat
  BY <1>1, FS_RemoveElement, FS_CardinalityType DEF CountOK
<1>3. viewer_count' = IF viewer_count > 0 THEN viewer_count - 1 ELSE viewer_count
  BY DEF Closed
<1> QED BY <1>1, <1>2, <1>3 DEF CountOK

LEMMA SameCount == CountOK /\ conn' = conn /\ viewer_count' = viewer_count => CountOK'
BY DEF CountOK, Open

LEMMA CountNext == TypeInv /\ CountOK /\ [Next]_vars => CountOK'
<1> SUFFICES ASSUME TypeInv, CountOK, [Next]_vars PROVE CountOK'
  OBVIOUS
<1>1. ASSUME NEW v \in Viewers, Established(v)
      PROVE  CountOK'
  BY <1>1, CountEstablished
<1>2. ASSUME NEW v \in Viewers, Closed(v)
      PROVE  CountOK'
  BY <1>2, CountClosed
<1>3. CASE MainNext
  <2>1. ASSUME NEW fails, Broadcast(fails)
        PROVE  CountOK'
    BY <2>1, SameCount DEF Broadcast
  <2> QED BY <1>2, <1>3, <2>1, SameCount
          DEF MainNext, Start, StartFails, BroadcastNoSessions, CancelService,
              StopRunning, StopCancel, StopJoin, StopDone, DestroyCloses
<1>4. CASE SvcNext
  <2>1. ASSUME CloseAfterShort
        PROVE  CountOK'
    BY <1>2, <2>1 DEF CloseAfterShort, TypeInv, BusyViewer
  <2> QED BY <1>1, <1>2, <1>4, <2>1, SameCount
          DEF SvcNext, EnterService, ThreadExit, PollReturns, DrainPipe,
              ServiceReturns, PeerClosed, Writable, NothingToWrite, TakeOldest,
              WriteDone, WriteShort
<1>5. CASE UNCHANGED vars
  BY <1>5, SameCount DEF vars
<1> QED BY <1>3, <1>4, <1>5 DEF Next, Terminated

\* The table holds open connections only, each once, whatever the order of
\* swap-removes; viewer_count is the number of open connections.
THEOREM WsSessionsOK == Spec => []SessionsOK
<1>1. TypeInv /\ CountOK => SessionsOK
  BY DEF TypeInv, TableOK, CountOK, SessionsOK
<1> QED BY <1>1, CountInit, CountNext, TypeInvHolds, PTL DEF Spec

----------------------------------------------------------------------------
(* Frames in a ring have a callback coming *)

LEMMA LostWakeupInit == Init => NoLostWakeup
BY DEF Init, NoLostWakeup, Registered

\* What does not touch rings, table, want or what is served touches nothing.
LEMMA LostWakeupSame ==
    /\ NoLostWakeup
    /\ ring' = ring /\ sessions' = sessions /\ want' = want /\ cur' = cur
    /\ svc \notin {"writeable", "write", "close"} \/ svc' = svc
    => NoLostWakeup'
BY DEF NoLostWakeup, Registered

\* A broadcast asks for everybody.
LEMMA LostWakeupBroadcast ==
    ASSUME NoLostWakeup, NEW fails, Broadcast(fails)
    PROVE  NoLostWakeup'
<1>1. Registered' = Registered /\ Registered \subseteq want'
  BY DEF Broadcast, Registered
<1> QED BY <1>1 DEF NoLostWakeup

\* A new session's ring is empty.
LEMMA LostWakeupEstablished ==
    ASSUME TypeInv, NoLostWakeup, NEW v \in Viewers, Established(v)
    PROVE  NoLostWakeup'
<1>1. Registered' \subseteq Registered \cup {v}
  <2>1. v \notin Registered
    BY DEF Established, TypeInv, TableOK, Open
  <2> QED BY <2>1, SessionAddFacts DEF Established, TypeInv, TypeOK, TableOK
<1>2. /\ ring'[v].count = 0
      /\ \A w \in Viewers : w # v => ring'[w] = ring[w]
  BY EmptyRingGood DEF Established, TypeInv, TypeOK
<1>3. want' = want /\ svc = "serve" /\ svc' = svc /\ cur' = cur
  BY DEF Established, lwsVars
<1>4. Registered \subseteq Viewers
  BY RegisteredViewers DEF TypeInv
<1> SUFFICES ASSUME NEW w \in Registered', ring'[w].count > 0
             PROVE  w \in want'
  BY DEF NoLostWakeup
<1>5. w # v /\ w \in Registered /\ ring[w].count > 0
  BY <1>1, <1>2, <1>4
<1> QED BY <1>3, <1>5 DEF NoLostWakeup

\* A closed connection is no longer registered; nothing changes for the others.
LEMMA LostWakeupClosed ==
    ASSUME TypeInv, NoLostWakeup, NEW v \in Viewers, Closed(v),
           \/ svc' = svc /\ cur' = cur
           \/ svc = "close" /\ cur.v = v
    PROVE  NoLostWakeup'
<1>1. /\ Registered' = Registered \ {v}
      /\ \A w \in Viewers : w # v => ring'[w] = ring[w]
  BY SessionRemoveFacts DEF Closed, TypeInv, TypeOK
<1>2. want' = want \ {v}
  BY DEF Closed
<1>3. Registered \subseteq Viewers
  BY RegisteredViewers DEF TypeInv
<1> SUFFICES ASSUME NEW w \in Registered', ring'[w].count > 0
             PROVE  \/ w \in want'
                    \/ cur'.v = w /\ svc' \in {"writeable", "close"}
                    \/ cur'.v = w /\ svc' = "write" /\ cur'.more
  BY DEF NoLostWakeup
<1>4. w # v /\ w \in Registered /\ ring[w].count > 0
  BY <1>1, <1>3
<1> QED BY <1>2, <1>4 DEF NoLostWakeup

\* The steps of a SERVER_WRITEABLE callback.
LEMMA LostWakeupWritable ==
    ASSUME NoLostWakeup, NEW v \in Viewers, Writable(v)
    PROVE  NoLostWakeup'
<1>1. /\ cur'.v = v /\ svc = "serve" /\ svc' = "writeable"
      /\ want' = want \ {v} /\ ring' = ring /\ sessions' = sessions
  BY DEF Writable, Idle
<1> QED BY <1>1 DEF NoLostWakeup, Registered

LEMMA LostWakeupNothing ==
    ASSUME TypeInv, NoLostWakeup, NothingToWrite
    PROVE  NoLostWakeup'
<1>1. /\ svc = "writeable" /\ ring[cur.v].count = 0
      /\ want' = want /\ ring' = ring /\ sessions' = sessions
  BY DEF NothingToWrite, lwsVars
<1> SUFFICES ASSUME NEW w \in Registered, ring[w].count > 0
             PROVE  w \in want
  BY <1>1 DEF NoLostWakeup, Registered
<1>2. cur.v # w
  BY <1>1
<1> QED BY <1>1, <1>2 DEF NoLostWakeup

LEMMA LostWakeupTake ==
    ASSUME TypeInv, NoLostWakeup, TakeOldest
    PROVE  NoLostWakeup'
<1> DEFINE v == cur.v
<1>1. /\ v \in Viewers /\ svc = "writeable" /\ svc' = "write"
      /\ want' = want /\ sessions' = sessions
      /\ cur'.v = v /\ cur'.more = (Pop(ring[v]).count > 0)
      /\ ring'[v] = Pop(ring[v])
      /\ \A w \in Viewers : w # v => ring'[w] = ring[w]
  BY DEF TakeOldest, lwsVars, TypeInv, TypeOK, BusyViewer
<1>2. Registered' = Registered /\ Registered \subseteq Viewers
  BY <1>1, RegisteredViewers DEF TypeInv, Registered
<1> SUFFICES ASSUME NEW w \in Registered, ring'[w].count > 0
             PROVE  \/ w \in want
                    \/ cur'.v = w /\ svc' = "write" /\ cur'.more
  BY <1>1, <1>2 DEF NoLostWakeup
<1>3. CASE w = v
  BY <1>1, <1>3
<1>4. CASE w # v
  <2>1. ring[w].count > 0 /\ cur.v # w
    BY <1>1, <1>2, <1>4
  <2>2. w \in want
    BY <1>1, <2>1 DEF NoLostWakeup
  <2> QED BY <2>2
<1> QED BY <1>3, <1>4

LEMMA LostWakeupWrite ==
    ASSUME NoLostWakeup, WriteDone \/ WriteShort
    PROVE  NoLostWakeup'
<1>1. svc = "write" /\ ring' = ring /\ sessions' = sessions
  BY DEF WriteDone, WriteShort
<1>2. CASE WriteDone
  <2>1. want' = IF cur.more THEN want \cup {cur.v} ELSE want
    BY <1>2 DEF WriteDone
  <2> QED BY <1>1, <2>1 DEF NoLostWakeup, Registered
<1>3. CASE WriteShort
  <2>1. cur'.v = cur.v /\ svc' = "close" /\ want' = want
    BY <1>3 DEF WriteShort, Idle, lwsVars
  <2> QED BY <1>1, <2>1 DEF NoLostWakeup, Registered
<1> QED BY <1>2, <1>3

\* There is no service thread before Start.
NotStarted == main = "start" => svc = "off"

LEMMA NotStartedHolds == Spec => []NotStarted
<1>1. Init => NotStarted
  BY DEF Init, NotStarted
<1>2. NotStarted /\ MainNext => NotStarted'
  BY DEF NotStarted, MainNext, Start, StartFails, BroadcastNoSessions, Broadcast,
         CancelService, StopRunning, StopCancel, StopJoin, StopDone, DestroyCloses,
         Closed
<1>3. NotStarted /\ SvcNext => NotStarted'
  BY DEF NotStarted, SvcNext, EnterService, ThreadExit, PollReturns, DrainPipe,
         ServiceReturns, Established, PeerClosed, Closed, Writable, NothingToWrite,
         TakeOldest, WriteDone, WriteShort, CloseAfterShort
<1>4. NotStarted /\ UNCHANGED vars => NotStarted'
  BY DEF NotStarted, vars
<1> QED BY <1>1, <1>2, <1>3, <1>4, PTL DEF Spec, Next, Terminated

LEMMA LostWakeupNext ==
    TypeInv /\ NotStarted /\ NoLostWakeup /\ [Next]_vars => NoLostWakeup'
<1> SUFFICES ASSUME TypeInv, NotStarted, NoLostWakeup, [Next]_vars
             PROVE NoLostWakeup'
  OBVIOUS
<1>1. CASE MainNext
  <2>1. ASSUME NEW fails, Broadcast(fails)
        PROVE  NoLostWakeup'
    BY <2>1, LostWakeupBroadcast
  <2>2. ASSUME NEW v \in Viewers, DestroyCloses(v)
        PROVE  NoLostWakeup'
    BY <2>2, LostWakeupClosed DEF DestroyCloses
  <2>3. CASE Start
    <3>1. ring' = ring /\ sessions' = sessions /\ want' = want /\ cur' = cur
      BY <2>3 DEF Start, lwsVars
    <3>2. svc \notin {"writeable", "write", "close"}
      BY <2>3 DEF Start, NotStarted
    <3> QED BY <3>1, <3>2, LostWakeupSame
  <2>4. CASE StopDone
    BY <2>4 DEF StopDone, NoLostWakeup, Registered
  <2> QED BY <1>1, <2>1, <2>2, <2>3, <2>4, LostWakeupSame
          DEF MainNext, StartFails, BroadcastNoSessions, CancelService,
              StopRunning, StopCancel, StopJoin, lwsVars
<1>2. CASE SvcNext
  <2>1. ASSUME NEW v \in Viewers, Established(v) \/ PeerClosed(v) \/ Writable(v)
        PROVE  NoLostWakeup'
    BY <2>1, LostWakeupEstablished, LostWakeupClosed, LostWakeupWritable DEF PeerClosed
  <2>2. CASE CloseAfterShort
    BY <2>2, LostWakeupClosed DEF CloseAfterShort, TypeInv, BusyViewer
  <2>3. CASE NothingToWrite \/ TakeOldest \/ WriteDone \/ WriteShort
    BY <2>3, LostWakeupNothing, LostWakeupTake, LostWakeupWrite
  <2> QED BY <1>2, <2>1, <2>2, <2>3, LostWakeupSame
          DEF SvcNext, EnterService, ThreadExit, PollReturns, DrainPipe,
              ServiceReturns, lwsVars
<1>3. CASE UNCHANGED vars
  BY <1>3, LostWakeupSame DEF vars, lwsVars
<1> QED BY <1>1, <1>2, <1>3 DEF Next, Terminated

\* Whenever a registered viewer's ring holds a frame, a writable callback is
\* asked for, or the callback that is running will ask for one.
THEOREM WsNoLostWakeup == Spec => []NoLostWakeup
BY LostWakeupInit, LostWakeupNext, TypeInvHolds, NotStartedHolds, PTL DEF Spec
=============================================================================
