------------------------- MODULE WsServerRefinement -------------------------
(***************************************************************************)
(* WsServer implements FrameFeed, for every value of the constants: a ring *)
(* behaves as the queue of the frames it contains, the session table as    *)
(* the set of members, and every step of the two threads is a step of the  *)
(* feed or one the feed does not see. And what became of every frame: each *)
(* copy in the heap has one owner, each broadcast to a member of the table *)
(* was sent, waits, was dropped or failed for want of memory.              *)
(***************************************************************************)
EXTENDS WsServerProofs, SequenceTheorems

\* The queue a ring stands for.
LEMMA ContentsFacts ==
    ASSUME NEW r, GoodRing(r)
    PROVE  /\ Contents(r) \in Seq(Frames)
           /\ Len(Contents(r)) = r.count
           /\ r.count \in 0..Capacity
           /\ \A k \in 1..r.count : Contents(r)[k] = r.slot[At(r, k - 1)]
<1>1. /\ r.count \in 0..Capacity /\ r.tail \in Slots
      /\ r.slot \in [Slots -> Frames \cup {NoFrame}]
      /\ Capacity \in Nat \ {0}
  BY WsAssumption DEF GoodRing, RingType
<1>2. ASSUME NEW k \in 1..r.count
      PROVE  r.slot[At(r, k - 1)] \in Frames
  <2>1. k - 1 \in 0..Capacity-1 /\ k - 1 \in 0..Capacity /\ k - 1 < r.count
    BY <1>1
  <2>2. At(r, k - 1) \in Slots
    BY <1>1, <2>1, AtValue
  <2>3. r.slot[At(r, k - 1)] # NoFrame
    BY <2>1 DEF GoodRing, RingOK
  <2> QED BY <1>1, <2>2, <2>3
<1>3. Contents(r) \in [1..r.count -> Frames]
  BY <1>2 DEF Contents
<1>4. Contents(r) \in Seq(Frames) /\ Len(Contents(r)) = r.count
  <2>1. \A n \in Nat : \A f \in [1..n -> Frames] : f \in Seq(Frames) /\ Len(f) = n
    OBVIOUS
  <2> QED BY <1>1, <1>3, <2>1
<1>5. \A k \in 1..r.count : Contents(r)[k] = r.slot[At(r, k - 1)]
  BY DEF Contents
<1> QED BY <1>1, <1>4, <1>5

LEMMA ContentsEmpty ==
    ASSUME NEW r, GoodRing(r), r.count = 0
    PROVE  Contents(r) = <<>>
BY ContentsFacts

\* Popping the ring takes the head of the queue.
LEMMA ContentsPop ==
    ASSUME NEW r, GoodRing(r), r.count > 0
    PROVE  /\ Contents(r) # <<>>
           /\ Head(Contents(r)) = r.slot[r.tail]
           /\ Contents(Pop(r)) = Tail(Contents(r))
<1> DEFINE p == Pop(r)
<1>1. /\ GoodRing(p) /\ p.count = r.count - 1
      /\ r.count \in 1..Capacity /\ r.tail \in Slots /\ r.tail \in 0..Capacity-1
      /\ r.slot \in [Slots -> Frames \cup {NoFrame}]
      /\ Capacity \in Nat \ {0}
  BY PopGood, WsAssumption DEF GoodRing, RingType, Slots
<1>2. /\ p.slot = [r.slot EXCEPT ![r.tail] = NoFrame]
      /\ p.tail = At(r, 1)
  BY DEF Pop, GoodRing, RingType
<1> HIDE DEF p
<1>3. /\ Contents(r) \in Seq(Frames) /\ Len(Contents(r)) = r.count
      /\ Contents(p) \in Seq(Frames) /\ Len(Contents(p)) = r.count - 1
      /\ \A k \in 1..r.count : Contents(r)[k] = r.slot[At(r, k - 1)]
      /\ \A k \in 1..r.count-1 : Contents(p)[k] = p.slot[At(p, k - 1)]
  BY <1>1, ContentsFacts
<1>4. Contents(r) # <<>>
  BY <1>1, <1>3
<1>5. At(r, 0) = r.tail
  BY <1>1, AtValue
<1>6. Head(Contents(r)) = r.slot[r.tail]
  <2>1. Head(Contents(r)) = Contents(r)[1] /\ 1 \in 1..r.count
    BY <1>1, <1>3, <1>4
  <2> QED BY <1>3, <1>5, <2>1
<1>7. /\ Tail(Contents(r)) \in Seq(Frames)
      /\ Len(Tail(Contents(r))) = r.count - 1
      /\ \A k \in 1..r.count-1 : Tail(Contents(r))[k] = Contents(r)[k + 1]
  BY <1>3, <1>4, HeadTailProperties
<1>8. ASSUME NEW k \in 1..r.count-1
      PROVE  Contents(p)[k] = Tail(Contents(r))[k]
  <2>1. /\ k - 1 \in 0..Capacity-1 /\ k \in 0..Capacity-1 /\ 0 \in 0..Capacity-1
        /\ k - 1 \in 0..Capacity /\ k \in 0..Capacity /\ 1 \in 0..Capacity
        /\ k + 1 \in 1..r.count /\ k # 0 /\ (k + 1) - 1 = k
    BY <1>1
  <2>2. At(r, k) \in Slots /\ At(r, k) # r.tail
    BY <1>1, <1>5, <2>1, AtValue, AtDistinct
  <2>3. p.tail \in Slots
    BY <1>1 DEF GoodRing, RingType
  <2>4. At(p, k - 1) = At(r, k)
    <3>1. At(r, 1) = IF r.tail + 1 < Capacity THEN r.tail + 1 ELSE r.tail + 1 - Capacity
      BY <1>1, <2>1, AtValue
    <3>2. At(r, k) = IF r.tail + k < Capacity THEN r.tail + k ELSE r.tail + k - Capacity
      BY <1>1, <2>1, AtValue
    <3>3. At(p, k - 1) = IF p.tail + (k - 1) < Capacity THEN p.tail + (k - 1)
                                                ELSE p.tail + (k - 1) - Capacity
      BY <2>1, <2>3, AtValue
    <3> QED BY <1>1, <1>2, <2>1, <3>1, <3>2, <3>3
  <2>5. Contents(p)[k] = r.slot[At(r, k)]
    BY <1>1, <1>2, <1>3, <2>2, <2>4
  <2> QED BY <1>3, <1>7, <2>1, <2>5
<1>9. Contents(p) = Tail(Contents(r))
  BY <1>3, <1>7, <1>8, SeqEqual
<1> QED BY <1>4, <1>6, <1>9 DEF p

\* Storing a frame appends it to the queue.
LEMMA ContentsStore ==
    ASSUME NEW r, GoodRing(r), r.count < Capacity, NEW n \in Frames
    PROVE  Contents(Store(r, n)) = Append(Contents(r), n)
<1> DEFINE s == Store(r, n)
<1>1. /\ GoodRing(s) /\ s.count = r.count + 1
      /\ r.count \in 0..Capacity-1 /\ r.tail \in Slots /\ r.head \in Slots
      /\ r.slot \in [Slots -> Frames \cup {NoFrame}]
      /\ Capacity \in Nat \ {0}
  BY StoreGood, WsAssumption DEF GoodRing, RingType
<1>2. s.slot = [r.slot EXCEPT ![r.head] = n] /\ s.tail = r.tail
  BY DEF Store, GoodRing, RingType
<1> HIDE DEF s
<1>3. /\ Contents(r) \in Seq(Frames) /\ Len(Contents(r)) = r.count
      /\ Contents(s) \in Seq(Frames) /\ Len(Contents(s)) = r.count + 1
      /\ \A k \in 1..r.count : Contents(r)[k] = r.slot[At(r, k - 1)]
      /\ \A k \in 1..r.count+1 : Contents(s)[k] = s.slot[At(s, k - 1)]
  BY <1>1, ContentsFacts
<1>4. /\ Append(Contents(r), n) \in Seq(Frames)
      /\ Len(Append(Contents(r), n)) = r.count + 1
      /\ \A k \in 1..r.count : Append(Contents(r), n)[k] = Contents(r)[k]
      /\ Append(Contents(r), n)[r.count + 1] = n
  BY <1>3, AppendProperties
<1>5. r.head = At(r, r.count)
  BY DEF GoodRing, RingOK
<1>6. ASSUME NEW k \in 1..r.count+1
      PROVE  Contents(s)[k] = Append(Contents(r), n)[k]
  <2>1. /\ k - 1 \in 0..Capacity-1 /\ k - 1 \in 0..Capacity
        /\ r.count \in 0..Capacity-1
    BY <1>1
  <2>2. At(s, k - 1) = At(r, k - 1) /\ At(r, k - 1) \in Slots
    BY <1>1, <1>2, <2>1, AtValue DEF At
  <2>3. CASE k = r.count + 1
    <3>1. k - 1 = r.count
      BY <1>1, <2>3
    <3> QED BY <1>1, <1>2, <1>3, <1>4, <1>5, <2>2, <2>3, <3>1
  <2>4. CASE k # r.count + 1
    <3>1. k \in 1..r.count /\ k - 1 # r.count
      BY <1>1, <2>4
    <3>2. At(r, k - 1) # r.head
      BY <1>1, <1>5, <2>1, <3>1, AtDistinct
    <3> QED BY <1>1, <1>2, <1>3, <1>4, <2>2, <3>1, <3>2
  <2> QED BY <2>3, <2>4
<1>7. Contents(s) = Append(Contents(r), n)
  BY <1>3, <1>4, <1>6, SeqEqual
<1> QED BY <1>7 DEF s

\* Pushing makes room in the queue and appends, or only makes room.
LEMMA ContentsPush ==
    ASSUME NEW r, GoodRing(r), NEW n \in Frames, NEW fails
    PROVE  Contents(RingPush(r, n, fails)) =
             IF fails THEN Feed!MakeRoom(Contents(r))
                      ELSE Append(Feed!MakeRoom(Contents(r)), n)
<1> DEFINE d == DropOldest(r)
<1>1. GoodRing(d) /\ d.count < Capacity /\ Contents(d) = Feed!MakeRoom(Contents(r))
  <2>1. CASE r.count = Capacity
    <3> DEFINE p == Pop(r)
    <3>1. /\ GoodRing(p) /\ p.count = Capacity - 1
          /\ Contents(p) = Tail(Contents(r))
      BY <2>1, PopGood, ContentsPop, WsAssumption
    <3>2. d = [p EXCEPT !.dropped = p.dropped + 1]
      BY <2>1 DEF DropOldest
    <3> HIDE DEF p, d
    <3>3. /\ d \in RingType
          /\ d.slot = p.slot /\ d.head = p.head /\ d.tail = p.tail /\ d.count = p.count
      BY <3>1, <3>2 DEF GoodRing, RingType
    <3>4. \A k : At(d, k) = At(p, k)
      BY <3>3 DEF At
    <3>5. GoodRing(d) /\ Contents(d) = Contents(p)
      BY <3>1, <3>3, <3>4 DEF GoodRing, RingOK, Contents
    <3>6. Len(Contents(r)) = Capacity
      BY <2>1, ContentsFacts
    <3> QED BY <3>1, <3>3, <3>5, <3>6, WsAssumption DEF Feed!MakeRoom
  <2>2. CASE r.count # Capacity
    <3>1. d = r
      BY <2>2 DEF DropOldest
    <3>2. Len(Contents(r)) # Capacity /\ r.count \in 0..Capacity
      BY <2>2, ContentsFacts
    <3> QED BY <2>2, <3>1, <3>2, WsAssumption DEF Feed!MakeRoom
  <2> QED BY <2>1, <2>2
<1> HIDE DEF d
<1>2. Contents(Store(d, n)) = Append(Contents(d), n)
  BY <1>1, ContentsStore
<1> QED BY <1>1, <1>2 DEF RingPush, d

----------------------------------------------------------------------------
(* What the mapping relies on beyond TypeInv *)

\* The table has as many entries as members; only members' rings hold frames;
\* a connection that was never made has taken nothing.
MembersOK ==
    /\ IsFiniteSet(Registered)
    /\ Cardinality(Registered) = Len(sessions)
    /\ \A v \in Viewers : v \notin Registered => ring[v].count = 0
    /\ \A v \in Viewers : conn[v] = "none" => taken[v] = <<>>

LEMMA MembersInit == Init => MembersOK
<1> SUFFICES ASSUME Init PROVE MembersOK
  OBVIOUS
<1>1. Registered = {} /\ Len(sessions) = 0
  BY DEF Init, Registered
<1> QED BY <1>1, FS_EmptySet, EmptyRingGood DEF Init, MembersOK

LEMMA MembersSame ==
    /\ MembersOK
    /\ sessions' = sessions /\ ring' = ring /\ conn' = conn /\ taken' = taken
    => MembersOK'
BY DEF MembersOK, Registered

LEMMA MembersBroadcast ==
    ASSUME MembersOK, NEW fails, Broadcast(fails)
    PROVE  MembersOK'
<1>1. Registered' = Registered /\ sessions' = sessions
  BY DEF Broadcast, Registered
<1>2. \A v \in Viewers : v \notin Registered => ring'[v] = ring[v]
  BY DEF Broadcast
<1>3. conn' = conn /\ taken' = taken
  BY DEF Broadcast
<1> QED BY <1>1, <1>2, <1>3 DEF MembersOK

\* A new connection is added while there is room, or changes no member.
LEMMA AddedMember ==
    ASSUME TypeInv, MembersOK, NEW v \in Viewers, Established(v)
    PROVE  /\ v \notin Registered
           /\ \/ Len(sessions) >= MaxViewers /\ sessions' = sessions
                                             /\ Registered' = Registered
              \/ /\ Len(sessions) < MaxViewers
                 /\ Len(sessions') = Len(sessions) + 1
                 /\ Registered' = Registered \cup {v}
<1>1. v \notin Registered /\ Len(sessions) \in Nat /\ sessions \in Seq(Viewers)
  BY DEF Established, TypeInv, TypeOK, TableOK, Open
<1>2. SessionAdd(v)
  BY DEF Established
<1>3. CASE Len(sessions) >= MaxViewers
  <2>1. sessions' = sessions
    BY <1>2, <1>3 DEF SessionAdd
  <2> QED BY <1>1, <1>3, <2>1 DEF Registered
<1>4. CASE ~(Len(sessions) >= MaxViewers)
  <2> DEFINE s == sessions'
  <2>1. s = Append(sessions, v)
    BY <1>2, <1>4 DEF SessionAdd
  <2>2. /\ Len(s) = Len(sessions) + 1
        /\ \A i \in 1..Len(sessions) : s[i] = sessions[i]
        /\ s[Len(sessions) + 1] = v
    BY <1>1, <2>1
  <2> HIDE DEF s
  <2>3. \A i \in 1..Len(s) : i \in 1..Len(sessions) \/ i = Len(sessions) + 1
    BY <1>1, <2>2
  <2>4. \A i \in 1..Len(sessions) : i \in 1..Len(s)
    BY <1>1, <2>2
  <2>5. Len(sessions) + 1 \in 1..Len(s)
    BY <1>1, <2>2
  <2>6. {s[i] : i \in 1..Len(s)} = Registered \cup {v}
    BY <2>2, <2>3, <2>4, <2>5 DEF Registered
  <2>7. Registered' = Registered \cup {v}
    BY <2>6 DEF Registered, s
  <2> QED BY <1>1, <1>4, <2>2, <2>7, WsAssumption DEF s
<1> QED BY <1>3, <1>4

LEMMA MembersEstablished ==
    ASSUME TypeInv, MembersOK, NEW v \in Viewers, Established(v)
    PROVE  MembersOK'
<1>1. /\ \A w \in Viewers : w # v => ring'[w] = ring[w]
      /\ ring'[v].count = 0
  BY EmptyRingGood DEF Established, TypeInv, TypeOK
<1>2. /\ taken' = taken
      /\ \A w \in Viewers : conn'[w] = "none" => conn[w] = "none"
  BY DEF Established, TypeInv, TypeOK
<1>3. IsFiniteSet(Registered') /\ Cardinality(Registered') = Len(sessions')
  <2>1. CASE sessions' = sessions
    BY <2>1 DEF MembersOK, Registered
  <2>2. CASE sessions' # sessions
    <3>1. /\ v \notin Registered
          /\ Registered' = Registered \cup {v}
          /\ Len(sessions') = Len(sessions) + 1
      BY <2>2, AddedMember
    <3>2. IsFiniteSet(Registered) /\ Cardinality(Registered) = Len(sessions)
      BY DEF MembersOK
    <3>3. /\ IsFiniteSet(Registered \cup {v})
          /\ Cardinality(Registered \cup {v}) = Len(sessions) + 1
      BY <3>1, <3>2, FS_AddElement
    <3> QED BY <3>1, <3>3
  <2> QED BY <2>1, <2>2
<1>4. Registered \subseteq Registered'
  BY AddedMember
<1> QED BY <1>1, <1>2, <1>3, <1>4 DEF MembersOK

LEMMA MembersClosed ==
    ASSUME TypeInv, MembersOK, NEW v \in Viewers, Closed(v)
    PROVE  MembersOK'
<1>1. /\ Registered' = Registered \ {v}
      /\ ring' = IF v \in Registered THEN [ring EXCEPT ![v] = Drained(ring[v])]
                                     ELSE ring
  BY SessionRemoveFacts DEF Closed
<1>2. Drained(ring[v]).count = 0
  BY TypeInvRing, DrainedGood
<1>3. \A w \in Viewers : w \notin Registered' => ring'[w].count = 0
  BY <1>1, <1>2 DEF MembersOK, TypeInv, TypeOK
<1>4. /\ taken' = taken
      /\ \A w \in Viewers : conn'[w] = "none" => conn[w] = "none"
  BY DEF Closed, TypeInv, TypeOK
<1>5. IsFiniteSet(Registered') /\ Cardinality(Registered') = Len(sessions')
  <2>1. CASE v \notin Registered
    <3>1. sessions' = sessions
      BY <2>1 DEF Closed, SessionRemove
    <3> QED BY <3>1 DEF MembersOK, Registered
  <2>2. CASE v \in Registered
    <3>1. Len(sessions') = Len(sessions) - 1
      BY <2>2, SessionRemoveFacts DEF Closed
    <3> QED BY <1>1, <2>2, <3>1, FS_RemoveElement DEF MembersOK
  <2> QED BY <2>1, <2>2
<1> QED BY <1>3, <1>4, <1>5 DEF MembersOK

LEMMA MembersTake ==
    ASSUME TypeInv, MembersOK, TakeOldest
    PROVE  MembersOK'
<1> DEFINE v == cur.v
<1>1. /\ v \in Viewers /\ ring[v].count # 0 /\ sessions' = sessions /\ conn' = conn
      /\ \A w \in Viewers : w # v => ring'[w] = ring[w] /\ taken'[w] = taken[w]
  BY DEF TakeOldest, TypeInv, TypeOK, BusyViewer
<1>2. v \in Registered /\ conn[v] = "open"
  BY <1>1 DEF MembersOK, TypeInv, TableOK, Open
<1>3. Registered' = Registered
  BY <1>1 DEF Registered
<1> QED BY <1>1, <1>2, <1>3 DEF MembersOK

LEMMA MembersNext == TypeInv /\ MembersOK /\ [Next]_vars => MembersOK'
<1> SUFFICES ASSUME TypeInv, MembersOK, [Next]_vars PROVE MembersOK'
  OBVIOUS
<1>1. ASSUME NEW v \in Viewers, Closed(v)
      PROVE  MembersOK'
  BY <1>1, MembersClosed
<1>2. CASE MainNext
  <2>1. ASSUME NEW fails, Broadcast(fails)
        PROVE  MembersOK'
    BY <2>1, MembersBroadcast
  <2>2. CASE StopDone
    <3>1. Registered = {}
      BY <2>2 DEF StopDone, TypeInv, TableOK
    <3>2. Registered' = {} /\ Len(sessions') = 0
      BY <2>2 DEF StopDone, Registered
    <3> QED BY <2>2, <3>1, <3>2, FS_EmptySet DEF StopDone, MembersOK, ghostVars
  <2> QED BY <1>1, <1>2, <2>1, <2>2, MembersSame
          DEF MainNext, Start, StartFails, BroadcastNoSessions, CancelService,
              StopRunning, StopCancel, StopJoin, DestroyCloses, ghostVars
<1>3. CASE SvcNext
  <2>1. ASSUME NEW v \in Viewers, Established(v)
        PROVE  MembersOK'
    BY <2>1, MembersEstablished
  <2>2. CASE CloseAfterShort
    BY <1>1, <2>2 DEF CloseAfterShort, TypeInv, BusyViewer
  <2> QED BY <1>1, <1>3, <2>1, <2>2, MembersTake, MembersSame
          DEF SvcNext, EnterService, ThreadExit, PollReturns, DrainPipe,
              ServiceReturns, PeerClosed, Writable, NothingToWrite, WriteDone,
              WriteShort, ghostVars
<1>4. CASE UNCHANGED vars
  BY <1>4, MembersSame DEF vars, ghostVars
<1> QED BY <1>2, <1>3, <1>4 DEF Next, Terminated

LEMMA MembersHold == Spec => []MembersOK
BY MembersInit, MembersNext, TypeInvHolds, PTL DEF Spec

----------------------------------------------------------------------------
(* The simulation *)

LEMMA FeedInit == Init => Feed!FeedInit
<1> SUFFICES ASSUME Init PROVE Feed!FeedInit
  OBVIOUS
<1>1. Registered = {}
  BY DEF Init, Registered
<1>2. \A v \in Viewers : Contents(ring[v]) = <<>>
  BY EmptyRingGood, ContentsEmpty DEF Init
<1> QED BY <1>1, <1>2 DEF Init, Feed!FeedInit

\* The feed sees the rings' contents, the members, and two ghosts.
LEMMA FeedStutters ==
    /\ ring' = ring /\ Registered' = Registered
    /\ published' = published /\ taken' = taken
    => UNCHANGED Feed!feedVars
BY DEF Feed!feedVars

LEMMA FeedPublish ==
    ASSUME TypeInv, NEW fails \in SUBSET (Registered \cap Oom), Broadcast(fails)
    PROVE  Feed!Publish(fails)
<1> DEFINE n == published + 1
<1>1. n \in Frames
  BY WsAssumption DEF Broadcast, TypeInv, TypeOK, Frames
<1>2. ring' = [v \in Viewers |-> IF v \in Registered
                                 THEN RingPush(ring[v], n, v \in fails)
                                 ELSE ring[v]]
  BY DEF Broadcast
<1>3. ASSUME NEW v \in Viewers
      PROVE  Contents(ring'[v]) =
               IF v \notin Registered THEN Contents(ring[v])
               ELSE IF v \in fails THEN Feed!MakeRoom(Contents(ring[v]))
               ELSE Append(Feed!MakeRoom(Contents(ring[v])), n)
  <2>1. GoodRing(ring[v])
    BY TypeInvRing
  <2> HIDE DEF n
  <2>2. Contents(RingPush(ring[v], n, v \in fails)) =
          IF v \in fails THEN Feed!MakeRoom(Contents(ring[v]))
                         ELSE Append(Feed!MakeRoom(Contents(ring[v])), n)
    BY <1>1, <2>1, ContentsPush
  <2> QED BY <1>2, <2>2
<1>4. /\ Registered' = Registered /\ published' = n /\ taken' = taken
      /\ published < MaxFrames
  BY DEF Broadcast, Registered
<1>5. [v \in Viewers |-> Contents(ring[v])]' =
        [v \in Viewers |->
           IF v \notin Registered THEN Contents(ring[v])
           ELSE IF v \in fails THEN Feed!MakeRoom(Contents(ring[v]))
           ELSE Append(Feed!MakeRoom(Contents(ring[v])), n)]
  BY <1>3
<1> QED BY <1>4, <1>5 DEF Feed!Publish

LEMMA FeedPublishNobody ==
    ASSUME BroadcastNoSessions
    PROVE  Feed!Publish({})
<1>1. Registered = {} /\ Registered' = {}
  BY DEF BroadcastNoSessions, Registered
<1> QED BY <1>1 DEF BroadcastNoSessions, Feed!Publish

LEMMA FeedTake ==
    ASSUME TypeInv, TakeOldest
    PROVE  cur.v \in Viewers /\ Feed!Take(cur.v)
<1> DEFINE v == cur.v
           m == ring[v].slot[ring[v].tail]
<1>1. /\ v \in Viewers /\ GoodRing(ring[v]) /\ ring[v].count > 0
  BY TypeInvRing DEF TakeOldest, TypeInv, TypeOK, BusyViewer, RingType
<1>2. /\ Contents(ring[v]) # <<>>
      /\ Head(Contents(ring[v])) = m
      /\ Contents(Pop(ring[v])) = Tail(Contents(ring[v]))
  BY <1>1, ContentsPop
<1>3. /\ ring' = [ring EXCEPT ![v] = Pop(ring[v])]
      /\ taken' = [taken EXCEPT ![v] = Append(taken[v], m)]
      /\ Registered' = Registered /\ published' = published
  BY DEF TakeOldest, Registered
<1>4. ring \in [Viewers -> RingType] /\ taken \in [Viewers -> Seq(Frames)]
  BY DEF TypeInv, TypeOK
<1> HIDE DEF m
<1>5. [w \in Viewers |-> Contents(ring[w])]' =
        [[w \in Viewers |-> Contents(ring[w])] EXCEPT ![v] = Tail(Contents(ring[v]))]
  BY <1>1, <1>2, <1>3, <1>4
<1> QED BY <1>1, <1>2, <1>3, <1>5 DEF Feed!Take

\* The instance brings its own copy of Cardinality.
LEMMA FeedCardinality == \A S : Feed!Cardinality(S) = Cardinality(S)
  BY DEF Feed!Cardinality, Cardinality

LEMMA FeedJoin ==
    ASSUME TypeInv, MembersOK, NEW v \in Viewers, Established(v)
    PROVE  Feed!Join(v) \/ UNCHANGED Feed!feedVars
<1>1. /\ ring' = [ring EXCEPT ![v] = EmptyRing]
      /\ published' = published /\ taken' = taken /\ conn[v] = "none"
  BY DEF Established
<1>2. v \notin Registered
  BY AddedMember
<1>3. Contents(EmptyRing) = Contents(ring[v])
  BY <1>2, TypeInvRing, EmptyRingGood, ContentsEmpty DEF MembersOK
<1>4. [w \in Viewers |-> Contents(ring[w])]' = [w \in Viewers |-> Contents(ring[w])]
  BY <1>1, <1>3 DEF TypeInv, TypeOK
<1>5. CASE Registered' = Registered
  BY <1>1, <1>4, <1>5 DEF Feed!feedVars
<1>6. CASE Registered' # Registered
  <2>1. Registered' = Registered \cup {v} /\ Cardinality(Registered) < MaxViewers
    BY <1>6, AddedMember DEF MembersOK
  <2>2. taken[v] = <<>>
    BY <1>1 DEF MembersOK
  <2> QED BY <1>1, <1>2, <1>4, <2>1, <2>2, FeedCardinality DEF Feed!Join
<1> QED BY <1>5, <1>6

LEMMA FeedLeave ==
    ASSUME TypeInv, NEW v \in Viewers, Closed(v)
    PROVE  Feed!Leave(v) \/ UNCHANGED Feed!feedVars
<1>1. /\ Registered' = Registered \ {v}
      /\ ring' = IF v \in Registered THEN [ring EXCEPT ![v] = Drained(ring[v])]
                                     ELSE ring
      /\ published' = published /\ taken' = taken
  BY SessionRemoveFacts DEF Closed
<1>2. Contents(Drained(ring[v])) = <<>>
  BY TypeInvRing, DrainedGood, ContentsEmpty
<1>3. CASE v \in Registered
  <2>1. [w \in Viewers |-> Contents(ring[w])]' =
          [[w \in Viewers |-> Contents(ring[w])] EXCEPT ![v] = <<>>]
    BY <1>1, <1>2, <1>3 DEF TypeInv, TypeOK
  <2> QED BY <1>1, <1>3, <2>1 DEF Feed!Leave
<1>4. CASE v \notin Registered
  BY <1>1, <1>4, FeedStutters
<1> QED BY <1>3, <1>4

LEMMA FeedStep ==
    TypeInv /\ MembersOK /\ [Next]_vars => [Feed!FeedNext]_(Feed!feedVars)
<1> SUFFICES ASSUME TypeInv, MembersOK, [Next]_vars
             PROVE  Feed!FeedNext \/ UNCHANGED Feed!feedVars
  OBVIOUS
<1>1. ASSUME NEW v \in Viewers, Closed(v)
      PROVE  Feed!FeedNext \/ UNCHANGED Feed!feedVars
  BY <1>1, FeedLeave DEF Feed!FeedNext
<1>2. ASSUME sessions' = sessions, ring' = ring,
             published' = published, taken' = taken
      PROVE  UNCHANGED Feed!feedVars
  BY <1>2, FeedStutters DEF Registered
<1>3. CASE MainNext
  <2>1. ASSUME NEW fails \in SUBSET (Registered \cap Oom), Broadcast(fails)
        PROVE  Feed!FeedNext
    BY <2>1, FeedPublish DEF Feed!FeedNext
  <2>2. ASSUME BroadcastNoSessions
        PROVE  Feed!FeedNext
    BY <2>2, FeedPublishNobody DEF Feed!FeedNext
  <2>3. CASE StopDone
    <3>1. \A v \in Viewers : v \notin Registered
      BY <2>3 DEF StopDone, TypeInv, TableOK, Open
    <3>2. Registered \subseteq Viewers
      BY DEF TypeInv, TypeOK, Registered
    <3>3. Registered = {}
      BY <3>1, <3>2
    <3>4. sessions' = <<>>
      BY <2>3 DEF StopDone
    <3>5. Registered' = {}
      BY <3>4 DEF Registered
    <3>6. Registered' = Registered
      BY <3>3, <3>5
    <3> QED BY <2>3, <3>6, FeedStutters DEF StopDone, ghostVars
  <2> QED BY <1>1, <1>2, <1>3, <2>1, <2>2, <2>3
          DEF MainNext, Start, StartFails, CancelService, StopRunning, StopCancel,
              StopJoin, DestroyCloses, ghostVars
<1>4. CASE SvcNext
  <2>1. ASSUME NEW v \in Viewers, Established(v)
        PROVE  Feed!FeedNext \/ UNCHANGED Feed!feedVars
    BY <2>1, FeedJoin DEF Feed!FeedNext
  <2>2. CASE CloseAfterShort
    BY <1>1, <2>2 DEF CloseAfterShort, TypeInv, BusyViewer
  <2>3. CASE TakeOldest
    BY <2>3, FeedTake DEF Feed!FeedNext
  <2> QED BY <1>1, <1>2, <1>4, <2>1, <2>2, <2>3
          DEF SvcNext, EnterService, ThreadExit, PollReturns, DrainPipe,
              ServiceReturns, PeerClosed, Writable, NothingToWrite, WriteDone,
              WriteShort, ghostVars
<1>5. CASE UNCHANGED vars
  BY <1>2, <1>5 DEF vars, ghostVars
<1> QED BY <1>3, <1>4, <1>5 DEF Next, Terminated

\* Whatever the two threads do, the viewers see a feed: frames in order, the
\* oldest dropped first, at most MaxViewers members.
THEOREM WsImplementsFeed == Spec => ImplementsFeed
<1>2. Spec => Feed!FeedInit /\ [][Feed!FeedNext]_(Feed!feedVars)
  BY FeedInit, FeedStep, TypeInvHolds, MembersHold, PTL DEF Spec
<1> QED BY <1>2 DEF ImplementsFeed, Feed!FeedSpec

----------------------------------------------------------------------------
(* Who owns the copies of frames *)

\* The frames in a ring are different from each other.
Distinct(r) == \A i, j \in 1..r.count : Contents(r)[i] = Contents(r)[j] => i = j

\* Popping gives away the oldest frame, and no other copy of it stays behind.
LEMMA HeldPop ==
    ASSUME NEW r, GoodRing(r), r.count > 0, Distinct(r)
    PROVE  /\ Held(Pop(r)) = Held(r) \ {r.slot[r.tail]}
           /\ r.slot[r.tail] \in Held(r)
           /\ Distinct(Pop(r))
<1> DEFINE p == Pop(r)
           c == Contents(r)
           n == r.count
<1>1. c \in Seq(Frames) /\ Len(c) = n /\ n \in Nat /\ n > 0
  BY ContentsFacts
<1>2. c # <<>> /\ Contents(p) = Tail(c) /\ r.slot[r.tail] = Head(c) /\ p.count = n - 1
  BY ContentsPop, PopGood
<1> HIDE DEF p, c, n
<1>3. Head(c) = c[1] /\ \A k \in 1..n-1 : Contents(p)[k] = c[k + 1]
  BY <1>1, <1>2, HeadTailProperties
<1>4. \A i, j \in 1..n : c[i] = c[j] => i = j
  BY DEF Distinct, c, n
<1>5. Distinct(p)
  <2> SUFFICES ASSUME NEW i \in 1..n-1, NEW j \in 1..n-1, Contents(p)[i] = Contents(p)[j]
               PROVE  i = j
    BY <1>2 DEF Distinct
  <2>1. i + 1 \in 1..n /\ j + 1 \in 1..n /\ c[i + 1] = c[j + 1]
    BY <1>1, <1>3
  <2>2. i + 1 = j + 1
    BY <1>4, <2>1
  <2> QED BY <2>2
<1>6. Held(r) = {c[k] : k \in 1..n} /\ Held(p) = {Contents(p)[k] : k \in 1..n-1}
  BY <1>2 DEF Held, c, n
<1>7. c[1] \in Held(r) /\ 1 \in 1..n
  BY <1>1, <1>6
<1>8. Held(p) \subseteq Held(r) \ {c[1]}
  <2> SUFFICES ASSUME NEW k \in 1..n-1 PROVE Contents(p)[k] \in Held(r) \ {c[1]}
    BY <1>6
  <2>1. k + 1 \in 1..n /\ k + 1 # 1
    BY <1>1
  <2>2. c[k + 1] \in Held(r) /\ c[k + 1] # c[1]
    BY <1>4, <1>6, <1>7, <2>1
  <2> QED BY <1>3, <2>2
<1>9. Held(r) \ {c[1]} \subseteq Held(p)
  <2> SUFFICES ASSUME NEW k \in 1..n, c[k] # c[1] PROVE c[k] \in Held(p)
    BY <1>6
  <2>1. k - 1 \in 1..n-1 /\ (k - 1) + 1 = k
    BY <1>1
  <2> QED BY <1>3, <1>6, <2>1
<1> QED BY <1>2, <1>3, <1>5, <1>7, <1>8, <1>9 DEF p

\* Storing adds the one frame.
LEMMA HeldStore ==
    ASSUME NEW r, GoodRing(r), r.count < Capacity, NEW n \in Frames, Distinct(r),
           n \notin Held(r)
    PROVE  Held(Store(r, n)) = Held(r) \cup {n} /\ Distinct(Store(r, n))
<1> DEFINE s == Store(r, n)
           c == Contents(r)
           m == r.count
<1>1. c \in Seq(Frames) /\ Len(c) = m /\ m \in Nat
  BY ContentsFacts
<1>2. Contents(s) = Append(c, n) /\ s.count = m + 1
  BY ContentsStore, StoreGood
<1> HIDE DEF s, c, m
<1>3. (\A k \in 1..m : Contents(s)[k] = c[k]) /\ Contents(s)[m + 1] = n
  BY <1>1, <1>2, AppendProperties
<1>4. Held(r) = {c[k] : k \in 1..m} /\ Held(s) = {Contents(s)[k] : k \in 1..m+1}
  BY <1>2 DEF Held, c, m
<1>5. 1..m+1 = 1..m \cup {m + 1}
  BY <1>1
<1>6. Held(s) = Held(r) \cup {n}
  BY <1>3, <1>4, <1>5
<1>7. (\A i, j \in 1..m : c[i] = c[j] => i = j) /\ \A i \in 1..m : c[i] # n
  BY <1>4 DEF Distinct, c, m
<1>8. \A i, j \in 1..m+1 : Contents(s)[i] = Contents(s)[j] => i = j
  BY <1>3, <1>5, <1>7
<1> QED BY <1>2, <1>6, <1>8 DEF Distinct, s

\* Making room frees the oldest frame of a full ring.
LEMMA HeldDropOldest ==
    ASSUME NEW r, GoodRing(r), Distinct(r)
    PROVE  LET d == DropOldest(r)
           IN  /\ GoodRing(d) /\ Distinct(d) /\ d.count < Capacity
               /\ Held(d) = Held(r) \ Freed(r)
               /\ Freed(r) \subseteq Held(r)
               /\ d.count + d.dropped = r.count + r.dropped
<1> DEFINE d == DropOldest(r)
           p == Pop(r)
<1>1. /\ Capacity \in Nat \ {0} /\ r \in RingType
      /\ r.count \in 0..Capacity /\ r.dropped \in Nat
  BY WsAssumption DEF GoodRing, RingType
<1>2. CASE r.count = Capacity
  <2>1. r.count > 0
    BY <1>1, <1>2
  <2>2. /\ GoodRing(p) /\ p.count = Capacity - 1 /\ Distinct(p)
        /\ Held(p) = Held(r) \ {r.slot[r.tail]} /\ r.slot[r.tail] \in Held(r)
    BY <1>2, <2>1, PopGood, HeldPop
  <2>3. p.dropped = r.dropped
    BY <1>1 DEF Pop, RingType
  <2>4. d = [p EXCEPT !.dropped = p.dropped + 1]
    BY <1>2 DEF DropOldest
  <2>5. Freed(r) = {r.slot[r.tail]}
    BY <1>2 DEF Freed
  <2> HIDE DEF d, p
  <2>6. /\ d \in RingType /\ d.slot = p.slot /\ d.head = p.head /\ d.tail = p.tail
        /\ d.count = p.count /\ d.dropped = r.dropped + 1
    BY <1>1, <2>2, <2>3, <2>4 DEF GoodRing, RingType
  <2>7. \A k : At(d, k) = At(p, k)
    BY <2>6 DEF At
  <2>8. GoodRing(d)
    BY <2>2, <2>6, <2>7 DEF GoodRing, RingOK
  <2>9. Contents(d) = Contents(p)
    BY <2>6, <2>7 DEF Contents
  <2>10. Held(d) = Held(p) /\ Distinct(d)
    BY <2>2, <2>6, <2>9 DEF Held, Distinct
  <2>11. d.count < Capacity /\ d.count + d.dropped = r.count + r.dropped
    BY <1>1, <1>2, <2>2, <2>6
  <2> QED BY <2>2, <2>5, <2>8, <2>10, <2>11 DEF d
<1>3. CASE r.count # Capacity
  <2>1. d = r /\ Freed(r) = {} /\ d.count < Capacity
    BY <1>1, <1>3 DEF DropOldest, Freed
  <2> QED BY <2>1
<1> QED BY <1>2, <1>3

\* Pushing frees what it drops and owns what it stores; the frame that is pushed
\* is in the ring or counted, unless malloc failed.
LEMMA HeldPush ==
    ASSUME NEW r, GoodRing(r), Distinct(r), NEW n \in Frames, n \notin Held(r),
           NEW fails \in BOOLEAN
    PROVE  LET q == RingPush(r, n, fails)
           IN  /\ Distinct(q)
               /\ Held(q) = (Held(r) \ Freed(r)) \cup (IF fails THEN {} ELSE {n})
               /\ Freed(r) \subseteq Held(r)
               /\ q.count + q.dropped =
                    r.count + r.dropped + (IF fails THEN 0 ELSE 1)
<1> DEFINE d == DropOldest(r)
           s == Store(d, n)
<1>1. /\ GoodRing(d) /\ Distinct(d) /\ d.count < Capacity
      /\ Held(d) = Held(r) \ Freed(r)
      /\ Freed(r) \subseteq Held(r)
      /\ d.count + d.dropped = r.count + r.dropped
  BY HeldDropOldest
<1>2. d \in RingType /\ r \in RingType /\ d.count \in Nat /\ d.dropped \in Nat
  BY <1>1, WsAssumption DEF GoodRing, RingType
<1> HIDE DEF d
<1>3. s.count = d.count + 1 /\ s.dropped = d.dropped
  BY <1>2 DEF Store, RingType
<1>4. Held(s) = Held(d) \cup {n} /\ Distinct(s)
  BY <1>1, HeldStore
<1>5. s.count + s.dropped = r.count + r.dropped + 1
  BY <1>1, <1>2, <1>3
<1> HIDE DEF s
<1>6. CASE fails
  <2>1. RingPush(r, n, fails) = d
    BY <1>6 DEF RingPush, d
  <2>2. r.count + r.dropped + 0 = r.count + r.dropped
    BY <1>2, WsAssumption DEF RingType
  <2> QED BY <1>1, <1>6, <2>1, <2>2
<1>7. CASE ~fails
  <2>1. RingPush(r, n, fails) = s
    BY <1>7 DEF RingPush, d, s
  <2> QED BY <1>1, <1>4, <1>5, <1>7, <2>1
<1> QED BY <1>6, <1>7

\* HeapOwned, and what keeps the frames apart: those of a ring are different
\* from each other and from those that are yet to be broadcast.
HeapInv ==
    \A v \in Viewers :
        /\ heap[v] = Held(ring[v]) \cup InFlight(v)
        /\ Held(ring[v]) \cap InFlight(v) = {}
        /\ Distinct(ring[v])
        /\ \A f \in Held(ring[v]) \cup InFlight(v) : f <= published

\* An empty ring holds nothing.
LEMMA HeldEmpty ==
    ASSUME NEW r, r.count = 0
    PROVE  Held(r) = {} /\ Distinct(r)
<1>1. 1..r.count = {}
  OBVIOUS
<1> QED BY <1>1, Zenon DEF Held, Distinct

LEMMA HeapInit == Init => HeapInv
<1> SUFFICES ASSUME Init, NEW v \in Viewers
             PROVE  /\ heap[v] = {} /\ InFlight(v) = {}
                    /\ Held(ring[v]) = {} /\ Distinct(ring[v])
  BY DEF HeapInv
<1>1. ring[v].count = 0
  BY EmptyRingGood DEF Init
<1>2. heap[v] = {} /\ InFlight(v) = {}
  BY DEF Init, InFlight
<1> QED BY <1>1, <1>2, HeldEmpty

\* Steps that move no frame.
LEMMA HeapSame ==
    ASSUME HeapInv, ring' = ring, heap' = heap,
           \/ svc' # "write" /\ svc # "write"
           \/ svc' = svc /\ cur' = cur,
           \/ published' = published
           \/ TypeOK /\ published' = published + 1
    PROVE  HeapInv'
<1>1. \A v \in Viewers : InFlight(v)' = InFlight(v)
  BY DEF InFlight
<1>2. \A v \in Viewers : Distinct(ring'[v]) = Distinct(ring[v])
  OBVIOUS
<1>3. ASSUME NEW v \in Viewers, NEW f \in Held(ring[v]) \cup InFlight(v)
      PROVE  f <= published'
  <2>1. f <= published
    BY DEF HeapInv
  <2>2. CASE published' = published
    BY <2>1, <2>2
  <2>3. CASE TypeOK /\ published' = published + 1
    <3>1. f \in heap[v] /\ heap[v] \subseteq Frames
      BY <2>3 DEF HeapInv, TypeOK
    <3>2. f \in Int /\ published \in Int
      BY <2>3, <3>1, WsAssumption DEF TypeOK, Frames
    <3> QED BY <2>1, <2>3, <3>2
  <2> QED BY <2>2, <2>3
<1> QED BY <1>1, <1>2, <1>3 DEF HeapInv

\* A broadcast gives every registered viewer's ring a copy, and frees the copy it
\* drops.
LEMMA HeapBroadcast ==
    ASSUME TypeInv, HeapInv, NEW fails \in SUBSET (Registered \cap Oom),
           Broadcast(fails)
    PROVE  HeapInv'
<1> DEFINE n == published + 1
<1>1. /\ published \in Nat /\ n \in Frames /\ published' = n
      /\ svc' = svc /\ cur' = cur
  BY WsAssumption DEF TypeInv, TypeOK, Broadcast, Frames, ghostVars
<1>2. \A v \in Viewers : InFlight(v)' = InFlight(v)
  BY <1>1 DEF InFlight
<1> HIDE DEF n
<1> SUFFICES ASSUME NEW v \in Viewers
             PROVE  /\ heap'[v] = Held(ring'[v]) \cup InFlight(v)
                    /\ Held(ring'[v]) \cap InFlight(v) = {}
                    /\ Distinct(ring'[v])
                    /\ \A f \in Held(ring'[v]) \cup InFlight(v) : f <= n
  BY <1>1, <1>2 DEF HeapInv
<1>3. /\ heap[v] = Held(ring[v]) \cup InFlight(v)
      /\ Held(ring[v]) \cap InFlight(v) = {}
      /\ Distinct(ring[v])
      /\ \A f \in Held(ring[v]) \cup InFlight(v) : f <= published
      /\ heap[v] \subseteq Frames
  BY DEF HeapInv, TypeInv, TypeOK
<1>4. /\ \A f \in heap[v] : f \in Int /\ f <= n
      /\ n \notin heap[v]
  BY <1>1, <1>3, WsAssumption DEF Frames, n
<1>5. CASE v \in Registered
  <2> DEFINE q == RingPush(ring[v], n, v \in fails)
  <2>1. ring'[v] = q
    BY <1>5 DEF Broadcast, n
  <2>2. heap'[v] = (heap[v] \ Freed(ring[v])) \cup (IF v \in fails THEN {} ELSE {n})
    BY <1>5 DEF Broadcast, n
  <2>3. GoodRing(ring[v]) /\ n \notin Held(ring[v]) /\ (v \in fails) \in BOOLEAN
    BY <1>3, <1>4, TypeInvRing
  <2>4. /\ Distinct(q)
        /\ Held(q) = (Held(ring[v]) \ Freed(ring[v])) \cup (IF v \in fails THEN {} ELSE {n})
        /\ Freed(ring[v]) \subseteq Held(ring[v])
    BY <1>1, <1>3, <2>3, HeldPush
  <2> HIDE DEF q
  <2>5. heap'[v] = Held(q) \cup InFlight(v)
    BY <1>3, <2>2, <2>4
  <2>6. Held(q) \cap InFlight(v) = {}
    BY <1>3, <1>4, <2>4
  <2>7. \A f \in Held(q) \cup InFlight(v) : f <= n
    BY <1>1, <1>3, <1>4, <2>4, WsAssumption DEF Frames
  <2> QED BY <2>1, <2>4, <2>5, <2>6, <2>7
<1>6. CASE v \notin Registered
  <2>1. ring'[v] = ring[v] /\ heap'[v] = heap[v]
    BY <1>6 DEF Broadcast
  <2> QED BY <1>3, <1>4, <2>1
<1> QED BY <1>5, <1>6

\* A new connection starts without copies.
LEMMA HeapEstablished ==
    ASSUME TypeInv, MembersOK, HeapInv, NEW w \in Viewers, Established(w)
    PROVE  HeapInv'
<1>1. /\ svc = "serve" /\ svc' = svc /\ cur' = cur /\ heap' = heap
      /\ published' = published /\ ring' = [ring EXCEPT ![w] = EmptyRing]
  BY DEF Established
<1>2. w \notin Registered
  BY AddedMember
<1>3. Held(ring[w]) = {} /\ ring[w].count = 0
  BY <1>2, HeldEmpty DEF MembersOK
<1>4. Held(EmptyRing) = {} /\ Distinct(EmptyRing)
  BY EmptyRingGood, HeldEmpty
<1>5. \A v \in Viewers : InFlight(v)' = InFlight(v)
  BY <1>1 DEF InFlight
<1>6. ring \in [Viewers -> RingType]
  BY DEF TypeInv, TypeOK
<1>7. \A v \in Viewers : ring'[v] = IF v = w THEN EmptyRing ELSE ring[v]
  BY <1>1, <1>6
<1>8. \A v \in Viewers : Held(ring'[v]) = Held(ring[v]) /\ Distinct(ring'[v])
  <2> TAKE v \in Viewers
  <2>1. CASE v = w
    BY <1>3, <1>4, <1>7, <2>1
  <2>2. CASE v # w
    BY <1>7, <2>2 DEF HeapInv
  <2> QED BY <2>1, <2>2
<1> QED BY <1>1, <1>5, <1>8 DEF HeapInv

\* A close frees what is left in the ring; no write is under way for the viewer.
LEMMA HeapClosed ==
    ASSUME TypeInv, HeapInv, NEW w \in Viewers, Closed(w),
           svc # "write", svc' # "write"
    PROVE  HeapInv'
<1>1. /\ published' = published /\ SessionRemove(w)
  BY DEF Closed
<1>2. /\ ring' = IF w \in Registered THEN [ring EXCEPT ![w] = Drained(ring[w])]
                                     ELSE ring
      /\ heap' = IF w \in Registered
                 THEN [heap EXCEPT ![w] = heap[w] \ Held(ring[w])] ELSE heap
  BY <1>1, SessionRemoveFacts
<1>3. \A v \in Viewers : InFlight(v)' = {} /\ InFlight(v) = {}
  BY DEF InFlight
<1>4. CASE w \notin Registered
  BY <1>1, <1>2, <1>4, HeapSame
<1>5. CASE w \in Registered
  <2>1. GoodRing(ring[w])
    BY TypeInvRing
  <2>2. Held(Drained(ring[w])) = {} /\ Distinct(Drained(ring[w]))
    BY <2>1, DrainedGood, HeldEmpty
  <2>3. ring \in [Viewers -> RingType] /\ heap \in [Viewers -> SUBSET Frames]
    BY DEF TypeInv, TypeOK
  <2>4. \A v \in Viewers : /\ ring'[v] = IF v = w THEN Drained(ring[w]) ELSE ring[v]
                           /\ heap'[v] = IF v = w THEN heap[w] \ Held(ring[w]) ELSE heap[v]
    BY <1>2, <1>5, <2>3
  <2>5. heap[w] = Held(ring[w])
    BY <1>3 DEF HeapInv
  <2> SUFFICES ASSUME NEW v \in Viewers
               PROVE  /\ heap'[v] = Held(ring'[v])
                      /\ Distinct(ring'[v])
                      /\ \A f \in Held(ring'[v]) : f <= published
    BY <1>1, <1>3 DEF HeapInv
  <2>6. CASE v = w
    BY <2>2, <2>4, <2>5, <2>6
  <2>7. CASE v # w
    BY <1>3, <2>4, <2>7 DEF HeapInv
  <2> QED BY <2>6, <2>7
<1> QED BY <1>4, <1>5

\* The copy that is popped is the write's.
LEMMA HeapTake ==
    ASSUME TypeInv, HeapInv, TakeOldest
    PROVE  HeapInv'
<1> DEFINE w == cur.v
           m == ring[w].slot[ring[w].tail]
<1>1. /\ svc = "writeable" /\ svc' = "write" /\ ring[w].count # 0
      /\ ring' = [ring EXCEPT ![w] = Pop(ring[w])]
      /\ cur'.v = w /\ cur'.frame = m
      /\ heap' = heap /\ published' = published
  BY DEF TakeOldest
<1>2. w \in Viewers /\ GoodRing(ring[w]) /\ ring \in [Viewers -> RingType]
  BY <1>1, TypeInvRing DEF TypeInv, BusyViewer, TypeOK
<1>3. ring[w].count > 0
  BY <1>1, <1>2 DEF RingType
<1> HIDE DEF w, m
<1>4. /\ Held(Pop(ring[w])) = Held(ring[w]) \ {m} /\ m \in Held(ring[w])
      /\ Distinct(Pop(ring[w]))
  BY <1>2, <1>3, HeldPop DEF HeapInv, m
<1>5. \A v \in Viewers : /\ ring'[v] = IF v = w THEN Pop(ring[w]) ELSE ring[v]
                         /\ InFlight(v) = {}
                         /\ InFlight(v)' = IF v = w THEN {m} ELSE {}
  BY <1>1, <1>2 DEF InFlight
<1> SUFFICES ASSUME NEW v \in Viewers
             PROVE  /\ heap[v] = Held(ring'[v]) \cup InFlight(v)'
                    /\ Held(ring'[v]) \cap InFlight(v)' = {}
                    /\ Distinct(ring'[v])
                    /\ \A f \in Held(ring'[v]) \cup InFlight(v)' : f <= published
  BY <1>1 DEF HeapInv
<1>6. /\ heap[v] = Held(ring[v]) /\ Distinct(ring[v])
      /\ \A f \in Held(ring[v]) : f <= published
  BY <1>5 DEF HeapInv
<1>7. CASE v = w
  BY <1>4, <1>5, <1>6, <1>7
<1>8. CASE v # w
  BY <1>5, <1>6, <1>8
<1> QED BY <1>7, <1>8

\* The write frees its copy, which nobody else has.
LEMMA HeapWritten ==
    ASSUME TypeInv, HeapInv, WriteDone \/ WriteShort
    PROVE  HeapInv'
<1>1. /\ svc = "write" /\ svc' # "write" /\ ring' = ring /\ published' = published
      /\ heap' = [heap EXCEPT ![cur.v] = @ \ {cur.frame}]
  BY DEF WriteDone, WriteShort
<1>2. heap \in [Viewers -> SUBSET Frames]
  BY DEF TypeInv, TypeOK
<1>3. \A v \in Viewers : /\ heap'[v] = heap[v] \ InFlight(v)
                         /\ InFlight(v)' = {}
  <2> TAKE v \in Viewers
  <2>1. InFlight(v)' = {}
    BY <1>1 DEF InFlight
  <2>2. heap'[v] = heap[v] \ InFlight(v)
    BY <1>1, <1>2 DEF InFlight
  <2> QED BY <2>1, <2>2
<1>4. \A v \in Viewers : heap'[v] = Held(ring[v])
  BY <1>3 DEF HeapInv
<1> QED BY <1>1, <1>3, <1>4 DEF HeapInv

LEMMA HeapNext ==
    TypeInv /\ MembersOK /\ NotStarted /\ DestroyAlone /\ HeapInv /\ [Next]_vars
      => HeapInv'
<1> SUFFICES ASSUME TypeInv, MembersOK, NotStarted, DestroyAlone, HeapInv,
                    [Next]_vars
             PROVE  HeapInv'
  OBVIOUS
<1>1. CASE MainNext
  <2>1. CASE \E fails \in SUBSET (Registered \cap Oom) : Broadcast(fails)
    BY <2>1, HeapBroadcast
  <2>2. CASE \E v \in Viewers : DestroyCloses(v)
    BY <2>2, HeapClosed DEF DestroyCloses, DestroyAlone
  <2>3. CASE Start \/ StartFails
    <3>1. svc # "write" \/ svc' = svc
      BY <2>3 DEF Start, StartFails, NotStarted
    <3> QED BY <2>3, <3>1, HeapSame DEF Start, StartFails, ghostVars
  <2>4. CASE BroadcastNoSessions
    BY <2>4, HeapSame DEF BroadcastNoSessions, TypeInv
  <2>5. CASE CancelService \/ StopRunning \/ StopCancel \/ StopJoin \/ StopDone
    BY <2>5, HeapSame DEF CancelService, StopRunning, StopCancel, StopJoin,
                          StopDone, ghostVars
  <2> QED BY <1>1, <2>1, <2>2, <2>3, <2>4, <2>5 DEF MainNext
<1>2. CASE SvcNext
  <2>1. CASE \E v \in Viewers : Established(v)
    BY <2>1, HeapEstablished
  <2>2. CASE \E v \in Viewers : PeerClosed(v)
    BY <2>2, HeapClosed DEF PeerClosed
  <2>3. CASE CloseAfterShort
    <3>1. cur.v \in Viewers /\ Closed(cur.v) /\ svc = "close" /\ svc' = "serve"
      BY <2>3 DEF CloseAfterShort, TypeInv, BusyViewer
    <3> QED BY <3>1, HeapClosed
  <2>4. CASE TakeOldest
    BY <2>4, HeapTake
  <2>5. CASE WriteDone \/ WriteShort
    BY <2>5, HeapWritten
  <2>6. CASE \E v \in Viewers : Writable(v)
    BY <2>6, HeapSame DEF Writable, ghostVars
  <2>7. CASE NothingToWrite
    BY <2>7, HeapSame DEF NothingToWrite, ghostVars
  <2>8. CASE EnterService \/ ThreadExit \/ PollReturns \/ DrainPipe \/ ServiceReturns
    BY <2>8, HeapSame DEF EnterService, ThreadExit, PollReturns, DrainPipe,
                          ServiceReturns, ghostVars
  <2> QED BY <1>2, <2>1, <2>2, <2>3, <2>4, <2>5, <2>6, <2>7, <2>8 DEF SvcNext
<1>3. CASE UNCHANGED vars
  BY <1>3, HeapSame DEF vars, ghostVars
<1> QED BY <1>1, <1>2, <1>3 DEF Next, Terminated

LEMMA HeapInvHolds == Spec => []HeapInv
<1>1. Spec => [](TypeInv /\ MembersOK /\ NotStarted /\ DestroyAlone)
  BY TypeInvHolds, MembersHold, NotStartedHolds, DestroyAloneHolds, PTL
<1> QED BY <1>1, HeapInit, HeapNext, PTL DEF Spec

\* Every copy has one owner, which frees it: no leak, double free or use after
\* free, for any viewers, ring capacity, failing mallocs and order of events.
THEOREM WsHeapOwned == Spec => []HeapOwned
<1>1. MembersOK /\ HeapInv => HeapOwned
  BY DEF MembersOK, HeapInv, HeapOwned
<1> QED BY <1>1, MembersHold, HeapInvHolds, PTL

----------------------------------------------------------------------------
(* After the server has stopped *)

\* Only the service thread accepts connections, and it has gone.
NoneOpen == main = "stopped" => Open = {}

LEMMA NoneOpenMain ==
    TypeInv /\ DestroyAlone /\ NoneOpen /\ MainNext => NoneOpen'
<1> SUFFICES ASSUME TypeInv, NoneOpen, MainNext, main' = "stopped"
             PROVE  Open' = {}
  BY DEF NoneOpen
<1>1. StopDone
  BY DEF MainNext, Start, StartFails, BroadcastNoSessions, Broadcast, CancelService,
         StopRunning, StopCancel, StopJoin, DestroyCloses, Closed
<1> QED BY <1>1 DEF StopDone, Open

LEMMA NoneOpenSvc ==
    DestroyAlone /\ NoneOpen /\ SvcNext => NoneOpen'
<1> SUFFICES ASSUME DestroyAlone, NoneOpen, SvcNext
             PROVE  NoneOpen'
  OBVIOUS
<1>1. main' = main /\ svc # "exited"
  BY DEF SvcNext, EnterService, ThreadExit, PollReturns, DrainPipe, ServiceReturns,
         Established, PeerClosed, Closed, Writable, NothingToWrite, TakeOldest,
         WriteDone, WriteShort, CloseAfterShort
<1> QED BY <1>1 DEF DestroyAlone, NoneOpen

LEMMA NoneOpenHolds == Spec => []NoneOpen
<1>1. Init => NoneOpen
  BY DEF Init, NoneOpen
<1>2. NoneOpen /\ UNCHANGED vars => NoneOpen'
  BY DEF NoneOpen, Open, vars
<1>3. TypeInv /\ DestroyAlone /\ NoneOpen /\ [Next]_vars => NoneOpen'
  BY <1>2, NoneOpenMain, NoneOpenSvc DEF Next, Terminated
<1> QED BY <1>1, <1>3, TypeInvHolds, DestroyAloneHolds, PTL DEF Spec

\* When stop returns, and ever after, no connection, no entry of the table and no
\* copy of a frame is left, whatever the service thread was doing.
THEOREM WsStopLeavesNothing == Spec => []StopLeavesNothing
<1>1. ASSUME DestroyAlone, NoneOpen, SessionsOK, HeapOwned
      PROVE  StopLeavesNothing
  <2> SUFFICES ASSUME main = "stopped"
               PROVE  /\ Open = {} /\ Registered = {} /\ viewer_count = 0
                      /\ \A v \in Viewers : heap[v] = {}
    BY DEF StopLeavesNothing
  <2>1. Open = {} /\ svc = "exited"
    BY <1>1 DEF DestroyAlone, NoneOpen
  <2>2. Registered = {}
    BY <1>1, <2>1 DEF SessionsOK
  <2>3. viewer_count = 0
    BY <1>1, <2>1, FS_EmptySet DEF SessionsOK
  <2>4. ASSUME NEW v \in Viewers
        PROVE  heap[v] = {}
    <3>1. heap[v] = Held(ring[v]) \cup InFlight(v) /\ ring[v].count = 0
      BY <1>1, <2>2 DEF HeapOwned
    <3>2. InFlight(v) = {}
      BY <2>1 DEF InFlight
    <3> QED BY <3>1, <3>2, HeldEmpty
  <2> QED BY <2>1, <2>2, <2>3, <2>4
<1> QED BY <1>1, DestroyAloneHolds, NoneOpenHolds, WsSessionsOK, WsHeapOwned, PTL

----------------------------------------------------------------------------
(* What became of the broadcasts *)

\* Nothing that counts changes, and nobody is added.
LEMMA AccountSame ==
    ASSUME Accounting, Registered' \subseteq Registered,
           UNCHANGED <<published, taken, since>>,
           \A v \in Registered' : ring'[v] = ring[v]
    PROVE  Accounting'
BY DEF Accounting

LEMMA AccountBroadcast ==
    ASSUME TypeInv, HeapInv, Accounting,
           NEW fails \in SUBSET (Registered \cap Oom), Broadcast(fails)
    PROVE  Accounting'
<1> DEFINE n == published + 1
<1>1. /\ published \in Nat /\ n \in Frames /\ published' = n
      /\ taken' = taken /\ since' = since /\ sessions' = sessions
  BY WsAssumption DEF TypeInv, TypeOK, Broadcast, Frames
<1>2. Registered' = Registered /\ Registered \subseteq Viewers
  BY <1>1, RegisteredViewers DEF Registered, TypeInv
<1> HIDE DEF n
<1> SUFFICES ASSUME NEW v \in Registered
             PROVE  LET seen == Len(taken[v]) + ring'[v].count + ring'[v].dropped
                    IN  IF v \in Oom THEN seen <= n - since[v]
                                     ELSE seen = n - since[v]
  BY <1>1, <1>2 DEF Accounting
<1> DEFINE q == RingPush(ring[v], n, v \in fails)
<1>3. v \in Viewers /\ ring'[v] = q
  BY <1>2 DEF Broadcast, n
<1>4. GoodRing(ring[v]) /\ Distinct(ring[v]) /\ (v \in fails) \in BOOLEAN
  BY <1>3, TypeInvRing DEF HeapInv
<1>5. n \notin Held(ring[v])
  <2>1. \A f \in Held(ring[v]) : f <= published
    BY <1>3 DEF HeapInv
  <2>2. ~(n <= published)
    BY <1>1 DEF n
  <2> QED BY <2>1, <2>2
<1>6. q.count + q.dropped =
        ring[v].count + ring[v].dropped + (IF v \in fails THEN 0 ELSE 1)
  BY <1>1, <1>4, <1>5, HeldPush
<1>7. GoodRing(q)
  BY <1>1, <1>4, RingPushGood
<1>8. q.count \in Int /\ q.dropped \in Int
  BY <1>7, WsAssumption DEF GoodRing, RingType
<1>9. ring[v].count \in Int /\ ring[v].dropped \in Int
  BY <1>4, WsAssumption DEF GoodRing, RingType
<1>10. Len(taken[v]) \in Nat /\ since[v] \in Int
  BY <1>3, WsAssumption DEF TypeInv, TypeOK
<1>11. IF v \in Oom
       THEN Len(taken[v]) + ring[v].count + ring[v].dropped <= published - since[v]
       ELSE Len(taken[v]) + ring[v].count + ring[v].dropped = published - since[v]
  BY DEF Accounting
<1> HIDE DEF q
<1> DEFINE a == ring[v].count
           b == ring[v].dropped
           l == Len(taken[v])
           o == since[v]
<1>12. q.count + q.dropped = a + b + (IF v \in fails THEN 0 ELSE 1)
  BY <1>6
<1>13. a \in Int /\ b \in Int /\ l \in Int /\ o \in Int /\ published \in Int
  BY <1>1, <1>9, <1>10
<1>14. IF v \in Oom THEN l + a + b <= published - o ELSE l + a + b = published - o
  BY <1>11
<1> HIDE DEF a, b, l, o
<1>15. CASE v \in Oom
  <2>1. l + q.count + q.dropped <= n - o
    BY <1>8, <1>12, <1>13, <1>14, <1>15 DEF n
  <2> QED BY <1>3, <1>15, <2>1 DEF l, o
<1>16. CASE v \notin Oom
  <2>1. v \notin fails
    BY <1>16
  <2>2. l + q.count + q.dropped = n - o
    BY <1>8, <1>12, <1>13, <1>14, <1>16, <2>1 DEF n
  <2> QED BY <1>3, <1>16, <2>2 DEF l, o
<1> QED BY <1>15, <1>16

LEMMA AccountEstablished ==
    ASSUME TypeInv, MembersOK, Accounting, NEW w \in Viewers, Established(w)
    PROVE  Accounting'
<1>1. /\ published' = published /\ taken' = taken /\ conn[w] = "none"
      /\ since' = [since EXCEPT ![w] = published]
      /\ ring' = [ring EXCEPT ![w] = EmptyRing]
  BY DEF Established
<1>2. /\ since \in [Viewers -> 0..MaxFrames] /\ ring \in [Viewers -> RingType]
      /\ published \in Int
  BY WsAssumption DEF TypeInv, TypeOK
<1>3. Registered' \subseteq Registered \cup {w} /\ w \notin Registered
  BY AddedMember
<1>4. taken[w] = <<>>
  BY <1>1 DEF MembersOK
<1>5. Registered \subseteq Viewers
  BY RegisteredViewers DEF TypeInv
<1> SUFFICES ASSUME NEW v \in Registered'
             PROVE  LET seen == Len(taken[v]) + ring'[v].count + ring'[v].dropped
                    IN  IF v \in Oom THEN seen <= published - since'[v]
                                     ELSE seen = published - since'[v]
  BY <1>1 DEF Accounting
<1>6. CASE v = w
  <2>1. ring'[v].count = 0 /\ ring'[v].dropped = 0 /\ since'[v] = published
    BY <1>1, <1>2, <1>6 DEF EmptyRing
  <2>2. Len(taken[v]) = 0
    BY <1>4, <1>6
  <2> QED BY <1>2, <2>1, <2>2
<1>7. CASE v # w
  <2>1. v \in Registered /\ ring'[v] = ring[v] /\ since'[v] = since[v]
    BY <1>1, <1>2, <1>3, <1>5, <1>7
  <2> QED BY <2>1 DEF Accounting
<1> QED BY <1>6, <1>7

LEMMA AccountTake ==
    ASSUME TypeInv, Accounting, TakeOldest
    PROVE  Accounting'
<1> DEFINE w == cur.v
           m == ring[w].slot[ring[w].tail]
<1>1. /\ svc = "writeable" /\ ring[w].count # 0
      /\ ring' = [ring EXCEPT ![w] = Pop(ring[w])]
      /\ taken' = [taken EXCEPT ![w] = Append(taken[w], m)]
      /\ published' = published /\ since' = since /\ sessions' = sessions
  BY DEF TakeOldest
<1>2. w \in Viewers /\ GoodRing(ring[w])
  BY <1>1, TypeInvRing DEF TypeInv, BusyViewer
<1>3. ring \in [Viewers -> RingType] /\ taken \in [Viewers -> Seq(Frames)]
  BY DEF TypeInv, TypeOK
<1>4. ring[w] \in RingType /\ taken[w] \in Seq(Frames)
  BY <1>2, <1>3
<1>5. ring[w].count \in Int /\ ring[w].dropped \in Int
  BY <1>4, WsAssumption DEF RingType
<1>6. m \in Frames
  <2>1. ring[w].count > 0
    BY <1>1, <1>4, WsAssumption DEF RingType
  <2> QED BY <1>2, <2>1, OldestIsFrame
<1>7. Registered' = Registered /\ Registered \subseteq Viewers
  BY <1>1, RegisteredViewers DEF Registered, TypeInv
<1> HIDE DEF w, m
<1>8. Pop(ring[w]).count = ring[w].count - 1 /\ Pop(ring[w]).dropped = ring[w].dropped
  BY <1>4 DEF Pop, RingType
<1>9. Len(Append(taken[w], m)) = Len(taken[w]) + 1 /\ Len(taken[w]) \in Nat
  BY <1>4, <1>6
<1> SUFFICES ASSUME NEW v \in Registered
             PROVE  LET seen == Len(taken'[v]) + ring'[v].count + ring'[v].dropped
                    IN  IF v \in Oom THEN seen <= published - since[v]
                                     ELSE seen = published - since[v]
  BY <1>1, <1>7 DEF Accounting
<1>10. CASE v = w
  <2>1. ring'[v] = Pop(ring[w]) /\ taken'[v] = Append(taken[w], m)
    BY <1>1, <1>2, <1>3, <1>10
  <2> DEFINE l == Len(taken[v])
             a == ring[v].count
             b == ring[v].dropped
  <2>2. /\ Len(taken'[v]) = l + 1
        /\ ring'[v].count = a - 1
        /\ ring'[v].dropped = b
    BY <1>8, <1>9, <1>10, <2>1
  <2>3. l \in Int /\ a \in Int /\ b \in Int
    BY <1>5, <1>9, <1>10
  <2>4. IF v \in Oom THEN l + a + b <= published - since[v]
                     ELSE l + a + b = published - since[v]
    BY DEF Accounting
  <2> HIDE DEF l, a, b
  <2>5. (l + 1) + (a - 1) + b = l + a + b
    BY <2>3
  <2> QED BY <2>2, <2>4, <2>5
<1>11. CASE v # w
  <2>1. ring'[v] = ring[v] /\ taken'[v] = taken[v]
    BY <1>1, <1>3, <1>7, <1>11
  <2> QED BY <2>1 DEF Accounting
<1> QED BY <1>10, <1>11

LEMMA AccountNext ==
    TypeInv /\ MembersOK /\ HeapInv /\ Accounting /\ [Next]_vars => Accounting'
<1> SUFFICES ASSUME TypeInv, MembersOK, HeapInv, Accounting, [Next]_vars
             PROVE  Accounting'
  OBVIOUS
<1>1. ASSUME NEW w \in Viewers, Closed(w) PROVE Accounting'
  <2>1. Registered' = Registered \ {w}
    BY <1>1, SessionRemoveFacts DEF Closed
  <2>2. ring' = IF w \in Registered THEN [ring EXCEPT ![w] = Drained(ring[w])] ELSE ring
    BY <1>1, SessionRemoveFacts DEF Closed
  <2>3. ring \in [Viewers -> RingType] /\ Registered \subseteq Viewers
    BY RegisteredViewers DEF TypeInv, TypeOK
  <2>4. \A v \in Registered' : ring'[v] = ring[v]
    BY <2>1, <2>2, <2>3
  <2> QED BY <1>1, <2>1, <2>4, AccountSame DEF Closed
<1>2. CASE UNCHANGED <<sessions, ring, published, taken, since>>
  BY <1>2 DEF Accounting, Registered
<1>3. CASE StopDone
  <2>1. Registered' = {}
    BY <1>3 DEF StopDone, Registered
  <2> QED BY <2>1 DEF Accounting
<1>4. CASE BroadcastNoSessions
  <2>1. Registered' = {}
    BY <1>4 DEF BroadcastNoSessions, Registered
  <2> QED BY <2>1 DEF Accounting
<1>5. CASE MainNext
  BY <1>1, <1>2, <1>3, <1>4, <1>5, AccountBroadcast
     DEF MainNext, Start, StartFails, CancelService, StopRunning, StopCancel,
         StopJoin, DestroyCloses, ghostVars
<1>6. CASE SvcNext
  <2>1. CASE CloseAfterShort
    BY <1>1, <2>1 DEF CloseAfterShort, TypeInv, BusyViewer
  <2> QED BY <1>1, <1>2, <1>6, <2>1, AccountEstablished, AccountTake
          DEF SvcNext, EnterService, ThreadExit, PollReturns, DrainPipe,
              ServiceReturns, PeerClosed, Writable, NothingToWrite, WriteDone,
              WriteShort, ghostVars
<1>7. CASE UNCHANGED vars
  BY <1>2, <1>7 DEF vars, ghostVars
<1> QED BY <1>5, <1>6, <1>7 DEF Next, Terminated

LEMMA AccountInit == Init => Accounting
BY DEF Init, Accounting, Registered

\* No broadcast gets lost on the way uncounted, unless a malloc failed: what was
\* not popped or queued since a viewer registered was dropped, and counted.
THEOREM WsAccounting == Spec => []Accounting
<1>1. Spec => [](TypeInv /\ MembersOK /\ HeapInv)
  BY TypeInvHolds, MembersHold, HeapInvHolds, PTL
<1> QED BY <1>1, AccountInit, AccountNext, PTL DEF Spec
=============================================================================
