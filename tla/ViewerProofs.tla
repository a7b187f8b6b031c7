---------------------------- MODULE ViewerProofs ----------------------------
(***************************************************************************)
(* The viewer's connection, for any number of sockets, clicks and outages, *)
(* and the page's blob cache, for any frames, blobs and objects.           *)
(***************************************************************************)
EXTENDS ViewerPage, FiniteSetTheorems, Induction

----------------------------------------------------------------------------
(* The connection *)

\* Inductive as it stands: clearing reconnectTimer clears every timer, because
\* of OneTimer; a socket that stops being live leaves a timer, or a close event
\* that will set one.
ConnInv == ConnTypeOK /\ OneLive /\ OneTimer /\ NeverStranded

\* Once reconnectTimer is cleared no timer is left.
LEMMA ClearedNone ==
    ASSUME ConnTypeOK, OneTimer
    PROVE  Cleared = 0
BY DEF ConnTypeOK, OneTimer, Cleared

\* doConnect leaves the new socket, and no other, live.
LEMMA DoConnectLive ==
    ASSUME ConnTypeOK, OneLive, DoConnect
    PROVE  /\ ws' \in Sockets
           /\ ready' \in [Sockets -> {"connecting", "open", "closing", "closed"}]
           /\ Live' = {ws'}
<1>1. PICK s \in Sockets \ {ws} :
        /\ ready[s] = "closed"
        /\ ready' = [t \in Sockets |->
                       IF t = s THEN "connecting"
                       ELSE IF t = ws /\ t \in Live THEN "closing"
                       ELSE ready[t]]
        /\ ws' = s
  BY DEF DoConnect
<1>2. ASSUME NEW t \in Sockets, t # s
      PROVE  ready'[t] \in {"closing", "closed"}
  BY <1>1, <1>2 DEF ConnTypeOK, OneLive, Live
<1>3. ready'[s] = "connecting"
  BY <1>1
<1>4. ready' \in [Sockets -> {"connecting", "open", "closing", "closed"}]
  BY <1>1 DEF ConnTypeOK
<1>5. Live' = {s}
  BY <1>2, <1>3 DEF Live
<1> QED
  BY <1>1, <1>4, <1>5

\* A close event leaves reconnectTimer, and no other timer, pending.
LEMMA OnCloseTimer ==
    ASSUME ConnTypeOK, OneTimer, NEW s \in Sockets, OnClose(s)
    PROVE  /\ ready' \in [Sockets -> {"connecting", "open", "closing", "closed"}]
           /\ Live' \subseteq Live
           /\ timers' = 1 /\ latest' = TRUE
<1>1. timers' = 1 /\ latest' = TRUE
  BY ClearedNone DEF OnClose
<1>2. ready' = [ready EXCEPT ![s] = "closed"]
  BY DEF OnClose
<1>3. ready' \in [Sockets -> {"connecting", "open", "closing", "closed"}]
  BY <1>2 DEF ConnTypeOK
<1>4. Live' \subseteq Live
  BY <1>2 DEF ConnTypeOK, Live
<1> QED
  BY <1>1, <1>3, <1>4

LEMMA ConnInitInv == ConnInit => ConnInv
<1> SUFFICES ASSUME ConnInit PROVE ConnInv
  OBVIOUS
<1>1. ConnTypeOK
  <2>1. clicks \in 0..MaxClicks /\ downs \in 0..MaxDowns /\ timers \in Nat
    BY ConnAssumption DEF ConnInit
  <2> QED BY <2>1 DEF ConnInit, ConnTypeOK
<1>2. Live = {}
  BY DEF ConnInit, Live
<1>3. OneLive /\ NeverStranded
  BY <1>2 DEF ConnInit, OneLive, NeverStranded
<1>4. OneTimer
  BY DEF ConnInit, OneTimer
<1> QED BY <1>1, <1>3, <1>4 DEF ConnInv

LEMMA ConnStepInv == ConnInv /\ [ConnNext]_connVars => ConnInv'
<1> SUFFICES ASSUME ConnInv, [ConnNext]_connVars PROVE ConnInv'
  OBVIOUS
<1> USE DEF ConnInv
<1>1. CASE Load
  <2>1. DoConnect /\ loaded' = TRUE /\ UNCHANGED <<timers, latest, envVars>>
    BY <1>1 DEF Load
  <2>2. ConnTypeOK'
    BY <2>1, DoConnectLive DEF ConnTypeOK, envVars
  <2>3. OneLive' /\ NeverStranded'
    BY <2>1, DoConnectLive DEF OneLive, NeverStranded
  <2>4. OneTimer'
    BY <2>1 DEF OneTimer
  <2> QED BY <2>2, <2>3, <2>4
<1>2. CASE Click
  <2>1. /\ DoConnect
        /\ clicks < MaxClicks /\ clicks' = clicks + 1
        /\ timers' = Cleared /\ latest' = FALSE
        /\ UNCHANGED <<loaded, server, downs>>
    BY <1>2 DEF Click
  <2>2. timers' = 0
    BY <2>1, ClearedNone
  <2>3. clicks' \in 0..MaxClicks /\ timers' \in Nat
    BY <2>1, <2>2, ConnAssumption DEF ConnTypeOK
  <2>4. ConnTypeOK'
    <3>1. /\ ws' \in Sockets \cup {NoSocket}
          /\ ready' \in [Sockets -> {"connecting", "open", "closing", "closed"}]
      BY <2>1, DoConnectLive
    <3>2. latest' \in BOOLEAN
      BY <2>1
    <3>3. loaded' \in BOOLEAN /\ server' \in BOOLEAN /\ downs' \in 0..MaxDowns
      BY <2>1 DEF ConnTypeOK
    <3> QED BY <2>3, <3>1, <3>2, <3>3 DEF ConnTypeOK
  <2>5. OneLive' /\ NeverStranded'
    BY <2>1, DoConnectLive DEF OneLive, NeverStranded
  <2>6. OneTimer'
    BY <2>1, <2>2 DEF OneTimer
  <2> QED BY <2>4, <2>5, <2>6
<1>3. CASE TimerFires
  <2>1. /\ DoConnect
        /\ timers > 0 /\ timers' = timers - 1
        /\ latest' = (latest /\ Cleared > 0)
        /\ UNCHANGED <<loaded, envVars>>
    BY <1>3 DEF TimerFires
  <2>2. timers' = 0
    BY <2>1 DEF ConnTypeOK, OneTimer
  <2>3. latest' = FALSE
    <3>1. ~(Cleared > 0)
      BY ClearedNone
    <3> QED BY <2>1, <3>1, Zenon
  <2>4. ConnTypeOK'
    BY <2>1, <2>2, <2>3, DoConnectLive DEF ConnTypeOK, envVars
  <2>5. OneLive' /\ NeverStranded'
    BY <2>1, DoConnectLive DEF OneLive, NeverStranded
  <2>6. OneTimer'
    BY <2>2, <2>3 DEF OneTimer
  <2> QED BY <2>4, <2>5, <2>6
<1>4. ASSUME NEW s \in Sockets, Opens(s) PROVE ConnInv'
  <2>1. /\ ready[s] = "connecting"
        /\ ready' = [ready EXCEPT ![s] = "open"]
        /\ UNCHANGED <<ws, timers, latest, loaded, envVars>>
    BY <1>4 DEF Opens
  <2>2. ConnTypeOK'
    BY <2>1 DEF ConnTypeOK, envVars
  <2>3. Live' = Live /\ s \in Live
    BY <2>1 DEF Live, ConnTypeOK
  <2>4. OneLive' /\ NeverStranded'
    BY <2>1, <2>3 DEF OneLive, NeverStranded
  <2>5. OneTimer'
    BY <2>1 DEF OneTimer
  <2> QED BY <2>2, <2>4, <2>5
<1>5. ASSUME NEW s \in Sockets, Fails(s) \/ CloseEvent(s) PROVE ConnInv'
  <2>1. OnClose(s) /\ UNCHANGED <<ws, loaded, envVars>>
    BY <1>5 DEF Fails, CloseEvent
  <2>2. ConnTypeOK'
    <3>1. timers' \in Nat
      <4>1. timers' = 1
        BY <2>1, OnCloseTimer, Zenon
      <4> QED BY <4>1
    <3>2. latest' \in BOOLEAN
      BY <2>1, OnCloseTimer, Zenon
    <3>3. ready' \in [Sockets -> {"connecting", "open", "closing", "closed"}]
      BY <2>1, OnCloseTimer, Zenon
    <3> QED BY <2>1, <3>1, <3>2, <3>3 DEF ConnTypeOK, envVars
  <2>3. OneLive'
    BY <2>1, OnCloseTimer DEF OneLive
  <2>4. OneTimer' /\ NeverStranded'
    <3>1. timers' = 1 /\ latest'
      BY <2>1, OnCloseTimer, Zenon
    <3>2. timers' > 0
      BY <3>1
    <3> QED BY <3>1, <3>2 DEF OneTimer, NeverStranded
  <2> QED BY <2>2, <2>3, <2>4
<1>6. CASE ServerDown \/ ServerUp
  <2>1. UNCHANGED pageVars
    BY <1>6 DEF ServerDown, ServerUp
  <2>2. /\ server' \in BOOLEAN
        /\ clicks' \in 0..MaxClicks
        /\ downs' \in 0..MaxDowns
    <3>1. CASE ServerDown
      <4>1. server' = FALSE /\ clicks' = clicks
        BY <3>1 DEF ServerDown
      <4>2. downs < MaxDowns /\ downs' = downs + 1
        BY <3>1 DEF ServerDown
      <4>3. downs' \in 0..MaxDowns
        BY <4>2, ConnAssumption DEF ConnTypeOK
      <4> QED BY <4>1, <4>3 DEF ConnTypeOK
    <3>2. CASE ServerUp
      BY <3>2 DEF ServerUp, ConnTypeOK
    <3> QED BY <1>6, <3>1, <3>2
  <2>3. Live' = Live
    BY <2>1 DEF pageVars, Live
  <2> QED
    BY <2>1, <2>2, <2>3 DEF pageVars, ConnTypeOK, OneLive, OneTimer,
                            NeverStranded
<1>7. CASE UNCHANGED connVars
  BY <1>7 DEF connVars, pageVars, envVars, ConnTypeOK, OneLive, OneTimer,
              NeverStranded, Live
<1> QED
  BY <1>1, <1>2, <1>3, <1>4, <1>5, <1>6, <1>7 DEF ConnNext

\* Every state of the connection satisfies the invariant.
THEOREM ConnInvariant == ConnSpec => []ConnInv
<1>1. ConnInit => ConnInv
  BY ConnInitInv
<1>2. ConnInv /\ [ConnNext]_connVars => ConnInv'
  BY ConnStepInv
<1> QED
  BY <1>1, <1>2, PTL DEF ConnSpec

\* The page's state keeps its type.
THEOREM ConnTypeCorrect == ConnSpec => []ConnTypeOK
<1>1. ConnInv => ConnTypeOK
  BY DEF ConnInv
<1> QED
  BY <1>1, ConnInvariant, PTL

\* Whatever clicks, timers, outages and late close events come, in any order
\* and number, the page listens to the current socket alone.
THEOREM ConnOneLive == ConnSpec => []OneLive
<1>1. ConnInv => OneLive
  BY DEF ConnInv
<1> QED
  BY <1>1, ConnInvariant, PTL

\* At most one retry is pending, and it can be cancelled.
THEOREM ConnOneTimer == ConnSpec => []OneTimer
<1>1. ConnInv => OneTimer
  BY DEF ConnInv
<1> QED
  BY <1>1, ConnInvariant, PTL

\* No order of events leaves a loaded page without a connection, a timer or an
\* event that sets one.
THEOREM ConnNeverStranded == ConnSpec => []NeverStranded
<1>1. ConnInv => NeverStranded
  BY DEF ConnInv
<1> QED
  BY <1>1, ConnInvariant, PTL

----------------------------------------------------------------------------
(* Replaying a frame *)

\* f[k] is the page after k commands of the frame, for k up to m.
Runs(f, frame, m) ==
    f = [k \in 0..m |-> IF k = 0 THEN Page ELSE CarryOut(f[k-1], frame[k])]

LEMMA RunsFacts ==
    ASSUME NEW frame, NEW m \in Nat, NEW f, Runs(f, frame, m)
    PROVE  /\ f[0] = Page
           /\ \A k \in 1..m : f[k] = CarryOut(f[k-1], frame[k])
<1> DEFINE F(k) == IF k = 0 THEN Page ELSE CarryOut(f[k-1], frame[k])
<1>1. f = [k \in 0..m |-> F(k)]
  BY DEF Runs
<1> HIDE DEF F
<1>2. \A k \in 0..m : f[k] = F(k)
  BY <1>1
<1> QED BY <1>2 DEF F

LEMMA RunsBuild ==
    ASSUME NEW frame, NEW m \in Nat, NEW f, DefinedOn(f, m),
           f[0] = Page,
           \A k \in 1..m : f[k] = CarryOut(f[k-1], frame[k])
    PROVE  Runs(f, frame, m)
<1> DEFINE F(k) == IF k = 0 THEN Page ELSE CarryOut(f[k-1], frame[k])
<1>1. ASSUME NEW k \in 0..m PROVE f[k] = F(k)
  <2>1. CASE k = 0
    BY <2>1
  <2>2. CASE k # 0
    <3>1. k \in 1..m
      BY <2>2
    <3> QED BY <2>2, <3>1
  <2> QED BY <2>1, <2>2
<1> HIDE DEF F
<1>2. f = [k \in 0..m |-> F(k)]
  BY <1>1, Zenon DEF DefinedOn
<1> QED BY <1>2 DEF F, Runs

\* There is such a function: it is made longer command by command.
LEMMA RunsExist ==
    ASSUME NEW frame, NEW n \in Nat
    PROVE  \E f : Runs(f, frame, n)
<1> DEFINE S == {m \in Nat : \E f : Runs(f, frame, m)}
<1>1. 0 \in S
  <2> DEFINE f == [k \in 0..0 |-> Page]
  <2>1. f[0] = Page /\ DefinedOn(f, 0)
    BY DEF DefinedOn
  <2> HIDE DEF f
  <2>2. \A k \in 1..0 : f[k] = CarryOut(f[k-1], frame[k])
    OBVIOUS
  <2>3. Runs(f, frame, 0)
    BY <2>1, <2>2, RunsBuild
  <2> QED BY <2>3
<1>2. ASSUME NEW m \in 0..n-1, m \in S PROVE m + 1 \in S
  <2>1. PICK g : Runs(g, frame, m)
    BY <1>2
  <2>2. g[0] = Page /\ \A k \in 1..m : g[k] = CarryOut(g[k-1], frame[k])
    BY <2>1, RunsFacts
  <2> DEFINE f == [k \in 0..m+1 |->
                     IF k = m + 1 THEN CarryOut(g[m], frame[m+1]) ELSE g[k]]
  <2>3. DefinedOn(f, m+1)
    BY DEF DefinedOn
  <2>4. \A k \in 0..m : f[k] = g[k]
    OBVIOUS
  <2>5. f[m+1] = CarryOut(g[m], frame[m+1])
    OBVIOUS
  <2> HIDE DEF f
  <2>6. f[0] = Page
    BY <2>2, <2>4
  <2>7. ASSUME NEW k \in 1..m+1 PROVE f[k] = CarryOut(f[k-1], frame[k])
    <3>1. CASE k = m + 1
      <4>1. k - 1 = m /\ m \in 0..m
        BY <3>1
      <4> QED BY <2>4, <2>5, <3>1, <4>1
    <3>2. CASE k # m + 1
      <4>1. k \in 1..m /\ k \in 0..m /\ k - 1 \in 0..m
        BY <3>2
      <4> QED BY <2>2, <2>4, <4>1
    <3> QED BY <3>1, <3>2
  <2>8. Runs(f, frame, m+1)
    BY <2>3, <2>6, <2>7, RunsBuild
  <2> QED BY <2>8
<1> HIDE DEF S
<1>3. n \in 0..n /\ 0..n \subseteq S
  BY <1>1, <1>2, UpTo
<1> QED BY <1>3 DEF S

\* Replay carries out the commands one after the other.
LEMMA ReplayRuns ==
    ASSUME NEW frame, Len(frame) \in Nat
    PROVE  \E f : Runs(f, frame, Len(frame)) /\ Replay(frame) = f[Len(frame)]
<1> DEFINE after == CHOOSE f : Runs(f, frame, Len(frame))
<1>1. Runs(after, frame, Len(frame))
  BY RunsExist, Zenon
<1>2. Replay(frame) = after[Len(frame)]
  BY Zenon DEF Replay, Runs
<1> QED BY <1>1, <1>2, Zenon

----------------------------------------------------------------------------
(* What one command does to the page *)

Entry == {Missing} \cup [imageData : Objects, bitmap : Objects \cup {None}]

PageType == [cache : [Ids -> Entry], promises : SUBSET [id : Ids, object : Objects]]

\* PageTypeOK and BitmapCurrent, of the page p.
GoodPage(p) ==
    /\ p \in PageType
    /\ \A id \in Ids : p.cache[id].bitmap \in {None, p.cache[id].imageData}

\* A blob that has a bitmap stays as it is.
Kept(p, q, id) == p.cache[id].bitmap # None => q.cache[id] = p.cache[id]

\* A blob is stored in an object that was not in use, or was there already.
LEMMA StoreBlobFacts ==
    ASSUME NEW p, GoodPage(p), NEW id \in Ids, Unused(p) # {}
    PROVE  /\ GoodPage(StoreBlob(p, id))
           /\ \A j \in Ids : Kept(p, StoreBlob(p, id), j)
           /\ \E o : Unused(p) \ {o} \subseteq Unused(StoreBlob(p, id))
<1> DEFINE o == CHOOSE o \in Unused(p) : TRUE
           new == [imageData |-> o, bitmap |-> None]
           q == [cache    |-> [p.cache EXCEPT ![id] = new],
                 promises |-> p.promises \cup {[id |-> id, object |-> o]}]
<1>1. o \in Objects
  BY DEF Unused
<1>2. CASE p.cache[id] # Missing
  <2>1. StoreBlob(p, id) = p
    BY <1>2 DEF StoreBlob
  <2> QED BY <2>1 DEF Kept
<1>3. CASE p.cache[id] = Missing
  <2>1. StoreBlob(p, id) = q
    BY <1>3 DEF StoreBlob
  <2>2. p.cache \in [Ids -> Entry] /\ p.promises \subseteq [id : Ids, object : Objects]
    BY DEF GoodPage, PageType
  <2> HIDE DEF o
  <2>3. new \in Entry /\ [id |-> id, object |-> o] \in [id : Ids, object : Objects]
    BY <1>1 DEF Entry
  <2>4. /\ \A j \in Ids \ {id} : q.cache[j] = p.cache[j]
        /\ q.cache[id] = new
    BY <2>2
  <2>5. q.cache \in [Ids -> Entry] /\ q.promises \subseteq [id : Ids, object : Objects]
    BY <2>2, <2>3
  <2>6. q \in PageType
    BY <2>5 DEF PageType
  <2>7. GoodPage(q)
    BY <2>4, <2>6 DEF GoodPage
  <2>8. \A j \in Ids : Kept(p, q, j)
    BY <1>3, <2>4 DEF Kept, Missing
  <2>9. Unused(p) \ {o} \subseteq Unused(q)
    <3> SUFFICES ASSUME NEW x \in Unused(p) \ {o} PROVE x \in Unused(q)
      OBVIOUS
    <3>1. \A j \in Ids : x # p.cache[j].imageData /\ x # p.cache[j].bitmap
      BY DEF Unused
    <3>2. \A j \in Ids : x # q.cache[j].imageData /\ x # q.cache[j].bitmap
      BY <2>4, <3>1, PageAssumption DEF Unused
    <3>3. \A r \in q.promises : x # r.object
      BY DEF Unused
    <3> QED BY <3>2, <3>3 DEF Unused
  <2> QED BY <2>1, <2>7, <2>8, <2>9
<1> QED BY <1>2, <1>3

\* An eviction touches nothing but its own blob.
LEMMA EvictBlobFacts ==
    ASSUME NEW p, GoodPage(p), NEW id \in Ids
    PROVE  /\ GoodPage(EvictBlob(p, id))
           /\ \A j \in Ids \ {id} : Kept(p, EvictBlob(p, id), j)
           /\ Unused(p) \subseteq Unused(EvictBlob(p, id))
<1> DEFINE q == EvictBlob(p, id)
<1>1. p.cache \in [Ids -> Entry] /\ p.promises \subseteq [id : Ids, object : Objects]
  BY DEF GoodPage, PageType
<1>2. /\ \A j \in Ids \ {id} : q.cache[j] = p.cache[j]
      /\ q.cache[id] = Missing
      /\ q.promises = p.promises
      /\ q.cache \in [Ids -> Entry]
  BY <1>1 DEF EvictBlob, Entry, GoodPage, PageType
<1>3. q \in PageType
  BY <1>1, <1>2 DEF EvictBlob, GoodPage, PageType
<1> HIDE DEF q
<1>4. GoodPage(q)
  BY <1>2, <1>3 DEF GoodPage, Missing
<1>5. Unused(p) \subseteq Unused(q)
  <2> SUFFICES ASSUME NEW x \in Unused(p) PROVE x \in Unused(q)
    OBVIOUS
  <2>1. x # None
    BY PageAssumption DEF Unused
  <2>2. \A j \in Ids : x # p.cache[j].imageData /\ x # p.cache[j].bitmap
    BY DEF Unused
  <2>3. \A j \in Ids : x # q.cache[j].imageData /\ x # q.cache[j].bitmap
    BY <1>2, <2>1, <2>2 DEF Missing
  <2> QED BY <1>2, <2>3 DEF Unused
<1> QED BY <1>2, <1>4, <1>5 DEF Kept, q

\* The objects left after the first k of the frame's commands are enough for the
\* others.
Enough(p, frame, k) ==
    /\ IsFiniteSet(Unused(p))
    /\ Cardinality(Unused(p)) >= Cardinality({j \in Uploads(frame) : j > k})

\* A command leaves enough objects for those that come after it.
LEMMA CarryOutFacts ==
    ASSUME NEW frame \in Seq(Commands), NEW k \in 1..Len(frame),
           NEW p, GoodPage(p), Enough(p, frame, k - 1)
    PROVE  LET q == CarryOut(p, frame[k])
           IN  /\ GoodPage(q)
               /\ Enough(q, frame, k)
               /\ \A id \in Ids :
                    Kept(p, q, id) \/ frame[k] = [op |-> "BLOB_EVICT", id |-> id]
<1> DEFINE c == frame[k]
           q == CarryOut(p, c)
           Left(m) == {j \in Uploads(frame) : j > m}
<1>1. c \in Commands /\ c.id \in Ids /\ c.op \in {"BLOB_UPLOAD", "BLOB_EVICT"}
  <2>1. c \in Commands
    OBVIOUS
  <2> HIDE DEF c
  <2> QED BY <2>1 DEF Commands
<1>2. /\ IsFiniteSet(Left(k-1)) /\ Cardinality(Left(k-1)) \in Nat
      /\ IsFiniteSet(Left(k)) /\ Cardinality(Left(k)) \in Nat
      /\ Cardinality(Left(k)) <= Cardinality(Left(k-1))
  <2>1. IsFiniteSet(1..Len(frame))
    BY FS_Interval
  <2>2. Left(k-1) \in SUBSET (1..Len(frame)) /\ Left(k) \in SUBSET Left(k-1)
    BY DEF Uploads
  <2>3. IsFiniteSet(Left(k-1))
    BY <2>1, <2>2, FS_Subset
  <2>4. IsFiniteSet(Left(k)) /\ Cardinality(Left(k)) <= Cardinality(Left(k-1))
    BY <2>2, <2>3, FS_Subset
  <2> QED BY <2>3, <2>4, FS_CardinalityType
<1>3. /\ IsFiniteSet(Unused(p)) /\ Cardinality(Unused(p)) \in Nat
      /\ Cardinality(Unused(p)) >= Cardinality(Left(k-1))
  BY FS_CardinalityType DEF Enough
<1>4. ASSUME GoodPage(q), IsFiniteSet(Unused(q)),
             Cardinality(Unused(q)) >= Cardinality(Left(k))
      PROVE  GoodPage(q) /\ Enough(q, frame, k)
  BY <1>4 DEF Enough
<1>5. Unused(q) \subseteq Objects
  BY DEF Unused
<1>6. IsFiniteSet(Unused(q)) /\ Cardinality(Unused(q)) \in Nat
  BY <1>5, PageAssumption, FS_Subset, FS_CardinalityType
<1>7. CASE IsUpload(c)
  <2>1. q = StoreBlob(p, c.id)
    BY <1>7 DEF CarryOut
  <2>2. k \in Left(k-1) /\ k \notin Left(k) /\ Left(k) = Left(k-1) \ {k}
    BY <1>7 DEF Uploads
  <2> HIDE DEF Left, q
  <2>3. Cardinality(Left(k)) = Cardinality(Left(k-1)) - 1
    BY <1>2, <2>2, FS_RemoveElement
  <2>4. Cardinality(Unused(p)) # 0
    BY <1>2, <1>3, <2>3
  <2>5. Unused(p) # {}
    BY <2>4, FS_EmptySet
  <2>6. PICK o : Unused(p) \ {o} \subseteq Unused(q)
    BY <1>1, <2>1, <2>5, StoreBlobFacts
  <2>7. /\ IsFiniteSet(Unused(p) \ {o})
        /\ Cardinality(Unused(p) \ {o}) >= Cardinality(Unused(p)) - 1
        /\ Cardinality(Unused(p) \ {o}) \in Nat
    <3> DEFINE U == Unused(p)
    <3>1. IsFiniteSet(U) /\ Cardinality(U) \in Nat
      BY <1>3
    <3> HIDE DEF U
    <3>2. /\ IsFiniteSet(U \ {o})
          /\ Cardinality(U \ {o}) = IF o \in U THEN Cardinality(U) - 1
                                   ELSE Cardinality(U)
      BY <3>1, FS_RemoveElement, Zenon
    <3>3. Cardinality(U \ {o}) \in Nat
      BY <3>2, FS_CardinalityType, Zenon
    <3>4. Cardinality(U \ {o}) >= Cardinality(U) - 1
      BY <3>1, <3>2
    <3> QED BY <3>2, <3>3, <3>4 DEF U
  <2>8. Cardinality(Unused(p) \ {o}) <= Cardinality(Unused(q))
    BY <1>6, <2>6, FS_Subset
  <2>9. Cardinality(Unused(q)) >= Cardinality(Left(k))
    BY <1>2, <1>3, <1>6, <2>3, <2>7, <2>8
  <2>10. GoodPage(q) /\ \A id \in Ids : Kept(p, q, id)
    BY <1>1, <2>1, <2>5, StoreBlobFacts
  <2> QED BY <1>4, <1>6, <2>9, <2>10 DEF q
<1>8. CASE ~IsUpload(c)
  <2>1. q = EvictBlob(p, c.id)
    BY <1>8 DEF CarryOut
  <2>2. c = [op |-> "BLOB_EVICT", id |-> c.id]
    BY <1>1, <1>8 DEF IsUpload, Commands
  <2> HIDE DEF Left, q
  <2>3. /\ GoodPage(q)
        /\ \A id \in Ids \ {c.id} : Kept(p, q, id)
        /\ Unused(p) \subseteq Unused(q)
    BY <1>1, <2>1, EvictBlobFacts
  <2>4. Cardinality(Unused(p)) <= Cardinality(Unused(q))
    BY <1>6, <2>3, FS_Subset
  <2>5. Cardinality(Unused(q)) >= Cardinality(Left(k))
    BY <1>2, <1>3, <1>6, <2>4
  <2>6. GoodPage(q) /\ Enough(q, frame, k)
    BY <1>4, <1>6, <2>3, <2>5 DEF q
  <2>7. ASSUME NEW id \in Ids
        PROVE  Kept(p, q, id) \/ c = [op |-> "BLOB_EVICT", id |-> id]
    BY <2>2, <2>3
  <2> QED BY <2>6, <2>7 DEF q
<1> QED BY <1>7, <1>8

\* A frame leaves a good page, and a blob with a bitmap alone unless it evicts it.
LEMMA ReplayFacts ==
    ASSUME NEW frame \in Seq(Commands), GoodPage(Page),
           Cardinality(Unused(Page)) >= Cardinality(Uploads(frame))
    PROVE  /\ GoodPage(Replay(frame))
           /\ \A id \in Ids :
                \/ Kept(Page, Replay(frame), id)
                \/ \E k \in 1..Len(frame) : frame[k] = [op |-> "BLOB_EVICT", id |-> id]
<1> DEFINE n == Len(frame)
           Evicted(id) == \E k \in 1..n : frame[k] = [op |-> "BLOB_EVICT", id |-> id]
<1>1. n \in Nat
  OBVIOUS
<1>2. PICK f : Runs(f, frame, n) /\ Replay(frame) = f[n]
  BY <1>1, ReplayRuns
<1>3. f[0] = Page /\ \A k \in 1..n : f[k] = CarryOut(f[k-1], frame[k])
  BY <1>1, <1>2, RunsFacts
<1> DEFINE S == {k \in 0..n : /\ GoodPage(f[k])
                              /\ Enough(f[k], frame, k)
                              /\ \A id \in Ids : Kept(Page, f[k], id) \/ Evicted(id)}
<1>4. 0 \in S
  <2>1. Enough(Page, frame, 0)
    <3>1. Unused(Page) \subseteq Objects
      BY DEF Unused
    <3>2. IsFiniteSet(Unused(Page))
      BY <3>1, PageAssumption, FS_Subset
    <3>3. {j \in Uploads(frame) : j > 0} = Uploads(frame)
      BY DEF Uploads
    <3> QED BY <3>2, <3>3 DEF Enough
  <2>2. \A id \in Ids : Kept(Page, Page, id)
    BY DEF Kept
  <2> QED BY <1>1, <1>3, <2>1, <2>2
<1>5. ASSUME NEW m \in 0..n-1, m \in S PROVE m + 1 \in S
  <2> DEFINE k == m + 1
  <2>1. k \in 1..n /\ k - 1 = m
    BY <1>1
  <2>2. /\ GoodPage(f[m])
        /\ Enough(f[m], frame, m)
        /\ \A id \in Ids : Kept(Page, f[m], id) \/ Evicted(id)
    BY <1>5
  <2>3. f[k] = CarryOut(f[m], frame[k])
    BY <1>3, <2>1
  <2> HIDE DEF k
  <2>4. /\ GoodPage(f[k])
        /\ Enough(f[k], frame, k)
        /\ \A id \in Ids :
             Kept(f[m], f[k], id) \/ frame[k] = [op |-> "BLOB_EVICT", id |-> id]
    BY <2>1, <2>2, <2>3, CarryOutFacts
  <2>5. ASSUME NEW id \in Ids PROVE Kept(Page, f[k], id) \/ Evicted(id)
    BY <2>1, <2>2, <2>4 DEF Kept
  <2>6. k \in S
    BY <2>1, <2>4, <2>5
  <2> QED BY <2>6 DEF k
<1> HIDE DEF S
<1>6. n \in 0..n /\ 0..n \subseteq S
  BY <1>1, <1>4, <1>5, UpTo
<1>7. n \in S
  BY <1>6
<1> QED BY <1>2, <1>7 DEF S

----------------------------------------------------------------------------
(* The page's invariant *)

\* The cache is made of good entries: this is PageTypeOK and BitmapCurrent.
LEMMA GoodPageIs == GoodPage(Page) <=> PageTypeOK /\ BitmapCurrent
<1>1. Page.cache = blobCache /\ Page.promises = promises
  BY DEF Page
<1>2. Page \in PageType <=> PageTypeOK
  BY <1>1 DEF Page, PageType, PageTypeOK, Entry
<1> QED BY <1>1, <1>2 DEF GoodPage, BitmapCurrent

\* A frame is a sequence of commands.
LEMMA FrameIsSeq ==
    ASSUME NEW frame \in Frames
    PROVE  frame \in Seq(Commands)
<1>1. PICK n \in 1..MaxCmds : frame \in [1..n -> Commands]
  BY DEF Frames
<1>2. n \in Nat
  BY PageAssumption
<1> QED BY <1>1, <1>2

\* What one step does to one blob, and to the page.
LEMMA PageStep ==
    ASSUME PageTypeOK, BitmapCurrent, [PageNext]_allVars
    PROVE  /\ PageTypeOK' /\ BitmapCurrent'
           /\ \A id \in Ids :
                \/ blobCache[id].bitmap = None
                \/ blobCache'[id] = blobCache[id]
                \/ \E frame \in Frames :
                     /\ Message(frame)
                     /\ \E k \in 1..Len(frame) :
                          frame[k] = [op |-> "BLOB_EVICT", id |-> id]
<1>1. CASE UNCHANGED blobVars
  BY <1>1 DEF blobVars, PageTypeOK, BitmapCurrent
<1>2. ASSUME NEW frame \in Frames, Message(frame)
      PROVE  /\ PageTypeOK' /\ BitmapCurrent'
             /\ \A id \in Ids :
                  \/ blobCache[id].bitmap = None
                  \/ blobCache'[id] = blobCache[id]
                  \/ \E k \in 1..Len(frame) :
                       frame[k] = [op |-> "BLOB_EVICT", id |-> id]
  <2> DEFINE q == Replay(frame)
  <2>1. /\ GoodPage(q)
        /\ \A id \in Ids :
             \/ Kept(Page, q, id)
             \/ \E k \in 1..Len(frame) : frame[k] = [op |-> "BLOB_EVICT", id |-> id]
    BY <1>2, GoodPageIs, FrameIsSeq, ReplayFacts DEF Message
  <2>2. blobCache' = q.cache /\ promises' = q.promises
    BY <1>2 DEF Message
  <2> HIDE DEF q
  <2>3. PageTypeOK' /\ BitmapCurrent'
    BY <2>1, <2>2 DEF GoodPage, PageType, PageTypeOK, BitmapCurrent, Entry
  <2>4. Page.cache = blobCache
    BY DEF Page
  <2> QED BY <2>1, <2>2, <2>3, <2>4 DEF Kept
<1>3. ASSUME NEW r \in promises, Resolves(r)
      PROVE  /\ PageTypeOK' /\ BitmapCurrent'
             /\ \A id \in Ids :
                  \/ blobCache[id].bitmap = None
                  \/ blobCache'[id] = blobCache[id]
  <2>1. r.id \in Ids /\ r.object \in Objects
    BY DEF PageTypeOK
  <2>2. promises' \subseteq promises
    BY <1>3 DEF Resolves
  <2>3. CASE blobCache[r.id].imageData = r.object
    <3>1. blobCache' = [blobCache EXCEPT ![r.id].bitmap = r.object]
      BY <1>3, <2>3 DEF Resolves
    <3>2. blobCache[r.id] \in [imageData : Objects, bitmap : Objects \cup {None}]
      BY <2>1, <2>3, PageAssumption DEF PageTypeOK, Missing
    <3>3. /\ blobCache'[r.id] = [imageData |-> r.object, bitmap |-> r.object]
          /\ \A id \in Ids \ {r.id} : blobCache'[id] = blobCache[id]
      BY <2>1, <2>3, <3>1, <3>2 DEF PageTypeOK
    <3>4. PageTypeOK'
      BY <2>1, <2>2, <3>1, <3>3 DEF PageTypeOK
    <3>5. BitmapCurrent'
      BY <3>3 DEF BitmapCurrent
    <3>6. \/ blobCache[r.id].bitmap = None
          \/ blobCache'[r.id] = blobCache[r.id]
      BY <2>1, <2>3, <3>2, <3>3 DEF BitmapCurrent
    <3> QED BY <3>3, <3>4, <3>5, <3>6
  <2>4. CASE blobCache[r.id].imageData # r.object
    <3>1. blobCache' = blobCache
      BY <1>3, <2>4 DEF Resolves
    <3> QED BY <2>2, <3>1 DEF PageTypeOK, BitmapCurrent
  <2> QED BY <2>3, <2>4
<1>4. ASSUME NEW r \in promises, Rejects(r)
      PROVE  /\ PageTypeOK' /\ BitmapCurrent'
             /\ blobCache' = blobCache
  BY <1>4 DEF Rejects, PageTypeOK, BitmapCurrent
<1>5. CASE UNCHANGED allVars
  BY <1>1, <1>5 DEF allVars
<1> QED
  BY <1>1, <1>2, <1>3, <1>4, <1>5 DEF PageNext

LEMMA PageInitInv == PageInit => PageTypeOK /\ BitmapCurrent
BY DEF PageInit, PageTypeOK, BitmapCurrent, Missing

LEMMA PageInvHolds == PageSpec => [](PageTypeOK /\ BitmapCurrent)
<1>1. PageTypeOK /\ BitmapCurrent /\ [PageNext]_allVars
        => PageTypeOK' /\ BitmapCurrent'
  BY PageStep
<1> QED BY <1>1, PageInitInv, PTL DEF PageSpec

\* Every frame the guard of Message admits finds the objects it needs, and every
\* blob is missing or has an image.
THEOREM PageTypeCorrect == PageSpec => []PageTypeOK
BY PageInvHolds, PTL

\* However late createImageBitmap answers, and whatever was evicted and stored
\* again meanwhile, a blob is never drawn from another image's bitmap.
THEOREM PageBitmapCurrent == PageSpec => []BitmapCurrent
BY PageInvHolds, PTL

\* No message, reconnect or late answer takes the bitmap of a blob away again,
\* save the frame that evicts the blob.
THEOREM PageNoToggle == PageSpec => NoToggle
<1>1. PageTypeOK /\ BitmapCurrent /\ [PageNext]_allVars
        => [\A id \in Ids :
              \/ blobCache[id].bitmap = None
              \/ blobCache'[id] = blobCache[id]
              \/ \E frame \in Frames :
                   /\ Message(frame)
                   /\ \E k \in 1..Len(frame) :
                        frame[k] = [op |-> "BLOB_EVICT", id |-> id]]_allVars
  BY PageStep
<1> QED BY <1>1, PageInvHolds, PTL DEF PageSpec, NoToggle

----------------------------------------------------------------------------
(* The page, seen as a connection *)

\* A message is a stutter of the connection: what is promised of the connection
\* is promised of the page.
THEOREM PageConnects == PageSpec => ConnSpec
<1>1. PageInit => ConnInit
  BY DEF PageInit
<1>2. [PageNext]_allVars => [ConnNext]_connVars
  BY DEF PageNext, Message, Resolves, Rejects, allVars
<1> QED BY <1>1, <1>2, PTL DEF PageSpec, ConnSpec
=============================================================================
