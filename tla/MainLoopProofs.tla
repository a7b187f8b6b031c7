--------------------------- MODULE MainLoopProofs ---------------------------
(***************************************************************************)
(* What FrameFeed promises holds for any viewers, capacities and bounds;   *)
(* MainLoop keeps its promises for every clock width, refresh period and   *)
(* length of a round that MainAssumption admits.                           *)
(*                                                                         *)
(* The arguments: InOrder and HoldsNewest are kept by every step once they *)
(* are split into the pieces a step moves (Ordered, Newest) and it is      *)
(* known that viewers outside the feed have nothing queued. ServerInv says *)
(* where the server is up and a frame open, ClockInv what since has to do  *)
(* with the two readings of the clock it spans: their difference, gone     *)
(* round at most once.                                                     *)
(***************************************************************************)
EXTENDS MainLoop, TLAPS

----------------------------------------------------------------------------
(* The feed *)

Numbers == Seq(1..MaxFrames)

\* InOrder for one viewer, in pieces: t and q increase, all of t comes before
\* all of q, and no frame is from the future of p.
Ordered(t, q, p) ==
    /\ \A i, j \in 1..Len(t) : i < j => t[i] < t[j]
    /\ \A i, j \in 1..Len(q) : i < j => q[i] < q[j]
    /\ \A i \in 1..Len(t), j \in 1..Len(q) : t[i] < q[j]
    /\ \A i \in 1..Len(t) : t[i] <= p
    /\ \A i \in 1..Len(q) : q[i] <= p

\* q is the sequence of the newest frames up to p.
Newest(q, p) == \A i \in 1..Len(q) : q[i] = p - Len(q) + i

FeedInv ==
    /\ FeedTypeOK
    /\ \A v \in Viewers :
          /\ v \notin members => queue[v] = <<>>
          /\ Ordered(taken[v], queue[v], published)
          /\ v \in members \ Unlucky => Newest(queue[v], published)

----------------------------------------------------------------------------
(* Sequences of frames *)

\* The elements of a sequence of frames are frame numbers, hence integers.
LEMMA NumbersFacts ==
    ASSUME NEW s \in Numbers
    PROVE  /\ Len(s) \in Nat
           /\ \A i \in 1..Len(s) : s[i] \in Int /\ s[i] \in 1..MaxFrames
<1>1. \A S : \A r \in Seq(S) : Len(r) \in Nat /\ \A i \in 1..Len(r) : r[i] \in S
  OBVIOUS
<1>2. \A x \in 1..MaxFrames : x \in Int
  BY FeedAssumption
<1> QED BY <1>1, <1>2 DEF Numbers

\* What making room leaves of a queue: all of it, or all but its first frame.
LEMMA MakeRoomFacts ==
    ASSUME NEW q \in Numbers
    PROVE  /\ MakeRoom(q) \in Numbers
           /\ Len(q) <= Capacity => Len(MakeRoom(q)) < Capacity
           /\ \E d \in {0, 1} :
                /\ Len(MakeRoom(q)) = Len(q) - d
                /\ \A i \in 1..Len(MakeRoom(q)) : MakeRoom(q)[i] = q[i + d]
<1>1. CASE Len(q) = Capacity
  <2>1. q # <<>>
    BY <1>1, FeedAssumption DEF Numbers
  <2>2. /\ Tail(q) \in Numbers
        /\ Len(Tail(q)) = Len(q) - 1
        /\ \A i \in 1..Len(Tail(q)) : Tail(q)[i] = q[i + 1]
    BY <2>1 DEF Numbers
  <2>3. Len(q) \in Nat
    BY NumbersFacts
  <2> QED BY <1>1, <2>2, <2>3, FeedAssumption DEF MakeRoom
<1>2. CASE Len(q) # Capacity
  <2>1. MakeRoom(q) = q /\ Len(q) \in Nat
    BY <1>2 DEF MakeRoom, Numbers
  <2> QED BY <1>2, <2>1, FeedAssumption DEF Numbers
<1> QED BY <1>1, <1>2

\* Dropping the oldest frame, or nothing, disturbs neither order nor newness.
LEMMA MakeRoomKeeps ==
    ASSUME NEW t \in Numbers, NEW q \in Numbers, NEW p \in Nat
    PROVE  /\ Ordered(t, q, p) => Ordered(t, MakeRoom(q), p)
           /\ Newest(q, p) => Newest(MakeRoom(q), p)
<1>1. PICK d \in {0, 1} :
        /\ Len(MakeRoom(q)) = Len(q) - d
        /\ \A i \in 1..Len(MakeRoom(q)) : MakeRoom(q)[i] = q[i + d]
  BY MakeRoomFacts
<1>2. Len(q) \in Nat /\ Len(t) \in Nat
  BY NumbersFacts
<1>3. Ordered(t, q, p) => Ordered(t, MakeRoom(q), p)
  <2> DEFINE r == MakeRoom(q)
  <2>1. \A i \in 1..Len(r) : i + d \in 1..Len(q) /\ r[i] = q[i + d]
    BY <1>1, <1>2
  <2>2. /\ \A i \in 1..Len(r) : i \in Int /\ d \in Int
        /\ \A i, j \in 1..Len(r) : i < j => i + d < j + d
    BY <1>1, <1>2
  <2> HIDE DEF r
  <2> QED BY <2>1, <2>2 DEF Ordered, r
<1>4. Newest(q, p) => Newest(MakeRoom(q), p)
  <2>1. SUFFICES ASSUME Newest(q, p), NEW i \in 1..Len(q) - d
                 PROVE  q[i + d] = p - (Len(q) - d) + i
    BY <1>1 DEF Newest
  <2>2. i + d \in 1..Len(q)
    BY <1>2
  <2> QED BY <1>2, <2>1, <2>2 DEF Newest
<1> QED BY <1>3, <1>4

\* The next frame extends an ordered history and a queue of the newest frames.
LEMMA AppendKeeps ==
    ASSUME NEW t \in Numbers, NEW q \in Numbers, NEW p \in Nat
    PROVE  /\ Ordered(t, q, p) => Ordered(t, Append(q, p + 1), p + 1)
           /\ Newest(q, p) => Newest(Append(q, p + 1), p + 1)
<1> DEFINE n == Append(q, p + 1)
<1>1. /\ Len(n) = Len(q) + 1
      /\ \A i \in 1..Len(q) : n[i] = q[i]
      /\ n[Len(q) + 1] = p + 1
      /\ Len(q) \in Nat /\ Len(t) \in Nat
  BY DEF Numbers
<1>2. /\ \A i \in 1..Len(q) : q[i] \in Int
      /\ \A i \in 1..Len(t) : t[i] \in Int
  BY NumbersFacts
<1>3. \A i \in 1..Len(n) : i \in 1..Len(q) \/ i = Len(q) + 1
  BY <1>1
<1> HIDE DEF n
<1>4. Ordered(t, q, p) => Ordered(t, n, p + 1)
  <2> SUFFICES ASSUME Ordered(t, q, p)
               PROVE  Ordered(t, n, p + 1)
    OBVIOUS
  <2>1. \A i, j \in 1..Len(n) : i < j => n[i] < n[j]
    BY <1>1, <1>2, <1>3 DEF Ordered
  <2>2. \A i \in 1..Len(t), j \in 1..Len(n) : t[i] < n[j]
    BY <1>1, <1>2, <1>3 DEF Ordered
  <2>3. \A i \in 1..Len(n) : n[i] <= p + 1
    BY <1>1, <1>2, <1>3 DEF Ordered
  <2>4. \A i \in 1..Len(t) : t[i] <= p + 1
    BY <1>2 DEF Ordered
  <2> QED BY <2>1, <2>2, <2>3, <2>4 DEF Ordered
<1>5. Newest(q, p) => Newest(n, p + 1)
  BY <1>1 DEF Newest
<1> QED BY <1>4, <1>5 DEF n

\* Taking moves the oldest queued frame to the end of what was taken.
LEMMA TakeKeeps ==
    ASSUME NEW t \in Numbers, NEW q \in Numbers, NEW p \in Nat, q # <<>>
    PROVE  /\ Append(t, Head(q)) \in Numbers
           /\ Tail(q) \in Numbers
           /\ Ordered(t, q, p) => Ordered(Append(t, Head(q)), Tail(q), p)
           /\ Newest(q, p) => Newest(Tail(q), p)
<1> DEFINE a == Append(t, Head(q))
           b == Tail(q)
<1>1. /\ b \in Numbers
      /\ Len(b) = Len(q) - 1
      /\ \A i \in 1..Len(q) - 1 : b[i] = q[i + 1]
      /\ Len(q) \in Nat \ {0} /\ Len(t) \in Nat
  BY DEF Numbers
<1>2. /\ a \in Numbers
      /\ Len(a) = Len(t) + 1
      /\ \A i \in 1..Len(t) : a[i] = t[i]
      /\ a[Len(t) + 1] = q[1]
  <2>1. q \in Seq(1..MaxFrames) /\ t \in Seq(1..MaxFrames)
    BY DEF Numbers
  <2>2. Head(q) = q[1] /\ q[1] \in 1..MaxFrames
    <3>1. 1 \in 1..Len(q)
      BY <1>1
    <3>2. q[1] \in 1..MaxFrames
      BY <3>1, NumbersFacts
    <3> QED BY <2>1, <3>2
  <2>3. \A x \in 1..MaxFrames :
          /\ Append(t, x) \in Seq(1..MaxFrames)
          /\ Len(Append(t, x)) = Len(t) + 1
          /\ \A i \in 1..Len(t) : Append(t, x)[i] = t[i]
          /\ Append(t, x)[Len(t) + 1] = x
    BY <2>1
  <2> HIDE DEF b
  <2> QED BY <2>2, <2>3 DEF Numbers
<1>3. /\ \A i \in 1..Len(q) : q[i] \in Int
      /\ \A i \in 1..Len(t) : t[i] \in Int
  BY NumbersFacts
<1> HIDE DEF a, b
<1>4. Ordered(t, q, p) => Ordered(a, b, p)
  <2>1. SUFFICES ASSUME Ordered(t, q, p)
                 PROVE  Ordered(a, b, p)
    OBVIOUS
  <2>2. \A i \in 1..Len(a) : i \in 1..Len(t) \/ i = Len(t) + 1
    BY <1>1, <1>2
  <2>3. \A i \in 1..Len(b) : i \in 1..Len(q) - 1 /\ i + 1 \in 1..Len(q) /\ 1 \in 1..Len(q)
    BY <1>1
  <2>4. \A i, j \in 1..Len(a) : i < j => a[i] < a[j]
    BY <1>1, <1>2, <1>3, <2>1, <2>2 DEF Ordered
  <2>5. \A i, j \in 1..Len(b) : i < j => b[i] < b[j]
    <3> SUFFICES ASSUME NEW i \in 1..Len(b), NEW j \in 1..Len(b), i < j
                 PROVE  q[i + 1] < q[j + 1]
      BY <1>1
    <3>1. i + 1 < j + 1
      BY <1>1
    <3> QED BY <2>1, <2>3, <3>1 DEF Ordered
  <2>6. \A i \in 1..Len(a), j \in 1..Len(b) : a[i] < b[j]
    <3> SUFFICES ASSUME NEW i \in 1..Len(a), NEW j \in 1..Len(b)
                 PROVE  a[i] < q[j + 1]
      BY <1>1
    <3>1. CASE i \in 1..Len(t)
      BY <1>2, <2>1, <2>3, <3>1 DEF Ordered
    <3>2. CASE i = Len(t) + 1
      <4>1. 1 < j + 1
        BY <1>1
      <4> QED BY <1>2, <2>1, <2>3, <3>2, <4>1 DEF Ordered
    <3> QED BY <2>2, <3>1, <3>2
  <2>7. \A i \in 1..Len(a) : a[i] <= p
    BY <1>1, <1>2, <1>3, <2>1, <2>2 DEF Ordered
  <2>8. \A i \in 1..Len(b) : b[i] <= p
    BY <1>1, <1>3, <2>1, <2>3 DEF Ordered
  <2> QED BY <2>4, <2>5, <2>6, <2>7, <2>8 DEF Ordered
<1>5. Newest(q, p) => Newest(b, p)
  BY <1>1 DEF Newest
<1> QED BY <1>1, <1>2, <1>4, <1>5 DEF a, b

\* The pieces make up the whole history.
LEMMA OrderedHistory ==
    ASSUME NEW t \in Numbers, NEW q \in Numbers, NEW p \in Nat, Ordered(t, q, p)
    PROVE  LET h == t \o q
           IN  /\ \A i, j \in 1..Len(h) : i < j => h[i] < h[j]
               /\ \A i \in 1..Len(h) : h[i] <= p
<1> DEFINE h == t \o q
<1>1. /\ Len(h) = Len(t) + Len(q)
      /\ \A i \in 1..Len(h) : h[i] = IF i <= Len(t) THEN t[i] ELSE q[i - Len(t)]
      /\ Len(t) \in Nat /\ Len(q) \in Nat
  BY DEF Numbers
<1>2. \A i \in 1..Len(h) : \/ i \in 1..Len(t)
                           \/ i > Len(t) /\ i - Len(t) \in 1..Len(q)
  BY <1>1
<1> HIDE DEF h
<1>3. \A i \in 1..Len(h) : h[i] <= p
  BY <1>1, <1>2 DEF Ordered
<1>4. ASSUME NEW i \in 1..Len(h), NEW j \in 1..Len(h), i < j
      PROVE  h[i] < h[j]
  <2>1. CASE j \in 1..Len(t)
    <3>1. i \in 1..Len(t)
      BY <1>1, <1>4, <2>1
    <3>2. h[i] = t[i] /\ h[j] = t[j]
      BY <1>1, <2>1, <3>1
    <3> QED BY <1>4, <2>1, <3>1, <3>2 DEF Ordered
  <2>2. CASE i \in 1..Len(t) /\ j > Len(t)
    <3>1. j - Len(t) \in 1..Len(q)
      BY <1>2, <2>2
    <3>2. h[i] = t[i] /\ h[j] = q[j - Len(t)]
      BY <1>1, <2>2
    <3> QED BY <2>2, <3>1, <3>2 DEF Ordered
  <2>3. CASE i > Len(t) /\ j > Len(t)
    <3> DEFINE a == i - Len(t)
               b == j - Len(t)
    <3>1. a \in 1..Len(q) /\ b \in 1..Len(q) /\ a < b
      BY <1>1, <1>2, <1>4, <2>3
    <3>2. h[i] = q[a] /\ h[j] = q[b]
      BY <1>1, <2>3
    <3> QED BY <3>1, <3>2 DEF Ordered
  <2> QED BY <1>1, <1>2, <1>4, <2>1, <2>2, <2>3
<1> QED BY <1>3, <1>4 DEF h

\* An ordered history stays ordered while frames are published to others.
LEMMA OrderedLater ==
    ASSUME NEW t \in Numbers, NEW q \in Numbers, NEW p \in Nat, Ordered(t, q, p)
    PROVE  Ordered(t, q, p + 1)
<1>1. /\ \A i \in 1..Len(t) : t[i] \in Int
      /\ \A i \in 1..Len(q) : q[i] \in Int
  BY NumbersFacts
<1> QED BY <1>1 DEF Ordered

----------------------------------------------------------------------------
(* The invariant *)

\* It holds of the empty feed.
LEMMA FeedInitInv == FeedInit => FeedInv
BY FeedAssumption DEF FeedInit, FeedInv, FeedTypeOK, Ordered, Newest

\* Publishing keeps it: the new frame is newer than all there is.
LEMMA PublishInv ==
    ASSUME FeedInv, NEW lost \in SUBSET (members \cap Unlucky), Publish(lost)
    PROVE  FeedInv'
<1>1. /\ published \in Nat /\ published + 1 \in 1..MaxFrames
      /\ published' = published + 1 /\ members' = members /\ taken' = taken
  BY FeedAssumption DEF Publish, FeedInv, FeedTypeOK
<1>2. ASSUME NEW v \in Viewers
      PROVE  /\ queue'[v] \in Numbers
             /\ Len(queue'[v]) <= Capacity
             /\ v \notin members' => queue'[v] = <<>>
             /\ Ordered(taken'[v], queue'[v], published')
             /\ v \in members' \ Unlucky => Newest(queue'[v], published')
  <2>1. /\ taken[v] \in Numbers /\ queue[v] \in Numbers
        /\ Len(queue[v]) <= Capacity
        /\ v \notin members => queue[v] = <<>>
        /\ Ordered(taken[v], queue[v], published)
        /\ v \in members \ Unlucky => Newest(queue[v], published)
    BY DEF FeedInv, FeedTypeOK, Numbers
  <2>2. queue'[v] = IF v \notin members THEN queue[v]
                    ELSE IF v \in lost THEN MakeRoom(queue[v])
                    ELSE Append(MakeRoom(queue[v]), published + 1)
    BY DEF Publish
  <2>3. /\ MakeRoom(queue[v]) \in Numbers
        /\ Len(MakeRoom(queue[v])) < Capacity
        /\ Len(MakeRoom(queue[v])) \in Nat
    BY <2>1, MakeRoomFacts, NumbersFacts
  <2>4. /\ Ordered(taken[v], MakeRoom(queue[v]), published)
        /\ v \in members \ Unlucky => Newest(MakeRoom(queue[v]), published)
    BY <1>1, <2>1, MakeRoomKeeps
  <2>5. CASE v \notin members
    <3>1. Ordered(taken[v], queue[v], published + 1)
      BY <1>1, <2>1, OrderedLater
    <3> QED BY <1>1, <2>1, <2>2, <2>5, <3>1
  <2>6. CASE v \in members /\ v \in lost
    <3>1. Ordered(taken[v], MakeRoom(queue[v]), published + 1)
      BY <1>1, <2>1, <2>3, <2>4, OrderedLater
    <3> QED BY <1>1, <2>2, <2>3, <2>4, <2>6, <3>1, FeedAssumption
  <2>7. CASE v \in members /\ v \notin lost
    <3>1. /\ Append(MakeRoom(queue[v]), published + 1) \in Numbers
          /\ Len(Append(MakeRoom(queue[v]), published + 1)) <= Capacity
      BY <1>1, <2>3, FeedAssumption DEF Numbers
    <3>2. /\ Ordered(taken[v], Append(MakeRoom(queue[v]), published + 1), published + 1)
          /\ v \in members \ Unlucky =>
               Newest(Append(MakeRoom(queue[v]), published + 1), published + 1)
      BY <1>1, <2>1, <2>3, <2>4, AppendKeeps
    <3> QED BY <1>1, <2>2, <2>7, <3>1, <3>2
  <2> QED BY <2>5, <2>6, <2>7
<1>3. FeedTypeOK'
  <2>1. queue' = [v \in Viewers |-> queue'[v]]
    BY DEF Publish
  <2>2. queue' \in [Viewers -> Seq(1..MaxFrames)]
    BY <1>2, <2>1 DEF Numbers
  <2> QED BY <1>1, <1>2, <2>2 DEF FeedInv, FeedTypeOK
<1> QED BY <1>2, <1>3 DEF FeedInv

\* Taking keeps it.
LEMMA TakeInv ==
    ASSUME FeedInv, NEW v \in Viewers, Take(v)
    PROVE  FeedInv'
<1>1. /\ taken[v] \in Numbers /\ queue[v] \in Numbers
      /\ queue[v] # <<>> /\ published \in Nat
  BY FeedAssumption DEF Take, FeedInv, FeedTypeOK, Numbers
<1>2. /\ published' = published /\ members' = members
      /\ taken' = [taken EXCEPT ![v] = Append(taken[v], Head(queue[v]))]
      /\ queue' = [queue EXCEPT ![v] = Tail(queue[v])]
  BY DEF Take
<1>3. FeedTypeOK'
  <2>1. Append(taken[v], Head(queue[v])) \in Numbers /\ Tail(queue[v]) \in Numbers
    BY <1>1, TakeKeeps
  <2>2. Len(Tail(queue[v])) <= Capacity
    <3>1. Len(Tail(queue[v])) = Len(queue[v]) - 1 /\ Len(queue[v]) \in Nat
      BY <1>1 DEF Numbers
    <3> QED BY <3>1, FeedAssumption DEF FeedInv, FeedTypeOK
  <2> QED BY <1>2, <2>1, <2>2 DEF FeedInv, FeedTypeOK, Numbers
<1>4. ASSUME NEW w \in Viewers
      PROVE  /\ w \notin members' => queue'[w] = <<>>
             /\ Ordered(taken'[w], queue'[w], published')
             /\ w \in members' \ Unlucky => Newest(queue'[w], published')
  <2>1. CASE w = v
    BY <1>1, <1>2, <2>1, TakeKeeps DEF FeedInv, FeedTypeOK
  <2>2. CASE w # v
    BY <1>2, <2>2 DEF FeedInv, FeedTypeOK
  <2> QED BY <2>1, <2>2
<1> QED BY <1>3, <1>4 DEF FeedInv

\* Every step keeps it.
LEMMA FeedNextInv == FeedInv /\ [FeedNext]_feedVars => FeedInv'
<1> SUFFICES ASSUME FeedInv, [FeedNext]_feedVars
             PROVE  FeedInv'
  OBVIOUS
<1>1. ASSUME NEW lost \in SUBSET (members \cap Unlucky), Publish(lost)
      PROVE  FeedInv'
  BY <1>1, PublishInv
<1>2. ASSUME NEW v \in Viewers, Take(v)
      PROVE  FeedInv'
  BY <1>2, TakeInv
<1>3. ASSUME NEW v \in Viewers, Join(v)
      PROVE  FeedInv'
  BY <1>3 DEF Join, FeedInv, FeedTypeOK, Ordered, Newest
<1>4. ASSUME NEW v \in Viewers, Leave(v)
      PROVE  FeedInv'
  <2>1. /\ queue' = [queue EXCEPT ![v] = <<>>]
        /\ published' = published /\ taken' = taken /\ members' = members \ {v}
    BY <1>4 DEF Leave
  <2>2. FeedTypeOK'
    BY <2>1, FeedAssumption DEF FeedInv, FeedTypeOK
  <2>3. Ordered(taken[v], <<>>, published)
    BY DEF FeedInv, Ordered
  <2> QED BY <2>1, <2>2, <2>3 DEF FeedInv, FeedTypeOK
<1>5. CASE UNCHANGED feedVars
  BY <1>5 DEF feedVars, FeedInv, FeedTypeOK
<1> QED BY <1>1, <1>2, <1>3, <1>4, <1>5 DEF FeedNext

\* It holds in every reachable state of the feed.
LEMMA FeedInvHolds == FeedSpec => []FeedInv
<1>1. FeedInit => FeedInv
  BY FeedInitInv
<1>2. FeedInv /\ [FeedNext]_feedVars => FeedInv'
  BY FeedNextInv
<1> QED BY <1>1, <1>2, PTL DEF FeedSpec

----------------------------------------------------------------------------
\* The feed keeps its type, and no queue grows beyond Capacity.
THEOREM FeedTypeCorrect == FeedSpec => []FeedTypeOK
<1>1. FeedInv => FeedTypeOK
  BY DEF FeedInv
<1> QED BY <1>1, FeedInvHolds, PTL

\* Every viewer is handed frames in the order of publication, each at most
\* once, and none before it was published.
THEOREM FeedInOrder == FeedSpec => []InOrder
<1>1. FeedInv => InOrder
  <2> SUFFICES ASSUME FeedInv, NEW v \in Viewers
               PROVE  LET h == taken[v] \o queue[v]
                      IN  /\ \A i, j \in 1..Len(h) : i < j => h[i] < h[j]
                          /\ \A i \in 1..Len(h) : h[i] <= published
    BY DEF InOrder, History
  <2>1. /\ taken[v] \in Numbers /\ queue[v] \in Numbers /\ published \in Nat
        /\ Ordered(taken[v], queue[v], published)
    BY FeedAssumption DEF FeedInv, FeedTypeOK, Numbers
  <2> QED BY <2>1, OrderedHistory
<1> QED BY <1>1, FeedInvHolds, PTL

\* A member that never missed a copy holds exactly the newest frames.
THEOREM FeedHoldsNewest == FeedSpec => []HoldsNewest
<1>1. FeedInv => HoldsNewest
  BY DEF FeedInv, FeedTypeOK, Newest, HoldsNewest
<1> QED BY <1>1, FeedInvHolds, PTL

----------------------------------------------------------------------------
(* The main loop *)

InRound == {"timers", "own frame", "refresh"}
Serving == {"test", "sleep", "frame", "stop", "close"} \cup InRound

ServerInv ==
    /\ pc \in Serving => srv = "up"
    /\ frame_open => pc \in {"own frame", "frame"}
    /\ members # {} => srv = "up"

ClockInv ==
    /\ seen = "nothing" => since = 0 /\ last_refr = 0 /\ pc \notin InRound
    /\ seen = "clock" => last_refr = 0 /\ since <= now
    /\ seen = "clock" /\ pc \notin InRound => now < RefreshPeriod
    /\ seen = "refresh" => now = last_refr + since \/ now = last_refr + since - ClockMod
    /\ since < RefreshPeriod \/ (pc \in InRound /\ since < RefreshPeriod + MaxRound)

MainInv == MainTypeOK /\ ServerInv /\ ClockInv

----------------------------------------------------------------------------
(* Arithmetic of the clock *)

\* Reduction modulo ClockMod, up to one turn away.
LEMMA OneTurn ==
    ASSUME NEW a \in Int
    PROVE  /\ a \in 0..ClockMod-1 => a % ClockMod = a
           /\ a \in ClockMod..2*ClockMod-1 => a % ClockMod = a - ClockMod
           /\ a \in (-ClockMod)..-1 => a % ClockMod = a + ClockMod
<1>1. ClockMod \in Nat /\ ClockMod > 0
  BY MainAssumption
<1>2. a \in 0..ClockMod-1 => a % ClockMod = a
  BY <1>1
<1>3. a \in ClockMod..2*ClockMod-1 => a % ClockMod = a - ClockMod
  BY <1>1
<1>4. a \in (-ClockMod)..-1 => a % ClockMod = a + ClockMod
  BY <1>1
<1> QED BY <1>2, <1>3, <1>4

\* The readings and constants are integers in their ranges.
LEMMA ClockFacts ==
    ASSUME MainTypeOK
    PROVE  /\ now \in Int /\ 0 <= now /\ now < ClockMod
           /\ last_refr \in Int /\ 0 <= last_refr /\ last_refr < ClockMod
           /\ since \in Int /\ 0 <= since
           /\ ClockMod \in Int /\ RefreshPeriod \in Int /\ MaxRound \in Int
           /\ 0 < RefreshPeriod /\ RefreshPeriod + MaxRound <= ClockMod
<1>1. now \in 0..ClockMod-1 /\ last_refr \in 0..ClockMod-1 /\ since \in Nat
  BY DEF MainTypeOK
<1>2. /\ ClockMod \in Int /\ RefreshPeriod \in Int /\ MaxRound \in Int
      /\ 0 < RefreshPeriod /\ RefreshPeriod + MaxRound <= ClockMod
  BY MainAssumption
<1> QED BY <1>1, <1>2

\* The next reading of the clock.
LEMMA TickFacts ==
    ASSUME MainTypeOK, NEW d \in 0..MaxRound
    PROVE  /\ Tick(d) \in 0..ClockMod-1
           /\ Tick(d) = now + d \/ Tick(d) = now + d - ClockMod
           /\ now + d < ClockMod => Tick(d) = now + d
<1>1. now \in Int /\ 0 <= now /\ now < ClockMod
  BY ClockFacts
<1>2. d \in Int /\ 0 <= d /\ d < ClockMod /\ ClockMod \in Int
  BY MainAssumption
<1>3. CASE now + d < ClockMod
  <2>1. Tick(d) = now + d
    BY <1>1, <1>2, <1>3, OneTurn DEF Tick
  <2> QED BY <1>1, <1>2, <1>3, <2>1
<1>4. CASE now + d >= ClockMod
  <2>1. Tick(d) = now + d - ClockMod
    BY <1>1, <1>2, <1>4, OneTurn DEF Tick
  <2> QED BY <1>1, <1>2, <1>4, <2>1
<1> QED BY <1>1, <1>2, <1>3, <1>4

\* Inside a round, the u32 difference is the time that has passed, or, before
\* the first refresh, no less than it.
LEMMA DueFacts ==
    ASSUME MainInv, pc \in InRound
    PROVE  /\ seen = "refresh" => (Due <=> since >= RefreshPeriod)
           /\ seen = "clock" => (Due <=> now >= RefreshPeriod)
           /\ seen \in {"clock", "refresh"}
<1>0. /\ now \in Int /\ 0 <= now /\ now < ClockMod
      /\ last_refr \in Int /\ 0 <= last_refr /\ last_refr < ClockMod
      /\ since \in Int /\ 0 <= since
      /\ ClockMod \in Int /\ RefreshPeriod \in Int
  BY ClockFacts DEF MainInv
<1>1. since < ClockMod
  <2>1. since < RefreshPeriod \/ since < RefreshPeriod + MaxRound
    BY DEF MainInv, ClockInv
  <2> QED BY <1>0, <2>1, MainAssumption
<1>2. ASSUME seen = "refresh"
      PROVE  (now - last_refr) % ClockMod = since
  <2>1. now - last_refr = since \/ now - last_refr = since - ClockMod
    BY <1>0, <1>1, <1>2 DEF MainInv, ClockInv
  <2>2. CASE now - last_refr = since
    BY <1>0, <1>1, <2>2, OneTurn
  <2>3. CASE now - last_refr = since - ClockMod
    <3>1. since - ClockMod \in (-ClockMod)..-1
      BY <1>0, <1>1
    <3>2. (since - ClockMod) % ClockMod = since
      BY <1>0, <1>1, <3>1, OneTurn
    <3> QED BY <2>3, <3>2
  <2> QED BY <2>1, <2>2, <2>3
<1>3. ASSUME seen = "clock"
      PROVE  (now - last_refr) % ClockMod = now
  <2>1. now - last_refr = now
    BY <1>0, <1>1, <1>3 DEF MainInv, ClockInv
  <2> QED BY <1>0, <1>1, <2>1, OneTurn
<1>4. seen \in {"clock", "refresh"}
  BY DEF MainInv, MainTypeOK, ClockInv
<1> QED BY <1>2, <1>3, <1>4 DEF Due

----------------------------------------------------------------------------
(* The invariant *)

LEMMA MainInitInv == MainInit => MainInv
<1> SUFFICES ASSUME MainInit
             PROVE  MainInv
  OBVIOUS
<1>1. 0 \in 0..ClockMod-1 /\ 0 < RefreshPeriod
  BY MainAssumption
<1>2. MainTypeOK
  BY <1>1 DEF MainInit, MainTypeOK
<1>3. ServerInv
  BY DEF MainInit, FeedInit, ServerInv, Serving, InRound
<1>4. ClockInv
  BY <1>1 DEF MainInit, ClockInv, InRound
<1> QED BY <1>2, <1>3, <1>4 DEF MainInv

\* A step that reads no clock and opens no frame.
LEMMA SameClock ==
    ASSUME MainInv, UNCHANGED clockVars, pc \notin InRound, pc' \notin InRound
    PROVE  ClockInv'
BY DEF MainInv, ClockInv, clockVars

LEMMA InvRead ==
    ASSUME MainInv, NEW d \in 0..MaxRound, Read(d)
    PROVE  MainInv'
<1>1. /\ pc = "test" /\ pc' = "timers"
      /\ now' = Tick(d)
      /\ seen' = IF seen = "nothing" THEN "clock" ELSE seen
      /\ since' = IF seen = "nothing" THEN 0 ELSE since + d
      /\ UNCHANGED <<g_should_exit, srv, frame_open, last_refr, feedVars>>
  BY DEF Read, Goto
<1>2. /\ now \in Int /\ 0 <= now /\ now < ClockMod
      /\ last_refr \in Int /\ 0 <= last_refr /\ last_refr < ClockMod
      /\ since \in Int /\ 0 <= since /\ since < RefreshPeriod
      /\ ClockMod \in Int /\ RefreshPeriod \in Int /\ MaxRound \in Int
      /\ RefreshPeriod + MaxRound <= ClockMod /\ 0 < RefreshPeriod
      /\ d \in Int /\ 0 <= d /\ d <= MaxRound
  <2>1. since < RefreshPeriod
    BY <1>1 DEF MainInv, ClockInv, InRound
  <2>2. d \in Int /\ 0 <= d /\ d <= MaxRound
    BY MainAssumption
  <2> QED BY <2>1, <2>2, ClockFacts DEF MainInv
<1>3. /\ now' \in 0..ClockMod-1
      /\ now' = now + d \/ now' = now + d - ClockMod
      /\ now + d < ClockMod => now' = now + d
  BY <1>1, TickFacts DEF MainInv
<1>4. since' \in Nat /\ since' < RefreshPeriod + MaxRound
  BY <1>1, <1>2
<1>5. seen' \in {"clock", "refresh"}
  BY <1>1 DEF MainInv, MainTypeOK
<1>6. MainTypeOK'
  BY <1>1, <1>3, <1>4, <1>5 DEF MainInv, MainTypeOK
<1>7. ServerInv'
  BY <1>1 DEF MainInv, ServerInv, Serving, InRound, feedVars
<1>8. ASSUME seen' = "clock"
      PROVE  last_refr' = 0 /\ since' <= now'
  <2>1. CASE seen = "nothing"
    BY <1>1, <1>2, <1>3, <2>1 DEF MainInv, ClockInv
  <2>2. CASE seen = "clock"
    <3>1. last_refr = 0 /\ since <= now /\ now < RefreshPeriod
      BY <1>1, <2>2 DEF MainInv, ClockInv, InRound
    <3>2. now' = now + d
      BY <1>2, <1>3, <3>1
    <3> QED BY <1>1, <1>2, <2>2, <3>1, <3>2
  <2> QED BY <1>1, <1>8, <2>1, <2>2
<1>9. ASSUME seen' = "refresh"
      PROVE  now' = last_refr' + since' \/ now' = last_refr' + since' - ClockMod
  <2>1. seen = "refresh" /\ since' = since + d /\ last_refr' = last_refr
    BY <1>1, <1>9
  <2>2. now = last_refr + since \/ now = last_refr + since - ClockMod
    BY <2>1 DEF MainInv, ClockInv
  <2>3. CASE now = last_refr + since
    BY <1>2, <1>3, <2>1, <2>3
  <2>4. CASE now = last_refr + since - ClockMod
    <3>1. now + d < ClockMod
      BY <1>2, <2>4
    <3> QED BY <1>2, <1>3, <2>1, <2>4, <3>1
  <2> QED BY <2>2, <2>3, <2>4
<1>10. pc' \in InRound
  BY <1>1 DEF InRound
<1>11. ClockInv'
  BY <1>4, <1>5, <1>8, <1>9, <1>10 DEF ClockInv
<1> QED BY <1>6, <1>7, <1>11 DEF MainInv

LEMMA InvRefresh ==
    ASSUME MainInv, Refresh
    PROVE  MainInv'
<1>1. /\ pc = "refresh" /\ pc' = "frame"
      /\ last_refr' = now /\ frame_open' = TRUE /\ seen' = "refresh" /\ since' = 0
      /\ UNCHANGED <<g_should_exit, srv, now, feedVars>>
  BY DEF Refresh, Goto
<1>2. MainTypeOK'
  BY <1>1 DEF MainInv, MainTypeOK
<1>3. ServerInv'
  BY <1>1 DEF MainInv, ServerInv, Serving, InRound, feedVars
<1>4. now \in Int /\ ClockMod \in Int /\ RefreshPeriod \in Int /\ 0 < RefreshPeriod
  BY ClockFacts DEF MainInv
<1>5. ClockInv'
  BY <1>1, <1>4 DEF ClockInv
<1> QED BY <1>2, <1>3, <1>5 DEF MainInv

LEMMA InvNotDue ==
    ASSUME MainInv, NotDue
    PROVE  MainInv'
<1>1. /\ pc = "refresh" /\ pc' = "sleep" /\ ~Due
      /\ UNCHANGED <<g_should_exit, srv, frame_open, clockVars, feedVars>>
  BY DEF NotDue, Goto
<1>2. pc \in InRound /\ pc' \notin InRound
  BY <1>1 DEF InRound
<1>3. /\ seen = "refresh" => ~(since >= RefreshPeriod)
      /\ seen = "clock" => ~(now >= RefreshPeriod)
      /\ seen \in {"clock", "refresh"}
  BY <1>1, <1>2, DueFacts
<1>4. now \in Int /\ since \in Int /\ RefreshPeriod \in Int
  BY ClockFacts DEF MainInv
<1>5. since < RefreshPeriod
  BY <1>3, <1>4 DEF MainInv, ClockInv
<1>6. seen = "clock" => now < RefreshPeriod
  BY <1>3, <1>4
<1>7. ClockInv'
  BY <1>1, <1>2, <1>3, <1>5, <1>6 DEF MainInv, ClockInv, clockVars
<1>8. MainTypeOK'
  BY <1>1 DEF MainInv, MainTypeOK, clockVars
<1>9. ServerInv'
  BY <1>1 DEF MainInv, ServerInv, Serving, InRound, feedVars
<1> QED BY <1>7, <1>8, <1>9 DEF MainInv

LEMMA InvFlushFrame ==
    ASSUME MainInv, FlushFrame
    PROVE  MainInv'
<1>1. /\ \/ pc = "own frame" /\ pc' = "refresh"
         \/ pc = "frame" /\ pc' = "sleep"
      /\ frame_open' = FALSE
      /\ members' = members
      /\ UNCHANGED <<g_should_exit, srv, clockVars>>
  BY DEF FlushFrame, Goto, Publish, feedVars
<1>2. (pc \in InRound <=> pc' \in InRound)
  BY <1>1 DEF InRound
<1>3. ClockInv'
  BY <1>1, <1>2 DEF MainInv, ClockInv, clockVars
<1>4. MainTypeOK'
  BY <1>1 DEF MainInv, MainTypeOK, clockVars
<1>5. ServerInv'
  BY <1>1 DEF MainInv, ServerInv, Serving, InRound
<1> QED BY <1>3, <1>4, <1>5 DEF MainInv

\* The steps that only move main on.
LEMMA InvMove ==
    ASSUME MainInv,
           \/ CreateDisplay \/ StartServer \/ StartFails \/ Timers \/ TimersRefresh
           \/ Sleep \/ LeaveLoop \/ StopThread \/ Free \/ Deinit
    PROVE  MainInv'
<1>1. UNCHANGED clockVars /\ UNCHANGED g_should_exit /\ UNCHANGED members
  BY DEF CreateDisplay, StartServer, StartFails, Timers, TimersRefresh, Sleep,
         LeaveLoop, StopThread, Free, Deinit, feedVars
<1>2. (pc \in InRound <=> pc' \in InRound)
  BY DEF CreateDisplay, StartServer, StartFails, Timers, TimersRefresh, Sleep,
         LeaveLoop, StopThread, Free, Deinit, Goto, InRound
<1>3. ClockInv'
  BY <1>1, <1>2 DEF MainInv, ClockInv, clockVars
<1>4. /\ pc' \in {"create", "start", "test", "timers", "own frame", "refresh",
                  "frame", "sleep", "stop", "close", "deinit", "exit0", "exit1"}
      /\ srv' \in {"none", "up", "freed"}
      /\ frame_open' \in BOOLEAN
  BY DEF CreateDisplay, StartServer, StartFails, Timers, TimersRefresh, Sleep,
         LeaveLoop, StopThread, Free, Deinit, Goto, MainInv, MainTypeOK
<1>5. MainTypeOK'
  BY <1>1, <1>4 DEF MainInv, MainTypeOK, clockVars
<1>6. ServerInv'
  <2>1. CASE StartServer
    BY <1>1, <2>1 DEF StartServer, Goto, MainInv, ServerInv, Serving, InRound
  <2>2. CASE Free
    BY <1>1, <2>2 DEF Free, Goto, MainInv, ServerInv, Serving, InRound
  <2>3. CASE TimersRefresh
    BY <1>1, <2>3 DEF TimersRefresh, Goto, MainInv, ServerInv, Serving, InRound
  <2>4. CASE Timers \/ Sleep \/ LeaveLoop \/ StopThread
    <3>1. pc \in Serving /\ pc \notin {"own frame", "frame"}
      BY <2>4 DEF Timers, Sleep, LeaveLoop, StopThread, Goto, Serving, InRound
    <3>2. UNCHANGED <<srv, frame_open, members>>
      BY <1>1, <2>4 DEF Timers, Sleep, LeaveLoop, StopThread
    <3> QED BY <3>1, <3>2 DEF MainInv, ServerInv
  <2>5. CASE CreateDisplay \/ StartFails \/ Deinit
    <3>1. pc \notin {"own frame", "frame"} /\ pc' \notin Serving \cup {"own frame", "frame"}
      BY <2>5 DEF CreateDisplay, StartFails, Deinit, Goto, Serving, InRound
    <3>2. UNCHANGED <<srv, frame_open, members>>
      BY <1>1, <2>5 DEF CreateDisplay, StartFails, Deinit
    <3> QED BY <3>1, <3>2 DEF MainInv, ServerInv
  <2> QED BY <2>1, <2>2, <2>3, <2>4, <2>5
<1> QED BY <1>3, <1>5, <1>6 DEF MainInv

LEMMA MainStepInv == MainInv /\ [MainNext]_mainVars => MainInv'
<1> SUFFICES ASSUME MainInv, [MainNext]_mainVars
             PROVE  MainInv'
  OBVIOUS
<1>1. CASE MainThread
  <2>1. CASE \E d \in 0..MaxRound : Read(d)
    BY <2>1, InvRead
  <2>2. CASE Refresh
    BY <2>2, InvRefresh
  <2>3. CASE NotDue
    BY <2>3, InvNotDue
  <2>4. CASE FlushFrame
    BY <2>4, InvFlushFrame
  <2>5. CASE \/ CreateDisplay \/ StartServer \/ StartFails \/ Timers
             \/ TimersRefresh \/ Sleep \/ LeaveLoop \/ StopThread \/ Free
             \/ Deinit
    BY <2>5, InvMove
  <2> QED BY <1>1, <2>1, <2>2, <2>3, <2>4, <2>5 DEF MainThread
<1>2. CASE OnSigint
  <2>1. g_should_exit' = TRUE /\ UNCHANGED <<pc, srv, frame_open, clockVars, feedVars>>
    BY <1>2 DEF OnSigint
  <2>2. MainTypeOK'
    BY <2>1 DEF MainInv, MainTypeOK, clockVars
  <2> QED BY <2>1, <2>2 DEF MainInv, ServerInv, ClockInv, clockVars, feedVars
<1>3. ASSUME NEW v \in Viewers, ServiceThread(v)
      PROVE  MainInv'
  <2>1. srv = "up" /\ UNCHANGED <<pc, g_should_exit, srv, frame_open, clockVars>>
    BY <1>3 DEF ServiceThread
  <2> QED BY <2>1 DEF MainInv, MainTypeOK, ServerInv, ClockInv, clockVars
<1>4. CASE UNCHANGED mainVars
  <2>1. UNCHANGED <<pc, g_should_exit, srv, frame_open, now, last_refr, seen, since>>
    BY <1>4 DEF mainVars, clockVars
  <2>2. UNCHANGED members
    BY <1>4 DEF mainVars, feedVars
  <2>3. MainTypeOK'
    BY <2>1 DEF MainInv, MainTypeOK
  <2>4. ServerInv'
    BY <2>1, <2>2 DEF MainInv, ServerInv
  <2>5. ClockInv'
    BY <2>1 DEF MainInv, ClockInv
  <2> QED BY <2>3, <2>4, <2>5 DEF MainInv
<1> QED BY <1>1, <1>2, <1>3, <1>4 DEF MainNext

LEMMA MainInvHolds == MainSpec => []MainInv
<1>1. MainInit => MainInv
  BY MainInitInv
<1>2. MainInv /\ [MainNext]_mainVars => MainInv'
  BY MainStepInv
<1> QED BY <1>1, <1>2, PTL DEF MainSpec

----------------------------------------------------------------------------
\* The state of the program keeps its type.
THEOREM MainTypeCorrect == MainSpec => []MainTypeOK
<1>1. MainInv => MainTypeOK
  BY DEF MainInv
<1> QED BY <1>1, MainInvHolds, PTL

\* Frames are open and connections served only while the server is there,
\* whenever SIGINT comes.
THEOREM MainServerOutlivesUse == MainSpec => []ServerOutlivesUse
<1>1. MainInv => ServerOutlivesUse
  BY DEF MainInv, ServerInv, Serving, InRound, ServerOutlivesUse
<1> QED BY <1>1, MainInvHolds, PTL

\* No round leaves an overdue refresh behind, for every uptime and across every
\* wrap of the clock.
THEOREM MainRefreshOnTime == MainSpec => []RefreshOnTime
<1>1. MainInv => RefreshOnTime
  BY DEF MainInv, ClockInv, InRound, RefreshOnTime
<1> QED BY <1>1, MainInvHolds, PTL

\* Forced refreshes are at least RefreshPeriod apart, across every wrap.
THEOREM MainRefreshPaced == MainSpec => RefreshPaced
<1>1. ASSUME MainInv, [MainNext]_mainVars
      PROVE  [pc = "refresh" /\ pc' = "frame" /\ seen = "refresh"
                => since >= RefreshPeriod]_mainVars
  <2> SUFFICES ASSUME pc = "refresh", pc' = "frame", seen = "refresh"
               PROVE  since >= RefreshPeriod
    OBVIOUS
  <2>1. Refresh
    <3>1. pc' # pc
      OBVIOUS
    <3>2. MainThread
      BY <1>1, <3>1 DEF MainNext, OnSigint, ServiceThread, mainVars
    <3> QED
      BY <3>2 DEF MainThread, CreateDisplay, StartServer, StartFails, Read, Timers,
         TimersRefresh, NotDue, FlushFrame, Sleep, LeaveLoop, StopThread, Free,
         Deinit, Goto
  <2>2. pc \in InRound
    BY DEF InRound
  <2> QED BY <1>1, <2>1, <2>2, DueFacts DEF Refresh
<1> QED BY <1>1, MainInvHolds, PTL DEF MainSpec, RefreshPaced

----------------------------------------------------------------------------
(* The feed *)

LEMMA MainFeedStep == [MainNext]_mainVars => [FeedNext]_feedVars
<1> SUFFICES ASSUME [MainNext]_mainVars
             PROVE  [FeedNext]_feedVars
  OBVIOUS
<1>1. CASE MainThread
  <2>1. CASE FlushFrame
    BY <2>1 DEF FlushFrame, FeedNext
  <2>2. CASE ~FlushFrame
    BY <1>1, <2>2 DEF MainThread, CreateDisplay, StartServer, StartFails, Read,
       Timers, TimersRefresh, Refresh, NotDue, Sleep, LeaveLoop, StopThread, Free,
       Deinit
  <2> QED BY <2>1, <2>2
<1>2. CASE OnSigint
  BY <1>2 DEF OnSigint
<1>3. ASSUME NEW v \in Viewers, ServiceThread(v)
      PROVE  FeedNext
  BY <1>3 DEF ServiceThread, FeedNext
<1>4. CASE UNCHANGED mainVars
  BY <1>4 DEF mainVars
<1> QED BY <1>1, <1>2, <1>3, <1>4 DEF MainNext

\* The steps of the program are steps of the feed or leave it alone, so that what
\* is proved of the feed holds inside the program.
LEMMA MainFeed == MainSpec => FeedSpec
<1>1. MainInit => FeedInit
  BY DEF MainInit
<1> QED BY <1>1, MainFeedStep, PTL DEF MainSpec, FeedSpec

\* Hence every viewer is handed the program's frames in order, each at most once.
THEOREM MainInOrder == MainSpec => []InOrder
BY MainFeed, FeedInOrder, PTL

\* And a viewer that falls behind the program skips to its newest frames.
THEOREM MainHoldsNewest == MainSpec => []HoldsNewest
BY MainFeed, FeedHoldsNewest, PTL

\* The queues of the program's viewers keep their type and their bound.
THEOREM MainFeedTypeCorrect == MainSpec => []FeedTypeOK
BY MainFeed, FeedTypeCorrect, PTL
=============================================================================
