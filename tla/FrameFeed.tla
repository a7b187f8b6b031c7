----------------------------- MODULE FrameFeed -----------------------------
(***************************************************************************)
(* What the frame broadcast promises, without threads, rings or sockets:   *)
(* the producer numbers its frames, every member of the feed holds a queue *)
(* of at most Capacity frames that were published to it and that it has    *)
(* not taken yet, and a full queue gives up its oldest frame.              *)
(*                                                                         *)
(* WsServer implements this specification (WsServer!Feed).                 *)
(***************************************************************************)
EXTENDS Integers, Sequences, FiniteSets

CONSTANTS
    Viewers,     \* connections that can ever be made
    Capacity,    \* frames a member's queue holds
    MaxMembers,  \* members the feed serves at a time
    Unlucky,     \* viewers whose copy of a frame may fail to be made
    MaxFrames    \* bound: frames published

ASSUME FeedAssumption ==
    /\ Capacity \in Nat \ {0}
    /\ MaxMembers \in Nat \ {0}
    /\ MaxFrames \in Nat
    /\ Unlucky \subseteq Viewers

VARIABLES
    published,   \* number of frames published so far; frame n is the n-th
    members,     \* the viewers the feed serves
    queue,       \* queue[v]: frames published to v and not taken, oldest first
    taken        \* taken[v]: frames v has taken, in order

feedVars == <<published, members, queue, taken>>

FeedTypeOK ==
    /\ published \in 0..MaxFrames
    /\ members \subseteq Viewers
    /\ queue \in [Viewers -> Seq(1..MaxFrames)]
    /\ \A v \in Viewers : Len(queue[v]) <= Capacity
    /\ taken \in [Viewers -> Seq(1..MaxFrames)]

FeedInit ==
    /\ published = 0
    /\ members = {}
    /\ queue = [v \in Viewers |-> <<>>]
    /\ taken = [v \in Viewers |-> <<>>]

\* Mistakes the properties below must notice; FeedNext does not use them.
FaultyMakeRoomLate(q) == IF Len(q) > Capacity THEN Tail(q) ELSE q
FaultyMakeRoomNewest(q) ==
    IF Len(q) = Capacity THEN SubSeq(q, 1, Capacity - 1) ELSE q

\* A full queue gives up its oldest frame.
MakeRoom(q) == IF Len(q) = Capacity THEN Tail(q) ELSE q

\* Frame n enters the queue of every member. A member in lost misses it, and
\* still loses its oldest frame when its queue is full.
Publish(lost) ==
    /\ published < MaxFrames
    /\ published' = published + 1
    /\ queue' = [v \in Viewers |->
                   IF v \notin members THEN queue[v]
                   ELSE IF v \in lost THEN MakeRoom(queue[v])
                   ELSE Append(MakeRoom(queue[v]), published + 1)]
    /\ UNCHANGED <<members, taken>>

FaultyTakeNewest(v) ==
    /\ queue[v] # <<>>
    /\ taken' = [taken EXCEPT ![v] = Append(@, queue[v][Len(queue[v])])]
    /\ queue' = [queue EXCEPT ![v] = SubSeq(@, 1, Len(@) - 1)]
    /\ UNCHANGED <<published, members>>

Take(v) ==
    /\ queue[v] # <<>>
    /\ taken' = [taken EXCEPT ![v] = Append(@, Head(queue[v]))]
    /\ queue' = [queue EXCEPT ![v] = Tail(@)]
    /\ UNCHANGED <<published, members>>

\* A connection joins once, before it has received anything.
Join(v) ==
    /\ v \notin members
    /\ Cardinality(members) < MaxMembers
    /\ taken[v] = <<>>
    /\ members' = members \cup {v}
    /\ UNCHANGED <<published, queue, taken>>

\* Leaving gives up what was not taken.
Leave(v) ==
    /\ v \in members
    /\ members' = members \ {v}
    /\ queue' = [queue EXCEPT ![v] = <<>>]
    /\ UNCHANGED <<published, taken>>

FeedNext ==
    \/ \E lost \in SUBSET (members \cap Unlucky) : Publish(lost)
    \/ \E v \in Viewers : Take(v) \/ Join(v) \/ Leave(v)

FeedSpec == FeedInit /\ [][FeedNext]_feedVars

----------------------------------------------------------------------------
\* The frames a viewer has been given and not lost, in the order given.
History(v) == taken[v] \o queue[v]

\* Frames reach a viewer in the order they were published, each at most once,
\* whatever is dropped on the way: ws_server.c pops a ring only at its tail.
InOrder ==
    \A v \in Viewers :
        LET h == History(v)
        IN  /\ \A i, j \in 1..Len(h) : i < j => h[i] < h[j]
            /\ \A i \in 1..Len(h) : h[i] <= published

\* A viewer that could always be given a copy holds exactly the newest frames:
\* what is dropped is the oldest, so a viewer that falls behind skips ahead
\* and never waits behind frames that have been superseded.
HoldsNewest ==
    \A v \in members \ Unlucky :
        \A i \in 1..Len(queue[v]) :
            queue[v][i] = published - Len(queue[v]) + i
=============================================================================
