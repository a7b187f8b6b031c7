------------------------------ MODULE WsServer ------------------------------
(***************************************************************************)
(* src/src/transport/ws_server.c: two threads share the session table and  *)
(* one drop-oldest ring of frames per session.                             *)
(*                                                                         *)
(* The main thread (LVGL) starts the server, broadcasts frames, and stops  *)
(* it. The service thread runs libwebsockets' event loop, which calls      *)
(* callback_lhc. Every region under g_lock is one action; between regions  *)
(* the other thread may run. libwebsockets is external: it is modelled by  *)
(* the four things this code relies on, the poll interest a thread asks    *)
(* for (want), the snapshot of it poll() sleeps with (polled), the pipe    *)
(* lws_cancel_service writes (wake) and the callbacks of callback_lhc.     *)
(*                                                                         *)
(* A viewer is one TCP connection: a browser that reconnects is another    *)
(* viewer. A frame is its broadcast number; its bytes are a member of the  *)
(* ghost heap, so that leaks and uses after free show.                     *)
(*                                                                         *)
(* An operator named Faulty... is a plausible mistake in the definition    *)
(* that follows it. Next does not use it: it shows that a property notices.*)
(***************************************************************************)
EXTENDS Integers, Sequences, FiniteSets

CONSTANTS
    Viewers,     \* connections that can ever be made
    Capacity,    \* LHC_RING_CAPACITY
    MaxViewers,  \* LHC_MAX_VIEWERS
    Oom,         \* viewers for whose ring malloc may fail
    Fast,        \* viewers whose socket keeps becoming writable
    MaxFrames,   \* bound: calls of lhc_ws_server_broadcast
    NoViewer     \* no connection

ASSUME WsAssumption ==
    /\ Capacity \in Nat \ {0}
    /\ MaxViewers \in Nat \ {0}
    /\ MaxFrames \in Nat
    /\ Oom \subseteq Viewers
    /\ Fast \subseteq Viewers
    /\ NoViewer \notin Viewers

VARIABLES
    main,          \* where the main thread is
    svc,           \* where the service thread is
    running,       \* srv->running
    viewer_count,  \* srv->viewer_count
    sessions,      \* g_sessions and g_wsi [0 .. g_session_count): the viewers
    ring,          \* each connection's per_session_data
    conn,          \* the TCP connections
    want,          \* viewers a writable callback is asked for
    polled,        \* the part of want that poll() was entered with
    wake,          \* lws_cancel_service was called and not seen yet
    cur,           \* SERVER_WRITEABLE's locals: the viewer, m and still_more
    heap,          \* ghost: heap[v], the live copies of frames made for v
    published,     \* ghost: broadcasts so far
    taken,         \* ghost: taken[v], frames popped from v's ring, in order
    since          \* ghost: published when v was last not registered

lwsVars   == <<want, polled, wake>>
ghostVars == <<heap, published, taken, since>>
vars == <<main, svc, running, viewer_count, sessions, ring, conn, cur,
          lwsVars, ghostVars>>

----------------------------------------------------------------------------
(* The rings *)

Slots == 0..Capacity-1
Frames == 1..MaxFrames
NoFrame == 0     \* a slot whose data is NULL

EmptyRing == [slot |-> [i \in Slots |-> NoFrame],
              head |-> 0, tail |-> 0, count |-> 0, dropped |-> 0]

\* The slot k places after the tail.
At(r, k) == (r.tail + k) % Capacity

\* The frames a ring holds, oldest first.
Contents(r) == [k \in 1..r.count |-> r.slot[At(r, k - 1)]]

Held(r) == {Contents(r)[k] : k \in 1..r.count}

\* Empties the tail slot and moves past it.
Pop(r) == [r EXCEPT !.slot[r.tail] = NoFrame,
                    !.tail = At(r, 1),
                    !.count = @ - 1]

FaultyDropOldestUncounted(r) == IF r.count = Capacity THEN Pop(r) ELSE r

DropOldest(r) ==
    IF r.count = Capacity THEN [Pop(r) EXCEPT !.dropped = @ + 1] ELSE r

\* The frame whose copy making room frees.
Freed(r) == IF r.count = Capacity THEN {r.slot[r.tail]} ELSE {}

FaultyStoreNoWrap(r, n) == [r EXCEPT !.slot[r.head] = n,
                                     !.head = @ + 1,
                                     !.count = @ + 1]

Store(r, n) == [r EXCEPT !.slot[r.head] = n,
                         !.head = (@ + 1) % Capacity,
                         !.count = @ + 1]

FaultyRingPushCountOnFail(r, n, fails) ==
    IF fails THEN [DropOldest(r) EXCEPT !.count = @ + 1]
             ELSE Store(DropOldest(r), n)

\* Room is made before the copy is allocated: a failed malloc still costs the
\* oldest frame.
RingPush(r, n, fails) ==
    IF fails THEN DropOldest(r) ELSE Store(DropOldest(r), n)

\* session_remove's loop: every entry from the tail on is freed.
Drained(r) ==
    [r EXCEPT !.slot = [i \in Slots |->
                          IF \E k \in 0..r.count-1 : i = At(r, k)
                          THEN NoFrame ELSE @[i]],
              !.tail = At(r, r.count),
              !.count = 0]

----------------------------------------------------------------------------
(* The session table *)

Registered == {sessions[i] : i \in 1..Len(sessions)}
Open == {v \in Viewers : conn[v] = "open"}

SessionAdd(v) ==
    sessions' = IF Len(sessions) >= MaxViewers THEN sessions
                                               ELSE Append(sessions, v)

FaultySessionRemoveNoSwap(v) ==
    IF v \notin Registered
    THEN UNCHANGED <<sessions, ring, heap>>
    ELSE /\ sessions' = SubSeq(sessions, 1, Len(sessions) - 1)
         /\ ring' = [ring EXCEPT ![v] = Drained(@)]
         /\ heap' = [heap EXCEPT ![v] = @ \ Held(ring[v])]

FaultySessionRemoveNoFree(v) ==
    /\ sessions' = SelectSeq(sessions, LAMBDA w : w # v)
    /\ UNCHANGED <<ring, heap>>

\* The first entry that is v's is replaced by the last one.
SessionRemove(v) ==
    IF v \notin Registered
    THEN UNCHANGED <<sessions, ring, heap>>
    ELSE LET n == Len(sessions)
             i == CHOOSE i \in 1..n : /\ sessions[i] = v
                                      /\ \A j \in 1..i-1 : sessions[j] # v
         IN  /\ sessions' = SubSeq([sessions EXCEPT ![i] = sessions[n]], 1, n - 1)
             /\ ring' = [ring EXCEPT ![v] = Drained(@)]
             /\ heap' = [heap EXCEPT ![v] = @ \ Held(ring[v])]

----------------------------------------------------------------------------
Idle == [v |-> NoViewer, frame |-> NoFrame, more |-> FALSE]

Init ==
    /\ main = "start"
    /\ svc = "off"
    /\ running = FALSE
    /\ viewer_count = 0
    /\ sessions = <<>>
    /\ ring = [v \in Viewers |-> EmptyRing]
    /\ conn = [v \in Viewers |-> "none"]
    /\ want = {}
    /\ polled = {}
    /\ wake = FALSE
    /\ cur = Idle
    /\ heap = [v \in Viewers |-> {}]
    /\ published = 0
    /\ taken = [v \in Viewers |-> <<>>]
    /\ since = [v \in Viewers |-> 0]

----------------------------------------------------------------------------
(* The main thread *)

\* lhc_ws_server_start: running is set before the thread exists.
Start ==
    /\ main = "start"
    /\ main' = "loop"
    /\ svc' = "loop"
    /\ running' = TRUE
    /\ UNCHANGED <<viewer_count, sessions, ring, conn, cur, lwsVars, ghostVars>>

\* calloc, lws_create_context or pthread_create fails; nothing is left behind.
StartFails ==
    /\ main = "start"
    /\ main' = "failed"
    /\ UNCHANGED <<svc, running, viewer_count, sessions, ring, conn, cur,
                   lwsVars, ghostVars>>

\* lhc_ws_server_broadcast returns early when nobody is registered.
BroadcastNoSessions ==
    /\ main = "loop"
    /\ published < MaxFrames
    /\ sessions = <<>>
    /\ published' = published + 1
    /\ UNCHANGED <<main, svc, running, viewer_count, sessions, ring, conn, cur,
                   lwsVars, heap, taken, since>>

\* The locked part of lhc_ws_server_broadcast; malloc fails for the viewers
\* of fails. Every session is asked for a writable callback all the same.
Broadcast(fails) ==
    LET n == published + 1 IN
    /\ main = "loop"
    /\ published < MaxFrames
    /\ sessions # <<>>
    /\ published' = n
    /\ ring' = [v \in Viewers |-> IF v \in Registered
                                  THEN RingPush(ring[v], n, v \in fails)
                                  ELSE ring[v]]
    /\ heap' = [v \in Viewers |->
                  IF v \in Registered
                  THEN (heap[v] \ Freed(ring[v]))
                         \cup (IF v \in fails THEN {} ELSE {n})
                  ELSE heap[v]]
    /\ want' = want \cup Registered
    /\ main' = "cancel"
    /\ UNCHANGED <<svc, running, viewer_count, sessions, conn, cur, polled,
                   wake, taken, since>>

FaultyCancelServiceForgotten ==
    /\ main = "cancel"
    /\ main' = "loop"
    /\ UNCHANGED <<svc, running, viewer_count, sessions, ring, conn, cur,
                   lwsVars, ghostVars>>

\* Its last call, outside the lock.
CancelService ==
    /\ main = "cancel"
    /\ wake' = TRUE
    /\ main' = "loop"
    /\ UNCHANGED <<svc, running, viewer_count, sessions, ring, conn, cur, want,
                   polled, ghostVars>>

\* lhc_ws_server_stop, one action per call it makes.
StopRunning ==
    /\ main = "loop"
    /\ running' = FALSE
    /\ main' = "stop_cancel"
    /\ UNCHANGED <<svc, viewer_count, sessions, ring, conn, cur, lwsVars,
                   ghostVars>>

FaultyStopCancelForgotten ==
    /\ main = "stop_cancel"
    /\ main' = "join"
    /\ UNCHANGED <<svc, running, viewer_count, sessions, ring, conn, cur,
                   lwsVars, ghostVars>>

StopCancel ==
    /\ main = "stop_cancel"
    /\ wake' = TRUE
    /\ main' = "join"
    /\ UNCHANGED <<svc, running, viewer_count, sessions, ring, conn, cur, want,
                   polled, ghostVars>>

FaultyStopJoinForgotten ==
    /\ main = "join"
    /\ main' = "destroy"
    /\ UNCHANGED <<svc, running, viewer_count, sessions, ring, conn, cur,
                   lwsVars, ghostVars>>

StopJoin ==
    /\ main = "join"
    /\ svc = "exited"
    /\ main' = "destroy"
    /\ UNCHANGED <<svc, running, viewer_count, sessions, ring, conn, cur,
                   lwsVars, ghostVars>>

StopDone ==
    /\ main = "destroy"
    /\ Open = {}
    /\ sessions' = <<>>
    /\ main' = "stopped"
    /\ UNCHANGED <<svc, running, viewer_count, ring, conn, cur, lwsVars,
                   ghostVars>>

----------------------------------------------------------------------------
(* callback_lhc *)

\* LWS_CALLBACK_ESTABLISHED. A viewer beyond MaxViewers is counted, not added.
Established(v) ==
    /\ svc = "serve"
    /\ conn[v] = "none"
    /\ conn' = [conn EXCEPT ![v] = "open"]
    /\ ring' = [ring EXCEPT ![v] = EmptyRing]
    /\ SessionAdd(v)
    /\ viewer_count' = viewer_count + 1
    /\ since' = [since EXCEPT ![v] = published]
    /\ UNCHANGED <<main, svc, running, cur, lwsVars, heap, published, taken>>

\* LWS_CALLBACK_CLOSED; lws forgets what it was asked for v.
Closed(v) ==
    /\ conn[v] = "open"
    /\ conn' = [conn EXCEPT ![v] = "closed"]
    /\ SessionRemove(v)
    /\ viewer_count' = IF viewer_count > 0 THEN viewer_count - 1 ELSE viewer_count
    /\ want' = want \ {v}
    /\ polled' = polled \ {v}
    /\ UNCHANGED <<main, running, wake, published, taken, since>>

\* The peer went away, or lws_context_destroy closes what is left.
PeerClosed(v) == svc = "serve" /\ Closed(v) /\ UNCHANGED <<svc, cur>>
DestroyCloses(v) == main = "destroy" /\ Closed(v) /\ UNCHANGED <<svc, cur>>

\* lws clears the request and calls SERVER_WRITEABLE, which has yet to take
\* the lock.
Writable(v) ==
    /\ svc = "serve"
    /\ v \in polled
    /\ want' = want \ {v}
    /\ polled' = polled \ {v}
    /\ cur' = [Idle EXCEPT !.v = v]
    /\ svc' = "writeable"
    /\ UNCHANGED <<main, running, viewer_count, sessions, ring, conn, wake,
                   ghostVars>>

NothingToWrite ==
    /\ svc = "writeable"
    /\ ring[cur.v].count = 0
    /\ svc' = "serve"
    /\ cur' = Idle
    /\ UNCHANGED <<main, running, viewer_count, sessions, ring, conn, lwsVars,
                   ghostVars>>

\* The locked part: the oldest frame leaves the ring.
TakeOldest ==
    LET v == cur.v
        m == ring[v].slot[ring[v].tail]
        r == Pop(ring[v])
    IN
    /\ svc = "writeable"
    /\ ring[v].count # 0
    /\ ring' = [ring EXCEPT ![v] = r]
    /\ cur' = [v |-> v, frame |-> m, more |-> r.count > 0]
    /\ taken' = [taken EXCEPT ![v] = Append(@, m)]
    /\ svc' = "write"
    /\ UNCHANGED <<main, running, viewer_count, sessions, conn, lwsVars, heap,
                   published, since>>

FaultyWriteDoneNoMore ==
    /\ svc = "write"
    /\ heap' = [heap EXCEPT ![cur.v] = @ \ {cur.frame}]
    /\ cur' = Idle
    /\ svc' = "serve"
    /\ UNCHANGED <<main, running, viewer_count, sessions, ring, conn, lwsVars,
                   published, taken, since>>

\* lws_write accepts the frame; the copy is freed and, if the ring was not
\* empty when it was popped, the next callback is asked for.
WriteDone ==
    /\ svc = "write"
    /\ heap' = [heap EXCEPT ![cur.v] = @ \ {cur.frame}]
    /\ want' = IF cur.more THEN want \cup {cur.v} ELSE want
    /\ cur' = Idle
    /\ svc' = "serve"
    /\ UNCHANGED <<main, running, viewer_count, sessions, ring, conn, polled,
                   wake, published, taken, since>>

\* A short write: the callback returns -1 and lws closes the connection.
WriteShort ==
    /\ svc = "write"
    /\ heap' = [heap EXCEPT ![cur.v] = @ \ {cur.frame}]
    /\ cur' = [Idle EXCEPT !.v = cur.v]
    /\ svc' = "close"
    /\ UNCHANGED <<main, running, viewer_count, sessions, ring, conn, lwsVars,
                   published, taken, since>>

CloseAfterShort ==
    /\ svc = "close"
    /\ Closed(cur.v)
    /\ cur' = Idle
    /\ svc' = "serve"

----------------------------------------------------------------------------
(* ws_thread_main and lws_service *)

EnterService ==
    /\ svc = "loop"
    /\ running
    /\ polled' = want
    /\ svc' = "poll"
    /\ UNCHANGED <<main, running, viewer_count, sessions, ring, conn, cur, want,
                   wake, ghostVars>>

ThreadExit ==
    /\ svc = "loop"
    /\ ~running
    /\ svc' = "exited"
    /\ UNCHANGED <<main, running, viewer_count, sessions, ring, conn, cur,
                   lwsVars, ghostVars>>

\* poll() returns: the pipe is readable, a socket it watched is writable, or
\* anything else happened on the network or the 50 ms ran out.
PollReturns ==
    /\ svc = "poll"
    /\ svc' = "serve"
    /\ UNCHANGED <<main, running, viewer_count, sessions, ring, conn, cur,
                   lwsVars, ghostVars>>

PollWoken == wake /\ PollReturns
PollWritable(v) == v \in polled /\ PollReturns

DrainPipe ==
    /\ svc = "serve"
    /\ wake
    /\ wake' = FALSE
    /\ UNCHANGED <<main, svc, running, viewer_count, sessions, ring, conn, cur,
                   want, polled, ghostVars>>

\* lws_service returns after one round of events.
ServiceReturns ==
    /\ svc = "serve"
    /\ svc' = "loop"
    /\ polled' = {}
    /\ UNCHANGED <<main, running, viewer_count, sessions, ring, conn, cur, want,
                   wake, ghostVars>>

----------------------------------------------------------------------------
\* The process is over: nothing happens any more.
Terminated == main \in {"stopped", "failed"} /\ UNCHANGED vars

MainNext ==
    \/ Start \/ StartFails
    \/ BroadcastNoSessions
    \/ \E fails \in SUBSET (Registered \cap Oom) : Broadcast(fails)
    \/ CancelService
    \/ StopRunning \/ StopCancel \/ StopJoin \/ StopDone
    \/ \E v \in Viewers : DestroyCloses(v)

SvcNext ==
    \/ EnterService \/ ThreadExit \/ PollReturns
    \/ DrainPipe \/ ServiceReturns
    \/ \E v \in Viewers : Established(v) \/ PeerClosed(v) \/ Writable(v)
    \/ NothingToWrite \/ TakeOldest
    \/ WriteDone \/ WriteShort \/ CloseAfterShort

Next == MainNext \/ SvcNext \/ Terminated

Spec == Init /\ [][Next]_vars

----------------------------------------------------------------------------
(* Both threads keep running while they have code to run. poll() wakes for *)
(* the pipe and for a writable socket of a Fast viewer; nothing is assumed  *)
(* of its time-out, of other sockets, or that anybody broadcasts or stops.  *)
(* In each round lws_service may serve the fast sockets or not, but not     *)
(* for ever not.                                                            *)

Fairness ==
    /\ WF_vars(CancelService)
    /\ WF_vars(StopCancel) /\ WF_vars(StopJoin) /\ WF_vars(StopDone)
    /\ \A v \in Viewers : WF_vars(DestroyCloses(v))
    /\ WF_vars(EnterService) /\ WF_vars(ThreadExit)
    /\ WF_vars(PollWoken) /\ WF_vars(ServiceReturns)
    /\ WF_vars(NothingToWrite \/ TakeOldest)
    /\ WF_vars(WriteDone \/ WriteShort) /\ WF_vars(CloseAfterShort)
    /\ \A v \in Fast : WF_vars(PollWritable(v)) /\ SF_vars(Writable(v))

FairSpec == Spec /\ Fairness

----------------------------------------------------------------------------
(* Properties *)

RingType == [slot : [Slots -> Frames \cup {NoFrame}],
             head : Slots, tail : Slots,
             count : 0..Capacity, dropped : Nat]

ServedType == [v : Viewers \cup {NoViewer}, frame : Frames \cup {NoFrame},
               more : BOOLEAN]

TypeOK ==
    /\ main \in {"start", "loop", "cancel", "stop_cancel", "join", "destroy",
                 "stopped", "failed"}
    /\ svc \in {"off", "loop", "poll", "serve", "writeable", "write", "close",
                "exited"}
    /\ running \in BOOLEAN
    /\ viewer_count \in Nat
    /\ sessions \in Seq(Viewers)
    /\ ring \in [Viewers -> RingType]
    /\ conn \in [Viewers -> {"none", "open", "closed"}]
    /\ want \in SUBSET Viewers
    /\ polled \in SUBSET Viewers
    /\ wake \in BOOLEAN
    /\ cur \in ServedType
    /\ heap \in [Viewers -> SUBSET Frames]
    /\ published \in 0..MaxFrames
    /\ taken \in [Viewers -> Seq(Frames)]
    /\ since \in [Viewers -> 0..MaxFrames]

\* Across wrap-around, drop-oldest, failed allocations and draining, head and
\* count agree and the slots that hold data are exactly the count slots from
\* the tail on: the next pop never reads a NULL entry (ws_server.c:126).
RingOK(r) ==
    /\ r.head = At(r, r.count)
    /\ \A k \in 0..Capacity-1 : r.slot[At(r, k)] # NoFrame <=> k < r.count

RingsOK == \A v \in Viewers : RingOK(ring[v])

\* The frame the service thread has popped from v's ring and not freed.
InFlight(v) == IF svc = "write" /\ cur.v = v THEN {cur.frame} ELSE {}

\* Every copy malloc made has one owner, a ring or the write in progress, and
\* only a registered viewer's ring owns any: no frame is leaked, freed twice or
\* read after it is freed, whichever of drop, pop, close and stop comes first.
HeapOwned ==
    \A v \in Viewers :
        /\ heap[v] = Held(ring[v]) \cup InFlight(v)
        /\ Held(ring[v]) \cap InFlight(v) = {}
        /\ v \notin Registered => ring[v].count = 0

\* Frames in a ring always have a writable callback coming, although
\* still_more is computed under the lock and acted on after lws_write
\* (ws_server.c:130,139): a broadcast in between asks for itself.
NoLostWakeup ==
    \A v \in Registered :
        ring[v].count > 0 =>
            \/ v \in want
            \/ cur.v = v /\ svc \in {"writeable", "close"}
            \/ cur.v = v /\ svc = "write" /\ cur.more

\* poll() never sleeps on a stale interest set or through a stop: when the main
\* thread asked for a callback or cleared running after poll() was entered,
\* the wake-up is in the pipe or about to be written (ws_server.c:212-215,221).
NoMissedWake ==
    svc = "poll" =>
        /\ want \subseteq polled \/ wake \/ main = "cancel"
        /\ running \/ wake \/ main = "stop_cancel"

\* The table never holds a connection twice, or one that is closed (a broadcast
\* would write into freed per_session_data), through any order of swap-removes;
\* viewer_count is the number of connections that are open.
SessionsOK ==
    /\ Len(sessions) <= MaxViewers
    /\ \A i, j \in 1..Len(sessions) : sessions[i] = sessions[j] => i = j
    /\ Registered \subseteq Open
    /\ viewer_count = Cardinality(Open)

\* Since a registered viewer connected, every broadcast was popped for it, is
\* in its ring, or is counted as dropped; only a failed malloc escapes the
\* count (ws_server.c:89,92).
Accounting ==
    \A v \in Registered :
        LET seen == Len(taken[v]) + ring[v].count + ring[v].dropped
        IN  IF v \in Oom THEN seen <= published - since[v]
                         ELSE seen = published - since[v]

\* Once lhc_ws_server_stop has returned nothing is connected, registered, counted
\* or allocated, then or later, wherever the service thread was when it began: a
\* callback still running would leave a frame behind or accept a connection that
\* outlives srv (ws_server.c:218-228).
StopLeavesNothing ==
    main = "stopped" =>
        /\ Open = {}
        /\ Registered = {}
        /\ viewer_count = 0
        /\ \A v \in Viewers : heap[v] = {}

\* The abstract feed: the rings are its queues, the table its members.
Feed == INSTANCE FrameFeed WITH
            MaxMembers <- MaxViewers,
            Unlucky <- Oom,
            members <- Registered,
            queue <- [v \in Viewers |-> Contents(ring[v])]

\* Every step of the two threads is a step of the feed or changes nothing it
\* shows.
ImplementsFeed == Feed!FeedSpec

\* A frame in the ring of a viewer whose socket keeps up does not stay there,
\* though nobody broadcasts again: the last frame before the display goes idle
\* is handed to lws_write, dropped for a newer one or lost with the connection.
FramesLeave ==
    \A v \in Fast, n \in Frames :
        n \in Held(ring[v]) ~> n \notin Held(ring[v])

\* lhc_ws_server_stop returns: the service thread sees running = 0 even when
\* it sleeps in poll(), and every connection is closed.
StopReturns == main = "stop_cancel" ~> main = "stopped"

\* README.md:36, ws_server.h:27: a frame is broadcast to all connected viewers.
\* False: session_add ignores a viewer beyond LHC_MAX_VIEWERS (ws_server.c:58),
\* which stays connected, and is not added when a place is free again.
AllViewersServed == main = "cancel" => Open \subseteq Registered
=============================================================================
