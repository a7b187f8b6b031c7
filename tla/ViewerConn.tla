----------------------------- MODULE ViewerConn -----------------------------
(***************************************************************************)
(* web/viewer.js, web/ws.js: how the viewer connects, and connects again.  *)
(*                                                                         *)
(* Every handler runs to its end on the page's event loop. The browser's   *)
(* WebSocket is external: close() only starts the closing handshake, and   *)
(* the close event comes later, also for a socket the page has replaced,   *)
(* because ws.js leaves its listeners on it. A socket past its close event *)
(* is garbage, and its name is used again.                                 *)
(*                                                                         *)
(* An operator named Faulty... is a plausible mistake in the definition    *)
(* that follows it.                                                        *)
(***************************************************************************)
EXTENDS Integers, FiniteSets

CONSTANTS
    Sockets,    \* names of WebSocket objects
    NoSocket,   \* ws = null
    MaxClicks,  \* bound: clicks on Connect
    MaxDowns    \* bound: times the server goes away

ASSUME ConnAssumption ==
    /\ IsFiniteSet(Sockets)
    /\ NoSocket \notin Sockets
    /\ MaxClicks \in Nat
    /\ MaxDowns \in Nat

VARIABLES
    ws,       \* the page's current socket
    ready,    \* ready[s]: the socket's readyState
    timers,   \* timers that will call doConnect
    latest,   \* reconnectTimer is one of them
    loaded,   \* DOMContentLoaded was dispatched
    server,   \* the server is up
    clicks,   \* clicks so far
    downs     \* times the server went away

pageVars == <<ws, ready, timers, latest, loaded>>
envVars  == <<server, clicks, downs>>
connVars == <<pageVars, envVars>>

Live == {s \in Sockets : ready[s] \in {"connecting", "open"}}

ConnInit ==
    /\ ws = NoSocket
    /\ ready = [s \in Sockets |-> "closed"]
    /\ timers = 0
    /\ latest = FALSE
    /\ loaded = FALSE
    /\ server = TRUE
    /\ clicks = 0
    /\ downs = 0

----------------------------------------------------------------------------
(* The page *)

FaultyCleared == timers - 1

\* Timers left when reconnectTimer, if it has not fired, is cleared.
Cleared == IF latest THEN timers - 1 ELSE timers

FaultyDoConnectKeepsOld ==
    \E s \in Sockets :
        /\ ready[s] = "closed"
        /\ ready' = [ready EXCEPT ![s] = "connecting"]
        /\ ws' = s

\* The current socket is told to close, and another one is made.
DoConnect ==
    \E s \in Sockets \ {ws} :
        /\ ready[s] = "closed"
        /\ ready' = [t \in Sockets |->
                       IF t = s THEN "connecting"
                       ELSE IF t = ws /\ t \in Live THEN "closing"
                       ELSE ready[t]]
        /\ ws' = s

\* DOMContentLoaded.
Load ==
    /\ ~loaded
    /\ loaded' = TRUE
    /\ DoConnect
    /\ UNCHANGED <<timers, latest, envVars>>

Click ==
    /\ clicks < MaxClicks
    /\ clicks' = clicks + 1
    /\ timers' = Cleared
    /\ latest' = FALSE
    /\ DoConnect
    /\ UNCHANGED <<loaded, server, downs>>

\* The timer set first; reconnectTimer is the one set last.
TimerFires ==
    /\ timers > 0
    /\ timers' = timers - 1
    /\ latest' = (latest /\ Cleared > 0)
    /\ DoConnect
    /\ UNCHANGED <<loaded, envVars>>

FaultyOnCloseReplacedOnly(s) ==
    /\ ready' = [ready EXCEPT ![s] = "closed"]
    /\ timers' = IF s = ws THEN timers ELSE Cleared + 1
    /\ latest' = IF s = ws THEN latest ELSE TRUE

FaultyOnCloseKeepsTimer(s) ==
    /\ ready' = [ready EXCEPT ![s] = "closed"]
    /\ timers' = timers + 1
    /\ latest' = TRUE

\* The handler of the close event, whichever socket s is.
OnClose(s) ==
    /\ ready' = [ready EXCEPT ![s] = "closed"]
    /\ timers' = Cleared + 1
    /\ latest' = TRUE

----------------------------------------------------------------------------
(* The browser's WebSocket and the server *)

Opens(s) ==
    /\ server
    /\ ready[s] = "connecting"
    /\ ready' = [ready EXCEPT ![s] = "open"]
    /\ UNCHANGED <<ws, timers, latest, loaded, envVars>>

\* The connection is refused or lost.
Fails(s) ==
    /\ ~server
    /\ s \in Live
    /\ OnClose(s)
    /\ UNCHANGED <<ws, loaded, envVars>>

\* The close event of a socket the page closed itself.
CloseEvent(s) ==
    /\ ready[s] = "closing"
    /\ OnClose(s)
    /\ UNCHANGED <<ws, loaded, envVars>>

ServerDown ==
    /\ server
    /\ downs < MaxDowns
    /\ server' = FALSE
    /\ downs' = downs + 1
    /\ UNCHANGED <<pageVars, clicks>>

\* No connection survives the process it was made to.
ServerUp ==
    /\ ~server
    /\ \A s \in Sockets : ready[s] # "open"
    /\ server' = TRUE
    /\ UNCHANGED <<pageVars, clicks, downs>>

ConnNext ==
    \/ Load \/ Click \/ TimerFires
    \/ \E s \in Sockets : Opens(s) \/ Fails(s) \/ CloseEvent(s)
    \/ ServerDown \/ ServerUp

ConnSpec == ConnInit /\ [][ConnNext]_connVars

(* The event loop dispatches every event and timer. While the server is up,*)
(* a handshake does not for ever take longer than the two seconds after    *)
(* which a timer may replace the socket.                                   *)
ConnFairness ==
    /\ WF_connVars(Load)
    /\ WF_connVars(TimerFires)
    /\ WF_connVars(\E s \in Sockets : Opens(s))
    /\ \A s \in Sockets : WF_connVars(Fails(s)) /\ WF_connVars(CloseEvent(s))

ConnFairSpec == ConnSpec /\ ConnFairness

----------------------------------------------------------------------------
(* Properties *)

ConnTypeOK ==
    /\ ws \in Sockets \cup {NoSocket}
    /\ ready \in [Sockets -> {"connecting", "open", "closing", "closed"}]
    /\ timers \in Nat
    /\ latest \in BOOLEAN
    /\ loaded \in BOOLEAN
    /\ server \in BOOLEAN
    /\ clicks \in 0..MaxClicks
    /\ downs \in 0..MaxDowns

\* The page never listens to two connections at once, or to one it has lost
\* sight of, whichever of clicks, timers and late close events come first: no
\* frame is drawn twice, and no connection fills a place of the server's table
\* for nothing (viewer.js:290).
OneLive == Live \subseteq {ws}

\* Only one timer is ever pending, and reconnectTimer is it: a click always
\* cancels the retry that is under way (viewer.js:303,316).
OneTimer == timers = (IF latest THEN 1 ELSE 0)

\* Once loaded, the page is never stranded: it is connected or connecting, or
\* a timer or a close event that will set one is on its way (viewer.js:298-304).
NeverStranded ==
    loaded =>
        \/ Live # {}
        \/ timers > 0
        \/ \E s \in Sockets : ready[s] = "closing"

\* When the server stays up, the page is connected again and again.
Reconnects == <>[]server => []<>(\E s \in Sockets : ready[s] = "open")

\* PLAN.md:89: "auto-reconnect on close". When the
\* server stays up, the page ends up connected. False: the close event of a
\* socket that doConnect itself closed sets a timer, which closes the socket
\* that replaced it, and so on for ever: one click on Connect is enough.
StaysConnected == <>[]server => <>[](\E s \in Sockets : ready[s] = "open")
=============================================================================
