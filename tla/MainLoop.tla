------------------------------ MODULE MainLoop ------------------------------
(***************************************************************************)
(* src/src/main.c: the thread that owns LVGL starts the server, refreshes  *)
(* the display at a steady pace and publishes each refresh, and takes the  *)
(* server down again after SIGINT. Composed with FrameFeed, which is what  *)
(* the server promises.                                                    *)
(*                                                                         *)
(* LVGL is external: it brackets a refresh by REFR_START and REFR_READY,   *)
(* refreshes in lv_refr_now and whenever its own timer is due in           *)
(* lv_timer_handler, and never in lv_deinit, which deletes the displays.   *)
(*                                                                         *)
(* The clock counts milliseconds modulo ClockMod. Time passes from one     *)
(* reading of the clock to the next.                                       *)
(*                                                                         *)
(* An operator named Faulty... is a plausible mistake in the definition    *)
(* that follows it.                                                        *)
(***************************************************************************)
EXTENDS FrameFeed

CONSTANTS
    ClockMod,       \* 2^32
    RefreshPeriod,  \* 33 ms
    MaxRound        \* the longest a round of the loop takes

\* A round ends long before the clock has gone round.
ASSUME MainAssumption ==
    /\ ClockMod \in Nat /\ RefreshPeriod \in Nat \ {0}
    /\ MaxRound \in Nat
    /\ RefreshPeriod + MaxRound <= ClockMod

VARIABLES
    pc,             \* where main is
    g_should_exit,
    srv,            \* the lhc_ws_server_t
    frame_open,     \* LVGL is between REFR_START and REFR_READY
    now, last_refr,
    seen,           \* ghost: the loop has read the clock, refreshed the display
    since           \* ghost: the time since it first did the one or last the other

clockVars == <<now, last_refr, seen, since>>
mainVars  == <<pc, g_should_exit, srv, frame_open, clockVars, feedVars>>

MainInit ==
    /\ FeedInit
    /\ pc = "create"
    /\ g_should_exit = FALSE
    /\ srv = "none"
    /\ frame_open = FALSE
    /\ now \in 0..ClockMod-1   \* the machine may have been up for any time
    /\ last_refr = 0
    /\ seen = "nothing"
    /\ since = 0

Goto(here, there) == pc = here /\ pc' = there

----------------------------------------------------------------------------
(* Start *)

\* lv_display_create, which may fail.
CreateDisplay ==
    /\ Goto("create", "start") \/ Goto("create", "exit1")
    /\ UNCHANGED <<g_should_exit, srv, frame_open, clockVars, feedVars>>

FaultyStartServer ==
    /\ Goto("start", "test")
    /\ srv' = "up"
    /\ g_should_exit' = FALSE
    /\ UNCHANGED <<frame_open, clockVars, feedVars>>

\* lhc_ws_server_start; the draw unit is given the server, the two handlers are
\* installed and the scene is built.
StartServer ==
    /\ Goto("start", "test")
    /\ srv' = "up"
    /\ UNCHANGED <<g_should_exit, frame_open, clockVars, feedVars>>

StartFails ==
    /\ Goto("start", "exit1")
    /\ UNCHANGED <<g_should_exit, srv, frame_open, clockVars, feedVars>>

----------------------------------------------------------------------------
(* A round of the loop *)

FaultyTick(d) == now + d

\* What tick_get_cb returns, d milliseconds after it was called last.
Tick(d) == (now + d) % ClockMod

\* The top of the loop.
Read(d) ==
    /\ Goto("test", "timers")
    /\ ~g_should_exit
    /\ now' = Tick(d)
    /\ seen' = IF seen = "nothing" THEN "clock" ELSE seen
    /\ since' = IF seen = "nothing" THEN 0 ELSE since + d
    /\ UNCHANGED <<g_should_exit, srv, frame_open, last_refr, feedVars>>

\* lv_timer_handler, when LVGL's timer does not refresh the display.
Timers ==
    /\ Goto("timers", "refresh")
    /\ UNCHANGED <<g_should_exit, srv, frame_open, clockVars, feedVars>>

\* The same, when it does: on_refr_start.
TimersRefresh ==
    /\ Goto("timers", "own frame")
    /\ frame_open' = TRUE
    /\ UNCHANGED <<g_should_exit, srv, clockVars, feedVars>>

FaultyDueSigned == now - last_refr >= RefreshPeriod

FaultyDueSum == now >= (last_refr + RefreshPeriod) % ClockMod

\* The difference of two u32.
Due == (now - last_refr) % ClockMod >= RefreshPeriod

\* lv_obj_invalidate and lv_refr_now, whose first event is on_refr_start.
Refresh ==
    /\ Goto("refresh", "frame")
    /\ Due
    /\ last_refr' = now
    /\ frame_open' = TRUE
    /\ seen' = "refresh"
    /\ since' = 0
    /\ UNCHANGED <<g_should_exit, srv, now, feedVars>>

NotDue ==
    /\ Goto("refresh", "sleep")
    /\ ~Due
    /\ UNCHANGED <<g_should_exit, srv, frame_open, clockVars, feedVars>>

\* on_refr_ready: the draw unit broadcasts the frame, unless it is empty or
\* overflowed.
FlushFrame ==
    /\ Goto("own frame", "refresh") \/ Goto("frame", "sleep")
    /\ frame_open' = FALSE
    /\ \/ \E lost \in SUBSET (members \cap Unlucky) : Publish(lost)
       \/ UNCHANGED feedVars
    /\ UNCHANGED <<g_should_exit, srv, clockVars>>

\* nanosleep; the statistics that may follow are only printed.
Sleep ==
    /\ Goto("sleep", "test")
    /\ UNCHANGED <<g_should_exit, srv, frame_open, clockVars, feedVars>>

----------------------------------------------------------------------------
(* The end *)

FaultyOnSigint ==
    /\ ~g_should_exit
    /\ g_should_exit' = TRUE
    /\ srv' = IF srv = "up" THEN "freed" ELSE srv
    /\ UNCHANGED <<pc, frame_open, clockVars, feedVars>>

\* on_sigint, at any time: it does nothing but set the flag.
OnSigint ==
    /\ ~g_should_exit
    /\ pc \notin {"exit0", "exit1"}
    /\ g_should_exit' = TRUE
    /\ UNCHANGED <<pc, srv, frame_open, clockVars, feedVars>>

LeaveLoop ==
    /\ Goto("test", "stop")
    /\ g_should_exit
    /\ UNCHANGED <<g_should_exit, srv, frame_open, clockVars, feedVars>>

\* lhc_ws_server_stop up to pthread_join: the service thread is gone.
StopThread ==
    /\ Goto("stop", "close")
    /\ UNCHANGED <<g_should_exit, srv, frame_open, clockVars, feedVars>>

\* The rest of it, once lws_context_destroy has closed every connection.
Free ==
    /\ Goto("close", "deinit")
    /\ members = {}
    /\ srv' = "freed"
    /\ UNCHANGED <<g_should_exit, frame_open, clockVars, feedVars>>

Deinit ==
    /\ Goto("deinit", "exit0")
    /\ UNCHANGED <<g_should_exit, srv, frame_open, clockVars, feedVars>>

----------------------------------------------------------------------------
(* The server's thread and its peers *)

ServiceThread(v) ==
    /\ srv = "up"
    /\ \/ pc # "close" /\ (Take(v) \/ Join(v))
       \/ Leave(v)
    /\ UNCHANGED <<pc, g_should_exit, srv, frame_open, clockVars>>

MainThread ==
    \/ CreateDisplay \/ StartServer \/ StartFails
    \/ \E d \in 0..MaxRound : Read(d)
    \/ Timers \/ TimersRefresh \/ Refresh \/ NotDue \/ FlushFrame \/ Sleep
    \/ LeaveLoop \/ StopThread \/ Free \/ Deinit

MainNext ==
    \/ MainThread \/ OnSigint
    \/ \E v \in Viewers : ServiceThread(v)

\* The main thread is scheduled, and lws_context_destroy closes what is open.
MainFairness ==
    /\ WF_mainVars(MainThread)
    /\ WF_mainVars(pc = "close" /\ \E v \in Viewers : ServiceThread(v))

MainSpec == MainInit /\ [][MainNext]_mainVars

MainFairSpec == MainSpec /\ MainFairness

----------------------------------------------------------------------------
(* Properties *)

MainTypeOK ==
    /\ pc \in {"create", "start", "test", "timers", "own frame", "refresh",
               "frame", "sleep", "stop", "close", "deinit", "exit0", "exit1"}
    /\ g_should_exit \in BOOLEAN
    /\ srv \in {"none", "up", "freed"}
    /\ frame_open \in BOOLEAN
    /\ now \in 0..ClockMod-1
    /\ last_refr \in 0..ClockMod-1
    /\ seen \in {"nothing", "clock", "refresh"}
    /\ since \in Nat

\* Whatever the time of SIGINT, a frame is open only while there is a server to
\* broadcast it, and connections only while there is one to serve them
\* (main.c:33,496). g_ws is not part of it: the draw unit keeps the pointer after
\* the server is freed, and only a refresh in lv_deinit would use it.
ServerOutlivesUse == (frame_open \/ members # {}) => srv = "up"

\* From one forced refresh to the next, at least RefreshPeriod passes between the
\* readings of the clock, also when it wraps in between (main.c:472).
RefreshPaced ==
    [][pc = "refresh" /\ pc' = "frame" /\ seen = "refresh" => since >= RefreshPeriod]_mainVars

\* No round of the loop leaves an overdue refresh behind, whatever the uptime of
\* the machine was at the start and however often the clock wraps: the display
\* is refreshed at the latest one round after RefreshPeriod is over.
RefreshOnTime == pc \in {"frame", "sleep", "test"} => since < RefreshPeriod

\* SIGINT ends the program, also one that arrives before the loop begins
\* (main.c:32,469).
ExitsWhenAsked == g_should_exit ~> pc \in {"exit0", "exit1"}
=============================================================================
